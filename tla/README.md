# Verification of deviation-protocol

TLA+ models of the parts of deviation-protocol whose correctness depends on what
happens between two database transactions, two workers or two requests; TLC
configurations that check them on small instances; and TLAPS proofs that the most
important of their properties hold for any number of workers and requests.

Paths below are relative to the repository; `application/`, `domain/`,
`infrastructure/` and `api/` are under `src/deviation_protocol/`.

## 1. The system

deviation-protocol is a server for text-driven scenario games. A player creates
a character, opens a session of a scenario, and posts actions. Cheap actions are
resolved by local rules; the others need a text from a paid narrative provider.
Everything durable is in MySQL; workers are stateless asyncio processes. The Demo keeps the same rows in memory, in one process.

| component | state it keeps | operations | hard behaviour |
|---|---|---|---|
| Durable narrative turns (`application/narrative_turn_orchestrator.py`, `narrative_jobs.py`, `turn_orchestrator.py`) | `game_sessions.state_version`, `domain_events`, `game_snapshots`, `turn_requests`, `narrative_jobs` | `handle`: prepare, claim, call, store, finalize; record a failure | three transactions with a provider call between them; leases, takeover, repetition, crash |
| Run lifecycle (`run_service.py`, `native_run_admission.py`, `run_entry_service.py`, `run_exit_service.py`, `run_continuation_service.py`, `run_revisit_service.py`, `run_completion_service.py`, `fog_continuation_service.py`, `domain/run*.py`, `domain/world_*.py`) | run revisions and head, participations, mutation receipts and evidence | create, bind, admit a session, exit, continue, revisit, complete | lock order character, run, session; receipts; commit whose outcome is unknown |
| Player characters (`player_character_service.py`, `player_character_operations.py`, `domain/player_character*.py`) | character revisions and head, receipts | create, define, progress, terminate | compare-and-swap revisions, replay by receipt |
| Session creation and reads (`session_service.py`) | `game_sessions` creation key | create, view, request status | two creations under one key |
| Unit of work (`infrastructure/unit_of_work.py`) | transaction, named lock | begin, commit, rollback, release | failure of commit, unlock or close |
| Story director, clocks, decisions (`story_director.py`, `domain/scenario_runtime.py`, `decision_cadence.py`) | scenario runtime inside the snapshot | advance a beat, open and resolve decisions, end | long legal sequences |
| Rules and effects (`rule_resolver.py`, `action_gateway.py`, `effect_executor.py`) | inventory, resources inside the snapshot | resolve an action | boundary values |
| Run protocol mechanics (`domain/run_protocol*.py`, `native_turn_mechanics.py`) | resources inside the snapshot | select and apply a protocol outcome | arithmetic at bounds |
| Player memory (`domain/player_memory.py`, `memory_rules.py`) | memory records inside the snapshot | apply rules to receipts | capacity and order |
| Dynamic narrative turns of the Demo (`dynamic_narrative_orchestrator.py`) | a process-local ledger of attempts beside the rows above | `handle`: reserve, publish, claim, call, store, finalize, settle, signal; follow; poll | cancellation at every await, commits that raise, duplicates waiting on one owner |
| Opening preparation (`opening_preparation.py`) | preparation rows | prepare, choose | idempotency |
| Demo persistence (`infrastructure/demo_persistence.py`) | in-memory maps, `asyncio` locks | stage, publish, roll back | isolation without a database; locks without a timeout |
| Web client (`web/src/App.tsx`, `sessionRecovery.ts`) | one foreground operation, a recovery record | post, poll, recover | answers that arrive after the operation was replaced |
| Scenario loader and analyzer (`domain/scenario.py`, `application/scenario_analysis.py`) | none | admit a draft, report what cannot happen in it | a report that is wrong about some play |
| API, provider adapters, row codecs, migrations | none of their own | parse, map, encode | – |

Components interact through the rows: turns and run operations of a session both
lock its `game_sessions` row; the run operations require the session's story to
have ended, which only a turn can bring about; the status query reads what turns
wrote; the web client acts on that status.

## 2. Modules

| module | what it is |
|---|---|
| `NarrativeTurn` | the durable turn boundary of one session, actions and properties |
| `TurnLedger` | what a session promises about requests, with no workers or leases |
| `MCNarrativeTurn` | its instances for TLC: model values and symmetry |
| `NarrativeTurnSafety` | type correctness, the inductive invariant and the safety theorems |
| `RunLifecycle` | the runs of one character: admission, turns, exit, continuation, revisit, completion, retirement |
| `RunStory` | what the run services promise a player, with no handlers, transactions or locks |
| `MCRunLifecycle` | its instances for TLC: the requests clients post, symmetry |
| `RunLifecycleProofs` | lemmas on families, sessions, locks and jobs, the inductive invariant, the safety theorems and the refinement of `RunStory` |
| `DynamicNarrative` | the turn boundary of the dynamic Demo: ledger, jobs, owners, followers, polling |
| `TurnPromise` | what it promises its callers, with no ledger, jobs or tasks |
| `MCDynamicNarrative` | its instances for TLC: symmetry |
| `DynamicNarrativeProofs` | kinds of steps, the inductive invariant, the safety theorems and the refinement of `TurnPromise` |
| `CharacterLedger` | the rows of the character, run, opening and session tables, and each operation's verdict over them |
| `CharacterEntry` | concurrent calls of the services on those rows: locks, snapshots, inserts, commits, recoveries |
| `CharacterLedgerProofs` | what whole tables are, row by row; which additions keep them whole; that the repositories' validity follows |
| `CharacterEntryProofs` | the inductive invariant of `CharacterEntry` and its theorems |
| `MCCharacterEntry` | the mixes of calls TLC runs |
| `ScenarioContent` | what a scenario definition is, and what the loader demands of one |
| `StoryEngine` | the deterministic director as operators: one advancement, stage by stage, and every reason to refuse it |
| `ScenarioAnalysis` | the static analyzer as operators: what it rules out |
| `StoryDirector` | a session's story: the policies in front of the engine, actions and properties |
| `ScenarioDrafts` | the six scenarios of `config/scenarios/`, a draft of traps and three faulty drafts |
| `MCStoryDirector` | its instances for TLC, with a view |
| `StoryDirectorProofs` | one lemma a stage: type correctness, progress, soundness of the static analysis |
| `NativeFamily` | what a run's whole family of rows must be, from world to world, before it is loaded |
| `DurableSchema` | primary, unique and foreign keys and checks of the tables, stated over rows |
| `DemoRepositories` | what the Demo's repositories demand of a unit of work before they stage its rows |
| `DemoStore` | the Demo's store: units of work with locks, staging, publication, cancellation, over every service |
| `MCDemoStore` | the pairs of scripts TLC runs |
| `DemoStoreProofs` | the lock order and what keeps it stable: deadlock freedom; what the published rows and maps owe each other, and that every service keeps it: the store stays whole |
| `DemoStoreLocks` | who may write what under which lock: nobody is overtaken, and rows collide only between creations |

### 2.1 NarrativeTurn

One session, because every lock, unique key and check in the code is scoped to
one. `Workers` are concurrent executions of `handle()`, in one process or in
many; each has a program counter (`worker[w].pc`) and the local variables the code carries
from one transaction to the next (the request, the view of the preparing
transaction, the lease it was given, the pending verdict).

| phase of the code | actions |
|---|---|
| a client posts an action | `Submit` |
| `_prepare_or_execute` takes the session lock and reads | `Prepare` |
| ... replays a stored response | `Replay` |
| ... meets the request's existing job | `MeetConflict`, `MeetOldSchema`, `MeetExpired`, `MeetOpen`, `MeetClosed` |
| ... resolves locally and commits | `ResolveUnchanged`, `ResolveChanged`, `ResolveTemplate` |
| ... prepares a job | `ResolveNarrative` |
| `_claim` | `ClaimPrepared`, `ClaimValidated`, `ClaimExpired`, `ClaimRefused` |
| `_detach_request` and the call | `Detach`, `DetachStale`, `DetachTooLarge`, `Answered`, `CallFailed` |
| `_store_validated_proposal` | `Store`, `StoreTooLate` |
| `_finalize` | `Finalize`, `FinalizeStale`, `Commit`, `CommitRefused` |
| `_set_terminal_status` | `Record` |
| clock, death, deployment | `LeaseExpires`, `LeaseLate`, `Crash`, `Deploy` |

A transaction that holds the session lock between its reads and its commit is two
steps, so everything that does not take that lock (claims, stores, verdicts,
the clock) can happen between them. A transaction that locks and writes one job
row is one step. Two details are deliberate: the worker's own copy of
`lease_expires_at` has microseconds while the column rounds to seconds, and
`_store_validated_proposal` uses the copy, so `late` and `expired` are separate
bits; and the lease check that precedes the commit of `_finalize` is part of the
commit step.

A rejection, an exception that `handle()` lets through and the death of a worker
look alike from outside: the transaction rolls back, nothing else changes. They
are one action, `Crash`. That includes `CandidateStateInvalidError` in `_finalize`, which
`_finalize_or_record` does not catch: the job stays PROPOSAL_VALIDATED and every
takeover meets the same error.

What is abstracted: the game state is its version and the sequence of requests
applied; a proposal is one the outcome policy will accept or refuse; text and
prompts are left out. `DetachStale` and `FinalizeStale` follow from lease, status and version;
the further comparisons (frame, memory, fingerprint, native decision) are
functions of the state at that version, so they can fail only if the running
code differs from the one that prepared the job without a new prompt schema.

`TurnLedger` gives each request one outcome: open, pending, applied, noted or refused.
`NarrativeTurn` implements it under the mapping at its end.

### 2.2 RunLifecycle

One player character, because an active run binds its character and every row lock
of an operation is taken under the character's. The named lock is the server's; its other
holders only make a request wait or time out. `Handlers` are concurrent
HTTP handlers of one or several processes, each with at most one request.

Every operation has the same two transactions. The plain reader finds the run (and
prepares the next session, for `continue` and `revisit`); nothing of it is locked when it ends.
The native writer takes the named lock, reads everything again under row locks, and
replays a receipt, refuses, or writes and commits.

| phase of the code | actions |
|---|---|
| native entry (`native_run_admission.py`) | `Admit` |
| turns and narrative jobs (the rows of `NarrativeTurn`) | `LocalTurn`, `StartJob`, `FinishJob`, `DropJob` |
| retirement, final death (`player_character_service.mutate`) | `Retire` |
| a client posts an operation | `Post` |
| reader transaction | `Read`; revisit and complete already answer here when there is a receipt |
| `GET_LOCK` | `Lock`, `LockTimeout` |
| under the row locks | `Replay`, `RefuseKey`, `Refuse`, `Stage` |
| `commit` | `Commit`, `CommitUnacknowledged` |
| what the database then does with it | `OrphanCommits`, `OrphanRollsBack` |
| `_cleanup` | `Close`, `CloseFails` |
| a lost connection, a dead process | `LoseConnection`, `Crash` |

`family[r]` is what `_classify` makes of a run's rows: the nine families of
`run_protocol_binding.py` and `fog_patrol.py`. `Succession` lists which operation
turns which family into which, and `Visits(family) + 2` is the run's version.
A session is its state version, whether its story has ended ("onward" when the
ending admits the journey's next operation, "final" at any other), and
the version of the session it was prepared from. The evidence of a continuation, revisit or
ending is the snapshot it captured (`sealed`).

An operation's flushed rows are `staged` until the COMMIT is executed, and `Apply`
is what it does, at once. A handler whose acknowledgement is lost answers
"unknown" and leaves the connection to the database: `native_lock` = `Orphan`, and the
COMMIT is executed or rolled back at any later time.

What is abstracted: `RUN_..._NOT_AVAILABLE` and `RUN_..._STALE` are one answer, `REFUSED`;
the row locks of an operation (character, run, sessions) are taken in the step that
stages its writes, since whoever holds one of them waits for nothing that the
operation holds. A request names its run and visit, which the code looks up from the session id.
MySQL's snapshot of the reader transaction (repeatable read) is one step.
Selection of the next scenario, the content of evidence and the classifier's
comparisons of bytes are left out: they are functions of what is kept.

`RunStory` has six actions (`Enter`, `Turn`, `GoOn`, `Leave`, `Complete`, `Retire`);
`RunLifecycle` implements it under the mapping at its end. A behaviour in which a
sealed session changes, an operation is applied twice, or a journey goes on while
another is open is not one of its behaviours.

### 2.3 DynamicNarrative

One session of the Demo, whose ledger, locks and keys are scoped to one. `Callers` are
asyncio tasks of one process, each running `handle()` or the status query. The ledger is
an in-memory map from request to attempt; the task that reserved an attempt owns it, every other
caller of the request waits on the attempt's future.

| phase of the code | actions |
|---|---|
| `_existing_reservation`, `_resolve_attempt` | `Arrive`, `ResolveKnown`, `ResolveRefused`, `ResolveFresh` |
| `_reserve` | `Reserve` |
| `_publish_job`, `_mark_published`, `_reconcile_publication` | `Publish`, `PublishRefused`, `Mark`, `Probe` |
| `_claim`, `_before_provider_entry`, `_generate_dynamic` | `Claim`, `Enter`, `CallAgain`, `CallEnds` |
| `_store_validated`, `_finalize` | `Store`, `Finalize`, `Commit` |
| `_reconcile_finalize_boundary` | `Classify`, then settling in phase "old" or "unsure" |
| `_record_terminal_job`, `_stabilize_published_job` | `Record`, `SettleClaim`, `Settle` |
| `_reconcile_terminal`, `_terminal` | `Reread`, `Signal` |
| `_follow`, `_authoritative_replay` | `Follow`, `Replay` |
| `get_narrative_request_status`, `request_is_terminal_uncertain` | `Poll`, `PollEnds` |
| a transaction fails, the task is cancelled | `...Breaks`, `PublishCancelled`, `Leave`, `Remember` |
| clock, end of the Run | `Expire`, `Unbind` |

Every await is a place where another task runs, where a transaction may fail and
where the task may be cancelled. `_await_retained` shields work and remembers
the cancellation; the phases in `Retained` are that work, and there
`Remember` only sets a bit. A cancellation elsewhere sends the owner
to the settling its `except` clauses prescribe. A job-row transaction is one step; finalizing
locks the session at its reads (`Finalize`) and commits later (`Commit`), with leases
expiring, Runs ending and job rows changing between.

`AmbiguousCommits` chooses the store. FALSE is the Demo's: `DemoUnitOfWork.commit` publishes
without an await, so a commit that raised published nothing, and its exit cannot
fail. TRUE is what the orchestrator is written for: a commit that raised may have been published.

Details that are deliberate. A refusal is recorded where it is met and again in `_owner`,
so `RecordBreaks` may leave a FAILED_TERMINAL row. Settling after a
cancelled call may itself fail; its exception then replaces the cancellation
(`AfterFailing`). Work left by an older prompt schema is made STALE when its request is
seen again (`Outdated`). `IDEMPOTENCY_CONFLICT`, capacity and a missing
authority tell a caller nothing about the request, so they are not among `answers`.

What is abstracted: a submission's fingerprint is a `Form`; the view it was made on is
the session's version; whether a candidate's text is usable is a choice. The binding of a ledger bucket
(Run, scenario, character revision) cannot differ while the Run is active, and
`Unbind` stands for every way in which `_load_dynamic_authority` stops accepting the session. A restart of the process
replaces ledger and store together, so there is no step for it. The settling loop's
limit on lost races is one of the failures of `SettleBreaks`.

`TurnPromise` knows applied turns, closed requests and answers. `DynamicNarrative`
implements it under the mapping at its end, for both kinds of store.
### 2.4 CharacterLedger and CharacterEntry

`CharacterLedger` is data and decisions. The tables are one set of rows, because the code
only inserts: a revision is never rewritten, the row of a `*_current` table is the newest
revision, and a confirmed opening is an offer with a confirmation beside it. The verdict of an
operation takes `S`, what it reads under lock, and `V`, what its plain reads see, and gives the
answer and the rows to insert. `ValidCharacter`, `ValidRun` and `ValidOpening` are what the
repositories demand of a family of rows before they load it; every read repeats
them, so a contradiction, once committed, fails every later call on that character or run.

`CharacterEntry` runs the verdicts. One call is one request in one transaction:

| step of the code | actions |
|---|---|
| exit finds its run before it asks for the named lock | `Target` |
| `GET_LOCK`, thirty seconds | `Gate`, `GateTimeout` |
| `confirm` reads its offer before any row lock | `Peek` (fixes its snapshot) |
| character row, then its owner's binding, `FOR UPDATE` | `Lock` |
| the first creation of a player inserts the binding | `AddBinding` |
| receipts, policy, active run, opening | `Decide` |
| flushed inserts and unique keys | `Write`, `Clash` |
| second, read-only transaction of a loser | `Recover` |
| commit, acknowledgement lost, connection lost | `Commit`, `CommitUnknown`, `Fault` |

The isolation is the one the integration test asserts (REPEATABLE READ): locking
reads see what is committed, plain reads the snapshot of the first plain read,
and an insert waits for an uncommitted row with its key. A plain read after the first row
lock sees the same as a locking read unless a key of another character is involved, so only
`confirm` keeps a `view`. The older entry and the
native entry derive their operation identities in different namespaces, so one public key may enter by both; the
character's lock, not the key, keeps it to one run.

Bounds: every mix is four calls because the hazards are between two or three of them
and one that observes; the mixes are chosen by hand, one for each hazard, and TLC runs all interleavings of each.
Exit is abstracted to its outcome on a run whose session has ended (`RunLifecycle` has it in full).
Abstracted too: InnoDB's gap locks, whose victims are a `Fault`; the internal allocation
of identifiers, which are the number of the call that issues them; the run protocol, whose refusals are an unknown world here.

### 2.5 ScenarioContent, StoryEngine, ScenarioAnalysis and StoryDirector

A scenario definition is a record: phases, places, facts, clues, groups, clocks, decision windows,
endings, outcome rules. `ContentValid` is the loader's validation of one, with the graph of its phases;
only drafts that pass it are played. `Analyze` is the report of the static analyzer. Neither moves.

`StoryEngine` is `DeterministicStoryDirector.advance_after_verified_result`. One advancement runs through
`ApplyEvent`, `AfterBeat` (the beat is counted, then clocks, then clue groups), `ApplyTransition`,
`ApplyEnding` and `OpenDecision`, each reading what the earlier ones wrote; `Refusals` collects
every reason for which the code would have raised on the way, because the order of the checks
only decides which one is named.

`StoryDirector` plays a story for one session and one set of profession tags:

| request | action | code |
|---|---|---|
| the player lets the story go on | `Continue` | `ScenarioContinuePolicy`, an advancement without an event |
| answers the open decision | `Choose` | the choices of `_decision_payload`, `issue_decision_response` |
| answers one from an earlier frame | `ChooseStale` | `bind_public_decision_frame` |
| acts, and has the outcome narrated | `Act` | `allowed_narrative_outcomes`, `NarrativeEventIssuer.issue` |

Which of the allowed outcomes the provider chooses and which rules' terms the player's words meet are
free. The advancement is committed whole or refused whole, as a transaction is in `NarrativeTurn`, whose
job also pins the version an outcome was authorized on.

Details that are deliberate. The engine counts the beat before it tries the transitions, so that a transition which waits for
a beat one beyond the last of its phase is taken, although the analyzer reports it untraversable; `AnalysisIsSound`
leaves exactly those out (`PastLast`). Nor does it say anything of `unchangeable_mutable_fact_ids` (`UnchangeableFacts`): the analyzer looks for
updates in outcome templates only, while the choices of a decision also record facts, and in the shipped scenarios they move some of the
facts it lists; its diagnostic does not claim more ("No outcome template declares a legal update"). The four profession tags of `death_certificate` that open the
same choices are one. The drafts in `ScenarioDrafts` are the shipped files as records; fog station, fog patrol and wind gate, whose
phases are one encounter each, are built from their steps.

Left out: native clock plans, `select_native_outcome` and the memory
rules, the limits on outcomes, the public client block of a scenario, constraints on custom actions, the cadence's pacing
heuristics, dynamic facts and the rendering of a frame.

### 2.6 NativeFamily, DurableSchema, DemoRepositories and DemoStore

`NativeFamily` extends the rows of `CharacterLedger` by what a native run writes after its admission:
visits, worlds as they were left, evidence, the position. `Classify` is the family a run's
rows make up - admitted, continued, revisited, completed, fog, exited - or "broken", which fails
every later operation closed. `DurableSchema` says what MySQL would take: the keys, references and checks of
every table. `DemoRepositories` adds what the Demo's repositories demand while staging.

`DemoStore` runs every service that the Demo's compositions wire to its store. A task follows a script of
requests; what a client sends along (run, session, both versions) is what the store showed
when it sent it.

| step of the code | action |
|---|---|
| a request arrives, a unit of work is entered | `Begin` |
| one `asyncio` lock more, in the service's order | `Acquire` |
| reads, decides, stages | `Work` |
| `commit`: every check, then the maps are replaced | `Publish` |
| the loser of a session's creation, or of an admission's, looks it up | `Recover` |
| cancelled at an await: rollback, locks released | `Cancel` |

The maps of the code are five components: rows that are only inserted, the versions of sessions, their snapshots, the
position of a run, jobs and provider progress. Turns read and write under the session's lock, run operations lock
character, run and session, entries character and run (an entry or a confirmation that is answered again the run and the first
session it made, one whose receipt is of another request nothing more); claiming, storing and expiring a job lock nothing and rely
on the fence in `JobsFit`. `Merge` is publication; a unit of work that raised or was cancelled leaves the
maps alone and puts the version back that staging had raised in its caller's session object (`RolledBack`: only what was staged
since is undone). `Objection` names the checks of `_publish_atomically` in their order; openings come last, after the families.
Most of these locks are looked up in the store while earlier ones are held, so `LockOrder` is a function of the store and the next
lock may change while a unit of work waits. What the code never does with the store is an assumption: `SeedAssumption`, a
process starts without runs, at most with players and characters that are whole (a player's binding names nobody else), and `ScriptAssumption`, requests have the fields of the services' commands.

What differs from the code. An await is allowed between any two steps, also where the code has none, and the lock that
`native_demo.py` holds around a session's turns is left out, so the model has more interleavings than the program.
`attach_session` locks session before run, against the order of the other services; no composition calls it, and
it is not modelled. The lock that an admission takes on the run it has just made is left out, as nobody else knows that run.
Bytes, digests, timestamps and the values of the resolution protocol are abstracted. Turns of
the authored fog worlds keep no refused response and have no jobs, as in the code.

## 3. What TLC checks

Every property of a passing run has a mutant in `PROJECT.json`: a plausible bug of the
code (a lock not taken, a token not renewed, a row left out of a transaction), kept beside the
definition it replaces, with which TLC finds the property violated.

| run | instance | question |
|---|---|---|
| `safety` | 2 executions, 2 requests with 2 actions each, 3 tokens, 2 versions, 1 deployment | does a request change the game at most once; do answers stay true (`AppliedOnce`, `CommitIsAtomic`, `AnswersHold`); fencing (`LeaseFencing`, `OnlyHolderCommits`, `ProviderCalledOnce`); `NarrativeTurn` implements `TurnLedger` |
| `liveness` | 2 executions, 1 request | `JobSettles`: a job is settled if its client repeats the request |
| `polling` | 2 executions, 2 requests | a violation: see below |
| `run_journey` | 2 handlers, 2 runs of one character, 1 key: each operation and the exit that rivals it, at every visit; a second run; 1 turn a visit | `StorySpec` (refinement), `SealedSources`, `NoFalseRefusal`, `TypeOK` |
| `run_rivals` | 2 handlers, 1 run, 2 keys, up to 2 turns, fair: same operation under two keys, a key reused, versions yet to come | `ReceiptsMatch`, `StagedIsCurrent`, `CarryoverIsExact`, `SuccessIsDurable`, `LockComesFree` |
| `dynamic_attempt` | 2 tasks, 1 request (a suggestion that may be a leftover) with 2 contents, 2 failures, 2 cancellations, ambiguous commits, fair | `LedgerTellsTheTruth`, `NoOrphanedAttempt`, `AnswersOwnSubmission`, `PromiseSpec` (refinement), `EveryCallReturns` |
| `dynamic_rivals` | 2 tasks, 3 requests, capacity 2, 1 failure, the Demo's store | `TurnsAreWhole`, `RefusalIsFinal`, `CommittedIsNotHidden`, `CapacityHolds`, `TypeOK` |
| `dynamic_outcome` | 2 tasks, 1 request, nothing fails | a violation: see below |
| `character_entry` | 22 mixes of 4 calls on one character and a newcomer, 2 worlds, 2 talent choices, 4 revisions, 1 fault | `NothingFailsClosed`, `CharacterIsSpokenFor`, `AnswersAreOnRecord`, `AlarmsAreReal`, `ListedCanStart`; no deadlock |
| `story` | the six shipped scenarios and a draft of traps, for every set of profession tags; three faulty drafts at the loader | `ContentIsPlayable` (`RefusalsAreDeadEnds` and `ShownStateIsPlannable`), `AnalysisIsSound`, `ProgressIsKept`, `TypeOK` |
| `story_softlock` | `death_certificate` | a violation: see below |
| `demo_store` | 24 pairs of scripts, 2 tasks, 1 cancellation: whole journeys, turns, jobs, entries, openings and sessions, each against a rival, also of a second character or of a player's first | `LocksSuffice` (maps of one moment, such as the tables would take; no turn overtaken under its lock, rows collide only where no lock is meant to help), `EverythingReadsBack` (every family is whole when read, staged and published), `LocksAreNoTrap` (no circle of waiters, objects restored); no deadlock |

For `StoryDirector`: nothing is bounded; a story is finite because beats, visits and uses are. TLC's view forgets what the last
request was told and, of the narrated outcomes, all but the rules they took and who acknowledged: no step
reads the rest. The draft of traps has a loop of phases, a phase, a clock, a clue and an ending out of reach,
a window that comes back and a choice for one profession; the three faulty drafts (a spin of automatic transitions,
a required phase nothing leads to, a group that asks for a professional clue) never reach the catalog. Every reason
in `DeadEnds` occurs except "unplannable".

For `DemoStore`: two tasks, because a lock or a fence is between two; one of the two goes through a whole journey, so its rival
meets every state of it. One cancellation, at any await of any unit of work. Every family of `Classify` but "broken" is
reached, and of the refusals `STALE_REQUEST`, `NOT_AVAILABLE`, `IDEMPOTENCY_CONFLICT`, `FENCED`, `JOB_STALE` and `JOB_ACTIVE`.

Bounds. Two executions are enough for every pairwise race: two of one request, or one of each of two;
three tokens let a lease be lost and taken over twice. Whether a third execution could matter (a holder, its successor and a stale
predecessor at once) is answered by the proofs, which hold for any number of them. Tokens are reused once nobody carries them,
so their number bounds concurrent leases, not leases over time. `MaxVersion` = 2
lets a request act on a state that another has moved.

Fairness (`RetryingSpec`). Executions advance weakly fairly; taking the session lock is
strongly fair because InnoDB grants row locks in turn; crashes stop eventually
and a lease of minutes is not outlived by transactions of milliseconds (`Timely`). The
client repeats the request while its job is active. Without that repetition
nothing resolves an expired `IN_PROGRESS` row, which is the finding:

**Finding.** `docs/architecture.md:1387` says an expired IN_PROGRESS job becomes
OUTCOME_UNKNOWN. In the code that happens only when the same `client_request_id` is posted
again; the status query reports PENDING and advises to poll, whatever the lease.
The web client posts each action once and then polls. Run `polling` shows the job
staying IN_PROGRESS for ever under that client, with the session closed to
other changing actions.

For `RunLifecycle`: two handlers are one that holds the lock (or has lost it) and one
that races it; a third could only wait. One turn a visit is enough for a session to
move after a reader read it; `run_rivals` allows two, so that a request can be stale and become
true again. Deadlock is not checked: a retired character whose clients ask for nothing is at rest.
`FairSpec` assumes that a handler goes on (`WF` of `Progress`, which leaves out crashes and lost connections: `GET_LOCK` has a
limit, so waiting is never for ever) and that the database finishes a COMMIT it was sent or rolls it back. Nothing is
assumed of clients, turns or jobs.

**Finding.** `docs/dynamic_narrative_vertical_spike_plan.md:2773` says that an owner and its
duplicate reconcile to one outcome, and line 3087 that a lease mismatch is
`NARRATIVE_JOB_STALE`. If the lease has run out when the candidate is to be
stored (`dynamic_narrative_orchestrator.py:2063`), the stale error is raised outside
the `try` that records STALE: `_reconcile_terminal` settles the row OUTCOME_UNKNOWN, so the owner
is told stale, and its duplicates and every later poll are told that the outcome is unknown.
Run `dynamic_outcome` shows it with no failure or cancellation.

For `DynamicNarrative`: a request has one owner at a time and its followers do not
affect each other, so two tasks are an owner and a follower, or two owners of rival
requests. Two failures and two cancellations let settling fail after what it settles
failed, and a cancellation arrive during it. Deadlock is checked. `FairSpec` assumes that the event loop runs
each task that can run (`WF` of `Progress`); the provider's call
ends because the adapters give it a timeout. Failures, cancellations, clock and arrivals are not fair.

**Finding.** `docs/public_client_contract.md:1452` says of an open decision "Submit one displayed choice". In `death_certificate`
the third route can be opened in the last beat of the investigation while the patient's condition is not recorded. Each
displayed choice then counts one more beat, which reaches `max_auto_beats` with no transition
eligible, and `story_director.py:285` raises; continuing and narrated actions are refused because the decision
is pending. The session can never move again. Run `story_softlock` shows a way there. The analyzer
does not report it, since every phase has a way out for some runtime.

## 4. What is proved

For every value of the constants (any workers, requests, signatures, tokens and
bounds), from the assumptions `NullAssumption` (the null values are not ordinary
ones) and `BoundAssumption` (types of the bounds):

| theorem | statement |
|---|---|
| `TypeCorrect` | `Spec => []TypeOK` |
| `Invariance` | `Spec => []IInv` |
| `OneActiveJob` | at most one active job |
| `VersionPinned` | the session stays at the version an active job was prepared from |
| `ExactlyOnce` | each request applied at most once |
| `Atomicity` | event, response and COMMITTED job exist together |
| `OneProviderCall` | the provider is called at most once for a request |
| `LeasesFence` | no lease is held twice |
| `AnswersAreKept` | what clients were told stays true; no COMMITTED job without response |
| `CommitIsFenced` | `Spec => [][...]`: only the holder of lock and lease commits |
| `KeepsTheLedger` | `Spec => Ledger!Spec`: `NarrativeTurn` implements `TurnLedger` |

For `RunLifecycle`, for any handlers, runs, keys, requests and bounds, from `LockAssumption`
(the lock's two extra values are no handlers), `RequestAssumption` and `VersionAssumption` (types):

| theorem | statement |
|---|---|
| `Invariance` | `Spec => []IInv` |
| `TypeCorrect` | `Spec => []TypeOK`; sealed evidence is of an ended story |
| `OneJourneyAtATime` | one run binds the character at most |
| `SourcesStaySealed` | a session that was left never moves again |
| `ReceiptsAreTheHistory` | exactly the receipts of the operations that made the run |
| `StagedStaysCurrent` | what is flushed stays true until it is committed |
| `CarryoverStaysExact` | a visit begins with what the visit before ended with |
| `WritersExclude` | only the holder of the named lock has writes in flight |
| `SuccessStaysDurable` | success, once told, is true |
| `RefusalsAreTrue` | `Spec => NoFalseRefusal`: a refusal is never false |
| `ServicesTellTheStory` | `Spec => StorySpec`: `RunLifecycle` implements `RunStory` |

The argument for `RunLifecycle`. The heart is `StagedIsCurrent`: it is preserved by turns because a
staged operation needs an ended story and turns need an open one, by other
handlers because `OneWriter` gives them nothing staged, and by admission and
retirement because an eligible run is open. Applying a staged write then keeps
`ReceiptsMatch`, `CarryoverIsExact` and `SealedSources` because the state is the one it
was checked against. `JobsArePlaying` (a job runs in an open story of the current visit) is why no
job can touch a sealed session. The refinement proof maps each action to one of the story's or to a stutter.
`RefusalsAreTrue` needs two facts more: each receipt names the request it is the receipt of
(`ReceiptsNamed`), so that a request that was carried out always finds its receipt whatever the run
has become since, and a handler that closes with a refusal still has nothing stored
(`RefusalsHold`), because while it holds the named lock nobody else commits.

For `DynamicNarrative`, for any callers, requests, contents, capacity and bounds on failures and for
both kinds of store, from `ConstantAssumption` (types, extra values, finitely many requests):

| theorem | statement |
|---|---|
| `Invariance` | `Spec => []IInv` |
| `TypeCorrect` | `Spec => []TypeOK`, with it at most two generations a request |
| `LedgerIsTrue` | the ledger never contradicts the rows |
| `OwnersAreLive` | an open entry has a task that is going to settle it |
| `AppliedWhole` | turns are applied once and whole |
| `OwnAnswers` | who is told of a turn submitted it |
| `RefusalsAreFinal` | what was refused is never applied |
| `SettledRequestsArePublic` | a settled request is not pending |
| `CommittedIsShown` | with the Demo's store, an applied turn is never called uncertain |
| `CallsAreOwned` | the provider is entered only inside a live attempt |
| `CapacityIsKept` | the limit of attempts bounds the jobs |
| `KeepsThePromise` | `Spec => PromiseSpec`: `DynamicNarrative` implements `TurnPromise` |

The argument for `DynamicNarrative`. An owner alone touches its job and entry, so the
invariant gives, for each of its phases, the status of its job
(`JobMatchesPhase`) and the state of its entry (`LedgerMatchesPhase`). The ledger's truth then only depends on the owner's last
step, and `VerdictIsTrue` carries what the owner learned until it signals. A refusal stays true because a
request is `Closed` by a settled row, a terminal entry, or a suggestion that has run out, none of which
is undone. The proof sorts the actions by what they touch: a step of an owner that changes only
its own job, entry and phase (`OwnerStep`), a step of a visitor, a reservation, a signal, the commit,
and a step of the environment; each kind preserves the invariant once, and each action is shown
to be of its kind. The refinement and the capacity rest on `Keeps`: turns only grow,
settled rows and proofs of no job stand, answers are never withdrawn.

For `CharacterEntry`, for any set of calls and any requests of theirs, any number of faults, any
worlds and selections, and any seed of valid characters, from `CallAssumption` (calls are positive
numbers), `ScriptAssumption` (a request is one of the eleven operations, under a key that is not "fresh", which stands for
any that nobody uses), `SeedAssumption` (at the start there are valid characters, none with an identity that a call will issue, and no runs, openings or sessions),
`RevisionAssumption` (a character may have more than one revision) and `ContentAssumption` (there is a world, and a lawful
talent choice, as `ListedCanStart` needs):

| theorem | statement |
|---|---|
| `EntryInvariant` | `Spec => []EntryInv` |
| `NothingEverFailsClosed` | every committed character, run and opening passes its repository's validation |
| `CharactersAreSpokenFor` | who holds a character, and which opening may wait beside it |
| `AnswersStayOnRecord` | a success that was answered is on record under its own key, once, as it was asked, from then on |
| `AlarmsStayReal` | no report of corrupt records and no unexpected unique key, but for the three races that `AlarmsAreReal` names |
| `ListedAlwaysStarts` | a character listed for entry can start, or has an opening that can be confirmed |

The argument for `CharacterEntry`. The repositories' validity counts rows and chooses newest ones, and says nothing about what a
transaction adds; so `CharacterLedgerProofs` states it row by row (`Whole`: each row has the rows it needs beside it), proves
one lemma for each kind of rows an operation inserts (`AddMutation`, `AddBind`, `AddJoin`, ...), and reads the counted form
back from it (`WholeFailsNowhere`). An entry is a chain of these: session, run, binding, first join; a confirmed
opening has its confirmation between the run and the binding. `Ready` is the condition under which the rows of a verdict keep the tables whole. A
verdict is `Ready` when it is decided (`VerdictIsReady`), and stays so while the call holds its locks (`ReadyKept`), because what
anybody else commits is `Quiet` about the locked character and run: an operation's rows name its own character and run, or new ones. The exception is the internal
attach and the exit, which write a row that names a character they have not locked; but such a run
held the character already, or gives it up. A confirmation alone decides on an
old snapshot, so it may not see a run that the internal bind made; the unique column catches it (`ConfirmUnheld`).

`AnswersStayOnRecord` and `ListedAlwaysStarts` rest on `EntryInv` and one more layer each. For the first, every verdict either
writes the row that tells its answer or finds one there (`Told`, one lemma for each operation, `VerdictTells`); such a row
stays (`OnRecordGrows`), and the unique keys leave room for no second (`RecordIsToldOnce`). What `AnswerInv` adds is what the other ways
to an answer need: who recovers has lost to a row of its own key, an active run is found before its exit, and a session is
named by a call that is over. A preparation may be answered with an opening of another request, so its clause says only
that its own request has no second first opening. For the second, `AskedFor` says what was stored on behalf of whom: nothing under a key
that is still free, no opening but for a world that exists, and no entry by an opening that was not confirmed; a listed character
is then at its first revision (`LivingIsFirst`), and either nothing waits for it and an entry is accepted
(`ListedCanEnter`), or the waiting opening is (`WaitingCanConfirm`).

`AlarmsStayReal` takes a third layer, `AlarmInv`. A verdict reports a contradiction only if the tables have one, apart from
an attachment to an active run (`VerdictAlarm`): each branch that says so is refuted from `Whole` and from `Entered` (a player's run has
had its first session and its admission from the start, the older entry's run is never continued, and a confirmed opening's is the one that was
offered). An insert can fail without a handler only in five operations; their rows meet nobody's key (`KeysAreFree`), because
what they name is either their own call's, which nobody else names, or under the lock that their decision was taken under, and their own
key was free and still is (`Unused`, kept by the named lock, the character's and the binding's). So only the unique column of a
character's holder is left, which a confirmation can meet and nobody else can (`FreeRowsClash`). A creation that recovers without a receipt has
lost its binding to a creation of the same player; if that had the same key its receipt would be there. Each excuse
stays true once it is given: the run that the internal bind made keeps its character, as only a native run is exited
(`InternalStays`).

For `StoryDirector`, for every set of drafts offered to the loader, from `DraftsAreNumbered` (costs, advances, bounds and what counts are
compared with are numbers, as the fields of the models are) and `DraftsAreDocuments` (finitely many phases and group clues, lists where the
order counts, no identifier that stands for an absence):

| theorem | statement |
|---|---|
| `StoryIsTyped` | `Spec => []TypeOK`: the committed runtime stays inside its content |
| `StoryKeepsItsProgress` | `Spec => ProgressIsKept`: no advancement takes anything back |
| `ReportsAreTrue` | `Spec => []AnalysisIsSound`: what the analyzer rules out never happens |

The argument for `StoryDirector`. The invariant is `TypeOK` with `Shape`: the
fields of the runtime and the domains of its functions, which every stage needs and no stage changes. There is one
lemma for each stage of an advancement, which gives its result the shape and `Onward`, the order in
which the story moves; `OnwardComposes` joins them. `TypeOK` then is what the checks at the end demand of
the candidate (`ValidIsTyped`), so the theorem says that no advancement commits around them.

`ReportsAreTrue` needs more: `ReportInv` adds what the analyzer relies on. `Grounded` says that
where the story has been is reachable, that what has been found, completed, counted or bound had a source in a reachable phase, and that a
clock without a source stands where it began; `Claimed` says that every visited phase has a path to the current
one, so that a phase visited twice lies on a cycle, and what was reported of transitions and endings. That a
condition which the analyzer calls unsatisfiable does not hold in a grounded runtime is `RuledOutConditions`; that a policy lets no
clue or binding through that has no source is `OutcomesAreGrounded`. Under both lies the graph of the phases: `Closure` is
a recursive function over as many rounds as there are phases. `RoundsOfClosure` shows that this
function exists and is what its definition says, by a least counterexample (`LeastNumber`) in place of the
induction theorems; `ClosureIsClosed` that the rounds suffice, because each one that is not closed adds a
phase.

For `DemoStore`, for every set of tasks, all scripts and any bound on cancellations, from `SeedAssumption` and `ScriptAssumption`:

| theorem | statement |
|---|---|
| `StoreStaysWhole` | `Spec => []StoreIsWhole`: every session's maps are of one moment, and every key, reference and check of the tables would hold |
| `LocksSufficeAlways` | `Spec => []LocksSuffice`: moreover nobody who holds a session's lock is told that the session, a response or a job has changed meanwhile, and rows collide only between creations under one request or openings |
| `LocksNeverTrap` | `Spec => []LocksAreNoTrap`: no circle of waiters, and a call that fails puts its caller's session object back |

The argument for `LocksNeverTrap`. Locks are asked for in one order of rank: controller, character, run, session (`WaitsUpwards`). In a
circle somebody waits for a lock of the highest rank, held by somebody who waits for one higher still (`NoCircle`). The
difficulty is that the order of locks is looked up again at every step while others publish. A unit of work that holds its
first lock must not find, later, that it lacks one of lower rank than it holds: `OrderIsStable` shows that what it has looked up stays, because
rows about a run are only published by a holder of its character's lock (`Exclusive`), a run keeps the
character it is bound to and the receipts found by a key stay the only ones (`RowsHang`). `LockInvariant` adds what each unit of work stages for that
(`TaskFits`) and the typing of the scripts.

The argument for `StoreStaysWhole`. Publishing checks that every family of rows is whole and that no key is taken, but nothing about
references between families, events, responses or what a session's maps owe each other; `StoreInvariant` says why these hold nevertheless. Of the store, `RowsWhole`
(a key has one holder, what refers to something finds it, whole families, a session for each row that opens one) and, for every session, `SessionOk`
(version, snapshot, event numbers, responses, progress and active job). Of everything staged, `UnitFits`: its rows hang in the store
or in each other, it opens the sessions it needs with their first event, and it either plays one turn of one session whose lock it holds (`Plays`) or changes at
most one job without committing it (`JobsStaged`). Three steps: what each service stages fits (`VerdictFits`, one
lemma a service); what fits, once published, leaves the store whole (`PublishedStore`); and what others have staged meanwhile still
fits (`UnitStays`), because what it relies on is of sessions whose locks they hold (`LockedSession`) or only grows. That the schema
holds of whole rows is `WholeSchema`: run revisions, receipts and worlds of a whole family pass the checks of their tables and refer
to what is there. That an open story with an active job is where its run is comes from the families too (`OpenPlays`): a run
that has gone on, or ended, has left every earlier session at an ending.

The argument for `LocksSufficeAlways`. A unit of work is refused as overtaken when, at publication, a session is no longer of the version
it read, a response is already kept, an event's number is taken, the provider progress has moved on or a job is not as it was. `SessionInvariant`
adds to `StoreInvariant` that none of this can be so for what is staged under a session's lock (`SessionKept`): its update is of the version before (`UpdateFits`), so is its progress
(`ProgressFits`), its response is the first to its request (`Answers`) and its job is new or is validated and becomes committed (`Changes`). That
a claim, a proposal or an expiry of another task cannot disturb it needs two parts that are not about the task itself: workers only move jobs that are prepared or in progress
(`WorksOn`), never one that is validated, and a job is underway only while its request has no response
(`JobsAwait`), so that what finishes it finds no response either. Each publication is then shown to keep every other unit's part (`StepKept`), and each service to stage
such a part (`WorkKept`, a lemma each for turns, preparation, workers and finishing). What the ledger's verdicts can say (`VerdictCodes`) excludes that a caller hears such a refusal from anywhere but publication.

The same theorem says where publication may find a key that is taken. `SessionInvariant` cannot say it: nothing in it keeps two units of work from staging one key.
`RowsInvariant` therefore names an owner for every key (`KeyOwner`): a lock on the player, the character, the run or the
session the key is of, or the name that is new in it, or, where the code has no lock, the request (`RequestOwner`) or the opening. Of everything staged it says that the owners of its keys
are its own (`RowsOwned`): locks it holds, names it has just made, its request if it creates, its opening. Names are drawn afresh, and what
two tasks have staged shares only names that are published (`NamesInUse`). Then
three steps again. What a service stages under its locks is its own and is not there yet (`VerdictOriginal`, a lemma a service: the next
revision, event, turn or visit is the one that does not exist, which is where a whole family and the agreement of the session's maps are
needed). Two units of work have an owner in common only if both create under one request or both prepare an opening (`OwnsApart`, `KeysMeet`), so
what one publishes takes no key of another (`RowsStay`). And if a key is taken at publication all the same, it is one of these
(`RowsObjection`): a created session is then found by its request, which is what the loser looks up. An opening is a case of its own: its ordinal and its
request key have no lock at all, and the one that publishes second is refused as a
duplicate opening (`DUPLICATE_OPENING`).

The argument for `NarrativeTurn`. None of the properties is inductive alone: that a
request is applied once rests on the stored response being read under the
session lock and still being current at the commit (`ViewIsCurrent`, `LockOwner`);
that only one job is active rests on the unlocked read being current for the same reason;
that a failed request is never applied rests on nobody being left who could
store its proposal (`Doomed`, `OneCaller`); and all of it on the shape of a job row
(`LifecycleShape`) and on the lease token being held by one execution
(`LeaseFencing`). `IInv` is their conjunction. The proof first shows each action to
be one of a few kinds of step (an execution leaves, records a failure, claims,
...), then preserves the invariant in four layers: leases, views, stored rows, answers. For the ledger, the
stored rows decide what it shows of each request (`Shows`), a step that concerns one request shows in no other
(`OtherOutcomes`), and that no other request is pending is `SingleActiveJob` at a commit and the current view elsewhere.

Only model-checked: every liveness property (fairness is beyond the prover); `EverythingReadsBack` of `DemoStore`, for which every service would have to be shown to write a family that `Classify` takes, world for world, and on top of what others publish meanwhile; `ContentIsPlayable` of `StoryDirector`, which does not hold
for every draft, only for well-made ones as the shipped: the loader does not ensure that an
effect's destination is open when it is applied, or that a window has a choice for every character whose
target is in sight.

## 5. Not modelled

`PROJECT.json` lists every component with its status. Left out, and why:

- Rules, actions and effects; resolution and mechanics of the run protocol; player memory: pure functions of one
  request and one snapshot, called under the session's lock and kept or lost with the turn's transaction. What they compute is
  a choice in `NarrativeTurn`, `DynamicNarrative` and `DemoStore`. Their own correctness is one of arithmetic and text over single
  calls, which the repository's tests reach.
- The text checks of the narrative outcome policy and of a dynamic candidate: accept or refuse.
- The web client beyond posting and polling (`PollingSpec`): its one foreground operation and its recovery records live in the
  browser's storage, which no module here has.
- The HTTP API: parsing, wiring and the mapping of errors, without state.
- The retry loop inside the provider's HTTP adapter: one call to its callers, who see an answer, a failure or nothing.
- Row codecs: bytes and digests. What a decoded family has to be is modelled.
- Migrations: their named lock, probes and DDL statements run before the program does; the tables they leave are `DurableSchema`.
- The order of cleanup steps inside one pinned connection of the unit of work: `RunLifecycle` has its outcomes (the lock
  comes free, or is lost with the connection).
- `attach_session`, which no composition calls; session projections and reading a run, which change nothing.
