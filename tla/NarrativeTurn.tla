---------------------------- MODULE NarrativeTurn ----------------------------
(***************************************************************************)
(* The durable turn boundary of one game session: the HTTP workers that    *)
(* run DurableNarrativeTurnOrchestrator.handle, the rows they share in     *)
(* MySQL (the session and its event log, turn_requests, narrative_jobs)    *)
(* and the narrative provider they call between two transactions.          *)
(*                                                                         *)
(* Every lock, uniqueness key and check in this code is scoped to one      *)
(* session, so the module models one.  A database transaction that holds a *)
(* lock between reading and committing is two steps (a view step and a     *)
(* commit step); a transaction on a single locked job row is one step.     *)
(*                                                                         *)
(* The game state itself is abstracted to its version and the sequence of  *)
(* requests whose events were applied.  A client may repeat any request    *)
(* at any time, and a worker may die, or let an exception through, at any  *)
(* time.                                                                   *)
(***************************************************************************)
EXTENDS Naturals, Sequences, FiniteSets

CONSTANTS
    Workers,        \* concurrent executions of handle()
    Requests,       \* client_request_id values
    Signatures,     \* action signatures a client may send under a request id
    Tokens,         \* lease tokens
    NoWorker, NoRequest, NoSignature, NoToken,
    NativeSession,  \* is the session bound to a native Run (a coordinator is set)?
    MaxVersion,     \* bound on the session's state_version
    MaxRelease      \* bound on deployments with a newer prompt schema

ASSUME NullAssumption ==
    /\ NoWorker \notin Workers
    /\ NoRequest \notin Requests
    /\ NoSignature \notin Signatures
    /\ NoToken \notin Tokens

ASSUME BoundAssumption ==
    /\ NativeSession \in BOOLEAN
    /\ MaxVersion \in Nat
    /\ MaxRelease \in Nat

VARIABLES
    version,         \* game_sessions.state_version
    events,          \* domain_events: the request behind each applied change
    turn_requests,   \* stored responses, one row per client_request_id
    jobs,            \* narrative_jobs, one row per client_request_id
    session_lock,    \* holder of SELECT ... FOR UPDATE on the session row
    worker,          \* local state of each execution of handle()
    release,         \* the PROMPT_SCHEMA_VERSION of the running deployment
    provider_calls,  \* how often generate() was called for a request
    answers          \* what clients were told and may rely on

game == <<version, events>>
vars == <<version, events, turn_requests, jobs, session_lock, worker, release,
          provider_calls, answers>>

-----------------------------------------------------------------------------
(* Rows and local states. *)

ActiveStatus   == {"PREPARED", "IN_PROGRESS", "PROPOSAL_VALIDATED"}
LeasedStatus   == {"IN_PROGRESS", "PROPOSAL_VALIDATED"}
FailedStatus   == {"FAILED_TERMINAL", "STALE", "OUTCOME_UNKNOWN"}
TerminalStatus == FailedStatus \cup {"COMMITTED"}

\* A validated proposal is one the outcome policy will later accept or refuse.
Proposals == {"accepted", "refused"}

Job == [status    : ActiveStatus \cup TerminalStatus \cup {"ABSENT"},
        signature : Signatures \cup {NoSignature},
        prepared  : Nat,
        attempt   : {0, 1},
        token     : Tokens \cup {NoToken},
        expired   : BOOLEAN,
        proposal  : Proposals \cup {"none"},
        schema    : Nat]

NoJob == [status |-> "ABSENT", signature |-> NoSignature, prepared |-> 0,
          attempt |-> 0, token |-> NoToken, expired |-> FALSE,
          proposal |-> "none", schema |-> 0]

Response == [route     : {"NONE", "LOCAL", "NARRATIVE"},
             signature : Signatures \cup {NoSignature},
             version   : Nat]

NoResponse == [route |-> "NONE", signature |-> NoSignature, version |-> 0]

\* What the transaction of _prepare_or_execute sees of rows it does not lock.
View == [version : Nat, response : Response, known : BOOLEAN, busy : BOOLEAN]

NoView == [version |-> 0, response |-> NoResponse, known |-> FALSE, busy |-> FALSE]

Phase == {"idle", "prepare", "resolve", "claim", "detach", "calling", "store",
          "finalize", "commit", "record"}

Worker == [pc        : Phase,
           request   : Requests \cup {NoRequest},
           signature : Signatures \cup {NoSignature},
           view      : View,
           token     : Tokens \cup {NoToken},  \* the lease of the claimed job
           late      : BOOLEAN,                \* that lease, by the worker's own copy
           proposal  : Proposals \cup {"none"},
           verdict   : FailedStatus \cup {"none"}]

Answer == [request   : Requests,
           signature : Signatures,
           said      : {"committed", "unknown", "failed", "corrupt"},
           version   : Nat]

IdleWorker == [pc |-> "idle", request |-> NoRequest, signature |-> NoSignature,
               view |-> NoView, token |-> NoToken, late |-> FALSE,
               proposal |-> "none", verdict |-> "none"]

-----------------------------------------------------------------------------
(* Helpers. *)

ActiveJobs == {r \in Requests : jobs[r].status \in ActiveStatus}

\* get_active_for_session, an ordinary read.
Busy == ActiveJobs # {}

Stored(r) == turn_requests[r].route # "NONE"

At(w, phase) == worker[w].pc = phase

TokensInUse == {jobs[r].token : r \in Requests} \cup {worker[w].token : w \in Workers}

\* A finalizing transaction holds the row lock of its job until it ends.
RowLocked(r) == \E w \in Workers : At(w, "commit") /\ worker[w].request = r

\* _same_lease: the row still carries the lease this execution was given.
SameLease(w) ==
    /\ worker[w].token # NoToken
    /\ jobs[worker[w].request].token = worker[w].token

LeaseHolds(w) == SameLease(w) /\ ~jobs[worker[w].request].expired

\* The lease fields of a row are cleared together with its last status change.
Ended(job, status) ==
    [job EXCEPT !.status = status, !.token = NoToken, !.expired = FALSE]

\* Plausible bug: every claim counts as an attempt, a takeover too.
LeasedCounting(job, status, token) ==
    [job EXCEPT !.status = status, !.token = token, !.expired = FALSE, !.attempt = @ + 1]

Leased(job, status, token) ==
    [job EXCEPT !.status = status, !.token = token, !.expired = FALSE, !.attempt = 1]

\* One execution changes its local state; one row is rewritten.
Becomes(w, local) == worker' = [worker EXCEPT ![w] = local]
Writes(r, row) == jobs' = [jobs EXCEPT ![r] = row]

Says(w, said, v) == [request |-> worker[w].request, signature |-> worker[w].signature,
                     said |-> said, version |-> v]

\* lock_for_turn waits for the session row and keeps it to the transaction's end.
LockSession(w) ==
    /\ session_lock = NoWorker
    /\ session_lock' = w

\* Plausible bug: the response row is not written with the events.
ApplyUnrecorded(r, v, route, s) ==
    /\ version = v
    /\ ~Stored(r)
    /\ version' = v + 1
    /\ events' = Append(events, r)
    /\ UNCHANGED turn_requests

\* _persist_state_change and turn_requests.add: both rows or neither, guarded by
\* the version compare-and-set and the unique request key.
ApplyTurn(r, v, route, s) ==
    /\ version = v
    /\ ~Stored(r)
    /\ version' = v + 1
    /\ events' = Append(events, r)
    /\ turn_requests' = [turn_requests EXCEPT ![r] =
         [route |-> route, signature |-> s, version |-> v + 1]]

\* The execution ends: its open transaction, if any, is over.
Finish(w) ==
    /\ Becomes(w, IdleWorker)
    /\ session_lock' = IF session_lock = w THEN NoWorker ELSE session_lock

FinishTelling(w, said, v) ==
    /\ Finish(w)
    /\ answers' = answers \cup {Says(w, said, v)}

FinishSilently(w) == Finish(w) /\ UNCHANGED answers

\* get_narrative_request_status, the read-only view of a request.
PublicStatus(r) ==
    CASE jobs[r].status = "OUTCOME_UNKNOWN" -> "OUTCOME_UNKNOWN"
      [] jobs[r].status \in {"ABSENT", "COMMITTED"} /\ Stored(r) -> "COMMITTED"
      [] jobs[r].status = "ABSENT" -> "NOT_FOUND"
      [] jobs[r].status \in ActiveStatus -> "PENDING"
      [] jobs[r].status = "STALE" -> "STALE"
      [] jobs[r].status = "FAILED_TERMINAL" -> "FAILED"
      [] OTHER -> "INVALID"

\* Raised errors by job status, for a request whose job already exists.
TellTerminal(w, status) ==
    \/ status = "OUTCOME_UNKNOWN" /\ FinishTelling(w, "unknown", 0)
    \/ status = "FAILED_TERMINAL" /\ FinishTelling(w, "failed", 0)
    \/ status = "COMMITTED" /\ FinishTelling(w, "corrupt", 0)
    \/ /\ status \in ActiveStatus \cup {"STALE"}
       /\ FinishSilently(w)

-----------------------------------------------------------------------------
Init ==
    /\ version = 0
    /\ events = <<>>
    /\ turn_requests = [r \in Requests |-> NoResponse]
    /\ jobs = [r \in Requests |-> NoJob]
    /\ session_lock = NoWorker
    /\ worker = [w \in Workers |-> IdleWorker]
    /\ release = 0
    /\ provider_calls = [r \in Requests |-> 0]
    /\ answers = {}

\* A client posts an action, for the first time or again.
Submit(w, r, s) ==
    /\ At(w, "idle")
    /\ Becomes(w, [worker[w] EXCEPT !.pc = "prepare", !.request = r, !.signature = s])
    /\ UNCHANGED <<game, turn_requests, jobs, session_lock, release, provider_calls, answers>>

(* Phase A: _prepare_or_execute, one transaction under the session lock. *)

\* lock_for_turn, then the reads that fix the transaction's view.
Prepare(w) ==
    /\ At(w, "prepare")
    /\ LockSession(w)
    /\ Becomes(w, [worker[w] EXCEPT
         !.pc = "resolve",
         !.view = [version  |-> version,
                   response |-> turn_requests[worker[w].request],
                   known    |-> jobs[worker[w].request].status # "ABSENT",
                   busy     |-> Busy]])
    /\ UNCHANGED <<game, turn_requests, jobs, release, provider_calls, answers>>

\* A stored response is replayed to the same action, and to no other.
Replay(w) ==
    LET stored == worker[w].view.response IN
    /\ At(w, "resolve")
    /\ stored.route # "NONE"
    /\ IF stored.signature = worker[w].signature
         THEN FinishTelling(w, "committed", stored.version)
         ELSE FinishSilently(w)
    /\ UNCHANGED <<game, turn_requests, jobs, release, provider_calls>>

\* The request already has a job: the row is read again under its lock.
Meets(w) ==
    /\ At(w, "resolve")
    /\ worker[w].view.response.route = "NONE"
    /\ worker[w].view.known
    /\ UNCHANGED <<game, turn_requests, release, provider_calls>>

\* The same request id with another action: IdempotencyConflictError.
MeetConflict(w) ==
    /\ Meets(w)
    /\ jobs[worker[w].request].signature # worker[w].signature
    /\ FinishSilently(w)
    /\ UNCHANGED jobs

\* An active job prepared by an older release becomes STALE.
MeetOldSchema(w) ==
    LET r == worker[w].request IN
    /\ Meets(w)
    /\ jobs[r].signature = worker[w].signature
    /\ jobs[r].status \in ActiveStatus
    /\ jobs[r].schema # release
    /\ Writes(r, Ended(jobs[r], "STALE"))
    /\ FinishSilently(w)

\* Plausible bug: the outcome is reported unknown and the row left IN_PROGRESS.
MeetExpiredUnwritten(w) ==
    LET r == worker[w].request IN
    /\ Meets(w)
    /\ jobs[r].signature = worker[w].signature
    /\ jobs[r].schema = release
    /\ jobs[r].status = "IN_PROGRESS"
    /\ jobs[r].expired
    /\ UNCHANGED jobs
    /\ FinishTelling(w, "unknown", 0)

\* Nobody can tell whether the provider was called under an expired lease.
MeetExpired(w) ==
    LET r == worker[w].request IN
    /\ Meets(w)
    /\ jobs[r].signature = worker[w].signature
    /\ jobs[r].schema = release
    /\ jobs[r].status = "IN_PROGRESS"
    /\ jobs[r].expired
    /\ Writes(r, Ended(jobs[r], "OUTCOME_UNKNOWN"))
    /\ FinishTelling(w, "unknown", 0)

\* A job somebody may still claim or take over is passed on to _claim.
MeetOpen(w) ==
    LET j == jobs[worker[w].request] IN
    /\ Meets(w)
    /\ j.signature = worker[w].signature
    /\ j.schema = release
    /\ j.status \in {"PREPARED", "PROPOSAL_VALIDATED"}
    /\ Becomes(w, [worker[w] EXCEPT !.pc = "claim", !.view = NoView])
    /\ session_lock' = NoWorker
    /\ UNCHANGED <<jobs, answers>>

\* _existing_job_result for the remaining rows: a call in flight, or an end.
MeetClosed(w) ==
    LET j == jobs[worker[w].request] IN
    /\ Meets(w)
    /\ j.signature = worker[w].signature
    /\ \/ j.status = "IN_PROGRESS" /\ j.schema = release /\ ~j.expired
       \/ j.status \in TerminalStatus
    /\ TellTerminal(w, j.status)
    /\ UNCHANGED jobs

\* A request seen for the first time.
Fresh(w) ==
    /\ At(w, "resolve")
    /\ worker[w].view.response.route = "NONE"
    /\ ~worker[w].view.known

\* A local rule resolved the action without changing the state.
ResolveUnchanged(w) ==
    LET r == worker[w].request IN
    /\ Fresh(w)
    /\ ~Stored(r)
    /\ turn_requests' = [turn_requests EXCEPT ![r] =
         [route |-> "LOCAL", signature |-> worker[w].signature, version |-> worker[w].view.version]]
    /\ FinishTelling(w, "committed", worker[w].view.version)
    /\ UNCHANGED <<game, jobs, release, provider_calls>>

\* A local rule changed the state.
Changes(w) ==
    LET v == worker[w].view.version IN
    /\ Fresh(w)
    /\ ~worker[w].view.busy
    /\ v < MaxVersion
    /\ ApplyTurn(worker[w].request, v, "LOCAL", worker[w].signature)
    /\ FinishTelling(w, "committed", v + 1)
    /\ UNCHANGED <<release, provider_calls>>

ResolveChanged(w) == Changes(w) /\ UNCHANGED jobs

\* A fixed server text, if the rule has one, is kept as a job that is born
\* COMMITTED and was never attempted.
ResolveTemplate(w) ==
    LET r == worker[w].request IN
    /\ Changes(w)
    /\ jobs[r].status = "ABSENT"
    /\ Writes(r, [NoJob EXCEPT !.status = "COMMITTED", !.prepared = worker[w].view.version,
         !.signature = worker[w].signature, !.proposal = "accepted"])

\* The action needs the provider: a PREPARED job is committed.
ResolveNarrative(w) ==
    LET r == worker[w].request IN
    /\ Fresh(w)
    /\ ~worker[w].view.busy
    /\ jobs[r].status = "ABSENT"
    /\ worker[w].view.version < MaxVersion
    /\ Writes(r, [NoJob EXCEPT !.status = "PREPARED", !.schema = release,
         !.signature = worker[w].signature, !.prepared = worker[w].view.version])
    /\ Becomes(w, [worker[w] EXCEPT !.pc = "claim", !.view = NoView])
    /\ session_lock' = NoWorker
    /\ UNCHANGED <<game, turn_requests, release, provider_calls, answers>>

(* Phase B: claim the job, call the provider with no transaction open, and  *)
(* store the validated proposal.                                            *)

\* _claim: transactions on the job row alone.
Claims(w) ==
    /\ At(w, "claim")
    /\ ~RowLocked(worker[w].request)
    /\ UNCHANGED <<game, turn_requests, release, provider_calls>>

\* Plausible bug: an expired attempt is claimed again.
ClaimAgain(w, t) ==
    LET r == worker[w].request IN
    /\ Claims(w)
    /\ jobs[r].status = "PREPARED" \/ (jobs[r].status = "IN_PROGRESS" /\ jobs[r].expired)
    /\ t \notin TokensInUse
    /\ Writes(r, Leased(jobs[r], "IN_PROGRESS", t))
    /\ Becomes(w, [worker[w] EXCEPT !.pc = "detach", !.token = t, !.late = FALSE])
    /\ UNCHANGED <<session_lock, answers>>

\* A PREPARED job gets its only attempt.
ClaimPrepared(w, t) ==
    LET r == worker[w].request IN
    /\ Claims(w)
    /\ jobs[r].status = "PREPARED"
    /\ t \notin TokensInUse
    /\ Writes(r, Leased(jobs[r], "IN_PROGRESS", t))
    /\ Becomes(w, [worker[w] EXCEPT !.pc = "detach", !.token = t, !.late = FALSE])
    /\ UNCHANGED <<session_lock, answers>>

\* Plausible bug: the taker-over renews the lease but keeps its token.
ClaimSameToken(w, t) ==
    LET r == worker[w].request IN
    /\ Claims(w)
    /\ jobs[r].status = "PROPOSAL_VALIDATED"
    /\ jobs[r].expired
    /\ Writes(r, Leased(jobs[r], "PROPOSAL_VALIDATED", jobs[r].token))
    /\ Becomes(w, [worker[w] EXCEPT !.pc = "finalize", !.token = jobs[r].token, !.late = FALSE])
    /\ UNCHANGED <<session_lock, answers>>

\* A validated proposal whose lease ran out is taken over, to finalize only.
ClaimValidated(w, t) ==
    LET r == worker[w].request IN
    /\ Claims(w)
    /\ jobs[r].status = "PROPOSAL_VALIDATED"
    /\ jobs[r].expired
    /\ t \notin TokensInUse
    /\ Writes(r, Leased(jobs[r], "PROPOSAL_VALIDATED", t))
    /\ Becomes(w, [worker[w] EXCEPT !.pc = "finalize", !.token = t, !.late = FALSE])
    /\ UNCHANGED <<session_lock, answers>>

ClaimExpired(w) ==
    LET r == worker[w].request IN
    /\ Claims(w)
    /\ jobs[r].status = "IN_PROGRESS"
    /\ jobs[r].expired
    /\ Writes(r, Ended(jobs[r], "OUTCOME_UNKNOWN"))
    /\ FinishTelling(w, "unknown", 0)

\* Somebody else has the job, or it has ended: the caller is told to poll.
ClaimRefused(w) ==
    LET j == jobs[worker[w].request] IN
    /\ Claims(w)
    /\ j.status # "PREPARED"
    /\ j.status \in LeasedStatus => ~j.expired
    /\ UNCHANGED jobs
    /\ FinishSilently(w)

\* _detach_request: a native turn is revalidated under the session lock before
\* the call; without a native Run the stored request is used as it is.
Detach(w) ==
    LET r == worker[w].request IN
    /\ At(w, "detach")
    /\ NativeSession => /\ session_lock = NoWorker
                        /\ LeaseHolds(w)
                        /\ version = jobs[r].prepared
    /\ Becomes(w, [worker[w] EXCEPT !.pc = "calling"])
    /\ provider_calls' = [provider_calls EXCEPT ![r] = @ + 1]
    /\ UNCHANGED <<game, turn_requests, jobs, session_lock, release, answers>>

\* The revalidation finds the lease or the state gone.
DetachStale(w) ==
    /\ At(w, "detach")
    /\ NativeSession
    /\ session_lock = NoWorker
    /\ ~LeaseHolds(w) \/ version # jobs[worker[w].request].prepared
    /\ Becomes(w, [worker[w] EXCEPT !.pc = "record", !.verdict = "STALE"])
    /\ UNCHANGED <<game, turn_requests, jobs, session_lock, release, provider_calls, answers>>

\* The request as compiled from the stored state is too large to send.
DetachTooLarge(w) ==
    /\ At(w, "detach")
    /\ NativeSession
    /\ session_lock = NoWorker
    /\ LeaseHolds(w) /\ version = jobs[worker[w].request].prepared
    /\ Becomes(w, [worker[w] EXCEPT !.pc = "record", !.verdict = "FAILED_TERMINAL"])
    /\ UNCHANGED <<game, turn_requests, jobs, session_lock, release, provider_calls, answers>>

\* generate() returns and the proposal passes validation.
Answered(w, p) ==
    /\ At(w, "calling")
    /\ Becomes(w, [worker[w] EXCEPT !.pc = "store", !.proposal = p])
    /\ UNCHANGED <<game, turn_requests, jobs, session_lock, release, provider_calls, answers>>

\* generate() fails, is cancelled, or returns an invalid proposal:
\* _record_provider_failure sorts the error into a definite or unknown outcome.
CallFailed(w, verdict) ==
    /\ At(w, "calling")
    /\ verdict \in {"FAILED_TERMINAL", "OUTCOME_UNKNOWN"}
    /\ Becomes(w, [worker[w] EXCEPT !.pc = "record", !.verdict = verdict])
    /\ UNCHANGED <<game, turn_requests, jobs, session_lock, release, provider_calls, answers>>

\* Plausible bug: the row's lease and status are not compared again.
CanStoreAnyway(w) == ~worker[w].late

\* _store_validated_proposal measures the lease by the worker's own copy.
CanStore(w) ==
    /\ SameLease(w)
    /\ ~worker[w].late
    /\ jobs[worker[w].request].status = "IN_PROGRESS"

Store(w) ==
    LET r == worker[w].request IN
    /\ At(w, "store")
    /\ ~RowLocked(r)
    /\ CanStore(w)
    /\ Writes(r, [jobs[r] EXCEPT !.status = "PROPOSAL_VALIDATED", !.proposal = worker[w].proposal])
    /\ Becomes(w, [worker[w] EXCEPT !.pc = "finalize", !.proposal = "none"])
    /\ UNCHANGED <<game, turn_requests, session_lock, release, provider_calls, answers>>

StoreTooLate(w) ==
    /\ At(w, "store")
    /\ ~RowLocked(worker[w].request)
    /\ ~CanStore(w)
    /\ Becomes(w, [worker[w] EXCEPT !.pc = "record", !.proposal = "none",
                                    !.verdict = "OUTCOME_UNKNOWN"])
    /\ UNCHANGED <<game, turn_requests, jobs, session_lock, release, provider_calls, answers>>

\* _set_terminal_status: only under the unexpired lease of this execution.
Record(w) ==
    LET r == worker[w].request IN
    /\ At(w, "record")
    /\ ~RowLocked(r)
    /\ IF jobs[r].status \in LeasedStatus /\ LeaseHolds(w)
         THEN Writes(r, Ended(jobs[r], worker[w].verdict))
         ELSE UNCHANGED jobs
    /\ TellTerminal(w, worker[w].verdict)
    /\ UNCHANGED <<game, turn_requests, release, provider_calls>>

(* Phase C: _finalize, one transaction under the session and job locks. *)

\* Plausible bug: any execution may finalize a validated proposal.
CanFinalizeUnleased(w) ==
    LET j == jobs[worker[w].request] IN
    /\ j.status = "PROPOSAL_VALIDATED"
    /\ j.signature = worker[w].signature
    /\ version = j.prepared

CanFinalize(w) ==
    LET j == jobs[worker[w].request] IN
    /\ j.status = "PROPOSAL_VALIDATED"
    /\ LeaseHolds(w)
    /\ j.signature = worker[w].signature
    /\ version = j.prepared

Finalize(w) ==
    /\ At(w, "finalize")
    /\ CanFinalize(w)
    /\ LockSession(w)
    /\ Becomes(w, [worker[w] EXCEPT !.pc = "commit"])
    /\ UNCHANGED <<game, turn_requests, jobs, release, provider_calls, answers>>

\* Another action under the same id would raise IdempotencyConflictError, which
\* handle() lets through (see Crash).
FinalizeStale(w) ==
    LET j == jobs[worker[w].request] IN
    /\ At(w, "finalize")
    /\ session_lock = NoWorker
    /\ \/ j.status # "PROPOSAL_VALIDATED" \/ ~LeaseHolds(w)
       \/ j.signature = worker[w].signature /\ version # j.prepared
    /\ Becomes(w, [worker[w] EXCEPT !.pc = "record", !.verdict = "STALE"])
    /\ UNCHANGED <<game, turn_requests, jobs, session_lock, release, provider_calls, answers>>

\* Plausible bug: the job row is left out of the transaction.
CommitWithoutJob(w) ==
    LET r == worker[w].request
        j == jobs[r] IN
    /\ At(w, "commit")
    /\ j.proposal = "accepted"
    /\ ~j.expired
    /\ ApplyTurn(r, j.prepared, "NARRATIVE", j.signature)
    /\ UNCHANGED jobs
    /\ FinishTelling(w, "committed", j.prepared + 1)
    /\ UNCHANGED <<release, provider_calls>>

\* State, events, response and job become visible in one commit.
Commit(w) ==
    LET r == worker[w].request
        j == jobs[r] IN
    /\ At(w, "commit")
    /\ j.proposal = "accepted"
    /\ ~j.expired
    /\ ApplyTurn(r, j.prepared, "NARRATIVE", j.signature)
    /\ Writes(r, Ended(j, "COMMITTED"))
    /\ FinishTelling(w, "committed", j.prepared + 1)
    /\ UNCHANGED <<release, provider_calls>>

\* The transaction rolls back; the verdict is recorded in another one.
CommitRefused(w) ==
    LET j == jobs[worker[w].request] IN
    /\ At(w, "commit")
    /\ j.proposal = "refused" \/ j.expired
    /\ session_lock' = NoWorker
    /\ Becomes(w, [worker[w] EXCEPT
         !.pc = "record",
         !.verdict = IF j.proposal = "refused" THEN "FAILED_TERMINAL" ELSE "STALE"])
    /\ UNCHANGED <<game, turn_requests, jobs, release, provider_calls, answers>>

-----------------------------------------------------------------------------
(* The environment. *)

\* The clock passes lease_expires_at as the row stores it: a DATETIME column
\* without fractional seconds, so a moment before or after the worker's copy.
LeaseExpires(r) ==
    /\ jobs[r].status \in LeasedStatus
    /\ ~jobs[r].expired
    /\ Writes(r, [jobs[r] EXCEPT !.expired = TRUE])
    /\ UNCHANGED <<game, turn_requests, session_lock, worker, release, provider_calls, answers>>

\* The clock passes the same instant as the worker's own copy has it.
LeaseLate(w) ==
    /\ worker[w].pc \in {"detach", "calling", "store"}
    /\ ~worker[w].late
    /\ Becomes(w, [worker[w] EXCEPT !.late = TRUE])
    /\ UNCHANGED <<game, turn_requests, jobs, session_lock, release, provider_calls, answers>>

\* The execution dies, or an exception handle() does not catch ends it: its open
\* transaction rolls back, its locks go, its job stays as it was.
Crash(w) ==
    /\ ~At(w, "idle")
    /\ FinishSilently(w)
    /\ UNCHANGED <<game, turn_requests, jobs, release, provider_calls>>

\* A deployment with a newer prompt schema replaces every worker.
Deploy ==
    /\ release < MaxRelease
    /\ release' = release + 1
    /\ worker' = [w \in Workers |-> IdleWorker]
    /\ session_lock' = NoWorker
    /\ UNCHANGED <<game, turn_requests, jobs, provider_calls, answers>>

-----------------------------------------------------------------------------
Resolve(w) ==
    \/ Replay(w)
    \/ MeetConflict(w) \/ MeetOldSchema(w) \/ MeetExpired(w)
    \/ MeetOpen(w) \/ MeetClosed(w)
    \/ ResolveUnchanged(w) \/ ResolveChanged(w) \/ ResolveTemplate(w)
    \/ ResolveNarrative(w)

Claim(w) ==
    \/ \E t \in Tokens : ClaimPrepared(w, t) \/ ClaimValidated(w, t)
    \/ ClaimExpired(w)
    \/ ClaimRefused(w)

Call(w) ==
    \/ \E p \in Proposals : Answered(w, p)
    \/ \E verdict \in FailedStatus : CallFailed(w, verdict)

\* What handle() does once it has been called.
Handle(w) ==
    \/ Prepare(w) \/ Resolve(w)
    \/ Claim(w)
    \/ Detach(w) \/ DetachStale(w) \/ DetachTooLarge(w)
    \/ Call(w)
    \/ Store(w) \/ StoreTooLate(w)
    \/ Record(w)
    \/ Finalize(w) \/ FinalizeStale(w)
    \/ Commit(w) \/ CommitRefused(w)

Post == \E w \in Workers, r \in Requests, s \in Signatures : Submit(w, r, s)

\* The server, its clock and its deployments.
Server ==
    \/ \E w \in Workers : Handle(w) \/ LeaseLate(w) \/ Crash(w)
    \/ \E r \in Requests : LeaseExpires(r)
    \/ Deploy

Next == Post \/ Server

Spec == Init /\ [][Next]_vars

-----------------------------------------------------------------------------
(* Fairness. *)

\* The execution that holds the lease on r is still running.
Running(r) == \E w \in Workers : worker[w].request = r /\ SameLease(w)

\* From some time on no execution dies or outlives its lease of minutes with a
\* transaction of milliseconds.
Timely ==
    /\ <>[][\A w \in Workers : Crash(w) => Handle(w)]_vars
    /\ <>[][\A r \in Requests : Running(r) => ~LeaseExpires(r)]_vars

\* Executions advance (a provider call ends by its timeout at the latest), the
\* session lock is granted to a finalizing one in its turn, and the clock goes on.
ServerRuns ==
    /\ \A w \in Workers :
         /\ SF_vars(Prepare(w)) /\ WF_vars(Resolve(w)) /\ WF_vars(Claim(w))
         /\ SF_vars(Detach(w) \/ DetachStale(w) \/ DetachTooLarge(w))
         /\ WF_vars(Call(w))
         /\ WF_vars(Store(w) \/ StoreTooLate(w)) /\ WF_vars(Record(w))
         /\ SF_vars(Finalize(w) \/ FinalizeStale(w))
         /\ WF_vars(Commit(w) \/ CommitRefused(w))
    /\ \A r \in Requests : WF_vars(LeaseExpires(r) /\ ~Running(r))

\* The client of an active job posts the same request again.
Retry(r) ==
    /\ jobs[r].status \in ActiveStatus
    /\ \E w \in Workers : Submit(w, r, jobs[r].signature)

\* Clients that repeat a request until it is answered.
RetryingSpec ==
    Spec /\ Timely /\ ServerRuns /\ \A r \in Requests : WF_vars(Retry(r))

\* The web client posts each action once, under a request id of its own, and then
\* only polls its status, which changes nothing.
PostOnce ==
    \E w \in Workers, r \in Requests, s \in Signatures :
        /\ PublicStatus(r) = "NOT_FOUND"
        /\ \A x \in Workers : worker[x].request # r
        /\ Submit(w, r, s)

PollingSpec ==
    Init /\ [][PostOnce \/ Server]_vars /\ Timely /\ ServerRuns /\ WF_vars(PostOnce)

-----------------------------------------------------------------------------
(* Properties. *)

\* Every row and local state is one the code can write.
TypeOK ==
    /\ version \in Nat
    /\ events \in Seq(Requests)
    /\ turn_requests \in [Requests -> Response]
    /\ jobs \in [Requests -> Job]
    /\ session_lock \in Workers \cup {NoWorker}
    /\ worker \in [Workers -> Worker]
    /\ release \in Nat
    /\ provider_calls \in [Requests -> Nat]
    /\ answers \subseteq Answer

\* A session has at most one active narrative job: get_active_for_session reads
\* without a lock, and only the session lock keeps two requests from both
\* finding none (narrative_turn_orchestrator.py, _prepare_or_execute).
SingleActiveJob ==
    \A r, q \in ActiveJobs : r = q

\* Nothing moves the session while a job is active, so the version the job was
\* prepared at is the one it will be finalized at.
ActiveJobPinsVersion ==
    \A r \in ActiveJobs : jobs[r].prepared = version

\* Each request changes the game at most once, and the version counts exactly
\* the changes, however often a request is repeated.
AppliedOnce ==
    /\ version = Len(events)
    /\ \A i, k \in 1..Len(events) : events[i] = events[k] => i = k

\* The stored response, the event and the COMMITTED job of a turn exist
\* together or not at all, and agree on the version the turn produced.
CommitIsAtomic ==
    \A r \in Requests :
        /\ jobs[r].status = "COMMITTED" =>
             /\ Stored(r)
             /\ turn_requests[r].signature = jobs[r].signature
             /\ turn_requests[r].version = jobs[r].prepared + 1
        /\ turn_requests[r].route = "NARRATIVE" => jobs[r].status = "COMMITTED"
        /\ (Stored(r) /\ jobs[r].status # "ABSENT") =>
             /\ jobs[r].status = "COMMITTED"
             /\ turn_requests[r].version <= Len(events)
             /\ events[turn_requests[r].version] = r

\* The provider, which bills per call, is called at most once for a request, and
\* never without the job recording its attempt.
ProviderCalledOnce ==
    \A r \in Requests :
        /\ provider_calls[r] <= 1
        /\ provider_calls[r] = 1 => jobs[r].attempt = 1

\* Two executions never hold the same lease, and one that still holds the row's
\* lease finds it in a status its phase can work on.
LeaseFencing ==
    /\ \A w, x \in Workers :
         (worker[w].token = worker[x].token /\ worker[w].token # NoToken) => w = x
    /\ \A w \in Workers : SameLease(w) =>
         /\ worker[w].pc \in {"detach", "calling", "store"} =>
              jobs[worker[w].request].status = "IN_PROGRESS"
         /\ worker[w].pc \in {"finalize", "commit"} =>
              jobs[worker[w].request].status = "PROPOSAL_VALIDATED"

\* What a client was told stays true: a committed turn is stored with the version
\* it was told, and a request reported failed or unknown is never applied.
AnswersHold ==
    \A a \in answers :
        /\ a.said = "committed" =>
             /\ turn_requests[a.request].signature = a.signature
             /\ turn_requests[a.request].version = a.version
             /\ Stored(a.request)
        /\ a.said \in {"failed", "unknown"} =>
             /\ ~Stored(a.request)
             /\ \A i \in 1..Len(events) : events[i] # a.request

\* No repetition meets a COMMITTED job without its response, which the code
\* could only answer with StoredTurnResponseInvalidError.
NeverCorrupt ==
    \A a \in answers : a.said # "corrupt"

\* A job is committed only by the execution that holds the session lock and the
\* row's unexpired lease, at the version the job was prepared for.
OnlyHolderCommits ==
    [][\A r \in Requests :
         (jobs[r].status \in ActiveStatus /\ jobs'[r].status = "COMMITTED") =>
             \E w \in Workers : /\ session_lock = w
                                /\ worker[w].request = r
                                /\ worker[w].token = jobs[r].token
                                /\ ~jobs[r].expired
                                /\ version = jobs[r].prepared]_vars

\* A job does not hold its session for ever: as long as its client repeats the
\* request, the job reaches a terminal status through every crash of a worker.
JobSettles ==
    \A r \in Requests : (jobs[r].status \in ActiveStatus) ~> (jobs[r].status \in TerminalStatus)

\* "An expired IN_PROGRESS job becomes OUTCOME_UNKNOWN" (docs/architecture.md).
ExpiredBecomesUnknown ==
    \A r \in Requests :
        (jobs[r].status = "IN_PROGRESS" /\ jobs[r].expired) ~> (jobs[r].status # "IN_PROGRESS")

-----------------------------------------------------------------------------
(* Why the invariants hold: each is a consequence of these, which every step *)
(* preserves.                                                                *)

\* The session row is locked exactly by the execution inside a transaction on it.
LockOwner ==
    \A w \in Workers : worker[w].pc \in {"resolve", "commit"} <=> session_lock = w

\* An execution is idle, or works on one request.
Posted ==
    \A w \in Workers :
        \/ worker[w] = IdleWorker
        \/ ~At(w, "idle") /\ worker[w].request \in Requests /\ worker[w].signature \in Signatures

\* What an execution carries in each phase.
Carries ==
    \A w \in Workers :
        /\ worker[w].token = NoToken <=> worker[w].pc \in {"idle", "prepare", "resolve", "claim"}
        /\ worker[w].pc \notin {"idle", "prepare", "resolve"} =>
             /\ jobs[worker[w].request].status # "ABSENT"
             /\ jobs[worker[w].request].signature = worker[w].signature

\* The view of a transaction that holds the session lock is current, except that
\* a job it saw active may have ended since.
ViewIsCurrent ==
    \A w \in Workers : At(w, "resolve") =>
        /\ worker[w].view.version = version
        /\ worker[w].view.response = turn_requests[worker[w].request]
        /\ worker[w].view.known <=> jobs[worker[w].request].status # "ABSENT"
        /\ ~worker[w].view.busy => ActiveJobs = {}

\* NarrativeJob.validate_lifecycle_shape.
LifecycleShape ==
    \A r \in Requests :
        /\ jobs[r].token # NoToken <=> jobs[r].status \in LeasedStatus
        /\ jobs[r].status \in {"ABSENT", "PREPARED"} => jobs[r].attempt = 0
        /\ jobs[r].status \in LeasedStatus => jobs[r].attempt = 1
        /\ jobs[r].attempt = 0 => provider_calls[r] = 0
        /\ jobs[r].status = "ABSENT" => jobs[r] = NoJob

CallPhase == {"detach", "calling", "store"}

\* One execution per job ever reaches the provider.
OneCaller ==
    \A w \in Workers : worker[w].pc \in CallPhase =>
        /\ jobs[worker[w].request].attempt = 1
        /\ jobs[worker[w].request].status \in FailedStatus \cup {"IN_PROGRESS"}
        /\ At(w, "detach") => provider_calls[worker[w].request] = 0
        /\ \A x \in Workers :
             (worker[x].pc \in CallPhase /\ worker[x].request = worker[w].request) => x = w

\* The finalizing transaction has checked, and its locks keep, what it commits.
CommitReady ==
    \A w \in Workers : At(w, "commit") =>
        /\ SameLease(w)
        /\ version = jobs[worker[w].request].prepared

\* A request that will never be applied: its job has failed, or nobody is left who
\* could store its proposal, or the policy refuses the stored one.
Doomed(r) ==
    \/ jobs[r].status \in FailedStatus
    \/ /\ jobs[r].status = "IN_PROGRESS"
       /\ \A w \in Workers : worker[w].request = r => worker[w].pc \notin CallPhase
    \/ jobs[r].status = "PROPOSAL_VALIDATED" /\ jobs[r].proposal = "refused"

NegativeVerdicts ==
    /\ \A w \in Workers :
         worker[w].verdict \in {"FAILED_TERMINAL", "OUTCOME_UNKNOWN"} => Doomed(worker[w].request)
    /\ \A a \in answers : a.said \in {"failed", "unknown"} => Doomed(a.request)

PositiveAnswers ==
    \A a \in answers : a.said = "committed" =>
        turn_requests[a.request].route # "NONE"
        /\ turn_requests[a.request].signature = a.signature
        /\ turn_requests[a.request].version = a.version

\* Rows that are written together.
StoredWithJob ==
    \A r \in Requests :
        /\ Stored(r) => jobs[r].status \in {"ABSENT", "COMMITTED"}
        /\ turn_requests[r].route = "NARRATIVE" => jobs[r].status = "COMMITTED"
        /\ jobs[r].status = "COMMITTED" =>
             /\ Stored(r)
             /\ turn_requests[r].signature = jobs[r].signature
             /\ turn_requests[r].version = jobs[r].prepared + 1
             /\ turn_requests[r].version <= Len(events)
             /\ events[turn_requests[r].version] = r

EventsAreStored ==
    /\ version = Len(events)
    /\ \A i \in 1..Len(events) : Stored(events[i])
    /\ \A i, k \in 1..Len(events) : events[i] = events[k] => i = k

IInv ==
    /\ TypeOK
    /\ Posted
    /\ LockOwner
    /\ Carries
    /\ ViewIsCurrent
    /\ LifecycleShape
    /\ OneCaller
    /\ CommitReady
    /\ LeaseFencing
    /\ ProviderCalledOnce
    /\ SingleActiveJob
    /\ ActiveJobPinsVersion
    /\ NegativeVerdicts
    /\ PositiveAnswers
    /\ StoredWithJob
    /\ EventsAreStored
    /\ NeverCorrupt

-----------------------------------------------------------------------------
\* The ledger as the rows show it.
LedgerOutcome(r) ==
    CASE Stored(r) /\ (\E i \in 1..Len(events) : events[i] = r)    -> "applied"
      [] Stored(r) /\ ~(\E i \in 1..Len(events) : events[i] = r)   -> "noted"
      [] ~Stored(r) /\ jobs[r].status = "ABSENT"                   -> "open"
      [] ~Stored(r) /\ jobs[r].status \in ActiveStatus             -> "pending"
      [] ~Stored(r) /\ jobs[r].status \in FailedStatus             -> "refused"
      [] OTHER                                                     -> "lost"

Ledger == INSTANCE TurnLedger WITH
            history <- events,
            outcome <- [r \in Requests |-> LedgerOutcome(r)]

\* The rows behave as the ledger: every step that changes them is one of its
\* steps, so a request is decided once whatever the workers do.
ImplementsLedger == Ledger!Spec

=============================================================================
