-------------------------- MODULE DynamicNarrative --------------------------
(***************************************************************************)
(* DynamicNarrativeOrchestrator: the turn boundary of the dynamic Demo.    *)
(* One process keeps a ledger of attempts beside the store.  The caller    *)
(* that reserves a request owns the attempt: it publishes one narrative    *)
(* job, calls the provider, finalizes, and signals the ledger; every other *)
(* caller of the same request follows the owner and then rereads the       *)
(* store.  The owner may be cancelled at any await and any transaction may *)
(* fail; whatever happens, the owner must settle the job and signal.       *)
(*                                                                         *)
(* The module models one session: its buckets, locks and keys are all      *)
(* scoped to one.  Work the code retains in a task of its own and shields  *)
(* (_await_retained) is a phase in which a cancellation is only remembered.*)
(* A transaction that writes one job row is one step; finalizing holds the *)
(* session lock from its reads to its commit and is two.                   *)
(***************************************************************************)
EXTENDS Naturals, Sequences, FiniteSets

CONSTANTS
    Callers,            \* tasks that handle a submission or poll a request
    Requests,           \* client_request_id values
    Forms,              \* what a client may submit under one id (fingerprints)
    CanonicalForm,      \* the content of a suggestion the server offered
    Suggested,          \* ids of suggestions ("dsr."), offered at version 0
    Legacy,             \* ids whose job an older prompt schema may have left
    NoCaller, NoRequest, NoForm,
    Capacity,           \* attempts a session may reserve (512)
    AmbiguousCommits,   \* may a commit that raised have been published?
    MaxFaults,          \* bound on transactions that fail
    MaxCancels          \* bound on cancelled calls

ASSUME ConstantAssumption ==
    /\ NoCaller \notin Callers /\ NoRequest \notin Requests /\ NoForm \notin Forms
    /\ CanonicalForm \in Forms
    /\ Suggested \subseteq Requests /\ Legacy \subseteq Requests
    /\ IsFiniteSet(Requests)
    /\ AmbiguousCommits \in BOOLEAN
    /\ Capacity \in Nat /\ MaxFaults \in Nat /\ MaxCancels \in Nat

VARIABLES
    version,       \* state_version of the session
    events,        \* the request behind each committed turn
    responses,     \* turn_requests, one row per request
    jobs,          \* narrative_jobs, one row per request
    session_lock,  \* the transaction that locked the session
    authority,     \* are the Run and its character binding still active?
    ledger,        \* _buckets[session].entries
    caller,        \* local state of each task
    generations,   \* how often the provider was entered for a request
    answers,       \* what callers were told for good
    faults, cancels

story == <<version, events, responses>>
budget == <<faults, cancels>>
vars == <<version, events, responses, jobs, session_lock, authority, ledger, caller,
          generations, answers, faults, cancels>>

-----------------------------------------------------------------------------
(* Rows, entries and local states. *)

Leased   == {"IN_PROGRESS", "PROPOSAL_VALIDATED"}
Active   == Leased \cup {"PREPARED"}
Settled  == {"COMMITTED", "FAILED_TERMINAL", "STALE", "OUTCOME_UNKNOWN"}

Job == [status : Active \cup Settled \cup {"ABSENT"}, form : Forms \cup {NoForm},
        prepared : Nat, expired : BOOLEAN, legacy : BOOLEAN]
NoJob == [status |-> "ABSENT", form |-> NoForm, prepared |-> 0, expired |-> FALSE,
          legacy |-> FALSE]

\* What an older prompt schema left behind.
LegacyJob(status, form) ==
    [NoJob EXCEPT !.status = status, !.form = form, !.legacy = TRUE]

Response == [version : Nat, form : Forms \cup {NoForm}]
NoResponse == [version |-> 0, form |-> NoForm]

Terminal  == {"TERMINAL_AUTHORITATIVE", "TERMINAL_NO_JOB", "TERMINAL_UNCERTAIN"}
Lifecycle == Terminal \cup {"OWNER_RESERVED", "JOB_PUBLISHED"}

Entry == [lifecycle : Lifecycle \cup {"NONE"}, form : Forms \cup {NoForm},
          version : Nat, owner : Callers \cup {NoCaller}]
NoEntry == [lifecycle |-> "NONE", form |-> NoForm, version |-> 0, owner |-> NoCaller]

Settling == {"abandon", "stabilize", "old", "unsure"}
Retained == Settling \cup {"marking", "probe", "classify", "reread", "signal"}
Owning   == Retained \cup {"publish", "claim", "entry", "calling", "store", "finalize",
                           "commit", "record"}
Visiting == {"resolve", "reserve", "follow", "replay", "polling"}

Final == {"committed", "failed", "stale", "unknown", "rejected"}

Local == [pc : Owning \cup Visiting \cup {"idle"}, request : Requests \cup {NoRequest},
          form : Forms \cup {NoForm}, version : Nat,
          again     : BOOLEAN,                 \* is this the replacement generation?
          cancelled : BOOLEAN,
          verdict   : Final \cup {"pending", "none"}, \* what it is about to be told
          fate      : Terminal \cup {"none"}]  \* what the owner is about to signal
Idle == [pc |-> "idle", request |-> NoRequest, form |-> NoForm, version |-> 0,
         again |-> FALSE, cancelled |-> FALSE, verdict |-> "none", fate |-> "none"]

Answer == [request : Requests, form : Forms \cup {NoForm}, said : Final, version : Nat]

-----------------------------------------------------------------------------
(* Helpers. *)

At(c, phase) == caller[c].pc = phase
Mine(c) == caller[c].request
Stored(r) == responses[r].version # 0
Reserved(r) == ledger[r].lifecycle # "NONE"
Unlocked == session_lock = NoCaller

\* The row the caller's job must still be: claimed, and its lease unexpired.
Holds(c, status) ==
    /\ jobs[Mine(c)].status = status
    /\ ~jobs[Mine(c)].expired

Moves(c, phase) == caller' = [caller EXCEPT ![c].pc = phase]
MovesSaying(c, phase, said) ==
    caller' = [caller EXCEPT ![c].pc = phase, ![c].verdict = said]
Decides(c, fate, said) ==
    caller' = [caller EXCEPT ![c].pc = "signal", ![c].fate = fate, ![c].verdict = said]

Ends(c) == caller' = [caller EXCEPT ![c] = Idle]

\* A pending answer, an error or a cancellation tells the caller nothing final.
Tells(c, said) ==
    answers' = IF said \notin Final THEN answers ELSE answers \cup
        {[request |-> Mine(c), form |-> caller[c].form, said |-> said,
          version |-> IF said = "committed" THEN responses[Mine(c)].version ELSE 0]}

Becomes(r, status) ==
    jobs' = [jobs EXCEPT ![r].status = status, ![r].expired = FALSE]

\* A write whose commit raised: it happened only if commits can be ambiguous.
MayBecome(r, status) ==
    \/ UNCHANGED jobs
    \/ AmbiguousCommits /\ Becomes(r, status)

\* _replay_response and _known_job_result: what the rows say of a known request.
Recorded(r) ==
    CASE Stored(r) -> "committed"
      [] jobs[r].status \in Active -> "pending"
      [] jobs[r].status \in {"ABSENT", "OUTCOME_UNKNOWN"} -> "unknown"
      [] jobs[r].status = "STALE" -> "stale"
      [] OTHER -> "failed"

\* get_narrative_request_status, before it asks the ledger.
Polled(r) ==
    CASE jobs[r].status = "OUTCOME_UNKNOWN" -> "unknown"
      [] jobs[r].status = "ABSENT" /\ ~Stored(r) -> "none"
      [] OTHER -> Recorded(r)

\* request_is_terminal_uncertain overrides what was read.
Public(r, read) ==
    IF ledger[r].lifecycle = "TERMINAL_UNCERTAIN" THEN "unknown" ELSE read

-----------------------------------------------------------------------------
Init ==
    /\ version = 0
    /\ events = <<>>
    /\ responses = [r \in Requests |-> NoResponse]
    /\ \E left \in SUBSET Legacy, status \in [Legacy -> Active], form \in [Legacy -> Forms] :
         jobs = [r \in Requests |-> IF r \in left THEN LegacyJob(status[r], form[r])
                                   ELSE NoJob]
    /\ session_lock = NoCaller
    /\ authority = TRUE
    /\ ledger = [r \in Requests |-> NoEntry]
    /\ caller = [c \in Callers |-> Idle]
    /\ generations = [r \in Requests |-> 0]
    /\ answers = {}
    /\ faults = MaxFaults
    /\ cancels = MaxCancels

-----------------------------------------------------------------------------
(* Arriving.  A request that is already reserved is followed; submitting    *)
(* something else under its id is a conflict, which changes nothing.        *)

Arrive(c, r, f) ==
    /\ At(c, "idle")
    /\ Reserved(r) => ledger[r].form = f
    /\ caller' = [caller EXCEPT ![c] =
         [Idle EXCEPT !.pc = IF Reserved(r) THEN "follow" ELSE "resolve",
                      !.request = r, !.form = f]]
    /\ UNCHANGED <<story, jobs, session_lock, authority, ledger, generations, answers, budget>>

Unknown(r) == ~Stored(r) /\ jobs[r].status = "ABSENT"

\* Plausible bug: the rows of an id answer whatever is submitted under it.
SameAsAnything(c) == TRUE

SameAsKnown(c) ==
    caller[c].form = IF Stored(Mine(c)) THEN responses[Mine(c)].form ELSE jobs[Mine(c)].form

\* _recover_known_job: unfinished work of an older prompt schema is made stale.
Outdated(r) == ~Stored(r) /\ jobs[r].legacy /\ jobs[r].status \in Active

\* _resolve_attempt: a stored turn or a known job answers the request.
ResolveKnown(c) ==
    /\ At(c, "resolve") /\ Unlocked
    /\ ~Unknown(Mine(c)) /\ SameAsKnown(c)
    /\ IF Outdated(Mine(c)) THEN Tells(c, "stale") /\ Becomes(Mine(c), "STALE")
       ELSE Tells(c, Recorded(Mine(c))) /\ UNCHANGED jobs
    /\ Ends(c)
    /\ UNCHANGED <<story, session_lock, authority, ledger, generations, budget>>

\* A suggestion is only that while the view that offered it is current.
Offered(c) ==
    Mine(c) \in Suggested => version = 0 /\ caller[c].form = CanonicalForm

\* Known under another content, not offered, or no active Run: refused for now.
ResolveRefused(c) ==
    /\ At(c, "resolve") /\ Unlocked
    /\ \/ ~Unknown(Mine(c)) /\ ~SameAsKnown(c) /\ UNCHANGED answers
       \/ Unknown(Mine(c)) /\ ~authority /\ UNCHANGED answers
       \/ /\ Unknown(Mine(c)) /\ authority /\ ~Offered(c)
          /\ IF version = 0 THEN UNCHANGED answers ELSE Tells(c, "stale")
    /\ Ends(c)
    /\ UNCHANGED <<story, jobs, session_lock, authority, ledger, generations, budget>>

\* The attempt's identity is bound to the version of the view it was made on.
ResolveFresh(c) ==
    /\ At(c, "resolve") /\ Unlocked
    /\ Unknown(Mine(c)) /\ authority /\ Offered(c)
    /\ caller' = [caller EXCEPT ![c].pc = "reserve", ![c].version = version]
    /\ UNCHANGED <<story, jobs, session_lock, authority, ledger, generations, answers, budget>>

-----------------------------------------------------------------------------
(* Reserving: the check and the new entry are one step under the ledger lock.*)

SameIdentity(c) ==
    /\ ledger[Mine(c)].form = caller[c].form
    /\ ledger[Mine(c)].version = caller[c].version

\* Plausible bug: the last reservation is given away twice.
FullLate == Cardinality({r \in Requests : Reserved(r)}) > Capacity

Full == Cardinality({r \in Requests : Reserved(r)}) >= Capacity

Reserves(c) ==
    ledger' = [ledger EXCEPT ![Mine(c)] =
        [lifecycle |-> "OWNER_RESERVED", form |-> caller[c].form,
         version |-> caller[c].version, owner |-> c]]

\* Plausible bug: Arrive's look at the ledger is not repeated under its lock.
ReserveAnyway(c) ==
    /\ At(c, "reserve")
    /\ Reserves(c)
    /\ Moves(c, "publish")
    /\ UNCHANGED <<story, jobs, session_lock, authority, generations, answers, budget>>

Reserve(c) ==
    /\ At(c, "reserve")
    /\ IF Reserved(Mine(c))
       THEN /\ IF SameIdentity(c) THEN Moves(c, "follow") ELSE Ends(c)
            /\ UNCHANGED ledger
       ELSE IF Full THEN Ends(c) /\ UNCHANGED ledger
       ELSE Reserves(c) /\ Moves(c, "publish")
    /\ UNCHANGED <<story, jobs, session_lock, authority, generations, answers, budget>>

-----------------------------------------------------------------------------
(* Failures.  A transaction fails, or the owner's task is cancelled, at an  *)
(* await that is not shielded: the owner goes on to settle what it left.    *)

Spends(why) ==
    \/ why = "fault" /\ faults > 0 /\ faults' = faults - 1 /\ UNCHANGED cancels
    \/ why = "cancel" /\ cancels > 0 /\ cancels' = cancels - 1 /\ UNCHANGED faults

Breaks(c, phase, why) ==
    /\ Spends(why)
    /\ caller' = [caller EXCEPT ![c].pc = phase, ![c].verdict = "none",
                                ![c].cancelled = @ \/ why = "cancel"]

-----------------------------------------------------------------------------
(* The owner publishes its job. *)

NewJob(c) ==
    [NoJob EXCEPT !.status = "PREPARED", !.form = caller[c].form,
                  !.prepared = caller[c].version]

Publish(c) ==
    /\ At(c, "publish") /\ Unlocked
    /\ Unknown(Mine(c))
    /\ jobs' = [jobs EXCEPT ![Mine(c)] = NewJob(c)]
    /\ Moves(c, "marking")
    /\ UNCHANGED <<story, session_lock, authority, ledger, generations, answers, budget>>

\* Nothing was committed: the request could not be built, the rows are taken, or
\* a read failed.
PublishRefused(c) ==
    /\ At(c, "publish")
    /\ Decides(c, "TERMINAL_NO_JOB", "rejected")
    /\ UNCHANGED <<story, jobs, session_lock, authority, ledger, generations, answers, budget>>

\* Plausible bug: an owner cancelled before its commit leaves the ledger as it is.
PublishAbandoned(c) ==
    /\ At(c, "publish")
    /\ Spends("cancel")
    /\ Ends(c)
    /\ UNCHANGED <<story, jobs, session_lock, authority, ledger, generations, answers>>

\* Cancelled before its commit began.
PublishCancelled(c) ==
    /\ At(c, "publish")
    /\ Spends("cancel")
    /\ caller' = [caller EXCEPT ![c].pc = "signal", ![c].cancelled = TRUE,
                                ![c].fate = "TERMINAL_NO_JOB"]
    /\ UNCHANGED <<story, jobs, session_lock, authority, ledger, generations, answers>>

\* An exception at the commit proves nothing either way.
PublishBreaks(c, why) ==
    /\ At(c, "publish") /\ Unlocked
    /\ Unknown(Mine(c))
    /\ \/ UNCHANGED jobs
       \/ AmbiguousCommits /\ jobs' = [jobs EXCEPT ![Mine(c)] = NewJob(c)]
    /\ Breaks(c, "probe", why)
    /\ UNCHANGED <<story, session_lock, authority, ledger, generations, answers>>

Published(c) == ledger' = [ledger EXCEPT ![Mine(c)].lifecycle = "JOB_PUBLISHED"]

\* _mark_published, retained.
Mark(c) ==
    /\ At(c, "marking")
    /\ Published(c)
    /\ Moves(c, IF caller[c].cancelled THEN "reread" ELSE "claim")
    /\ UNCHANGED <<story, jobs, session_lock, authority, generations, answers, budget>>

\* Plausible bug: a commit that raised is taken for a rollback.
ProbeAssumesRollback(c) ==
    /\ At(c, "probe")
    /\ Decides(c, "TERMINAL_NO_JOB", "rejected")
    /\ UNCHANGED <<story, jobs, session_lock, authority, ledger, generations, answers, budget>>

\* _reconcile_publication, retained: only a fresh read tells.
Probe(c) ==
    /\ At(c, "probe")
    /\ IF jobs[Mine(c)].status = "ABSENT"
       THEN Decides(c, "TERMINAL_NO_JOB", "rejected") /\ UNCHANGED ledger
       ELSE /\ Published(c)
            /\ MovesSaying(c, IF caller[c].cancelled THEN "reread" ELSE "abandon", "unknown")
    /\ UNCHANGED <<story, jobs, session_lock, authority, generations, answers, budget>>

ProbeBreaks(c) ==
    /\ At(c, "probe")
    /\ Spends("fault")
    /\ Decides(c, "TERMINAL_UNCERTAIN", "unknown")
    /\ UNCHANGED <<story, jobs, session_lock, authority, ledger, generations, answers>>

-----------------------------------------------------------------------------
(* The owner claims the job and calls the provider, at most twice. *)

Claim(c) ==
    /\ At(c, "claim")
    /\ IF jobs[Mine(c)].status = "PREPARED"
       THEN Becomes(Mine(c), "IN_PROGRESS") /\ Moves(c, "entry")
       ELSE UNCHANGED jobs /\ MovesSaying(c, "reread", "stale")
    /\ UNCHANGED <<story, session_lock, authority, ledger, generations, answers, budget>>

ClaimBreaks(c, why) ==
    /\ At(c, "claim")
    /\ MayBecome(Mine(c), "IN_PROGRESS")
    /\ Breaks(c, "reread", why)
    /\ UNCHANGED <<story, session_lock, authority, ledger, generations, answers>>

Generates(c, replacement) ==
    /\ caller' = [caller EXCEPT ![c].pc = "calling", ![c].again = replacement]
    /\ generations' = [generations EXCEPT ![Mine(c)] = @ + 1]
    /\ UNCHANGED <<story, jobs, session_lock, authority, ledger, answers, budget>>

Enter(c) == At(c, "entry") /\ Generates(c, FALSE)

\* _before_provider_entry: the last chance to be cancelled without a call.
EntryBreaks(c) ==
    /\ At(c, "entry")
    /\ Breaks(c, "reread", "cancel")
    /\ UNCHANGED <<story, jobs, session_lock, authority, ledger, generations, answers>>

\* Plausible bug: every unusable generation is replaced.
CallForEver(c) == At(c, "calling") /\ Generates(c, TRUE)

\* An unusable first generation is replaced, once.
CallAgain(c) ==
    /\ At(c, "calling") /\ ~caller[c].again
    /\ Generates(c, TRUE)

\* A candidate, a refusal (of the provider, or of its candidate), or no telling.
CallEnds(c) ==
    /\ At(c, "calling")
    /\ \/ Moves(c, "store")
       \/ MovesSaying(c, "record", "failed")
       \/ MovesSaying(c, "abandon", "unknown")
    /\ UNCHANGED <<story, jobs, session_lock, authority, ledger, generations, answers, budget>>

CallBreaks(c) ==
    /\ At(c, "calling")
    /\ Breaks(c, "abandon", "cancel")
    /\ UNCHANGED <<story, jobs, session_lock, authority, ledger, generations, answers>>

-----------------------------------------------------------------------------
(* The owner stores the validated candidate and finalizes. *)

Store(c) ==
    /\ At(c, "store")
    /\ IF Holds(c, "IN_PROGRESS")
       THEN Becomes(Mine(c), "PROPOSAL_VALIDATED") /\ Moves(c, "finalize")
       ELSE UNCHANGED jobs /\ MovesSaying(c, "reread", "stale")
    /\ UNCHANGED <<story, session_lock, authority, ledger, generations, answers, budget>>

StoreBreaks(c, why) ==
    /\ At(c, "store")
    /\ \/ UNCHANGED jobs
       \/ Holds(c, "IN_PROGRESS") /\ MayBecome(Mine(c), "PROPOSAL_VALIDATED")
    /\ Breaks(c, "reread", why)
    /\ UNCHANGED <<story, session_lock, authority, ledger, generations, answers>>

\* Plausible bug: the version the candidate was prepared on is not compared.
CurrentAnyway(c) == TRUE

Current(c) == version = caller[c].version

\* The transaction that finalizes locks the session and reads everything again.
Finalize(c) ==
    /\ At(c, "finalize") /\ Unlocked
    /\ CASE ~Holds(c, "PROPOSAL_VALIDATED") ->
              MovesSaying(c, "record", "stale") /\ UNCHANGED session_lock
         [] Holds(c, "PROPOSAL_VALIDATED") /\ ~authority ->
              Moves(c, "classify") /\ UNCHANGED session_lock
         [] Holds(c, "PROPOSAL_VALIDATED") /\ authority /\ ~Current(c) ->
              MovesSaying(c, "record", "stale") /\ UNCHANGED session_lock
         [] OTHER ->
              \/ Moves(c, "commit") /\ session_lock' = c
              \/ MovesSaying(c, "record", "failed") /\ UNCHANGED session_lock
    /\ UNCHANGED <<story, jobs, authority, ledger, generations, answers, budget>>

FinalizeBreaks(c, why) ==
    /\ At(c, "finalize")
    /\ Breaks(c, "classify", why)
    /\ UNCHANGED <<story, jobs, session_lock, authority, ledger, generations, answers>>

\* One transaction: event and snapshot, version, response, COMMITTED job.
Applies(c) ==
    /\ version' = version + 1
    /\ events' = Append(events, Mine(c))
    /\ responses' = [responses EXCEPT ![Mine(c)] =
         [version |-> version + 1, form |-> caller[c].form]]
    /\ Becomes(Mine(c), "COMMITTED")

\* Plausible bug: a commit that returned is classified like one that did not.
CommitUnproved(c) ==
    /\ At(c, "commit")
    /\ Applies(c)
    /\ session_lock' = NoCaller
    /\ Moves(c, "classify")
    /\ UNCHANGED <<authority, ledger, generations, answers, budget>>

\* A commit that returned proves the turn; its signal is retained.
Commit(c) ==
    /\ At(c, "commit")
    /\ Applies(c)
    /\ session_lock' = NoCaller
    /\ Decides(c, "TERMINAL_AUTHORITATIVE", "committed")
    /\ UNCHANGED <<authority, ledger, generations, answers, budget>>

\* Plausible bug: a commit that raised is recorded as a failure.
CommitFails(c, why) ==
    /\ At(c, "commit")
    /\ UNCHANGED <<story, jobs>> \/ (AmbiguousCommits /\ Applies(c))
    /\ session_lock' = NoCaller
    /\ Spends(why)
    /\ MovesSaying(c, "record", "failed")
    /\ UNCHANGED <<authority, ledger, generations, answers>>

CommitBreaks(c, why) ==
    /\ At(c, "commit")
    /\ UNCHANGED <<story, jobs>> \/ (AmbiguousCommits /\ Applies(c))
    /\ session_lock' = NoCaller
    /\ Breaks(c, "classify", why)
    /\ UNCHANGED <<authority, ledger, generations, answers>>

\* _classify_finalize_publication, retained: the whole new turn is there, or the
\* whole old state under the owner's lease; anything else is uncertain.
CompleteNew(c) ==
    authority /\ version = caller[c].version + 1 /\ responses[Mine(c)].version = version
CompleteOld(c) ==
    authority /\ version = caller[c].version /\ Holds(c, "PROPOSAL_VALIDATED")

Classify(c) ==
    /\ At(c, "classify")
    /\ CASE CompleteNew(c) -> Decides(c, "TERMINAL_AUTHORITATIVE", "committed")
         [] CompleteOld(c) -> MovesSaying(c, "old", "unknown")
         [] OTHER -> MovesSaying(c, "unsure", "unknown")
    /\ UNCHANGED <<story, jobs, session_lock, authority, ledger, generations, answers, budget>>

ClassifyBreaks(c) ==
    /\ At(c, "classify")
    /\ Spends("fault")
    /\ MovesSaying(c, "unsure", "unknown")
    /\ UNCHANGED <<story, jobs, session_lock, authority, ledger, generations, answers>>

-----------------------------------------------------------------------------
(* Settling the job. *)

\* _record_terminal_job with a verdict; handle() then rereads (_reconcile_terminal).
VerdictStatus(c) == IF caller[c].verdict = "stale" THEN "STALE" ELSE "FAILED_TERMINAL"

Record(c) ==
    /\ At(c, "record")
    /\ IF jobs[Mine(c)].status \in Active THEN Becomes(Mine(c), VerdictStatus(c))
       ELSE UNCHANGED jobs
    /\ Moves(c, "reread")
    /\ UNCHANGED <<story, session_lock, authority, ledger, generations, answers, budget>>

\* A refusal is recorded where it is met and again in _owner: the second may fail.
RecordBreaks(c, why) ==
    /\ At(c, "record")
    /\ \/ UNCHANGED jobs
       \/ /\ AmbiguousCommits \/ caller[c].verdict = "failed"
          /\ jobs[Mine(c)].status \in Active
          /\ Becomes(Mine(c), VerdictStatus(c))
    /\ Breaks(c, "reread", why)
    /\ UNCHANGED <<story, session_lock, authority, ledger, generations, answers>>

Reread(c) ==
    /\ At(c, "reread")
    /\ CASE Stored(Mine(c)) -> Decides(c, "TERMINAL_AUTHORITATIVE", caller[c].verdict)
         [] Unknown(Mine(c)) -> Decides(c, "TERMINAL_UNCERTAIN", caller[c].verdict)
         [] OTHER -> Moves(c, "stabilize")
    /\ UNCHANGED <<story, jobs, session_lock, authority, ledger, generations, answers, budget>>

RereadBreaks(c) ==
    /\ At(c, "reread")
    /\ Spends("fault")
    /\ Decides(c, "TERMINAL_UNCERTAIN", caller[c].verdict)
    /\ UNCHANGED <<story, jobs, session_lock, authority, ledger, generations, answers>>

\* Where the owner goes when _stabilize_published_job returned True or False.
AfterSettling(c) ==
    CASE At(c, "abandon") -> Moves(c, "reread")
      [] At(c, "unsure") -> Decides(c, "TERMINAL_UNCERTAIN", "unknown")
      [] OTHER -> Decides(c, "TERMINAL_AUTHORITATIVE", caller[c].verdict)

\* A failure to settle after a cancelled call hides the cancellation.
AfterFailing(c) ==
    CASE At(c, "abandon") ->
           caller' = [caller EXCEPT ![c].pc = "reread", ![c].cancelled = FALSE,
                                    ![c].verdict = "unknown"]
      [] At(c, "old") -> Moves(c, "unsure")
      [] OTHER -> Decides(c, "TERMINAL_UNCERTAIN", caller[c].verdict)

\* _stabilize_published_job: PREPARED is claimed first, then the job is unknown.
SettleClaim(c) ==
    /\ caller[c].pc \in Settling
    /\ jobs[Mine(c)].status = "PREPARED"
    /\ Becomes(Mine(c), "IN_PROGRESS")
    /\ UNCHANGED <<story, session_lock, authority, ledger, caller, generations, answers, budget>>

Settle(c) ==
    /\ caller[c].pc \in Settling
    /\ jobs[Mine(c)].status # "PREPARED"
    /\ IF jobs[Mine(c)].status \in Leased THEN Becomes(Mine(c), "OUTCOME_UNKNOWN")
       ELSE UNCHANGED jobs
    /\ AfterSettling(c)
    /\ UNCHANGED <<story, session_lock, authority, ledger, generations, answers, budget>>

\* Every exception, and too many lost races, is answered with False.
SettleBreaks(c) ==
    /\ caller[c].pc \in Settling
    /\ Spends("fault")
    /\ \/ UNCHANGED jobs
       \/ /\ AmbiguousCommits
          /\ \/ jobs[Mine(c)].status = "PREPARED" /\ Becomes(Mine(c), "IN_PROGRESS")
             \/ jobs[Mine(c)].status \in Leased /\ Becomes(Mine(c), "OUTCOME_UNKNOWN")
    /\ AfterFailing(c)
    /\ UNCHANGED <<story, session_lock, authority, ledger, generations, answers>>

-----------------------------------------------------------------------------
(* Signalling, following, polling. *)

\* The transitions _terminal allows; any other raises and leaves the entry open.
Allowed(from, to) ==
    \/ from = "OWNER_RESERVED" /\ to \in {"TERMINAL_NO_JOB", "TERMINAL_UNCERTAIN"}
    \/ from = "JOB_PUBLISHED" /\ to \in {"TERMINAL_AUTHORITATIVE", "TERMINAL_UNCERTAIN"}

\* _terminal resolves the shared future; the owner then returns, unless cancelled.
Signal(c) ==
    /\ At(c, "signal")
    /\ IF ledger[Mine(c)].owner # c \/ ledger[Mine(c)].lifecycle \in Terminal
       THEN UNCHANGED ledger
       ELSE /\ Allowed(ledger[Mine(c)].lifecycle, caller[c].fate)
            /\ ledger' = [ledger EXCEPT ![Mine(c)].lifecycle = caller[c].fate]
    /\ Tells(c, IF caller[c].cancelled THEN "none" ELSE caller[c].verdict)
    /\ Ends(c)
    /\ UNCHANGED <<story, jobs, session_lock, authority, generations, budget>>

\* A cancellation during retained work is remembered.  Settling after a lost call
\* or publication is not retained: it gives up and the entry is settled again.
Remember(c) ==
    /\ caller[c].pc \in Retained /\ ~caller[c].cancelled
    /\ Spends("cancel")
    /\ caller' = [caller EXCEPT ![c].cancelled = TRUE,
                                ![c].pc = IF @ = "abandon" THEN "reread" ELSE @]
    /\ UNCHANGED <<story, jobs, session_lock, authority, ledger, generations, answers>>

\* A follower waits on the shielded future of the entry.
Follow(c) ==
    /\ At(c, "follow")
    /\ \/ /\ ledger[Mine(c)].lifecycle = "TERMINAL_NO_JOB"
          /\ Tells(c, "rejected") /\ Ends(c)
       \/ /\ ledger[Mine(c)].lifecycle = "TERMINAL_UNCERTAIN"
          /\ Tells(c, "unknown") /\ Ends(c)
       \/ /\ ledger[Mine(c)].lifecycle = "TERMINAL_AUTHORITATIVE"
          /\ Moves(c, "replay") /\ UNCHANGED answers
    /\ UNCHANGED <<story, jobs, session_lock, authority, ledger, generations, budget>>

\* Plausible bug: a duplicate waits for a committed turn, whatever was settled.
ReplayUntilCommitted(c) ==
    /\ At(c, "replay")
    /\ IF Stored(Mine(c)) THEN Tells(c, "committed") /\ Ends(c)
       ELSE Moves(c, "follow") /\ UNCHANGED answers
    /\ UNCHANGED <<story, jobs, session_lock, authority, ledger, generations, budget>>

\* _authoritative_replay.
Replay(c) ==
    /\ At(c, "replay")
    /\ Tells(c, Recorded(Mine(c)))
    /\ Ends(c)
    /\ UNCHANGED <<story, jobs, session_lock, authority, ledger, generations, budget>>

\* get_narrative_request_status reads the rows and, its transaction closed, asks
\* the ledger.
Poll(c, r) ==
    /\ At(c, "idle")
    /\ caller' = [caller EXCEPT ![c] =
         [Idle EXCEPT !.pc = "polling", !.request = r, !.form = responses[r].form,
                      !.verdict = Polled(r)]]
    /\ UNCHANGED <<story, jobs, session_lock, authority, ledger, generations, answers, budget>>

PollEnds(c) ==
    /\ At(c, "polling")
    /\ Tells(c, Public(Mine(c), caller[c].verdict))
    /\ Ends(c)
    /\ UNCHANGED <<story, jobs, session_lock, authority, ledger, generations, budget>>

\* A caller that owns nothing is cancelled, or its read fails.
Leave(c) ==
    /\ caller[c].pc \in Visiting
    /\ Spends("cancel")
    /\ Ends(c)
    /\ UNCHANGED <<story, jobs, session_lock, authority, ledger, generations, answers>>

-----------------------------------------------------------------------------
(* The environment. *)

\* Time passes the lease of a claimed job.
Expire(r) ==
    /\ jobs[r].status \in Leased /\ ~jobs[r].expired
    /\ jobs' = [jobs EXCEPT ![r].expired = TRUE]
    /\ UNCHANGED <<story, session_lock, authority, ledger, caller, generations, answers, budget>>

\* The Run ends, or the character it is bound to changes.
Unbind ==
    /\ authority
    /\ authority' = FALSE
    /\ UNCHANGED <<story, jobs, session_lock, ledger, caller, generations, answers, budget>>

\* What a task does when nothing fails and nobody cancels it.
Progress(c) ==
    \/ ResolveKnown(c) \/ ResolveRefused(c) \/ ResolveFresh(c) \/ Reserve(c)
    \/ Publish(c) \/ PublishRefused(c) \/ Mark(c) \/ Probe(c)
    \/ Claim(c) \/ Enter(c) \/ CallAgain(c) \/ CallEnds(c)
    \/ Store(c) \/ Finalize(c) \/ Commit(c) \/ Classify(c)
    \/ Record(c) \/ Reread(c) \/ SettleClaim(c) \/ Settle(c) \/ Signal(c)
    \/ Follow(c) \/ Replay(c) \/ PollEnds(c)

Disturb(c) ==
    \/ PublishCancelled(c) \/ ProbeBreaks(c) \/ EntryBreaks(c) \/ CallBreaks(c) \/ ClassifyBreaks(c)
    \/ RereadBreaks(c) \/ SettleBreaks(c) \/ Remember(c) \/ Leave(c)
    \/ \E why \in {"fault", "cancel"} :
         \/ PublishBreaks(c, why) \/ ClaimBreaks(c, why) \/ StoreBreaks(c, why)
         \/ FinalizeBreaks(c, why) \/ CommitBreaks(c, why) \/ RecordBreaks(c, why)

Next ==
    \/ \E c \in Callers :
         \/ Progress(c) \/ Disturb(c)
         \/ \E r \in Requests : Poll(c, r) \/ \E f \in Forms : Arrive(c, r, f)
    \/ \E r \in Requests : Expire(r)
    \/ Unbind

Spec == Init /\ [][Next]_vars

\* The event loop runs every task that can run, the provider's call has a timeout.
FairSpec == Spec /\ \A c \in Callers : WF_vars(Progress(c))

-----------------------------------------------------------------------------
(* Properties. *)

\* Every variable has its type, and no request is ever generated more than twice,
\* however often it is submitted, cancelled or followed.
TypeOK ==
    /\ version \in Nat
    /\ events \in Seq(Requests)
    /\ responses \in [Requests -> Response]
    /\ jobs \in [Requests -> Job]
    /\ session_lock \in Callers \cup {NoCaller}
    /\ authority \in BOOLEAN
    /\ ledger \in [Requests -> Entry]
    /\ caller \in [Callers -> Local]
    /\ generations \in [Requests -> 0..2]
    /\ answers \subseteq Answer
    /\ faults \in 0..MaxFaults /\ cancels \in 0..MaxCancels

\* What the ledger says of a request is what the rows say: no entry, or one that
\* proved no job, means no row; an open entry means a job of its identity; an
\* authoritative end means a settled job.
LedgerTellsTheTruth ==
    \A r \in Requests :
        /\ ledger[r].lifecycle \in {"NONE", "OWNER_RESERVED", "TERMINAL_NO_JOB"} => ~Stored(r)
        /\ ledger[r].lifecycle = "NONE" => jobs[r].status = "ABSENT" \/ jobs[r].legacy
        /\ ledger[r].lifecycle = "TERMINAL_NO_JOB" => jobs[r].status = "ABSENT"
        /\ ledger[r].lifecycle = "JOB_PUBLISHED" =>
              /\ jobs[r].status # "ABSENT"
              /\ jobs[r].form = ledger[r].form /\ jobs[r].prepared = ledger[r].version
        /\ ledger[r].lifecycle = "TERMINAL_AUTHORITATIVE" => jobs[r].status \in Settled

\* An entry that is not terminal is the business of one live task, its owner, and
\* the transition that task is about to make is one _terminal allows.
NoOrphanedAttempt ==
    /\ \A r \in Requests : ledger[r].lifecycle \in {"OWNER_RESERVED", "JOB_PUBLISHED"} =>
          /\ ledger[r].owner \in Callers
          /\ caller[ledger[r].owner].pc \in Owning
          /\ Mine(ledger[r].owner) = r
    /\ \A c \in Callers : caller[c].pc \in Owning =>
          /\ ledger[Mine(c)].owner = c
          /\ At(c, "signal") => Allowed(ledger[Mine(c)].lifecycle, caller[c].fate)

\* Turns are applied whole and once: the version counts the events, no request has
\* two, and a committed job, its response and its event stand or fall together.
TurnsAreWhole ==
    /\ version = Len(events)
    /\ \A i, j \in 1..Len(events) : events[i] = events[j] => i = j
    /\ \A i \in 1..Len(events) : responses[events[i]].version = i
    /\ \A r \in Requests :
          /\ Stored(r) <=> jobs[r].status = "COMMITTED"
          /\ Stored(r) =>
                /\ responses[r].version \in 1..version
                /\ events[responses[r].version] = r
                /\ responses[r].version = jobs[r].prepared + 1
                /\ responses[r].form = jobs[r].form

\* A request of which any caller was told that it failed, went stale or was
\* rejected is never applied, whoever submits it again.
RefusalIsFinal ==
    \A a \in answers : a.said \in {"failed", "stale", "rejected"} => ~Stored(a.request)

\* A caller told of a committed turn submitted the very content that was applied,
\* and is told the turn's own version.
AnswersOwnSubmission ==
    \A a \in answers : a.said = "committed" =>
        /\ Stored(a.request)
        /\ a.form = responses[a.request].form
        /\ a.version = responses[a.request].version

\* With a store whose failed commits publish nothing, a turn that was applied is
\* never called uncertain, whatever fails or is cancelled after its commit.
CommittedIsNotHidden ==
    \A r \in Requests : Stored(r) =>
        /\ ledger[r].lifecycle # "TERMINAL_UNCERTAIN"
        /\ \A a \in answers : a.request = r => a.said = "committed"

\* Once the ledger has settled a request, polling it never says pending again, even
\* when its job could not be settled.
SettledIsPublic ==
    \A r \in Requests :
        ledger[r].lifecycle \in Terminal => Public(r, Polled(r)) # "pending"

\* At most Capacity jobs are ever published beside the ones found.
CapacityHolds ==
    Cardinality({r \in Requests : jobs[r].status # "ABSENT" /\ ~jobs[r].legacy}) <= Capacity

\* The provider is entered only by an owner nobody has cancelled, for a job that is
\* published, claimed and not yet answered.
NoCallOutsideAttempt ==
    [][\A r \in Requests : generations'[r] # generations[r] =>
          /\ ledger[r].lifecycle = "JOB_PUBLISHED"
          /\ ~caller[ledger[r].owner].cancelled
          /\ jobs[r].status = "IN_PROGRESS"]_vars

\* What following a settled entry ends in (Follow, then Replay).
FollowerIsTold(r) ==
    CASE ledger[r].lifecycle = "TERMINAL_NO_JOB" -> "rejected"
      [] ledger[r].lifecycle = "TERMINAL_UNCERTAIN" -> "unknown"
      [] OTHER -> Recorded(r)

\* The outcome the owner was told is the outcome its duplicates are told.
OneOutcome ==
    \A a \in answers : ledger[a.request].lifecycle \in Terminal =>
        FollowerIsTold(a.request) = a.said

\* Every call returns, however often it fails, waits or is cancelled: no owner
\* ends without resolving the future its duplicates wait for.
EveryCallReturns ==
    \A c \in Callers : ~At(c, "idle") ~> At(c, "idle")

-----------------------------------------------------------------------------
(* The inductive invariant behind the safety properties. *)

\* The request will never be applied: it was not, and nobody is left to do it.
Closed(r) ==
    /\ ~Stored(r)
    /\ \/ ledger[r].lifecycle \in Terminal
       \/ jobs[r].status \in Settled
       \/ r \in Suggested /\ version > 0

\* Is a caller's saying so a promise that the request will never be applied?
Refuses(said) ==
    \/ said \in {"failed", "stale", "rejected"}
    \/ said = "unknown" /\ ~AmbiguousCommits

OwnJob(c) ==
    /\ jobs[Mine(c)].status # "ABSENT" /\ ~jobs[Mine(c)].legacy
    /\ jobs[Mine(c)].form = caller[c].form
    /\ jobs[Mine(c)].prepared = caller[c].version

Unpublished == {"publish", "probe", "marking"}

\* Where the job of an owner stands in each of its phases.
JobMatchesPhase(c) ==
    LET status == jobs[Mine(c)].status IN
    CASE At(c, "publish") -> status = "ABSENT"
      [] At(c, "probe") -> status = "ABSENT" \/ (OwnJob(c) /\ status = "PREPARED")
      [] caller[c].pc \in {"marking", "claim"} -> OwnJob(c) /\ status = "PREPARED"
      [] caller[c].pc \in {"entry", "calling", "store"} -> OwnJob(c) /\ status = "IN_PROGRESS"
      [] caller[c].pc \in {"finalize", "commit"} -> OwnJob(c) /\ status = "PROPOSAL_VALIDATED"
      [] At(c, "record") -> OwnJob(c) /\ status \in Leased
      [] At(c, "signal") ->
            /\ caller[c].fate = "TERMINAL_NO_JOB" => status = "ABSENT"
            /\ caller[c].fate = "TERMINAL_AUTHORITATIVE" => OwnJob(c) /\ status \in Settled
            /\ ledger[Mine(c)].lifecycle = "JOB_PUBLISHED" => OwnJob(c)
      [] OTHER -> OwnJob(c)

LedgerMatchesPhase(c) ==
    /\ SameIdentity(c)
    /\ caller[c].pc \in Unpublished => ledger[Mine(c)].lifecycle = "OWNER_RESERVED"
    /\ caller[c].pc \notin Unpublished \cup {"signal"} =>
          ledger[Mine(c)].lifecycle = "JOB_PUBLISHED"

\* What an owner is about to be told is true of the rows.
VerdictIsTrue(c) ==
    /\ caller[c].verdict = "committed" =>
          At(c, "signal") /\ Stored(Mine(c)) /\ caller[c].fate = "TERMINAL_AUTHORITATIVE"
    /\ Refuses(caller[c].verdict) => ~Stored(Mine(c))
    /\ ~AmbiguousCommits /\ ~At(c, "signal") => ~Stored(Mine(c))
    /\ ~AmbiguousCommits /\ caller[c].fate = "TERMINAL_UNCERTAIN" => ~Stored(Mine(c))

OwnerInv(c) ==
    caller[c].pc \in Owning =>
        /\ Mine(c) \in Requests
        /\ JobMatchesPhase(c)
        /\ LedgerMatchesPhase(c)
        /\ VerdictIsTrue(c)
        /\ caller[c].cancelled => caller[c].pc \in Retained
        /\ Mine(c) \in Suggested => caller[c].version = 0
        /\ At(c, "record") => caller[c].verdict \in {"failed", "stale"}
        /\ At(c, "commit") => session_lock = c /\ version = caller[c].version
        /\ caller[c].pc \in Unpublished \cup {"claim", "entry"} => generations[Mine(c)] = 0
        /\ At(c, "calling") /\ ~caller[c].again => generations[Mine(c)] = 1

VisitorInv(c) ==
    /\ caller[c].pc \in Visiting => Mine(c) \in Requests
    /\ caller[c].pc \in {"resolve", "reserve"} =>
          caller[c].verdict = "none" /\ caller[c].fate = "none" /\ ~caller[c].cancelled
    /\ At(c, "reserve") =>
          /\ ~Reserved(Mine(c)) => jobs[Mine(c)].status = "ABSENT"
          /\ Mine(c) \in Suggested => caller[c].version = 0
    /\ caller[c].pc \in {"follow", "replay"} =>
          Reserved(Mine(c)) /\ ledger[Mine(c)].form = caller[c].form
    /\ At(c, "replay") => ledger[Mine(c)].lifecycle = "TERMINAL_AUTHORITATIVE"
    /\ At(c, "polling") =>
          /\ caller[c].verdict = "committed" =>
                Stored(Mine(c)) /\ caller[c].form = responses[Mine(c)].form
          /\ Refuses(caller[c].verdict) => Closed(Mine(c))

LedgerInv(r) ==
    /\ ~Reserved(r) => generations[r] = 0
    /\ jobs[r].status # "ABSENT" /\ ~jobs[r].legacy => Reserved(r)
    /\ ledger[r].lifecycle = "TERMINAL_AUTHORITATIVE" => jobs[r].form = ledger[r].form
    /\ ledger[r].lifecycle = "TERMINAL_UNCERTAIN" /\ Stored(r) => AmbiguousCommits

AnswersInv ==
    \A a \in answers : Refuses(a.said) => Closed(a.request)

IInv ==
    /\ LedgerTellsTheTruth /\ NoOrphanedAttempt /\ TurnsAreWhole /\ AnswersOwnSubmission
    /\ \A c \in Callers : OwnerInv(c) /\ VisitorInv(c)
    /\ \A r \in Requests : LedgerInv(r)
    /\ AnswersInv

(* The promise: a request is closed once its job is settled otherwise, its     *)
(* entry proved no job, or someone was told something else than committed.     *)
AppliedTurns ==
    [i \in 1..Len(events) |-> [request |-> events[i], form |-> responses[events[i]].form]]

ClosedRequests ==
    {r \in Requests : ~Stored(r) /\
        \/ jobs[r].status \in Settled
        \/ ledger[r].lifecycle = "TERMINAL_NO_JOB"
        \/ \E a \in answers : a.request = r /\ a.said \notin {"committed"}
                              /\ ~(AmbiguousCommits /\ a.said = "unknown")}

Promise == INSTANCE TurnPromise WITH
    Forms <- Forms \cup {NoForm}, MayHide <- AmbiguousCommits, turns <- AppliedTurns,
    closed <- ClosedRequests, told <- answers

PromiseSpec == Promise!Spec

=============================================================================
