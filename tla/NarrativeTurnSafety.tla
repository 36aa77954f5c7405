------------------------- MODULE NarrativeTurnSafety -------------------------
(***************************************************************************)
(* The inductive invariant of NarrativeTurn, and the safety theorems that  *)
(* follow from it, for any number of workers, requests, action signatures  *)
(* and lease tokens.                                                       *)
(*                                                                         *)
(* Types come first.  The invariant is then proved in four layers, each    *)
(* for the steps that keep the ones before it: who holds which lock and    *)
(* lease, what a transaction under the session lock may rely on, what is   *)
(* stored, and what was said.                                              *)
(* At the end, with the invariant, the rows are shown to behave as         *)
(* TurnLedger.                                                             *)
(***************************************************************************)
EXTENDS NarrativeTurn, TLAPS

-----------------------------------------------------------------------------
(* Rows and local states have their types, and keep them when rewritten. *)

Statuses == ActiveStatus \cup TerminalStatus \cup {"ABSENT"}

LEMMA StatusNames ==
  /\ Statuses = {"PREPARED", "IN_PROGRESS", "PROPOSAL_VALIDATED", "FAILED_TERMINAL",
                 "STALE", "OUTCOME_UNKNOWN", "COMMITTED", "ABSENT"}
  /\ FailedStatus \subseteq Statuses
  BY DEF Statuses, ActiveStatus, TerminalStatus, FailedStatus

LEMMA EmptyRows ==
  /\ NoJob \in Job
  /\ NoResponse \in Response
  /\ NoView \in View
  /\ IdleWorker \in Worker
<1>1. NoJob \in Job
  BY StatusNames DEF NoJob, Job, Statuses
<1>2. NoResponse \in Response
  BY DEF NoResponse, Response
<1>3. NoView \in View
  BY <1>2 DEF NoView, View
<1>4. IdleWorker \in Worker
  BY <1>3 DEF IdleWorker, Worker, Phase
<1> QED
  BY <1>1, <1>2, <1>3, <1>4

LEMMA EndedType ==
  ASSUME NEW job \in Job, NEW status \in Statuses
  PROVE  Ended(job, status) \in Job
  BY DEF Ended, Job, Statuses

LEMMA LeasedType ==
  ASSUME NEW job \in Job, NEW status \in LeasedStatus, NEW token \in Tokens
  PROVE  Leased(job, status, token) \in Job
  BY StatusNames DEF Leased, Job, Statuses, LeasedStatus

\* Everything an execution does to its own state keeps the type of that state.
LEMMA BecomesType ==
  ASSUME TypeOK, NEW w \in Workers, NEW local \in Worker, Becomes(w, local)
  PROVE  /\ worker' \in [Workers -> Worker]
         /\ worker'[w] = local
         /\ \A x \in Workers \ {w} : worker'[x] = worker[x]
  BY DEF TypeOK, Becomes

LEMMA WritesType ==
  ASSUME TypeOK, NEW r \in Requests, NEW row \in Job, Writes(r, row)
  PROVE  /\ jobs' \in [Requests -> Job]
         /\ jobs'[r] = row
         /\ \A q \in Requests \ {r} : jobs'[q] = jobs[q]
  BY DEF TypeOK, Writes

LEMMA FinishType ==
  ASSUME TypeOK, NEW w \in Workers, Finish(w)
  PROVE  /\ worker' \in [Workers -> Worker]
         /\ session_lock' \in Workers \cup {NoWorker}
  BY BecomesType, EmptyRows DEF Finish, TypeOK

\* What an execution that is not idle works on.
LEMMA WorkingType ==
  ASSUME TypeOK, Posted, NEW w \in Workers, ~At(w, "idle")
  PROVE  /\ worker[w] \in Worker
         /\ worker[w].request \in Requests
         /\ worker[w].signature \in Signatures
         /\ jobs[worker[w].request] \in Job
         /\ turn_requests[worker[w].request] \in Response
  BY DEF TypeOK, Posted, At, IdleWorker

LEMMA AnswerType ==
  ASSUME TypeOK, Posted, NEW w \in Workers, ~At(w, "idle"),
         NEW said \in {"committed", "unknown", "failed", "corrupt"}, NEW v \in Nat,
         FinishTelling(w, said, v)
  PROVE  answers' \subseteq Answer
<1>1. Says(w, said, v) \in Answer
  BY WorkingType DEF Says, Answer
<1> QED
  BY <1>1 DEF FinishTelling, TypeOK

LEMMA TellTerminalType ==
  ASSUME TypeOK, Posted, NEW w \in Workers, ~At(w, "idle"), NEW status \in Statuses,
         TellTerminal(w, status)
  PROVE  /\ worker' \in [Workers -> Worker]
         /\ session_lock' \in Workers \cup {NoWorker}
         /\ answers' \subseteq Answer
<1>1. Finish(w)
  BY DEF TellTerminal, FinishTelling, FinishSilently
<1>2. answers' \subseteq Answer
  BY AnswerType DEF TellTerminal, FinishSilently, TypeOK
<1> QED
  BY <1>1, <1>2, FinishType

-----------------------------------------------------------------------------
(* Type correctness. *)

Typing == TypeOK /\ Posted

\* The states an execution may move to: idle, or working on one request.
Local(local) ==
  /\ local \in Worker
  /\ \/ local = IdleWorker
     \/ local.pc # "idle" /\ local.request \in Requests /\ local.signature \in Signatures

LEMMA BecomesTyping ==
  ASSUME Typing, NEW w \in Workers, NEW local, Local(local), Becomes(w, local)
  PROVE  worker' \in [Workers -> Worker] /\ Posted'
  BY BecomesType DEF Typing, Local, Posted, At

LEMMA FinishTyping ==
  ASSUME Typing, NEW w \in Workers, Finish(w)
  PROVE  /\ worker' \in [Workers -> Worker]
         /\ Posted'
         /\ session_lock' \in Workers \cup {NoWorker}
  BY FinishType, EmptyRows, BecomesTyping DEF Finish, Typing, Local

LEMMA SubmitTyping ==
  ASSUME Typing, NEW w \in Workers, NEW r \in Requests, NEW s \in Signatures, Submit(w, r, s)
  PROVE  Typing'
<1>1. Local([worker[w] EXCEPT !.pc = "prepare", !.request = r, !.signature = s])
  BY ZenonT(60) DEF Typing, TypeOK, Local, Worker, Phase
<1>2. QED
  BY <1>1, BecomesTyping DEF Submit, Typing, TypeOK, game

LEMMA PrepareTyping ==
  ASSUME Typing, NEW w \in Workers, Prepare(w)
  PROVE  Typing'
<1> DEFINE view == [version  |-> version,
                    response |-> turn_requests[worker[w].request],
                    known    |-> jobs[worker[w].request].status # "ABSENT",
                    busy     |-> Busy]
<1>1. view \in View
  BY WorkingType DEF Typing, Prepare, At, TypeOK, View, Busy
<1>2. Local([worker[w] EXCEPT !.pc = "resolve", !.view = view])
  BY ZenonT(60), <1>1, WorkingType DEF Typing, Prepare, At, Local, Worker, Phase
<1>3. QED
  BY <1>2, BecomesTyping DEF Prepare, LockSession, Typing, TypeOK, game

\* Actions that end the execution and rewrite at most one job row.
LEMMA EndingTyping ==
  ASSUME Typing, NEW w \in Workers, ~At(w, "idle"),
         UNCHANGED <<game, turn_requests, release, provider_calls>>,
         jobs' \in [Requests -> Job],
         \/ FinishSilently(w)
         \/ \E said \in {"committed", "unknown", "failed", "corrupt"}, v \in Nat :
               FinishTelling(w, said, v)
         \/ \E status \in Statuses : TellTerminal(w, status)
  PROVE  Typing'
<1>1. Finish(w)
  BY DEF FinishSilently, FinishTelling, TellTerminal
<1>2. answers' \subseteq Answer
  <2>1. CASE FinishSilently(w)
    BY <2>1 DEF FinishSilently, Typing, TypeOK
  <2>2. CASE \E said \in {"committed", "unknown", "failed", "corrupt"}, v \in Nat :
               FinishTelling(w, said, v)
    BY <2>2, AnswerType DEF Typing
  <2>3. CASE \E status \in Statuses : TellTerminal(w, status)
    BY <2>3, TellTerminalType DEF Typing
  <2> QED
    BY <2>1, <2>2, <2>3
<1> QED
  BY <1>1, <1>2, FinishTyping DEF Typing, TypeOK, game

LEMMA ResolveTyping ==
  ASSUME Typing, NEW w \in Workers, Resolve(w)
  PROVE  Typing'
<1> DEFINE r == worker[w].request
<1>1. ~At(w, "idle")
  BY DEF Resolve, Replay, Meets, Fresh, MeetConflict, MeetOldSchema, MeetExpired, MeetOpen,
         MeetClosed, ResolveUnchanged, ResolveChanged, ResolveTemplate, Changes, ResolveNarrative, At
<1>2. r \in Requests /\ worker[w] \in Worker /\ jobs[r] \in Job /\ worker[w].signature \in Signatures
  BY <1>1, WorkingType DEF Typing
<1>3. /\ worker[w].view.version \in Nat
      /\ worker[w].view.response.version \in Nat
  BY <1>2 DEF Worker, View, Response
<1>4. CASE Replay(w)
  BY <1>1, <1>3, <1>4, EndingTyping DEF Replay, Typing, TypeOK
<1>5. CASE MeetConflict(w)
  BY <1>1, <1>5, EndingTyping DEF MeetConflict, Meets, Typing, TypeOK
<1>6. CASE MeetOldSchema(w)
  <2>1. Ended(jobs[r], "STALE") \in Job
    BY <1>2, EndedType, StatusNames
  <2>2. jobs' \in [Requests -> Job]
    BY <1>2, <1>6, <2>1, WritesType DEF MeetOldSchema, Typing
  <2> QED
    BY <1>1, <1>6, <2>2, EndingTyping DEF MeetOldSchema, Meets
<1>7. CASE MeetExpired(w)
  <2>1. Ended(jobs[r], "OUTCOME_UNKNOWN") \in Job
    BY <1>2, EndedType, StatusNames
  <2>2. jobs' \in [Requests -> Job]
    BY <1>2, <1>7, <2>1, WritesType DEF MeetExpired, Typing
  <2> QED
    BY <1>1, <1>7, <2>2, EndingTyping DEF MeetExpired, Meets
<1>8. CASE MeetOpen(w)
  <2>1. Local([worker[w] EXCEPT !.pc = "claim", !.view = NoView])
    BY <1>2, EmptyRows DEF Local, Worker, Phase
  <2> QED
    BY <1>8, <2>1, BecomesTyping DEF MeetOpen, Meets, Typing, TypeOK, game
<1>9. CASE MeetClosed(w)
  <2>1. jobs[r].status \in Statuses
    BY <1>2 DEF Job, Statuses
  <2> QED
    BY <1>1, <1>9, <2>1, EndingTyping DEF MeetClosed, Meets, Typing, TypeOK
<1>10. CASE ResolveUnchanged(w)
  <2>1. turn_requests' \in [Requests -> Response]
    BY <1>2, <1>3, <1>10 DEF ResolveUnchanged, Typing, TypeOK, Response
  <2>2. Finish(w) /\ answers' \subseteq Answer
    BY <1>1, <1>3, <1>10, AnswerType DEF ResolveUnchanged, Typing, FinishTelling
  <2> QED
    BY <1>10, <2>1, <2>2, FinishTyping DEF ResolveUnchanged, Typing, TypeOK, game
<1>11. ASSUME Changes(w), jobs' \in [Requests -> Job] PROVE Typing'
  <2>1. /\ version' \in Nat
        /\ events' \in Seq(Requests)
        /\ turn_requests' \in [Requests -> Response]
    BY <1>2, <1>3, <1>11 DEF Changes, ApplyTurn, Typing, TypeOK, Response
  <2>2. Finish(w) /\ answers' \subseteq Answer
    BY <1>1, <1>3, <1>11, AnswerType DEF Changes, Typing, FinishTelling
  <2> QED
    BY <1>11, <2>1, <2>2, FinishTyping DEF Changes, Typing, TypeOK
<1>12. CASE ResolveChanged(w)
  BY <1>11, <1>12 DEF ResolveChanged, Typing, TypeOK
<1>13. CASE ResolveTemplate(w)
  <2> DEFINE row == [NoJob EXCEPT !.status = "COMMITTED", !.prepared = worker[w].view.version,
                       !.signature = worker[w].signature, !.proposal = "accepted"]
  <2>1. row \in Job
    BY <1>2, <1>3, StatusNames DEF NoJob, Job, Statuses, Proposals
  <2>2. jobs' \in [Requests -> Job]
    BY <1>2, <1>13, <2>1, WritesType DEF ResolveTemplate, Typing
  <2> QED
    BY <1>11, <1>13, <2>2 DEF ResolveTemplate
<1>14. CASE ResolveNarrative(w)
  <2> DEFINE row == [NoJob EXCEPT !.status = "PREPARED", !.schema = release,
                       !.signature = worker[w].signature, !.prepared = worker[w].view.version]
  <2>1. row \in Job
    BY <1>2, <1>3, StatusNames DEF NoJob, Job, Statuses, Typing, TypeOK
  <2>2. jobs' \in [Requests -> Job]
    BY <1>2, <1>14, <2>1, WritesType DEF ResolveNarrative, Typing
  <2>3. Local([worker[w] EXCEPT !.pc = "claim", !.view = NoView])
    BY <1>2, EmptyRows DEF Local, Worker, Phase
  <2> QED
    BY <1>14, <2>2, <2>3, BecomesTyping DEF ResolveNarrative, Typing, TypeOK, game
<1> QED
  BY <1>4, <1>5, <1>6, <1>7, <1>8, <1>9, <1>10, <1>12, <1>13, <1>14 DEF Resolve

LEMMA ClaimTyping ==
  ASSUME Typing, NEW w \in Workers, Claim(w)
  PROVE  Typing'
<1> DEFINE r == worker[w].request
<1>1. ~At(w, "idle")
  BY DEF Claim, ClaimPrepared, ClaimValidated, ClaimExpired, ClaimRefused, Claims, At
<1>2. r \in Requests /\ worker[w] \in Worker /\ jobs[r] \in Job /\ worker[w].signature \in Signatures
  BY <1>1, WorkingType DEF Typing
<1>3. ASSUME NEW t \in Tokens, ClaimPrepared(w, t) PROVE Typing'
  <2>1. Leased(jobs[r], "IN_PROGRESS", t) \in Job
    BY <1>2, LeasedType DEF LeasedStatus
  <2>2. jobs' \in [Requests -> Job]
    BY <1>2, <1>3, <2>1, WritesType DEF ClaimPrepared, Typing
  <2>3. Local([worker[w] EXCEPT !.pc = "detach", !.token = t, !.late = FALSE])
    BY <1>2 DEF Local, Worker, Phase
  <2> QED
    BY <1>3, <2>2, <2>3, BecomesTyping DEF ClaimPrepared, Claims, Typing, TypeOK, game
<1>4. ASSUME NEW t \in Tokens, ClaimValidated(w, t) PROVE Typing'
  <2>1. Leased(jobs[r], "PROPOSAL_VALIDATED", t) \in Job
    BY <1>2, LeasedType DEF LeasedStatus
  <2>2. jobs' \in [Requests -> Job]
    BY <1>2, <1>4, <2>1, WritesType DEF ClaimValidated, Typing
  <2>3. Local([worker[w] EXCEPT !.pc = "finalize", !.token = t, !.late = FALSE])
    BY <1>2 DEF Local, Worker, Phase
  <2> QED
    BY <1>4, <2>2, <2>3, BecomesTyping DEF ClaimValidated, Claims, Typing, TypeOK, game
<1>5. CASE ClaimExpired(w)
  <2>1. Ended(jobs[r], "OUTCOME_UNKNOWN") \in Job
    BY <1>2, EndedType, StatusNames
  <2>2. jobs' \in [Requests -> Job]
    BY <1>2, <1>5, <2>1, WritesType DEF ClaimExpired, Typing
  <2> QED
    BY <1>1, <1>5, <2>2, EndingTyping DEF ClaimExpired, Claims
<1>6. CASE ClaimRefused(w)
  BY <1>1, <1>6, EndingTyping DEF ClaimRefused, Claims, Typing, TypeOK
<1> QED
  BY <1>3, <1>4, <1>5, <1>6 DEF Claim

\* The actions that only move one execution to its next phase.
LEMMA CallTyping ==
  ASSUME Typing, NEW w \in Workers,
         Detach(w) \/ DetachStale(w) \/ DetachTooLarge(w) \/ Call(w) \/ StoreTooLate(w)
           \/ Finalize(w) \/ FinalizeStale(w) \/ CommitRefused(w) \/ LeaseLate(w)
  PROVE  Typing'
<1> DEFINE r == worker[w].request
<1>1. ~At(w, "idle")
  BY DEF Detach, DetachStale, DetachTooLarge, Call, Answered, CallFailed, StoreTooLate, Finalize, FinalizeStale,
         CommitRefused, LeaseLate, At
<1>2. r \in Requests /\ worker[w] \in Worker /\ worker[w].signature \in Signatures
  BY <1>1, WorkingType DEF Typing
<1>3. CASE Detach(w)
  <2>1. Local([worker[w] EXCEPT !.pc = "calling"])
    BY <1>2 DEF Local, Worker, Phase
  <2>2. provider_calls' \in [Requests -> Nat]
    BY <1>2, <1>3 DEF Detach, Typing, TypeOK
  <2> QED
    BY <1>3, <2>1, <2>2, BecomesTyping DEF Detach, Typing, TypeOK, game
<1>4. ASSUME NEW verdict \in FailedStatus,
             Becomes(w, [worker[w] EXCEPT !.pc = "record", !.verdict = verdict])
      PROVE  worker' \in [Workers -> Worker] /\ Posted'
  <2>1. Local([worker[w] EXCEPT !.pc = "record", !.verdict = verdict])
    BY <1>2 DEF Local, Worker, Phase
  <2> QED
    BY <1>4, <2>1, BecomesTyping
<1>5. CASE DetachStale(w) \/ DetachTooLarge(w)
  BY <1>4, <1>5 DEF DetachStale, DetachTooLarge, Typing, TypeOK, game, FailedStatus
<1>6. ASSUME NEW p \in Proposals, Answered(w, p) PROVE Typing'
  <2>1. Local([worker[w] EXCEPT !.pc = "store", !.proposal = p])
    BY <1>2 DEF Local, Worker, Phase
  <2> QED
    BY <1>6, <2>1, BecomesTyping DEF Answered, Typing, TypeOK, game
<1>7. ASSUME NEW verdict \in FailedStatus, CallFailed(w, verdict) PROVE Typing'
  BY <1>4, <1>7 DEF CallFailed, Typing, TypeOK, game
<1>8. CASE StoreTooLate(w)
  <2>1. Local([worker[w] EXCEPT !.pc = "record", !.proposal = "none",
                 !.verdict = "OUTCOME_UNKNOWN"])
    BY <1>2 DEF Local, Worker, Phase, FailedStatus
  <2> QED
    BY <1>8, <2>1, BecomesTyping DEF StoreTooLate, Typing, TypeOK, game
<1>9. CASE Finalize(w)
  <2>1. Local([worker[w] EXCEPT !.pc = "commit"])
    BY <1>2 DEF Local, Worker, Phase
  <2> QED
    BY <1>9, <2>1, BecomesTyping DEF Finalize, LockSession, Typing, TypeOK, game
<1>10. CASE FinalizeStale(w)
  BY <1>4, <1>10 DEF FinalizeStale, Typing, TypeOK, game, FailedStatus
<1>11. CASE CommitRefused(w)
  BY <1>4, <1>11 DEF CommitRefused, Typing, TypeOK, game, FailedStatus
<1>12. CASE LeaseLate(w)
  <2>1. Local([worker[w] EXCEPT !.late = TRUE])
    BY <1>1, <1>2 DEF Local, Worker, At
  <2> QED
    BY <1>12, <2>1, BecomesTyping DEF LeaseLate, Typing, TypeOK, game
<1> QED
  BY <1>3, <1>5, <1>6, <1>7, <1>8, <1>9, <1>10, <1>11, <1>12 DEF Call

LEMMA StoreTyping ==
  ASSUME Typing, NEW w \in Workers, Store(w)
  PROVE  Typing'
<1> DEFINE r == worker[w].request
           row == [jobs[r] EXCEPT !.status = "PROPOSAL_VALIDATED", !.proposal = worker[w].proposal]
<1>1. r \in Requests /\ worker[w] \in Worker /\ jobs[r] \in Job /\ worker[w].signature \in Signatures
  BY WorkingType DEF Typing, Store, At
<1>2. row \in Job
  BY <1>1, StatusNames DEF Worker, Job, Statuses
<1>3. jobs' \in [Requests -> Job]
  BY <1>1, <1>2, WritesType DEF Store, Typing
<1>4. Local([worker[w] EXCEPT !.pc = "finalize", !.proposal = "none"])
  BY <1>1 DEF Local, Worker, Phase
<1> QED
  BY <1>3, <1>4, BecomesTyping DEF Store, Typing, TypeOK, game

LEMMA RecordTyping ==
  ASSUME Typing, NEW w \in Workers, Record(w)
  PROVE  Typing'
<1> DEFINE r == worker[w].request
<1>1. ~At(w, "idle")
  BY DEF Record, At
<1>2. r \in Requests /\ jobs[r] \in Job
  BY <1>1, WorkingType DEF Typing
<1>3. worker[w].verdict \in Statuses
  BY StatusNames DEF Record, TellTerminal, ActiveStatus
<1>4. Ended(jobs[r], worker[w].verdict) \in Job
  BY <1>2, <1>3, EndedType
<1>5. jobs' \in [Requests -> Job]
  BY <1>2, <1>4, WritesType DEF Record, Typing, TypeOK
<1> QED
  BY <1>1, <1>3, <1>5, EndingTyping DEF Record

LEMMA CommitTyping ==
  ASSUME Typing, NEW w \in Workers, Commit(w)
  PROVE  Typing'
<1> DEFINE r == worker[w].request
           j == jobs[r]
<1>1. ~At(w, "idle")
  BY DEF Commit, At
<1>2. r \in Requests /\ j \in Job
  BY <1>1, WorkingType DEF Typing
<1>3. j.prepared \in Nat /\ j.signature \in Signatures \cup {NoSignature}
  BY <1>2 DEF Job
<1>4. /\ version' \in Nat
      /\ events' \in Seq(Requests)
      /\ turn_requests' \in [Requests -> Response]
  BY <1>2, <1>3 DEF Commit, ApplyTurn, Typing, TypeOK, Response
<1>5. Ended(j, "COMMITTED") \in Job
  BY <1>2, EndedType, StatusNames
<1>6. jobs' \in [Requests -> Job]
  BY <1>2, <1>5, WritesType DEF Commit, Typing
<1>7. Finish(w) /\ answers' \subseteq Answer
  BY <1>1, <1>3, AnswerType DEF Commit, FinishTelling, Typing
<1> QED
  BY <1>4, <1>6, <1>7, FinishTyping DEF Commit, Typing, TypeOK

LEMMA EnvironmentTyping ==
  ASSUME Typing
  PROVE  /\ \A r \in Requests : LeaseExpires(r) => Typing'
         /\ \A w \in Workers : Crash(w) => Typing'
         /\ Deploy => Typing'
         /\ UNCHANGED vars => Typing'
<1>1. ASSUME NEW r \in Requests, LeaseExpires(r) PROVE Typing'
  <2>1. jobs[r] \in Job
    BY DEF Typing, TypeOK
  <2>2. [jobs[r] EXCEPT !.expired = TRUE] \in Job
    BY <2>1 DEF Job
  <2>3. jobs' \in [Requests -> Job]
    BY <1>1, <2>2, WritesType DEF LeaseExpires, Typing
  <2> QED
    BY <1>1, <2>3 DEF LeaseExpires, Typing, TypeOK, Posted, At, game
<1>2. ASSUME NEW w \in Workers, Crash(w) PROVE Typing'
  BY <1>2, EndingTyping DEF Crash, Typing, TypeOK
<1>3. CASE Deploy
  BY <1>3, EmptyRows DEF Deploy, Typing, TypeOK, Posted, game
<1>4. CASE UNCHANGED vars
  BY <1>4 DEF vars, Typing, TypeOK, Posted, At, game
<1> QED
  BY <1>1, <1>2, <1>3, <1>4

LEMMA TypingInit == Init => Typing
  BY EmptyRows DEF Init, Typing, TypeOK, Posted

LEMMA TypingStep == Typing /\ [Next]_vars => Typing'
<1> SUFFICES ASSUME Typing, [Next]_vars PROVE Typing'
  OBVIOUS
<1>1. ASSUME NEW w \in Workers, Handle(w) PROVE Typing'
  BY <1>1, PrepareTyping, ResolveTyping, ClaimTyping, CallTyping, StoreTyping, RecordTyping,
     CommitTyping DEF Handle
<1>2. CASE Post
  BY <1>2, SubmitTyping DEF Post
<1>3. CASE Server
  BY <1>1, <1>3, CallTyping, EnvironmentTyping DEF Server
<1> QED
  BY <1>2, <1>3, EnvironmentTyping DEF Next

\* Every row and every local state is one the code can write, and an execution
\* that is not idle works on one request of its client.
THEOREM TypeCorrect == Spec => []TypeOK
<1>1. Spec => []Typing
  BY TypingInit, TypingStep, PTL DEF Spec
<1>2. Typing => TypeOK
  BY DEF Typing
<1> QED
  BY <1>1, <1>2, PTL

-----------------------------------------------------------------------------
(* Steps that differ only in why they are taken. *)

Rows == <<game, turn_requests, jobs, release, provider_calls>>

\* The execution ends and changes no row.
Leaves(w) ==
  /\ ~At(w, "idle")
  /\ Finish(w)
  /\ UNCHANGED Rows

\* The execution ends its job without a commit.
Fails(w, status) ==
  LET r == worker[w].request IN
  /\ ~At(w, "idle")
  /\ status \in FailedStatus
  /\ jobs[r].status \in ActiveStatus
  /\ At(w, "resolve") \/ ~RowLocked(r)
  /\ Writes(r, Ended(jobs[r], status))
  /\ Finish(w)
  /\ UNCHANGED <<game, turn_requests, release, provider_calls>>

\* The execution will record a verdict instead of going on.
GivesUp(w, proposal, verdict) ==
  /\ worker[w].pc \in {"detach", "calling", "store", "finalize", "commit"}
  /\ Becomes(w, [worker[w] EXCEPT !.pc = "record", !.proposal = proposal, !.verdict = verdict])
  /\ \/ ~At(w, "commit") /\ UNCHANGED session_lock
     \/ At(w, "commit") /\ session_lock' = NoWorker
  /\ \/ verdict = "STALE"
     \/ worker[w].pc \in CallPhase
     \/ At(w, "commit") /\ jobs[worker[w].request].proposal = "refused"
  /\ UNCHANGED Rows

LEMMA LeavesSteps ==
  ASSUME NEW w \in Workers,
         Replay(w) \/ MeetConflict(w) \/ MeetClosed(w) \/ ClaimRefused(w) \/ Crash(w)
  PROVE  Leaves(w)
  BY DEF Replay, Meets, MeetConflict, MeetClosed, Claims, ClaimRefused, Crash, TellTerminal,
         FinishSilently, FinishTelling, Leaves, Rows, At, game

LEMMA FailsSteps ==
  ASSUME Typing, NEW w \in Workers,
         MeetOldSchema(w) \/ MeetExpired(w) \/ ClaimExpired(w)
  PROVE  \E status \in FailedStatus : Fails(w, status)
<1>1. CASE MeetOldSchema(w)
  <2>1. Fails(w, "STALE")
    BY <1>1 DEF MeetOldSchema, Meets, FinishSilently, Fails, At, FailedStatus
  <2> QED
    BY <2>1 DEF FailedStatus
<1>2. CASE MeetExpired(w) \/ ClaimExpired(w)
  <2>1. Fails(w, "OUTCOME_UNKNOWN")
    BY <1>2 DEF MeetExpired, Meets, ClaimExpired, Claims, FinishTelling, Fails, At, FailedStatus,
                ActiveStatus
  <2> QED
    BY <2>1 DEF FailedStatus
<1> QED
  BY <1>1, <1>2

LEMMA RecordSteps ==
  ASSUME Typing, NEW w \in Workers, Record(w)
  PROVE  Leaves(w) \/ \E status \in FailedStatus : Fails(w, status)
<1> DEFINE r == worker[w].request
<1>1. Finish(w) /\ ~At(w, "idle") /\ UNCHANGED <<game, turn_requests, release, provider_calls>>
  BY DEF Record, TellTerminal, FinishTelling, FinishSilently, At
<1>2. worker[w].verdict \in FailedStatus \cup {"none"}
  BY DEF Typing, TypeOK, Worker
<1>3. worker[w].verdict # "none"
  BY DEF Record, TellTerminal, ActiveStatus
<1>4. CASE jobs[r].status \in LeasedStatus /\ LeaseHolds(w)
  BY <1>1, <1>2, <1>3, <1>4 DEF Record, Fails, LeasedStatus, ActiveStatus
<1>5. CASE ~(jobs[r].status \in LeasedStatus /\ LeaseHolds(w))
  BY <1>1, <1>5 DEF Record, Leaves, Rows
<1> QED
  BY <1>4, <1>5

LEMMA GivesUpSteps ==
  ASSUME Typing, NEW w \in Workers,
         \/ DetachStale(w) \/ DetachTooLarge(w)
         \/ \E verdict \in FailedStatus : CallFailed(w, verdict)
         \/ StoreTooLate(w) \/ FinalizeStale(w) \/ CommitRefused(w)
  PROVE  \E proposal \in Proposals \cup {"none"}, verdict \in FailedStatus :
            GivesUp(w, proposal, verdict)
<1>1. worker[w] \in Worker
  BY DEF Typing, TypeOK
<1>2. ASSUME NEW verdict \in FailedStatus,
             Becomes(w, [worker[w] EXCEPT !.pc = "record", !.verdict = verdict])
      PROVE  Becomes(w, [worker[w] EXCEPT !.pc = "record", !.proposal = worker[w].proposal,
                           !.verdict = verdict])
  BY <1>1, <1>2 DEF Worker, Becomes
<1>3. worker[w].proposal \in Proposals \cup {"none"}
  BY <1>1 DEF Worker
<1>4. CASE DetachStale(w) \/ FinalizeStale(w)
  <2>1. GivesUp(w, worker[w].proposal, "STALE")
    BY <1>2, <1>4 DEF DetachStale, FinalizeStale, GivesUp, Rows, At, CallPhase, game, FailedStatus
  <2> QED
    BY <1>3, <2>1 DEF FailedStatus
<1>5. CASE DetachTooLarge(w)
  <2>1. GivesUp(w, worker[w].proposal, "FAILED_TERMINAL")
    BY <1>2, <1>5 DEF DetachTooLarge, GivesUp, Rows, At, CallPhase, game, FailedStatus
  <2> QED
    BY <1>3, <2>1 DEF FailedStatus
<1>6. ASSUME NEW verdict \in FailedStatus, CallFailed(w, verdict)
      PROVE  GivesUp(w, worker[w].proposal, verdict)
  BY <1>2, <1>6 DEF CallFailed, GivesUp, Rows, At, CallPhase, game
<1>7. CASE StoreTooLate(w)
  <2>1. GivesUp(w, "none", "OUTCOME_UNKNOWN")
    BY <1>7 DEF StoreTooLate, GivesUp, Rows, At, CallPhase, game
  <2> QED
    BY <2>1 DEF FailedStatus
<1>8. CASE CommitRefused(w)
  <2>1. PICK verdict \in FailedStatus :
          /\ Becomes(w, [worker[w] EXCEPT !.pc = "record", !.verdict = verdict])
          /\ verdict = "STALE" \/ jobs[worker[w].request].proposal = "refused"
    BY <1>8 DEF CommitRefused, FailedStatus
  <2>2. GivesUp(w, worker[w].proposal, verdict)
    BY <1>2, <1>8, <2>1 DEF CommitRefused, GivesUp, Rows, At, CallPhase, game
  <2> QED
    BY <1>3, <2>2
<1> QED
  BY <1>3, <1>4, <1>5, <1>6, <1>7, <1>8

\* The steps there are.
LEMMA StepKinds ==
  ASSUME Typing, [Next]_vars
  PROVE  \/ \E w \in Workers :
              \/ \E r \in Requests, s \in Signatures : Submit(w, r, s)
              \/ Prepare(w)
              \/ Leaves(w)
              \/ \E status \in FailedStatus : Fails(w, status)
              \/ MeetOpen(w)
              \/ ResolveUnchanged(w) \/ ResolveChanged(w) \/ ResolveTemplate(w)
              \/ ResolveNarrative(w)
              \/ \E t \in Tokens : ClaimPrepared(w, t) \/ ClaimValidated(w, t)
              \/ Detach(w)
              \/ \E proposal \in Proposals \cup {"none"}, verdict \in FailedStatus :
                    GivesUp(w, proposal, verdict)
              \/ \E p \in Proposals : Answered(w, p)
              \/ Store(w) \/ Finalize(w) \/ Commit(w)
              \/ LeaseLate(w)
         \/ \E r \in Requests : LeaseExpires(r)
         \/ Deploy
         \/ UNCHANGED vars
  BY LeavesSteps, FailsSteps, RecordSteps, GivesUpSteps
  DEF Next, Post, Server, Handle, Resolve, Claim, Call

-----------------------------------------------------------------------------
(* First layer: who holds which lock and lease. *)

Leases ==
  /\ Typing
  /\ LockOwner
  /\ Carries
  /\ LifecycleShape
  /\ OneCaller
  /\ CommitReady
  /\ LeaseFencing
  /\ ProviderCalledOnce

LEMMA LeasesInit == Init => Leases
  BY TypingInit, NullAssumption
  DEF Init, Leases, LockOwner, Carries, LifecycleShape, OneCaller, CommitReady, LeaseFencing,
      ProviderCalledOnce, SameLease, CallPhase, IdleWorker, NoJob, LeasedStatus, At

\* A failed job keeps its attempt and gives its lease back.
LEMMA FailsKeepsShape ==
  ASSUME Leases, NEW w \in Workers, NEW status \in FailedStatus, Fails(w, status)
  PROVE  LifecycleShape'
<1> DEFINE r == worker[w].request
<1>1. r \in Requests /\ jobs[r] \in Job
  BY WorkingType DEF Leases, Typing, Fails
<1>2. Ended(jobs[r], status) \in Job
  BY <1>1, EndedType, StatusNames
<1>3. jobs'[r] = Ended(jobs[r], status) /\ \A q \in Requests \ {r} : jobs'[q] = jobs[q]
  BY <1>1, <1>2, WritesType DEF Fails, Leases, Typing
<1>4. /\ jobs'[r].status = status
      /\ jobs'[r].token = NoToken
      /\ jobs'[r].attempt = jobs[r].attempt
  BY <1>1, <1>3 DEF Ended, Job
<1>5. provider_calls' = provider_calls
  BY DEF Fails
<1> QED
  BY <1>1, <1>3, <1>4, <1>5 DEF Leases, LifecycleShape, FailedStatus, LeasedStatus

LEMMA ExpiryKeepsShape ==
  ASSUME Leases, NEW r \in Requests, LeaseExpires(r)
  PROVE  LifecycleShape'
<1>1. jobs[r] \in Job
  BY DEF Leases, Typing, TypeOK
<1>2. [jobs[r] EXCEPT !.expired = TRUE] \in Job
  BY <1>1 DEF Job
<1>3. /\ jobs'[r] = [jobs[r] EXCEPT !.expired = TRUE]
      /\ \A q \in Requests \ {r} : jobs'[q] = jobs[q]
  BY <1>2, WritesType DEF LeaseExpires, Leases, Typing
<1>4. /\ jobs'[r].status = jobs[r].status
      /\ jobs'[r].token = jobs[r].token
      /\ jobs'[r].attempt = jobs[r].attempt
  BY <1>1, <1>3 DEF Job
<1>5. jobs[r].status \in LeasedStatus /\ provider_calls' = provider_calls
  BY DEF LeaseExpires
<1>6. ASSUME NEW q \in Requests PROVE jobs'[q].status = "ABSENT" => jobs'[q] = NoJob
  <2>1. CASE q = r
    BY <1>4, <1>5, <2>1 DEF LeasedStatus
  <2>2. CASE q # r
    BY <1>3, <2>2 DEF Leases, LifecycleShape
  <2> QED
    BY <2>1, <2>2
<1>7. ASSUME NEW q \in Requests
      PROVE  /\ jobs'[q].status = jobs[q].status
             /\ jobs'[q].token = jobs[q].token
             /\ jobs'[q].attempt = jobs[q].attempt
  BY <1>3, <1>4
<1> QED
  BY <1>5, <1>6, <1>7 DEF Leases, LifecycleShape

\* What the first layer says besides the types and shapes of rows.
Held ==
  /\ LockOwner
  /\ Carries
  /\ OneCaller
  /\ CommitReady
  /\ LeaseFencing
  /\ ProviderCalledOnce

LEMMA LeasesStep == Leases /\ [Next]_vars => Leases'
<1> SUFFICES ASSUME Leases, [Next]_vars PROVE (Held /\ LifecycleShape)'
  BY TypingStep DEF Leases, Held
<1> USE NullAssumption
    DEF Held, Leases, LockOwner, Carries, OneCaller, CommitReady, LeaseFencing,
        ProviderCalledOnce, SameLease, RowLocked, CallPhase, LeasedStatus, FailedStatus,
        Typing, TypeOK, Posted, Worker, Job, At, Becomes, Writes, Finish, IdleWorker, game
<1> DEFINE Goal == Held /\ LifecycleShape
<1>1. ASSUME NEW w \in Workers, NEW r \in Requests, NEW s \in Signatures, Submit(w, r, s)
      PROVE  Goal'
  BY <1>1 DEF Submit, LifecycleShape
<1>2. ASSUME NEW w \in Workers, Prepare(w) PROVE Goal'
  <2>1. LifecycleShape'
    BY <1>2 DEF Prepare, LockSession, LifecycleShape
  <2>2. (LockOwner /\ Carries)'
    BY <1>2 DEF Prepare, LockSession, LifecycleShape
  <2>3. (OneCaller /\ ProviderCalledOnce)'
    BY <1>2 DEF Prepare, LockSession, LifecycleShape
  <2>4. (CommitReady /\ LeaseFencing)'
    BY <1>2 DEF Prepare, LockSession, LifecycleShape
  <2> QED
    BY <2>1, <2>2, <2>3, <2>4
<1>3. ASSUME NEW w \in Workers, Leaves(w) PROVE Goal'
  BY <1>3 DEF Leaves, Rows, LifecycleShape
<1>4. ASSUME NEW w \in Workers, NEW status \in FailedStatus, Fails(w, status) PROVE Goal'
  <2>1. LifecycleShape'
    BY <1>4, FailsKeepsShape
  <2>2. Held'
    BY SMTT(20), <1>4 DEF Fails, Ended, ActiveStatus
  <2> QED
    BY <2>1, <2>2
<1>5. ASSUME NEW w \in Workers, MeetOpen(w) PROVE Goal'
  <2>1. LifecycleShape'
    BY <1>5 DEF MeetOpen, Meets, LifecycleShape
  <2>2. (LockOwner /\ Carries)'
    BY <1>5 DEF MeetOpen, Meets, LifecycleShape
  <2>3. (OneCaller /\ ProviderCalledOnce)'
    BY <1>5 DEF MeetOpen, Meets, LifecycleShape
  <2>4. (CommitReady /\ LeaseFencing)'
    BY <1>5 DEF MeetOpen, Meets, LifecycleShape
  <2> QED
    BY <2>1, <2>2, <2>3, <2>4
<1>6. ASSUME NEW w \in Workers, ResolveUnchanged(w) PROVE Goal'
  BY <1>6 DEF ResolveUnchanged, Fresh, FinishTelling, LifecycleShape
<1>7. ASSUME NEW w \in Workers, ResolveChanged(w) PROVE Goal'
  <2>1. LifecycleShape'
    BY <1>7 DEF ResolveChanged, Changes, Fresh, ApplyTurn, FinishTelling, LifecycleShape
  <2>2. (LockOwner /\ Carries)'
    BY <1>7 DEF ResolveChanged, Changes, Fresh, ApplyTurn, FinishTelling, LifecycleShape
  <2>3. (OneCaller /\ ProviderCalledOnce)'
    BY <1>7 DEF ResolveChanged, Changes, Fresh, ApplyTurn, FinishTelling, LifecycleShape
  <2>4. (CommitReady /\ LeaseFencing)'
    BY <1>7 DEF ResolveChanged, Changes, Fresh, ApplyTurn, FinishTelling, LifecycleShape
  <2> QED
    BY <2>1, <2>2, <2>3, <2>4
<1>8. ASSUME NEW w \in Workers, ResolveTemplate(w) PROVE Goal'
  <2>1. LifecycleShape'
    BY <1>8 DEF ResolveTemplate, Changes, Fresh, ApplyTurn, FinishTelling, LifecycleShape, NoJob
  <2>2. (LockOwner /\ Carries)'
    BY <1>8 DEF ResolveTemplate, Changes, Fresh, ApplyTurn, FinishTelling, LifecycleShape, NoJob
  <2>3. (OneCaller /\ ProviderCalledOnce)'
    BY <1>8 DEF ResolveTemplate, Changes, Fresh, ApplyTurn, FinishTelling, LifecycleShape, NoJob
  <2>4. (CommitReady /\ LeaseFencing)'
    BY <1>8 DEF ResolveTemplate, Changes, Fresh, ApplyTurn, FinishTelling, LifecycleShape, NoJob
  <2> QED
    BY <2>1, <2>2, <2>3, <2>4
<1>9. ASSUME NEW w \in Workers, ResolveNarrative(w) PROVE Goal'
  <2>1. LifecycleShape'
    BY <1>9 DEF ResolveNarrative, Fresh, LifecycleShape, NoJob
  <2>2. (LockOwner /\ Carries)'
    BY <1>9 DEF ResolveNarrative, Fresh, LifecycleShape, NoJob
  <2>3. (OneCaller /\ ProviderCalledOnce)'
    BY <1>9 DEF ResolveNarrative, Fresh, LifecycleShape, NoJob
  <2>4. (CommitReady /\ LeaseFencing)'
    BY <1>9 DEF ResolveNarrative, Fresh, LifecycleShape, NoJob
  <2> QED
    BY <2>1, <2>2, <2>3, <2>4
<1>10. ASSUME NEW w \in Workers, NEW t \in Tokens, ClaimPrepared(w, t) PROVE Goal'
  <2>1. LifecycleShape'
    BY <1>10 DEF ClaimPrepared, Claims, TokensInUse, Leased, LifecycleShape
  <2>2. (LockOwner /\ Carries)'
    BY <1>10 DEF ClaimPrepared, Claims, TokensInUse, Leased, LifecycleShape
  <2>3. (OneCaller /\ ProviderCalledOnce)'
    BY <1>10 DEF ClaimPrepared, Claims, TokensInUse, Leased, LifecycleShape
  <2>4. (CommitReady /\ LeaseFencing)'
    BY <1>10 DEF ClaimPrepared, Claims, TokensInUse, Leased, LifecycleShape
  <2> QED
    BY <2>1, <2>2, <2>3, <2>4
<1>11. ASSUME NEW w \in Workers, NEW t \in Tokens, ClaimValidated(w, t) PROVE Goal'
  <2>1. LifecycleShape'
    BY <1>11 DEF ClaimValidated, Claims, TokensInUse, Leased, LifecycleShape
  <2>2. (LockOwner /\ Carries)'
    BY <1>11 DEF ClaimValidated, Claims, TokensInUse, Leased, LifecycleShape
  <2>3. (OneCaller /\ ProviderCalledOnce)'
    BY <1>11 DEF ClaimValidated, Claims, TokensInUse, Leased, LifecycleShape
  <2>4. (CommitReady /\ LeaseFencing)'
    BY <1>11 DEF ClaimValidated, Claims, TokensInUse, Leased, LifecycleShape
  <2> QED
    BY <2>1, <2>2, <2>3, <2>4
<1>12. ASSUME NEW w \in Workers, Detach(w) PROVE Goal'
  BY <1>12 DEF Detach, LifecycleShape
<1>13. ASSUME NEW w \in Workers, NEW proposal \in Proposals \cup {"none"},
              NEW verdict \in FailedStatus, GivesUp(w, proposal, verdict)
       PROVE  Goal'
  <2>1. LifecycleShape'
    BY <1>13 DEF GivesUp, Rows, LifecycleShape
  <2>2. (LockOwner /\ Carries)'
    BY <1>13 DEF GivesUp, Rows, LifecycleShape
  <2>3. (OneCaller /\ ProviderCalledOnce)'
    BY <1>13 DEF GivesUp, Rows, LifecycleShape
  <2>4. (CommitReady /\ LeaseFencing)'
    BY <1>13 DEF GivesUp, Rows, LifecycleShape
  <2> QED
    BY <2>1, <2>2, <2>3, <2>4
<1>14. ASSUME NEW w \in Workers, NEW p \in Proposals, Answered(w, p) PROVE Goal'
  BY <1>14 DEF Answered, LifecycleShape
<1>15. ASSUME NEW w \in Workers, Store(w) PROVE Goal'
  <2>1. LifecycleShape'
    BY <1>15 DEF Store, CanStore, LifecycleShape
  <2>2. (LockOwner /\ Carries)'
    BY <1>15 DEF Store, CanStore, LifecycleShape
  <2>3. (OneCaller /\ ProviderCalledOnce)'
    BY <1>15 DEF Store, CanStore, LifecycleShape
  <2>4. (CommitReady /\ LeaseFencing)'
    BY <1>15 DEF Store, CanStore, LifecycleShape
  <2> QED
    BY <2>1, <2>2, <2>3, <2>4
<1>16. ASSUME NEW w \in Workers, Finalize(w) PROVE Goal'
  <2>1. LifecycleShape'
    BY <1>16 DEF Finalize, LockSession, CanFinalize, LeaseHolds, LifecycleShape
  <2>2. (LockOwner /\ Carries)'
    BY <1>16 DEF Finalize, LockSession, CanFinalize, LeaseHolds, LifecycleShape
  <2>3. (OneCaller /\ ProviderCalledOnce)'
    BY <1>16 DEF Finalize, LockSession, CanFinalize, LeaseHolds, LifecycleShape
  <2>4. (CommitReady /\ LeaseFencing)'
    BY <1>16 DEF Finalize, LockSession, CanFinalize, LeaseHolds, LifecycleShape
  <2> QED
    BY <2>1, <2>2, <2>3, <2>4
<1>17. ASSUME NEW w \in Workers, Commit(w) PROVE Goal'
  <2>1. LifecycleShape'
    BY <1>17 DEF Commit, ApplyTurn, FinishTelling, Ended, LifecycleShape
  <2>2. (LockOwner /\ Carries)'
    BY <1>17 DEF Commit, ApplyTurn, FinishTelling, Ended, LifecycleShape
  <2>3. (OneCaller /\ ProviderCalledOnce)'
    BY <1>17 DEF Commit, ApplyTurn, FinishTelling, Ended, LifecycleShape
  <2>4. (CommitReady /\ LeaseFencing)'
    BY <1>17 DEF Commit, ApplyTurn, FinishTelling, Ended, LifecycleShape
  <2> QED
    BY <2>1, <2>2, <2>3, <2>4
<1>18. ASSUME NEW r \in Requests, LeaseExpires(r) PROVE Goal'
  <2>1. LifecycleShape'
    BY <1>18, ExpiryKeepsShape
  <2>2. Held'
    BY <1>18 DEF LeaseExpires
  <2> QED
    BY <2>1, <2>2
<1>19. ASSUME NEW w \in Workers, LeaseLate(w) PROVE Goal'
  BY <1>19 DEF LeaseLate, LifecycleShape
<1>20. CASE Deploy
  BY <1>20 DEF Deploy, LifecycleShape
<1>21. CASE UNCHANGED vars
  BY <1>21 DEF vars, LifecycleShape
<1> HIDE DEF Held, Typing, FailedStatus
<1> QED
  BY <1>1, <1>2, <1>3, <1>4, <1>5, <1>6, <1>7, <1>8, <1>9, <1>10, <1>11, <1>12, <1>13, <1>14,
     <1>15, <1>16, <1>17, <1>18, <1>19, <1>20, <1>21, StepKinds

-----------------------------------------------------------------------------
(* Second layer: what a transaction under the session lock may rely on. *)

Views ==
  /\ ViewIsCurrent
  /\ SingleActiveJob
  /\ ActiveJobPinsVersion

LEMMA ViewsInit == Init => Views
  BY DEF Init, Views, ViewIsCurrent, SingleActiveJob, ActiveJobPinsVersion, ActiveJobs, ActiveStatus,
         NoJob, IdleWorker, At

\* A transaction that has just locked the session row sees what is there.
LEMMA PrepareViews ==
  ASSUME Leases, Views, NEW w \in Workers, Prepare(w)
  PROVE  Views'
<1> DEFINE view == [version  |-> version,
                    response |-> turn_requests[worker[w].request],
                    known    |-> jobs[worker[w].request].status # "ABSENT",
                    busy     |-> Busy]
<1>1. /\ worker[w] \in Worker
      /\ worker \in [Workers -> Worker]
  BY DEF Leases, Typing, TypeOK
<1>2. UNCHANGED <<version, turn_requests, jobs>>
  BY DEF Prepare, game
<1>3. /\ worker'[w] = [worker[w] EXCEPT !.pc = "resolve", !.view = view]
      /\ \A x \in Workers \ {w} : worker'[x] = worker[x]
  BY <1>1 DEF Prepare, Becomes
<1>4. worker'[w].view = view /\ worker'[w].request = worker[w].request
  BY <1>1, <1>3 DEF Worker
<1>5. ActiveJobs' = ActiveJobs
  BY <1>2 DEF ActiveJobs
<1>6. ~view.busy => ActiveJobs = {}
  BY DEF Busy
<1>7. ASSUME NEW x \in Workers, worker'[x].pc = "resolve"
      PROVE  /\ worker'[x].view.version = version'
             /\ worker'[x].view.response = turn_requests'[worker'[x].request]
             /\ worker'[x].view.known <=> jobs'[worker'[x].request].status # "ABSENT"
             /\ ~worker'[x].view.busy => ActiveJobs' = {}
  <2>1. CASE x = w
    <3>1. /\ view.version = version
          /\ view.response = turn_requests[worker[w].request]
          /\ view.known = (jobs[worker[w].request].status # "ABSENT")
      OBVIOUS
    <3> HIDE DEF view
    <3>2. /\ worker'[x].view.version = version'
          /\ worker'[x].view.response = turn_requests'[worker'[x].request]
      BY <1>2, <1>4, <2>1, <3>1
    <3>3. worker'[x].view.known = (jobs'[worker'[x].request].status # "ABSENT")
      BY <1>2, <1>4, <2>1, <3>1, Zenon
    <3>4. ~worker'[x].view.busy => ActiveJobs' = {}
      BY <1>4, <1>5, <1>6, <2>1
    <3> QED
      BY <3>2, <3>3, <3>4
  <2>2. CASE x # w
    <3>1. worker'[x] = worker[x]
      BY <1>3, <2>2
    <3>2. worker[x].pc = "resolve"
      BY <1>7, <3>1
    <3>3. /\ worker[x].view.version = version
          /\ worker[x].view.response = turn_requests[worker[x].request]
          /\ worker[x].view.known <=> jobs[worker[x].request].status # "ABSENT"
          /\ ~worker[x].view.busy => ActiveJobs = {}
      BY <3>2 DEF Views, ViewIsCurrent, At
    <3> QED
      BY <1>2, <1>5, <3>1, <3>3
  <2> QED
    BY <2>1, <2>2
<1>8. ViewIsCurrent'
  BY <1>7 DEF ViewIsCurrent, At
<1>9. SingleActiveJob' /\ ActiveJobPinsVersion'
  BY <1>2, <1>5 DEF Views, SingleActiveJob, ActiveJobPinsVersion
<1> QED
  BY <1>8, <1>9 DEF Views

LEMMA ViewsStep == Leases /\ Views /\ [Next]_vars => Views'
<1> SUFFICES ASSUME Leases, Views, [Next]_vars PROVE Views'
  OBVIOUS
<1> USE NullAssumption
    DEF Views, ViewIsCurrent, SingleActiveJob, ActiveJobPinsVersion, ActiveJobs,
        Leases, LockOwner, Carries, LifecycleShape, LeaseFencing, CommitReady, SameLease, RowLocked,
        ActiveStatus, LeasedStatus, FailedStatus, Typing, TypeOK, Posted, Worker, View, Job, At,
        Becomes, Writes, Finish, IdleWorker, NoJob, game
<1>1. ASSUME NEW w \in Workers, NEW r \in Requests, NEW s \in Signatures, Submit(w, r, s)
      PROVE  Views'
  BY <1>1 DEF Submit
<1>2. ASSUME NEW w \in Workers, Leaves(w) PROVE Views'
  BY <1>2 DEF Leaves, Rows
<1>3. ASSUME NEW w \in Workers, NEW status \in FailedStatus, Fails(w, status) PROVE Views'
  <2>1. ViewIsCurrent'
    BY <1>3 DEF Fails, Ended
  <2>2. (SingleActiveJob /\ ActiveJobPinsVersion)'
    BY <1>3 DEF Fails, Ended
  <2> QED
    BY <2>1, <2>2
<1>4. ASSUME NEW w \in Workers, MeetOpen(w) PROVE Views'
  BY <1>4 DEF MeetOpen, Meets
<1>5. ASSUME NEW w \in Workers, ResolveUnchanged(w) PROVE Views'
  BY <1>5 DEF ResolveUnchanged, Fresh, FinishTelling
<1>6. ASSUME NEW w \in Workers, ResolveChanged(w) PROVE Views'
  BY <1>6 DEF ResolveChanged, Changes, Fresh, ApplyTurn, FinishTelling
<1>7. ASSUME NEW w \in Workers, ResolveTemplate(w) PROVE Views'
  BY <1>7 DEF ResolveTemplate, Changes, Fresh, ApplyTurn, FinishTelling
<1>8. ASSUME NEW w \in Workers, ResolveNarrative(w) PROVE Views'
  BY <1>8 DEF ResolveNarrative, Fresh
<1>9. ASSUME NEW w \in Workers, NEW t \in Tokens, ClaimPrepared(w, t) PROVE Views'
  BY SMTT(20), <1>9 DEF ClaimPrepared, Claims, Leased
<1>10. ASSUME NEW w \in Workers, NEW t \in Tokens, ClaimValidated(w, t) PROVE Views'
  BY SMTT(20), <1>10 DEF ClaimValidated, Claims, Leased
<1>11. ASSUME NEW w \in Workers, Detach(w) PROVE Views'
  BY <1>11 DEF Detach
<1>12. ASSUME NEW w \in Workers, NEW proposal \in Proposals \cup {"none"},
              NEW verdict \in FailedStatus, GivesUp(w, proposal, verdict)
       PROVE  Views'
  BY <1>12 DEF GivesUp, Rows
<1>13. ASSUME NEW w \in Workers, NEW p \in Proposals, Answered(w, p) PROVE Views'
  BY <1>13 DEF Answered
<1>14. ASSUME NEW w \in Workers, Store(w) PROVE Views'
  BY <1>14 DEF Store, CanStore
<1>15. ASSUME NEW w \in Workers, Finalize(w) PROVE Views'
  BY <1>15 DEF Finalize, LockSession, CanFinalize, LeaseHolds
<1>16. ASSUME NEW w \in Workers, Commit(w) PROVE Views'
  BY SMTT(20), <1>16 DEF Commit, ApplyTurn, FinishTelling, Ended
<1>17. ASSUME NEW r \in Requests, LeaseExpires(r) PROVE Views'
  BY <1>17 DEF LeaseExpires
<1>18. ASSUME NEW w \in Workers, LeaseLate(w) PROVE Views'
  BY <1>18 DEF LeaseLate
<1>19. CASE Deploy
  BY <1>19 DEF Deploy
<1>20. CASE UNCHANGED vars
  BY <1>20 DEF vars
<1> HIDE DEF Views, Typing, FailedStatus
<1> QED
  BY <1>1, <1>2, <1>3, <1>4, <1>5, <1>6, <1>7, <1>8, <1>9, <1>10, <1>11, <1>12, <1>13, <1>14,
     <1>15, <1>16, <1>17, <1>18, <1>19, <1>20, PrepareViews, StepKinds

-----------------------------------------------------------------------------
(* Third layer: what is stored together. *)

Stores ==
  /\ StoredWithJob
  /\ EventsAreStored

\* Applying a turn appends its event and stores its response, and no more.
LEMMA ApplyTurnEffect ==
  ASSUME Typing, EventsAreStored, NEW r \in Requests, NEW v \in Nat, NEW s,
         NEW route \in {"LOCAL", "NARRATIVE"}, ApplyTurn(r, v, route, s)
  PROVE  /\ version' = v + 1
         /\ Len(events') = v + 1
         /\ events'[v + 1] = r
         /\ \A i \in 1..Len(events) : events'[i] = events[i]
         /\ turn_requests'[r] = [route |-> route, signature |-> s, version |-> v + 1]
         /\ \A q \in Requests \ {r} : turn_requests'[q] = turn_requests[q]
         /\ EventsAreStored'
<1>1. v = Len(events) /\ version = v /\ ~Stored(r)
  BY DEF ApplyTurn, EventsAreStored
<1>2. events \in Seq(Requests) /\ events' = Append(events, r)
  BY DEF ApplyTurn, Typing, TypeOK
<1>3. /\ Len(events') = v + 1
      /\ events'[v + 1] = r
      /\ \A i \in 1..Len(events) : events'[i] = events[i] /\ events[i] \in Requests
  BY <1>1, <1>2
<1>4. /\ turn_requests'[r] = [route |-> route, signature |-> s, version |-> v + 1]
      /\ \A q \in Requests \ {r} : turn_requests'[q] = turn_requests[q]
  BY DEF ApplyTurn, Typing, TypeOK
<1>5. Stored(r)' /\ \A q \in Requests : Stored(q) => Stored(q)'
  BY <1>1, <1>4 DEF Stored
<1>6. \A i \in 1..Len(events) : events[i] # r
  BY <1>1 DEF EventsAreStored
<1>7. 1..Len(events') = 1..Len(events) \cup {v + 1}
  BY <1>1, <1>3
<1>8. \A i \in 1..Len(events') : turn_requests'[events'[i]].route # "NONE"
  BY <1>3, <1>5, <1>7 DEF EventsAreStored, Stored
<1>9. \A i, k \in 1..Len(events') : events'[i] = events'[k] => i = k
  BY <1>3, <1>6, <1>7 DEF EventsAreStored
<1> QED
  BY <1>1, <1>3, <1>4, <1>8, <1>9 DEF ApplyTurn, EventsAreStored, Stored

\* Steps that apply no turn and leave the committed jobs alone.
LEMMA StoresFrame ==
  ASSUME Typing, Stores, UNCHANGED <<game, turn_requests>>,
         \A r \in Requests :
            \/ jobs'[r] = jobs[r]
            \/ ~Stored(r) /\ jobs[r].status # "COMMITTED" /\ jobs'[r].status # "COMMITTED"
  PROVE  Stores'
<1>1. EventsAreStored'
  BY DEF Stores, EventsAreStored, Stored, game
<1>2. StoredWithJob'
  BY DEF Stores, StoredWithJob, Stored, game
<1> QED
  BY <1>1, <1>2 DEF Stores

\* A turn that was applied to a request together with a job that is ABSENT or, with
\* the same version and signature, COMMITTED.
LEMMA StoresApplied ==
  ASSUME Typing, Stores, NEW r \in Requests, NEW v \in Nat, NEW s,
         NEW route \in {"LOCAL", "NARRATIVE"}, ApplyTurn(r, v, route, s),
         \A q \in Requests \ {r} : jobs'[q] = jobs[q],
         \/ jobs'[r].status = "ABSENT" /\ route = "LOCAL"
         \/ /\ jobs'[r].status = "COMMITTED"
            /\ jobs'[r].signature = s
            /\ jobs'[r].prepared = v
  PROVE  Stores'
<1>1. EventsAreStored
  BY DEF Stores
<1>2. version = v /\ version = Len(events)
  BY <1>1 DEF ApplyTurn, EventsAreStored
<1>3. /\ version' = v + 1
      /\ Len(events') = v + 1
      /\ events'[v + 1] = r
      /\ \A i \in 1..Len(events) : events'[i] = events[i]
      /\ turn_requests'[r] = [route |-> route, signature |-> s, version |-> v + 1]
      /\ \A q \in Requests \ {r} : turn_requests'[q] = turn_requests[q]
      /\ EventsAreStored'
  BY <1>1, ApplyTurnEffect, Zenon
<1>4. /\ turn_requests'[r].route = route
      /\ turn_requests'[r].signature = s
      /\ turn_requests'[r].version = v + 1
  BY <1>3
<1>5. ASSUME NEW q \in Requests \ {r}, jobs[q].status = "COMMITTED"
      PROVE  /\ turn_requests[q].version <= Len(events')
             /\ events'[turn_requests[q].version] = q
  <2>1. /\ turn_requests[q].version = jobs[q].prepared + 1
        /\ turn_requests[q].version <= Len(events)
        /\ events[turn_requests[q].version] = q
    BY <1>5 DEF Stores, StoredWithJob
  <2>2. jobs[q].prepared \in Nat
    BY DEF Typing, TypeOK, Job
  <2>3. turn_requests[q].version \in 1..Len(events)
    BY <1>2, <2>1, <2>2
  <2> QED
    BY <1>3, <1>2, <2>1, <2>3
<1>6. \A q \in Requests \ {r} : turn_requests'[q] = turn_requests[q] /\ jobs'[q] = jobs[q]
  BY <1>3
<1>7. StoredWithJob'
  BY <1>3, <1>4, <1>5, <1>6 DEF Stores, StoredWithJob, Stored
<1> QED
  BY <1>3, <1>7 DEF Stores

LEMMA StoresInit == Init => Stores
  BY DEF Init, Stores, StoredWithJob, EventsAreStored, Stored, NoJob, NoResponse

LEMMA StoresStep == Leases /\ Views /\ Stores /\ [Next]_vars => Stores'
<1> SUFFICES ASSUME Leases, Views, Stores, [Next]_vars PROVE Stores'
  OBVIOUS
<1> USE DEF Leases
<1>0. jobs \in [Requests -> Job] /\ worker \in [Workers -> Worker]
  BY DEF Typing, TypeOK
\* An active or failed job has no stored response.
<1>1. ASSUME NEW r \in Requests, jobs[r].status \notin {"ABSENT", "COMMITTED"} PROVE ~Stored(r)
  BY <1>1 DEF Stores, StoredWithJob
\* Nor has a request its transaction has found fresh.
<1>2. ASSUME NEW w \in Workers, Fresh(w)
      PROVE  /\ worker[w].request \in Requests
             /\ worker[w].view.version \in Nat
             /\ jobs[worker[w].request].status = "ABSENT"
             /\ ~Stored(worker[w].request)
  <2>1. At(w, "resolve") /\ worker[w] \in Worker
    BY <1>0, <1>2 DEF Fresh
  <2>2. worker[w].request \in Requests
    BY <2>1, WorkingType DEF Typing, At
  <2>3. worker[w].view.version \in Nat
    BY <2>1 DEF Worker, View
  <2>4. ~worker[w].view.known /\ worker[w].view.response.route = "NONE"
    BY <1>2 DEF Fresh
  <2> QED
    BY <2>1, <2>2, <2>3, <2>4 DEF Views, ViewIsCurrent, Stored
<1>3. CASE UNCHANGED <<game, turn_requests, jobs>>
  BY <1>3, StoresFrame
<1>4. ASSUME NEW w \in Workers, NEW status \in FailedStatus, Fails(w, status) PROVE Stores'
  <2> DEFINE r == worker[w].request
  <2>1. r \in Requests /\ jobs[r].status \in ActiveStatus
    BY <1>4, WorkingType DEF Fails, Typing
  <2>2. jobs' = [jobs EXCEPT ![r] = Ended(jobs[r], status)]
    BY <1>4 DEF Fails, Writes
  <2>3. jobs'[r].status = status /\ \A q \in Requests \ {r} : jobs'[q] = jobs[q]
    BY <1>0, <2>1, <2>2 DEF Ended, Job
  <2> QED
    BY <1>1, <1>4, <2>1, <2>3, StoresFrame DEF Fails, ActiveStatus, FailedStatus
<1>5. ASSUME NEW w \in Workers, ResolveUnchanged(w) PROVE Stores'
  <2> DEFINE r == worker[w].request
  <2>1. Fresh(w)
    BY <1>5 DEF ResolveUnchanged
  <2>2. /\ turn_requests'[r].route = "LOCAL"
        /\ \A q \in Requests \ {r} : turn_requests'[q] = turn_requests[q]
    BY <1>2, <1>5, <2>1 DEF ResolveUnchanged, Typing, TypeOK
  <2>3. UNCHANGED <<game, jobs>>
    BY <1>5 DEF ResolveUnchanged
  <2>4. EventsAreStored'
    <3>1. events' = events /\ version' = version
      BY <2>3 DEF game
    <3>2. \A i \in 1..Len(events) : events[i] \in Requests
      BY DEF Typing, TypeOK
    <3>3. \A q \in Requests : Stored(q) => turn_requests'[q].route # "NONE"
      BY <2>2 DEF Stored
    <3> QED
      BY <3>1, <3>2, <3>3 DEF Stores, EventsAreStored, Stored
  <2>5. StoredWithJob'
    BY <1>2, <2>1, <2>2, <2>3 DEF Stores, StoredWithJob, Stored, game
  <2> QED
    BY <2>4, <2>5 DEF Stores
<1>6. ASSUME NEW w \in Workers, ResolveChanged(w) PROVE Stores'
  BY <1>2, <1>6, StoresApplied DEF ResolveChanged, Changes
<1>7. ASSUME NEW w \in Workers, ResolveTemplate(w) PROVE Stores'
  <2> DEFINE r == worker[w].request
             row == [NoJob EXCEPT !.status = "COMMITTED", !.prepared = worker[w].view.version,
                       !.signature = worker[w].signature, !.proposal = "accepted"]
  <2>1. Fresh(w) /\ ApplyTurn(r, worker[w].view.version, "LOCAL", worker[w].signature)
    BY <1>7 DEF ResolveTemplate, Changes
  <2>2. jobs' = [jobs EXCEPT ![r] = row]
    BY <1>7 DEF ResolveTemplate, Writes
  <2>3. jobs'[r] = row /\ \A q \in Requests \ {r} : jobs'[q] = jobs[q]
    BY <1>0, <1>2, <2>1, <2>2
  <2>4. /\ row.status = "COMMITTED"
        /\ row.signature = worker[w].signature
        /\ row.prepared = worker[w].view.version
    BY DEF NoJob
  <2> QED
    BY <1>2, <2>1, <2>3, <2>4, StoresApplied
<1>8. ASSUME NEW w \in Workers, ResolveNarrative(w) PROVE Stores'
  <2> DEFINE r == worker[w].request
             row == [NoJob EXCEPT !.status = "PREPARED", !.schema = release,
                       !.signature = worker[w].signature, !.prepared = worker[w].view.version]
  <2>1. Fresh(w) /\ UNCHANGED <<game, turn_requests>>
    BY <1>8 DEF ResolveNarrative
  <2>2. jobs' = [jobs EXCEPT ![r] = row]
    BY <1>8 DEF ResolveNarrative, Writes
  <2>3. jobs'[r].status = "PREPARED" /\ \A q \in Requests \ {r} : jobs'[q] = jobs[q]
    BY <1>0, <1>2, <2>1, <2>2 DEF NoJob
  <2> QED
    BY <1>2, <2>1, <2>3, StoresFrame
<1>9. ASSUME NEW w \in Workers, NEW t \in Tokens, NEW status \in LeasedStatus,
             NEW r \in Requests, jobs[r].status \in ActiveStatus,
             UNCHANGED <<game, turn_requests>>, Writes(r, Leased(jobs[r], status, t))
      PROVE  Stores'
  <2>1. jobs'[r].status = status /\ \A q \in Requests \ {r} : jobs'[q] = jobs[q]
    BY <1>0, <1>9 DEF Writes, Leased, Job
  <2> QED
    BY <1>1, <1>9, <2>1, StoresFrame DEF ActiveStatus, LeasedStatus
<1>10. ASSUME NEW w \in Workers, NEW t \in Tokens, ClaimPrepared(w, t) \/ ClaimValidated(w, t)
       PROVE  Stores'
  <2>1. worker[w].request \in Requests
    BY <1>10, WorkingType DEF ClaimPrepared, ClaimValidated, Claims, At, Typing
  <2> QED
    BY <1>9, <1>10, <2>1 DEF ClaimPrepared, ClaimValidated, Claims, ActiveStatus, LeasedStatus
<1>11. ASSUME NEW r \in Requests, NEW job \in Job, jobs[r].status \in LeasedStatus,
              job.status \in LeasedStatus, Writes(r, job), UNCHANGED <<game, turn_requests>>
       PROVE  Stores'
  <2>1. jobs'[r] = job /\ \A q \in Requests \ {r} : jobs'[q] = jobs[q]
    BY <1>0, <1>11 DEF Writes
  <2> QED
    BY <1>1, <1>11, <2>1, StoresFrame DEF LeasedStatus
<1>12. ASSUME NEW w \in Workers, Store(w) PROVE Stores'
  <2> DEFINE r == worker[w].request
             row == [jobs[r] EXCEPT !.status = "PROPOSAL_VALIDATED", !.proposal = worker[w].proposal]
  <2>1. r \in Requests /\ jobs[r] \in Job /\ worker[w].proposal \in Proposals \cup {"none"}
    BY <1>0, <1>12, WorkingType DEF Store, At, Typing, Worker
  <2>2. row \in Job /\ row.status = "PROPOSAL_VALIDATED"
    BY <2>1, StatusNames DEF Job, Statuses
  <2> QED
    BY <1>11, <1>12, <2>1, <2>2 DEF Store, CanStore, LeasedStatus
<1>13. ASSUME NEW r \in Requests, LeaseExpires(r) PROVE Stores'
  <2>1. [jobs[r] EXCEPT !.expired = TRUE] \in Job
    BY <1>0 DEF Job
  <2>2. [jobs[r] EXCEPT !.expired = TRUE].status = jobs[r].status
    BY <1>0 DEF Job
  <2> QED
    BY <1>11, <1>13, <2>1, <2>2 DEF LeaseExpires
<1>14. ASSUME NEW w \in Workers, Commit(w) PROVE Stores'
  <2> DEFINE r == worker[w].request
             j == jobs[r]
  <2>1. r \in Requests /\ j \in Job
    BY <1>14, WorkingType DEF Commit, At, Typing
  <2>2. j.prepared \in Nat
    BY <2>1 DEF Job
  <2>3. ApplyTurn(r, j.prepared, "NARRATIVE", j.signature)
    BY <1>14 DEF Commit
  <2>4. jobs' = [jobs EXCEPT ![r] = Ended(j, "COMMITTED")]
    BY <1>14 DEF Commit, Writes
  <2>5. jobs'[r] = Ended(j, "COMMITTED") /\ \A q \in Requests \ {r} : jobs'[q] = jobs[q]
    BY <1>0, <2>1, <2>4
  <2>6. /\ Ended(j, "COMMITTED").status = "COMMITTED"
        /\ Ended(j, "COMMITTED").signature = j.signature
        /\ Ended(j, "COMMITTED").prepared = j.prepared
    BY <2>1 DEF Ended, Job
  <2> QED
    BY <2>1, <2>2, <2>3, <2>5, <2>6, StoresApplied
<1>15. ASSUME NEW w \in Workers,
              \/ \E r \in Requests, s \in Signatures : Submit(w, r, s)
              \/ Prepare(w) \/ Leaves(w) \/ MeetOpen(w) \/ Detach(w)
              \/ \E proposal \in Proposals \cup {"none"}, verdict \in FailedStatus :
                    GivesUp(w, proposal, verdict)
              \/ \E p \in Proposals : Answered(w, p)
              \/ Finalize(w) \/ LeaseLate(w)
       PROVE  Stores'
  BY <1>3, <1>15 DEF Submit, Prepare, Leaves, Rows, MeetOpen, Meets, Detach, GivesUp, Answered,
                     Finalize, LeaseLate
<1>16. CASE Deploy \/ UNCHANGED vars
  BY <1>3, <1>16 DEF Deploy, vars, game
<1> QED
  BY <1>4, <1>5, <1>6, <1>7, <1>8, <1>10, <1>12, <1>13, <1>14, <1>15, <1>16, StepKinds

-----------------------------------------------------------------------------
(* Fourth layer: what clients have been told. *)

\* A stored response is never rewritten.
LEMMA StoredStable ==
  ASSUME Typing, NEW q \in Requests, Stored(q), [Next]_vars
  PROVE  turn_requests'[q] = turn_requests[q]
<1>1. ASSUME NEW r, NEW v, NEW route, NEW s, ApplyTurn(r, v, route, s)
      PROVE  turn_requests'[q] = turn_requests[q]
  BY <1>1 DEF ApplyTurn, Stored, Typing, TypeOK
<1>2. ASSUME NEW w \in Workers, ResolveUnchanged(w)
      PROVE  turn_requests'[q] = turn_requests[q]
  BY <1>2 DEF ResolveUnchanged, Stored, Typing, TypeOK
<1>3. ASSUME NEW w \in Workers, ResolveChanged(w) \/ ResolveTemplate(w) \/ Commit(w)
      PROVE  turn_requests'[q] = turn_requests[q]
  BY <1>1, <1>3 DEF ResolveChanged, ResolveTemplate, Changes, Commit
<1>4. ASSUME UNCHANGED turn_requests
      PROVE  turn_requests'[q] = turn_requests[q]
  BY <1>4
<1> QED
  BY ZenonT(60), <1>2, <1>3, <1>4, StepKinds
  DEF Submit, Prepare, Leaves, Fails, MeetOpen, Meets, ResolveNarrative, ClaimPrepared,
      ClaimValidated, Claims, Detach, GivesUp, Rows, Answered, Store, Finalize, LeaseLate,
      LeaseExpires, Deploy, vars

\* A request that will never be applied stays one.
LEMMA DoomedStable ==
  ASSUME Leases, Views, NEW q \in Requests, Doomed(q), [Next]_vars
  PROVE  Doomed(q)'
<1> USE NullAssumption
    DEF Views, ViewIsCurrent, Leases, Carries, LifecycleShape, OneCaller, LeaseFencing, CommitReady,
        SameLease, CallPhase, Doomed, ActiveStatus, LeasedStatus, FailedStatus, Typing, TypeOK, Posted,
        Worker, Job, At, Becomes, Writes, Finish, IdleWorker, NoJob
<1>1. ASSUME NEW w \in Workers, NEW r \in Requests, NEW s \in Signatures, Submit(w, r, s)
      PROVE  Doomed(q)'
  BY <1>1 DEF Submit
<1>2. ASSUME NEW w \in Workers, Prepare(w) PROVE Doomed(q)'
  BY <1>2 DEF Prepare
<1>3. ASSUME NEW w \in Workers, Leaves(w) PROVE Doomed(q)'
  BY <1>3 DEF Leaves, Rows
<1>4. ASSUME NEW w \in Workers, NEW status \in FailedStatus, Fails(w, status) PROVE Doomed(q)'
  BY <1>4 DEF Fails, Ended
<1>5. ASSUME NEW w \in Workers, MeetOpen(w) PROVE Doomed(q)'
  BY <1>5 DEF MeetOpen, Meets
<1>6. ASSUME NEW w \in Workers, ResolveUnchanged(w) \/ ResolveChanged(w) PROVE Doomed(q)'
  <2>1. Finish(w) /\ UNCHANGED jobs
    BY <1>6 DEF ResolveUnchanged, ResolveChanged, Changes, FinishTelling
  <2> QED
    BY <2>1
<1>7. ASSUME NEW w \in Workers, ResolveTemplate(w) PROVE Doomed(q)'
  BY <1>7 DEF ResolveTemplate, Changes, FinishTelling
<1>8. ASSUME NEW w \in Workers, ResolveNarrative(w) PROVE Doomed(q)'
  BY <1>8 DEF ResolveNarrative
<1>9. ASSUME NEW w \in Workers, NEW t \in Tokens, ClaimPrepared(w, t) PROVE Doomed(q)'
  BY <1>9 DEF ClaimPrepared, Claims, Leased
<1>10. ASSUME NEW w \in Workers, NEW t \in Tokens, ClaimValidated(w, t) PROVE Doomed(q)'
  BY <1>10 DEF ClaimValidated, Claims, Leased
<1>11. ASSUME NEW w \in Workers, Detach(w) PROVE Doomed(q)'
  BY <1>11 DEF Detach
<1>12. ASSUME NEW w \in Workers, NEW proposal \in Proposals \cup {"none"},
              NEW verdict \in FailedStatus, GivesUp(w, proposal, verdict)
       PROVE  Doomed(q)'
  BY <1>12 DEF GivesUp, Rows
<1>13. ASSUME NEW w \in Workers, NEW p \in Proposals, Answered(w, p) PROVE Doomed(q)'
  BY <1>13 DEF Answered
<1>14. ASSUME NEW w \in Workers, Store(w) PROVE Doomed(q)'
  BY <1>14 DEF Store, CanStore
<1>15. ASSUME NEW w \in Workers, Finalize(w) PROVE Doomed(q)'
  BY <1>15 DEF Finalize
<1>16. ASSUME NEW w \in Workers, Commit(w) PROVE Doomed(q)'
  BY <1>16 DEF Commit, FinishTelling, Ended
<1>17. ASSUME NEW r \in Requests, LeaseExpires(r) PROVE Doomed(q)'
  BY <1>17 DEF LeaseExpires
<1>18. ASSUME NEW w \in Workers, LeaseLate(w) PROVE Doomed(q)'
  BY <1>18 DEF LeaseLate
<1>19. CASE Deploy
  BY <1>19 DEF Deploy
<1>20. CASE UNCHANGED vars
  BY <1>20 DEF vars
<1> HIDE DEF Doomed, Typing, FailedStatus
<1> QED
  BY <1>1, <1>2, <1>3, <1>4, <1>5, <1>6, <1>7, <1>8, <1>9, <1>10, <1>11, <1>12, <1>13, <1>14,
     <1>15, <1>16, <1>17, <1>18, <1>19, <1>20, StepKinds

\* The steps that answer a client.
LEMMA TellingSteps ==
  ASSUME [Next]_vars
  PROVE  \/ answers' = answers
         \/ \E w \in Workers :
              \/ Replay(w) \/ MeetExpired(w) \/ MeetClosed(w)
              \/ ResolveUnchanged(w) \/ ResolveChanged(w) \/ ResolveTemplate(w)
              \/ ClaimExpired(w) \/ Record(w) \/ Commit(w)
  BY ZenonT(60) DEF Next, Post, Server, Handle, Resolve, Claim, Call, vars, Submit, Prepare, MeetConflict,
         MeetOldSchema, MeetOpen, FinishSilently, ResolveNarrative, ClaimPrepared, ClaimValidated,
         ClaimRefused, Detach, DetachStale, DetachTooLarge, Answered, CallFailed, Store, StoreTooLate,
         Finalize, FinalizeStale, CommitRefused, LeaseExpires, LeaseLate, Crash, Deploy

\* An answer is true when it is given.
Positive(a) ==
  /\ a.said = "committed"
  /\ turn_requests[a.request].route # "NONE"
  /\ turn_requests[a.request].signature = a.signature
  /\ turn_requests[a.request].version = a.version

Negative(a) == a.said \in {"failed", "unknown"} /\ Doomed(a.request)

LEMMA NewAnswers ==
  ASSUME Leases, Views, Stores, NegativeVerdicts, [Next]_vars, NEW a \in answers', a \notin answers
  PROVE  Positive(a)' \/ Negative(a)'
<1>1. PICK w \in Workers :
        \/ Replay(w) \/ MeetExpired(w) \/ MeetClosed(w)
        \/ ResolveUnchanged(w) \/ ResolveChanged(w) \/ ResolveTemplate(w)
        \/ ClaimExpired(w) \/ Record(w) \/ Commit(w)
  BY TellingSteps
<1>2. PICK r \in Requests :
      /\ r = worker[w].request
      /\ worker[w] \in Worker
      /\ jobs[r] \in Job
      /\ Typing
  <2>1. ~At(w, "idle")
    BY <1>1 DEF Replay, MeetExpired, MeetClosed, Meets, ResolveUnchanged, ResolveChanged,
                ResolveTemplate, Changes, Fresh, ClaimExpired, Claims, Record, Commit, At
  <2> QED
    BY <2>1, WorkingType DEF Leases, Typing
<1>3. ASSUME NEW said, NEW v, FinishTelling(w, said, v)
      PROVE  a = Says(w, said, v)
  BY <1>3 DEF FinishTelling
<1>4. ASSUME NEW said, NEW v, a = Says(w, said, v)
      PROVE  /\ a.request = r
             /\ a.signature = worker[w].signature
             /\ a.said = said
             /\ a.version = v
  BY <1>2, <1>4 DEF Says
\* Ends told from the job row: FAILED_TERMINAL or OUTCOME_UNKNOWN.
<1>5. ASSUME NEW status, TellTerminal(w, status), status # "COMMITTED"
      PROVE  /\ a.request = r
             /\ a.said \in {"failed", "unknown"}
             /\ status \in {"FAILED_TERMINAL", "OUTCOME_UNKNOWN"}
  BY <1>2, <1>3, <1>4, <1>5 DEF TellTerminal, FinishSilently
<1>6. CASE Replay(w)
  <2> DEFINE stored == worker[w].view.response
  <2>1. FinishTelling(w, "committed", stored.version) /\ stored.signature = worker[w].signature
    BY <1>6 DEF Replay, FinishSilently
  <2>2. stored = turn_requests[r] /\ stored.route # "NONE" /\ turn_requests' = turn_requests
    BY <1>2, <1>6 DEF Replay, Views, ViewIsCurrent
  <2> QED
    BY <1>2, <1>3, <1>4, <2>1, <2>2 DEF Positive
<1>7. CASE MeetExpired(w) \/ ClaimExpired(w)
  <2>1. FinishTelling(w, "unknown", 0) /\ jobs' = [jobs EXCEPT ![r] = Ended(jobs[r], "OUTCOME_UNKNOWN")]
    BY <1>2, <1>7 DEF MeetExpired, ClaimExpired, Writes
  <2>2. jobs'[r].status = "OUTCOME_UNKNOWN"
    BY <1>2, <2>1 DEF Ended, Job, Typing, TypeOK
  <2>3. a.request = r /\ a.said = "unknown"
    BY <1>3, <1>4, <2>1
  <2> QED
    BY <2>2, <2>3 DEF Negative, Doomed, FailedStatus
<1>8. CASE MeetClosed(w)
  <2>1. TellTerminal(w, jobs[r].status) /\ jobs' = jobs
    BY <1>2, <1>8 DEF MeetClosed
  <2>2. turn_requests[r].route = "NONE"
    BY <1>2, <1>8 DEF MeetClosed, Meets, Views, ViewIsCurrent
  <2>3. jobs[r].status # "COMMITTED"
    BY <1>2, <2>2 DEF Stores, StoredWithJob, Stored
  <2>4. /\ a.request = r
        /\ a.said \in {"failed", "unknown"}
        /\ jobs'[r].status \in FailedStatus
    BY <1>5, <2>1, <2>3 DEF FailedStatus
  <2> QED
    BY <2>4 DEF Negative, Doomed
<1>9. CASE ResolveUnchanged(w)
  <2>1. /\ turn_requests'[r].route = "LOCAL"
        /\ turn_requests'[r].signature = worker[w].signature
        /\ turn_requests'[r].version = worker[w].view.version
    BY <1>2, <1>9 DEF ResolveUnchanged, Typing, TypeOK
  <2> QED
    BY <1>2, <1>3, <1>4, <1>9, <2>1 DEF ResolveUnchanged, Positive
<1>10. CASE ResolveChanged(w) \/ ResolveTemplate(w)
  <2>1. /\ ApplyTurn(r, worker[w].view.version, "LOCAL", worker[w].signature)
        /\ FinishTelling(w, "committed", worker[w].view.version + 1)
    BY <1>2, <1>10 DEF ResolveChanged, ResolveTemplate, Changes
  <2>2. turn_requests'[r] = [route |-> "LOCAL", signature |-> worker[w].signature,
                             version |-> worker[w].view.version + 1]
    BY <1>2, <2>1 DEF ApplyTurn, Typing, TypeOK
  <2> QED
    BY <1>3, <1>4, <2>1, <2>2 DEF Positive
<1>11. CASE Record(w)
  <2>1. TellTerminal(w, worker[w].verdict)
    BY <1>11 DEF Record
  <2>2. worker[w].verdict # "COMMITTED"
    BY <1>2 DEF Worker, FailedStatus
  <2>3. /\ a.request = r
        /\ a.said \in {"failed", "unknown"}
        /\ Doomed(r)
    BY <1>2, <1>5, <2>1, <2>2 DEF NegativeVerdicts
  <2>4. Doomed(r)'
    BY <1>2, <2>3, DoomedStable
  <2> QED
    BY <2>3, <2>4 DEF Negative, Doomed
<1>12. CASE Commit(w)
  <2>1. /\ ApplyTurn(r, jobs[r].prepared, "NARRATIVE", jobs[r].signature)
        /\ FinishTelling(w, "committed", jobs[r].prepared + 1)
        /\ At(w, "commit")
    BY <1>2, <1>12 DEF Commit
  <2>2. turn_requests'[r] = [route |-> "NARRATIVE", signature |-> jobs[r].signature,
                             version |-> jobs[r].prepared + 1]
    BY <1>2, <2>1 DEF ApplyTurn, Typing, TypeOK
  <2>3. jobs[r].signature = worker[w].signature
    BY <1>2, <2>1 DEF Leases, Carries, At
  <2> QED
    BY <1>3, <1>4, <2>1, <2>2, <2>3 DEF Positive
<1> QED
  BY <1>1, <1>6, <1>7, <1>8, <1>9, <1>10, <1>11, <1>12

\* An execution that gives up for good leaves nobody who could still succeed.
LEMMA GivesUpDooms ==
  ASSUME Leases, NEW w \in Workers, NEW proposal \in Proposals \cup {"none"},
         NEW verdict \in FailedStatus \ {"STALE"}, GivesUp(w, proposal, verdict),
         NEW r \in Requests, r = worker[w].request
  PROVE  Doomed(r)'
<1>1. /\ worker'[w].pc = "record"
      /\ \A x \in Workers \ {w} : worker'[x] = worker[x]
      /\ jobs' = jobs
  BY DEF GivesUp, Rows, Becomes, Leases, Typing, TypeOK, Worker
<1>2. CASE worker[w].pc \in CallPhase
  <2>1. jobs[r].status \in FailedStatus \cup {"IN_PROGRESS"}
    BY <1>2 DEF Leases, OneCaller
  <2>2. \A x \in Workers : worker'[x].request = r => worker'[x].pc \notin CallPhase
    BY <1>1, <1>2 DEF Leases, OneCaller, CallPhase
  <2> QED
    BY <1>1, <2>1, <2>2 DEF Doomed
<1>3. CASE At(w, "commit") /\ jobs[r].proposal = "refused"
  BY <1>1, <1>3 DEF Leases, CommitReady, LeaseFencing, At, Doomed
<1> QED
  BY <1>2, <1>3 DEF GivesUp

Answers ==
  /\ PositiveAnswers
  /\ NegativeVerdicts
  /\ NeverCorrupt

LEMMA AnswersInit == Init => Answers
  BY DEF Init, Answers, PositiveAnswers, NegativeVerdicts, NeverCorrupt, IdleWorker

\* A verdict to give up for good is only formed on a doomed request.
LEMMA VerdictsStep ==
  ASSUME Leases, Views, NegativeVerdicts, [Next]_vars, NEW x \in Workers,
         worker'[x].verdict \in {"FAILED_TERMINAL", "OUTCOME_UNKNOWN"},
         NEW q, q = worker'[x].request
  PROVE  Doomed(q)'
<1>1. Typing /\ worker[x] \in Worker
  BY DEF Leases, Typing, TypeOK
<1>2. ASSUME worker'[x].verdict = worker[x].verdict, worker'[x].request = worker[x].request
      PROVE  Doomed(q)'
  <2>1. Doomed(q)
    BY <1>2 DEF NegativeVerdicts
  <2>2. q \in Requests
    BY <1>2 DEF Leases, Typing, Posted, IdleWorker
  <2> QED
    BY <2>1, <2>2, DoomedStable
\* Only an execution that gives up forms a verdict.
<1>3. CASE worker'[x] = IdleWorker
  BY <1>3 DEF IdleWorker
<1>4. ASSUME NEW w \in Workers, NEW proposal \in Proposals \cup {"none"},
             NEW verdict \in FailedStatus, GivesUp(w, proposal, verdict)
      PROVE  Doomed(q)'
  <2>1. CASE w = x
    <3>1. worker'[x].verdict = verdict /\ worker'[x].request = worker[x].request
      <4>1. worker'[x] = [worker[x] EXCEPT !.pc = "record", !.proposal = proposal,
                                         !.verdict = verdict]
        BY <1>1, <1>4, <2>1 DEF GivesUp, Becomes, Typing, TypeOK
      <4> QED
        BY <1>1, <4>1 DEF Worker
    <3>2. q \in Requests
      BY <1>1, <1>4, <2>1, <3>1, WorkingType DEF GivesUp, Typing, At
    <3> QED
      BY <1>4, <2>1, <3>1, <3>2, GivesUpDooms
  <2>2. CASE w # x
    BY <1>2, <1>4, <2>2 DEF GivesUp, Becomes, Leases, Typing, TypeOK
  <2> QED
    BY <2>1, <2>2
<1>5. ASSUME NEW w \in Workers, NEW local, local.verdict = worker[w].verdict,
             local.request = worker[w].request, Becomes(w, local)
      PROVE  Doomed(q)'
  <2>1. worker'[x] = IF x = w THEN local ELSE worker[x]
    BY <1>1, <1>5 DEF Becomes, Typing, TypeOK
  <2> QED
    BY <1>2, <1>5, <2>1
<1>6. ASSUME NEW w \in Workers, Finish(w) PROVE Doomed(q)'
  BY <1>1, <1>2, <1>3, <1>6, BecomesType, EmptyRows DEF Finish, Typing
<1>7. ASSUME NEW w \in Workers, NEW r \in Requests, NEW s \in Signatures, Submit(w, r, s)
      PROVE  Doomed(q)'
  <2>1. worker[w].verdict = "none"
    BY <1>1, <1>7 DEF Submit, At, Typing, Posted, IdleWorker
  <2>2. /\ worker' = [worker EXCEPT ![w] = [worker[w] EXCEPT !.pc = "prepare", !.request = r, !.signature = s]]
        /\ worker \in [Workers -> Worker]
    BY <1>7 DEF Submit, Becomes, Leases, Typing, TypeOK
  <2>3. CASE w = x
    BY <1>1, <2>1, <2>2, <2>3 DEF Worker
  <2>4. CASE w # x
    BY <1>2, <2>2, <2>4
  <2> QED
    BY <2>3, <2>4
<1>8. ASSUME UNCHANGED worker PROVE Doomed(q)'
  BY <1>2, <1>8
<1>9. ASSUME NEW w \in Workers,
             \/ Prepare(w) \/ MeetOpen(w) \/ ResolveNarrative(w)
             \/ \E t \in Tokens : ClaimPrepared(w, t) \/ ClaimValidated(w, t)
             \/ Detach(w) \/ (\E p \in Proposals : Answered(w, p)) \/ Store(w) \/ Finalize(w)
             \/ LeaseLate(w)
      PROVE  Doomed(q)'
  <2>1. worker[w] \in Worker
    BY <1>1 DEF Typing, TypeOK
  <2>2. CASE Prepare(w)
    <3>1. PICK view : Becomes(w, [worker[w] EXCEPT !.pc = "resolve", !.view = view])
      BY <2>2 DEF Prepare
    <3> QED
      BY <1>5, <2>1, <3>1 DEF Worker
  <2>3. CASE MeetOpen(w)
    BY <1>5, <2>1, <2>3 DEF MeetOpen, Worker
  <2>4. CASE ResolveNarrative(w)
    BY <1>5, <2>1, <2>4 DEF ResolveNarrative, Worker
  <2>5. ASSUME NEW t \in Tokens, ClaimPrepared(w, t) PROVE Doomed(q)'
    BY <1>5, <2>1, <2>5 DEF ClaimPrepared, Worker
  <2>6. ASSUME NEW t \in Tokens, ClaimValidated(w, t) PROVE Doomed(q)'
    BY <1>5, <2>1, <2>6 DEF ClaimValidated, Worker
  <2>7. CASE Detach(w)
    BY <1>5, <2>1, <2>7 DEF Detach, Worker
  <2>8. ASSUME NEW p \in Proposals, Answered(w, p) PROVE Doomed(q)'
    BY <1>5, <2>1, <2>8 DEF Answered, Worker
  <2>9. CASE Store(w)
    BY <1>5, <2>1, <2>9 DEF Store, Worker
  <2>10. CASE Finalize(w)
    BY <1>5, <2>1, <2>10 DEF Finalize, Worker
  <2>11. CASE LeaseLate(w)
    BY <1>5, <2>1, <2>11 DEF LeaseLate, Worker
  <2> QED
    BY <1>9, <2>2, <2>3, <2>4, <2>5, <2>6, <2>7, <2>8, <2>9, <2>10, <2>11
<1>10. CASE Deploy
  BY <1>3, <1>10 DEF Deploy
<1> QED
  BY <1>1, <1>4, <1>6, <1>7, <1>8, <1>9, <1>10, StepKinds
  DEF Leaves, Fails, ResolveUnchanged, ResolveChanged, ResolveTemplate, Changes, FinishTelling,
      Commit, LeaseExpires, vars

LEMMA AnswersStep == Leases /\ Views /\ Stores /\ Answers /\ [Next]_vars => Answers'
<1> SUFFICES ASSUME Leases, Views, Stores, Answers, [Next]_vars PROVE Answers'
  OBVIOUS
<1>1. Typing /\ NegativeVerdicts
  BY DEF Leases, Answers
<1>2. \A a \in answers : a \in Answer
  BY <1>1 DEF Typing, TypeOK
<1>3. ASSUME NEW a \in answers', a.said = "committed" PROVE Positive(a)'
  <2>1. CASE a \in answers
    <3>1. Positive(a) /\ a.request \in Requests
      BY <1>2, <1>3, <2>1 DEF Answers, PositiveAnswers, Positive, Answer
    <3>2. turn_requests'[a.request] = turn_requests[a.request]
      BY <1>1, <3>1, StoredStable DEF Positive, Stored
    <3> QED
      BY <3>1, <3>2 DEF Positive
  <2>2. CASE a \notin answers
    BY <1>1, <1>3, <2>2, NewAnswers DEF Negative
  <2> QED
    BY <2>1, <2>2
<1>4. ASSUME NEW a \in answers', a.said \in {"failed", "unknown"} PROVE Negative(a)'
  <2>1. CASE a \in answers
    <3>1. Doomed(a.request) /\ a.request \in Requests
      BY <1>1, <1>2, <1>4, <2>1 DEF NegativeVerdicts, Answer
    <3>2. Doomed(a.request)'
      BY <3>1, DoomedStable
    <3> QED
      BY <1>4, <3>2 DEF Negative
  <2>2. CASE a \notin answers
    BY <1>1, <1>4, <2>2, NewAnswers DEF Positive
  <2> QED
    BY <2>1, <2>2
<1>5. ASSUME NEW a \in answers' PROVE a.said # "corrupt"
  <2>1. CASE a \in answers
    BY <2>1 DEF Answers, NeverCorrupt
  <2>2. CASE a \notin answers
    BY <1>1, <1>5, <2>2, NewAnswers DEF Positive, Negative
  <2> QED
    BY <2>1, <2>2
<1>6. PositiveAnswers'
  BY <1>3 DEF PositiveAnswers, Positive
<1>7. NegativeVerdicts'
  BY <1>1, <1>4, VerdictsStep DEF NegativeVerdicts, Negative
<1> QED
  BY <1>5, <1>6, <1>7 DEF Answers, NeverCorrupt

-----------------------------------------------------------------------------
(* The inductive invariant, and what follows from it. *)

LEMMA Layers == IInv <=> Leases /\ Views /\ Stores /\ Answers
  BY DEF IInv, Leases, Typing, Views, Stores, Answers

\* The four layers together hold in every reachable state.
THEOREM Invariance == Spec => []IInv
<1>1. Init => IInv
  BY LeasesInit, ViewsInit, StoresInit, AnswersInit, Layers
<1>2. IInv /\ [Next]_vars => IInv'
  <2> SUFFICES ASSUME IInv, [Next]_vars PROVE (Leases /\ Views /\ Stores /\ Answers)'
    BY Layers DEF IInv, Leases, Typing, Views, Stores, Answers
  <2>1. Leases /\ Views /\ Stores /\ Answers
    BY Layers
  <2> QED
    BY <2>1, LeasesStep, ViewsStep, StoresStep, AnswersStep
<1> QED
  BY <1>1, <1>2, PTL DEF Spec

LEMMA CommitIsAtomicFollows == IInv => CommitIsAtomic
  BY DEF IInv, StoredWithJob, CommitIsAtomic, Stored

\* Told failed or unknown, a request is doomed: it has no response and no event.
LEMMA AnswersHoldFollows == IInv => AnswersHold
<1> SUFFICES ASSUME IInv, NEW a \in answers
             PROVE  /\ a.said = "committed" =>
                         /\ turn_requests[a.request].signature = a.signature
                         /\ turn_requests[a.request].version = a.version
                         /\ Stored(a.request)
                    /\ a.said \in {"failed", "unknown"} =>
                         /\ ~Stored(a.request)
                         /\ \A i \in 1..Len(events) : events[i] # a.request
  BY DEF AnswersHold
<1>1. CASE a.said = "committed"
  BY <1>1 DEF IInv, PositiveAnswers, Stored
<1>2. CASE a.said \in {"failed", "unknown"}
  <2>1. a.request \in Requests
    BY DEF IInv, TypeOK, Answer
  <2>2. jobs[a.request].status \in FailedStatus \cup {"IN_PROGRESS", "PROPOSAL_VALIDATED"}
    BY <1>2 DEF IInv, NegativeVerdicts, Doomed
  <2>3. ~Stored(a.request)
    BY <2>1, <2>2 DEF IInv, StoredWithJob, FailedStatus
  <2>4. \A i \in 1..Len(events) : events[i] # a.request
    BY <2>3 DEF IInv, EventsAreStored
  <2> QED
    BY <1>2, <2>3, <2>4
<1> QED
  BY <1>1, <1>2

\* At most one job of a session is active, so at most one provider call is outstanding.
THEOREM OneActiveJob == Spec => []SingleActiveJob
<1>1. IInv => SingleActiveJob
  BY DEF IInv
<1> QED
  BY <1>1, Invariance, PTL

\* While a job is active the session stays at the version its prompt was built from.
THEOREM VersionPinned == Spec => []ActiveJobPinsVersion
<1>1. IInv => ActiveJobPinsVersion
  BY DEF IInv
<1> QED
  BY <1>1, Invariance, PTL

\* Each request changes the game at most once.
THEOREM ExactlyOnce == Spec => []AppliedOnce
<1>1. IInv => AppliedOnce
  BY DEF IInv, EventsAreStored, AppliedOnce
<1> QED
  BY <1>1, Invariance, PTL

\* State, events, response and COMMITTED job of an applied turn exist together.
THEOREM Atomicity == Spec => []CommitIsAtomic
  BY CommitIsAtomicFollows, Invariance, PTL

\* The provider is called at most once for a request, through every crash,
\* takeover and repetition.
THEOREM OneProviderCall == Spec => []ProviderCalledOnce
<1>1. IInv => ProviderCalledOnce
  BY DEF IInv
<1> QED
  BY <1>1, Invariance, PTL

\* No two executions hold one lease, and a lease fits the phase of its holder.
THEOREM LeasesFence == Spec => []LeaseFencing
<1>1. IInv => LeaseFencing
  BY DEF IInv
<1> QED
  BY <1>1, Invariance, PTL

\* What a client was told about a request stays true.
THEOREM AnswersAreKept == Spec => [](AnswersHold /\ NeverCorrupt)
<1>1. IInv => NeverCorrupt
  BY DEF IInv
<1> QED
  BY <1>1, AnswersHoldFollows, Invariance, PTL

\* Only the execution that holds the session lock and the unexpired lease commits a
\* job, at the version it was prepared for.
HolderCommits ==
  \A r \in Requests :
     (jobs[r].status \in ActiveStatus /\ jobs'[r].status = "COMMITTED") =>
        \E w \in Workers : /\ session_lock = w
                           /\ worker[w].request = r
                           /\ worker[w].token = jobs[r].token
                           /\ ~jobs[r].expired
                           /\ version = jobs[r].prepared

THEOREM CommitIsFenced == Spec => OnlyHolderCommits
<1>1. ASSUME IInv, Next PROVE HolderCommits
  <2> SUFFICES ASSUME NEW r \in Requests, jobs[r].status \in ActiveStatus,
                      jobs'[r].status = "COMMITTED"
               PROVE  \E w \in Workers : /\ session_lock = w
                                         /\ worker[w].request = r
                                         /\ worker[w].token = jobs[r].token
                                         /\ ~jobs[r].expired
                                         /\ version = jobs[r].prepared
    BY DEF HolderCommits
  <2>1. Leases /\ Typing
    BY <1>1, Layers DEF Leases
  <2>2. jobs \in [Requests -> Job]
    BY <2>1 DEF Typing, TypeOK
  <2>3. jobs[r].status # "COMMITTED" /\ jobs[r].status # "ABSENT"
    BY DEF ActiveStatus
  <2>4. ASSUME NEW w \in Workers, Commit(w)
        PROVE  worker[w].request = r
    BY <2>2, <2>3, <2>4 DEF Commit, Writes
  <2>5. ASSUME NEW w \in Workers, Commit(w)
        PROVE  /\ session_lock = w
               /\ worker[w].token = jobs[r].token
               /\ ~jobs[r].expired
               /\ version = jobs[r].prepared
    BY <2>1, <2>4, <2>5 DEF Commit, Leases, LockOwner, CommitReady, SameLease, At
  <2>6. \E w \in Workers : Commit(w)
    <3>1. ASSUME NEW q \in Requests, NEW job, job.status # "COMMITTED", Writes(q, job)
          PROVE  FALSE
      BY <2>2, <2>3, <3>1 DEF Writes
    <3>2. jobs' # jobs
      BY <2>3
    <3>3. ASSUME NEW w \in Workers, NEW status \in FailedStatus, Fails(w, status) PROVE FALSE
      <4>1. worker[w].request \in Requests
        BY <2>1, <3>3, WorkingType DEF Fails, Typing
      <4>2. Ended(jobs[worker[w].request], status).status = status
        BY <2>2, <4>1 DEF Ended, Job
      <4> QED
        BY <3>1, <3>3, <4>1, <4>2 DEF Fails, FailedStatus
    <3>4. ASSUME NEW w \in Workers, ResolveTemplate(w) PROVE FALSE
      BY <2>2, <2>3, <3>4 DEF ResolveTemplate, Writes
    <3>5. ASSUME NEW w \in Workers, ResolveNarrative(w) PROVE FALSE
      BY <2>2, <2>3, <3>5 DEF ResolveNarrative, Writes
    <3>6. ASSUME NEW w \in Workers, NEW t \in Tokens, ClaimPrepared(w, t) \/ ClaimValidated(w, t)
          PROVE  FALSE
      <4>1. worker[w].request \in Requests
        BY <2>1, <3>6, WorkingType DEF ClaimPrepared, ClaimValidated, Claims, Typing, At
      <4>2. \A status \in LeasedStatus : Leased(jobs[worker[w].request], status, t).status = status
        BY <2>2, <4>1 DEF Leased, Job
      <4> QED
        BY <3>1, <3>6, <4>1, <4>2 DEF ClaimPrepared, ClaimValidated, LeasedStatus
    <3>7. ASSUME NEW w \in Workers, Store(w) PROVE FALSE
      <4>1. worker[w].request \in Requests
        BY <2>1, <3>7, WorkingType DEF Store, Typing, At
      <4>2. [jobs[worker[w].request] EXCEPT !.status = "PROPOSAL_VALIDATED",
               !.proposal = worker[w].proposal].status # "COMMITTED"
        BY <2>2, <4>1 DEF Job
      <4> QED
        BY <3>1, <3>7, <4>1, <4>2 DEF Store
    <3>8. ASSUME NEW q \in Requests, LeaseExpires(q) PROVE FALSE
      BY <2>2, <2>3, <3>8 DEF LeaseExpires, Writes, Job
    <3> QED
      BY <1>1, <2>1, <3>2, <3>3, <3>4, <3>5, <3>6, <3>7, <3>8, StepKinds
      DEF Submit, Prepare, Leaves, Rows, MeetOpen, ResolveUnchanged, ResolveChanged, Detach, GivesUp,
          Answered, Finalize, LeaseLate, Deploy, vars
  <2> QED
    BY <2>4, <2>5, <2>6
<1>2. ASSUME UNCHANGED vars PROVE HolderCommits
  BY <1>2 DEF HolderCommits, vars, ActiveStatus
<1>3. IInv /\ [Next]_vars => [HolderCommits]_vars
  BY <1>1
<1>4. Spec => [][HolderCommits]_vars
  BY <1>3, Invariance, PTL DEF Spec
<1> QED
  BY <1>4 DEF OnlyHolderCommits, HolderCommits

-----------------------------------------------------------------------------
(* The rows behave as the ledger. *)

Outcomes == [r \in Requests |-> LedgerOutcome(r)]
Happened(r) == \E i \in 1..Len(events) : events[i] = r

\* What the ledger shows of a request, by its rows.
Shows(r) ==
  /\ Stored(r) /\ Happened(r) => LedgerOutcome(r) = "applied"
  /\ Stored(r) /\ ~Happened(r) => LedgerOutcome(r) = "noted"
  /\ ~Stored(r) => ~Happened(r)
  /\ ~Stored(r) /\ jobs[r].status = "ABSENT" => LedgerOutcome(r) = "open"
  /\ jobs[r].status \in ActiveStatus => ~Stored(r) /\ LedgerOutcome(r) = "pending"
  /\ jobs[r].status \in FailedStatus => ~Stored(r) /\ LedgerOutcome(r) = "refused"
  /\ LedgerOutcome(r) = "pending" => jobs[r].status \in ActiveStatus

LEMMA RowsShow == Stores => \A r \in Requests : Shows(r)
<1> SUFFICES ASSUME Stores, NEW r \in Requests PROVE Shows(r)
  OBVIOUS
<1>1. Stored(r) => jobs[r].status \in {"ABSENT", "COMMITTED"}
  BY DEF Stores, StoredWithJob
<1>2. ~Stored(r) => ~Happened(r)
  BY DEF Stores, EventsAreStored, Happened
<1> QED
  BY <1>1, <1>2 DEF Shows, LedgerOutcome, Happened, ActiveStatus, FailedStatus

LEMMA RowsShowNext == Stores' => \A r \in Requests : Shows(r)'
<1> SUFFICES ASSUME Stores', NEW r \in Requests PROVE Shows(r)'
  OBVIOUS
<1>1. (Stored(r) => jobs[r].status \in {"ABSENT", "COMMITTED"})'
  BY DEF Stores, StoredWithJob
<1>2. (~Stored(r) => ~Happened(r))'
  BY DEF Stores, EventsAreStored, Happened
<1> QED
  BY <1>1, <1>2 DEF Shows, LedgerOutcome, Happened, ActiveStatus, FailedStatus

\* A request whose rows and events are left as they are keeps its outcome.
LEMMA OutcomeStands ==
  ASSUME NEW r \in Requests,
         Stored(r)' = Stored(r),
         Happened(r)' = Happened(r),
         \/ jobs'[r].status = jobs[r].status
         \/ jobs[r].status \in ActiveStatus /\ jobs'[r].status \in ActiveStatus
  PROVE  LedgerOutcome(r)' = LedgerOutcome(r)
  BY DEF LedgerOutcome, Happened, ActiveStatus, FailedStatus

\* A step that concerns one request shows in no other.
LEMMA OtherOutcomes ==
  ASSUME NEW r \in Requests,
         \A q \in Requests \ {r} :
            /\ jobs'[q] = jobs[q]
            /\ turn_requests'[q] = turn_requests[q]
            /\ Happened(q)' = Happened(q)
  PROVE  Outcomes' = [Outcomes EXCEPT ![r] = LedgerOutcome(r)']
<1>1. \A q \in Requests \ {r} : LedgerOutcome(q)' = LedgerOutcome(q)
  BY OutcomeStands DEF Stored
<1> QED
  BY <1>1 DEF Outcomes

\* An applied turn happens to its own request.
LEMMA AppliedHappens ==
  ASSUME Typing, Stores, NEW r \in Requests, NEW v \in Nat, NEW s,
         NEW route \in {"LOCAL", "NARRATIVE"}, ApplyTurn(r, v, route, s)
  PROVE  /\ events' = Append(events, r)
         /\ Stored(r)' /\ Happened(r)'
         /\ \A q \in Requests \ {r} :
               turn_requests'[q] = turn_requests[q] /\ Happened(q)' = Happened(q)
<1>0. EventsAreStored
  BY DEF Stores
<1>1. v = Len(events)
  BY <1>0 DEF ApplyTurn, EventsAreStored
<1>2. /\ version' = v + 1
      /\ Len(events') = v + 1
      /\ events'[v + 1] = r
      /\ \A i \in 1..Len(events) : events'[i] = events[i]
      /\ turn_requests'[r] = [route |-> route, signature |-> s, version |-> v + 1]
      /\ \A q \in Requests \ {r} : turn_requests'[q] = turn_requests[q]
      /\ EventsAreStored'
  BY <1>0, ApplyTurnEffect, Zenon
<1>3. 1..Len(events') = 1..Len(events) \cup {v + 1}
  <2>1. Len(events') = v + 1 /\ Len(events) = v
    BY <1>1, <1>2
  <2> QED
    BY <2>1
<1>4. Stored(r)'
  BY <1>2 DEF Stored
<1>5. Happened(r)'
  BY <1>2, <1>3 DEF Happened
<1>6. \A q \in Requests \ {r} : Happened(q)' = Happened(q)
  BY <1>2, <1>3 DEF Happened
<1> QED
  BY <1>2, <1>4, <1>5, <1>6 DEF ApplyTurn

LEMMA LedgerInit == Init => Ledger!Init
<1> SUFFICES ASSUME Init PROVE Outcomes = [r \in Requests |-> "open"]
  BY DEF Init, Ledger!Init, Outcomes
<1>1. \A r \in Requests : ~Stored(r) /\ jobs[r].status = "ABSENT"
  BY DEF Init, Stored, NoResponse, NoJob
<1>2. \A r \in Requests : LedgerOutcome(r) = "open"
  BY <1>1, StoresInit, RowsShow DEF Shows
<1> QED
  BY <1>2 DEF Outcomes

LEMMA LedgerQuiet ==
  ASSUME UNCHANGED <<game, turn_requests, jobs>>
  PROVE  Outcomes' = Outcomes /\ events' = events
  BY DEF Outcomes, LedgerOutcome, Stored, game

\* A job that stays active.
LEMMA LedgerHeld ==
  ASSUME Typing, NEW r \in Requests, NEW job \in Job, jobs[r].status \in ActiveStatus,
         job.status \in ActiveStatus, Writes(r, job), UNCHANGED <<game, turn_requests>>
  PROVE  Outcomes' = Outcomes /\ events' = events
<1>1. jobs'[r] = job /\ \A q \in Requests \ {r} : jobs'[q] = jobs[q]
  BY DEF Typing, TypeOK, Writes
<1>2. \A q \in Requests : Stored(q)' = Stored(q) /\ Happened(q)' = Happened(q)
  BY DEF Stored, Happened, game
<1>3. \A q \in Requests : LedgerOutcome(q)' = LedgerOutcome(q)
  BY <1>1, <1>2, OutcomeStands
<1> QED
  BY <1>3 DEF Outcomes, game

LedgerMoves(r) ==
  \/ Ledger!Accept(r) \/ Ledger!Apply(r) \/ Ledger!Note(r) \/ Ledger!Refuse(r)

LEMMA LedgerRefuses ==
  ASSUME Leases, Stores, Stores', NEW w \in Workers, NEW status \in FailedStatus, Fails(w, status)
  PROVE  \E r \in Requests : Ledger!Refuse(r)
<1>1. PICK r \in Requests : /\ r = worker[w].request
                          /\ jobs[r] \in Job
                          /\ jobs[r].status \in ActiveStatus
  BY WorkingType DEF Fails, Leases, Typing
<1>2. jobs'[r].status = status /\ \A q \in Requests \ {r} : jobs'[q] = jobs[q]
  BY <1>1 DEF Fails, Writes, Ended, Job, Leases, Typing, TypeOK
<1>3. UNCHANGED <<game, turn_requests>>
  BY DEF Fails
<1>4. Outcomes[r] = "pending" /\ LedgerOutcome(r)' = "refused"
  BY <1>1, <1>2, RowsShow, RowsShowNext DEF Shows, Outcomes
<1>5. Outcomes' = [Outcomes EXCEPT ![r] = "refused"]
  BY <1>1, <1>2, <1>3, <1>4, OtherOutcomes DEF Happened, game
<1> QED
  BY <1>1, <1>3, <1>4, <1>5 DEF Ledger!Refuse, Outcomes, game

\* A request that its transaction has found fresh is open.
LEMMA FreshIsOpen ==
  ASSUME Leases, Views, Stores, NEW w \in Workers, Fresh(w)
  PROVE  /\ worker[w].request \in Requests
         /\ worker[w].view.version \in Nat
         /\ jobs[worker[w].request].status = "ABSENT"
         /\ ~Stored(worker[w].request)
         /\ Outcomes[worker[w].request] = "open"
         /\ ~worker[w].view.busy => \A q \in Requests : Outcomes[q] # "pending"
<1>1. At(w, "resolve") /\ worker[w] \in Worker
  BY DEF Fresh, Leases, Typing, TypeOK
<1>2. worker[w].request \in Requests /\ worker[w].view.version \in Nat
  BY <1>1, WorkingType DEF Leases, Typing, At, Worker, View
<1>3. jobs[worker[w].request].status = "ABSENT" /\ ~Stored(worker[w].request)
  BY <1>1 DEF Fresh, Views, ViewIsCurrent, Stored
<1>4. ~worker[w].view.busy => \A q \in Requests : jobs[q].status \notin ActiveStatus
  BY <1>1 DEF Views, ViewIsCurrent, ActiveJobs
<1> QED
  BY <1>2, <1>3, <1>4, RowsShow DEF Shows, Outcomes

LEMMA LedgerNotes ==
  ASSUME Leases, Views, Stores, Stores', NEW w \in Workers, ResolveUnchanged(w)
  PROVE  \E r \in Requests : Ledger!Note(r)
<1>1. PICK r \in Requests : r = worker[w].request /\ ~Stored(r) /\ Outcomes[r] = "open"
  BY FreshIsOpen DEF ResolveUnchanged
<1>2. UNCHANGED <<game, jobs>>
  BY DEF ResolveUnchanged
<1>3. /\ turn_requests'[r].route = "LOCAL"
      /\ \A q \in Requests \ {r} : turn_requests'[q] = turn_requests[q]
  BY <1>1 DEF ResolveUnchanged, Leases, Typing, TypeOK
<1>4. Stored(r)' /\ ~Happened(r)'
  BY <1>1, <1>3, <1>2, RowsShow DEF Shows, Stored, Happened, game
<1>5. LedgerOutcome(r)' = "noted"
  BY <1>4, RowsShowNext DEF Shows
<1>6. Outcomes' = [Outcomes EXCEPT ![r] = "noted"]
  BY <1>1, <1>3, <1>5, <1>2, OtherOutcomes DEF Happened, game
<1> QED
  BY <1>1, <1>6, <1>2 DEF Ledger!Note, Outcomes, game

LEMMA LedgerAccepts ==
  ASSUME Leases, Views, Stores, Stores', NEW w \in Workers, ResolveNarrative(w)
  PROVE  \E r \in Requests : Ledger!Accept(r)
<1>1. PICK r \in Requests : /\ r = worker[w].request /\ Outcomes[r] = "open"
                          /\ \A q \in Requests : Outcomes[q] # "pending"
  BY FreshIsOpen DEF ResolveNarrative
<1> DEFINE row == [NoJob EXCEPT !.status = "PREPARED", !.schema = release,
                     !.signature = worker[w].signature, !.prepared = worker[w].view.version]
<1>2. UNCHANGED <<game, turn_requests>> /\ jobs' = [jobs EXCEPT ![r] = row]
  BY <1>1 DEF ResolveNarrative, Writes
<1>3. jobs'[r].status = "PREPARED" /\ \A q \in Requests \ {r} : jobs'[q] = jobs[q]
  BY <1>1, <1>2 DEF NoJob, Leases, Typing, TypeOK
<1>4. LedgerOutcome(r)' = "pending"
  BY <1>1, <1>3, RowsShowNext DEF Shows, ActiveStatus
<1>5. Outcomes' = [Outcomes EXCEPT ![r] = "pending"]
  BY <1>1, <1>2, <1>3, <1>4, OtherOutcomes DEF Happened, game
<1> QED
  BY <1>1, <1>2, <1>5 DEF Ledger!Accept, Ledger!NothingPendingBut, Outcomes, game

\* A turn is applied to an open or pending request when no other is pending.
LEMMA LedgerApplies ==
  ASSUME Typing, Stores, Stores', NEW r \in Requests, NEW v \in Nat, NEW s,
         NEW route \in {"LOCAL", "NARRATIVE"}, ApplyTurn(r, v, route, s),
         \A q \in Requests \ {r} : jobs'[q] = jobs[q],
         Outcomes[r] \in {"open", "pending"},
         \A q \in Requests : Outcomes[q] = "pending" => q = r
  PROVE  Ledger!Apply(r)
<1>1. /\ events' = Append(events, r)
      /\ Stored(r)' /\ Happened(r)'
      /\ \A q \in Requests \ {r} :
            turn_requests'[q] = turn_requests[q] /\ Happened(q)' = Happened(q)
  BY AppliedHappens, Zenon
<1>2. LedgerOutcome(r)' = "applied"
  BY <1>1, RowsShowNext DEF Shows
<1>3. Outcomes' = [Outcomes EXCEPT ![r] = "applied"]
  BY <1>1, <1>2, OtherOutcomes
<1> QED
  BY <1>1, <1>3 DEF Ledger!Apply, Ledger!NothingPendingBut, Outcomes

LEMMA LedgerResolves ==
  ASSUME Leases, Views, Stores, Stores', NEW w \in Workers, ResolveChanged(w) \/ ResolveTemplate(w)
  PROVE  \E r \in Requests : Ledger!Apply(r)
<1> DEFINE r == worker[w].request
           v == worker[w].view.version
<1>1. Changes(w) /\ Fresh(w) /\ ~worker[w].view.busy /\ ApplyTurn(r, v, "LOCAL", worker[w].signature)
  BY DEF ResolveChanged, ResolveTemplate, Changes
<1>2. /\ r \in Requests /\ v \in Nat /\ Outcomes[r] = "open"
      /\ \A q \in Requests : Outcomes[q] # "pending"
  BY <1>1, FreshIsOpen
<1>3. \A q \in Requests \ {r} : jobs'[q] = jobs[q]
  BY <1>2 DEF ResolveChanged, ResolveTemplate, Writes, Leases, Typing, TypeOK
<1>4. Ledger!Apply(r)
  BY <1>1, <1>2, <1>3, LedgerApplies DEF Leases
<1> QED
  BY <1>2, <1>4

LEMMA LedgerCommits ==
  ASSUME Leases, Views, Stores, Stores', NEW w \in Workers, Commit(w)
  PROVE  \E r \in Requests : Ledger!Apply(r)
<1> DEFINE r == worker[w].request
           j == jobs[r]
<1>1. r \in Requests /\ j \in Job /\ j.prepared \in Nat
  BY WorkingType DEF Commit, At, Leases, Typing, Job
<1>2. j.status = "PROPOSAL_VALIDATED"
  BY DEF Commit, At, Leases, CommitReady, LeaseFencing
<1>3. \A q \in Requests : jobs[q].status \in ActiveStatus => q = r
  BY <1>1, <1>2 DEF Views, SingleActiveJob, ActiveJobs, ActiveStatus
<1>4. Outcomes[r] = "pending" /\ \A q \in Requests : Outcomes[q] = "pending" => q = r
  BY <1>1, <1>2, <1>3, RowsShow DEF Shows, Outcomes, ActiveStatus
<1>5. \A q \in Requests \ {r} : jobs'[q] = jobs[q]
  BY <1>1 DEF Commit, Writes, Leases, Typing, TypeOK
<1>6. Ledger!Apply(r)
  BY <1>1, <1>4, <1>5, LedgerApplies DEF Commit, Leases
<1> QED
  BY <1>1, <1>6

LEMMA LedgerStep ==
  ASSUME IInv, IInv', [Next]_vars
  PROVE  (\E r \in Requests : LedgerMoves(r)) \/ (Outcomes' = Outcomes /\ events' = events)
<1> DEFINE Quiet == Outcomes' = Outcomes /\ events' = events
           Moves == \E r \in Requests : LedgerMoves(r)
<1>1. Leases /\ Views /\ Stores /\ Stores' /\ Typing
  BY Layers DEF IInv, Stores, Leases
<1>2. jobs \in [Requests -> Job] /\ worker \in [Workers -> Worker]
  BY <1>1 DEF Typing, TypeOK
<1>3. ASSUME NEW w \in Workers, NEW t \in Tokens, ClaimPrepared(w, t) \/ ClaimValidated(w, t)
      PROVE  Quiet
  <2>1. worker[w].request \in Requests /\ jobs[worker[w].request] \in Job
    BY <1>1, <1>3, WorkingType DEF ClaimPrepared, ClaimValidated, Claims, At, Typing
  <2>2. \A status \in LeasedStatus :
           /\ Leased(jobs[worker[w].request], status, t) \in Job
           /\ Leased(jobs[worker[w].request], status, t).status \in ActiveStatus
    BY <2>1, LeasedType DEF Leased, Job, LeasedStatus, ActiveStatus
  <2> QED
    BY <1>1, <1>3, <2>1, <2>2, LedgerHeld
    DEF ClaimPrepared, ClaimValidated, Claims, LeasedStatus, ActiveStatus
<1>4. ASSUME NEW w \in Workers, Store(w) PROVE Quiet
  <2> DEFINE r == worker[w].request
             row == [jobs[r] EXCEPT !.status = "PROPOSAL_VALIDATED", !.proposal = worker[w].proposal]
  <2>1. r \in Requests /\ jobs[r] \in Job
    BY <1>1, <1>4, WorkingType DEF Store, At, Typing
  <2>2. row \in Job /\ row.status \in ActiveStatus
    <3>1. worker[w].proposal \in Proposals \cup {"none"}
      BY <1>2 DEF Worker
    <3> QED
      BY <2>1, <3>1, StatusNames DEF Job, Statuses, ActiveStatus
  <2> QED
    BY <1>1, <1>4, <2>1, <2>2, LedgerHeld DEF Store, CanStore, ActiveStatus
<1>5. ASSUME NEW r \in Requests, LeaseExpires(r) PROVE Quiet
  <2>1. /\ [jobs[r] EXCEPT !.expired = TRUE] \in Job
        /\ [jobs[r] EXCEPT !.expired = TRUE].status = jobs[r].status
    BY <1>2 DEF Job
  <2> QED
    BY <1>1, <1>5, <2>1, LedgerHeld DEF LeaseExpires, LeasedStatus, ActiveStatus
<1>6. ASSUME NEW w \in Workers,
             \/ \E r \in Requests, s \in Signatures : Submit(w, r, s)
             \/ Prepare(w) \/ Leaves(w) \/ MeetOpen(w) \/ Detach(w)
             \/ \E proposal \in Proposals \cup {"none"}, verdict \in FailedStatus :
                   GivesUp(w, proposal, verdict)
             \/ \E p \in Proposals : Answered(w, p)
             \/ Finalize(w) \/ LeaseLate(w)
      PROVE  Quiet
  BY <1>6, LedgerQuiet DEF Submit, Prepare, Leaves, Rows, MeetOpen, Meets, Detach, GivesUp, Answered,
                           Finalize, LeaseLate
<1>7. ASSUME Deploy \/ UNCHANGED vars PROVE Quiet
  BY <1>7, LedgerQuiet DEF Deploy, vars, game
<1>8. ASSUME NEW w \in Workers, NEW status \in FailedStatus, Fails(w, status)
      PROVE  Moves
  BY <1>1, <1>8, LedgerRefuses DEF LedgerMoves
<1>9. ASSUME NEW w \in Workers,
             \/ ResolveUnchanged(w) \/ ResolveChanged(w) \/ ResolveTemplate(w)
             \/ ResolveNarrative(w) \/ Commit(w)
      PROVE  Moves
  BY <1>1, <1>9, LedgerNotes, LedgerResolves, LedgerAccepts, LedgerCommits DEF LedgerMoves
<1> HIDE DEF Quiet, Moves
<1>10. Moves \/ Quiet
  BY <1>1, <1>3, <1>4, <1>5, <1>6, <1>7, <1>8, <1>9, StepKinds
<1> QED
  BY <1>10 DEF Quiet, Moves

\* A session decides every request at most once, and at most one undecided request
\* holds it: the workers, leases and crashes of NarrativeTurn implement TurnLedger.
THEOREM KeepsTheLedger == Spec => ImplementsLedger
<1>1. IInv /\ IInv' /\ [Next]_vars => [Ledger!Next]_<<events, Outcomes>>
  <2> SUFFICES ASSUME IInv, IInv', [Next]_vars PROVE [Ledger!Next]_<<events, Outcomes>>
    OBVIOUS
  <2> QED
    BY LedgerStep DEF LedgerMoves, Ledger!Next
<1>2. Spec => [][Ledger!Next]_<<events, Outcomes>>
  BY <1>1, Invariance, PTL DEF Spec
<1> QED
  BY <1>2, LedgerInit, PTL DEF Spec, ImplementsLedger, Ledger!Spec, Outcomes
=============================================================================
