----------------------- MODULE DynamicNarrativeProofs -----------------------
(***************************************************************************)
(* The step lemmas of DynamicNarrative, its inductive invariant, and the   *)
(* safety theorems of its specification with the refinement of             *)
(* TurnPromise.                                                            *)
(***************************************************************************)
EXTENDS DynamicNarrative, FiniteSetTheorems, TLAPS

Inv == TypeOK /\ IInv

\* What every step keeps beside the invariant: turns only grow, by the one that is
\* committed; a settled job, a proof of no job and an answer stand; and the ledger
\* reserves only what there is room for.
Keeps ==
    /\ \/ UNCHANGED <<version, events, responses>>
       \/ \E c \in Callers : At(c, "commit") /\ Applies(c)
    /\ \A r \in Requests :
          /\ jobs[r].status \in Settled => jobs'[r].status \in Settled
          /\ ledger[r].lifecycle = "TERMINAL_NO_JOB" => ledger'[r].lifecycle = "TERMINAL_NO_JOB"
    /\ answers \subseteq answers'
    /\ \/ \A r \in Requests : Reserved(r)' <=> Reserved(r)
       \/ /\ ~Full
          /\ \E new \in Requests :
                \A r \in Requests : Reserved(r)' <=> (Reserved(r) \/ r = new)

Preserves == Inv' /\ Keeps

Pc == Owning \cup Visiting \cup {"idle"}
Verdict == Final \cup {"pending", "none"}
Fate == Terminal \cup {"none"}

-----------------------------------------------------------------------------
(* Frames: what a step of caller c may touch.                              *)

OnlyCaller(c) ==
    /\ caller' \in [Callers -> Local]
    /\ \A d \in Callers : d # c => caller'[d] = caller[d]

SameCall(c) ==
    /\ caller'[c].request = caller[c].request
    /\ caller'[c].form = caller[c].form
    /\ caller'[c].version = caller[c].version

\* The caller moves on with the same request.
Steps(c, phase, said, fate, cancelled) ==
    /\ OnlyCaller(c) /\ SameCall(c)
    /\ caller'[c].pc = phase
    /\ caller'[c].again = caller[c].again
    /\ caller'[c].cancelled = cancelled
    /\ caller'[c].verdict = said
    /\ caller'[c].fate = fate

OnlyJob(r) ==
    /\ jobs' \in [Requests -> Job]
    /\ \A x \in Requests : x # r => jobs'[x] = jobs[x]

SameJob(r) ==
    /\ jobs'[r].form = jobs[r].form
    /\ jobs'[r].prepared = jobs[r].prepared
    /\ jobs'[r].legacy = jobs[r].legacy

OnlyEntry(r) ==
    /\ ledger' \in [Requests -> Entry]
    /\ \A x \in Requests : x # r => ledger'[x] = ledger[x]

SameEntry(r) ==
    /\ ledger'[r].form = ledger[r].form
    /\ ledger'[r].version = ledger[r].version
    /\ ledger'[r].owner = ledger[r].owner

LEMMA IdleType == Idle \in Local
  BY ConstantAssumption DEF Idle, Local

LEMMA NoJobType == NoJob \in Job
  BY DEF NoJob, Job

\* A record of a caller that is rewritten keeps its type, and the others keep theirs.
LEMMA Rewrites ==
  ASSUME TypeOK, NEW c \in Callers, NEW me \in Local, caller' = [caller EXCEPT ![c] = me]
  PROVE  OnlyCaller(c) /\ caller'[c] = me
  BY DEF TypeOK, OnlyCaller

LEMMA StepsOnce ==
  ASSUME TypeOK, NEW c \in Callers, NEW phase \in Pc, NEW said \in Verdict,
         NEW fate \in Fate, NEW cancelled \in BOOLEAN,
         caller' = [caller EXCEPT ![c] = [caller[c] EXCEPT
             !.pc = phase, !.verdict = said, !.fate = fate, !.cancelled = cancelled]]
  PROVE  Steps(c, phase, said, fate, cancelled)
<1> DEFINE me == [caller[c] EXCEPT
             !.pc = phase, !.verdict = said, !.fate = fate, !.cancelled = cancelled]
<1>1. caller[c] \in Local
  BY DEF TypeOK
<1>2. me \in Local
  BY <1>1 DEF Local, Pc, Verdict, Fate
<1>3. /\ me.pc = phase /\ me.verdict = said /\ me.fate = fate /\ me.cancelled = cancelled
      /\ me.request = caller[c].request /\ me.form = caller[c].form
      /\ me.version = caller[c].version /\ me.again = caller[c].again
  BY <1>1 DEF Local, Pc, Verdict, Fate
<1> HIDE DEF me
<1>4. caller' = [caller EXCEPT ![c] = me]
  BY DEF me
<1> QED
  BY <1>2, <1>3, <1>4, Rewrites DEF Steps, SameCall

LEMMA LocalType ==
  ASSUME TypeOK, NEW c \in Callers
  PROVE  /\ caller[c] \in Local
         /\ caller[c].pc \in Pc /\ caller[c].verdict \in Verdict
         /\ caller[c].fate \in Fate /\ caller[c].cancelled \in BOOLEAN
         /\ caller[c].request \in Requests \cup {NoRequest}
         /\ caller[c].form \in Forms \cup {NoForm}
         /\ caller[c].version \in Nat /\ caller[c].again \in BOOLEAN
  BY DEF TypeOK, Local, Pc, Verdict, Fate

\* The effects of the helpers on the caller.
LEMMA MovesSteps ==
  ASSUME TypeOK, NEW c \in Callers, NEW phase \in Pc, Moves(c, phase)
  PROVE  Steps(c, phase, caller[c].verdict, caller[c].fate, caller[c].cancelled)
<1> DEFINE me == [caller[c] EXCEPT !.pc = phase]
<1>1. caller[c] \in Local
  BY DEF TypeOK
<1>2. me = [caller[c] EXCEPT !.pc = phase, !.verdict = caller[c].verdict,
                                  !.fate = caller[c].fate, !.cancelled = caller[c].cancelled]
  BY <1>1 DEF Local
<1>3. caller' = [caller EXCEPT ![c] = me]
  BY DEF Moves, TypeOK
<1> HIDE DEF me
<1>4. caller' = [caller EXCEPT ![c] = [caller[c] EXCEPT !.pc = phase, !.verdict = caller[c].verdict,
                                  !.fate = caller[c].fate, !.cancelled = caller[c].cancelled]]
  BY <1>2, <1>3
<1> QED
  BY <1>4, StepsOnce, LocalType

LEMMA MovesSayingSteps ==
  ASSUME TypeOK, NEW c \in Callers, NEW phase \in Pc, NEW said \in Verdict,
         MovesSaying(c, phase, said)
  PROVE  Steps(c, phase, said, caller[c].fate, caller[c].cancelled)
<1> DEFINE me == [caller[c] EXCEPT !.pc = phase, !.verdict = said]
<1>1. caller[c] \in Local
  BY DEF TypeOK
<1>2. me = [caller[c] EXCEPT !.pc = phase, !.verdict = said,
                                  !.fate = caller[c].fate, !.cancelled = caller[c].cancelled]
  BY <1>1 DEF Local
<1>3. caller' = [caller EXCEPT ![c] = me]
  BY DEF MovesSaying, TypeOK
<1> HIDE DEF me
<1>4. caller' = [caller EXCEPT ![c] = [caller[c] EXCEPT !.pc = phase, !.verdict = said,
                                  !.fate = caller[c].fate, !.cancelled = caller[c].cancelled]]
  BY <1>2, <1>3
<1> QED
  BY <1>4, StepsOnce, LocalType

LEMMA DecidesSteps ==
  ASSUME TypeOK, NEW c \in Callers, NEW fate \in Fate, NEW said \in Verdict,
         Decides(c, fate, said)
  PROVE  Steps(c, "signal", said, fate, caller[c].cancelled)
<1> DEFINE me == [caller[c] EXCEPT !.pc = "signal", !.fate = fate, !.verdict = said]
<1>1. caller[c] \in Local
  BY DEF TypeOK
<1>2. me = [caller[c] EXCEPT !.pc = "signal", !.verdict = said,
                                  !.fate = fate, !.cancelled = caller[c].cancelled]
  BY <1>1 DEF Local
<1>3. caller' = [caller EXCEPT ![c] = me]
  BY DEF Decides, TypeOK
<1> HIDE DEF me
<1>4. caller' = [caller EXCEPT ![c] = [caller[c] EXCEPT !.pc = "signal", !.verdict = said,
                                  !.fate = fate, !.cancelled = caller[c].cancelled]]
  BY <1>2, <1>3
<1>5. "signal" \in Pc
  BY DEF Pc, Owning, Retained
<1> QED
  BY <1>4, <1>5, StepsOnce, LocalType

LEMMA BreaksSteps ==
  ASSUME TypeOK, NEW c \in Callers, NEW phase \in Pc, NEW why \in {"fault", "cancel"},
         Breaks(c, phase, why)
  PROVE  /\ Steps(c, phase, "none", caller[c].fate, caller[c].cancelled \/ why = "cancel")
         /\ faults' \in 0..MaxFaults /\ cancels' \in 0..MaxCancels
<1> DEFINE cancelled == caller[c].cancelled \/ why = "cancel"
           me == [caller[c] EXCEPT !.pc = phase, !.verdict = "none", !.cancelled = cancelled]
<1>1. caller[c] \in Local
  BY DEF TypeOK
<1>2. me = [caller[c] EXCEPT !.pc = phase, !.verdict = "none",
                                  !.fate = caller[c].fate, !.cancelled = cancelled]
  BY <1>1 DEF Local
<1>3. caller' = [caller EXCEPT ![c] = me]
  BY DEF Breaks, TypeOK
<1> HIDE DEF me
<1>4. caller' = [caller EXCEPT ![c] = [caller[c] EXCEPT !.pc = phase, !.verdict = "none",
                                  !.fate = caller[c].fate, !.cancelled = cancelled]]
  BY <1>2, <1>3
<1>5. "none" \in Verdict /\ cancelled \in BOOLEAN
  BY LocalType DEF Verdict
<1>6. Steps(c, phase, "none", caller[c].fate, cancelled)
  <2> HIDE DEF cancelled
  <2> QED
    BY <1>4, <1>5, StepsOnce, LocalType
<1>7. faults' \in 0..MaxFaults /\ cancels' \in 0..MaxCancels
  BY ConstantAssumption DEF Breaks, Spends, TypeOK
<1> QED
  BY <1>6, <1>7

LEMMA EndsIdle ==
  ASSUME TypeOK, NEW c \in Callers, Ends(c)
  PROVE  OnlyCaller(c) /\ caller'[c] = Idle
  BY IdleType, Rewrites DEF Ends

LEMMA SpendsType ==
  ASSUME TypeOK, NEW why \in {"fault", "cancel"}, Spends(why)
  PROVE  faults' \in 0..MaxFaults /\ cancels' \in 0..MaxCancels
  BY ConstantAssumption DEF Spends, TypeOK

\* The effects of the helpers on a row.
LEMMA BecomesOnly ==
  ASSUME TypeOK, NEW r \in Requests, NEW status \in Active \cup Settled, Becomes(r, status)
  PROVE  /\ OnlyJob(r) /\ SameJob(r)
         /\ jobs'[r].status = status /\ ~jobs'[r].expired
<1> DEFINE row == [jobs[r] EXCEPT !.status = status, !.expired = FALSE]
<1>1. jobs[r] \in Job
  BY DEF TypeOK
<1>2. row \in Job
  BY <1>1 DEF Job
<1>3. /\ row.status = status /\ row.expired = FALSE /\ row.form = jobs[r].form
      /\ row.prepared = jobs[r].prepared /\ row.legacy = jobs[r].legacy
  BY <1>1 DEF Job
<1>4. jobs' = [jobs EXCEPT ![r] = row]
  BY DEF Becomes, TypeOK
<1> HIDE DEF row
<1> QED
  BY <1>2, <1>3, <1>4 DEF TypeOK, OnlyJob, SameJob

-----------------------------------------------------------------------------
(* A step of an owner that leaves the story alone and its entry open.      *)

Open == {"OWNER_RESERVED", "JOB_PUBLISHED"}

LEMMA OwnerFacts ==
  ASSUME Inv, NEW c \in Callers, caller[c].pc \in Owning
  PROVE  /\ Mine(c) \in Requests
         /\ ledger[Mine(c)].lifecycle \in Open
         /\ ledger[Mine(c)].owner = c
         /\ \A d \in Callers : d # c /\ caller[d].pc \in Owning => Mine(d) # Mine(c)
<1>1. OwnerInv(c)
  BY DEF Inv, IInv
<1>2. Mine(c) \in Requests /\ LedgerMatchesPhase(c)
  BY <1>1 DEF OwnerInv
<1>3. /\ \A d \in Callers : caller[d].pc \in Owning => ledger[Mine(d)].owner = d
      /\ At(c, "signal") => Allowed(ledger[Mine(c)].lifecycle, caller[c].fate)
  BY DEF Inv, IInv, NoOrphanedAttempt
<1>4. ledger[Mine(c)].lifecycle \in Open
  BY <1>2, <1>3 DEF LedgerMatchesPhase, Open, Allowed, At, Unpublished
<1> QED
  BY <1>2, <1>3, <1>4

OwnerFrame(c) ==
    /\ OnlyCaller(c) /\ SameCall(c) /\ caller'[c].pc \in Owning
    /\ OnlyJob(Mine(c))
    /\ jobs[Mine(c)].status # "ABSENT" => SameJob(Mine(c))
    /\ jobs'[Mine(c)].status = "COMMITTED" <=> jobs[Mine(c)].status = "COMMITTED"
    /\ jobs[Mine(c)].status \in Settled => jobs'[Mine(c)].status \in Settled
    /\ OnlyEntry(Mine(c)) /\ SameEntry(Mine(c))
    /\ ledger'[Mine(c)].lifecycle \in {ledger[Mine(c)].lifecycle, "JOB_PUBLISHED"}
    /\ generations' \in [Requests -> 0..2]
    /\ \A x \in Requests : x # Mine(c) => generations'[x] = generations[x]
    /\ session_lock' \in Callers \cup {NoCaller}
    /\ session_lock' = session_lock \/ session_lock \in {NoCaller, c}
    /\ authority' \in BOOLEAN
    /\ faults' \in 0..MaxFaults /\ cancels' \in 0..MaxCancels
    /\ UNCHANGED <<version, events, responses, answers>>

LEMMA OwnerStep ==
  ASSUME Inv, NEW c \in Callers, caller[c].pc \in Owning,
         OwnerFrame(c), OwnerInv(c)',
         At(c, "signal")' => Allowed(ledger[Mine(c)].lifecycle, caller[c].fate)'
  PROVE  Preserves
<1> DEFINE r == Mine(c)
<1>1. /\ r \in Requests /\ ledger[r].lifecycle \in Open /\ ledger[r].owner = c
      /\ \A d \in Callers : d # c /\ caller[d].pc \in Owning => Mine(d) # r
  BY OwnerFacts
<1>2. TypeOK'
  BY DEF Inv, TypeOK, OwnerFrame, OnlyCaller, OnlyJob, OnlyEntry
<1>3. /\ Mine(c)' = r /\ ledger'[r].lifecycle \in Open /\ ledger'[r].owner = c
      /\ \A d \in Callers : d # c => caller'[d] = caller[d]
      /\ \A x \in Requests : x # r => /\ jobs'[x] = jobs[x] /\ ledger'[x] = ledger[x]
                                      /\ generations'[x] = generations[x]
      /\ \A x \in Requests : Stored(x)' <=> Stored(x)
  BY <1>1 DEF OwnerFrame, OnlyCaller, SameCall, OnlyJob, OnlyEntry, SameEntry, Mine, Open, Stored
<1> HIDE DEF r
<1>4. /\ SameIdentity(c)' /\ ledger'[r].form = caller'[c].form
      /\ ledger'[r].version = caller'[c].version
      /\ ledger'[r].lifecycle = "JOB_PUBLISHED" => OwnJob(c)'
  <2>1. JobMatchesPhase(c)' /\ LedgerMatchesPhase(c)'
    BY DEF OwnerInv, OwnerFrame
  <2>2. SameIdentity(c)'
    BY <2>1 DEF LedgerMatchesPhase
  <2>3. ASSUME ledger'[r].lifecycle = "JOB_PUBLISHED" PROVE OwnJob(c)'
    BY <1>3, <2>1, <2>3 DEF LedgerMatchesPhase, JobMatchesPhase, At, Unpublished
  <2> QED
    BY <1>3, <2>2, <2>3 DEF SameIdentity
<1>5. LedgerTellsTheTruth'
  <2> SUFFICES ASSUME NEW x \in Requests PROVE
        /\ ledger'[x].lifecycle \in {"NONE", "OWNER_RESERVED", "TERMINAL_NO_JOB"} => ~Stored(x)'
        /\ ledger'[x].lifecycle = "NONE" => jobs'[x].status = "ABSENT" \/ jobs'[x].legacy
        /\ ledger'[x].lifecycle = "TERMINAL_NO_JOB" => jobs'[x].status = "ABSENT"
        /\ ledger'[x].lifecycle = "JOB_PUBLISHED" =>
              /\ jobs'[x].status # "ABSENT"
              /\ jobs'[x].form = ledger'[x].form /\ jobs'[x].prepared = ledger'[x].version
        /\ ledger'[x].lifecycle = "TERMINAL_AUTHORITATIVE" => jobs'[x].status \in Settled
    BY DEF LedgerTellsTheTruth
  <2>0. LedgerTellsTheTruth
    BY DEF Inv, IInv
  <2>1. CASE x # r
    BY <1>3, <2>0, <2>1 DEF LedgerTellsTheTruth
  <2>2. CASE x = r
    <3>1. ledger'[r].lifecycle = "OWNER_RESERVED" => ledger[r].lifecycle = "OWNER_RESERVED"
      BY DEF OwnerFrame, r
    <3> QED
      BY <1>1, <1>3, <1>4, <2>0, <2>2, <3>1 DEF LedgerTellsTheTruth, Open, OwnJob
  <2> QED
    BY <2>1, <2>2
<1>6. NoOrphanedAttempt'
  <2>0. NoOrphanedAttempt
    BY DEF Inv, IInv
  <2>1. ASSUME NEW x \in Requests, ledger'[x].lifecycle \in Open
        PROVE  /\ ledger'[x].owner \in Callers
               /\ caller'[ledger'[x].owner].pc \in Owning
               /\ caller'[ledger'[x].owner].request = x
    <3>1. CASE x = r
      BY <1>3, <3>1 DEF OwnerFrame, Mine
    <3>2. CASE x # r
      <4>1. /\ ledger[x].lifecycle \in Open /\ ledger'[x].owner = ledger[x].owner
            /\ ledger[x].owner \in Callers /\ caller[ledger[x].owner].pc \in Owning
            /\ Mine(ledger[x].owner) = x
        BY <1>3, <2>0, <2>1, <3>2 DEF NoOrphanedAttempt, Open
      <4> QED
        BY <1>3, <3>2, <4>1 DEF Mine, r
    <3> QED
      BY <3>1, <3>2
  <2>2. ASSUME NEW d \in Callers, caller'[d].pc \in Owning
        PROVE  /\ ledger'[caller'[d].request].owner = d
               /\ caller'[d].pc = "signal" =>
                     Allowed(ledger'[caller'[d].request].lifecycle, caller'[d].fate)
    <3>1. CASE d = c
      BY <1>3, <3>1 DEF Mine, At
    <3>2. CASE d # c
      <4>1. Mine(d) # r /\ Mine(d) \in Requests
        BY <1>1, <1>3, <2>2, <3>2, OwnerFacts
      <4> QED
        BY <1>3, <2>0, <2>2, <3>2, <4>1 DEF NoOrphanedAttempt, Mine, At, Allowed
    <3> QED
      BY <3>1, <3>2
  <2> QED
    BY <2>1, <2>2 DEF NoOrphanedAttempt, Open, Mine, At
<1>7. TurnsAreWhole'
  <2>0. TurnsAreWhole
    BY DEF Inv, IInv
  <2>1. UNCHANGED <<version, events, responses>>
    BY DEF OwnerFrame
  <2>2. ASSUME NEW x \in Requests
        PROVE  /\ jobs'[x].status = "COMMITTED" <=> jobs[x].status = "COMMITTED"
               /\ jobs[x].status = "COMMITTED" =>
                     jobs'[x].prepared = jobs[x].prepared /\ jobs'[x].form = jobs[x].form
    BY <1>3 DEF OwnerFrame, SameJob, r
  <2> QED
    BY <2>0, <2>1, <2>2 DEF TurnsAreWhole, Stored
<1>8. AnswersOwnSubmission'
  BY DEF Inv, IInv, AnswersOwnSubmission, OwnerFrame, Stored
<1>9. ASSUME NEW x \in Requests, Closed(x) PROVE Closed(x)'
  BY <1>1, <1>3, <1>9 DEF Closed, OwnerFrame, Open, Terminal, r
<1>10. ASSUME NEW d \in Callers PROVE OwnerInv(d)' /\ VisitorInv(d)'
  <2>0. OwnerInv(d) /\ VisitorInv(d)
    BY DEF Inv, IInv
  <2>1. CASE d = c
    <3>1. caller'[c].pc \in Owning
      BY DEF OwnerFrame
    <3> QED
      BY <2>1, <3>1 DEF VisitorInv, At, Owning, Retained, Settling, Visiting
  <2>2. CASE d # c
    <3>1. caller'[d] = caller[d]
      BY <1>3, <2>2
    <3>2. OwnerInv(d)'
      <4> SUFFICES ASSUME caller[d].pc \in Owning PROVE OwnerInv(d)'
        BY <3>1 DEF OwnerInv
      <4>1. Mine(d) # r /\ Mine(d) \in Requests
        BY <1>1, <2>2, OwnerFacts
      <4>2. /\ jobs'[Mine(d)] = jobs[Mine(d)] /\ ledger'[Mine(d)] = ledger[Mine(d)]
            /\ generations'[Mine(d)] = generations[Mine(d)] /\ version' = version
            /\ responses' = responses
        BY <1>3, <4>1 DEF OwnerFrame
      <4>3. At(d, "commit") => session_lock' = d
        BY <2>0, <2>2, ConstantAssumption DEF OwnerInv, OwnerFrame, At
      <4>4. JobMatchesPhase(d)' /\ LedgerMatchesPhase(d)' /\ VerdictIsTrue(d)'
        BY <2>0, <3>1, <4>2 DEF OwnerInv, JobMatchesPhase, LedgerMatchesPhase, VerdictIsTrue,
           OwnJob, SameIdentity, Mine, At, Stored
      <4> QED
        BY <2>0, <3>1, <4>1, <4>2, <4>3, <4>4 DEF OwnerInv, Mine, At
    <3>3. VisitorInv(d)'
      <4> SUFFICES ASSUME caller[d].pc \in Visiting PROVE VisitorInv(d)'
        BY <3>1 DEF VisitorInv, At, Visiting
      <4>1. Mine(d) \in Requests /\ Mine(d)' = Mine(d)
        BY <2>0, <3>1 DEF VisitorInv, Mine
      <4>2. Reserved(Mine(d)) => Reserved(Mine(d))'
        BY <1>3, <4>1 DEF Reserved, Open
      <4>3. ~Reserved(Mine(d))' => jobs'[Mine(d)] = jobs[Mine(d)] /\ ~Reserved(Mine(d))
        BY <1>3, <4>1, <4>2 DEF Reserved, Open
      <4>4. /\ ledger'[Mine(d)].form = ledger[Mine(d)].form
            /\ ledger[Mine(d)].lifecycle = "TERMINAL_AUTHORITATIVE" =>
                 ledger'[Mine(d)].lifecycle = "TERMINAL_AUTHORITATIVE"
        BY <1>1, <1>3, <4>1 DEF OwnerFrame, SameEntry, Open, r
      <4>5. /\ Closed(Mine(d)) => Closed(Mine(d))'
            /\ Stored(Mine(d))' = Stored(Mine(d)) /\ responses' = responses
        BY <1>3, <1>9, <4>1 DEF OwnerFrame, Stored
      <4> QED
        BY <2>0, <3>1, <4>1, <4>2, <4>3, <4>4, <4>5 DEF VisitorInv, Mine, At, Reserved, Refuses
    <3> QED
      BY <3>2, <3>3
  <2> QED
    BY <2>1, <2>2
<1>11. ASSUME NEW x \in Requests PROVE LedgerInv(x)'
  <2>0. LedgerInv(x)
    BY DEF Inv, IInv
  <2>1. CASE x # r
    BY <1>3, <2>0, <2>1 DEF LedgerInv, Reserved
  <2>2. CASE x = r
    BY <1>3, <2>2 DEF LedgerInv, Reserved, Open
  <2> QED
    BY <2>1, <2>2
<1>12. AnswersInv'
  <2>1. answers' = answers /\ \A a \in answers : a.request \in Requests
    BY DEF OwnerFrame, Inv, TypeOK, Answer
  <2> QED
    BY <1>9, <2>1 DEF Inv, IInv, AnswersInv, Refuses
<1>13. Keeps
  BY <1>1, <1>3 DEF Keeps, OwnerFrame, Open, Reserved, r
<1> QED
  BY <1>2, <1>5, <1>6, <1>7, <1>8, <1>10, <1>11, <1>12, <1>13 DEF Inv, IInv, Preserves

-----------------------------------------------------------------------------
(* A step of a caller that owns nothing before or after it.                *)

\* A row that changes was left by an older prompt schema, and goes stale.
OutdatedJobsOnly ==
    /\ jobs' \in [Requests -> Job]
    /\ \A x \in Requests : jobs'[x] # jobs[x] =>
          Outdated(x) /\ SameJob(x) /\ jobs'[x].status = "STALE"

VisitorFrame(c) ==
    /\ OnlyCaller(c) /\ caller'[c].pc \notin Owning
    /\ OutdatedJobsOnly
    /\ answers \subseteq answers' /\ answers' \subseteq Answer
    /\ faults' \in 0..MaxFaults /\ cancels' \in 0..MaxCancels
    /\ UNCHANGED <<story, session_lock, authority, ledger, generations>>

\* The answers a step gives are true after it.
TrueAnswers ==
    \A a \in answers' \ answers :
        /\ Refuses(a.said) => Closed(a.request)'
        /\ a.said = "committed" =>
              /\ Stored(a.request)'
              /\ a.form = responses'[a.request].form
              /\ a.version = responses'[a.request].version

LEMMA VisitorStep ==
  ASSUME Inv, NEW c \in Callers, caller[c].pc \notin Owning,
         VisitorFrame(c), VisitorInv(c)', TrueAnswers
  PROVE  Preserves
<1>1. TypeOK'
  BY DEF Inv, TypeOK, VisitorFrame, OnlyCaller, OutdatedJobsOnly, story
<1>2. /\ \A d \in Callers : d # c => caller'[d] = caller[d]
      /\ UNCHANGED <<version, events, responses, session_lock, authority, ledger, generations>>
      /\ \A x \in Requests : jobs'[x] # jobs[x] =>
            Outdated(x) /\ SameJob(x) /\ jobs'[x].status = "STALE"
      /\ \A x \in Requests : Stored(x)' <=> Stored(x)
  BY DEF VisitorFrame, OnlyCaller, OutdatedJobsOnly, story, Stored
<1>3. LedgerTellsTheTruth'
  <2>1. LedgerTellsTheTruth
    BY DEF Inv, IInv
  <2> QED
    BY <1>2, <2>1 DEF LedgerTellsTheTruth, Outdated, SameJob, Active, Leased, Settled
<1>4. NoOrphanedAttempt'
  <2>1. NoOrphanedAttempt
    BY DEF Inv, IInv
  <2>2. ASSUME NEW x \in Requests, ledger[x].lifecycle \in Open
        PROVE  /\ ledger[x].owner \in Callers /\ ledger[x].owner # c
               /\ caller[ledger[x].owner].pc \in Owning /\ Mine(ledger[x].owner) = x
    BY <2>1, <2>2 DEF NoOrphanedAttempt, Open
  <2>3. ASSUME NEW d \in Callers, caller'[d].pc \in Owning
        PROVE  d # c /\ caller'[d] = caller[d]
    BY <1>2, <2>3 DEF VisitorFrame
  <2> QED
    BY <1>2, <2>1, <2>2, <2>3 DEF NoOrphanedAttempt, Open, Mine, At
<1>5. TurnsAreWhole'
  <2>1. TurnsAreWhole
    BY DEF Inv, IInv
  <2>2. ASSUME NEW x \in Requests
        PROVE  /\ jobs'[x].status = "COMMITTED" <=> jobs[x].status = "COMMITTED"
               /\ jobs'[x].prepared = jobs[x].prepared /\ jobs'[x].form = jobs[x].form
    BY <1>2 DEF Outdated, SameJob, Active, Leased
  <2> QED
    BY <1>2, <2>1, <2>2 DEF TurnsAreWhole, Stored
<1>6. AnswersOwnSubmission'
  <2>1. AnswersOwnSubmission
    BY DEF Inv, IInv
  <2>2. ASSUME NEW a \in answers', a.said = "committed"
        PROVE  /\ Stored(a.request)'
               /\ a.form = responses'[a.request].form
               /\ a.version = responses'[a.request].version
    <3>1. CASE a \in answers
      BY <1>2, <2>1, <2>2, <3>1 DEF AnswersOwnSubmission, Stored
    <3>2. CASE a \notin answers
      BY <2>2, <3>2 DEF TrueAnswers
    <3> QED
      BY <3>1, <3>2
  <2> QED
    BY <2>2 DEF AnswersOwnSubmission
<1>7. ASSUME NEW x \in Requests, Closed(x) PROVE Closed(x)'
  BY <1>2, <1>7 DEF Closed, Settled
<1>8. ASSUME NEW d \in Callers PROVE OwnerInv(d)' /\ VisitorInv(d)'
  <2>0. OwnerInv(d) /\ VisitorInv(d)
    BY DEF Inv, IInv
  <2>1. CASE d = c
    BY <2>1 DEF OwnerInv, VisitorFrame
  <2>2. CASE d # c
    <3>1. caller'[d] = caller[d] /\ Mine(d)' = Mine(d)
      BY <1>2, <2>2 DEF Mine
    <3>2. OwnerInv(d)'
      <4> SUFFICES ASSUME caller[d].pc \in Owning PROVE OwnerInv(d)'
        BY <3>1 DEF OwnerInv
      <4>1. /\ Mine(d) \in Requests /\ JobMatchesPhase(d) /\ LedgerMatchesPhase(d)
            /\ VerdictIsTrue(d)
        BY <2>0 DEF OwnerInv
      <4>2. jobs'[Mine(d)].status = jobs[Mine(d)].status \/ Outdated(Mine(d))
        BY <1>2, <4>1
      <4>3. OwnJob(d) \/ jobs[Mine(d)].status = "ABSENT" => jobs'[Mine(d)] = jobs[Mine(d)]
        BY <1>2, <4>1 DEF OwnJob, Outdated, Active, Leased
      <4>4. OwnJob(d) => OwnJob(d)'
        BY <3>1, <4>3 DEF OwnJob
      <4>5. JobMatchesPhase(d)'
        BY <1>2, <3>1, <4>1, <4>3, <4>4 DEF JobMatchesPhase, At
      <4>6. LedgerMatchesPhase(d)' /\ VerdictIsTrue(d)'
        BY <1>2, <3>1, <4>1 DEF LedgerMatchesPhase, SameIdentity, VerdictIsTrue, Stored, At
      <4> QED
        BY <1>2, <2>0, <3>1, <4>1, <4>5, <4>6 DEF OwnerInv, At
    <3>3. VisitorInv(d)'
      <4> SUFFICES ASSUME caller[d].pc \in Visiting PROVE VisitorInv(d)'
        BY <3>1 DEF VisitorInv, At, Visiting
      <4>1. Mine(d) \in Requests
        BY <2>0 DEF VisitorInv
      <4>2. jobs[Mine(d)].status = "ABSENT" => jobs'[Mine(d)].status = "ABSENT"
        BY <1>2, <4>1 DEF Outdated, Active, Leased
      <4>3. /\ Closed(Mine(d)) => Closed(Mine(d))'
            /\ Stored(Mine(d))' <=> Stored(Mine(d))
        BY <1>2, <1>7, <3>1, <4>1 DEF Stored
      <4> QED
        BY <1>2, <2>0, <3>1, <4>1, <4>2, <4>3 DEF VisitorInv, At, Reserved, Refuses
    <3> QED
      BY <3>2, <3>3
  <2> QED
    BY <2>1, <2>2
<1>9. ASSUME NEW x \in Requests PROVE LedgerInv(x)'
  <2>1. LedgerInv(x)
    BY DEF Inv, IInv
  <2>2. jobs'[x].form = jobs[x].form /\ jobs'[x].legacy = jobs[x].legacy
        /\ (jobs[x].status = "ABSENT" => jobs'[x].status = "ABSENT")
    BY <1>2 DEF SameJob, Outdated, Active, Leased
  <2>3. Stored(x)' <=> Stored(x)
    BY <1>2
  <2> QED
    BY <1>2, <2>1, <2>2, <2>3 DEF LedgerInv, Reserved
<1>10. AnswersInv'
  <2> SUFFICES ASSUME NEW a \in answers', Refuses(a.said) PROVE Closed(a.request)'
    BY DEF AnswersInv, Refuses
  <2>1. CASE a \in answers
    <3>1. a.request \in Requests
      BY <2>1 DEF Inv, TypeOK, Answer
    <3> QED
      BY <1>7, <2>1, <3>1 DEF Inv, IInv, AnswersInv
  <2>2. CASE a \notin answers
    BY <2>2 DEF TrueAnswers
  <2> QED
    BY <2>1, <2>2
<1>11. Keeps
  BY <1>2 DEF Keeps, VisitorFrame, Reserved, Settled
<1> QED
  BY <1>1, <1>3, <1>4, <1>5, <1>6, <1>8, <1>9, <1>10, <1>11 DEF Inv, IInv, Preserves

\* Time, the end of a Run and stuttering change nothing that was relied on.
LEMMA QuietStep ==
  ASSUME Inv, jobs' \in [Requests -> Job], authority' \in BOOLEAN,
         UNCHANGED <<story, session_lock, ledger, caller, generations, answers, budget>>,
         \A x \in Requests : SameJob(x) /\ jobs'[x].status = jobs[x].status
  PROVE  Preserves
<1>1. TypeOK'
  BY DEF Inv, TypeOK, story, budget
<1>2. UNCHANGED <<version, events, responses, session_lock, ledger, caller, generations, answers>>
  BY DEF story
<1>3. \A x \in Requests :
        /\ jobs'[x].status = jobs[x].status /\ jobs'[x].form = jobs[x].form
        /\ jobs'[x].prepared = jobs[x].prepared /\ jobs'[x].legacy = jobs[x].legacy
  BY DEF SameJob
<1>4. LedgerTellsTheTruth' /\ NoOrphanedAttempt' /\ AnswersOwnSubmission'
  <2>1. LedgerTellsTheTruth'
    BY <1>2, <1>3 DEF Inv, IInv, LedgerTellsTheTruth, Stored
  <2>2. NoOrphanedAttempt'
    BY <1>2 DEF Inv, IInv, NoOrphanedAttempt, Mine, At
  <2>3. AnswersOwnSubmission'
    BY <1>2 DEF Inv, IInv, AnswersOwnSubmission, Stored
  <2> QED
    BY <2>1, <2>2, <2>3
<1>5. TurnsAreWhole'
  BY <1>2, <1>3 DEF Inv, IInv, TurnsAreWhole, Stored
<1>6. ASSUME NEW x \in Requests PROVE (Closed(x) => Closed(x)') /\ LedgerInv(x)'
  <2>1. LedgerInv(x)
    BY DEF Inv, IInv
  <2> QED
    BY <1>2, <1>3, <2>1 DEF Closed, LedgerInv, Stored, Reserved
<1>7. ASSUME NEW d \in Callers PROVE OwnerInv(d)' /\ VisitorInv(d)'
  <2>0. OwnerInv(d) /\ VisitorInv(d) /\ Mine(d)' = Mine(d)
    BY <1>2 DEF Inv, IInv, Mine
  <2>1. OwnerInv(d)'
    <3> SUFFICES ASSUME caller[d].pc \in Owning PROVE OwnerInv(d)'
      BY <1>2 DEF OwnerInv
    <3>1. /\ Mine(d) \in Requests /\ JobMatchesPhase(d) /\ LedgerMatchesPhase(d)
          /\ VerdictIsTrue(d)
      BY <2>0 DEF OwnerInv
    <3>2. (OwnJob(d) => OwnJob(d)') /\ jobs'[Mine(d)].status = jobs[Mine(d)].status
      BY <1>2, <1>3, <2>0, <3>1 DEF OwnJob
    <3>3. JobMatchesPhase(d)'
      BY <1>2, <2>0, <3>1, <3>2 DEF JobMatchesPhase, At
    <3>4. LedgerMatchesPhase(d)' /\ VerdictIsTrue(d)'
      BY <1>2, <2>0, <3>1 DEF LedgerMatchesPhase, SameIdentity, VerdictIsTrue, Stored, At
    <3> QED
      BY <1>2, <2>0, <3>1, <3>3, <3>4 DEF OwnerInv, At
  <2>2. VisitorInv(d)'
    <3> SUFFICES ASSUME caller[d].pc \in Visiting PROVE VisitorInv(d)'
      BY <1>2 DEF VisitorInv, At, Visiting
    <3>1. Mine(d) \in Requests
      BY <2>0 DEF VisitorInv
    <3>2. /\ Closed(Mine(d)) => Closed(Mine(d))'
          /\ jobs'[Mine(d)].status = jobs[Mine(d)].status
      BY <1>3, <1>6, <2>0, <3>1
    <3> QED
      BY <1>2, <2>0, <3>1, <3>2 DEF VisitorInv, At, Reserved, Refuses, Stored
  <2> QED
    BY <2>1, <2>2
<1>8. AnswersInv'
  <2>1. \A a \in answers : a.request \in Requests
    BY DEF Inv, TypeOK, Answer
  <2> QED
    BY <1>2, <1>6, <2>1 DEF Inv, IInv, AnswersInv, Refuses
<1>9. Keeps
  BY <1>2, <1>3 DEF Keeps, Reserved
<1> QED
  BY <1>1, <1>4, <1>5, <1>6, <1>7, <1>8, <1>9 DEF Inv, IInv, Preserves

-----------------------------------------------------------------------------
(* The three steps that begin and end an attempt.                          *)

\* A caller becomes the owner of a request nobody reserved.
LEMMA ReserveStep ==
  ASSUME Inv, NEW c \in Callers, At(c, "reserve"), ~Reserved(Mine(c)), ~Full,
         Reserves(c), Moves(c, "publish"),
         UNCHANGED <<story, jobs, session_lock, authority, generations, answers, budget>>
  PROVE  Preserves
<1> DEFINE r == Mine(c)
<1>1. VisitorInv(c)
  BY DEF Inv, IInv
<1>2. /\ r \in Requests /\ jobs[r].status = "ABSENT"
      /\ caller[c].verdict = "none" /\ caller[c].fate = "none" /\ ~caller[c].cancelled
      /\ r \in Suggested => caller[c].version = 0
      /\ caller[c].pc \notin Owning
  BY <1>1 DEF VisitorInv, At, Visiting, Owning, Retained, Settling
<1>3. Steps(c, "publish", "none", "none", FALSE)
  <2>1. "publish" \in Pc
    BY DEF Pc, Owning
  <2>2. caller[c].cancelled = FALSE
    BY <1>2, LocalType DEF Inv
  <2> QED
    BY <1>2, <2>1, <2>2, MovesSteps DEF Inv
<1> DEFINE entry == [lifecycle |-> "OWNER_RESERVED", form |-> caller[c].form,
                     version |-> caller[c].version, owner |-> c]
<1>4. entry \in Entry
  BY LocalType DEF Inv, Entry, Lifecycle
<1>5. /\ ledger' \in [Requests -> Entry] /\ ledger'[r] = entry
      /\ \A x \in Requests : x # r => ledger'[x] = ledger[x]
  <2>1. ledger' = [ledger EXCEPT ![r] = entry]
    BY DEF Reserves
  <2> HIDE DEF entry
  <2> QED
    BY <1>2, <1>4, <2>1 DEF Inv, TypeOK
<1>6. /\ caller' \in [Callers -> Local]
      /\ \A d \in Callers : d # c => caller'[d] = caller[d]
      /\ caller'[c].pc = "publish" /\ Mine(c)' = r
      /\ caller'[c].form = caller[c].form /\ caller'[c].version = caller[c].version
      /\ caller'[c].verdict = "none" /\ caller'[c].fate = "none" /\ ~caller'[c].cancelled
  BY <1>3 DEF Steps, OnlyCaller, SameCall, Mine
<1>7. ~Stored(r) /\ generations[r] = 0 /\ ledger[r].lifecycle = "NONE"
  <2>1. LedgerTellsTheTruth /\ LedgerInv(r)
    BY <1>2 DEF Inv, IInv
  <2> QED
    BY <1>2, <2>1 DEF LedgerTellsTheTruth, LedgerInv, Reserved
<1>8. UNCHANGED <<version, events, responses, jobs, session_lock, generations, answers>>
  BY DEF story
<1>9. TypeOK'
  BY <1>5, <1>6 DEF Inv, TypeOK, story, budget
<1>10. ASSUME NEW d \in Callers, caller[d].pc \in Owning PROVE Mine(d) # r /\ Mine(d) \in Requests
  BY <1>7, <1>10, OwnerFacts DEF Open
<1> HIDE DEF r
<1>11. LedgerTellsTheTruth'
  <2>1. LedgerTellsTheTruth
    BY DEF Inv, IInv
  <2> QED
    BY <1>5, <1>7, <1>8, <2>1 DEF LedgerTellsTheTruth, Stored
<1>12. NoOrphanedAttempt'
  <2>0. NoOrphanedAttempt
    BY DEF Inv, IInv
  <2>1. ASSUME NEW x \in Requests, ledger'[x].lifecycle \in Open
        PROVE  /\ ledger'[x].owner \in Callers
               /\ caller'[ledger'[x].owner].pc \in Owning
               /\ caller'[ledger'[x].owner].request = x
    <3>1. CASE x = r
      BY <1>5, <1>6, <3>1 DEF Owning, Mine
    <3>2. CASE x # r
      BY <1>2, <1>5, <1>6, <2>0, <2>1, <3>2 DEF NoOrphanedAttempt, Open, Mine
    <3> QED
      BY <3>1, <3>2
  <2>2. ASSUME NEW d \in Callers, caller'[d].pc \in Owning
        PROVE  /\ ledger'[caller'[d].request].owner = d
               /\ caller'[d].pc = "signal" =>
                     Allowed(ledger'[caller'[d].request].lifecycle, caller'[d].fate)
    <3>1. CASE d = c
      BY <1>5, <1>6, <3>1 DEF Mine
    <3>2. CASE d # c
      BY <1>5, <1>6, <1>10, <2>0, <2>2, <3>2 DEF NoOrphanedAttempt, Mine, At, Allowed
    <3> QED
      BY <3>1, <3>2
  <2> QED
    BY <2>1, <2>2 DEF NoOrphanedAttempt, Open, Mine, At
<1>13. TurnsAreWhole' /\ AnswersOwnSubmission'
  BY <1>8 DEF Inv, IInv, TurnsAreWhole, AnswersOwnSubmission, Stored
<1>14. ASSUME NEW x \in Requests, Closed(x) PROVE Closed(x)'
  BY <1>5, <1>7, <1>8, <1>14 DEF Closed, Stored, Terminal
<1>15. OwnerInv(c)' /\ VisitorInv(c)'
  BY <1>2, <1>5, <1>6, <1>7, <1>8 DEF OwnerInv, VisitorInv, JobMatchesPhase, LedgerMatchesPhase,
     VerdictIsTrue, SameIdentity, At, Visiting, Unpublished, Refuses, Mine, Stored
<1>16. ASSUME NEW d \in Callers, d # c PROVE OwnerInv(d)' /\ VisitorInv(d)'
  <2>0. OwnerInv(d) /\ VisitorInv(d) /\ caller'[d] = caller[d] /\ Mine(d)' = Mine(d)
    BY <1>6, <1>16 DEF Inv, IInv, Mine
  <2>1. OwnerInv(d)'
    <3> SUFFICES ASSUME caller[d].pc \in Owning PROVE OwnerInv(d)'
      BY <2>0 DEF OwnerInv
    <3>1. ledger'[Mine(d)] = ledger[Mine(d)]
      BY <1>5, <1>10
    <3>2. JobMatchesPhase(d)' /\ LedgerMatchesPhase(d)' /\ VerdictIsTrue(d)'
      BY <1>8, <2>0, <3>1 DEF OwnerInv, JobMatchesPhase, LedgerMatchesPhase, SameIdentity,
         VerdictIsTrue, OwnJob, Stored, At
    <3> QED
      BY <1>8, <2>0, <3>2 DEF OwnerInv, At
  <2>2. VisitorInv(d)'
    <3> SUFFICES ASSUME caller[d].pc \in Visiting PROVE VisitorInv(d)'
      BY <2>0 DEF VisitorInv, At, Visiting
    <3>1. Mine(d) \in Requests
      BY <2>0 DEF VisitorInv
    <3>2. /\ Reserved(Mine(d)) => ledger'[Mine(d)] = ledger[Mine(d)]
          /\ ~Reserved(Mine(d))' => ~Reserved(Mine(d))
          /\ Reserved(Mine(d)) => Reserved(Mine(d))'
      BY <1>5, <1>7, <2>0, <3>1 DEF Reserved
    <3>3. Closed(Mine(d)) => Closed(Mine(d))'
      BY <1>14, <2>0, <3>1
    <3> QED
      BY <1>8, <2>0, <3>1, <3>2, <3>3 DEF VisitorInv, At, Refuses, Stored
  <2> QED
    BY <2>1, <2>2
<1>17. ASSUME NEW x \in Requests PROVE LedgerInv(x)'
  <2>1. LedgerInv(x)
    BY DEF Inv, IInv
  <2> QED
    BY <1>5, <1>8, <2>1 DEF LedgerInv, Reserved, Stored
<1>18. AnswersInv'
  <2>1. \A a \in answers : a.request \in Requests
    BY DEF Inv, TypeOK, Answer
  <2> QED
    BY <1>8, <1>14, <2>1 DEF Inv, IInv, AnswersInv, Refuses
<1>19. Keeps
  <2>1. \A x \in Requests : Reserved(x)' <=> (Reserved(x) \/ x = r)
    BY <1>2, <1>5 DEF Reserved
  <2> QED
    BY <1>2, <1>5, <1>7, <1>8, <2>1 DEF Keeps
<1> QED
  BY <1>9, <1>11, <1>12, <1>13, <1>15, <1>16, <1>17, <1>18, <1>19 DEF Inv, IInv, Preserves

LEMMA TellsType ==
  ASSUME TypeOK, NEW c \in Callers, Mine(c) \in Requests, NEW said \in Verdict, Tells(c, said)
  PROVE  /\ answers' \subseteq Answer /\ answers \subseteq answers'
         /\ \A a \in answers' \ answers :
              /\ a.request = Mine(c) /\ a.form = caller[c].form /\ a.said = said /\ said \in Final
              /\ said = "committed" => a.version = responses[Mine(c)].version
<1>1. responses[Mine(c)].version \in Nat /\ caller[c].form \in Forms \cup {NoForm}
  BY LocalType DEF TypeOK, Response
<1> DEFINE a == [request |-> Mine(c), form |-> caller[c].form, said |-> said,
                 version |-> IF said = "committed" THEN responses[Mine(c)].version ELSE 0]
<1>2. CASE said \in Final
  <2>1. answers' = answers \cup {a}
    BY <1>2 DEF Tells
  <2>2. a \in Answer
    BY <1>1, <1>2 DEF Answer
  <2> QED
    BY <1>2, <2>1, <2>2 DEF TypeOK
<1>3. CASE said \notin Final
  BY <1>3 DEF Tells, TypeOK
<1> QED
  BY <1>2, <1>3

\* The owner settles its entry and is gone.
LEMMA SignalStep ==
  ASSUME Inv, NEW c \in Callers, Signal(c)
  PROVE  Preserves
<1> DEFINE r == Mine(c)
           fate == caller[c].fate
<1>1. caller[c].pc \in Owning /\ At(c, "signal")
  BY DEF Signal, At, Owning, Retained
<1>2. /\ r \in Requests /\ ledger[r].lifecycle \in Open /\ ledger[r].owner = c
      /\ \A d \in Callers : d # c /\ caller[d].pc \in Owning => Mine(d) # r
  BY <1>1, OwnerFacts
<1>3. /\ Allowed(ledger[r].lifecycle, fate)
      /\ ledger' = [ledger EXCEPT ![r].lifecycle = fate]
  BY <1>2 DEF Signal, Open, Terminal
<1>4. fate \in Terminal
  BY <1>3 DEF Allowed, Terminal
<1>5. /\ OnlyEntry(r) /\ SameEntry(r) /\ ledger'[r].lifecycle = fate
  <2> DEFINE entry == [ledger[r] EXCEPT !.lifecycle = fate]
  <2>1. ledger[r] \in Entry
    BY <1>2 DEF Inv, TypeOK
  <2>2. entry \in Entry
    BY <1>4, <2>1 DEF Entry, Lifecycle
  <2>3. /\ entry.lifecycle = fate /\ entry.form = ledger[r].form
        /\ entry.version = ledger[r].version /\ entry.owner = ledger[r].owner
    BY <2>1 DEF Entry
  <2>4. ledger' = [ledger EXCEPT ![r] = entry]
    BY <1>2, <1>3 DEF Inv, TypeOK
  <2> HIDE DEF entry
  <2> QED
    BY <1>2, <2>2, <2>3, <2>4 DEF Inv, TypeOK, OnlyEntry, SameEntry
<1>6. OnlyCaller(c) /\ caller'[c] = Idle
  BY EndsIdle DEF Signal, Inv
<1>7. /\ caller'[c].pc = "idle"
      /\ \A d \in Callers : d # c => caller'[d] = caller[d]
      /\ \A x \in Requests : x # r => ledger'[x] = ledger[x]
      /\ ledger'[r].form = ledger[r].form
      /\ UNCHANGED <<version, events, responses, jobs, session_lock, authority, generations>>
  BY <1>5, <1>6 DEF OnlyCaller, OnlyEntry, SameEntry, Idle, Signal, story
<1>8. /\ JobMatchesPhase(c) /\ LedgerMatchesPhase(c) /\ VerdictIsTrue(c)
  BY <1>1 DEF Inv, IInv, OwnerInv
<1>9. /\ fate = "TERMINAL_NO_JOB" => jobs[r].status = "ABSENT" /\ ~Stored(r)
      /\ fate = "TERMINAL_AUTHORITATIVE" =>
            jobs[r].status \in Settled /\ jobs[r].form = ledger[r].form
      /\ fate = "TERMINAL_UNCERTAIN" /\ Stored(r) => AmbiguousCommits
      /\ Refuses(caller[c].verdict) => ~Stored(r)
      /\ caller[c].verdict = "committed" => Stored(r) /\ caller[c].form = responses[r].form
  <2>0. TurnsAreWhole
    BY DEF Inv, IInv
  <2>1. /\ fate = "TERMINAL_NO_JOB" => jobs[r].status = "ABSENT"
        /\ fate = "TERMINAL_AUTHORITATIVE" => OwnJob(c) /\ jobs[r].status \in Settled
    BY <1>1, <1>8 DEF JobMatchesPhase, At
  <2>2. OwnJob(c) => jobs[r].form = ledger[r].form /\ jobs[r].form = caller[c].form
    BY <1>8 DEF OwnJob, LedgerMatchesPhase, SameIdentity
  <2> QED
    BY <1>2, <1>8, <2>0, <2>1, <2>2 DEF VerdictIsTrue, TurnsAreWhole
<1>10. /\ answers' \subseteq Answer /\ answers \subseteq answers'
       /\ \A a \in answers' \ answers :
              /\ a.request = r /\ a.form = caller[c].form /\ a.said = caller[c].verdict
              /\ a.said = "committed" => a.version = responses[r].version
  <2> DEFINE said == IF caller[c].cancelled THEN "none" ELSE caller[c].verdict
  <2>1. Tells(c, said) /\ said \in Verdict
    BY LocalType DEF Signal, Inv, Verdict
  <2>2. said \in Final => said = caller[c].verdict
    BY DEF Final
  <2> HIDE DEF said
  <2> QED
    BY <1>2, <2>1, <2>2, TellsType DEF Inv
<1>11. TypeOK'
  BY <1>5, <1>6, <1>7, <1>10 DEF Inv, TypeOK, OnlyCaller, OnlyEntry, Signal, budget
<1> HIDE DEF r, fate
<1>12. LedgerTellsTheTruth'
  <2>1. LedgerTellsTheTruth
    BY DEF Inv, IInv
  <2> QED
    BY <1>4, <1>5, <1>7, <1>9, <2>1 DEF LedgerTellsTheTruth, Stored, Terminal
<1>13. NoOrphanedAttempt'
  <2>0. NoOrphanedAttempt
    BY DEF Inv, IInv
  <2>1. ASSUME NEW x \in Requests, ledger'[x].lifecycle \in Open
        PROVE  /\ ledger'[x].owner \in Callers
               /\ caller'[ledger'[x].owner].pc \in Owning
               /\ caller'[ledger'[x].owner].request = x
    <3>1. x # r
      BY <1>4, <1>5, <2>1 DEF Open, Terminal
    <3>2. /\ ledger'[x] = ledger[x] /\ ledger[x].owner \in Callers
          /\ caller[ledger[x].owner].pc \in Owning /\ Mine(ledger[x].owner) = x
      BY <1>7, <2>0, <2>1, <3>1 DEF NoOrphanedAttempt, Open
    <3> QED
      BY <1>7, <3>1, <3>2 DEF Mine, r
  <2>2. ASSUME NEW d \in Callers, caller'[d].pc \in Owning
        PROVE  /\ ledger'[caller'[d].request].owner = d
               /\ caller'[d].pc = "signal" =>
                     Allowed(ledger'[caller'[d].request].lifecycle, caller'[d].fate)
    <3>1. d # c /\ caller'[d] = caller[d]
      BY <1>7, <2>2 DEF Owning, Retained, Settling
    <3>2. Mine(d) # r /\ Mine(d) \in Requests
      BY <1>2, <2>2, <3>1, OwnerFacts
    <3> QED
      BY <1>7, <2>0, <2>2, <3>1, <3>2 DEF NoOrphanedAttempt, Mine, At, Allowed
  <2> QED
    BY <2>1, <2>2 DEF NoOrphanedAttempt, Open, Mine, At
<1>14. TurnsAreWhole'
  BY <1>7 DEF Inv, IInv, TurnsAreWhole, Stored
<1>15. AnswersOwnSubmission'
  <2>1. AnswersOwnSubmission
    BY DEF Inv, IInv
  <2> QED
    BY <1>7, <1>9, <1>10, <2>1 DEF AnswersOwnSubmission, Stored
<1>16. ASSUME NEW x \in Requests, Closed(x) PROVE Closed(x)'
  BY <1>4, <1>5, <1>7, <1>16 DEF Closed, Stored
<1>17. ASSUME NEW d \in Callers PROVE OwnerInv(d)' /\ VisitorInv(d)'
  <2>0. OwnerInv(d) /\ VisitorInv(d)
    BY DEF Inv, IInv
  <2>1. CASE d = c
    BY <1>7, <2>1 DEF OwnerInv, VisitorInv, At, Owning, Retained, Settling, Visiting
  <2>2. CASE d # c
    <3>1. caller'[d] = caller[d] /\ Mine(d)' = Mine(d)
      BY <1>7, <2>2 DEF Mine
    <3>2. OwnerInv(d)'
      <4> SUFFICES ASSUME caller[d].pc \in Owning PROVE OwnerInv(d)'
        BY <3>1 DEF OwnerInv
      <4>1. ledger'[Mine(d)] = ledger[Mine(d)]
        BY <1>2, <1>7, <2>2, OwnerFacts
      <4>2. JobMatchesPhase(d)' /\ LedgerMatchesPhase(d)' /\ VerdictIsTrue(d)'
        BY <1>7, <2>0, <3>1, <4>1 DEF OwnerInv, JobMatchesPhase, LedgerMatchesPhase,
           SameIdentity, VerdictIsTrue, OwnJob, Stored, At
      <4> QED
        BY <1>7, <2>0, <3>1, <4>2 DEF OwnerInv, At
    <3>3. VisitorInv(d)'
      <4> SUFFICES ASSUME caller[d].pc \in Visiting PROVE VisitorInv(d)'
        BY <3>1 DEF VisitorInv, At, Visiting
      <4>1. Mine(d) \in Requests
        BY <2>0 DEF VisitorInv
      <4>2. /\ Reserved(Mine(d))' <=> Reserved(Mine(d))
            /\ ledger'[Mine(d)].form = ledger[Mine(d)].form
            /\ ledger[Mine(d)].lifecycle = "TERMINAL_AUTHORITATIVE" =>
                 ledger'[Mine(d)].lifecycle = "TERMINAL_AUTHORITATIVE"
        BY <1>2, <1>4, <1>5, <1>7, <3>1, <4>1 DEF Reserved, Open, Terminal
      <4>3. Closed(Mine(d)) => Closed(Mine(d))'
        BY <1>16, <3>1, <4>1
      <4> QED
        BY <1>7, <2>0, <3>1, <4>1, <4>2, <4>3 DEF VisitorInv, At, Refuses, Stored
    <3> QED
      BY <3>2, <3>3
  <2> QED
    BY <2>1, <2>2
<1>18. ASSUME NEW x \in Requests PROVE LedgerInv(x)'
  <2>1. LedgerInv(x)
    BY DEF Inv, IInv
  <2> QED
    BY <1>2, <1>4, <1>5, <1>7, <1>9, <2>1 DEF LedgerInv, Reserved, Stored, Open, Terminal
<1>19. AnswersInv'
  <2> SUFFICES ASSUME NEW a \in answers', Refuses(a.said) PROVE Closed(a.request)'
    BY DEF AnswersInv, Refuses
  <2>1. CASE a \in answers
    <3>1. a.request \in Requests
      BY <2>1 DEF Inv, TypeOK, Answer
    <3> QED
      BY <1>16, <2>1, <3>1 DEF Inv, IInv, AnswersInv
  <2>2. CASE a \notin answers
    BY <1>4, <1>5, <1>7, <1>9, <1>10, <2>2 DEF Closed, Stored
  <2> QED
    BY <2>1, <2>2
<1>20. Keeps
  <2>1. \A x \in Requests : Reserved(x)' <=> Reserved(x)
    BY <1>2, <1>4, <1>5, <1>7 DEF Reserved, Open, Terminal
  <2> QED
    BY <1>2, <1>7, <1>10, <2>1 DEF Keeps, Open
<1> QED
  BY <1>11, <1>12, <1>13, <1>14, <1>15, <1>17, <1>18, <1>19, <1>20 DEF Inv, IInv, Preserves

\* The turn is applied; its owner goes on to signal or, if the commit raised, to
\* classify what it left.
LEMMA ApplyStep ==
  ASSUME Inv, NEW c \in Callers, At(c, "commit"), Applies(c),
         OnlyCaller(c), SameCall(c), session_lock' = NoCaller,
         \/ /\ caller'[c].pc = "signal" /\ ~caller'[c].cancelled
            /\ caller'[c].verdict = "committed" /\ caller'[c].fate = "TERMINAL_AUTHORITATIVE"
         \/ /\ caller'[c].pc = "classify" /\ AmbiguousCommits
            /\ caller'[c].verdict = "none",
         faults' \in 0..MaxFaults, cancels' \in 0..MaxCancels,
         UNCHANGED <<authority, ledger, generations, answers>>
  PROVE  Preserves
<1> DEFINE r == Mine(c)
<1>1. caller[c].pc \in Owning
  BY DEF At, Owning
<1>2. /\ r \in Requests /\ ledger[r].owner = c
      /\ \A d \in Callers : d # c /\ caller[d].pc \in Owning => Mine(d) # r
  BY <1>1, OwnerFacts
<1>3. /\ OwnerInv(c) /\ JobMatchesPhase(c) /\ LedgerMatchesPhase(c)
      /\ session_lock = c /\ version = caller[c].version
      /\ r \in Suggested => caller[c].version = 0
  BY <1>1 DEF Inv, IInv, OwnerInv, At
<1>4. /\ OwnJob(c) /\ jobs[r].status = "PROPOSAL_VALIDATED"
      /\ ledger[r].lifecycle = "JOB_PUBLISHED" /\ SameIdentity(c)
  BY <1>3 DEF JobMatchesPhase, LedgerMatchesPhase, At, Unpublished
<1>5. TurnsAreWhole /\ version \in Nat /\ events \in Seq(Requests)
      /\ responses \in [Requests -> Response] /\ caller[c].form \in Forms \cup {NoForm}
  BY LocalType DEF Inv, IInv, TypeOK
<1>6. ~Stored(r) /\ ~Closed(r)
  BY <1>2, <1>3, <1>4, <1>5 DEF TurnsAreWhole, Closed, Settled, Terminal
<1> DEFINE answer == [version |-> version + 1, form |-> caller[c].form]
<1>7. /\ version' = version + 1 /\ events' = Append(events, r)
      /\ responses' \in [Requests -> Response]
      /\ responses'[r].version = version + 1 /\ responses'[r].form = caller[c].form
      /\ \A x \in Requests : x # r => responses'[x] = responses[x]
      /\ Becomes(r, "COMMITTED")
  <2>1. answer \in Response
    BY <1>5 DEF Response
  <2>2. responses' = [responses EXCEPT ![r] = answer]
    BY DEF Applies
  <2>3. answer.version = version + 1 /\ answer.form = caller[c].form
    OBVIOUS
  <2> HIDE DEF answer
  <2>4. responses' \in [Requests -> Response] /\ responses'[r] = answer
        /\ \A x \in Requests : x # r => responses'[x] = responses[x]
    BY <1>2, <1>5, <2>1, <2>2
  <2> QED
    BY <2>3, <2>4 DEF Applies
<1>8. OnlyJob(r) /\ SameJob(r) /\ jobs'[r].status = "COMMITTED"
  BY <1>2, <1>7, BecomesOnly DEF Inv, Settled
<1>9. /\ jobs' \in [Requests -> Job]
      /\ \A x \in Requests : x # r => jobs'[x] = jobs[x]
      /\ jobs'[r].form = jobs[r].form /\ jobs'[r].prepared = jobs[r].prepared
      /\ jobs'[r].legacy = jobs[r].legacy
  BY <1>8 DEF OnlyJob, SameJob
<1>10. /\ caller' \in [Callers -> Local] /\ Mine(c)' = r
       /\ \A d \in Callers : d # c => caller'[d] = caller[d]
       /\ caller'[c].form = caller[c].form /\ caller'[c].version = caller[c].version
       /\ caller'[c].pc \in {"signal", "classify"}
  BY DEF OnlyCaller, SameCall, Mine
<1>11. /\ responses'[r].version # 0
       /\ \A x \in Requests : x # r => (Stored(x)' <=> Stored(x))
  BY <1>5, <1>7 DEF Stored
<1>12. TypeOK'
  BY <1>2, <1>5, <1>7, <1>9, <1>10 DEF Inv, TypeOK
<1> HIDE DEF r, answer
<1>13. LedgerTellsTheTruth'
  <2>1. LedgerTellsTheTruth
    BY DEF Inv, IInv
  <2> QED
    BY <1>4, <1>8, <1>9, <1>11, <2>1 DEF LedgerTellsTheTruth
<1>14. NoOrphanedAttempt'
  <2>0. NoOrphanedAttempt
    BY DEF Inv, IInv
  <2>1. caller'[c].pc \in Owning
    BY <1>10 DEF Owning, Retained
  <2>2. ASSUME NEW x \in Requests, ledger[x].lifecycle \in Open
        PROVE  /\ ledger[x].owner \in Callers
               /\ caller'[ledger[x].owner].pc \in Owning
               /\ caller'[ledger[x].owner].request = x
    <3>1. /\ ledger[x].owner \in Callers /\ caller[ledger[x].owner].pc \in Owning
          /\ Mine(ledger[x].owner) = x
      BY <2>0, <2>2 DEF NoOrphanedAttempt, Open
    <3> QED
      BY <1>10, <2>1, <3>1 DEF Mine, r
  <2>3. ASSUME NEW d \in Callers, caller'[d].pc \in Owning
        PROVE  /\ ledger[caller'[d].request].owner = d
               /\ caller'[d].pc = "signal" =>
                     Allowed(ledger[caller'[d].request].lifecycle, caller'[d].fate)
    <3>1. CASE d = c
      BY <1>2, <1>4, <1>10, <3>1 DEF Mine, Allowed
    <3>2. CASE d # c
      BY <1>10, <2>0, <2>3, <3>2 DEF NoOrphanedAttempt, Mine, At
    <3> QED
      BY <3>1, <3>2
  <2> QED
    BY <2>2, <2>3 DEF NoOrphanedAttempt, Open, Mine, At
<1>15. TurnsAreWhole'
  <2>1. /\ Len(events') = Len(events) + 1 /\ Len(events) \in Nat
        /\ \A i \in 1..Len(events) : events'[i] = events[i] /\ events[i] \in Requests
        /\ events'[Len(events) + 1] = r
    BY <1>2, <1>5, <1>7
  <2>2. /\ version = Len(events)
        /\ \A i, j \in 1..Len(events) : events[i] = events[j] => i = j
        /\ \A i \in 1..Len(events) : responses[events[i]].version = i
        /\ \A x \in Requests :
              /\ Stored(x) <=> jobs[x].status = "COMMITTED"
              /\ Stored(x) =>
                    /\ responses[x].version \in 1..version
                    /\ events[responses[x].version] = x
                    /\ responses[x].version = jobs[x].prepared + 1
                    /\ responses[x].form = jobs[x].form
    BY <1>5 DEF TurnsAreWhole
  <2>3. \A i \in 1..Len(events) : events[i] # r
    BY <1>6, <2>1, <2>2 DEF Stored
  <2>4. version' = Len(events')
    BY <1>7, <2>1, <2>2
  <2>5. \A i, j \in 1..Len(events') : events'[i] = events'[j] => i = j
    <3> SUFFICES ASSUME NEW i \in 1..Len(events'), NEW j \in 1..Len(events'),
                        events'[i] = events'[j]
                 PROVE  i = j
      OBVIOUS
    <3>1. i \in 1..Len(events) \/ i = Len(events) + 1
      BY <2>1
    <3>2. j \in 1..Len(events) \/ j = Len(events) + 1
      BY <2>1
    <3> QED
      BY <2>1, <2>2, <2>3, <3>1, <3>2
  <2>6. \A i \in 1..Len(events') : responses'[events'[i]].version = i
    <3> SUFFICES ASSUME NEW i \in 1..Len(events') PROVE responses'[events'[i]].version = i
      OBVIOUS
    <3>1. CASE i \in 1..Len(events)
      BY <1>7, <2>1, <2>2, <2>3, <3>1
    <3>2. CASE i = Len(events) + 1
      BY <1>7, <2>1, <2>2, <3>2
    <3> QED
      BY <2>1, <3>1, <3>2
  <2>7. ASSUME NEW x \in Requests
        PROVE  /\ Stored(x)' <=> jobs'[x].status = "COMMITTED"
               /\ Stored(x)' =>
                     /\ responses'[x].version \in 1..version'
                     /\ events'[responses'[x].version] = x
                     /\ responses'[x].version = jobs'[x].prepared + 1
                     /\ responses'[x].form = jobs'[x].form
    <3>1. CASE x = r
      <4>1. jobs[r].prepared = version /\ jobs[r].form = caller[c].form
        BY <1>3, <1>4 DEF OwnJob, r
      <4>2. version + 1 \in 1..(version + 1)
        BY <1>5
      <4>3. /\ responses'[r].version = version' /\ version' = jobs'[r].prepared + 1
            /\ responses'[r].version \in 1..version' /\ responses'[r].form = jobs'[r].form
        BY <1>7, <1>9, <4>1, <4>2
      <4>4. events'[responses'[r].version] = r
        BY <1>7, <2>1, <2>2
      <4> QED
        BY <1>8, <1>11, <3>1, <4>3, <4>4 DEF Stored
    <3>2. CASE x # r
      <4>1. Stored(x) => responses[x].version \in 1..Len(events)
        BY <2>2
      <4>2. Stored(x) => responses[x].version \in 1..version'
        BY <1>5, <1>7, <2>2, <4>1
      <4> QED
        BY <1>7, <1>9, <1>11, <2>1, <2>2, <3>2, <4>1, <4>2
    <3> QED
      BY <3>1, <3>2
  <2> QED
    BY <2>4, <2>5, <2>6, <2>7 DEF TurnsAreWhole
<1>16. AnswersOwnSubmission'
  <2>1. AnswersOwnSubmission /\ \A a \in answers : a.request \in Requests
    BY DEF Inv, IInv, TypeOK, Answer
  <2> QED
    BY <1>6, <1>7, <1>11, <2>1 DEF AnswersOwnSubmission
<1>17. ASSUME NEW x \in Requests, Closed(x) PROVE Closed(x)'
  <2>1. x # r
    BY <1>6, <1>17
  <2> QED
    BY <1>5, <1>7, <1>9, <1>11, <1>17, <2>1 DEF Closed
<1>18. OwnerInv(c)' /\ VisitorInv(c)'
  <2>1. OwnJob(c)' /\ SameIdentity(c)'
    BY <1>4, <1>8, <1>9, <1>10 DEF OwnJob, SameIdentity, r
  <2>2. JobMatchesPhase(c)'
    BY <1>8, <1>10, <2>1 DEF JobMatchesPhase, At, Settled
  <2>3. LedgerMatchesPhase(c)'
    BY <1>4, <1>10, <2>1 DEF LedgerMatchesPhase, Unpublished
  <2>4. VerdictIsTrue(c)'
    <3>1. Stored(Mine(c))'
      BY <1>10, <1>11 DEF Stored, Mine
    <3> QED
      BY <1>10, <3>1 DEF VerdictIsTrue, At, Refuses
  <2> QED
    BY <1>2, <1>3, <1>10, <2>2, <2>3, <2>4 DEF OwnerInv, VisitorInv, At, Retained, Visiting, Unpublished
<1>19. ASSUME NEW d \in Callers, d # c PROVE OwnerInv(d)' /\ VisitorInv(d)'
  <2>0. OwnerInv(d) /\ VisitorInv(d) /\ caller'[d] = caller[d] /\ Mine(d)' = Mine(d)
    BY <1>10, <1>19 DEF Inv, IInv, Mine
  <2>1. OwnerInv(d)'
    <3> SUFFICES ASSUME caller[d].pc \in Owning PROVE OwnerInv(d)'
      BY <2>0 DEF OwnerInv
    <3>1. Mine(d) # r /\ Mine(d) \in Requests
      BY <1>2, <1>19, OwnerFacts
    <3>2. /\ jobs'[Mine(d)] = jobs[Mine(d)] /\ (Stored(Mine(d))' <=> Stored(Mine(d)))
      BY <1>9, <1>11, <2>0, <3>1
    <3>3. ~At(d, "commit")
      BY <1>3, <1>19, <2>0 DEF OwnerInv, At
    <3>4. JobMatchesPhase(d)' /\ LedgerMatchesPhase(d)' /\ VerdictIsTrue(d)'
      BY <2>0, <3>2 DEF OwnerInv, JobMatchesPhase, LedgerMatchesPhase, SameIdentity,
         VerdictIsTrue, OwnJob, At
    <3> QED
      BY <2>0, <3>3, <3>4 DEF OwnerInv, At
  <2>2. VisitorInv(d)'
    <3> SUFFICES ASSUME caller[d].pc \in Visiting PROVE VisitorInv(d)'
      BY <2>0 DEF VisitorInv, At, Visiting
    <3>1. Mine(d) \in Requests
      BY <2>0 DEF VisitorInv
    <3>2. ~Reserved(Mine(d)) => jobs'[Mine(d)] = jobs[Mine(d)]
      BY <1>4, <1>9, <3>1 DEF Reserved
    <3>3. /\ Closed(Mine(d)) => Closed(Mine(d))'
          /\ Stored(Mine(d)) => Stored(Mine(d))' /\ responses'[Mine(d)] = responses[Mine(d)]
      BY <1>6, <1>7, <1>11, <1>17, <2>0, <3>1
    <3> QED
      BY <2>0, <3>1, <3>2, <3>3 DEF VisitorInv, At, Reserved, Refuses
  <2> QED
    BY <2>1, <2>2
<1>20. ASSUME NEW x \in Requests PROVE LedgerInv(x)'
  <2>1. LedgerInv(x)
    BY DEF Inv, IInv
  <2>2. CASE x = r
    BY <1>4, <2>2 DEF LedgerInv, Reserved
  <2>3. CASE x # r
    BY <1>9, <1>11, <2>1, <2>3 DEF LedgerInv, Reserved
  <2> QED
    BY <2>2, <2>3
<1>21. AnswersInv'
  <2>1. \A a \in answers : a.request \in Requests
    BY DEF Inv, TypeOK, Answer
  <2> QED
    BY <1>17, <2>1 DEF Inv, IInv, AnswersInv, Refuses
<1>22. Keeps
  <2>1. \A x \in Requests : jobs[x].status \in Settled => jobs'[x].status \in Settled
    BY <1>8, <1>9 DEF Settled
  <2>2. UNCHANGED <<ledger, answers>>
    OBVIOUS
  <2> QED
    BY <2>1, <2>2 DEF Keeps, Reserved
<1> QED
  BY <1>12, <1>13, <1>14, <1>15, <1>16, <1>18, <1>19, <1>20, <1>21, <1>22 DEF Inv, IInv, Preserves

-----------------------------------------------------------------------------
(* The steps of an owner whose job is published.                           *)

Attempting == Owning \ (Unpublished \cup {"signal"})

\* A step may move the row of an unsettled job, but not to COMMITTED.
RowMoves(r) ==
    \/ UNCHANGED jobs
    \/ /\ jobs[r].status \in Active
       /\ \E status \in (Active \cup Settled) \ {"COMMITTED"} : Becomes(r, status)

\* What a phase requires of the row, the lock and the verdict when it is reached.
Fits(c, phase, said, fate, cancelled) ==
    LET status == jobs'[Mine(c)].status IN
    /\ phase \in {"entry", "store"} => status = "IN_PROGRESS"
    /\ phase = "entry" => generations[Mine(c)] = 0
    /\ phase \in {"finalize", "commit"} => status = "PROPOSAL_VALIDATED"
    /\ phase = "commit" => session_lock' = c /\ version = caller[c].version
    /\ phase = "record" => status \in Leased /\ said \in {"failed", "stale"}
    /\ phase = "signal" => fate \in {"TERMINAL_AUTHORITATIVE", "TERMINAL_UNCERTAIN"}
    /\ phase = "signal" /\ fate = "TERMINAL_AUTHORITATIVE" => status \in Settled
    /\ said = "committed" =>
          phase = "signal" /\ Stored(Mine(c)) /\ fate = "TERMINAL_AUTHORITATIVE"
    /\ said \in {"failed", "stale", "rejected"} => ~Stored(Mine(c))
    /\ cancelled => phase \in Retained

\* What an owner knows between publishing its job and signalling.
LEMMA AttemptFacts ==
  ASSUME Inv, NEW c \in Callers, caller[c].pc \in Attempting
  PROVE  /\ Mine(c) \in Requests /\ OwnJob(c) /\ SameIdentity(c)
         /\ ledger[Mine(c)].lifecycle = "JOB_PUBLISHED"
         /\ Stored(Mine(c)) <=> jobs[Mine(c)].status = "COMMITTED"
         /\ ~AmbiguousCommits => ~Stored(Mine(c))
         /\ caller[c].verdict # "committed"
         /\ Refuses(caller[c].verdict) => ~Stored(Mine(c))
         /\ caller[c].cancelled => caller[c].pc \in Retained
         /\ Mine(c) \in Suggested => caller[c].version = 0
<1>1. OwnerInv(c) /\ TurnsAreWhole
  BY DEF Inv, IInv
<1>2. caller[c].pc \in Owning /\ caller[c].pc \notin Unpublished /\ ~At(c, "signal")
  BY DEF Attempting, At
<1>3. /\ Mine(c) \in Requests /\ JobMatchesPhase(c) /\ LedgerMatchesPhase(c) /\ VerdictIsTrue(c)
      /\ caller[c].cancelled => caller[c].pc \in Retained
      /\ Mine(c) \in Suggested => caller[c].version = 0
  BY <1>1, <1>2 DEF OwnerInv
<1>4. OwnJob(c)
  BY <1>2, <1>3 DEF JobMatchesPhase, At, Unpublished
<1>5. SameIdentity(c) /\ ledger[Mine(c)].lifecycle = "JOB_PUBLISHED"
  BY <1>2, <1>3 DEF LedgerMatchesPhase, At
<1> QED
  BY <1>1, <1>2, <1>3, <1>4, <1>5 DEF TurnsAreWhole, VerdictIsTrue

LEMMA AttemptStep ==
  ASSUME Inv, NEW c \in Callers, caller[c].pc \in Attempting,
         NEW phase \in Attempting \cup {"signal"}, phase \notin {"claim", "calling"},
         NEW said, NEW fate, NEW cancelled,
         Steps(c, phase, said, fate, cancelled), RowMoves(Mine(c)),
         Fits(c, phase, said, fate, cancelled),
         \/ session_lock' \in {NoCaller, c} /\ session_lock \in {NoCaller, c}
         \/ session_lock' = session_lock,
         faults' \in 0..MaxFaults, cancels' \in 0..MaxCancels,
         UNCHANGED <<story, authority, ledger, generations, answers>>
  PROVE  Preserves
<1> DEFINE r == Mine(c)
<1>1. /\ r \in Requests /\ OwnJob(c) /\ SameIdentity(c)
      /\ ledger[r].lifecycle = "JOB_PUBLISHED"
      /\ Stored(r) <=> jobs[r].status = "COMMITTED"
      /\ ~AmbiguousCommits => ~Stored(r)
      /\ r \in Suggested => caller[c].version = 0
  BY AttemptFacts
<1>2. /\ OnlyCaller(c) /\ SameCall(c) /\ Mine(c)' = r
      /\ caller'[c].pc = phase /\ caller'[c].verdict = said /\ caller'[c].fate = fate
      /\ caller'[c].cancelled = cancelled
      /\ caller'[c].form = caller[c].form /\ caller'[c].version = caller[c].version
  BY DEF Steps, SameCall, Mine
<1>3. /\ caller[c].pc \in Owning /\ phase \in Owning
      /\ phase \notin Unpublished \cup {"claim", "calling"}
  BY DEF Attempting, Owning, Retained, Unpublished
<1>4. UNCHANGED <<version, events, responses, authority, ledger, generations, answers>>
  BY DEF story
<1>5. OnlyJob(r) /\ SameJob(r)
      /\ (jobs'[r].status = jobs[r].status \/
           (jobs[r].status \in Active /\ jobs'[r].status \in (Active \cup Settled) \ {"COMMITTED"}))
  <2>1. CASE UNCHANGED jobs
    BY <2>1 DEF OnlyJob, SameJob, Inv, TypeOK
  <2>2. CASE ~UNCHANGED jobs
    <3>1. PICK status \in (Active \cup Settled) \ {"COMMITTED"} : Becomes(r, status)
      BY <2>2 DEF RowMoves
    <3>2. status \in Active \cup Settled /\ jobs[r].status \in Active
      BY <2>2 DEF RowMoves
    <3> QED
      BY <1>1, <3>1, <3>2, BecomesOnly DEF Inv
  <2> QED
    BY <2>1, <2>2
<1>6. /\ jobs'[r].status = "COMMITTED" <=> jobs[r].status = "COMMITTED"
      /\ jobs[r].status \in Settled => jobs'[r].status \in Settled
      /\ jobs'[r].status # "ABSENT"
  BY <1>1, <1>5 DEF Active, Leased, Settled, OwnJob
<1>7. OnlyEntry(r) /\ SameEntry(r)
  BY <1>4 DEF OnlyEntry, SameEntry, Inv, TypeOK
<1>8. OwnerFrame(c)
  BY <1>2, <1>3, <1>4, <1>5, <1>6, <1>7 DEF OwnerFrame, Inv, TypeOK
<1>9. /\ OwnJob(c)' /\ SameIdentity(c)' /\ (Stored(r) <=> Stored(Mine(c))')
      /\ jobs'[Mine(c)'] = jobs'[r]
  BY <1>1, <1>2, <1>4, <1>5, <1>6 DEF OwnJob, SameIdentity, SameJob, Stored
<1>10. JobMatchesPhase(c)'
  BY <1>2, <1>3, <1>9 DEF JobMatchesPhase, Fits, At, Unpublished
<1>11. LedgerMatchesPhase(c)'
  BY <1>1, <1>2, <1>3, <1>4, <1>9 DEF LedgerMatchesPhase
<1>12. VerdictIsTrue(c)'
  BY <1>1, <1>2, <1>9 DEF VerdictIsTrue, Fits, At, Refuses
<1>13. OwnerInv(c)'
  BY <1>1, <1>2, <1>3, <1>4, <1>10, <1>11, <1>12 DEF OwnerInv, Fits, At
<1>14. At(c, "signal")' => Allowed(ledger[Mine(c)].lifecycle, caller[c].fate)'
  BY <1>1, <1>2, <1>4 DEF Fits, At, Allowed
<1> QED
  BY <1>3, <1>8, <1>13, <1>14, OwnerStep

\* The row an owner finds in the phases that require one.
LEMMA PhaseRow ==
  ASSUME Inv, NEW c \in Callers
  PROVE  /\ At(c, "claim") => jobs[Mine(c)].status = "PREPARED"
         /\ caller[c].pc \in {"entry", "calling", "store"} => jobs[Mine(c)].status = "IN_PROGRESS"
         /\ caller[c].pc \in {"finalize", "commit"} =>
               jobs[Mine(c)].status = "PROPOSAL_VALIDATED"
         /\ At(c, "record") => /\ jobs[Mine(c)].status \in Leased
                               /\ caller[c].verdict \in {"failed", "stale"}
  <1>1. caller[c].pc \in Owning => JobMatchesPhase(c)
    BY DEF Inv, IInv, OwnerInv
  <1>2. At(c, "record") => caller[c].verdict \in {"failed", "stale"}
    BY DEF Inv, IInv, OwnerInv, At, Owning
  <1> QED
    BY <1>1, <1>2 DEF JobMatchesPhase, At, Owning

LEMMA MayBecomeMoves ==
  ASSUME NEW r \in Requests, jobs[r].status \in Active,
         NEW status \in (Active \cup Settled) \ {"COMMITTED"}, MayBecome(r, status)
  PROVE  RowMoves(r)
  BY DEF MayBecome, RowMoves

LEMMA ClaimStep ==
  ASSUME Inv, NEW c \in Callers, Claim(c)
  PROVE  Preserves
<1>1. /\ caller[c].pc = "claim" /\ "claim" \in Attempting /\ "entry" \in Attempting
      /\ jobs[Mine(c)].status = "PREPARED" /\ TypeOK
  BY PhaseRow DEF Claim, At, Attempting, Owning, Unpublished, Inv
<1>2. /\ Becomes(Mine(c), "IN_PROGRESS") /\ Moves(c, "entry")
      /\ UNCHANGED <<story, session_lock, authority, ledger, generations, answers, budget>>
  BY <1>1 DEF Claim
<1>3. Steps(c, "entry", caller[c].verdict, caller[c].fate, caller[c].cancelled)
  BY <1>1, <1>2, MovesSteps DEF Attempting, Pc
<1>4. /\ Mine(c) \in Requests /\ ~caller[c].cancelled /\ caller[c].verdict # "committed"
      /\ Refuses(caller[c].verdict) => ~Stored(Mine(c))
  BY <1>1, AttemptFacts DEF Retained, Settling
<1>5. jobs'[Mine(c)].status = "IN_PROGRESS" /\ RowMoves(Mine(c))
  BY <1>1, <1>2, <1>4, BecomesOnly DEF Active, Leased, RowMoves
<1>6. generations[Mine(c)] = 0
  BY <1>1 DEF Inv, IInv, OwnerInv, Owning
<1>7. Fits(c, "entry", caller[c].verdict, caller[c].fate, caller[c].cancelled)
  BY <1>4, <1>5, <1>6 DEF Fits, Refuses
<1> QED
  BY <1>1, <1>2, <1>3, <1>5, <1>7, AttemptStep DEF budget, Inv, TypeOK

\* An owner whose step broke goes on to settle: nothing is required of the row.
LEMMA BrokenStep ==
  ASSUME Inv, NEW c \in Callers, caller[c].pc \in Attempting,
         NEW phase \in {"reread", "classify", "abandon"}, NEW why \in {"fault", "cancel"},
         Breaks(c, phase, why), RowMoves(Mine(c)),
         \/ session_lock' \in {NoCaller, c} /\ session_lock \in {NoCaller, c}
         \/ session_lock' = session_lock,
         UNCHANGED <<story, authority, ledger, generations, answers>>
  PROVE  Preserves
<1>1. phase \in Attempting /\ phase \in Retained /\ phase \in Pc
  BY DEF Attempting, Owning, Retained, Settling, Unpublished, Pc
<1>2. /\ Steps(c, phase, "none", caller[c].fate, caller[c].cancelled \/ why = "cancel")
      /\ faults' \in 0..MaxFaults /\ cancels' \in 0..MaxCancels
  BY <1>1, BreaksSteps DEF Inv
<1>3. Fits(c, phase, "none", caller[c].fate, caller[c].cancelled \/ why = "cancel")
  BY <1>1 DEF Fits
<1> QED
  BY <1>1, <1>2, <1>3, AttemptStep

LEMMA ClaimBreaksStep ==
  ASSUME Inv, NEW c \in Callers, NEW why \in {"fault", "cancel"}, ClaimBreaks(c, why)
  PROVE  Preserves
<1>1. caller[c].pc \in Attempting /\ jobs[Mine(c)].status = "PREPARED"
  BY PhaseRow DEF ClaimBreaks, At, Attempting, Owning, Unpublished
<1>2. RowMoves(Mine(c))
  BY <1>1, AttemptFacts, MayBecomeMoves DEF ClaimBreaks, Active, Leased
<1> QED
  BY <1>1, <1>2, BrokenStep DEF ClaimBreaks

LEMMA EntryBreaksStep ==
  ASSUME Inv, NEW c \in Callers, EntryBreaks(c)
  PROVE  Preserves
<1>1. caller[c].pc \in Attempting /\ RowMoves(Mine(c))
  BY DEF EntryBreaks, At, Attempting, Owning, Unpublished, RowMoves
<1> QED
  BY <1>1, BrokenStep DEF EntryBreaks

LEMMA CallBreaksStep ==
  ASSUME Inv, NEW c \in Callers, CallBreaks(c)
  PROVE  Preserves
<1>1. caller[c].pc \in Attempting /\ RowMoves(Mine(c))
  BY DEF CallBreaks, At, Attempting, Owning, Unpublished, RowMoves
<1> QED
  BY <1>1, BrokenStep DEF CallBreaks

LEMMA StoreBreaksStep ==
  ASSUME Inv, NEW c \in Callers, NEW why \in {"fault", "cancel"}, StoreBreaks(c, why)
  PROVE  Preserves
<1>1. caller[c].pc \in Attempting /\ jobs[Mine(c)].status = "IN_PROGRESS"
  BY PhaseRow DEF StoreBreaks, At, Attempting, Owning, Unpublished
<1>2. RowMoves(Mine(c))
  BY <1>1, AttemptFacts, MayBecomeMoves DEF StoreBreaks, Active, Leased, RowMoves
<1> QED
  BY <1>1, <1>2, BrokenStep DEF StoreBreaks

LEMMA FinalizeBreaksStep ==
  ASSUME Inv, NEW c \in Callers, NEW why \in {"fault", "cancel"}, FinalizeBreaks(c, why)
  PROVE  Preserves
<1>1. caller[c].pc \in Attempting /\ RowMoves(Mine(c))
  BY DEF FinalizeBreaks, At, Attempting, Owning, Unpublished, RowMoves
<1> QED
  BY <1>1, BrokenStep DEF FinalizeBreaks

LEMMA RecordBreaksStep ==
  ASSUME Inv, NEW c \in Callers, NEW why \in {"fault", "cancel"}, RecordBreaks(c, why)
  PROVE  Preserves
<1>1. caller[c].pc \in Attempting
  BY DEF RecordBreaks, At, Attempting, Owning, Unpublished
<1>2. RowMoves(Mine(c))
  <2>1. VerdictStatus(c) \in (Active \cup Settled) \ {"COMMITTED"}
    BY DEF VerdictStatus, Settled
  <2> QED
    BY <2>1 DEF RecordBreaks, RowMoves
<1> QED
  BY <1>1, <1>2, BrokenStep DEF RecordBreaks

\* An owner that moves on with what it is about to be told, the row left alone.
LEMMA CalmStep ==
  ASSUME Inv, NEW c \in Callers, caller[c].pc \in Attempting,
         NEW phase \in Attempting \cup {"signal"}, phase \notin {"claim", "calling"},
         NEW said \in Verdict, NEW fate \in Fate,
         Steps(c, phase, said, fate, caller[c].cancelled),
         Fits(c, phase, said, fate, caller[c].cancelled),
         UNCHANGED <<story, jobs, session_lock, authority, ledger, generations, answers>>,
         faults' \in 0..MaxFaults, cancels' \in 0..MaxCancels
  PROVE  Preserves
  BY AttemptStep DEF RowMoves

\* The facts common to the next lemmas: the caller, and the phases it may move to.
LEMMA AttemptPhases ==
  /\ {"claim", "entry", "calling", "store", "finalize", "commit", "record", "classify",
      "reread"} \cup Settling = Attempting
  /\ Attempting \subseteq Pc /\ Attempting \subseteq Owning /\ "signal" \notin Attempting
  /\ "none" \in Verdict /\ Final \subseteq Verdict /\ Terminal \subseteq Fate
  /\ {"classify", "reread", "signal"} \cup Settling \subseteq Retained
  BY DEF Attempting, Owning, Retained, Settling, Unpublished, Pc, Verdict, Fate

LEMMA CallEndsStep ==
  ASSUME Inv, NEW c \in Callers, CallEnds(c)
  PROVE  Preserves
<1>1. /\ caller[c].pc \in Attempting /\ jobs[Mine(c)].status = "IN_PROGRESS"
      /\ TypeOK /\ UNCHANGED <<story, jobs, session_lock, authority, ledger, generations, answers>>
      /\ faults' \in 0..MaxFaults /\ cancels' \in 0..MaxCancels
  BY PhaseRow, AttemptPhases DEF CallEnds, At, Inv, TypeOK, budget
<1>2. /\ Mine(c) \in Requests /\ caller[c].verdict # "committed" /\ ~caller[c].cancelled
      /\ Refuses(caller[c].verdict) => ~Stored(Mine(c))
      /\ ~Stored(Mine(c)) /\ caller[c].fate \in Fate /\ caller[c].verdict \in Verdict
  BY <1>1, AttemptFacts, LocalType DEF CallEnds, At, Retained, Settling
<1>3. CASE Moves(c, "store")
  <2>1. Steps(c, "store", caller[c].verdict, caller[c].fate, caller[c].cancelled)
    BY <1>1, <1>3, AttemptPhases, MovesSteps
  <2>2. Fits(c, "store", caller[c].verdict, caller[c].fate, caller[c].cancelled)
    BY <1>1, <1>2 DEF Fits
  <2> QED
    BY <1>1, <1>2, <2>1, <2>2, AttemptPhases, CalmStep
<1>4. CASE MovesSaying(c, "record", "failed")
  <2>1. Steps(c, "record", "failed", caller[c].fate, caller[c].cancelled)
    BY <1>1, <1>4, AttemptPhases, MovesSayingSteps DEF Final
  <2>2. Fits(c, "record", "failed", caller[c].fate, caller[c].cancelled)
    BY <1>1, <1>2 DEF Fits, Leased
  <2> QED
    BY <1>1, <1>2, <2>1, <2>2, AttemptPhases, CalmStep DEF Final
<1>5. CASE MovesSaying(c, "abandon", "unknown")
  <2>1. Steps(c, "abandon", "unknown", caller[c].fate, caller[c].cancelled)
    BY <1>1, <1>5, AttemptPhases, MovesSayingSteps DEF Final, Settling
  <2>2. Fits(c, "abandon", "unknown", caller[c].fate, caller[c].cancelled)
    BY <1>1, <1>2 DEF Fits
  <2> QED
    BY <1>1, <1>2, <2>1, <2>2, AttemptPhases, CalmStep DEF Final, Settling
<1> QED
  BY <1>3, <1>4, <1>5 DEF CallEnds

LEMMA StoreStep ==
  ASSUME Inv, NEW c \in Callers, Store(c)
  PROVE  Preserves
<1>1. /\ caller[c].pc \in Attempting /\ jobs[Mine(c)].status = "IN_PROGRESS"
      /\ TypeOK /\ UNCHANGED <<story, session_lock, authority, ledger, generations, answers>>
      /\ faults' \in 0..MaxFaults /\ cancels' \in 0..MaxCancels
  BY PhaseRow, AttemptPhases DEF Store, At, Inv, TypeOK, budget
<1>2. /\ Mine(c) \in Requests /\ caller[c].verdict # "committed" /\ ~caller[c].cancelled
      /\ Refuses(caller[c].verdict) => ~Stored(Mine(c))
      /\ ~Stored(Mine(c)) /\ caller[c].fate \in Fate /\ caller[c].verdict \in Verdict
  BY <1>1, AttemptFacts, LocalType DEF Store, At, Retained, Settling
<1>3. CASE Holds(c, "IN_PROGRESS")
  <2>1. Becomes(Mine(c), "PROPOSAL_VALIDATED") /\ Moves(c, "finalize")
    BY <1>3 DEF Store
  <2>2. Steps(c, "finalize", caller[c].verdict, caller[c].fate, caller[c].cancelled)
    BY <1>1, <2>1, AttemptPhases, MovesSteps
  <2>3. RowMoves(Mine(c)) /\ jobs'[Mine(c)].status = "PROPOSAL_VALIDATED"
    BY <1>1, <1>2, <2>1, BecomesOnly DEF RowMoves, Active, Leased
  <2>4. Fits(c, "finalize", caller[c].verdict, caller[c].fate, caller[c].cancelled)
    BY <1>2, <2>3 DEF Fits
  <2> QED
    BY <1>1, <2>2, <2>3, <2>4, AttemptPhases, AttemptStep
<1>4. CASE ~Holds(c, "IN_PROGRESS")
  <2>1. UNCHANGED jobs /\ MovesSaying(c, "reread", "stale")
    BY <1>4 DEF Store
  <2>2. Steps(c, "reread", "stale", caller[c].fate, caller[c].cancelled)
    BY <1>1, <2>1, AttemptPhases, MovesSayingSteps DEF Final
  <2>3. Fits(c, "reread", "stale", caller[c].fate, caller[c].cancelled)
    BY <1>2 DEF Fits
  <2> QED
    BY <1>1, <1>2, <2>1, <2>2, <2>3, AttemptPhases, CalmStep DEF Final
<1> QED
  BY <1>3, <1>4

LEMMA FinalizeStep ==
  ASSUME Inv, NEW c \in Callers, Finalize(c)
  PROVE  Preserves
<1>1. /\ caller[c].pc \in Attempting /\ jobs[Mine(c)].status = "PROPOSAL_VALIDATED"
      /\ TypeOK /\ UNCHANGED <<story, jobs, authority, ledger, generations, answers>>
      /\ faults' \in 0..MaxFaults /\ cancels' \in 0..MaxCancels /\ session_lock = NoCaller
  BY PhaseRow, AttemptPhases DEF Finalize, At, Inv, TypeOK, budget, Unlocked
<1>2. /\ Mine(c) \in Requests /\ caller[c].verdict # "committed" /\ ~caller[c].cancelled
      /\ Refuses(caller[c].verdict) => ~Stored(Mine(c))
      /\ ~Stored(Mine(c)) /\ caller[c].fate \in Fate /\ caller[c].verdict \in Verdict
  BY <1>1, AttemptFacts, LocalType DEF Finalize, At, Retained, Settling
<1>3. CASE \E said \in {"stale", "failed"} : MovesSaying(c, "record", said) /\ UNCHANGED session_lock
  <2>1. PICK said \in {"stale", "failed"} : MovesSaying(c, "record", said) /\ UNCHANGED session_lock
    BY <1>3
  <2>2. said \in Verdict
    BY AttemptPhases DEF Final
  <2>3. Steps(c, "record", said, caller[c].fate, caller[c].cancelled)
    BY <1>1, <2>1, <2>2, AttemptPhases, MovesSayingSteps
  <2>4. Fits(c, "record", said, caller[c].fate, caller[c].cancelled)
    BY <1>1, <1>2 DEF Fits, Leased
  <2> QED
    BY <1>1, <1>2, <2>1, <2>2, <2>3, <2>4, AttemptPhases, CalmStep
<1>4. CASE Moves(c, "classify") /\ UNCHANGED session_lock
  <2>1. Steps(c, "classify", caller[c].verdict, caller[c].fate, caller[c].cancelled)
    BY <1>1, <1>4, AttemptPhases, MovesSteps
  <2>2. Fits(c, "classify", caller[c].verdict, caller[c].fate, caller[c].cancelled)
    BY <1>2 DEF Fits
  <2> QED
    BY <1>1, <1>2, <1>4, <2>1, <2>2, AttemptPhases, CalmStep
<1>5. CASE Current(c) /\ Moves(c, "commit") /\ session_lock' = c
  <2>1. Steps(c, "commit", caller[c].verdict, caller[c].fate, caller[c].cancelled)
    BY <1>1, <1>5, AttemptPhases, MovesSteps
  <2>2. Fits(c, "commit", caller[c].verdict, caller[c].fate, caller[c].cancelled)
    BY <1>1, <1>2, <1>5 DEF Fits, Current
  <2> QED
    BY <1>1, <1>2, <1>5, <2>1, <2>2, AttemptPhases, AttemptStep DEF RowMoves
<1> QED
  BY <1>3, <1>4, <1>5 DEF Finalize

LEMMA CommitStep ==
  ASSUME Inv, NEW c \in Callers, Commit(c)
  PROVE  Preserves
<1>1. ~caller[c].cancelled /\ TypeOK
  BY AttemptFacts, AttemptPhases DEF Commit, At, Retained, Settling, Inv
<1>2. Steps(c, "signal", "committed", "TERMINAL_AUTHORITATIVE", caller[c].cancelled)
  BY <1>1, DecidesSteps, AttemptPhases DEF Commit, Final, Terminal
<1>3. /\ OnlyCaller(c) /\ SameCall(c)
      /\ caller'[c].pc = "signal" /\ ~caller'[c].cancelled
      /\ caller'[c].verdict = "committed" /\ caller'[c].fate = "TERMINAL_AUTHORITATIVE"
  BY <1>1, <1>2 DEF Steps
<1>4. /\ At(c, "commit") /\ Applies(c) /\ session_lock' = NoCaller
      /\ faults' \in 0..MaxFaults /\ cancels' \in 0..MaxCancels
      /\ UNCHANGED <<authority, ledger, generations, answers>>
  BY <1>1 DEF Commit, budget, TypeOK
<1> QED
  BY <1>3, <1>4, ApplyStep

LEMMA CommitBreaksStep ==
  ASSUME Inv, NEW c \in Callers, NEW why \in {"fault", "cancel"}, CommitBreaks(c, why)
  PROVE  Preserves
<1>1. /\ At(c, "commit") /\ session_lock' = NoCaller /\ Breaks(c, "classify", why)
      /\ UNCHANGED <<authority, ledger, generations, answers>> /\ TypeOK
      /\ caller[c].pc \in Attempting
  BY AttemptPhases DEF CommitBreaks, At, Inv
<1>2. CASE UNCHANGED <<story, jobs>>
  <2>1. session_lock = c
    BY <1>1, AttemptPhases DEF Inv, IInv, OwnerInv, At
  <2> QED
    BY <1>1, <1>2, <2>1, BrokenStep DEF RowMoves
<1>3. CASE AmbiguousCommits /\ Applies(c)
  <2>1. /\ Steps(c, "classify", "none", caller[c].fate, caller[c].cancelled \/ why = "cancel")
        /\ faults' \in 0..MaxFaults /\ cancels' \in 0..MaxCancels
    BY <1>1, BreaksSteps, AttemptPhases
  <2>2. /\ OnlyCaller(c) /\ SameCall(c) /\ caller'[c].pc = "classify"
        /\ caller'[c].verdict = "none"
    BY <2>1 DEF Steps
  <2> QED
    BY <1>1, <1>3, <2>1, <2>2, ApplyStep
<1> QED
  BY <1>2, <1>3 DEF CommitBreaks

LEMMA ClassifyStep ==
  ASSUME Inv, NEW c \in Callers, Classify(c) \/ ClassifyBreaks(c)
  PROVE  Preserves
<1>1. /\ caller[c].pc \in Attempting
      /\ TypeOK /\ UNCHANGED <<story, jobs, session_lock, authority, ledger, generations, answers>>
      /\ faults' \in 0..MaxFaults /\ cancels' \in 0..MaxCancels
  BY AttemptPhases, SpendsType DEF Classify, ClassifyBreaks, At, Inv, TypeOK, budget
<1>2. /\ Mine(c) \in Requests /\ (Stored(Mine(c)) <=> jobs[Mine(c)].status = "COMMITTED")
      /\ caller[c].fate \in Fate /\ caller[c].version \in Nat
  BY <1>1, AttemptFacts, LocalType
<1>3. CASE CompleteNew(c) /\ Decides(c, "TERMINAL_AUTHORITATIVE", "committed")
  <2>1. Stored(Mine(c))
    BY <1>2, <1>3 DEF CompleteNew, Stored
  <2>2. Steps(c, "signal", "committed", "TERMINAL_AUTHORITATIVE", caller[c].cancelled)
    BY <1>1, <1>3, AttemptPhases, DecidesSteps DEF Final, Terminal
  <2>3. Fits(c, "signal", "committed", "TERMINAL_AUTHORITATIVE", caller[c].cancelled)
    BY <1>1, <1>2, <2>1, AttemptPhases DEF Fits, Settled
  <2> QED
    BY <1>1, <2>2, <2>3, AttemptPhases, CalmStep DEF Final, Terminal
<1>4. CASE \E phase \in {"old", "unsure"} : MovesSaying(c, phase, "unknown")
  <2>1. PICK phase \in {"old", "unsure"} : MovesSaying(c, phase, "unknown")
    BY <1>4
  <2>2. phase \in Attempting \ {"claim", "calling"} /\ "unknown" \in Verdict
    BY AttemptPhases DEF Settling, Final
  <2>3. Steps(c, phase, "unknown", caller[c].fate, caller[c].cancelled)
    BY <1>1, <2>1, <2>2, AttemptPhases, MovesSayingSteps
  <2>4. Fits(c, phase, "unknown", caller[c].fate, caller[c].cancelled)
    BY AttemptPhases DEF Fits, Settling
  <2> QED
    BY <1>1, <1>2, <2>2, <2>3, <2>4, AttemptPhases, CalmStep
<1> QED
  BY <1>3, <1>4 DEF Classify, ClassifyBreaks

LEMMA RecordStep ==
  ASSUME Inv, NEW c \in Callers, Record(c)
  PROVE  Preserves
<1>1. /\ caller[c].pc \in Attempting /\ jobs[Mine(c)].status \in Active
      /\ TypeOK /\ UNCHANGED <<story, session_lock, authority, ledger, generations, answers>>
      /\ faults' \in 0..MaxFaults /\ cancels' \in 0..MaxCancels
  BY PhaseRow, AttemptPhases DEF Record, At, Inv, TypeOK, budget, Active
<1>2. /\ Mine(c) \in Requests /\ caller[c].verdict # "committed" /\ ~caller[c].cancelled
      /\ Refuses(caller[c].verdict) => ~Stored(Mine(c))
      /\ caller[c].fate \in Fate /\ caller[c].verdict \in Verdict
  BY <1>1, AttemptFacts, LocalType DEF Record, At, Retained, Settling
<1>3. Steps(c, "reread", caller[c].verdict, caller[c].fate, caller[c].cancelled)
  BY <1>1, AttemptPhases, MovesSteps DEF Record
<1>4. RowMoves(Mine(c))
  BY <1>1 DEF Record, RowMoves, VerdictStatus, Settled
<1>5. Fits(c, "reread", caller[c].verdict, caller[c].fate, caller[c].cancelled)
  BY <1>2 DEF Fits, Refuses
<1> QED
  BY <1>1, <1>3, <1>4, <1>5, AttemptPhases, AttemptStep

LEMMA RereadStep ==
  ASSUME Inv, NEW c \in Callers, Reread(c) \/ RereadBreaks(c)
  PROVE  Preserves
<1>1. /\ caller[c].pc \in Attempting
      /\ TypeOK /\ UNCHANGED <<story, jobs, session_lock, authority, ledger, generations, answers>>
      /\ faults' \in 0..MaxFaults /\ cancels' \in 0..MaxCancels
  BY AttemptPhases, SpendsType DEF Reread, RereadBreaks, At, Inv, TypeOK, budget
<1>2. /\ Mine(c) \in Requests /\ (Stored(Mine(c)) <=> jobs[Mine(c)].status = "COMMITTED")
      /\ caller[c].verdict # "committed" /\ (Refuses(caller[c].verdict) => ~Stored(Mine(c)))
      /\ caller[c].fate \in Fate /\ caller[c].verdict \in Verdict
  BY <1>1, AttemptFacts, LocalType
<1>3. CASE \E fate \in {"TERMINAL_AUTHORITATIVE", "TERMINAL_UNCERTAIN"} :
             /\ Decides(c, fate, caller[c].verdict)
             /\ fate = "TERMINAL_AUTHORITATIVE" => Stored(Mine(c))
  <2>1. PICK fate \in {"TERMINAL_AUTHORITATIVE", "TERMINAL_UNCERTAIN"} :
             /\ Decides(c, fate, caller[c].verdict)
             /\ fate = "TERMINAL_AUTHORITATIVE" => Stored(Mine(c))
    BY <1>3
  <2>2. fate \in Fate
    BY AttemptPhases DEF Terminal
  <2>3. Steps(c, "signal", caller[c].verdict, fate, caller[c].cancelled)
    BY <1>1, <1>2, <2>1, <2>2, DecidesSteps
  <2>4. Fits(c, "signal", caller[c].verdict, fate, caller[c].cancelled)
    BY <1>1, <1>2, <2>1, AttemptPhases DEF Fits, Settled, Refuses
  <2> QED
    BY <1>1, <1>2, <2>2, <2>3, <2>4, AttemptPhases, CalmStep
<1>4. CASE Moves(c, "stabilize")
  <2>1. "stabilize" \in Attempting
    BY AttemptPhases DEF Settling
  <2>2. Steps(c, "stabilize", caller[c].verdict, caller[c].fate, caller[c].cancelled)
    BY <1>1, <1>4, <2>1, AttemptPhases, MovesSteps
  <2>3. Fits(c, "stabilize", caller[c].verdict, caller[c].fate, caller[c].cancelled)
    BY <1>2, AttemptPhases DEF Fits, Refuses, Settling
  <2> QED
    BY <1>1, <1>2, <2>1, <2>2, <2>3, CalmStep
<1> QED
  BY <1>3, <1>4 DEF Reread, RereadBreaks

\* Every caller's record is a step of itself that changes nothing.
LEMMA StaysSteps ==
  ASSUME TypeOK, NEW c \in Callers, UNCHANGED caller
  PROVE  Steps(c, caller[c].pc, caller[c].verdict, caller[c].fate, caller[c].cancelled)
  BY DEF TypeOK, Steps, OnlyCaller, SameCall

LEMMA SettleClaimStep ==
  ASSUME Inv, NEW c \in Callers, SettleClaim(c)
  PROVE  Preserves
<1>1. /\ caller[c].pc \in Settling /\ caller[c].pc \in Attempting
      /\ TypeOK /\ UNCHANGED <<story, session_lock, authority, ledger, generations, answers>>
      /\ faults' \in 0..MaxFaults /\ cancels' \in 0..MaxCancels /\ UNCHANGED caller
  BY AttemptPhases DEF SettleClaim, Inv, TypeOK, budget
<1>2. /\ caller[c].verdict # "committed" /\ (Refuses(caller[c].verdict) => ~Stored(Mine(c)))
  BY <1>1, AttemptFacts
<1>3. RowMoves(Mine(c))
  BY DEF SettleClaim, RowMoves, Active, Leased
<1>4. Fits(c, caller[c].pc, caller[c].verdict, caller[c].fate, caller[c].cancelled)
  BY <1>1, <1>2, AttemptPhases DEF Fits, Refuses, Settling
<1>5. caller[c].pc \notin {"claim", "calling"}
  BY <1>1 DEF Settling
<1> QED
  BY <1>1, <1>3, <1>4, <1>5, StaysSteps, AttemptStep

\* Where settling leads, whether it succeeded or not.
LEMMA SettledStep ==
  ASSUME Inv, NEW c \in Callers, caller[c].pc \in Settling, RowMoves(Mine(c)),
         \/ AfterSettling(c) /\ jobs'[Mine(c)].status \in Settled
         \/ AfterFailing(c),
         faults' \in 0..MaxFaults, cancels' \in 0..MaxCancels,
         UNCHANGED <<story, session_lock, authority, ledger, generations, answers>>
  PROVE  Preserves
<1>1. caller[c].pc \in Attempting /\ TypeOK /\ "unknown" \in Verdict
  BY AttemptPhases DEF Inv, Final
<1>2. /\ caller[c].verdict # "committed" /\ (Refuses(caller[c].verdict) => ~Stored(Mine(c)))
      /\ caller[c].fate \in Fate /\ caller[c].verdict \in Verdict /\ caller[c].cancelled \in BOOLEAN
  BY <1>1, AttemptFacts, LocalType
<1>3. ASSUME NEW phase \in {"reread", "unsure"}, Moves(c, phase) PROVE Preserves
  <2>1. phase \in Attempting /\ phase \in Retained
    BY AttemptPhases DEF Settling
  <2>2. Steps(c, phase, caller[c].verdict, caller[c].fate, caller[c].cancelled)
    BY <1>1, <1>3, <2>1, AttemptPhases, MovesSteps
  <2>3. Fits(c, phase, caller[c].verdict, caller[c].fate, caller[c].cancelled)
    BY <1>2, <2>1 DEF Fits, Refuses
  <2> QED
    BY <1>1, <2>1, <2>2, <2>3, AttemptStep
<1>4. ASSUME NEW fate \in {"TERMINAL_AUTHORITATIVE", "TERMINAL_UNCERTAIN"},
             NEW said \in {"unknown", caller[c].verdict}, Decides(c, fate, said),
             fate = "TERMINAL_AUTHORITATIVE" => jobs'[Mine(c)].status \in Settled
      PROVE  Preserves
  <2>1. fate \in Fate /\ said \in Verdict
    BY <1>1, <1>2, AttemptPhases DEF Terminal
  <2>2. Steps(c, "signal", said, fate, caller[c].cancelled)
    BY <1>1, <1>4, <2>1, DecidesSteps
  <2>3. Fits(c, "signal", said, fate, caller[c].cancelled)
    BY <1>2, <1>4, AttemptPhases DEF Fits, Refuses
  <2> QED
    BY <1>1, <2>2, <2>3, AttemptPhases, AttemptStep
<1>5. ASSUME caller' = [caller EXCEPT ![c].pc = "reread", ![c].cancelled = FALSE,
                                      ![c].verdict = "unknown"]
      PROVE  Preserves
  <2> DEFINE me == [caller[c] EXCEPT !.pc = "reread", !.cancelled = FALSE, !.verdict = "unknown"]
  <2>1. caller[c] \in Local /\ caller' = [caller EXCEPT ![c] = me]
    BY <1>1, <1>5 DEF TypeOK
  <2>2. me = [caller[c] EXCEPT !.pc = "reread", !.verdict = "unknown",
                               !.fate = caller[c].fate, !.cancelled = FALSE]
    BY <2>1 DEF Local
  <2> HIDE DEF me
  <2>3. Steps(c, "reread", "unknown", caller[c].fate, FALSE)
    BY <1>1, <1>2, <2>1, <2>2, StepsOnce, AttemptPhases
  <2>4. Fits(c, "reread", "unknown", caller[c].fate, FALSE)
    BY DEF Fits
  <2> QED
    BY <1>1, <2>3, <2>4, AttemptPhases, AttemptStep
<1> QED
  BY <1>3, <1>4, <1>5 DEF AfterSettling, AfterFailing, At, Settling

LEMMA SettleStep ==
  ASSUME Inv, NEW c \in Callers, Settle(c)
  PROVE  Preserves
<1>1. /\ caller[c].pc \in Settling /\ caller[c].pc \in Attempting /\ TypeOK /\ AfterSettling(c)
      /\ UNCHANGED <<story, session_lock, authority, ledger, generations, answers>>
      /\ faults' \in 0..MaxFaults /\ cancels' \in 0..MaxCancels
  BY AttemptPhases DEF Settle, Inv, TypeOK, budget
<1>2. Mine(c) \in Requests /\ jobs[Mine(c)] \in Job /\ jobs[Mine(c)].status # "ABSENT"
  BY <1>1, AttemptFacts DEF OwnJob, TypeOK
<1>3. CASE jobs[Mine(c)].status \in Leased
  <2>1. Becomes(Mine(c), "OUTCOME_UNKNOWN")
    BY <1>3 DEF Settle
  <2>2. RowMoves(Mine(c)) /\ jobs'[Mine(c)].status \in Settled
    BY <1>1, <1>2, <1>3, <2>1, BecomesOnly DEF RowMoves, Active, Settled
  <2> QED
    BY <1>1, <2>2, SettledStep
<1>4. CASE jobs[Mine(c)].status \notin Leased
  <2>1. UNCHANGED jobs
    BY <1>4 DEF Settle
  <2>2. jobs'[Mine(c)].status \in Settled
    BY <1>2, <1>4, <2>1 DEF Settle, Job, Active
  <2> QED
    BY <1>1, <2>1, <2>2, SettledStep DEF RowMoves
<1> QED
  BY <1>3, <1>4

LEMMA SettleBreaksStep ==
  ASSUME Inv, NEW c \in Callers, SettleBreaks(c)
  PROVE  Preserves
<1>1. /\ caller[c].pc \in Settling /\ TypeOK /\ AfterFailing(c)
      /\ UNCHANGED <<story, session_lock, authority, ledger, generations, answers>>
      /\ faults' \in 0..MaxFaults /\ cancels' \in 0..MaxCancels
  BY SpendsType DEF SettleBreaks, Inv
<1>2. RowMoves(Mine(c))
  BY DEF SettleBreaks, RowMoves, Active, Leased, Settled
<1> QED
  BY <1>1, <1>2, SettledStep

-----------------------------------------------------------------------------
(* The steps of an owner whose job is not known to be published.           *)

LEMMA PublishingFacts ==
  ASSUME Inv, NEW c \in Callers, caller[c].pc \in Unpublished
  PROVE  /\ Mine(c) \in Requests /\ ledger[Mine(c)].lifecycle = "OWNER_RESERVED"
         /\ SameIdentity(c) /\ ~Stored(Mine(c)) /\ generations[Mine(c)] = 0
         /\ Mine(c) \in Suggested => caller[c].version = 0
         /\ caller[c].cancelled => ~At(c, "publish")
         /\ caller[c].verdict # "committed"
         /\ \/ jobs[Mine(c)].status = "ABSENT" /\ ~At(c, "marking")
            \/ jobs[Mine(c)].status = "PREPARED" /\ OwnJob(c) /\ ~At(c, "publish")
<1>1. caller[c].pc \in Owning /\ caller[c].pc \in {"publish", "probe", "marking"}
  BY DEF Unpublished, Owning, Retained
<1>2. OwnerInv(c) /\ LedgerTellsTheTruth
  BY DEF Inv, IInv
<1>3. /\ Mine(c) \in Requests /\ JobMatchesPhase(c) /\ LedgerMatchesPhase(c) /\ VerdictIsTrue(c)
      /\ Mine(c) \in Suggested => caller[c].version = 0
      /\ caller[c].cancelled => caller[c].pc \in Retained
      /\ generations[Mine(c)] = 0
  BY <1>1, <1>2 DEF OwnerInv, Unpublished
<1>4. ledger[Mine(c)].lifecycle = "OWNER_RESERVED" /\ SameIdentity(c)
  BY <1>1, <1>3 DEF LedgerMatchesPhase, Unpublished
<1>5. ~Stored(Mine(c))
  BY <1>2, <1>3, <1>4 DEF LedgerTellsTheTruth
<1>6. \/ jobs[Mine(c)].status = "ABSENT" /\ ~At(c, "marking")
      \/ jobs[Mine(c)].status = "PREPARED" /\ OwnJob(c) /\ ~At(c, "publish")
  BY <1>1, <1>3 DEF JobMatchesPhase, At
<1> QED
  BY <1>1, <1>3, <1>4, <1>5, <1>6 DEF VerdictIsTrue, At, Retained, Settling

\* What the phase after one of publishing requires of the row and of the entry.
Publishes(c, phase, said, fate, cancelled) ==
    LET status == jobs'[Mine(c)].status IN
    /\ phase = "marking" => status = "PREPARED"
    /\ phase \in {"claim", "reread", "abandon"} => status = "PREPARED" /\ Published(c)
    /\ phase \notin {"claim", "reread", "abandon"} => UNCHANGED ledger
    /\ phase = "signal" => fate \in {"TERMINAL_NO_JOB", "TERMINAL_UNCERTAIN"}
    /\ phase = "signal" /\ fate = "TERMINAL_NO_JOB" => status = "ABSENT"
    /\ said # "committed"
    /\ cancelled => phase # "claim"

LEMMA PublishingStep ==
  ASSUME Inv, NEW c \in Callers, caller[c].pc \in Unpublished,
         NEW phase \in {"marking", "probe", "signal", "claim", "reread", "abandon"},
         NEW said, NEW fate, NEW cancelled,
         Steps(c, phase, said, fate, cancelled), Publishes(c, phase, said, fate, cancelled),
         \/ UNCHANGED jobs
         \/ jobs[Mine(c)].status = "ABSENT" /\ jobs' = [jobs EXCEPT ![Mine(c)] = NewJob(c)],
         faults' \in 0..MaxFaults, cancels' \in 0..MaxCancels,
         UNCHANGED <<story, session_lock, authority, generations, answers>>
  PROVE  Preserves
<1> DEFINE r == Mine(c)
<1>1. /\ r \in Requests /\ ledger[r].lifecycle = "OWNER_RESERVED"
      /\ SameIdentity(c) /\ ~Stored(r) /\ generations[r] = 0
      /\ r \in Suggested => caller[c].version = 0
      /\ jobs[r].status = "ABSENT" \/ (jobs[r].status = "PREPARED" /\ OwnJob(c))
  BY PublishingFacts
<1>2. /\ OnlyCaller(c) /\ SameCall(c) /\ Mine(c)' = r
      /\ caller'[c].pc = phase /\ caller'[c].verdict = said /\ caller'[c].fate = fate
      /\ caller'[c].cancelled = cancelled
      /\ caller'[c].form = caller[c].form /\ caller'[c].version = caller[c].version
  BY DEF Steps, SameCall, Mine
<1>3. caller[c].pc \in Owning /\ phase \in Owning
  BY DEF Owning, Retained, Settling, Unpublished
<1>4. UNCHANGED <<version, events, responses, session_lock, authority, generations, answers>>
  BY DEF story
<1>5. NewJob(c) \in Job /\ NewJob(c).status = "PREPARED" /\ NewJob(c).form = caller[c].form
      /\ NewJob(c).prepared = caller[c].version /\ NewJob(c).legacy = FALSE
  BY LocalType DEF NewJob, NoJob, Job, Active, Inv
<1>6. /\ OnlyJob(r) /\ (jobs[r].status # "ABSENT" => UNCHANGED jobs)
      /\ jobs'[r].status \in {"ABSENT", "PREPARED"}
      /\ jobs'[r].status # "ABSENT" =>
            /\ ~jobs'[r].legacy /\ jobs'[r].form = caller[c].form
            /\ jobs'[r].prepared = caller[c].version
  <2>1. CASE UNCHANGED jobs
    BY <1>1, <2>1 DEF OnlyJob, OwnJob, Inv, TypeOK
  <2>2. CASE jobs[r].status = "ABSENT" /\ jobs' = [jobs EXCEPT ![r] = NewJob(c)]
    BY <1>1, <1>5, <2>2 DEF OnlyJob, Inv, TypeOK
  <2> QED
    BY <2>1, <2>2
<1>7. /\ OnlyEntry(r) /\ SameEntry(r)
      /\ ledger'[r].lifecycle = IF phase \in {"claim", "reread", "abandon"} THEN "JOB_PUBLISHED"
                                ELSE "OWNER_RESERVED"
  <2>1. CASE phase \notin {"claim", "reread", "abandon"}
    BY <1>1, <2>1 DEF Publishes, OnlyEntry, SameEntry, Inv, TypeOK
  <2>2. CASE phase \in {"claim", "reread", "abandon"}
    <3> DEFINE entry == [ledger[r] EXCEPT !.lifecycle = "JOB_PUBLISHED"]
    <3>1. ledger[r] \in Entry /\ ledger' = [ledger EXCEPT ![r] = entry]
      BY <1>1, <2>2 DEF Publishes, Published, Inv, TypeOK
    <3>2. /\ entry \in Entry /\ entry.lifecycle = "JOB_PUBLISHED" /\ entry.form = ledger[r].form
          /\ entry.version = ledger[r].version /\ entry.owner = ledger[r].owner
      BY <3>1 DEF Entry, Lifecycle
    <3> HIDE DEF entry
    <3> QED
      BY <1>1, <2>2, <3>1, <3>2 DEF OnlyEntry, SameEntry, Inv, TypeOK
  <2> QED
    BY <2>1, <2>2
<1>8. OwnerFrame(c)
  <2>1. jobs[r].status # "ABSENT" => SameJob(r)
    BY <1>6 DEF SameJob
  <2>2. /\ jobs'[r].status = "COMMITTED" <=> jobs[r].status = "COMMITTED"
        /\ jobs[r].status \in Settled => jobs'[r].status \in Settled
    BY <1>1, <1>6 DEF Settled
  <2>3. ledger'[r].lifecycle \in {ledger[r].lifecycle, "JOB_PUBLISHED"}
    BY <1>1, <1>7
  <2> QED
    BY <1>2, <1>3, <1>4, <1>6, <1>7, <2>1, <2>2, <2>3 DEF OwnerFrame, Inv, TypeOK
<1>9. /\ jobs'[r].status # "ABSENT" => OwnJob(c)'
      /\ SameIdentity(c)' /\ ~Stored(Mine(c))' /\ jobs'[Mine(c)'] = jobs'[r]
  <2>1. jobs'[r].status # "ABSENT" => OwnJob(c)'
    BY <1>2, <1>6 DEF OwnJob
  <2>2. SameIdentity(c)'
    BY <1>1, <1>2, <1>7 DEF SameIdentity, SameEntry
  <2>3. ~Stored(Mine(c))'
    BY <1>1, <1>2, <1>4 DEF Stored
  <2> QED
    BY <1>2, <2>1, <2>2, <2>3
<1>10. JobMatchesPhase(c)'
  BY <1>2, <1>6, <1>7, <1>9 DEF JobMatchesPhase, Publishes, At
<1>11. LedgerMatchesPhase(c)'
  BY <1>2, <1>7, <1>9 DEF LedgerMatchesPhase, Unpublished
<1>12. VerdictIsTrue(c)'
  BY <1>2, <1>9 DEF VerdictIsTrue, Publishes
<1>13. OwnerInv(c)'
  BY <1>1, <1>2, <1>4, <1>10, <1>11, <1>12 DEF OwnerInv, Publishes, At, Retained, Settling
<1>14. At(c, "signal")' => Allowed(ledger[Mine(c)].lifecycle, caller[c].fate)'
  BY <1>2, <1>7 DEF Publishes, At, Allowed
<1> QED
  BY <1>3, <1>8, <1>13, <1>14, OwnerStep

LEMMA PublishStep ==
  ASSUME Inv, NEW c \in Callers, Publish(c)
  PROVE  Preserves
<1>1. /\ TypeOK /\ caller[c].pc \in Unpublished /\ At(c, "publish") /\ "marking" \in Pc
      /\ jobs[Mine(c)].status = "ABSENT" /\ jobs' = [jobs EXCEPT ![Mine(c)] = NewJob(c)]
      /\ UNCHANGED <<story, session_lock, authority, ledger, generations, answers>>
      /\ faults' \in 0..MaxFaults /\ cancels' \in 0..MaxCancels
  BY DEF Publish, At, Unpublished, Unknown, Inv, TypeOK, budget, Pc, Owning, Retained
<1>2. Mine(c) \in Requests /\ caller[c].verdict # "committed"
  BY <1>1, PublishingFacts
<1>3. Steps(c, "marking", caller[c].verdict, caller[c].fate, caller[c].cancelled)
  BY <1>1, MovesSteps DEF Publish
<1>4. jobs'[Mine(c)].status = "PREPARED"
  BY <1>1, <1>2 DEF TypeOK, NewJob, NoJob
<1>5. Publishes(c, "marking", caller[c].verdict, caller[c].fate, caller[c].cancelled)
  BY <1>1, <1>2, <1>4 DEF Publishes
<1> QED
  BY <1>1, <1>3, <1>5, PublishingStep

LEMMA PublishRefusedStep ==
  ASSUME Inv, NEW c \in Callers, PublishRefused(c)
  PROVE  Preserves
<1>1. /\ TypeOK /\ caller[c].pc \in Unpublished /\ At(c, "publish")
      /\ UNCHANGED <<story, jobs, session_lock, authority, ledger, generations, answers>>
      /\ faults' \in 0..MaxFaults /\ cancels' \in 0..MaxCancels
  BY DEF PublishRefused, At, Unpublished, Inv, TypeOK, budget
<1>2. jobs'[Mine(c)].status = "ABSENT"
  BY <1>1, PublishingFacts
<1>3. Steps(c, "signal", "rejected", "TERMINAL_NO_JOB", caller[c].cancelled)
  BY <1>1, DecidesSteps DEF PublishRefused, Verdict, Final, Fate, Terminal
<1>4. Publishes(c, "signal", "rejected", "TERMINAL_NO_JOB", caller[c].cancelled)
  BY <1>1, <1>2 DEF Publishes
<1> QED
  BY <1>1, <1>3, <1>4, PublishingStep

LEMMA PublishCancelledStep ==
  ASSUME Inv, NEW c \in Callers, PublishCancelled(c)
  PROVE  Preserves
<1>1. /\ TypeOK /\ caller[c].pc \in Unpublished /\ At(c, "publish")
      /\ UNCHANGED <<story, jobs, session_lock, authority, ledger, generations, answers>>
      /\ faults' \in 0..MaxFaults /\ cancels' \in 0..MaxCancels
  BY SpendsType DEF PublishCancelled, At, Unpublished, Inv
<1>2. jobs'[Mine(c)].status = "ABSENT" /\ caller[c].verdict # "committed"
  BY <1>1, PublishingFacts
<1>3. Steps(c, "signal", caller[c].verdict, "TERMINAL_NO_JOB", TRUE)
  <2> DEFINE me == [caller[c] EXCEPT !.pc = "signal", !.cancelled = TRUE, !.fate = "TERMINAL_NO_JOB"]
  <2>1. caller[c] \in Local /\ caller' = [caller EXCEPT ![c] = me]
    BY <1>1 DEF TypeOK, PublishCancelled
  <2>2. me = [caller[c] EXCEPT !.pc = "signal", !.verdict = caller[c].verdict,
                               !.fate = "TERMINAL_NO_JOB", !.cancelled = TRUE]
    BY <2>1 DEF Local
  <2> HIDE DEF me
  <2>3. "signal" \in Pc /\ "TERMINAL_NO_JOB" \in Fate /\ caller[c].verdict \in Verdict
    BY <1>1, LocalType DEF Pc, Owning, Retained, Fate, Terminal
  <2> QED
    BY <1>1, <2>1, <2>2, <2>3, StepsOnce
<1>4. Publishes(c, "signal", caller[c].verdict, "TERMINAL_NO_JOB", TRUE)
  BY <1>1, <1>2 DEF Publishes
<1> QED
  BY <1>1, <1>3, <1>4, PublishingStep

LEMMA PublishBreaksStep ==
  ASSUME Inv, NEW c \in Callers, NEW why \in {"fault", "cancel"}, PublishBreaks(c, why)
  PROVE  Preserves
<1>1. /\ TypeOK /\ caller[c].pc \in Unpublished /\ At(c, "publish") /\ "probe" \in Pc
      /\ jobs[Mine(c)].status = "ABSENT"
      /\ UNCHANGED jobs \/ jobs' = [jobs EXCEPT ![Mine(c)] = NewJob(c)]
      /\ UNCHANGED <<story, session_lock, authority, ledger, generations, answers>>
  BY DEF PublishBreaks, At, Unpublished, Unknown, Inv, TypeOK, Pc, Owning, Retained
<1>2. /\ Steps(c, "probe", "none", caller[c].fate, caller[c].cancelled \/ why = "cancel")
      /\ faults' \in 0..MaxFaults /\ cancels' \in 0..MaxCancels
  BY <1>1, BreaksSteps DEF PublishBreaks
<1>3. Publishes(c, "probe", "none", caller[c].fate, caller[c].cancelled \/ why = "cancel")
  BY <1>1 DEF Publishes
<1> QED
  BY <1>1, <1>2, <1>3, PublishingStep

LEMMA MarkStep ==
  ASSUME Inv, NEW c \in Callers, Mark(c)
  PROVE  Preserves
<1> DEFINE phase == IF caller[c].cancelled THEN "reread" ELSE "claim"
<1>1. /\ TypeOK /\ caller[c].pc \in Unpublished /\ At(c, "marking") /\ phase \in Pc
      /\ UNCHANGED <<story, jobs, session_lock, authority, generations, answers>>
      /\ faults' \in 0..MaxFaults /\ cancels' \in 0..MaxCancels /\ Published(c)
      /\ phase \in {"reread", "claim"} /\ (caller[c].cancelled => phase # "claim")
  BY DEF Mark, At, Unpublished, Inv, TypeOK, budget, Pc, Owning, Retained
<1>2. jobs'[Mine(c)].status = "PREPARED" /\ caller[c].verdict # "committed"
  BY <1>1, PublishingFacts
<1>3. Moves(c, phase)
  BY DEF Mark
<1> HIDE DEF phase
<1>4. Steps(c, phase, caller[c].verdict, caller[c].fate, caller[c].cancelled)
  BY <1>1, <1>3, MovesSteps
<1>5. Publishes(c, phase, caller[c].verdict, caller[c].fate, caller[c].cancelled)
  BY <1>1, <1>2 DEF Publishes
<1> QED
  BY <1>1, <1>4, <1>5, PublishingStep

LEMMA ProbeStep ==
  ASSUME Inv, NEW c \in Callers, Probe(c)
  PROVE  Preserves
<1>1. /\ TypeOK /\ caller[c].pc \in Unpublished /\ At(c, "probe")
      /\ UNCHANGED <<story, jobs, session_lock, authority, generations, answers>>
      /\ faults' \in 0..MaxFaults /\ cancels' \in 0..MaxCancels
  BY DEF Probe, At, Unpublished, Inv, TypeOK, budget
<1>2. jobs[Mine(c)].status \in {"ABSENT", "PREPARED"}
  BY <1>1, PublishingFacts
<1>3. CASE jobs[Mine(c)].status = "ABSENT"
  <2>1. Steps(c, "signal", "rejected", "TERMINAL_NO_JOB", caller[c].cancelled)
    BY <1>1, <1>3, DecidesSteps DEF Probe, Verdict, Final, Fate, Terminal
  <2>2. Publishes(c, "signal", "rejected", "TERMINAL_NO_JOB", caller[c].cancelled)
    BY <1>1, <1>3 DEF Probe, Publishes
  <2> QED
    BY <1>1, <2>1, <2>2, PublishingStep
<1>4. CASE jobs[Mine(c)].status # "ABSENT"
  <2> DEFINE phase == IF caller[c].cancelled THEN "reread" ELSE "abandon"
  <2>1. Published(c) /\ MovesSaying(c, phase, "unknown")
    BY <1>4 DEF Probe
  <2>2. phase \in {"reread", "abandon"} /\ phase \in Pc /\ "unknown" \in Verdict
    BY DEF Pc, Owning, Retained, Settling, Verdict, Final
  <2> HIDE DEF phase
  <2>3. Steps(c, phase, "unknown", caller[c].fate, caller[c].cancelled)
    BY <1>1, <2>1, <2>2, MovesSayingSteps
  <2>4. Publishes(c, phase, "unknown", caller[c].fate, caller[c].cancelled)
    BY <1>1, <1>2, <1>4, <2>1, <2>2 DEF Publishes
  <2> QED
    BY <1>1, <2>2, <2>3, <2>4, PublishingStep
<1> QED
  BY <1>3, <1>4

LEMMA ProbeBreaksStep ==
  ASSUME Inv, NEW c \in Callers, ProbeBreaks(c)
  PROVE  Preserves
<1>1. /\ TypeOK /\ caller[c].pc \in Unpublished
      /\ UNCHANGED <<story, jobs, session_lock, authority, ledger, generations, answers>>
      /\ faults' \in 0..MaxFaults /\ cancels' \in 0..MaxCancels
  BY SpendsType DEF ProbeBreaks, At, Unpublished, Inv
<1>2. Steps(c, "signal", "unknown", "TERMINAL_UNCERTAIN", caller[c].cancelled)
  BY <1>1, DecidesSteps DEF ProbeBreaks, Verdict, Final, Fate, Terminal
<1>3. Publishes(c, "signal", "unknown", "TERMINAL_UNCERTAIN", caller[c].cancelled)
  BY <1>1 DEF Publishes
<1> QED
  BY <1>1, <1>2, <1>3, PublishingStep

-----------------------------------------------------------------------------
(* The provider is entered; a cancellation is remembered.                  *)

LEMMA GeneratesStep ==
  ASSUME Inv, NEW c \in Callers, NEW again \in BOOLEAN, Generates(c, again),
         \/ At(c, "entry") /\ again = FALSE
         \/ At(c, "calling") /\ ~caller[c].again /\ again = TRUE
  PROVE  Preserves
<1> DEFINE r == Mine(c)
<1>1. /\ TypeOK /\ caller[c].pc \in Attempting /\ caller[c].pc \in Owning
      /\ caller[c].pc \notin Retained /\ ~At(c, "signal")
      /\ UNCHANGED <<version, events, responses, jobs, session_lock, authority, ledger, answers>>
      /\ faults' \in 0..MaxFaults /\ cancels' \in 0..MaxCancels
  BY AttemptPhases DEF Generates, story, At, Inv, TypeOK, budget, Retained, Settling
<1>2. /\ r \in Requests /\ OwnJob(c) /\ SameIdentity(c) /\ ~caller[c].cancelled
      /\ ledger[r].lifecycle = "JOB_PUBLISHED" /\ jobs[r].status = "IN_PROGRESS"
      /\ r \in Suggested => caller[c].version = 0
  BY <1>1, AttemptFacts, PhaseRow DEF At
<1>3. VerdictIsTrue(c)
  BY <1>1 DEF Inv, IInv, OwnerInv
<1>4. generations[r] = IF again THEN 1 ELSE 0
  BY <1>1 DEF Inv, IInv, OwnerInv, At
<1>5. /\ generations' \in [Requests -> 0..2] /\ (~again => generations'[r] = 1)
      /\ \A x \in Requests : x # r => generations'[x] = generations[x]
  <2>1. generations' = [generations EXCEPT ![r] = generations[r] + 1]
    BY <1>1, <1>2 DEF Generates, TypeOK
  <2> HIDE DEF r
  <2>2. generations[r] + 1 \in 0..2
    BY <1>4
  <2> QED
    BY <1>1, <1>2, <1>4, <2>1, <2>2 DEF TypeOK
<1>6. /\ OnlyCaller(c) /\ SameCall(c) /\ Mine(c)' = r
      /\ caller'[c].pc = "calling" /\ caller'[c].verdict = caller[c].verdict
      /\ caller'[c].fate = caller[c].fate /\ caller'[c].cancelled = caller[c].cancelled
      /\ caller'[c].form = caller[c].form /\ caller'[c].version = caller[c].version
      /\ caller'[c].again = again
  <2> DEFINE me == [caller[c] EXCEPT !.pc = "calling", !.again = again]
  <2>1. caller[c] \in Local /\ caller' = [caller EXCEPT ![c] = me]
    BY <1>1 DEF TypeOK, Generates
  <2>2. me \in Local
    BY <2>1 DEF Local, Owning
  <2>3. /\ me.pc = "calling" /\ me.again = again /\ me.verdict = caller[c].verdict
        /\ me.fate = caller[c].fate /\ me.cancelled = caller[c].cancelled
        /\ me.form = caller[c].form /\ me.version = caller[c].version
        /\ me.request = caller[c].request
    BY <2>1 DEF Local
  <2> HIDE DEF me
  <2> QED
    BY <1>1, <2>1, <2>2, <2>3, Rewrites DEF SameCall, Mine
<1>7. OwnerFrame(c)
  BY <1>1, <1>5, <1>6 DEF OwnerFrame, OnlyJob, SameJob, OnlyEntry, SameEntry, TypeOK, Owning
<1>8. JobMatchesPhase(c)' /\ LedgerMatchesPhase(c)'
  <2>1. OwnJob(c)' /\ SameIdentity(c)' /\ jobs'[Mine(c)'].status = "IN_PROGRESS"
    BY <1>1, <1>2, <1>6 DEF OwnJob, SameIdentity
  <2> QED
    BY <1>1, <1>2, <1>6, <2>1 DEF JobMatchesPhase, LedgerMatchesPhase, At, Unpublished
<1>9. VerdictIsTrue(c)'
  BY <1>1, <1>3, <1>6 DEF VerdictIsTrue, At, Stored, Refuses
<1>10. OwnerInv(c)'
  BY <1>1, <1>2, <1>5, <1>6, <1>8, <1>9 DEF OwnerInv, At, Unpublished
<1>11. ~At(c, "signal")'
  BY <1>6 DEF At
<1> QED
  BY <1>1, <1>7, <1>10, <1>11, OwnerStep

LEMMA RememberStep ==
  ASSUME Inv, NEW c \in Callers, Remember(c)
  PROVE  Preserves
<1> DEFINE phase == IF At(c, "abandon") THEN "reread" ELSE caller[c].pc
           me == [caller[c] EXCEPT !.cancelled = TRUE, !.pc = phase]
<1>1. /\ TypeOK /\ caller[c].pc \in Retained /\ caller[c].pc \in Owning
      /\ UNCHANGED <<story, jobs, session_lock, authority, ledger, generations, answers>>
      /\ faults' \in 0..MaxFaults /\ cancels' \in 0..MaxCancels
  BY SpendsType DEF Remember, Inv, Owning
<1>2. /\ caller[c] \in Local /\ caller' = [caller EXCEPT ![c] = me]
      /\ caller[c].verdict \in Verdict /\ caller[c].fate \in Fate
  BY <1>1, LocalType DEF TypeOK, Remember, At
<1>3. me = [caller[c] EXCEPT !.pc = phase, !.verdict = caller[c].verdict,
                             !.fate = caller[c].fate, !.cancelled = TRUE]
  BY <1>2 DEF Local
<1>4. phase \in Pc /\ phase \in Retained
  BY <1>1 DEF Pc, Owning, Retained
<1> HIDE DEF me
<1>5. Steps(c, phase, caller[c].verdict, caller[c].fate, TRUE)
  <2> HIDE DEF phase
  <2> QED
    BY <1>1, <1>2, <1>3, <1>4, StepsOnce
<1>6. CASE caller[c].pc \in Attempting
  <2>1. /\ caller[c].verdict # "committed" /\ (Refuses(caller[c].verdict) => ~Stored(Mine(c)))
        /\ phase \in Attempting \ {"claim", "calling"}
        /\ phase \notin {"entry", "store", "finalize", "commit", "record", "signal"}
    BY <1>1, <1>4, <1>6, AttemptFacts, AttemptPhases DEF Retained, Settling
  <2> HIDE DEF phase
  <2>2. Fits(c, phase, caller[c].verdict, caller[c].fate, TRUE)
    BY <1>4, <2>1 DEF Fits, Refuses
  <2> QED
    BY <1>1, <1>5, <1>6, <2>1, <2>2, AttemptStep DEF RowMoves
<1>7. CASE caller[c].pc \in {"marking", "probe"}
  <2>1. /\ caller[c].pc \in Unpublished /\ phase = caller[c].pc
        /\ caller[c].verdict # "committed"
        /\ At(c, "marking") => jobs'[Mine(c)].status = "PREPARED"
    BY <1>1, <1>7, PublishingFacts DEF Unpublished, At
  <2> HIDE DEF phase
  <2>2. Publishes(c, phase, caller[c].verdict, caller[c].fate, TRUE)
    BY <1>1, <1>7, <2>1 DEF Publishes, At
  <2> QED
    BY <1>1, <1>5, <1>7, <2>1, <2>2, PublishingStep
<1>8. CASE At(c, "signal")
  <2>1. /\ OnlyCaller(c) /\ SameCall(c) /\ Mine(c)' = Mine(c)
        /\ caller'[c].pc = "signal" /\ caller'[c].verdict = caller[c].verdict
        /\ caller'[c].fate = caller[c].fate
        /\ caller'[c].form = caller[c].form /\ caller'[c].version = caller[c].version
    BY <1>5, <1>8 DEF Steps, SameCall, Mine, At
  <2>2. UNCHANGED <<version, events, responses, jobs, session_lock, authority, ledger,
                    generations, answers>>
    BY <1>1 DEF story
  <2>3. OwnerInv(c) /\ (At(c, "signal") => Allowed(ledger[Mine(c)].lifecycle, caller[c].fate))
    BY <1>1 DEF Inv, IInv, NoOrphanedAttempt
  <2>4. OwnerFrame(c)
    BY <1>1, <2>1, <2>2 DEF OwnerFrame, OnlyJob, SameJob, OnlyEntry, SameEntry, TypeOK, Owning,
       Retained
  <2>5. JobMatchesPhase(c)' /\ LedgerMatchesPhase(c)' /\ VerdictIsTrue(c)'
    BY <1>1, <1>8, <2>1, <2>2, <2>3 DEF OwnerInv, JobMatchesPhase, LedgerMatchesPhase,
       VerdictIsTrue, SameIdentity, OwnJob, Stored, At
  <2>6. OwnerInv(c)'
    BY <1>1, <1>8, <2>1, <2>2, <2>3, <2>5 DEF OwnerInv, At, Retained, Unpublished
  <2>7. At(c, "signal")' => Allowed(ledger[Mine(c)].lifecycle, caller[c].fate)'
    BY <1>8, <2>1, <2>2, <2>3
  <2> QED
    BY <1>1, <2>4, <2>6, <2>7, OwnerStep
<1> QED
  BY <1>1, <1>6, <1>7, <1>8 DEF Attempting, Retained, Settling, Unpublished, At

-----------------------------------------------------------------------------
(* The steps of callers that own nothing.                                  *)

LEMMA TellsTrue ==
  ASSUME TypeOK, NEW c \in Callers, NEW r \in Requests, r = Mine(c),
         NEW said \in Verdict, Tells(c, said), UNCHANGED responses,
         Refuses(said) => Closed(r)',
         said = "committed" => Stored(r) /\ caller[c].form = responses[r].form
  PROVE  /\ answers \subseteq answers' /\ answers' \subseteq Answer
         /\ TrueAnswers
<1>1. /\ answers' \subseteq Answer /\ answers \subseteq answers'
      /\ \A a \in answers' \ answers :
           /\ a.request = r /\ a.form = caller[c].form /\ a.said = said
           /\ said = "committed" => a.version = responses[r].version
  BY TellsType
<1>2. TrueAnswers
  BY <1>1 DEF TrueAnswers, Stored
<1> QED
  BY <1>1, <1>2

\* A caller that owns nothing returns, with a true answer or none.
LEMMA VisitorEnds ==
  ASSUME Inv, NEW c \in Callers, caller[c].pc \notin Owning, Ends(c),
         OutdatedJobsOnly, TrueAnswers,
         answers \subseteq answers', answers' \subseteq Answer,
         faults' \in 0..MaxFaults, cancels' \in 0..MaxCancels,
         UNCHANGED <<story, session_lock, authority, ledger, generations>>
  PROVE  Preserves
<1>1. OnlyCaller(c) /\ caller'[c].pc = "idle"
  BY EndsIdle DEF Inv, Idle
<1>2. caller'[c].pc \notin Owning
  BY <1>1 DEF Owning, Retained, Settling
<1>3. VisitorFrame(c)
  BY <1>1, <1>2 DEF VisitorFrame
<1>4. VisitorInv(c)'
  BY <1>1 DEF VisitorInv, At, Visiting
<1> QED
  BY <1>3, <1>4, VisitorStep

LEMMA VisitorLeaves ==
  ASSUME Inv, NEW c \in Callers, caller[c].pc \notin Owning, Ends(c),
         faults' \in 0..MaxFaults, cancels' \in 0..MaxCancels,
         UNCHANGED <<story, jobs, session_lock, authority, ledger, generations, answers>>
  PROVE  Preserves
<1>1. OutdatedJobsOnly /\ TrueAnswers /\ answers \subseteq answers' /\ answers' \subseteq Answer
  BY DEF OutdatedJobsOnly, TrueAnswers, Inv, TypeOK
<1> QED
  BY <1>1, VisitorEnds

\* A caller that owns nothing moves on, and nothing else changes.
LEMMA VisitorMoves ==
  ASSUME Inv, NEW c \in Callers, caller[c].pc \notin Owning,
         OnlyCaller(c), caller'[c].pc \notin Owning, VisitorInv(c)',
         UNCHANGED <<story, jobs, session_lock, authority, ledger, generations, answers, budget>>
  PROVE  Preserves
<1>1. OutdatedJobsOnly /\ TrueAnswers /\ answers' \subseteq Answer
  BY DEF OutdatedJobsOnly, TrueAnswers, Inv, TypeOK
<1>2. VisitorFrame(c)
  BY <1>1 DEF VisitorFrame, Inv, TypeOK, budget
<1> QED
  BY <1>1, <1>2, VisitorStep

\* What the rows of a request say of it is true, and a refusal is final.
LEMMA RecordedIsTrue ==
  ASSUME Inv, NEW r \in Requests
  PROVE  /\ Recorded(r) \in Verdict
         /\ Recorded(r) = "committed" <=> Stored(r)
         /\ Refuses(Recorded(r)) /\ jobs[r].status # "ABSENT" => Closed(r)
<1>1. /\ jobs[r].status \in Active \cup Settled \cup {"ABSENT"}
      /\ Stored(r) <=> jobs[r].status = "COMMITTED"
  BY DEF Inv, IInv, TypeOK, Job, TurnsAreWhole
<1>2. Recorded(r) \in Verdict /\ (Recorded(r) = "committed" <=> Stored(r))
  BY <1>1 DEF Recorded, Verdict, Final, Active, Leased, Settled
<1>3. Refuses(Recorded(r)) /\ jobs[r].status # "ABSENT" => jobs[r].status \in Settled /\ ~Stored(r)
  BY <1>1 DEF Recorded, Refuses, Active, Leased, Settled
<1> QED
  BY <1>2, <1>3 DEF Closed

\* An entry that ended without an authoritative turn is a refusal that is final.
LEMMA EntryIsTrue ==
  ASSUME Inv, NEW r \in Requests
  PROVE  /\ ledger[r].lifecycle = "TERMINAL_NO_JOB" => Closed(r)
         /\ ledger[r].lifecycle = "TERMINAL_UNCERTAIN" /\ Refuses("unknown") => Closed(r)
         /\ ledger[r].lifecycle = "TERMINAL_AUTHORITATIVE" => jobs[r].status \in Settled
         /\ ledger[r].lifecycle = "TERMINAL_AUTHORITATIVE" /\ Stored(r) =>
               responses[r].form = ledger[r].form
<1>1. LedgerTellsTheTruth /\ LedgerInv(r) /\ TurnsAreWhole
  BY DEF Inv, IInv
<1> QED
  BY <1>1 DEF LedgerTellsTheTruth, LedgerInv, TurnsAreWhole, Closed, Refuses, Terminal

LEMMA VisitingPhases ==
  /\ "idle" \notin Owning /\ \A pc \in Visiting : pc \notin Owning /\ pc \in Pc
  /\ "none" \in Verdict /\ Final \subseteq Verdict
  BY DEF Owning, Retained, Settling, Visiting, Pc, Verdict

LEMMA ArriveStep ==
  ASSUME Inv, NEW c \in Callers, NEW r \in Requests, NEW f \in Forms, Arrive(c, r, f)
  PROVE  Preserves
<1> DEFINE me == [Idle EXCEPT !.pc = IF Reserved(r) THEN "follow" ELSE "resolve",
                              !.request = r, !.form = f]
<1>1. me \in Local
  BY IdleType DEF Idle, Local, Visiting
<1>2. /\ me.pc = IF Reserved(r) THEN "follow" ELSE "resolve"
      /\ me.request = r /\ me.form = f /\ me.verdict = "none" /\ me.fate = "none"
      /\ me.cancelled = FALSE
  BY DEF Idle
<1>3. /\ caller' = [caller EXCEPT ![c] = me] /\ caller[c].pc = "idle" /\ TypeOK
      /\ Reserved(r) => ledger[r].form = f
      /\ UNCHANGED <<story, jobs, session_lock, authority, ledger, generations, answers, budget>>
  BY DEF Arrive, At, Inv
<1> HIDE DEF me
<1>4. OnlyCaller(c) /\ caller'[c] = me
  BY <1>1, <1>3, Rewrites
<1>5. VisitorInv(c)'
  BY <1>2, <1>3, <1>4 DEF VisitorInv, At, Mine, Reserved
<1>6. caller[c].pc \notin Owning /\ caller'[c].pc \notin Owning
  BY <1>2, <1>3, <1>4, VisitingPhases DEF Visiting
<1> QED
  BY <1>3, <1>4, <1>5, <1>6, VisitorMoves

LEMMA ResolveKnownStep ==
  ASSUME Inv, NEW c \in Callers, ResolveKnown(c)
  PROVE  Preserves
<1> DEFINE r == Mine(c)
<1>1. /\ TypeOK /\ TurnsAreWhole /\ caller[c].pc \in Visiting /\ r \in Requests
      /\ caller[c].pc \notin Owning
      /\ UNCHANGED <<story, session_lock, authority, ledger, generations>>
      /\ faults' \in 0..MaxFaults /\ cancels' \in 0..MaxCancels
      /\ Ends(c) /\ ~Unknown(r) /\ SameAsKnown(c)
  BY VisitingPhases DEF ResolveKnown, At, Inv, IInv, TypeOK, budget, VisitorInv, Visiting
<1>2. UNCHANGED responses /\ version' = version
  BY <1>1 DEF story
<1>3. CASE Outdated(r)
  <2>1. Tells(c, "stale") /\ Becomes(r, "STALE")
    BY <1>3 DEF ResolveKnown
  <2>2. OnlyJob(r) /\ SameJob(r) /\ jobs'[r].status = "STALE"
    BY <1>1, <2>1, BecomesOnly DEF Settled
  <2>3. OutdatedJobsOnly
    <3> SUFFICES ASSUME NEW x \in Requests, jobs'[x] # jobs[x]
                 PROVE  Outdated(x) /\ SameJob(x) /\ jobs'[x].status = "STALE"
      BY <2>2 DEF OutdatedJobsOnly, OnlyJob
    <3>1. x = r
      BY <2>2 DEF OnlyJob
    <3> QED
      BY <1>3, <2>2, <3>1
  <2>4. PICK x \in Requests : x = Mine(c)
    BY <1>1
  <2>5. ~Stored(x) /\ jobs'[x].status = "STALE"
    BY <1>3, <2>2, <2>4 DEF Outdated
  <2>6. Closed(x)'
    BY <1>2, <2>5 DEF Closed, Stored, Settled
  <2>7. "stale" \in Verdict
    BY VisitingPhases DEF Final
  <2>8. answers \subseteq answers' /\ answers' \subseteq Answer /\ TrueAnswers
    BY <1>1, <1>2, <2>1, <2>4, <2>6, <2>7, TellsTrue
  <2> QED
    BY <1>1, <2>3, <2>8, VisitorEnds
<1>4. CASE ~Outdated(r)
  <2>1. Tells(c, Recorded(r)) /\ UNCHANGED jobs
    BY <1>4 DEF ResolveKnown
  <2>2. PICK x \in Requests : x = Mine(c)
    BY <1>1
  <2>3. /\ Recorded(x) \in Verdict
        /\ Recorded(x) = "committed" => Stored(x) /\ caller[c].form = responses[x].form
        /\ Refuses(Recorded(x)) => Closed(x)
    BY <1>1, <2>2, RecordedIsTrue DEF Unknown, SameAsKnown, Recorded
  <2>4. Refuses(Recorded(x)) => Closed(x)'
    BY <1>1, <1>2, <2>1, <2>3 DEF Closed, Stored
  <2>5. answers \subseteq answers' /\ answers' \subseteq Answer /\ TrueAnswers
    BY <1>1, <1>2, <2>1, <2>2, <2>3, <2>4, TellsTrue
  <2>6. OutdatedJobsOnly
    BY <1>1, <2>1 DEF OutdatedJobsOnly, TypeOK
  <2> QED
    BY <1>1, <2>5, <2>6, VisitorEnds
<1> QED
  BY <1>3, <1>4

LEMMA ResolveRefusedStep ==
  ASSUME Inv, NEW c \in Callers, ResolveRefused(c)
  PROVE  Preserves
<1>1. /\ TypeOK /\ caller[c].pc \in Visiting /\ Mine(c) \in Requests
      /\ caller[c].pc \notin Owning /\ Ends(c)
      /\ UNCHANGED <<story, jobs, session_lock, authority, ledger, generations>>
      /\ faults' \in 0..MaxFaults /\ cancels' \in 0..MaxCancels
  BY VisitingPhases DEF ResolveRefused, At, Inv, IInv, TypeOK, budget, VisitorInv, Visiting
<1>2. CASE UNCHANGED answers
  BY <1>1, <1>2, VisitorLeaves
<1>3. CASE /\ Unknown(Mine(c)) /\ ~Offered(c) /\ version # 0 /\ Tells(c, "stale")
  <2>1. PICK x \in Requests : x = Mine(c)
    BY <1>1
  <2>2. Closed(x)' /\ UNCHANGED responses
    <3>1. UNCHANGED <<version, responses>>
      BY <1>1 DEF story
    <3>2. x \in Suggested /\ version > 0 /\ ~Stored(x)
      BY <1>1, <1>3, <2>1 DEF Offered, Unknown, TypeOK
    <3> QED
      BY <3>1, <3>2 DEF Closed, Stored
  <2>3. "stale" \in Verdict
    BY VisitingPhases DEF Final
  <2>4. answers \subseteq answers' /\ answers' \subseteq Answer /\ TrueAnswers
    BY <1>1, <1>3, <2>1, <2>2, <2>3, TellsTrue
  <2>5. OutdatedJobsOnly
    BY <1>1 DEF OutdatedJobsOnly, TypeOK
  <2> QED
    BY <1>1, <2>4, <2>5, VisitorEnds
<1> QED
  BY <1>2, <1>3 DEF ResolveRefused

LEMMA ResolveFreshStep ==
  ASSUME Inv, NEW c \in Callers, ResolveFresh(c)
  PROVE  Preserves
<1> DEFINE me == [caller[c] EXCEPT !.pc = "reserve", !.version = version]
<1>1. /\ TypeOK /\ caller[c].pc = "resolve" /\ Unknown(Mine(c)) /\ Offered(c)
      /\ caller' = [caller EXCEPT ![c] = me] /\ VisitorInv(c) /\ caller[c] \in Local
      /\ UNCHANGED <<story, jobs, session_lock, authority, ledger, generations, answers, budget>>
      /\ version \in Nat
  BY DEF ResolveFresh, At, Inv, IInv, TypeOK
<1>2. me \in Local
  BY <1>1 DEF Local, Visiting
<1>3. /\ me.pc = "reserve" /\ me.version = version /\ me.request = caller[c].request
      /\ me.verdict = caller[c].verdict /\ me.fate = caller[c].fate
      /\ me.cancelled = caller[c].cancelled
  BY <1>1 DEF Local
<1> HIDE DEF me
<1>4. OnlyCaller(c) /\ caller'[c] = me
  BY <1>1, <1>2, Rewrites
<1>5. /\ Mine(c) \in Requests /\ caller[c].verdict = "none" /\ caller[c].fate = "none"
      /\ ~caller[c].cancelled /\ jobs[Mine(c)].status = "ABSENT"
      /\ Mine(c) \in Suggested => version = 0
  BY <1>1 DEF VisitorInv, Visiting, Unknown, Offered
<1>6. VisitorInv(c)'
  BY <1>1, <1>3, <1>4, <1>5 DEF VisitorInv, At, Mine, Visiting
<1>7. caller[c].pc \notin Owning /\ caller'[c].pc \notin Owning
  BY <1>1, <1>3, <1>4, VisitingPhases DEF Visiting
<1> QED
  BY <1>1, <1>4, <1>6, <1>7, VisitorMoves

LEMMA ReserveAnyStep ==
  ASSUME Inv, NEW c \in Callers, Reserve(c)
  PROVE  Preserves
<1>1. /\ TypeOK /\ At(c, "reserve") /\ VisitorInv(c) /\ Mine(c) \in Requests
      /\ caller[c].pc \notin Owning
      /\ UNCHANGED <<story, jobs, session_lock, authority, generations, answers, budget>>
      /\ faults' \in 0..MaxFaults /\ cancels' \in 0..MaxCancels
  BY VisitingPhases DEF Reserve, At, Inv, IInv, TypeOK, budget, VisitorInv, Visiting
<1>2. CASE Ends(c) /\ UNCHANGED ledger
  BY <1>1, <1>2, VisitorLeaves
<1>3. CASE ~Reserved(Mine(c)) /\ ~Full /\ Reserves(c) /\ Moves(c, "publish")
  BY <1>1, <1>3, ReserveStep
<1>4. CASE Reserved(Mine(c)) /\ SameIdentity(c) /\ Moves(c, "follow") /\ UNCHANGED ledger
  <2>1. "follow" \in Pc
    BY DEF Pc, Visiting
  <2>2. Steps(c, "follow", caller[c].verdict, caller[c].fate, caller[c].cancelled)
    BY <1>1, <1>4, <2>1, MovesSteps
  <2>3. /\ OnlyCaller(c) /\ caller'[c].pc = "follow" /\ Mine(c)' = Mine(c)
        /\ caller'[c].form = caller[c].form
    BY <2>2 DEF Steps, SameCall, Mine
  <2>4. VisitorInv(c)'
    BY <1>1, <1>4, <2>3 DEF VisitorInv, At, Reserved, SameIdentity
  <2>5. caller'[c].pc \notin Owning
    BY <2>3, VisitingPhases DEF Visiting
  <2> QED
    BY <1>1, <1>4, <2>3, <2>4, <2>5, VisitorMoves
<1> QED
  BY <1>2, <1>3, <1>4 DEF Reserve

\* Following a settled entry: its end, or what the rows say, is told.
LEMMA FollowStep ==
  ASSUME Inv, NEW c \in Callers, Follow(c)
  PROVE  Preserves
<1>1. /\ TypeOK /\ At(c, "follow") /\ VisitorInv(c) /\ Mine(c) \in Requests
      /\ caller[c].pc \notin Owning
      /\ UNCHANGED <<story, jobs, session_lock, authority, ledger, generations, budget>>
      /\ faults' \in 0..MaxFaults /\ cancels' \in 0..MaxCancels
  BY VisitingPhases DEF Follow, At, Inv, IInv, TypeOK, budget, VisitorInv, Visiting
<1>2. UNCHANGED <<version, responses>>
  BY <1>1 DEF story
<1>3. CASE \E said \in {"rejected", "unknown"} :
             /\ Tells(c, said) /\ Ends(c)
             /\ ledger[Mine(c)].lifecycle =
                  IF said = "rejected" THEN "TERMINAL_NO_JOB" ELSE "TERMINAL_UNCERTAIN"
  <2>1. PICK said \in {"rejected", "unknown"} :
             /\ Tells(c, said) /\ Ends(c)
             /\ ledger[Mine(c)].lifecycle =
                  IF said = "rejected" THEN "TERMINAL_NO_JOB" ELSE "TERMINAL_UNCERTAIN"
    BY <1>3
  <2>2. PICK x \in Requests : x = Mine(c)
    BY <1>1
  <2>3. (Refuses(said) => Closed(x)') /\ said \in Verdict
    BY <1>1, <1>2, <2>1, <2>2, EntryIsTrue, VisitingPhases DEF Closed, Stored, Final
  <2>4. answers \subseteq answers' /\ answers' \subseteq Answer /\ TrueAnswers
    BY <1>1, <1>2, <2>1, <2>2, <2>3, TellsTrue
  <2>5. OutdatedJobsOnly
    BY <1>1 DEF OutdatedJobsOnly, TypeOK
  <2> QED
    BY <1>1, <2>1, <2>4, <2>5, VisitorEnds
<1>4. CASE /\ ledger[Mine(c)].lifecycle = "TERMINAL_AUTHORITATIVE"
           /\ Moves(c, "replay") /\ UNCHANGED answers
  <2>1. "replay" \in Pc
    BY DEF Pc, Visiting
  <2>2. Steps(c, "replay", caller[c].verdict, caller[c].fate, caller[c].cancelled)
    BY <1>1, <1>4, <2>1, MovesSteps
  <2>3. /\ OnlyCaller(c) /\ caller'[c].pc = "replay" /\ Mine(c)' = Mine(c)
        /\ caller'[c].form = caller[c].form
    BY <2>2 DEF Steps, SameCall, Mine
  <2>4. VisitorInv(c)'
    BY <1>1, <1>4, <2>3 DEF VisitorInv, At, Reserved
  <2>5. caller'[c].pc \notin Owning
    BY <2>3, VisitingPhases DEF Visiting
  <2> QED
    BY <1>1, <1>4, <2>3, <2>4, <2>5, VisitorMoves
<1> QED
  BY <1>3, <1>4 DEF Follow

LEMMA ReplayStep ==
  ASSUME Inv, NEW c \in Callers, Replay(c)
  PROVE  Preserves
<1>1. /\ TypeOK /\ At(c, "replay") /\ VisitorInv(c) /\ Mine(c) \in Requests
      /\ caller[c].pc \notin Owning /\ Tells(c, Recorded(Mine(c))) /\ Ends(c)
      /\ UNCHANGED <<story, jobs, session_lock, authority, ledger, generations>>
      /\ faults' \in 0..MaxFaults /\ cancels' \in 0..MaxCancels
  BY VisitingPhases DEF Replay, At, Inv, IInv, TypeOK, budget, VisitorInv, Visiting
<1>2. UNCHANGED <<version, responses>>
  BY <1>1 DEF story
<1>3. PICK x \in Requests : x = Mine(c)
  BY <1>1
<1>4. ledger[x].lifecycle = "TERMINAL_AUTHORITATIVE" /\ ledger[x].form = caller[c].form
  BY <1>1, <1>3 DEF VisitorInv, At
<1>5. jobs[x].status # "ABSENT"
  BY <1>4, EntryIsTrue DEF Settled
<1>6. /\ Recorded(x) \in Verdict
      /\ Recorded(x) = "committed" => Stored(x) /\ caller[c].form = responses[x].form
      /\ Refuses(Recorded(x)) => Closed(x)
  BY <1>4, <1>5, RecordedIsTrue, EntryIsTrue
<1>7. Refuses(Recorded(x)) => Closed(x)'
  BY <1>1, <1>2, <1>6 DEF Closed, Stored
<1>8. answers \subseteq answers' /\ answers' \subseteq Answer /\ TrueAnswers
  BY <1>1, <1>2, <1>3, <1>6, <1>7, TellsTrue
<1>9. OutdatedJobsOnly
  BY <1>1 DEF OutdatedJobsOnly, TypeOK
<1> QED
  BY <1>1, <1>8, <1>9, VisitorEnds

LEMMA PollStep ==
  ASSUME Inv, NEW c \in Callers, NEW r \in Requests, Poll(c, r)
  PROVE  Preserves
<1> DEFINE me == [Idle EXCEPT !.pc = "polling", !.request = r, !.form = responses[r].form,
                              !.verdict = Polled(r)]
<1>1. /\ TypeOK /\ caller[c].pc = "idle" /\ caller' = [caller EXCEPT ![c] = me]
      /\ UNCHANGED <<story, jobs, session_lock, authority, ledger, generations, answers, budget>>
  BY DEF Poll, At, Inv
<1>2. /\ Polled(r) \in Verdict
      /\ Polled(r) = "committed" => Stored(r)
      /\ Refuses(Polled(r)) => Closed(r)
  <2>1. /\ Stored(r) <=> jobs[r].status = "COMMITTED"
        /\ jobs[r].status \in Active \cup Settled \cup {"ABSENT"}
    BY DEF Inv, IInv, TypeOK, Job, TurnsAreWhole
  <2>2. CASE jobs[r].status = "OUTCOME_UNKNOWN"
    BY <2>1, <2>2 DEF Polled, Verdict, Final, Refuses, Closed, Settled
  <2>3. CASE jobs[r].status = "ABSENT" /\ ~Stored(r)
    BY <2>3 DEF Polled, Verdict, Refuses
  <2>4. CASE jobs[r].status # "OUTCOME_UNKNOWN" /\ jobs[r].status # "ABSENT"
    BY <2>4, RecordedIsTrue DEF Polled
  <2> QED
    BY <2>1, <2>2, <2>3, <2>4
<1>3. me \in Local /\ responses[r].form \in Forms \cup {NoForm}
  <2>1. responses[r].form \in Forms \cup {NoForm}
    BY <1>1 DEF TypeOK, Response
  <2> QED
    BY <1>2, <2>1, IdleType DEF Idle, Local, Visiting, Verdict
<1>4. /\ me.pc = "polling" /\ me.request = r /\ me.form = responses[r].form
      /\ me.verdict = Polled(r)
  BY DEF Idle
<1> HIDE DEF me
<1>5. OnlyCaller(c) /\ caller'[c] = me
  BY <1>1, <1>3, Rewrites
<1>6. /\ caller'[c].pc = "polling" /\ caller'[c].request = r
      /\ caller'[c].form = responses[r].form /\ caller'[c].verdict = Polled(r)
  BY <1>4, <1>5
<1>7. UNCHANGED <<version, responses, jobs, ledger>>
  BY <1>1 DEF story
<1>8. VisitorInv(c)'
  <2>1. /\ caller'[c].verdict = "committed" => Stored(Mine(c))'
        /\ Refuses(caller[c].verdict)' => Closed(Mine(c))'
    BY <1>2, <1>6, <1>7 DEF Closed, Stored, Mine, Refuses
  <2>2. caller'[c].form = responses'[Mine(c)'].form
    BY <1>6, <1>7 DEF Mine
  <2>3. Mine(c)' \in Requests
    BY <1>6 DEF Mine
  <2> QED
    BY <1>6, <2>1, <2>2, <2>3 DEF VisitorInv, At
<1>9. caller[c].pc \notin Owning /\ caller'[c].pc \notin Owning
  BY <1>1, <1>6, VisitingPhases DEF Visiting
<1> QED
  BY <1>1, <1>5, <1>8, <1>9, VisitorMoves

LEMMA PollEndsStep ==
  ASSUME Inv, NEW c \in Callers, PollEnds(c)
  PROVE  Preserves
<1> DEFINE said == Public(Mine(c), caller[c].verdict)
<1>1. /\ TypeOK /\ At(c, "polling") /\ VisitorInv(c) /\ Mine(c) \in Requests
      /\ caller[c].pc \notin Owning /\ Tells(c, said) /\ Ends(c)
      /\ UNCHANGED <<story, jobs, session_lock, authority, ledger, generations>>
      /\ faults' \in 0..MaxFaults /\ cancels' \in 0..MaxCancels
  BY VisitingPhases DEF PollEnds, At, Inv, IInv, TypeOK, budget, VisitorInv, Visiting
<1>2. UNCHANGED <<version, responses>>
  BY <1>1 DEF story
<1>3. PICK x \in Requests : x = Mine(c)
  BY <1>1
<1>4. /\ said \in Verdict
      /\ said = "committed" => Stored(x) /\ caller[c].form = responses[x].form
      /\ Refuses(said) => Closed(x)
  <2>1. CASE ledger[x].lifecycle = "TERMINAL_UNCERTAIN"
    <3>1. said = "unknown"
      BY <1>3, <2>1 DEF Public
    <3> QED
      BY <2>1, <3>1, EntryIsTrue, VisitingPhases DEF Final
  <2>2. CASE ledger[x].lifecycle # "TERMINAL_UNCERTAIN"
    <3>1. said = caller[c].verdict
      BY <1>3, <2>2 DEF Public
    <3> QED
      BY <1>1, <1>3, <3>1, LocalType DEF VisitorInv
  <2> QED
    BY <2>1, <2>2
<1> HIDE DEF said
<1>5. PICK told \in Verdict : told = said
  BY <1>4
<1>6. Refuses(told) => Closed(x)'
  BY <1>1, <1>2, <1>4, <1>5 DEF Closed, Stored
<1>7. answers \subseteq answers' /\ answers' \subseteq Answer /\ TrueAnswers
  BY <1>1, <1>2, <1>3, <1>4, <1>5, <1>6, TellsTrue
<1>8. OutdatedJobsOnly
  BY <1>1 DEF OutdatedJobsOnly, TypeOK
<1> QED
  BY <1>1, <1>7, <1>8, VisitorEnds

LEMMA LeaveStep ==
  ASSUME Inv, NEW c \in Callers, Leave(c)
  PROVE  Preserves
<1>1. /\ caller[c].pc \notin Owning /\ Ends(c)
      /\ UNCHANGED <<story, jobs, session_lock, authority, ledger, generations, answers>>
      /\ faults' \in 0..MaxFaults /\ cancels' \in 0..MaxCancels
  BY VisitingPhases, SpendsType DEF Leave, Inv
<1> QED
  BY <1>1, VisitorLeaves

-----------------------------------------------------------------------------
(* The inductive invariant.                                                *)

LEMMA InitialInvariant ==
  ASSUME Init
  PROVE  Inv
<1>1. PICK left \in SUBSET Legacy, status \in [Legacy -> Active], form \in [Legacy -> Forms] :
        jobs = [r \in Requests |-> IF r \in left THEN LegacyJob(status[r], form[r]) ELSE NoJob]
  BY DEF Init
<1>2. jobs \in [Requests -> Job]
  <2>1. ASSUME NEW r \in Legacy PROVE LegacyJob(status[r], form[r]) \in Job
    BY DEF LegacyJob, NoJob, Job
  <2> QED
    BY <1>1, <2>1, NoJobType
<1>3. \A r \in Requests :
        \/ jobs[r].status = "ABSENT"
        \/ jobs[r].status \in Active /\ jobs[r].legacy
  <2>1. ASSUME NEW r \in Legacy
        PROVE  LegacyJob(status[r], form[r]).status \in Active
               /\ LegacyJob(status[r], form[r]).legacy
    BY DEF LegacyJob, NoJob
  <2>2. NoJob.status = "ABSENT"
    BY DEF NoJob
  <2> QED
    BY <1>1, <2>1, <2>2
<1>4. NoResponse \in Response /\ NoEntry \in Entry /\ Idle \in Local
  BY IdleType DEF NoResponse, Response, NoEntry, Entry
<1>5. /\ version = 0 /\ events = <<>> /\ answers = {}
      /\ responses = [r \in Requests |-> NoResponse] /\ ledger = [r \in Requests |-> NoEntry]
      /\ caller = [c \in Callers |-> Idle] /\ generations = [r \in Requests |-> 0]
      /\ session_lock = NoCaller /\ authority = TRUE /\ faults = MaxFaults /\ cancels = MaxCancels
  BY DEF Init
<1>6. TypeOK
  BY <1>2, <1>4, <1>5, ConstantAssumption DEF TypeOK
<1>7. /\ \A r \in Requests : ~Stored(r) /\ ledger[r].lifecycle = "NONE" /\ generations[r] = 0
      /\ \A c \in Callers : caller[c].pc = "idle"
  BY <1>5 DEF Stored, NoResponse, NoEntry, Idle
<1>8. LedgerTellsTheTruth
  BY <1>3, <1>7 DEF LedgerTellsTheTruth
<1>9. NoOrphanedAttempt
  BY <1>7 DEF NoOrphanedAttempt, Owning, Retained, Settling
<1>10. TurnsAreWhole
  <2>1. Len(events) = 0
    BY <1>5
  <2> QED
    BY <1>3, <1>5, <1>7, <2>1 DEF TurnsAreWhole, Active, Leased
<1>11. AnswersOwnSubmission /\ AnswersInv
  BY <1>5 DEF AnswersOwnSubmission, AnswersInv
<1>12. \A c \in Callers : OwnerInv(c) /\ VisitorInv(c)
  BY <1>7 DEF OwnerInv, VisitorInv, At, Owning, Retained, Settling, Visiting
<1>13. \A r \in Requests : LedgerInv(r)
  BY <1>3, <1>7 DEF LedgerInv
<1> QED
  BY <1>6, <1>8, <1>9, <1>10, <1>11, <1>12, <1>13 DEF Inv, IInv

LEMMA ExpireStep ==
  ASSUME Inv, NEW r \in Requests, Expire(r)
  PROVE  Preserves
<1> DEFINE row == [jobs[r] EXCEPT !.expired = TRUE]
<1>1. jobs[r] \in Job /\ jobs \in [Requests -> Job] /\ jobs' = [jobs EXCEPT ![r] = row]
  BY DEF Expire, Inv, TypeOK
<1>2. /\ row \in Job /\ row.status = jobs[r].status /\ row.form = jobs[r].form
      /\ row.prepared = jobs[r].prepared /\ row.legacy = jobs[r].legacy
  BY <1>1 DEF Job
<1> HIDE DEF row
<1>3. /\ jobs' \in [Requests -> Job]
      /\ \A x \in Requests : SameJob(x) /\ jobs'[x].status = jobs[x].status
  BY <1>1, <1>2 DEF SameJob
<1> QED
  BY <1>3, QuietStep DEF Expire, Inv, TypeOK

LEMMA InductiveStep ==
  ASSUME Inv, [Next]_vars
  PROVE  Preserves
<1>1. ASSUME NEW c \in Callers, Progress(c) PROVE Preserves
  <2>1. CASE ResolveKnown(c) \/ ResolveRefused(c) \/ ResolveFresh(c) \/ Reserve(c)
    BY <2>1, ResolveKnownStep, ResolveRefusedStep, ResolveFreshStep, ReserveAnyStep
  <2>2. CASE Publish(c) \/ PublishRefused(c) \/ Mark(c) \/ Probe(c)
    BY <2>2, PublishStep, PublishRefusedStep, MarkStep, ProbeStep
  <2>3. CASE Claim(c) \/ CallEnds(c)
    BY <2>3, ClaimStep, CallEndsStep
  <2>4. CASE Enter(c) \/ CallAgain(c)
    BY <2>4, GeneratesStep DEF Enter, CallAgain
  <2>5. CASE Store(c) \/ Finalize(c) \/ Commit(c) \/ Classify(c)
    BY <2>5, StoreStep, FinalizeStep, CommitStep, ClassifyStep
  <2>6. CASE Record(c) \/ Reread(c) \/ SettleClaim(c) \/ Settle(c) \/ Signal(c)
    BY <2>6, RecordStep, RereadStep, SettleClaimStep, SettleStep, SignalStep
  <2>7. CASE Follow(c) \/ Replay(c) \/ PollEnds(c)
    BY <2>7, FollowStep, ReplayStep, PollEndsStep
  <2> QED
    BY <1>1, <2>1, <2>2, <2>3, <2>4, <2>5, <2>6, <2>7 DEF Progress
<1>2. ASSUME NEW c \in Callers, Disturb(c) PROVE Preserves
  <2>1. CASE \/ PublishCancelled(c) \/ ProbeBreaks(c) \/ EntryBreaks(c) \/ CallBreaks(c)
             \/ ClassifyBreaks(c)
    BY <2>1, PublishCancelledStep, ProbeBreaksStep, EntryBreaksStep, CallBreaksStep, ClassifyStep
  <2>2. CASE RereadBreaks(c) \/ SettleBreaks(c) \/ Remember(c) \/ Leave(c)
    BY <2>2, RereadStep, SettleBreaksStep, RememberStep, LeaveStep
  <2>3. ASSUME NEW why \in {"fault", "cancel"},
               \/ PublishBreaks(c, why) \/ ClaimBreaks(c, why) \/ StoreBreaks(c, why)
               \/ FinalizeBreaks(c, why) \/ CommitBreaks(c, why) \/ RecordBreaks(c, why)
        PROVE  Preserves
    BY <2>3, PublishBreaksStep, ClaimBreaksStep, StoreBreaksStep, FinalizeBreaksStep,
       CommitBreaksStep, RecordBreaksStep
  <2> QED
    BY <1>2, <2>1, <2>2, <2>3 DEF Disturb
<1>3. ASSUME NEW c \in Callers, NEW r \in Requests,
             Poll(c, r) \/ \E f \in Forms : Arrive(c, r, f)
      PROVE  Preserves
  BY <1>3, PollStep, ArriveStep
<1>4. ASSUME NEW r \in Requests, Expire(r) PROVE Preserves
  BY <1>4, ExpireStep
<1>5. CASE Unbind
  <2>1. authority' \in BOOLEAN /\ jobs' = jobs /\ jobs \in [Requests -> Job]
    BY <1>5 DEF Unbind, Inv, TypeOK
  <2> QED
    BY <1>5, <2>1, QuietStep DEF Unbind, SameJob
<1>6. CASE UNCHANGED vars
  <2>1. /\ UNCHANGED <<story, session_lock, ledger, caller, generations, answers, budget>>
        /\ jobs' = jobs /\ authority' = authority
    BY <1>6 DEF vars, story, budget
  <2>2. authority' \in BOOLEAN /\ jobs \in [Requests -> Job]
    BY <2>1 DEF Inv, TypeOK
  <2> QED
    BY <2>1, <2>2, QuietStep DEF SameJob
<1> QED
  BY <1>1, <1>2, <1>3, <1>4, <1>5, <1>6 DEF Next

\* In every reachable state the ledger, the rows, the callers' phases and what was
\* answered agree (DynamicNarrativeOrchestrator, whatever fails or is cancelled).
THEOREM Invariant == Spec => []Inv
<1>1. Init => Inv
  BY InitialInvariant
<1>2. Inv /\ [Next]_vars => Inv'
  BY InductiveStep DEF Preserves
<1> QED
  BY <1>1, <1>2, PTL DEF Spec

\* The inductive invariant itself: the conjunction every other theorem follows from.
THEOREM Invariance == Spec => []IInv
<1>1. Inv => IInv
  BY DEF Inv
<1> QED
  BY <1>1, Invariant, PTL

-----------------------------------------------------------------------------
(* The properties.                                                         *)

\* Every variable keeps its type, and no request is generated more than twice.
THEOREM TypeCorrect == Spec => []TypeOK
<1>1. Inv => TypeOK
  BY DEF Inv
<1> QED
  BY <1>1, Invariant, PTL

\* The ledger of attempts never says of a request what its rows contradict.
THEOREM LedgerIsTrue == Spec => []LedgerTellsTheTruth
<1>1. Inv => LedgerTellsTheTruth
  BY DEF Inv, IInv
<1> QED
  BY <1>1, Invariant, PTL

\* Whatever fails or is cancelled, an open entry has a live owner, and its signal will
\* be accepted (_terminal's transition check never raises).
THEOREM OwnersAreLive == Spec => []NoOrphanedAttempt
<1>1. Inv => NoOrphanedAttempt
  BY DEF Inv, IInv
<1> QED
  BY <1>1, Invariant, PTL

\* Event, version, response and COMMITTED job stand or fall together, once per request.
THEOREM AppliedWhole == Spec => []TurnsAreWhole
<1>1. Inv => TurnsAreWhole
  BY DEF Inv, IInv
<1> QED
  BY <1>1, Invariant, PTL

\* Nobody is answered with a turn that is not the one submitted.
THEOREM OwnAnswers == Spec => []AnswersOwnSubmission
<1>1. Inv => AnswersOwnSubmission
  BY DEF Inv, IInv
<1> QED
  BY <1>1, Invariant, PTL

\* A request once refused is never applied later.
THEOREM RefusalsAreFinal == Spec => []RefusalIsFinal
<1>1. Inv => RefusalIsFinal
  BY DEF Inv, IInv, AnswersInv, Refuses, Closed, RefusalIsFinal
<1> QED
  BY <1>1, Invariant, PTL

\* Once the ledger has settled a request, polling it never answers pending.
THEOREM SettledRequestsArePublic == Spec => []SettledIsPublic
<1>1. ASSUME Inv PROVE SettledIsPublic
  <2> SUFFICES ASSUME NEW r \in Requests, ledger[r].lifecycle \in Terminal
               PROVE  Public(r, Polled(r)) # "pending"
    BY DEF SettledIsPublic
  <2>1. LedgerTellsTheTruth
    BY <1>1 DEF Inv, IInv
  <2>2. CASE ledger[r].lifecycle = "TERMINAL_UNCERTAIN"
    BY <2>2 DEF Public
  <2>3. CASE ledger[r].lifecycle = "TERMINAL_NO_JOB"
    BY <2>1, <2>3 DEF Public, Polled, LedgerTellsTheTruth
  <2>4. CASE ledger[r].lifecycle = "TERMINAL_AUTHORITATIVE"
    <3>1. jobs[r].status \in Settled
      BY <2>1, <2>4 DEF LedgerTellsTheTruth
    <3>2. Recorded(r) # "pending"
      BY <3>1 DEF Recorded, Settled, Active, Leased
    <3> QED
      BY <2>4, <3>2 DEF Public, Polled
  <2> QED
    BY <2>2, <2>3, <2>4 DEF Terminal
<1> QED
  BY <1>1, Invariant, PTL

\* With a store whose failed commits publish nothing, an applied turn is never hidden.
THEOREM CommittedIsShown ==
  ASSUME ~AmbiguousCommits
  PROVE  Spec => []CommittedIsNotHidden
<1>1. ASSUME Inv PROVE CommittedIsNotHidden
  <2> SUFFICES ASSUME NEW r \in Requests, Stored(r)
               PROVE  /\ ledger[r].lifecycle # "TERMINAL_UNCERTAIN"
                      /\ \A a \in answers : a.request = r => a.said = "committed"
    BY DEF CommittedIsNotHidden
  <2>1. LedgerInv(r) /\ AnswersInv /\ answers \subseteq Answer
    BY <1>1 DEF Inv, IInv, TypeOK
  <2>2. ledger[r].lifecycle # "TERMINAL_UNCERTAIN"
    BY <2>1 DEF LedgerInv
  <2>3. ASSUME NEW a \in answers, a.request = r PROVE a.said = "committed"
    <3>1. ~Refuses(a.said)
      BY <2>1, <2>3 DEF AnswersInv, Closed
    <3>2. a.said \in Final
      BY <2>1 DEF Answer
    <3> QED
      BY <3>1, <3>2 DEF Refuses, Final
  <2> QED
    BY <2>2, <2>3
<1> QED
  BY <1>1, Invariant, PTL

\* The provider is entered only by an owner nobody has cancelled, for its own job that is
\* published and claimed.
THEOREM CallsAreOwned == Spec => NoCallOutsideAttempt
<1>1. ASSUME Inv, [Next]_vars
      PROVE  [\A r \in Requests : generations'[r] # generations[r] =>
                /\ ledger[r].lifecycle = "JOB_PUBLISHED"
                /\ ~caller[ledger[r].owner].cancelled
                /\ jobs[r].status = "IN_PROGRESS"]_vars
  <2> SUFFICES ASSUME NEW r \in Requests, generations'[r] # generations[r]
               PROVE  /\ ledger[r].lifecycle = "JOB_PUBLISHED"
                      /\ ~caller[ledger[r].owner].cancelled
                      /\ jobs[r].status = "IN_PROGRESS"
    OBVIOUS
  <2>1. PICK c \in Callers : Enter(c) \/ CallAgain(c)
    <3>1. generations' # generations
      OBVIOUS
    <3>2. ASSUME NEW c \in Callers, Progress(c) PROVE Enter(c) \/ CallAgain(c)
      <4>1. ~(ResolveKnown(c) \/ ResolveRefused(c) \/ ResolveFresh(c) \/ Reserve(c))
        BY <3>1 DEF ResolveKnown, ResolveRefused, ResolveFresh, Reserve
      <4>2. ~(Publish(c) \/ PublishRefused(c) \/ Mark(c) \/ Probe(c))
        BY <3>1 DEF Publish, PublishRefused, Mark, Probe
      <4>3. ~(Claim(c) \/ CallEnds(c) \/ Store(c) \/ Finalize(c))
        BY <3>1 DEF Claim, CallEnds, Store, Finalize
      <4>4. ~(Commit(c) \/ Classify(c) \/ Record(c) \/ Reread(c))
        BY <3>1 DEF Commit, Classify, Record, Reread
      <4>5. ~(SettleClaim(c) \/ Settle(c) \/ Signal(c))
        BY <3>1 DEF SettleClaim, Settle, Signal
      <4>6. ~(Follow(c) \/ Replay(c) \/ PollEnds(c))
        BY <3>1 DEF Follow, Replay, PollEnds
      <4> QED
        BY <3>2, <4>1, <4>2, <4>3, <4>4, <4>5, <4>6 DEF Progress
    <3>3. ASSUME NEW c \in Callers PROVE ~Disturb(c)
      <4>1. ~(PublishCancelled(c) \/ ProbeBreaks(c) \/ EntryBreaks(c) \/ CallBreaks(c))
        BY <3>1 DEF PublishCancelled, ProbeBreaks, EntryBreaks, CallBreaks
      <4>2. ~(ClassifyBreaks(c) \/ RereadBreaks(c) \/ SettleBreaks(c))
        BY <3>1 DEF ClassifyBreaks, RereadBreaks, SettleBreaks
      <4>3. ~(Remember(c) \/ Leave(c))
        BY <3>1 DEF Remember, Leave
      <4>4. ASSUME NEW why
            PROVE  ~(PublishBreaks(c, why) \/ ClaimBreaks(c, why) \/ StoreBreaks(c, why))
        BY <3>1 DEF PublishBreaks, ClaimBreaks, StoreBreaks
      <4>5. ASSUME NEW why
            PROVE  ~(FinalizeBreaks(c, why) \/ CommitBreaks(c, why) \/ RecordBreaks(c, why))
        BY <3>1 DEF FinalizeBreaks, CommitBreaks, RecordBreaks
      <4> QED
        BY <4>1, <4>2, <4>3, <4>4, <4>5 DEF Disturb
    <3>4. /\ \A c \in Callers, x \in Requests : ~Poll(c, x) /\ \A f \in Forms : ~Arrive(c, x, f)
          /\ \A x \in Requests : ~Expire(x)
          /\ ~Unbind /\ ~UNCHANGED vars
      BY <3>1 DEF Poll, Arrive, Expire, Unbind, vars
    <3> QED
      BY <1>1, <3>2, <3>3, <3>4 DEF Next
  <2>2. Generates(c, FALSE) \/ Generates(c, TRUE)
    BY <2>1 DEF Enter, CallAgain
  <2>3. /\ caller[c].pc \in Attempting /\ caller[c].pc \in Owning
        /\ caller[c].pc \in {"entry", "calling"}
    BY <2>1, AttemptPhases DEF Enter, CallAgain, At
  <2>4. /\ Mine(c) \in Requests /\ ledger[Mine(c)].lifecycle = "JOB_PUBLISHED"
        /\ ledger[Mine(c)].owner = c /\ jobs[Mine(c)].status = "IN_PROGRESS"
        /\ ~caller[c].cancelled
    BY <1>1, <2>3, AttemptFacts, OwnerFacts, PhaseRow DEF Retained, Settling
  <2>5. r = Mine(c)
    BY <1>1, <2>2, <2>4 DEF Generates, Inv, TypeOK
  <2> QED
    BY <2>4, <2>5
<1> QED
  BY <1>1, Invariant, PTL DEF Spec, NoCallOutsideAttempt

-----------------------------------------------------------------------------
(* The capacity of a session's ledger.                                     *)

ReservedRequests == {r \in Requests : Reserved(r)}
Room == Cardinality(ReservedRequests) <= Capacity

LEMMA RoomStep ==
  ASSUME Room, Keeps
  PROVE  Room'
<1>1. IsFiniteSet(Requests) /\ Capacity \in Nat
  BY ConstantAssumption
<1>2. IsFiniteSet(ReservedRequests)
  BY <1>1, FS_Subset DEF ReservedRequests
<1>3. CASE \A r \in Requests : Reserved(r)' <=> Reserved(r)
  <2>1. ReservedRequests' = ReservedRequests
    BY <1>3 DEF ReservedRequests
  <2> QED
    BY <2>1 DEF Room
<1>4. CASE /\ ~Full
           /\ \E new \in Requests :
                \A r \in Requests : Reserved(r)' <=> (Reserved(r) \/ r = new)
  <2>1. PICK new \in Requests : \A r \in Requests : Reserved(r)' <=> (Reserved(r) \/ r = new)
    BY <1>4
  <2>2. ReservedRequests' = ReservedRequests \cup {new}
    BY <2>1 DEF ReservedRequests
  <2>3. /\ Cardinality(ReservedRequests) \in Nat
        /\ ~(Cardinality(ReservedRequests) >= Capacity)
    BY <1>2, <1>4, FS_CardinalityType DEF Full, ReservedRequests
  <2>4. Cardinality(ReservedRequests \cup {new}) \in
          {Cardinality(ReservedRequests), Cardinality(ReservedRequests) + 1}
    BY <1>2, FS_AddElement
  <2> QED
    BY <1>1, <2>2, <2>3, <2>4 DEF Room
<1> QED
  BY <1>3, <1>4 DEF Keeps

\* However many ids are submitted, a session never publishes more jobs than its ledger
\* has room for.
THEOREM CapacityIsKept == Spec => []CapacityHolds
<1>1. ASSUME Init PROVE Room
  <2>1. ReservedRequests = {}
    BY <1>1 DEF Init, ReservedRequests, Reserved, NoEntry
  <2> QED
    BY <2>1, FS_EmptySet, ConstantAssumption DEF Room
<1>2. ASSUME Inv, Room, [Next]_vars PROVE Room'
  BY <1>2, InductiveStep, RoomStep DEF Preserves
<1>3. ASSUME Inv, Room PROVE CapacityHolds
  <2> DEFINE Made == {r \in Requests : jobs[r].status # "ABSENT" /\ ~jobs[r].legacy}
  <2>1. Made \subseteq ReservedRequests
    BY <1>3 DEF Inv, IInv, LedgerInv, ReservedRequests
  <2>2. IsFiniteSet(ReservedRequests)
    BY ConstantAssumption, FS_Subset DEF ReservedRequests
  <2>3. /\ Cardinality(Made) \in Nat /\ Cardinality(ReservedRequests) \in Nat
        /\ Cardinality(Made) <= Cardinality(ReservedRequests)
    BY <2>1, <2>2, FS_Subset, FS_CardinalityType
  <2> QED
    BY <1>3, <2>3, ConstantAssumption DEF Room, CapacityHolds
<1> QED
  BY <1>1, <1>2, <1>3, Invariant, PTL DEF Spec

-----------------------------------------------------------------------------
(* The promise.                                                            *)

LEMMA AppliedTurnsType ==
  ASSUME Inv
  PROVE  /\ AppliedTurns \in Seq(Promise!Turn) /\ Len(AppliedTurns) = Len(events)
         /\ \A i \in 1..Len(events) :
              /\ AppliedTurns[i] = [request |-> events[i], form |-> responses[events[i]].form]
              /\ events[i] \in Requests /\ Stored(events[i])
<1>1. /\ events \in Seq(Requests) /\ responses \in [Requests -> Response] /\ TurnsAreWhole
  BY DEF Inv, IInv, TypeOK
<1>2. Len(events) \in Nat /\ \A i \in 1..Len(events) : events[i] \in Requests
  BY <1>1
<1>3. \A i \in 1..Len(events) : Stored(events[i])
  BY <1>1, <1>2 DEF TurnsAreWhole, Stored
<1>4. \A i \in 1..Len(events) :
        [request |-> events[i], form |-> responses[events[i]].form] \in Promise!Turn
  BY <1>1, <1>2 DEF Promise!Turn, Response
<1>5. AppliedTurns \in Seq(Promise!Turn) /\ Len(AppliedTurns) = Len(events)
  BY <1>2, <1>4 DEF AppliedTurns
<1> QED
  BY <1>2, <1>3, <1>5 DEF AppliedTurns

\* A closed request is one the invariant knows to be closed.
LEMMA ClosedIsClosed ==
  ASSUME Inv, NEW r \in ClosedRequests
  PROVE  Closed(r)
<1>1. CASE jobs[r].status \in Settled \/ ledger[r].lifecycle = "TERMINAL_NO_JOB"
  BY <1>1 DEF ClosedRequests, Closed, Terminal
<1>2. ASSUME NEW a \in answers, a.request = r, a.said \notin {"committed"},
             ~(AmbiguousCommits /\ a.said = "unknown")
      PROVE  Closed(r)
  <2>1. a.said \in Final
    BY DEF Inv, TypeOK, Answer
  <2> QED
    BY <1>2, <2>1 DEF Inv, IInv, AnswersInv, Refuses, Final
<1> QED
  BY <1>1, <1>2 DEF ClosedRequests

LEMMA TurnsGrow ==
  ASSUME Inv, Inv', Keeps
  PROVE  AppliedTurns' = AppliedTurns \/ \E t \in Promise!Turn : Promise!Apply(t)
<1>1. CASE UNCHANGED <<version, events, responses>>
  BY <1>1 DEF AppliedTurns
<1>2. ASSUME NEW c \in Callers, At(c, "commit"), Applies(c)
      PROVE  \E t \in Promise!Turn : Promise!Apply(t)
  <2> DEFINE r == Mine(c)
             t == [request |-> r, form |-> caller[c].form]
  <2>1. /\ r \in Requests /\ OwnJob(c) /\ ledger[r].lifecycle = "JOB_PUBLISHED"
        /\ Stored(r) <=> jobs[r].status = "COMMITTED"
        /\ jobs[r].status = "PROPOSAL_VALIDATED"
        /\ r \in Suggested => caller[c].version = 0
    BY <1>2, AttemptFacts, PhaseRow, AttemptPhases DEF At
  <2>2. version = caller[c].version
    BY <1>2 DEF Inv, IInv, OwnerInv, At, Owning
  <2>3. ~Stored(r) /\ ~Closed(r)
    BY <2>1, <2>2 DEF Closed, Settled, Terminal
  <2>4. t \in Promise!Turn /\ t.request = r
    BY <2>1, LocalType DEF Promise!Turn, Inv
  <2>5. \A i \in 1..Len(events) : events[i] # r /\ AppliedTurns[i].request = events[i]
    <3>1. \A i \in 1..Len(events) :
            /\ AppliedTurns[i] = [request |-> events[i], form |-> responses[events[i]].form]
            /\ Stored(events[i])
      BY AppliedTurnsType
    <3>2. ~Stored(r)
      BY <2>3
    <3> HIDE DEF r
    <3>3. ASSUME NEW i \in 1..Len(events)
          PROVE  events[i] # r /\ AppliedTurns[i].request = events[i]
      <4>0. AppliedTurns[i] = [request |-> events[i], form |-> responses[events[i]].form]
        BY <3>1
      <4>1. AppliedTurns[i].request = events[i]
        BY <4>0
      <4>2. Stored(events[i])
        BY <3>1
      <4> QED
        BY <3>2, <4>1, <4>2
    <3> QED
      BY <3>3
  <2>6. AppliedTurns \in Seq(Promise!Turn) /\ Len(AppliedTurns) = Len(events)
    BY AppliedTurnsType
  <2>7. /\ events \in Seq(Requests) /\ events' = Append(events, r)
        /\ responses \in [Requests -> Response]
        /\ responses' = [responses EXCEPT ![r] = [version |-> version + 1, form |-> caller[c].form]]
    BY <1>2 DEF Applies, Inv, TypeOK
  <2> HIDE DEF r
  <2>8. /\ Len(events) \in Nat /\ Len(events') = Len(events) + 1
        /\ \A i \in 1..Len(events) : events'[i] = events[i] /\ events[i] \in Requests
        /\ events'[Len(events) + 1] = r
    BY <2>1, <2>7
  <2>9. /\ \A x \in Requests : x # r => responses'[x] = responses[x]
        /\ responses'[r].form = caller[c].form
    BY <2>1, <2>7
  <2>10. ASSUME NEW i \in 1..Len(events) PROVE AppliedTurns'[i] = AppliedTurns[i]
    <3>1. i \in 1..Len(events')
      BY <2>8
    <3>2. /\ AppliedTurns[i] = [request |-> events[i], form |-> responses[events[i]].form]
          /\ AppliedTurns'[i] = [request |-> events'[i], form |-> responses'[events'[i]].form]
      BY <3>1 DEF AppliedTurns
    <3> QED
      BY <2>5, <2>8, <2>9, <3>2
  <2>11. AppliedTurns'[Len(events) + 1] = t
    <3>1. Len(events) + 1 \in 1..Len(events')
      BY <2>8
    <3>2. AppliedTurns'[Len(events) + 1] =
            [request |-> events'[Len(events) + 1], form |-> responses'[events'[Len(events) + 1]].form]
      BY <3>1 DEF AppliedTurns
    <3> QED
      BY <2>8, <2>9, <3>2
  <2> HIDE DEF t
  <2>12. AppliedTurns' = Append(AppliedTurns, t)
    <3>1. /\ Append(AppliedTurns, t) \in Seq(Promise!Turn)
          /\ Len(Append(AppliedTurns, t)) = Len(events) + 1
          /\ \A i \in 1..Len(events) : Append(AppliedTurns, t)[i] = AppliedTurns[i]
          /\ Append(AppliedTurns, t)[Len(events) + 1] = t
      BY <2>4, <2>6, <2>8
    <3>2. /\ Append(AppliedTurns, t) = [i \in 1..(Len(events) + 1) |-> Append(AppliedTurns, t)[i]]
          /\ AppliedTurns' = [i \in 1..(Len(events) + 1) |-> AppliedTurns'[i]]
      BY <2>8, <3>1 DEF AppliedTurns
    <3>3. \A i \in 1..(Len(events) + 1) : AppliedTurns'[i] = Append(AppliedTurns, t)[i]
      BY <2>8, <2>10, <2>11, <3>1
    <3> QED
      BY <3>2, <3>3
  <2>13. ~Promise!Applied(r)
    BY <2>5, <2>6 DEF Promise!Applied
  <2>14. r \notin ClosedRequests
    BY <2>3, ClosedIsClosed
  <2> QED
    BY <2>4, <2>12, <2>13, <2>14 DEF Promise!Apply
<1> QED
  BY <1>1, <1>2 DEF Keeps

LEMMA ClosedStay ==
  ASSUME Inv, Inv', Keeps
  PROVE  ClosedRequests \subseteq ClosedRequests'
<1> SUFFICES ASSUME NEW r \in Requests, r \in ClosedRequests PROVE r \in ClosedRequests'
  BY DEF ClosedRequests
<1>1. Closed(r)
  BY ClosedIsClosed
<1>2. ~Stored(r)'
  <2>1. CASE UNCHANGED <<version, events, responses>>
    BY <1>1, <2>1 DEF Closed, Stored
  <2>2. ASSUME NEW c \in Callers, At(c, "commit"), Applies(c) PROVE ~Stored(r)'
    <3>1. /\ Mine(c) \in Requests /\ ledger[Mine(c)].lifecycle = "JOB_PUBLISHED"
          /\ jobs[Mine(c)].status = "PROPOSAL_VALIDATED"
          /\ Mine(c) \in Suggested => caller[c].version = 0
      BY <2>2, AttemptFacts, PhaseRow, AttemptPhases DEF At
    <3>2. version = caller[c].version
      BY <2>2 DEF Inv, IInv, OwnerInv, At, Owning
    <3>3. r # Mine(c)
      BY <1>1, <3>1, <3>2 DEF Closed, Settled, Terminal
    <3>4. responses'[r] = responses[r]
      BY <2>2, <3>3 DEF Applies, Inv, TypeOK
    <3> QED
      BY <1>1, <3>4 DEF Closed, Stored
  <2> QED
    BY <2>1, <2>2 DEF Keeps
<1> QED
  BY <1>2 DEF ClosedRequests, Keeps

\* Every behaviour of the orchestrator keeps the promise: a request is applied at most
\* once or closed, never both, and every final answer says which.
THEOREM KeepsThePromise == Spec => PromiseSpec
<1>1. ASSUME Init PROVE Promise!Init
  <2>1. Inv /\ events = <<>> /\ answers = {}
    BY <1>1, InitialInvariant DEF Init
  <2>2. AppliedTurns = <<>>
    BY <2>1 DEF AppliedTurns
  <2>3. ClosedRequests = {}
    <3> SUFFICES ASSUME NEW r \in ClosedRequests PROVE FALSE
      OBVIOUS
    <3>1. r \in Requests /\ ledger[r].lifecycle = "NONE" /\ jobs[r].status \notin Settled
      <4>1. r \in Requests
        BY DEF ClosedRequests
      <4>2. ledger[r].lifecycle = "NONE"
        BY <1>1, <4>1 DEF Init, NoEntry
      <4>3. PICK left \in SUBSET Legacy, status \in [Legacy -> Active],
                 form \in [Legacy -> Forms] :
              jobs = [x \in Requests |-> IF x \in left THEN LegacyJob(status[x], form[x])
                                        ELSE NoJob]
        BY <1>1 DEF Init
      <4>4. jobs[r].status \in Active \cup {"ABSENT"}
        <5>1. CASE r \in left
          BY <4>1, <4>3, <5>1 DEF LegacyJob, NoJob
        <5>2. CASE r \notin left
          BY <4>1, <4>3, <5>2 DEF NoJob
        <5> QED
          BY <5>1, <5>2
      <4> QED
        BY <4>1, <4>2, <4>4 DEF Active, Leased, Settled
    <3> QED
      BY <2>1, <3>1 DEF ClosedRequests
  <2> QED
    BY <2>1, <2>2, <2>3 DEF Promise!Init
<1>2. ASSUME Inv, [Next]_vars
      PROVE  [Promise!Step]_<<AppliedTurns, ClosedRequests, answers>>
  <2>1. Inv' /\ Keeps
    BY <1>2, InductiveStep DEF Preserves
  <2>2. AppliedTurns' = AppliedTurns \/ \E t \in Promise!Turn : Promise!Apply(t)
    BY <1>2, <2>1, TurnsGrow
  <2>3. ClosedRequests \subseteq ClosedRequests' /\ ClosedRequests' \subseteq Requests
    BY <1>2, <2>1, ClosedStay DEF ClosedRequests
  <2>4. /\ Len(AppliedTurns') = Len(events')
        /\ \A i \in 1..Len(events') :
              AppliedTurns'[i] = [request |-> events'[i], form |-> responses'[events'[i]].form]
    <3>1. Len(events') \in Nat
      BY <2>1 DEF Inv, TypeOK
    <3> QED
      BY <3>1 DEF AppliedTurns
  <2>5. \A i \in 1..Len(AppliedTurns') : AppliedTurns'[i].request \notin ClosedRequests'
    <3> SUFFICES ASSUME NEW i \in 1..Len(events') PROVE events'[i] \notin ClosedRequests'
      <4>1. ASSUME NEW i \in 1..Len(events') PROVE AppliedTurns'[i].request = events'[i]
        <5>1. AppliedTurns'[i] = [request |-> events'[i], form |-> responses'[events'[i]].form]
          BY <2>4
        <5> QED
          BY <5>1
      <4> QED
        BY <2>4, <4>1
    <3>1. i # 0 /\ responses'[events'[i]].version = i
      <4>1. Len(events') \in Nat /\ TurnsAreWhole'
        BY <2>1 DEF Inv, IInv, TypeOK
      <4> QED
        BY <4>1 DEF TurnsAreWhole
    <3> QED
      BY <3>1 DEF ClosedRequests, Stored
  <2>6. answers \subseteq answers'
    BY <2>1 DEF Keeps
  <2>7. ASSUME NEW a \in answers' PROVE Promise!AnswersCommitted(a) \/ Promise!AnswersRefused(a)
    <3>1. a.request \in Requests /\ a.said \in Final
      BY <2>1 DEF Inv, TypeOK, Answer
    <3>2. CASE a.said = "committed"
      <4>1. /\ responses'[a.request].version # 0
            /\ a.form = responses'[a.request].form /\ a.version = responses'[a.request].version
        BY <2>1, <3>2 DEF Inv, IInv, AnswersOwnSubmission, Stored
      <4>2. /\ responses'[a.request].version \in 1..version' /\ version' = Len(events')
            /\ events'[responses'[a.request].version] = a.request
        BY <2>1, <3>1, <4>1 DEF Inv, IInv, TurnsAreWhole, Stored
      <4> QED
        BY <2>4, <3>2, <4>1, <4>2 DEF Promise!AnswersCommitted
    <3>3. CASE a.said # "committed"
      <4>1. a.said \in Promise!Refusals
        BY <3>1, <3>3 DEF Promise!Refusals, Final
      <4>2. CASE AmbiguousCommits /\ a.said = "unknown"
        BY <4>1, <4>2 DEF Promise!AnswersRefused
      <4>3. CASE ~(AmbiguousCommits /\ a.said = "unknown")
        <5>1. ~Stored(a.request)'
          BY <2>1, <3>1, <3>3, <4>3 DEF Inv, IInv, AnswersInv, Refuses, Final, Closed
        <5>2. a.request \in ClosedRequests'
          BY <3>1, <3>3, <4>3, <5>1 DEF ClosedRequests
        <5> QED
          BY <4>1, <5>2 DEF Promise!AnswersRefused
      <4> QED
        BY <4>2, <4>3
    <3> QED
      BY <3>2, <3>3
  <2> QED
    BY <2>2, <2>3, <2>5, <2>6, <2>7 DEF Promise!Step
<1> QED
  BY <1>1, <1>2, Invariant, PTL DEF Spec, PromiseSpec, Promise!Spec

=============================================================================
