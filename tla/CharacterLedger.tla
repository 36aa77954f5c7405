--------------------------- MODULE CharacterLedger ---------------------------
(***************************************************************************)
(* What the character and run tables hold, and what one transaction makes  *)
(* of them.  The tables are a set of rows: a revision is never rewritten,  *)
(* so the current row of a character or run is its newest revision, and a  *)
(* confirmed opening is an offer with a confirmation beside it.  Each      *)
(* operation of                                                            *)
(*                                                                         *)
(*   player_character_service.py   create, retire, end a character         *)
(*   run_entry_service.py          the older entry into a run              *)
(*   native_run_admission.py       the native entry                        *)
(*   opening_preparation.py        prepare and confirm an opening          *)
(*   run_service.py                create, bind and attach, internally     *)
(*   session_service.py            create a session outside any run        *)
(*                                                                         *)
(* is a verdict: what it answers, given the rows it reads under lock and   *)
(* those its plain reads see, and the rows it would insert.  What the      *)
(* repositories call a complete family of rows, and refuse to load         *)
(* otherwise, is stated at the end.                                        *)
(***************************************************************************)
EXTENDS Integers, FiniteSets

CONSTANTS
    MaxRevision,  \* the last revision a character may have
    Worlds,       \* the scenarios and entry worlds the content defines
    LegalPicks    \* the talent selections an offer allows

ASSUME RevisionAssumption == MaxRevision \in Nat \ {0, 1}
ASSUME ContentAssumption == Worlds # {} /\ LegalPicks # {}

None == -1
Home == 0   \* a character that exists from the start; others are named by their call

-----------------------------------------------------------------------------
(* Rows                                                                    *)

Table(S, t) == {row \in S : row.table = t}

Binding(who) == [table |-> "binding", who |-> who]

Revision(x, rev, life, who, kind, body) ==
    [table |-> "revision", char |-> x, rev |-> rev, life |-> life, who |-> who,
     kind |-> kind, body |-> body]

CreationReceipt(q, x) ==
    [table |-> "creation_receipt", who |-> q.who, key |-> q.key, body |-> q.body, char |-> x]

MutationReceipt(m, q, life) ==
    [table |-> "mutation_receipt", char |-> q.char, key |-> q.key, kind |-> q.kind,
     rev |-> m.rev + 1, life |-> life]

Revisions(S, x) == {row \in Table(S, "revision") : row.char = x}
Character(S, x) ==
    CHOOSE row \in Revisions(S, x) : \A other \in Revisions(S, x) : other.rev <= row.rev

CreationReceipts(S, q) ==
    {row \in Table(S, "creation_receipt") : row.who = q.who /\ row.key = q.key}
MutationReceipts(S, q) ==
    {row \in Table(S, "mutation_receipt") : row.char = q.char /\ row.key = q.key}

RunRow(r, version, status, kind, op, x, rev) ==
    [table |-> "run", run |-> r, version |-> version, status |-> status, kind |-> kind,
     op |-> op, char |-> x, rev |-> rev]

RunRevisions(S, r) == {row \in Table(S, "run") : row.run = r}
Run(S, r) ==
    CHOOSE row \in RunRevisions(S, r) :
        \A other \in RunRevisions(S, r) : other.version <= row.version
Participations(S, r) == {row \in Table(S, "participation") : row.run = r}

Participation(s, r, version) ==
    [table |-> "participation", session |-> s, run |-> r, version |-> version]

RunCreation(op, r, x, rev, world) ==
    [table |-> "run_creation", op |-> op, run |-> r, char |-> x, rev |-> rev, world |-> world]

RunReceipt(r, version, kind, op, subject) ==
    [table |-> "run_receipt", run |-> r, version |-> version, kind |-> kind, op |-> op,
     subject |-> subject]

Session(s, op, body) == [table |-> "session", session |-> s, op |-> op, body |-> body]
Admission(r, world) == [table |-> "admission", run |-> r, world |-> world]

ActiveLine == {"PRE_FIRST_TURN", "ACTIVE"}

\* The runs that hold the character: the unique column of run_current.
ActiveRuns(S, x) ==
    {row.run : row \in {m \in Table(S, "run") :
        m.char = x /\ m.status \in ActiveLine /\ m = Run(S, m.run)}}

\* The plain reads name the runs that ever bound the character; what they
\* are now is read under lock.
ActiveRunsNamed(S, V, x) ==
    {r \in ActiveRuns(S, x) : \E row \in Table(V, "run") : row.run = r /\ row.char = x}

Offers(S, x) == {row \in Table(S, "offer") : row.char = x}
Confirmations(S, o) == {row \in Table(S, "confirmation") : row.offer = o}
LatestOffer(S, x) ==
    CHOOSE row \in Offers(S, x) : \A other \in Offers(S, x) : other.ordinal <= row.ordinal
PendingOffer(S, x) == Offers(S, x) # {} /\ Confirmations(S, LatestOffer(S, x).offer) = {}

\* The identity of an operation; an entry derives every internal identity,
\* the session's creation request among them, from it.
Op(q) ==
    [family |-> CASE q.op = "enter" -> "legacy"
                  [] q.op \in {"admit", "prepare", "confirm"} -> "native"
                  [] q.op = "create_session" -> "session"
                  [] OTHER -> "internal",
     who |-> q.who, key |-> q.key, offer |-> q.offer]

RunCreations(S, op) == {row \in Table(S, "run_creation") : row.op = op}
StepReceipts(S, q, kind) ==
    {row \in Table(S, "run_receipt") : row.run = q.run /\ row.kind = kind /\ row.op = Op(q)}
SessionsOf(S, op) == {row \in Table(S, "session") : row.op = op}

-----------------------------------------------------------------------------
(* Verdicts                                                                *)

Refuse(code) == [code |-> code, result |-> <<>>, rows |-> {}]
Answer(result) == [code |-> "ok", result |-> result, rows |-> {}]
Apply(result, rows) == [code |-> "ok", result |-> result, rows |-> rows]

CreationRows(q, x) ==
    {Revision(x, 1, "ACTIVE", q.who, "CREATE", q.body), CreationReceipt(q, x)}

CreateReuse(q, receipt) ==
    IF receipt.body # q.body THEN Refuse("IDEMPOTENCY_CONFLICT")
    ELSE Answer(<<"character", receipt.char>>)

CreateVerdict(V, q, x) ==
    IF CreationReceipts(V, q) # {}
    THEN CreateReuse(q, CHOOSE row \in CreationReceipts(V, q) : TRUE)
    ELSE Apply(<<"character", x>>, CreationRows(q, x))

\* The loser of a race for the first binding may only read what the winner left.
CreateRecovery(V, q) ==
    IF CreationReceipts(V, q) # {}
    THEN CreateReuse(q, CHOOSE row \in CreationReceipts(V, q) : TRUE)
    ELSE Refuse("STORED_RECEIPT_INTEGRITY_FAILURE")

Successor == [RETIRE |-> "RETIRED", FINAL_DEATH |-> "DECEASED"]
MutationKinds == {"RETIRE", "REACTIVATE", "FINAL_DEATH", "CONTINUITY_RETURN"}

\* "confirmed": the command carries the player's confirmation, or the
\* server's evidence of a death, for this revision and operation.
Policy(m, q) ==
    IF q.rev # m.rev THEN "STALE_REVISION"
    ELSE IF m.rev = MaxRevision THEN "REVISION_EXHAUSTED"
    ELSE IF m.life \notin (CASE q.kind = "RETIRE" -> {"ACTIVE"}
                             [] q.kind = "REACTIVATE" -> {"RETIRED"}
                             [] q.kind = "FINAL_DEATH" -> {"ACTIVE", "RETIRED"}
                             [] OTHER -> {"DECEASED"}) THEN "INVALID_TRANSITION"
    ELSE IF q.kind # "CONTINUITY_RETURN" /\ ~q.confirmed THEN "CONFIRMATION_REQUIRED"
    ELSE IF q.kind \notin DOMAIN Successor THEN "AUTHORITY_UNAVAILABLE"
    ELSE "ACCEPTED"

MutationRows(m, q) ==
    {Revision(q.char, m.rev + 1, Successor[q.kind], m.who, q.kind, m.body),
     MutationReceipt(m, q, Successor[q.kind])}

MutateReuse(m, q, receipt) ==
    IF receipt.kind # q.kind \/ receipt.rev # q.rev + 1 \/ ~q.confirmed
    THEN Refuse("IDEMPOTENCY_CONFLICT")
    ELSE IF \/ m.rev < receipt.rev
            \/ m.rev = receipt.rev /\ (m.life # receipt.life \/ m.kind # q.kind)
    THEN Refuse("STORED_RECEIPT_INTEGRITY_FAILURE")
    ELSE Answer(<<"mutated", q.char, receipt.rev, receipt.life>>)

Owned(S, q) == Revisions(S, q.char) # {} /\ Character(S, q.char).who = q.who

\* Mutant: retiring does not look for a run that holds the character.
MutateVerdictUnguarded(S, V, q) ==
    LET m == Character(S, q.char) IN
    IF ~Owned(S, q) THEN Refuse("AUTHORIZATION_FAILED")
    ELSE IF q.rev = MaxRevision THEN Refuse("REVISION_EXHAUSTED")
    ELSE IF MutationReceipts(V, q) # {}
    THEN MutateReuse(m, q, CHOOSE row \in MutationReceipts(V, q) : TRUE)
    ELSE IF Policy(m, q) # "ACCEPTED" THEN Refuse(Policy(m, q))
    ELSE Apply(<<"mutated", q.char, m.rev + 1, Successor[q.kind]>>, MutationRows(m, q))

MutateVerdict(S, V, q) ==
    LET m == Character(S, q.char) IN
    IF ~Owned(S, q) THEN Refuse("AUTHORIZATION_FAILED")
    ELSE IF q.rev = MaxRevision THEN Refuse("REVISION_EXHAUSTED")
    ELSE IF MutationReceipts(V, q) # {}
    THEN MutateReuse(m, q, CHOOSE row \in MutationReceipts(V, q) : TRUE)
    ELSE IF q.rev # m.rev THEN Refuse("STALE_REVISION")
    ELSE IF q.kind \in DOMAIN Successor /\ ActiveRunsNamed(S, V, q.char) # {}
    THEN Refuse(IF m.life = "ACTIVE" THEN "ACTIVE_BINDING_ATOMIC_LIFECYCLE_TRANSITION_REQUIRED"
                ELSE "INTEGRITY")
    ELSE IF Policy(m, q) # "ACCEPTED" THEN Refuse(Policy(m, q))
    ELSE Apply(<<"mutated", q.char, m.rev + 1, Successor[q.kind]>>, MutationRows(m, q))

-----------------------------------------------------------------------------
(* Entering a run                                                          *)

EntryCreation(op, q, r) ==
    {RunRow(r, 1, "PRE_FIRST_TURN", "CREATE", op, None, None),
     RunCreation(op, r, q.char, q.rev, q.world)}

EntryBinding(op, q, r) ==
    {RunRow(r, 2, "PRE_FIRST_TURN", "BIND", op, q.char, q.rev),
     RunReceipt(r, 2, "BIND", op, q.char)}

EntryActivation(op, q, r, s) ==
    {RunRow(r, 3, "ACTIVE", "ATTACH", op, q.char, q.rev),
     RunReceipt(r, 3, "ATTACH", op, s),
     Participation(s, r, 3)}

\* Three revisions, their receipts and the run's first session at once; a
\* native run also records its protocol and world.
EntryRows(op, q, r, s) ==
    EntryCreation(op, q, r) \cup EntryBinding(op, q, r) \cup EntryActivation(op, q, r, s)
    \cup {Session(s, op, q.world)}
    \cup IF op.family = "native" THEN {Admission(r, q.world)} ELSE {}

FirstSession(S, r) == (CHOOSE row \in Participations(S, r) : row.version = 3).session

\* Mutant: an entry is replayed without comparing what it asked for.
EntryReplayAny(S, op, q, receipt) == Answer(<<"run", receipt.run, FirstSession(S, receipt.run)>>)

SameEntry(receipt, q) ==
    receipt.char = q.char /\ receipt.rev = q.rev /\ receipt.world = q.world

\* The older entry is replayed only while the run is as the entry left it.
LegacyReplay(S, q, receipt) ==
    IF ~SameEntry(receipt, q) THEN Refuse("IDEMPOTENCY_CONFLICT")
    ELSE IF RunRevisions(S, receipt.run) = {} \/ Run(S, receipt.run).version # 3
    THEN Refuse("INTEGRITY")
    ELSE IF \A row \in Participations(S, receipt.run) : row.version # 3 THEN Refuse("INTEGRITY")
    ELSE Answer(<<"run", receipt.run, FirstSession(S, receipt.run)>>)

\* The native one whatever has become of the run, from what its admission recorded.
NativeReplay(S, q, receipt) ==
    IF ~SameEntry(receipt, q) THEN Refuse("IDEMPOTENCY_CONFLICT")
    ELSE IF \A row \in Table(S, "admission") : row.run # receipt.run THEN Refuse("INTEGRITY")
    ELSE IF \A row \in Participations(S, receipt.run) : row.version # 3 THEN Refuse("INTEGRITY")
    ELSE Answer(<<"run", receipt.run, FirstSession(S, receipt.run)>>)

EntryReplay(S, op, q, receipt) ==
    IF op.family = "legacy" THEN LegacyReplay(S, q, receipt) ELSE NativeReplay(S, q, receipt)

\* Mutant: entry compares the revision only, not what the character has become.
EntryAnyLife(S, V, op, q, r, s) ==
    LET m == Character(S, q.char) IN
    IF m.rev # q.rev THEN Refuse("PLAYER_CHARACTER_STALE")
    ELSE IF ActiveRunsNamed(S, V, q.char) # {} THEN Refuse("PLAYER_CHARACTER_NOT_ELIGIBLE")
    ELSE IF q.world \notin Worlds
    THEN Refuse(IF op.family = "legacy" THEN "INVALID_SCENARIO_DEFINITION" ELSE "INVALID_ENTRY_WORLD")
    ELSE IF SessionsOf(V, op) # {} THEN Refuse("RUN_ENTRY_CONFLICT")
    ELSE Apply(<<"run", r, s>>, EntryRows(op, q, r, s))

EntryStage(S, V, op, q, r, s) ==
    LET m == Character(S, q.char) IN
    IF m.rev # q.rev THEN Refuse("PLAYER_CHARACTER_STALE")
    ELSE IF m.life # "ACTIVE" \/ m.rev = MaxRevision THEN Refuse("PLAYER_CHARACTER_NOT_ELIGIBLE")
    ELSE IF ActiveRunsNamed(S, V, q.char) # {} THEN Refuse("PLAYER_CHARACTER_NOT_ELIGIBLE")
    ELSE IF q.world \notin Worlds
    THEN Refuse(IF op.family = "legacy" THEN "INVALID_SCENARIO_DEFINITION" ELSE "INVALID_ENTRY_WORLD")
    ELSE IF SessionsOf(V, op) # {} THEN Refuse("RUN_ENTRY_CONFLICT")
    ELSE Apply(<<"run", r, s>>, EntryRows(op, q, r, s))

\* The older entry and the native one; only the native one can be given a key
\* of the openings, which it refuses unless it is the key of a stored run.
EnterVerdict(S, V, q, r, s) ==
    IF ~Owned(S, q) THEN Refuse("AUTHORIZATION_FAILED")
    ELSE IF RunCreations(V, Op(q)) # {}
    THEN EntryReplay(S, Op(q), q, CHOOSE row \in RunCreations(V, Op(q)) : TRUE)
    ELSE IF q.op = "admit" /\ q.offer # None THEN Refuse("RUN_ENTRY_CONFLICT")
    ELSE IF PendingOffer(S, q.char) THEN Refuse("PLAYER_CHARACTER_NOT_ELIGIBLE")
    ELSE EntryStage(S, V, Op(q), q, r, s)

-----------------------------------------------------------------------------
(* Openings                                                                *)

OfferRow(o, q, ordinal) ==
    [table |-> "offer", offer |-> o, who |-> q.who, char |-> q.char, ordinal |-> ordinal,
     key |-> q.key, rev |-> q.rev, world |-> q.world]

Requested(S, q) == {row \in Table(S, "offer") : row.who = q.who /\ row.key = q.key}

PrepareVerdict(S, V, q, o) ==
    LET m == Character(S, q.char)
        latest == LatestOffer(S, q.char)
        active == ActiveRunsNamed(S, V, q.char)
    IN
    IF ~Owned(S, q) THEN Refuse("PLAYER_CHARACTER_NOT_FOUND")
    ELSE IF Requested(S, q) # {}
    THEN LET prior == CHOOSE row \in Requested(S, q) : TRUE
         IN IF prior.char # q.char THEN Refuse("IDEMPOTENCY_CONFLICT")
            ELSE Answer(<<"offer", prior.offer>>)
    ELSE IF PendingOffer(S, q.char) THEN Answer(<<"offer", latest.offer>>)
    ELSE IF active # {}
    THEN IF \E row \in Offers(S, q.char) :
               /\ row = latest
               /\ \E done \in Confirmations(S, row.offer) : done.run \in active
         THEN Answer(<<"offer", latest.offer>>)
         ELSE Refuse("PLAYER_CHARACTER_NOT_ELIGIBLE")
    ELSE IF m.life # "ACTIVE" \/ m.rev = MaxRevision THEN Refuse("PLAYER_CHARACTER_NOT_ELIGIBLE")
    ELSE IF q.rev # m.rev THEN Refuse("PLAYER_CHARACTER_STALE")
    ELSE IF q.world \notin Worlds THEN Refuse("INVALID_ENTRY_WORLD")
    ELSE Apply(<<"offer", o>>,
               {OfferRow(o, q, IF Offers(S, q.char) = {} THEN 1 ELSE latest.ordinal + 1)})

\* The admission an offer freezes, under a key only the server can use.
FrozenOp(offer) == [family |-> "native", who |-> offer.who, key |-> "opening",
                    offer |-> offer.offer]

\* Read before any lock is held.
OfferFound(V, q) ==
    \E row \in Table(V, "offer") : row.offer = q.offer /\ row.who = q.who /\ row.char = q.char

ConfirmVerdict(S, V, q, r, s) ==
    LET offer == CHOOSE row \in Table(S, "offer") : row.offer = q.offer
        op == FrozenOp(offer)
        stage == EntryStage(S, V, op, offer, r, s)
    IN
    IF ~Owned(S, q) THEN Refuse("PLAYER_CHARACTER_NOT_FOUND")
    ELSE IF q.pick \notin LegalPicks THEN Refuse("INVALID_TALENT_SELECTION")
    ELSE IF Confirmations(S, q.offer) # {}
    THEN LET done == CHOOSE row \in Confirmations(S, q.offer) : TRUE
         IN IF done.pick # q.pick THEN Refuse("IDEMPOTENCY_CONFLICT")
            ELSE IF \/ RunCreations(V, op) = {}
                    \/ EntryReplay(S, op, offer,
                                   CHOOSE row \in RunCreations(V, op) : TRUE).code # "ok"
            THEN Refuse("INTEGRITY")
            ELSE Answer(<<"confirmed", q.offer, done.run>>)
    ELSE IF LatestOffer(S, q.char).offer # q.offer THEN Refuse("OPENING_PREPARATION_STALE")
    ELSE IF stage.code # "ok" THEN stage
    ELSE Apply(<<"confirmed", q.offer, r>>,
               stage.rows \cup {[table |-> "confirmation", offer |-> q.offer,
                                 pick |-> q.pick, run |-> r]})

-----------------------------------------------------------------------------
(* Runs made, bound and attached step by step, and sessions outside runs   *)

CreateRunVerdict(V, q, r) ==
    IF RunCreations(V, Op(q)) # {}
    THEN LET receipt == CHOOSE row \in RunCreations(V, Op(q)) : TRUE
         IN Answer(<<"created", receipt.run>>)
    ELSE Apply(<<"created", r>>,
               {RunRow(r, 1, "PRE_FIRST_TURN", "CREATE", Op(q), None, None),
                RunCreation(Op(q), r, None, None, None)})

StepRefusal(m, q) ==
    IF m.status \notin ActiveLine THEN "NON_ACTIVE_RUN"
    ELSE IF q.version # m.version THEN "STALE_VERSION"
    ELSE "none"

StepReplay(receipt, subject, q) ==
    IF receipt.subject = subject /\ receipt.version = q.version + 1
    THEN Answer(<<"step", q.run, receipt.version>>) ELSE Refuse("CONFLICT")

BindVerdict(S, V, q) ==
    LET m == Run(S, q.run)
        c == Character(S, q.char)
    IN
    IF ~Owned(S, q) THEN Refuse("AUTHORIZATION_FAILED")
    ELSE IF RunRevisions(S, q.run) = {} THEN Refuse("RUN_NOT_FOUND")
    ELSE IF StepReceipts(V, q, "BIND") # {}
    THEN StepReplay(CHOOSE row \in StepReceipts(V, q, "BIND") : TRUE, q.char, q)
    ELSE IF StepRefusal(m, q) # "none" THEN Refuse(StepRefusal(m, q))
    ELSE IF c.life # "ACTIVE" THEN Refuse("PLAYER_CHARACTER_INELIGIBLE")
    ELSE IF m.char # None \/ ActiveRuns(V, q.char) # {}
    THEN Refuse("PLAYER_CHARACTER_BINDING_CONFLICT")
    ELSE Apply(<<"step", q.run, m.version + 1>>,
               {RunRow(q.run, m.version + 1, m.status, "BIND", Op(q), q.char, c.rev),
                RunReceipt(q.run, m.version + 1, "BIND", Op(q), q.char)})

\* An active run admits no further session this way: its successor would not
\* be one of the shapes a run can have.
AttachVerdict(S, V, q) ==
    LET m == Run(S, q.run) IN
    IF \A row \in Table(S, "session") : row.session # q.session \/ row.op.who # q.who
    THEN Refuse("AUTHORIZATION_FAILED")
    ELSE IF RunRevisions(S, q.run) = {} THEN Refuse("RUN_NOT_FOUND")
    ELSE IF StepReceipts(S, q, "ATTACH") # {}
    THEN StepReplay(CHOOSE row \in StepReceipts(S, q, "ATTACH") : TRUE, q.session, q)
    ELSE IF StepRefusal(m, q) # "none" THEN Refuse(StepRefusal(m, q))
    ELSE IF \E row \in Table(V, "participation") : row.session = q.session
    THEN Refuse("SESSION_PARTICIPATION_CONFLICT")
    ELSE IF m.status = "ACTIVE" THEN Refuse("INTEGRITY")
    ELSE Apply(<<"step", q.run, m.version + 1>>,
               {RunRow(q.run, m.version + 1, m.status, "ATTACH", Op(q), m.char, m.rev),
                RunReceipt(q.run, m.version + 1, "ATTACH", Op(q), q.session),
                Participation(q.session, q.run, m.version + 1)})

SessionReplay(q, row) ==
    IF row.body = q.body THEN Answer(<<"session", row.session>>)
    ELSE Refuse("IDEMPOTENCY_CONFLICT")

CreateSessionVerdict(V, q, s) ==
    IF SessionsOf(V, Op(q)) # {}
    THEN SessionReplay(q, CHOOSE row \in SessionsOf(V, Op(q)) : TRUE)
    ELSE Apply(<<"session", s>>,
               {Session(s, Op(q), q.body)})

\* An exit, as RunLifecycle has it in full: the native run is over.
ExitRows(S, q) ==
    {RunRow(q.run, 4, "TERMINATED", "EXIT", Run(S, q.run).op, Run(S, q.run).char, Run(S, q.run).rev),
     RunReceipt(q.run, 4, "EXIT", Op(q), q.run)}

ExitVerdict(S, q) ==
    IF RunRevisions(S, q.run) = {} THEN Refuse("RUN_NOT_FOUND")
    ELSE IF Run(S, q.run).op.family # "native" \/ Run(S, q.run).op.who # q.who
    THEN Refuse("RUN_NOT_FOUND")
    ELSE IF Run(S, q.run).status # "ACTIVE" THEN Refuse("RUN_NOT_ELIGIBLE")
    ELSE Apply(<<"exited", q.run>>, ExitRows(S, q))

-----------------------------------------------------------------------------
(* The unique keys and the complete families of rows                       *)

CharacterKeys(row) ==
    CASE row.table = "binding" -> {<<"binding", row.who>>}
      [] row.table = "revision" -> {<<"revision", row.char, row.rev>>}
      [] row.table = "creation_receipt" ->
            {<<"creation", row.who, row.key>>, <<"created_character", row.char>>}
      [] row.table = "mutation_receipt" ->
            {<<"mutation", row.char, row.key>>, <<"mutated_revision", row.char, row.rev>>}
      [] OTHER -> {}

RunKeys(row) ==
    CASE row.table = "run" -> {<<"run", row.run, row.version>>}
      [] row.table = "run_creation" -> {<<"run_op", row.op>>, <<"created_run", row.run>>}
      [] row.table = "run_receipt" ->
            {<<"step_op", row.run, row.kind, row.op>>, <<"step", row.run, row.version>>}
      [] row.table = "participation" ->
            {<<"member", row.session>>, <<"joined", row.run, row.version>>}
      [] row.table = "admission" -> {<<"admission", row.run>>}
      [] OTHER -> {}

OpeningKeys(row) ==
    CASE row.table = "offer" ->
            {<<"offer", row.offer>>, <<"offer_key", row.who, row.key>>,
             <<"ordinal", row.char, row.ordinal>>}
      [] row.table = "confirmation" -> {<<"confirmation", row.offer>>, <<"opened_run", row.run>>}
      [] OTHER -> {}

SessionKeys(row) ==
    IF row.table = "session" THEN {<<"session", row.session>>, <<"request", row.op>>} ELSE {}

UniqueKeys(row) == UNION {CharacterKeys(row), RunKeys(row), OpeningKeys(row), SessionKeys(row)}

Keys(rows) == UNION {UniqueKeys(row) : row \in rows}

\* The nullable unique columns: the character an active run or a pending
\* opening holds.
HoldersAreUnique(S) ==
    \A x \in {row.char : row \in Table(S, "revision")} :
        /\ \A r, t \in ActiveRuns(S, x) : r = t
        /\ \A o, p \in {row.offer : row \in Offers(S, x)} :
              Confirmations(S, o) = {} /\ Confirmations(S, p) = {} => o = p

\* What a successful mutation makes of a character, read back from history.
LawfulStep(before, after, receipt) ==
    /\ after.who = before.who /\ after.body = before.body
    /\ receipt.rev = after.rev /\ receipt.life = after.life
    /\ receipt.kind = after.kind
    /\ Policy(before, [kind |-> after.kind, rev |-> before.rev, confirmed |-> TRUE]) = "ACCEPTED"
    /\ after.life = Successor[after.kind]

CharacterFamily(S, x) ==
    [history |-> Revisions(S, x),
     created |-> {row \in Table(S, "creation_receipt") : row.char = x},
     mutated |-> {row \in Table(S, "mutation_receipt") : row.char = x}]

ValidCharacter(S, x) ==
    LET family == CharacterFamily(S, x)
        length == Cardinality(family.history)
        at(n) == CHOOSE row \in family.history : row.rev = n
    IN
    /\ {row.rev : row \in family.history} = 1..length
    /\ \E receipt \in family.created :
          /\ family.created = {receipt}
          /\ at(1) = Revision(x, 1, "ACTIVE", receipt.who, "CREATE", receipt.body)
    /\ Binding(at(1).who) \in S
    /\ {row.rev : row \in family.mutated} = 2..length
    /\ Cardinality(family.mutated) = length - 1
    /\ \A receipt \in family.mutated : LawfulStep(at(receipt.rev - 1), at(receipt.rev), receipt)

\* The operations a session joins a run with.
JoinKinds == {"ATTACH", "CONTINUE", "REVISIT"}

\* Until its first turn a run is attached and bound in any order; after it the
\* shapes are closed.
LawfulShape(row, joins) ==
    CASE row.status = "ACTIVE" ->
            /\ <<row.version, row.kind>> \in {<<3, "ATTACH">>, <<4, "CONTINUE">>, <<5, "REVISIT">>}
            /\ joins = 3..row.version
      [] row.status = "TERMINATED" ->
            row.kind = "EXIT" /\ row.version \in 4..6 /\ joins = 3..(row.version - 1)
      [] row.status = "COMPLETED" -> row.kind = "COMPLETE" /\ row.version = 6 /\ joins = 3..5
      [] OTHER -> row.kind \in {"CREATE", "BIND", "ATTACH"}

\* What CanonicalRun admits: every revision after the first is a join, the one
\* binding or the end.
LawfulRun(S, row) ==
    LET joins == {p.version : p \in {p \in Participations(S, row.run) : p.version <= row.version}}
        bound == {m.version : m \in {m \in RunRevisions(S, row.run) :
                                        m.kind = "BIND" /\ m.version <= row.version}}
        ended == IF row.status \in ActiveLine THEN {} ELSE {row.version}
    IN
    /\ (row.char = None) = (bound = {})
    /\ joins \cup bound \cup ended = 2..row.version
    /\ joins \cap bound = {} /\ Cardinality(bound) <= 1
    /\ row.kind \in JoinKinds => row.version \in joins
    /\ row.kind = "CREATE" => row.version = 1
    /\ LawfulShape(row, joins)

RunFamily(S, r) ==
    [history |-> RunRevisions(S, r),
     joined |-> Participations(S, r),
     created |-> {row \in Table(S, "run_creation") : row.run = r},
     steps |-> {row \in Table(S, "run_receipt") : row.run = r}]

\* Every revision is there and is lawful, and each session joined at a revision
\* that says so.
HistoryIsWhole(S, r) ==
    LET family == RunFamily(S, r) IN
    /\ {row.version : row \in family.history} = 1..Cardinality(family.history)
    /\ \A row \in family.history : LawfulRun(S, row)
    /\ {row.version : row \in family.joined}
           = {row.version : row \in {m \in family.history : m.kind \in JoinKinds}}

\* The one binding never changes and refers to a living revision.
BindingIsKept(S, r) ==
    LET last == Run(S, r) IN
    /\ \A row \in RunRevisions(S, r) : row.char \in {None, last.char} /\ row.rev \in {None, last.rev}
    /\ last.char # None =>
          \E row \in Revisions(S, last.char) : row.rev = last.rev /\ row.life = "ACTIVE"

ReceiptShape(row) ==
    /\ row.kind \in {"BIND", "EXIT", "COMPLETE"} \cup JoinKinds
    /\ row.kind = "EXIT" => row.version \in 4..6
    /\ row.kind = "CONTINUE" => row.version = 4
    /\ row.kind = "REVISIT" => row.version = 5
    /\ row.kind = "COMPLETE" => row.version = 6

\* A receipt names the revision's operation, and the session that joined or the
\* character that was bound.
StepFits(S, after, row) ==
    /\ row.kind = after.kind
    /\ row.kind \in {"BIND", "ATTACH"} => row.op = after.op
    /\ row.kind = "BIND" => row.subject = after.char
    /\ row.kind \in JoinKinds =>
          /\ \E p \in Participations(S, row.run) : p.version = row.version /\ p.session = row.subject
          /\ \E p \in Table(S, "session") : p.session = row.subject

\* Every step has its receipt.
ReceiptsCover(S, r) ==
    LET family == RunFamily(S, r)
        at(n) == CHOOSE row \in family.history : row.version = n
    IN
    /\ \E receipt \in family.created : family.created = {receipt} /\ receipt.op = at(1).op
    /\ {row.version : row \in family.steps} = 2..Cardinality(family.history)
    /\ Cardinality(family.steps) = Cardinality(family.history) - 1
    /\ \A row \in family.steps : ReceiptShape(row) /\ StepFits(S, at(row.version), row)

ValidRun(S, r) ==
    /\ HistoryIsWhole(S, r)
    /\ BindingIsKept(S, r)
    /\ ReceiptsCover(S, r)
    /\ Run(S, r).kind \in {"EXIT", "CONTINUE", "REVISIT", "COMPLETE"} =>
          \E row \in Table(S, "admission") : row.run = r

\* A confirmed opening's run was admitted under the key the offer froze.
ValidOpening(S, offer) ==
    /\ Revisions(S, offer.char) # {}
    /\ \A done \in Confirmations(S, offer.offer) :
          /\ done.pick \in LegalPicks
          /\ \E row \in RunCreations(S, FrozenOp(offer)) : row.run = done.run

\* Mutant: the listing does not look at runs.
ListedUnjoined(S, who) ==
    {x \in {row.char : row \in Table(S, "revision")} :
        Character(S, x).who = who /\ Character(S, x).life = "ACTIVE"}

\* The unlocked listing of the characters a player may enter a run with.
Listed(S, who) ==
    {x \in {row.char : row \in Table(S, "revision")} :
        /\ Character(S, x).who = who
        /\ Character(S, x).life = "ACTIVE"
        /\ ActiveRuns(S, x) = {}}
=============================================================================
