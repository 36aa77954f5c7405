--------------------------- MODULE CharacterEntry ---------------------------
(***************************************************************************)
(* Concurrent calls to the character, entry, opening, run and session      *)
(* services, each in a transaction of its own.  The native services (entry,*)
(* prepare, confirm, exit) enter theirs through the database's named lock; *)
(* the others do not.  A call locks the character and its owner's binding, *)
(* reads, decides, inserts its rows and commits.  Reads under lock see what*)
(* is committed; plain reads see the snapshot that the transaction's first *)
(* plain read took.  An insert waits for an uncommitted row with the same  *)
(* key and fails on a committed one.                                       *)
(***************************************************************************)
EXTENDS CharacterLedger

CONSTANTS
    Calls,      \* positive numbers; a call names what it issues by its own number
    Scripts,    \* the mixes of concurrent requests, one for each call
    Seed,       \* the committed rows at the start
    MaxFaults   \* bound: transactions that die or lose their acknowledgement

ASSUME CallAssumption == Calls \subseteq Nat \ {Home}

\* What a call can ask for.
Operations == {"create", "mutate", "enter", "admit", "prepare", "confirm", "create_run",
               "bind", "attach", "exit", "create_session"}

\* The key "fresh" stands for any that nobody uses.
ASSUME ScriptAssumption ==
    \A requests \in Scripts : \A c \in Calls :
        requests[c].op \in Operations /\ requests[c].key # "fresh"

\* At the start there are valid characters, none of them a call's, and nothing else.
ASSUME SeedAssumption ==
    /\ IsFiniteSet(Seed)
    /\ \A row \in Seed :
          row.table \in {"binding", "revision", "creation_receipt", "mutation_receipt"}
    /\ \A row \in Table(Seed, "binding") : row = Binding(row.who)
    /\ \A row \in Table(Seed, "revision") : /\ ValidCharacter(Seed, row.char)
                                            /\ row.char \notin Calls \cup {None}
    /\ \A row \in Seed : row.table \in {"creation_receipt", "mutation_receipt"} =>
          Revisions(Seed, row.char) # {}
    /\ \A row, other \in Seed : UniqueKeys(row) \cap UniqueKeys(other) # {} => row = other

VARIABLES
    store,    \* the committed rows
    script,   \* the request of each call
    pc,       \* how far each call is
    held,     \* the locks each call holds
    view,     \* the snapshot of a call whose first plain read precedes its locks
    staged,   \* the rows a call has inserted and not committed
    verdict,  \* what a call will answer once it has committed
    answer,   \* what a call has answered
    faults    \* how many transactions have died

vars == <<store, script, pc, held, view, staged, verdict, answer, faults>>

NoAnswer == [code |-> "none", result |-> <<>>]

\* Mutant: openings are confirmed without the named lock.
NativeWithoutConfirm(q) == q.op \in {"admit", "prepare", "exit"}

Native(q) == q.op \in {"admit", "prepare", "confirm", "exit"}
OnCharacter(q) == q.op \in {"mutate", "enter", "admit", "prepare", "confirm", "bind", "exit"}

AfterGate(q) ==
    IF q.op = "confirm" THEN "peek"
    ELSE IF q.op = "create" \/ OnCharacter(q) THEN "lock" ELSE "decide"

Init ==
    /\ store = Seed
    /\ script \in Scripts
    /\ pc = [c \in Calls |->
                IF script[c].op = "exit" THEN "target"
                ELSE IF Native(script[c]) THEN "gate" ELSE AfterGate(script[c])]
    /\ held = [c \in Calls |-> {}]
    /\ view = [c \in Calls |-> {}]
    /\ staged = [c \in Calls |-> {}]
    /\ verdict = [c \in Calls |-> NoAnswer]
    /\ answer = [c \in Calls |-> NoAnswer]
    /\ faults = 0

-----------------------------------------------------------------------------
(* Locks and answers                                                       *)

Free(c, locks) == \A d \in Calls \ {c} : held[d] \cap locks = {}

NamedLock == <<"named lock">>

\* The character a call locks; an exit, the one its run was bound to.
CharacterOf(q) == IF q.op = "exit" THEN Run(store, q.run).char ELSE q.char

\* The rows a call locks before it reads: the character, then its owner's binding.
LocksOf(q) ==
    IF q.op = "create" THEN {<<"binding", q.who>>}
    ELSE IF Revisions(store, CharacterOf(q)) = {} THEN {}
    ELSE {<<"character", CharacterOf(q)>>, <<"binding", Character(store, CharacterOf(q)).who>>}

Seen(c) == IF view[c] = {} THEN store ELSE view[c]

\* The run and session rows it locks while deciding.
RunLocks(q) ==
    IF q.op \in {"bind", "exit"} THEN {<<"run", q.run>>}
    ELSE IF q.op = "attach" THEN {<<"run", q.run>>, <<"session", q.session>>}
    ELSE {<<"run", row.run>> : row \in {m \in Table(store, "run") : OnCharacter(q) /\ m.char = q.char}}

\* The transaction is over: nothing of it is left but the answer.
End(c, code, result) ==
    /\ answer' = [answer EXCEPT ![c] = [code |-> code, result |-> result]]
    /\ pc' = [pc EXCEPT ![c] = "done"]
    /\ held' = [held EXCEPT ![c] = {}]
    /\ view' = [view EXCEPT ![c] = {}]
    /\ staged' = [staged EXCEPT ![c] = {}]
    /\ verdict' = [verdict EXCEPT ![c] = NoAnswer]

Go(c, to) == pc' = [pc EXCEPT ![c] = to]

Verdict(c) ==
    LET q == script[c]
        V == Seen(c)
    IN
    CASE q.op = "create" -> CreateVerdict(V, q, c)
      [] q.op = "mutate" -> MutateVerdict(store, V, q)
      [] q.op \in {"enter", "admit"} -> EnterVerdict(store, V, q, c, c)
      [] q.op = "prepare" -> PrepareVerdict(store, V, q, c)
      [] q.op = "confirm" -> ConfirmVerdict(store, V, q, c, c)
      [] q.op = "create_run" -> CreateRunVerdict(V, q, c)
      [] q.op = "bind" -> BindVerdict(store, V, q)
      [] q.op = "attach" -> AttachVerdict(store, V, q)
      [] q.op = "exit" -> ExitVerdict(store, q)
      [] OTHER -> CreateSessionVerdict(V, q, c)

-----------------------------------------------------------------------------
(* Before the decision                                                     *)

\* An exit finds its run, and with it the character to lock, in a transaction
\* of its own that has ended when it asks for the named lock.
Target(c) ==
    LET first == ExitVerdict(store, script[c]) IN
    /\ pc[c] = "target"
    /\ IF first.code = "RUN_NOT_FOUND"
       THEN End(c, first.code, <<>>)
       ELSE Go(c, "gate") /\ UNCHANGED <<held, view, staged, verdict, answer>>
    /\ UNCHANGED <<store, script, faults>>

Gate(c) ==
    /\ pc[c] = "gate"
    /\ Free(c, {NamedLock})
    /\ held' = [held EXCEPT ![c] = {NamedLock}]
    /\ Go(c, AfterGate(script[c]))
    /\ UNCHANGED <<store, script, view, staged, verdict, answer, faults>>

\* The named lock is waited for thirty seconds.
GateTimeout(c) ==
    /\ pc[c] = "gate"
    /\ ~Free(c, {NamedLock})
    /\ End(c, "ACQUIRE_TIMEOUT", <<>>)
    /\ UNCHANGED <<store, script, faults>>

\* A confirmation reads its offer before it knows which character to lock.
Peek(c) ==
    /\ pc[c] = "peek"
    /\ IF OfferFound(store, script[c])
       THEN /\ view' = [view EXCEPT ![c] = store]
            /\ Go(c, "lock")
            /\ UNCHANGED <<held, staged, verdict, answer>>
       ELSE End(c, "PLAYER_CHARACTER_NOT_FOUND", <<>>)
    /\ UNCHANGED <<store, script, faults>>

\* A binding that does not exist yet cannot be locked, nor can a character.
Lock(c) ==
    LET q == script[c] IN
    /\ pc[c] = "lock"
    /\ IF q.op = "create" /\ Binding(q.who) \notin store
       THEN Go(c, "add binding") /\ UNCHANGED <<held, view, staged, verdict, answer>>
       ELSE IF OnCharacter(q) /\ Revisions(store, CharacterOf(q)) = {}
       THEN End(c, Verdict(c).code, <<>>)
       ELSE /\ Free(c, LocksOf(q))
            /\ held' = [held EXCEPT ![c] = @ \cup LocksOf(q)]
            /\ Go(c, "decide")
            /\ UNCHANGED <<view, staged, verdict, answer>>
    /\ UNCHANGED <<store, script, faults>>

AddBinding(c) ==
    LET row == Binding(script[c].who) IN
    /\ pc[c] = "add binding"
    /\ \A d \in Calls \ {c} : row \notin staged[d]
    /\ IF row \in store
       THEN Go(c, "recover") /\ UNCHANGED <<held, staged>>
       ELSE /\ staged' = [staged EXCEPT ![c] = {row}]
            /\ held' = [held EXCEPT ![c] = LocksOf(script[c])]
            /\ Go(c, "decide")
    /\ UNCHANGED <<store, script, view, verdict, answer, faults>>

-----------------------------------------------------------------------------
(* The decision, the inserts and the commit                                *)

Decide(c) ==
    /\ pc[c] = "decide"
    /\ Free(c, RunLocks(script[c]))
    /\ IF Verdict(c).rows = {}
       THEN End(c, Verdict(c).code, Verdict(c).result)
       ELSE /\ verdict' = [verdict EXCEPT ![c] = Verdict(c)]
            /\ held' = [held EXCEPT ![c] = @ \cup RunLocks(script[c])]
            /\ Go(c, "write")
            /\ UNCHANGED <<view, staged, answer>>
    /\ UNCHANGED <<store, script, faults>>

Clashes(rows) ==
    \/ Keys(rows) \cap Keys(store) # {}
    \/ ~HoldersAreUnique(store \cup rows)

\* An insert whose key somebody else has inserted waits for their commit.
Write(c) ==
    LET rows == verdict[c].rows IN
    /\ pc[c] = "write"
    /\ \A d \in Calls \ {c} : Keys(staged[d]) \cap Keys(rows) = {}
    /\ ~Clashes(rows)
    /\ staged' = [staged EXCEPT ![c] = @ \cup rows]
    /\ Go(c, "commit")
    /\ UNCHANGED <<store, script, held, view, verdict, answer, faults>>

\* What a service answers to a unique key it did not expect.
Collision(q) ==
    CASE q.op = "enter" -> IF RunCreations(store, Op(q)) # {} THEN "IDEMPOTENCY_CONFLICT"
                           ELSE "RUN_ENTRY_CONFLICT"
      [] q.op = "create_run" -> "CONFLICT"
      [] q.op = "bind" -> "PLAYER_CHARACTER_BINDING_CONFLICT"
      [] q.op = "attach" -> "SESSION_PARTICIPATION_CONFLICT"
      [] OTHER -> "UNCAUGHT"

Clash(c) ==
    /\ pc[c] = "write"
    /\ \A d \in Calls \ {c} : Keys(staged[d]) \cap Keys(verdict[c].rows) = {}
    /\ Clashes(verdict[c].rows)
    /\ IF script[c].op \in {"create_session", "mutate", "admit"}
       THEN /\ held' = [held EXCEPT ![c] = {}]
            /\ view' = [view EXCEPT ![c] = {}]
            /\ verdict' = [verdict EXCEPT ![c] = NoAnswer]
            /\ Go(c, "recover")
            /\ UNCHANGED <<staged, answer>>
       ELSE End(c, Collision(script[c]), <<>>)
    /\ UNCHANGED <<store, script, faults>>

\* A second transaction that only reads what the winner has committed.
Recovery(q) ==
    CASE q.op = "create" -> CreateRecovery(store, q)
      [] q.op = "mutate" ->
            IF ~Owned(store, q) THEN Refuse("AUTHORIZATION_FAILED")
            ELSE IF MutationReceipts(store, q) = {} THEN Refuse("STORED_RECEIPT_INTEGRITY_FAILURE")
            ELSE MutateVerdict(store, store, q)
      [] q.op = "admit" ->
            IF ~Owned(store, q) THEN Refuse("AUTHORIZATION_FAILED")
            ELSE IF RunCreations(store, Op(q)) = {} THEN Refuse("RUN_ENTRY_CONFLICT")
            ELSE EnterVerdict(store, store, q, None, None)
      [] OTHER -> CreateSessionVerdict(store, q, None)

Recover(c) ==
    LET q == script[c] IN
    /\ pc[c] = "recover"
    /\ q.op # "create_session" => Free(c, LocksOf(q))
    /\ Native(q) => Free(c, {NamedLock})
    /\ End(c, Recovery(q).code, Recovery(q).result)
    /\ UNCHANGED <<store, script, faults>>

Commit(c) ==
    /\ pc[c] = "commit"
    /\ store' = store \cup staged[c]
    /\ End(c, verdict[c].code, verdict[c].result)
    /\ UNCHANGED <<script, faults>>

\* The acknowledgement of a COMMIT is lost, whether or not it was carried out.
CommitUnknown(c) ==
    /\ pc[c] = "commit"
    /\ faults < MaxFaults
    /\ faults' = faults + 1
    /\ store' \in {store, store \cup staged[c]}
    /\ End(c, "OUTCOME_UNKNOWN", <<>>)
    /\ UNCHANGED script

\* A deadlock victim, a lost connection, a dead process: all is rolled back.
Fault(c) ==
    /\ pc[c] # "done"
    /\ faults < MaxFaults
    /\ faults' = faults + 1
    /\ End(c, "FAULT", <<>>)
    /\ UNCHANGED <<store, script>>

Finished == (\A c \in Calls : pc[c] = "done") /\ UNCHANGED vars

Step(c) ==
    \/ Target(c) \/ Gate(c) \/ GateTimeout(c) \/ Peek(c) \/ Lock(c) \/ AddBinding(c) \/ Decide(c)
    \/ Write(c) \/ Clash(c) \/ Recover(c) \/ Commit(c)

Next == Finished \/ \E c \in Calls : Step(c) \/ CommitUnknown(c) \/ Fault(c)

Spec == Init /\ [][Next]_vars

-----------------------------------------------------------------------------
(* Properties                                                              *)

\* Every character, run and opening that is committed passes the validation
\* that each repository read repeats and that turns a contradiction into an
\* internal error for ever: histories without gaps, one receipt for every
\* revision, the lawful shapes of a run, the revision a run was bound to, and
\* the unique keys and columns of the tables.
NothingFailsClosed ==
    /\ \A x \in {row.char : row \in Table(store, "revision")} : ValidCharacter(store, x)
    /\ \A r \in {row.run : row \in Table(store, "run")} : ValidRun(store, r)
    /\ \A offer \in Table(store, "offer") : ValidOpening(store, offer)
    /\ HoldersAreUnique(store)
    /\ \A row, other \in store : UniqueKeys(row) \cap UniqueKeys(other) # {} => row = other

\* A character that an active run holds is alive, at the revision the run was
\* bound to; and while an opening of it waits to be confirmed no player entry
\* has put it into a run.  Retirement, entry and the openings must respect one
\* another although only some of them take the named lock.
CharacterIsSpokenFor ==
    \A x \in {row.char : row \in Table(store, "revision")} : \A r \in ActiveRuns(store, x) :
        /\ Character(store, x).life = "ACTIVE"
        /\ Character(store, x).rev = Run(store, r).rev
        /\ PendingOffer(store, x) => Run(store, r).op.family = "internal"

\* The tables tell of the request once, and as it was answered.  Only a preparation may
\* be answered with an opening of another request: it is on record, and no second first
\* opening is on record for this one.
ToldOnce(q, told) ==
    CASE q.op = "create" ->
            {<<row.char, row.body>> : row \in CreationReceipts(store, q)} = {<<told[2], q.body>>}
      [] q.op = "mutate" ->
            {<<row.rev, row.life, row.kind>> : row \in MutationReceipts(store, q)}
                = {<<told[3], told[4], q.kind>>}
      [] q.op \in {"enter", "admit"} ->
            {<<row.run, row.char, row.rev, row.world>> : row \in RunCreations(store, Op(q))}
                = {<<told[2], q.char, q.rev, q.world>>}
      [] q.op = "prepare" ->
            /\ \E row \in Offers(store, q.char) : row.offer = told[2]
            /\ \A row \in Requested(store, q) \cap Offers(store, q.char) :
                  row.offer # told[2] => row.ordinal > 1
      [] q.op = "confirm" ->
            {<<row.run, row.pick>> : row \in Confirmations(store, q.offer)} = {<<told[3], q.pick>>}
      [] q.op = "create_run" ->
            {row.run : row \in RunCreations(store, Op(q))} = {told[2]}
      [] q.op = "bind" ->
            {<<row.version, row.subject>> : row \in StepReceipts(store, q, "BIND")}
                = {<<told[3], q.char>>}
      [] q.op = "attach" ->
            {<<row.version, row.subject>> : row \in StepReceipts(store, q, "ATTACH")}
                = {<<told[3], q.session>>}
      [] q.op = "exit" -> Run(store, q.run).status = "TERMINATED"
      [] OTHER -> {<<row.session, row.body>> : row \in SessionsOf(store, Op(q))}
                      = {<<told[2], q.body>>}

\* A success that was answered is on record under the operation's own key, as
\* it was asked, now and in every later state: no other call, retry or crash
\* makes a second story of it.
AnswersAreOnRecord ==
    \A c \in Calls : answer[c].code = "ok" => ToldOnce(script[c], answer[c].result)

Alarms == {"INTEGRITY", "UNCAUGHT", "STORED_RECEIPT_INTEGRITY_FAILURE"}

\* No interleaving makes a service report corrupt records, or fail on a unique
\* key, but three: a first character that loses its binding to another of the
\* same player's creations (the documented missing winner evidence); a session
\* attached to a run that is already active; and an opening whose character
\* the internal bind, which looks for no opening and which no route calls, has
\* given to another run since the confirmation took its snapshot.
AlarmsAreReal ==
    \A c \in Calls : answer[c].code \in Alarms =>
        \/ /\ script[c].op = "create"
           /\ \E d \in Calls \ {c} :
                 /\ script[d].op = "create" /\ script[d].who = script[c].who
                 /\ script[d].key # script[c].key
        \/ /\ script[c].op = "attach"
           /\ \E row \in Table(store, "run") : row.run = script[c].run /\ row.status = "ACTIVE"
        \/ /\ script[c].op = "confirm"
           /\ \E r \in ActiveRuns(store, script[c].char) : Run(store, r).op.family = "internal"

\* An entry of the listed character, under a key never used.
FreshEntry(who, x, world) ==
    [op |-> "admit", who |-> who, key |-> "fresh", offer |-> None, char |-> x,
     rev |-> Character(store, x).rev, world |-> world]

\* A character that is listed for entry is not stuck: an entry is accepted, or
\* its waiting opening can be confirmed.
ListedCanStart ==
    \A x \in {row.char : row \in Table(store, "revision")} :
        LET who == Character(store, x).who IN
        x \in Listed(store, who) =>
            \E world \in Worlds, pick \in LegalPicks :
                \/ EnterVerdict(store, store, FreshEntry(who, x, world), None, None).code = "ok"
                \/ /\ PendingOffer(store, x)
                   /\ ConfirmVerdict(store, store,
                         [op |-> "confirm", who |-> who, char |-> x, pick |-> pick,
                          offer |-> LatestOffer(store, x).offer], None, None).code = "ok"
=============================================================================
