---------------------------- MODULE DurableSchema ----------------------------
(***************************************************************************)
(* What the tables the migrations create demand of the rows in them: the   *)
(* unique keys, the foreign keys (each names a unique key of another row)  *)
(* and the checks, as the last of the migrations leaves them.  MySQL       *)
(* enforces this on every statement; the Demo's maps have nobody to.       *)
(*                                                                         *)
(*   alembic/versions/*_0001 to _0003   sessions, turns, events, jobs      *)
(*   alembic/versions/*_0004            player characters                  *)
(*   alembic/versions/*_0005 and on     runs, and what a native run adds   *)
(*                                                                         *)
(* Left out: the widths and spellings of identifiers, the sizes of blobs,  *)
(* timestamps, and columns that repeat a blob's content.                   *)
(***************************************************************************)
EXTENDS NativeFamily

Turn(s, key, body) == [table |-> "turn", session |-> s, key |-> key, body |-> body]

-----------------------------------------------------------------------------
(* Unique keys                                                             *)

\* A run's root of a world, its visits and what they entered.
WorldKeys(row) ==
    CASE row.table = "root" -> {<<"root", row.run, row.basis>>}
      [] row.table = "visit" ->
            {<<"visit", row.run, row.ordinal>>, <<"visit at", row.run, row.joined>>,
             <<"visited", row.session>>, <<"visit of", row.run, row.session>>}
      [] row.table = "entry" -> {<<"entry", row.run, row.session>>, <<"entered", row.session>>}
      [] OTHER -> {}

\* The evidence is a column of the receipt.
StoreKeys(row) ==
    CASE row.table = "turn" -> {<<"turn", row.session, row.key>>}
      [] row.table = "event" -> {<<"event", row.session, row.seq>>}
      [] row.table = "evidence" -> {<<"evidence", row.run, row.version>>}
      [] row.table = "participation" ->
            UniqueKeys(row) \cup {<<"joined exactly", row.session, row.run, row.version>>}
      [] row.table \in WorldTables -> WorldKeys(row)
      [] OTHER -> UniqueKeys(row)

KeysOf(rows) == UNION {StoreKeys(row) : row \in rows}

-----------------------------------------------------------------------------
(* Foreign keys                                                            *)

GameReferences(row) == IF row.table \in {"turn", "event"} THEN {<<"session", row.session>>} ELSE {}

CharacterReferences(row) ==
    CASE row.table = "revision" -> {<<"binding", row.who>>}
      [] row.table = "creation_receipt" -> {<<"binding", row.who>>, <<"revision", row.char, 1>>}
      [] row.table = "mutation_receipt" ->
            {<<"revision", row.char, row.rev - 1>>, <<"revision", row.char, row.rev>>}
      [] OTHER -> {}

(* The receipt of a BIND names the character revision it bound in a column  *)
(* of its own; that column is not modelled, the run it made carries the     *)
(* character.                                                               *)
RunReferences(row) ==
    CASE row.table = "run" -> IF row.char = None THEN {} ELSE {<<"revision", row.char, row.rev>>}
      [] row.table = "participation" ->
            {<<"session", row.session>>, <<"run", row.run, row.version>>}
      [] row.table = "run_creation" -> {<<"run", row.run, 1>>}
      [] row.table = "run_receipt" ->
            {<<"run", row.run, row.version>>}
            \cup (IF row.kind \in JoinKinds
                  THEN {<<"joined exactly", row.subject, row.run, row.version>>} ELSE {})
            \cup (IF row.kind = "BIND" THEN {<<"revision", row.subject, 1>>} ELSE {})
      [] OTHER -> {}

\* The entry world hangs on the third revision.
EntryWorldReferences(row) == IF row.table = "admission" THEN {<<"run", row.run, 3>>} ELSE {}

\* The first two visits are written together, at the fourth revision.
VisitReferences(row) ==
    CASE row.table = "root" -> {<<"run", row.run, 4>>}
      [] row.table = "visit" ->
            {<<"run", row.run, Max({4, row.joined})>>,
             <<"joined exactly", row.session, row.run, row.joined>>,
             <<"root", row.run, "sealed">>}
      [] OTHER -> {}

EntryReferences(row) == IF row.table = "entry" THEN {<<"visit of", row.run, row.session>>} ELSE {}

OpeningReferences(row) ==
    CASE row.table = "offer" -> {<<"revision", row.char, 1>>}
      [] row.table = "confirmation" -> {<<"offer", row.offer>>, <<"run", row.run, 1>>}
      [] OTHER -> {}

ForeignKeys(row) ==
    UNION {GameReferences(row), CharacterReferences(row), RunReferences(row),
           EntryWorldReferences(row), VisitReferences(row), EntryReferences(row),
           OpeningReferences(row)}

-----------------------------------------------------------------------------
(* Checks                                                                  *)

LifeAfter == [CREATE |-> "ACTIVE", RETIRE |-> "RETIRED", FINAL_DEATH |-> "DECEASED"]

RevisionCheck(row) ==
    /\ row.kind \in DOMAIN LifeAfter /\ row.life = LifeAfter[row.kind]
    /\ (row.kind = "CREATE") = (row.rev = 1)

MutationReceiptCheck(row) ==
    /\ row.kind \in {"RETIRE", "FINAL_DEATH"} /\ row.life = LifeAfter[row.kind]
    /\ row.rev >= 2

\* The suffixes of a native run, added one migration at a time: each at one
\* version, and an end for each place the run may be left.
NativeSuffix == [EXIT |-> 4..6, CONTINUE |-> {4}, REVISIT |-> {5}, COMPLETE |-> {6}]
StatusAfter ==
    [EXIT |-> "TERMINATED", CONTINUE |-> "ACTIVE", REVISIT |-> "ACTIVE", COMPLETE |-> "COMPLETED"]

RunCheck(row) ==
    CASE row.kind = "CREATE" -> row.version = 1
      [] row.kind \in {"ATTACH", "BIND"} -> row.version >= 2
      [] OTHER -> /\ row.kind \in DOMAIN NativeSuffix /\ row.version \in NativeSuffix[row.kind]
                  /\ row.status = StatusAfter[row.kind]
                  /\ row.char # None

RunReceiptCheck(row) ==
    \/ row.kind \in {"ATTACH", "BIND"} /\ row.version >= 2
    \/ row.kind \in DOMAIN NativeSuffix /\ row.version \in NativeSuffix[row.kind]

VisitCheck(row) == row.ordinal \in 1..3 /\ row.joined = row.ordinal + 2

RowCheck(row) ==
    CASE row.table = "revision" -> RevisionCheck(row)
      [] row.table = "mutation_receipt" -> MutationReceiptCheck(row)
      [] row.table = "run" -> RunCheck(row)
      [] row.table = "run_receipt" -> RunReceiptCheck(row)
      [] row.table = "participation" -> row.version >= 2
      [] row.table = "visit" -> VisitCheck(row)
      [] row.table = "offer" -> row.ordinal >= 1
      [] OTHER -> TRUE

\* An opening is pending or has a run; a character holds at most one that pends.
OpeningCheck(rows, offer) ==
    LET confirmed == Confirmations(rows, offer.offer) IN
    /\ Cardinality(confirmed) <= 1
    /\ confirmed = {} => \A other \in Offers(rows, offer.char) :
                             Confirmations(rows, other.offer) = {} => other = offer

\* Where a run is: one of its visits, at a revision with two or three of them.
PositionCheck(D, r) ==
    /\ D.position[r].version \in {4, 5}
    /\ {<<"run", r, D.position[r].version>>, <<"visit of", r, D.position[r].session>>} \subseteq KeysOf(D.rows)

\* One job for one request; its columns hang together.
JobsCheck(D) ==
    /\ {j.session : j \in D.jobs} \subseteq DOMAIN D.sess
    /\ \A j, other \in D.jobs : <<j.session, j.key>> = <<other.session, other.key>> => j = other

\* No two rows share a key: each has one holder.
KeyHolders(rows) == UNION {{<<key, row>> : key \in StoreKeys(row)} : row \in rows}
KeysAreUnique(rows) == Cardinality(KeyHolders(rows)) = Cardinality(KeysOf(rows))

\* What the database would let stand.
SchemaHolds(D) ==
    /\ KeysAreUnique(D.rows)
    /\ UNION {ForeignKeys(row) : row \in D.rows} \subseteq KeysOf(D.rows)
    /\ \A row \in D.rows : RowCheck(row)
    /\ \A offer \in Table(D.rows, "offer") : OpeningCheck(D.rows, offer)
    /\ \A r \in DOMAIN D.position : PositionCheck(D, r)
    /\ DOMAIN D.snap \subseteq DOMAIN D.sess
    /\ JobsCheck(D)
=============================================================================
