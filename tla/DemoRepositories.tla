-------------------------- MODULE DemoRepositories --------------------------
(***************************************************************************)
(* What the Demo's repositories ask before they stage a row of a character *)
(* or a run (infrastructure/demo_persistence.py).  Nothing below them does: *)
(* no statement of theirs reaches a database that could refuse it.         *)
(*                                                                         *)
(* Published is the store's rows, staged those of the unit of work; a      *)
(* repository sees both, as far as they have come: of a run, the rows up   *)
(* to the version that is being written.                                   *)
(***************************************************************************)
EXTENDS DurableSchema

Versioned == {"run", "participation", "run_receipt"}

Visible(published, staged, n) ==
    published \cup {row \in staged : row.table \in Versioned => row.version <= n}

\* The first revision of a new character with its player's binding, or the
\* successor of the current one.
AddsRevision(published, staged, row) ==
    IF row.rev = 1
    THEN Revisions(published, row.char) = {} /\ Binding(row.who) \in published \cup staged
    ELSE /\ Revisions(published, row.char) # {}
         /\ Character(published, row.char).rev = row.rev - 1
         /\ Character(published, row.char).who = row.who

AddsCreationReceipt(visible, row) ==
    /\ \E first \in Revisions(visible, row.char) : first.rev = 1
    /\ ValidCharacter(visible, row.char)

AddsMutationReceipt(visible, row) ==
    /\ {row.rev - 1, row.rev} \subseteq {m.rev : m \in Revisions(visible, row.char)}
    /\ ValidCharacter(visible, row.char)

\* Only the unit of work of native admission writes what only native runs have.
AddsRun(published, staged, row, native) ==
    IF row.version = 1
    THEN row.kind = "CREATE" /\ row.char = None /\ RunRevisions(published, row.run) = {}
    ELSE LET before == Visible(published, staged, row.version - 1) IN
         /\ row.kind \in {"ATTACH", "BIND"} \cup DOMAIN NativeSuffix
         /\ row.kind \in DOMAIN NativeSuffix => native
         /\ RunRevisions(before, row.run) # {}
         /\ Run(before, row.run).version = row.version - 1

\* The current row moves on with the revision; a character is held by one run.
SwapsRun(visible, row) ==
    row.status \in ActiveLine /\ row.char # None => ActiveRuns(visible, row.char) \subseteq {row.run}

AddsParticipation(visible, row) ==
    \E m \in RunRevisions(visible, row.run) : m.version = row.version /\ m.kind \in JoinKinds

AddsRunCreation(visible, row) ==
    /\ \E m \in RunRevisions(visible, row.run) : m.version = 1 /\ m.op = row.op
    /\ ValidRun(visible, row.run)

\* A receipt has both revisions before it, and says of a join whom it joined, of
\* a binding which character, and of a native step its evidence.
AddsRunReceipt(visible, row, native) ==
    /\ {row.version - 1, row.version} \subseteq {m.version : m \in RunRevisions(visible, row.run)}
    /\ CASE row.kind = "ATTACH" -> Participation(row.subject, row.run, row.version) \in visible
         [] row.kind = "BIND" -> Revisions(visible, row.subject) # {}
         [] OTHER -> /\ native
                     /\ \E e \in Table(visible, "evidence") : e.run = row.run /\ e.version = row.version
    /\ ValidRun(visible, row.run)

\* An opening that was confirmed stays so.
SavesOpening(published, row) == Confirmations(published, row.offer) = {}

NativeTables == {"admission"} \cup WorldTables

\* Every row of a character or a run that a unit of work writes may be staged.
Stageable(published, staged, native) ==
    \A row \in staged :
        LET visible == IF row.table \in Versioned THEN Visible(published, staged, row.version)
                       ELSE Visible(published, staged, 1)
        IN
        CASE row.table = "revision" -> AddsRevision(published, staged, row)
          [] row.table = "creation_receipt" -> AddsCreationReceipt(visible, row)
          [] row.table = "mutation_receipt" -> AddsMutationReceipt(visible, row)
          [] row.table = "run" -> AddsRun(published, staged, row, native) /\ SwapsRun(visible, row)
          [] row.table = "participation" -> AddsParticipation(visible, row)
          [] row.table = "run_creation" -> AddsRunCreation(visible, row)
          [] row.table = "run_receipt" -> AddsRunReceipt(visible, row, native)
          [] row.table \in {"offer", "confirmation"} -> SavesOpening(published, row)
          [] OTHER -> row.table \in NativeTables => native
=============================================================================
