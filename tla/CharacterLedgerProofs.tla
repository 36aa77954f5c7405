------------------------ MODULE CharacterLedgerProofs ------------------------
(***************************************************************************)
(* What the rows of CharacterLedger are together, said row by row, and     *)
(* which additions keep it.  The ledger's own validity is stated as the    *)
(* repositories state it, over families of rows with their newest member   *)
(* chosen and their members counted; here the same is said of single rows  *)
(* and the rows they need beside them, which is what a proof that adds     *)
(* rows can use.  Each lemma Add... is one kind of rows an operation adds, *)
(* and the last section reads the repositories' validity back.             *)
(***************************************************************************)
EXTENDS CharacterLedger, FiniteSetTheorems, TLAPS

-----------------------------------------------------------------------------
(* The unique keys, row by row                                             *)

\* Two rows that one of the tables' unique keys keeps apart.
SameKey(a, b) ==
    /\ a.table = b.table
    /\ \/ a.table = "binding" /\ a.who = b.who
       \/ a.table = "revision" /\ a.char = b.char /\ a.rev = b.rev
       \/ a.table = "creation_receipt" /\ ((a.who = b.who /\ a.key = b.key) \/ a.char = b.char)
       \/ a.table = "mutation_receipt" /\ a.char = b.char /\ (a.key = b.key \/ a.rev = b.rev)
       \/ a.table = "run" /\ a.run = b.run /\ a.version = b.version
       \/ a.table = "run_creation" /\ (a.op = b.op \/ a.run = b.run)
       \/ a.table = "run_receipt" /\ a.run = b.run
             /\ ((a.kind = b.kind /\ a.op = b.op) \/ a.version = b.version)
       \/ a.table = "participation"
             /\ (a.session = b.session \/ (a.run = b.run /\ a.version = b.version))
       \/ a.table = "admission" /\ a.run = b.run
       \/ a.table = "offer"
             /\ \/ a.offer = b.offer
                \/ a.who = b.who /\ a.key = b.key
                \/ a.char = b.char /\ a.ordinal = b.ordinal
       \/ a.table = "confirmation" /\ (a.offer = b.offer \/ a.run = b.run)
       \/ a.table = "session" /\ (a.session = b.session \/ a.op = b.op)

UniqueRows(S) == \A a, b \in S : SameKey(a, b) => a = b
Apart(S, R) == \A a \in S, b \in R : ~SameKey(a, b)

-----------------------------------------------------------------------------
(* The tables, row by row                                                  *)

Latest(S, m) ==
    /\ m \in S /\ m.table = "revision"
    /\ \A other \in S : other.table = "revision" /\ other.char = m.char => other.rev <= m.rev

LatestRun(S, m) ==
    /\ m \in S /\ m.table = "run"
    /\ \A other \in S : other.table = "run" /\ other.run = m.run => other.version <= m.version

\* The run of this row holds the character.
Holds(S, m, x) == LatestRun(S, m) /\ m.char = x /\ m.status \in ActiveLine

Unconfirmed(S, offer) ==
    /\ offer \in S /\ offer.table = "offer"
    /\ \A done \in S : done.table = "confirmation" => done.offer # offer.offer

RevisionWhole(S, row) ==
    /\ row.char # None /\ row.rev \in Nat \ {0}
    /\ \E m \in S : Latest(S, m) /\ m.char = row.char
    /\ \A k \in 1..row.rev :
          \E other \in S : other.table = "revision" /\ other.char = row.char /\ other.rev = k
    /\ row.rev = 1 =>
          \E receipt \in S :
              /\ receipt.table = "creation_receipt" /\ receipt.char = row.char
              /\ row = Revision(row.char, 1, "ACTIVE", receipt.who, "CREATE", receipt.body)
              /\ Binding(receipt.who) \in S
    /\ row.rev > 1 =>
          \E before, receipt \in S :
              /\ before.table = "revision" /\ before.char = row.char /\ before.rev = row.rev - 1
              /\ receipt.table = "mutation_receipt" /\ receipt.char = row.char
              /\ LawfulStep(before, row, receipt)

CharactersWhole(S) ==
    /\ \A row \in S : row.table = "binding" => row = Binding(row.who)
    /\ \A row \in S : row.table = "revision" => RevisionWhole(S, row)
    /\ \A row \in S : row.table = "creation_receipt" =>
          \E first \in S : first.table = "revision" /\ first.char = row.char
    /\ \A row \in S : row.table = "mutation_receipt" =>
          \E after \in S : /\ after.table = "revision" /\ after.char = row.char
                           /\ after.rev = row.rev /\ after.rev > 1

\* The shapes of the run rows that these services write.
RunShape(row) ==
    \/ /\ row.kind = "CREATE" /\ row.status = "PRE_FIRST_TURN" /\ row.version = 1
       /\ row.char = None
    \/ row.kind \in {"BIND", "ATTACH"} /\ row.status = "PRE_FIRST_TURN" /\ row.version > 1
    \/ row.kind = "ATTACH" /\ row.status = "ACTIVE" /\ row.version = 3
    \/ /\ row.kind = "EXIT" /\ row.status = "TERMINATED" /\ row.version = 4
       /\ row.op.family = "native"

Joined(S, row) ==
    \E p \in S : p.table = "participation" /\ p.run = row.run /\ p.version = row.version

\* The receipt of a revision after the first.
HasReceipt(S, row) ==
    \E receipt \in S :
        /\ receipt.table = "run_receipt" /\ receipt.run = row.run /\ receipt.version = row.version
        /\ receipt.kind = row.kind
        /\ row.kind # "EXIT" => receipt.op = row.op
        /\ row.kind = "BIND" => receipt.subject = row.char
        /\ row.kind = "ATTACH" =>
              /\ \E p \in S : /\ p.table = "participation" /\ p.run = row.run
                              /\ p.version = row.version /\ p.session = receipt.subject
              /\ \E s \in S : s.table = "session" /\ s.session = receipt.subject

RunRowPlaced(S, row) ==
    /\ row.version \in Nat \ {0}
    /\ \E m \in S : LatestRun(S, m) /\ m.run = row.run
    /\ \A k \in 1..row.version :
          \E other \in S : other.table = "run" /\ other.run = row.run /\ other.version = k

RunRowLawful(S, row) ==
    /\ RunShape(row)
    /\ row.char = None => row.rev = None
    /\ row.char # None =>
          /\ \E bound \in S :
                /\ bound.table = "run" /\ bound.run = row.run /\ bound.kind = "BIND"
                /\ bound.version <= row.version
                /\ bound.char = row.char /\ bound.rev = row.rev
          /\ \E m \in S : /\ m.table = "revision" /\ m.char = row.char
                          /\ m.rev = row.rev /\ m.life = "ACTIVE"
    /\ row.kind = "ATTACH" <=> Joined(S, row)
    /\ row.version = 1 =>
          \E created \in S : /\ created.table = "run_creation" /\ created.run = row.run
                             /\ created.op = row.op
    /\ row.version > 1 => HasReceipt(S, row)
    /\ row.status # "PRE_FIRST_TURN" /\ row.op.family = "native" =>
          \E admitted \in S : admitted.table = "admission" /\ admitted.run = row.run

RunRowWhole(S, row) == RunRowPlaced(S, row) /\ RunRowLawful(S, row)

\* What two rows of one run are to each other.
RunRowsAgree(a, b) ==
    /\ a.kind = "BIND" => (b.char = None <=> b.version < a.version)
    /\ a.status = "ACTIVE" /\ b.version = 2 => b.kind = "BIND"
    /\ a.status = "TERMINATED" /\ b.version = 3 => b.status = "ACTIVE"
    /\ a.status = "TERMINATED" => b.version <= a.version

RunsWhole(S) ==
    /\ \A row \in S : row.table = "run" => RunRowWhole(S, row)
    /\ \A a, b \in S : a.table = "run" /\ b.table = "run" /\ a.run = b.run => RunRowsAgree(a, b)
    /\ \A p \in S : p.table = "participation" =>
          \E row \in S : row.table = "run" /\ row.run = p.run /\ row.version = p.version
    /\ \A receipt \in S : receipt.table = "run_receipt" =>
          \E row \in S : /\ row.table = "run" /\ row.run = receipt.run
                         /\ row.version = receipt.version /\ row.version > 1
    /\ \A other \in S : other.table \in {"run_creation", "admission"} =>
          \E row \in S : row.table = "run" /\ row.run = other.run

\* The last opening of a character; those before it are confirmed.
EndsOpenings(S, last, x) ==
    /\ last.table = "offer" /\ last.char = x
    /\ \A other \in S : other.table = "offer" /\ other.char = x =>
          /\ other.ordinal <= last.ordinal
          /\ other = last \/ ~Unconfirmed(S, other)

OfferWhole(S, offer) ==
    /\ offer.ordinal \in Nat \ {0}
    /\ \E m \in S : m.table = "revision" /\ m.char = offer.char
    /\ \E first \in S : first.table = "offer" /\ first.char = offer.char /\ first.ordinal = 1
    /\ \E last \in S : EndsOpenings(S, last, offer.char)

OpeningsWhole(S) ==
    /\ \A offer \in S : offer.table = "offer" => OfferWhole(S, offer)
    /\ \A done \in S : done.table = "confirmation" =>
          /\ done.pick \in LegalPicks
          /\ \E offer, created \in S :
                /\ offer.table = "offer" /\ offer.offer = done.offer
                /\ created.table = "run_creation" /\ created.op = FrozenOp(offer)
                /\ created.run = done.run

\* A character is held by one run at most, alive and as it was bound; if an
\* opening of it is unconfirmed, the internal bind has put it there.
HoldersWhole(S) ==
    /\ \A m, n \in S : m.table = "run" /\ m.char # None =>
          (Holds(S, m, m.char) /\ Holds(S, n, m.char) => m = n)
    /\ \A m \in S : m.table = "run" /\ m.char # None /\ Holds(S, m, m.char) =>
          /\ \E c \in S : Latest(S, c) /\ c.char = m.char /\ c.life = "ACTIVE" /\ c.rev = m.rev
          /\ (\E offer \in S : Unconfirmed(S, offer) /\ offer.char = m.char) =>
                m.op.family = "internal"

Whole(S) ==
    /\ UniqueRows(S) /\ CharactersWhole(S) /\ RunsWhole(S)
    /\ OpeningsWhole(S) /\ HoldersWhole(S)

LEMMA KeysMeet ==
  ASSUME NEW a, NEW b
  PROVE  UniqueKeys(a) \cap UniqueKeys(b) # {} <=> SameKey(a, b)
<1>1. ASSUME SameKey(a, b) PROVE UniqueKeys(a) \cap UniqueKeys(b) # {}
  BY <1>1 DEF SameKey, UniqueKeys, CharacterKeys, RunKeys, OpeningKeys, SessionKeys
<1>2. ASSUME NEW k \in UniqueKeys(a), k \in UniqueKeys(b) PROVE SameKey(a, b)
  BY <1>2 DEF SameKey, UniqueKeys, CharacterKeys, RunKeys, OpeningKeys, SessionKeys
<1> QED
  BY <1>1, <1>2

LEMMA SameKeyTurned ==
  ASSUME NEW a, NEW b, SameKey(a, b)
  PROVE  SameKey(b, a)
  BY DEF SameKey

LEMMA UniqueTogether ==
  ASSUME NEW S, NEW R, UniqueRows(S), UniqueRows(R), Apart(S, R)
  PROVE  UniqueRows(S \cup R)
  BY SameKeyTurned DEF UniqueRows, Apart

-----------------------------------------------------------------------------
(* Tables that nothing is added to                                         *)

CharacterTables == {"binding", "revision", "creation_receipt", "mutation_receipt"}
RunTables == {"run", "participation", "run_receipt", "run_creation", "admission"}
OpeningTables == {"offer", "confirmation"}

Keeps(S, T, tables) == S \subseteq T /\ \A row \in T : row.table \in tables => row \in S

LEMMA LatestKept ==
  ASSUME NEW S, NEW T, Keeps(S, T, {"revision"})
  PROVE  \A m : Latest(T, m) <=> Latest(S, m)
  BY DEF Keeps, Latest

LEMMA LatestRunKept ==
  ASSUME NEW S, NEW T, Keeps(S, T, {"run"})
  PROVE  \A m : LatestRun(T, m) <=> LatestRun(S, m)
  BY DEF Keeps, LatestRun

LEMMA RevisionGrows ==
  ASSUME NEW S, NEW T, S \subseteq T, NEW row \in S, RevisionWhole(S, row),
         \E m \in T : Latest(T, m) /\ m.char = row.char
  PROVE  RevisionWhole(T, row)
  BY DEF RevisionWhole

LEMMA CharactersKept ==
  ASSUME NEW S, NEW T, CharactersWhole(S), Keeps(S, T, CharacterTables)
  PROVE  CharactersWhole(T)
<1>1. S \subseteq T /\ \A row \in T : row.table \in CharacterTables => row \in S
  BY DEF Keeps
<1>2. \A m : Latest(T, m) <=> Latest(S, m)
  BY <1>1, LatestKept DEF Keeps, CharacterTables
<1>3. ASSUME NEW row \in S, row.table = "revision" PROVE RevisionWhole(T, row)
  <2>1. RevisionWhole(S, row)
    BY <1>3 DEF CharactersWhole
  <2>2. \E m \in T : Latest(T, m) /\ m.char = row.char
    BY <2>1, <1>1, <1>2 DEF RevisionWhole
  <2> QED
    BY <2>1, <2>2, <1>1, RevisionGrows
<1> QED
  BY <1>1, <1>3 DEF CharactersWhole, CharacterTables

LEMMA RunRowGrows ==
  ASSUME NEW S, NEW T, S \subseteq T, NEW row \in S, RunRowWhole(S, row),
         \E m \in T : LatestRun(T, m) /\ m.run = row.run,
         Joined(T, row) => Joined(S, row)
  PROVE  RunRowWhole(T, row)
<1>1. HasReceipt(S, row) => HasReceipt(T, row)
  BY DEF HasReceipt
<1>2. Joined(S, row) => Joined(T, row)
  BY DEF Joined
<1> QED
  BY <1>1, <1>2 DEF RunRowWhole, RunRowPlaced, RunRowLawful

LEMMA RunsKept ==
  ASSUME NEW S, NEW T, RunsWhole(S), Keeps(S, T, RunTables)
  PROVE  RunsWhole(T)
<1>1. S \subseteq T /\ \A row \in T : row.table \in RunTables => row \in S
  BY DEF Keeps
<1>2. \A m : LatestRun(T, m) <=> LatestRun(S, m)
  BY <1>1, LatestRunKept DEF Keeps, RunTables
<1>3. ASSUME NEW row \in S, row.table = "run" PROVE RunRowWhole(T, row)
  <2>1. RunRowWhole(S, row)
    BY <1>3 DEF RunsWhole
  <2>2. \E m \in T : LatestRun(T, m) /\ m.run = row.run
    BY <2>1, <1>1, <1>2 DEF RunRowWhole, RunRowPlaced
  <2>3. Joined(T, row) => Joined(S, row)
    BY <1>1 DEF Joined, RunTables
  <2> QED
    BY <2>1, <2>2, <2>3, <1>1, RunRowGrows
<1> QED
  BY <1>1, <1>3 DEF RunsWhole, RunTables

LEMMA OpeningsKept ==
  ASSUME NEW S, NEW T, OpeningsWhole(S), Keeps(S, T, OpeningTables)
  PROVE  OpeningsWhole(T)
<1>1. S \subseteq T /\ \A row \in T : row.table \in OpeningTables => row \in S
  BY DEF Keeps
<1>2. \A offer : Unconfirmed(T, offer) <=> Unconfirmed(S, offer)
  BY <1>1 DEF Unconfirmed, OpeningTables
<1>3. ASSUME NEW offer \in S, OfferWhole(S, offer) PROVE OfferWhole(T, offer)
  BY <1>1, <1>2, <1>3 DEF OfferWhole, EndsOpenings, OpeningTables
<1> QED
  BY <1>1, <1>3 DEF OpeningsWhole, OpeningTables

\* The run of the second row held the character before, by the first.
Succeeds(S, before, m) ==
    /\ before.run = m.run /\ before.char = m.char /\ before.rev = m.rev
    /\ Holds(S, before, before.char)
    /\ before.op.family = "internal" => m.op.family = "internal"

\* Nothing that matters to a character that is held has changed.
HoldersCarryOver(S, T) ==
    /\ \A m \in T : m.table = "run" /\ m.char # None /\ Holds(T, m, m.char) =>
          \E before \in S : Succeeds(S, before, m)
    /\ \A m \in S : m.table = "run" /\ m.char # None /\ Holds(S, m, m.char) =>
          /\ \A c \in S : Latest(S, c) /\ c.char = m.char => Latest(T, c)
          /\ \A offer \in T : Unconfirmed(T, offer) /\ offer.char = m.char => Unconfirmed(S, offer)

LEMMA LatestRunIsOne ==
  ASSUME NEW S, UniqueRows(S), RunsWhole(S), NEW m, NEW n,
         LatestRun(S, m), LatestRun(S, n), m.run = n.run
  PROVE  m = n
<1>1. m.version \in Nat /\ n.version \in Nat /\ m.table = "run" /\ n.table = "run"
      /\ m \in S /\ n \in S
  BY DEF LatestRun, RunsWhole, RunRowWhole, RunRowPlaced
<1>2. m.version = n.version
  BY <1>1 DEF LatestRun
<1>3. SameKey(m, n)
  BY <1>1, <1>2 DEF SameKey
<1> QED
  BY <1>1, <1>3 DEF UniqueRows

LEMMA HoldersGrow ==
  ASSUME NEW S, NEW T, HoldersWhole(S), UniqueRows(T), RunsWhole(T), S \subseteq T,
         HoldersCarryOver(S, T)
  PROVE  HoldersWhole(T)
<1>1. \A m, x : Holds(S, m, x) => m \in S /\ m.table = "run"
  BY DEF Holds, LatestRun
<1>2. ASSUME NEW m \in T, NEW n \in T, m.table = "run", m.char # None,
             Holds(T, m, m.char), Holds(T, n, m.char)
      PROVE  m = n
  <2>1. n.table = "run" /\ n.char = m.char /\ LatestRun(T, m) /\ LatestRun(T, n)
    BY <1>2 DEF Holds, LatestRun
  <2>2. PICK a \in S : Succeeds(S, a, m)
    BY <1>2 DEF HoldersCarryOver
  <2>3. PICK b \in S : Succeeds(S, b, n)
    BY <1>2, <2>1 DEF HoldersCarryOver
  <2>4. a = b
    BY <2>1, <2>2, <2>3, <1>1, <1>2 DEF HoldersWhole, Succeeds
  <2>5. m.run = n.run
    BY <2>2, <2>3, <2>4 DEF Succeeds
  <2> QED
    BY <2>1, <2>5, LatestRunIsOne
<1>3. ASSUME NEW m \in T, m.table = "run", m.char # None, Holds(T, m, m.char)
      PROVE  /\ \E c \in T : Latest(T, c) /\ c.char = m.char /\ c.life = "ACTIVE" /\ c.rev = m.rev
             /\ (\E offer \in T : Unconfirmed(T, offer) /\ offer.char = m.char) =>
                   m.op.family = "internal"
  <2>1. PICK a \in S : Succeeds(S, a, m)
    BY <1>3 DEF HoldersCarryOver
  <2>2. a.table = "run" /\ a.char # None /\ a.char = m.char /\ a.rev = m.rev /\ Holds(S, a, a.char)
    BY <2>1, <1>1, <1>3 DEF Succeeds
  <2>3. \E c \in S : Latest(S, c) /\ c.char = a.char /\ c.life = "ACTIVE" /\ c.rev = a.rev
    BY <2>2 DEF HoldersWhole
  <2>4. ASSUME NEW offer \in T, Unconfirmed(T, offer), offer.char = m.char
        PROVE  m.op.family = "internal"
    <3>1. Unconfirmed(S, offer) /\ offer \in S /\ offer.char = a.char
      BY <2>4, <2>2, <1>1 DEF Unconfirmed, HoldersCarryOver
    <3>2. a.op.family = "internal"
      BY <2>2, <3>1 DEF HoldersWhole
    <3> QED
      BY <2>1, <3>2 DEF Succeeds
  <2> QED
    BY <2>2, <2>3, <2>4, <1>1 DEF HoldersCarryOver
<1> QED
  BY <1>2, <1>3 DEF HoldersWhole

LEMMA HoldersKept ==
  ASSUME NEW S, NEW T, HoldersWhole(S), UniqueRows(T), RunsWhole(T),
         Keeps(S, T, {"revision", "run", "offer"})
  PROVE  HoldersWhole(T)
<1>1. S \subseteq T /\ \A row \in T : row.table \in {"revision", "run", "offer"} => row \in S
  BY DEF Keeps
<1>2. \A m : (Latest(T, m) <=> Latest(S, m)) /\ (LatestRun(T, m) <=> LatestRun(S, m))
  BY <1>1, LatestRunKept, LatestKept DEF Keeps
<1>3. \A offer : Unconfirmed(T, offer) => Unconfirmed(S, offer)
  BY <1>1 DEF Unconfirmed
<1>4. \A m \in T : m.table = "run" /\ Holds(T, m, m.char) => m \in S /\ Succeeds(S, m, m)
  BY <1>1, <1>2 DEF Holds, Succeeds
<1>5. HoldersCarryOver(S, T)
  BY <1>2, <1>3, <1>4 DEF HoldersCarryOver
<1> QED
  BY <1>1, <1>5, HoldersGrow

LEMMA WholeKept ==
  ASSUME NEW S, NEW T, Whole(S), UniqueRows(T),
         Keeps(S, T, CharacterTables \cup RunTables \cup OpeningTables)
  PROVE  Whole(T)
<1>1. /\ Keeps(S, T, CharacterTables) /\ Keeps(S, T, RunTables)
      /\ Keeps(S, T, OpeningTables) /\ Keeps(S, T, {"revision", "run", "offer"})
  BY DEF Keeps, CharacterTables, RunTables, OpeningTables
<1> QED
  BY <1>1, CharactersKept, RunsKept, OpeningsKept, HoldersKept DEF Whole

-----------------------------------------------------------------------------
(* What each operation adds                                                *)

\* A session outside any run.
LEMMA AddSession ==
  ASSUME NEW S, Whole(S), NEW s, NEW op, NEW body, Apart(S, {Session(s, op, body)})
  PROVE  Whole(S \cup {Session(s, op, body)})
<1>1. UniqueRows({Session(s, op, body)})
  BY DEF UniqueRows
<1>2. UniqueRows(S \cup {Session(s, op, body)})
  BY <1>1, UniqueTogether DEF Whole
<1>3. Keeps(S, S \cup {Session(s, op, body)}, CharacterTables \cup RunTables \cup OpeningTables)
  BY DEF Keeps, Session, CharacterTables, RunTables, OpeningTables
<1> QED
  BY <1>2, <1>3, WholeKept

\* A player's first character brings the player's binding.
LEMMA AddOwner ==
  ASSUME NEW S, Whole(S), NEW who, Apart(S, {Binding(who)})
  PROVE  Whole(S \cup {Binding(who)})
<1> DEFINE T == S \cup {Binding(who)}
<1>1. UniqueRows(T)
  BY UniqueTogether DEF Whole, UniqueRows
<1>2. /\ Keeps(S, T, RunTables) /\ Keeps(S, T, OpeningTables)
      /\ Keeps(S, T, {"revision", "run", "offer"}) /\ Keeps(S, T, {"revision"})
      /\ \A row \in T : row.table \in CharacterTables => row \in S \/ row = Binding(who)
      /\ Binding(who).table = "binding" /\ Binding(who).who = who
  BY DEF Keeps, RunTables, OpeningTables, Binding
<1>3. \A m : Latest(T, m) <=> Latest(S, m)
  BY <1>2, LatestKept
<1>4. ASSUME NEW row \in S, row.table = "revision" PROVE RevisionWhole(T, row)
  <2>1. RevisionWhole(S, row)
    BY <1>4 DEF Whole, CharactersWhole
  <2>2. \E m \in T : Latest(T, m) /\ m.char = row.char
    BY <2>1, <1>3 DEF RevisionWhole
  <2> QED
    BY <2>1, <2>2, RevisionGrows
<1>5. CharactersWhole(T)
  BY <1>2, <1>4 DEF Whole, CharactersWhole
<1> QED
  BY <1>1, <1>2, <1>5, RunsKept, OpeningsKept, HoldersKept DEF Whole

LEMMA FirstRevision ==
  ASSUME NEW S, NEW row \in S, RevisionWhole(S, row)
  PROVE  \E first \in S : first.table = "revision" /\ first.char = row.char /\ first.rev = 1
<1>1. 1 \in 1..row.rev
  BY DEF RevisionWhole
<1> QED
  BY <1>1 DEF RevisionWhole

\* A character and its receipt, under a name that no character has.
LEMMA AddCharacter ==
  ASSUME NEW S, Whole(S), NEW q, NEW x, x # None, Binding(q.who) \in S,
         Apart(S, CreationRows(q, x))
  PROVE  /\ Whole(S \cup CreationRows(q, x))
         /\ \A row \in S : row.table = "revision" => row.char # x
<1> DEFINE new == Revision(x, 1, "ACTIVE", q.who, "CREATE", q.body)
           receipt == CreationReceipt(q, x)
           T == S \cup {new, receipt}
<1>1. /\ new.table = "revision" /\ new.char = x /\ new.rev = 1
      /\ receipt.table = "creation_receipt" /\ receipt.char = x /\ receipt.who = q.who
      /\ receipt.body = q.body /\ CreationRows(q, x) = {new, receipt}
  BY DEF Revision, CreationReceipt, CreationRows
<1> HIDE DEF new, receipt
<1>2. UniqueRows({new, receipt}) /\ Apart(S, {new, receipt})
  BY <1>1 DEF UniqueRows, SameKey
<1>3. UniqueRows(T)
  BY <1>2, UniqueTogether DEF Whole
<1>4. /\ Keeps(S, T, RunTables) /\ Keeps(S, T, OpeningTables) /\ Keeps(S, T, {"run", "offer"})
      /\ S \subseteq T
  BY <1>1 DEF Keeps, RunTables, OpeningTables
<1>5. \A row \in S : row.table = "revision" => row.char # x
  <2>1. SUFFICES ASSUME NEW row \in S, row.table = "revision", row.char = x PROVE FALSE
    OBVIOUS
  <2>2. RevisionWhole(S, row)
    BY <2>1 DEF Whole, CharactersWhole
  <2>3. PICK first \in S : first.table = "revision" /\ first.char = x /\ first.rev = 1
    BY <2>1, <2>2, FirstRevision
  <2>4. SameKey(first, new)
    BY <2>3, <1>1 DEF SameKey
  <2> QED
    BY <1>2, <2>3, <2>4 DEF Apart
<1>6. Latest(T, new) /\ \A m \in S : Latest(S, m) => Latest(T, m)
  BY <1>1, <1>5 DEF Latest
<1>7. ASSUME NEW row \in S, row.table = "revision" PROVE RevisionWhole(T, row)
  <2>1. RevisionWhole(S, row)
    BY <1>7 DEF Whole, CharactersWhole
  <2>2. \E m \in T : Latest(T, m) /\ m.char = row.char
    BY <2>1, <1>6 DEF RevisionWhole
  <2> QED
    BY <2>1, <2>2, RevisionGrows
<1>8. RevisionWhole(T, new)
  <2>1. new = Revision(new.char, 1, "ACTIVE", receipt.who, "CREATE", receipt.body)
    BY <1>1 DEF new, Revision
  <2>2. \A k \in 1..1 : \E other \in T :
           other.table = "revision" /\ other.char = new.char /\ other.rev = k
    BY <1>1
  <2> QED
    BY <2>1, <2>2, <1>1, <1>6 DEF RevisionWhole
<1>9. CharactersWhole(T)
  <2>1. CharactersWhole(S)
    BY DEF Whole
  <2>2. \A row \in T : row.table = "revision" => RevisionWhole(T, row)
    BY <1>1, <1>7, <1>8
  <2>3. \A row \in T : row.table = "binding" => row = Binding(row.who)
    BY <2>1, <1>1 DEF CharactersWhole
  <2>4. \A row \in T : row.table = "creation_receipt" =>
           \E first \in T : first.table = "revision" /\ first.char = row.char
    BY <2>1, <1>1 DEF CharactersWhole
  <2>5. \A row \in T : row.table = "mutation_receipt" =>
           \E after \in T : /\ after.table = "revision" /\ after.char = row.char
                            /\ after.rev = row.rev /\ after.rev > 1
    BY <2>1, <1>1 DEF CharactersWhole
  <2> QED
    BY <2>2, <2>3, <2>4, <2>5 DEF CharactersWhole
<1>10. RunsWhole(T) /\ OpeningsWhole(T)
  BY <1>4, RunsKept, OpeningsKept DEF Whole
<1>11. HoldersCarryOver(S, T)
  <2>1. \A m : LatestRun(T, m) <=> LatestRun(S, m)
    BY <1>4, LatestRunKept DEF Keeps
  <2>2. \A m \in T : m.table = "run" /\ Holds(T, m, m.char) => m \in S /\ Succeeds(S, m, m)
    BY <2>1, <1>1 DEF Holds, Succeeds
  <2>3. \A offer : Unconfirmed(T, offer) => Unconfirmed(S, offer)
    BY <1>1 DEF Unconfirmed
  <2> QED
    BY <2>2, <2>3, <1>6 DEF HoldersCarryOver
<1>12. HoldersWhole(T)
  BY <1>3, <1>4, <1>10, <1>11, HoldersGrow DEF Whole
<1> QED
  BY <1>1, <1>3, <1>5, <1>9, <1>10, <1>12 DEF Whole

\* A character that no run holds is retired or has died.
LEMMA AddMutation ==
  ASSUME NEW S, Whole(S), NEW q, NEW m, Latest(S, m), m.char = q.char,
         Policy(m, q) = "ACCEPTED", q.kind \in DOMAIN Successor,
         \A holder \in S : ~Holds(S, holder, q.char),
         Apart(S, MutationRows(m, q))
  PROVE  Whole(S \cup MutationRows(m, q))
<1> DEFINE new == Revision(q.char, m.rev + 1, Successor[q.kind], m.who, q.kind, m.body)
           receipt == MutationReceipt(m, q, Successor[q.kind])
           T == S \cup {new, receipt}
<1>1. /\ new.table = "revision" /\ new.char = m.char /\ new.rev = m.rev + 1 /\ new.who = m.who
      /\ new.body = m.body /\ new.kind = q.kind /\ new.life = Successor[q.kind]
      /\ receipt.table = "mutation_receipt" /\ receipt.char = m.char /\ receipt.rev = m.rev + 1
      /\ receipt.kind = q.kind /\ receipt.life = Successor[q.kind]
      /\ MutationRows(m, q) = {new, receipt}
  BY DEF Revision, MutationReceipt, MutationRows
<1> HIDE DEF new, receipt
<1>2. UniqueRows({new, receipt}) /\ Apart(S, {new, receipt})
  BY <1>1 DEF UniqueRows, SameKey
<1>3. UniqueRows(T)
  BY <1>2, UniqueTogether DEF Whole
<1>4. /\ Keeps(S, T, RunTables) /\ Keeps(S, T, OpeningTables) /\ Keeps(S, T, {"run", "offer"})
      /\ S \subseteq T
  BY <1>1 DEF Keeps, RunTables, OpeningTables
<1>5. m \in S /\ m.table = "revision" /\ m.rev \in Nat \ {0} /\ RevisionWhole(S, m)
  BY DEF Latest, Whole, CharactersWhole, RevisionWhole
<1>6. /\ Latest(T, new)
      /\ \A c \in S : Latest(S, c) /\ c.char # m.char => Latest(T, c)
  <2>1. \A other \in S : other.table = "revision" /\ other.char = m.char =>
            other.rev \in Nat /\ other.rev <= m.rev
    BY DEF Latest, Whole, CharactersWhole, RevisionWhole
  <2> QED
    BY <1>1, <1>5, <2>1 DEF Latest
<1>7. ASSUME NEW row \in S, row.table = "revision" PROVE RevisionWhole(T, row)
  <2>1. RevisionWhole(S, row)
    BY <1>7 DEF Whole, CharactersWhole
  <2>2. PICK c \in S : Latest(S, c) /\ c.char = row.char
    BY <2>1 DEF RevisionWhole
  <2>3. \E last \in T : Latest(T, last) /\ last.char = row.char
    BY <2>2, <1>1, <1>6
  <2> QED
    BY <2>1, <2>3, RevisionGrows
<1>8. LawfulStep(m, new, receipt)
  BY <1>1, <1>5, RevisionAssumption DEF LawfulStep, Policy
<1>9. RevisionWhole(T, new)
  <2>1. \A k \in 1..(m.rev + 1) : \E other \in T :
           other.table = "revision" /\ other.char = m.char /\ other.rev = k
    BY <1>1, <1>5 DEF RevisionWhole
  <2>2. new.rev \in Nat \ {0} /\ new.rev # 1 /\ m.rev = new.rev - 1 /\ new.char # None
    BY <1>1, <1>5 DEF RevisionWhole
  <2> QED
    BY <2>1, <2>2, <1>1, <1>5, <1>6, <1>8 DEF RevisionWhole
<1>10. CharactersWhole(T)
  <2>1. CharactersWhole(S)
    BY DEF Whole
  <2>2. \A row \in T : row.table = "revision" => RevisionWhole(T, row)
    BY <1>1, <1>7, <1>9
  <2>3. \A row \in T : row.table = "binding" => row = Binding(row.who)
    BY <2>1, <1>1 DEF CharactersWhole
  <2>4. \A row \in T : row.table = "creation_receipt" =>
           \E first \in T : first.table = "revision" /\ first.char = row.char
    BY <2>1, <1>1 DEF CharactersWhole
  <2>5. \A row \in T : row.table = "mutation_receipt" =>
           \E after \in T : /\ after.table = "revision" /\ after.char = row.char
                            /\ after.rev = row.rev /\ after.rev > 1
    BY <2>1, <1>1, <1>5 DEF CharactersWhole
  <2> QED
    BY <2>2, <2>3, <2>4, <2>5 DEF CharactersWhole
<1>11. RunsWhole(T) /\ OpeningsWhole(T)
  BY <1>4, RunsKept, OpeningsKept DEF Whole
<1>12. HoldersCarryOver(S, T)
  <2>1. \A other : LatestRun(T, other) <=> LatestRun(S, other)
    BY <1>4, LatestRunKept DEF Keeps
  <2>2. \A other \in T : other.table = "run" /\ Holds(T, other, other.char) =>
            other \in S /\ Succeeds(S, other, other)
    BY <2>1, <1>1 DEF Holds, Succeeds
  <2>3. \A offer : Unconfirmed(T, offer) => Unconfirmed(S, offer)
    BY <1>1 DEF Unconfirmed
  <2>4. \A other \in S : Holds(S, other, other.char) => other.char # m.char
    OBVIOUS
  <2> QED
    BY <2>2, <2>3, <2>4, <1>6 DEF HoldersCarryOver
<1>13. HoldersWhole(T)
  BY <1>3, <1>4, <1>11, <1>12, HoldersGrow DEF Whole
<1> QED
  BY <1>1, <1>3, <1>10, <1>11, <1>13 DEF Whole

IsLastOffer(S, last) ==
    /\ last \in S /\ last.table = "offer"
    /\ \A other \in S : other.table = "offer" /\ other.char = last.char =>
          other.ordinal <= last.ordinal

\* The next opening of a character that nothing holds.
LEMMA AddOffer ==
  ASSUME NEW S, Whole(S), NEW q, NEW o, NEW ordinal,
         \E m \in S : m.table = "revision" /\ m.char = q.char,
         \A holder \in S : ~Holds(S, holder, q.char),
         \A other \in S : Unconfirmed(S, other) => other.char # q.char,
         \/ ordinal = 1 /\ \A other \in S : other.table = "offer" => other.char # q.char
         \/ \E last \in S : /\ IsLastOffer(S, last) /\ last.char = q.char
                            /\ ordinal = last.ordinal + 1,
         Apart(S, {OfferRow(o, q, ordinal)})
  PROVE  Whole(S \cup {OfferRow(o, q, ordinal)})
<1> DEFINE new == OfferRow(o, q, ordinal)
           T == S \cup {new}
<1>1. new.table = "offer" /\ new.char = q.char /\ new.ordinal = ordinal
  BY DEF OfferRow
<1> HIDE DEF new
<1>2. UniqueRows(T)
  BY UniqueTogether DEF Whole, UniqueRows, new
<1>3. /\ Keeps(S, T, CharacterTables) /\ Keeps(S, T, RunTables)
      /\ Keeps(S, T, {"revision"}) /\ Keeps(S, T, {"run"}) /\ S \subseteq T
  BY <1>1 DEF Keeps, CharacterTables, RunTables
<1>4. CharactersWhole(T) /\ RunsWhole(T)
  BY <1>3, CharactersKept, RunsKept DEF Whole
<1>5. \A other \in S : other.table = "offer" => OfferWhole(S, other)
  BY DEF Whole, OpeningsWhole
<1>6. /\ ordinal \in Nat \ {0}
      /\ \A other \in S : other.table = "offer" /\ other.char = q.char => other.ordinal < ordinal
      /\ \E first \in T : first.table = "offer" /\ first.char = q.char /\ first.ordinal = 1
  <2>1. CASE ordinal = 1 /\ \A other \in S : other.table = "offer" => other.char # q.char
    BY <2>1, <1>1
  <2>2. ASSUME NEW last \in S, IsLastOffer(S, last), last.char = q.char, ordinal = last.ordinal + 1
        PROVE  <1>6!1 /\ <1>6!2 /\ <1>6!3
    <3>1. last.ordinal \in Nat \ {0} /\ last.table = "offer"
      BY <2>2, <1>5 DEF IsLastOffer, OfferWhole
    <3>2. \A other \in S : other.table = "offer" /\ other.char = q.char =>
              other.ordinal \in Nat /\ other.ordinal <= last.ordinal
      BY <2>2, <1>5 DEF IsLastOffer, OfferWhole
    <3>3. \E first \in S : first.table = "offer" /\ first.char = q.char /\ first.ordinal = 1
      BY <2>2, <3>1, <1>5 DEF OfferWhole
    <3> QED
      BY <2>2, <3>1, <3>2, <3>3
  <2> QED
    BY <2>1, <2>2
<1>7. \A other : Unconfirmed(T, other) => other = new \/ Unconfirmed(S, other)
  BY <1>1 DEF Unconfirmed
<1>8. OfferWhole(T, new)
  <2>1. ASSUME NEW other \in T, other.table = "offer", other.char = new.char
        PROVE  other.ordinal <= new.ordinal /\ (other = new \/ ~Unconfirmed(T, other))
    <3>1. CASE other = new
      BY <3>1, <1>1, <1>6
    <3>2. CASE other \in S
      <4>0. OfferWhole(S, other) /\ other.char = q.char
        BY <3>2, <2>1, <1>1, <1>5
      <4>1. other.ordinal \in Nat
        BY <4>0 DEF OfferWhole
      <4>2. other.ordinal < ordinal /\ ordinal \in Nat
        BY <4>0, <3>2, <2>1, <1>6
      <4>3. other.ordinal <= new.ordinal
        BY <4>1, <4>2, <1>1
      <4>4. other = new \/ ~Unconfirmed(T, other)
        BY <4>0, <1>7
      <4> QED
        BY <4>3, <4>4
    <3> QED
      BY <3>1, <3>2
  <2>2. EndsOpenings(T, new, new.char)
    BY <2>1, <1>1 DEF EndsOpenings
  <2>3. \E m \in T : m.table = "revision" /\ m.char = new.char
    BY <1>1
  <2> QED
    BY <2>2, <2>3, <1>1, <1>6 DEF OfferWhole
<1>9. ASSUME NEW offer \in S, offer.table = "offer" PROVE OfferWhole(T, offer)
  <2>1. CASE offer.char = new.char
    <3>1. offer.ordinal \in Nat \ {0}
      BY <1>5, <1>9 DEF OfferWhole
    <3> QED
      BY <3>1, <2>1, <1>8 DEF OfferWhole
  <2>2. CASE offer.char # new.char
    <3>1. PICK last \in S : EndsOpenings(S, last, offer.char)
      BY <1>5, <1>9 DEF OfferWhole
    <3>2. EndsOpenings(T, last, offer.char)
      BY <2>2, <3>1, <1>1, <1>7 DEF EndsOpenings
    <3> QED
      BY <3>1, <3>2, <1>5, <1>9 DEF OfferWhole
  <2> QED
    BY <2>1, <2>2
<1>10. OpeningsWhole(T)
  BY <1>1, <1>8, <1>9 DEF Whole, OpeningsWhole
<1>11. HoldersCarryOver(S, T)
  <2>1. \A m : (LatestRun(T, m) <=> LatestRun(S, m)) /\ (Latest(T, m) <=> Latest(S, m))
    BY <1>3, LatestRunKept, LatestKept
  <2>2. \A m \in T : m.table = "run" /\ Holds(T, m, m.char) => m \in S /\ Succeeds(S, m, m)
    BY <2>1, <1>1 DEF Holds, Succeeds
  <2>3. \A m \in S : Holds(S, m, m.char) => m.char # new.char
    BY <1>1
  <2> QED
    BY <2>1, <2>2, <2>3, <1>7 DEF HoldersCarryOver
<1>12. HoldersWhole(T)
  BY <1>2, <1>3, <1>4, <1>11, HoldersGrow DEF Whole
<1> QED
  BY <1>2, <1>4, <1>10, <1>12 DEF Whole, new

Confirmation(offer, pick, r) ==
    [table |-> "confirmation", offer |-> offer.offer, pick |-> pick, run |-> r]

\* An opening's confirmation, once its run has been made.
LEMMA AddConfirmation ==
  ASSUME NEW S, Whole(S), NEW offer \in S, offer.table = "offer", NEW pick \in LegalPicks, NEW r,
         \E created \in S : /\ created.table = "run_creation" /\ created.op = FrozenOp(offer)
                            /\ created.run = r,
         Apart(S, {Confirmation(offer, pick, r)})
  PROVE  Whole(S \cup {Confirmation(offer, pick, r)})
<1> DEFINE new == Confirmation(offer, pick, r)
           T == S \cup {new}
<1>1. new.table = "confirmation" /\ new.offer = offer.offer /\ new.pick = pick /\ new.run = r
  BY DEF Confirmation
<1> HIDE DEF new
<1>2. UniqueRows(T)
  BY UniqueTogether DEF Whole, UniqueRows, new
<1>3. /\ Keeps(S, T, CharacterTables) /\ Keeps(S, T, RunTables)
      /\ Keeps(S, T, {"revision", "run", "offer"})
  BY <1>1 DEF Keeps, CharacterTables, RunTables
<1>4. CharactersWhole(T) /\ RunsWhole(T) /\ HoldersWhole(T)
  BY <1>2, <1>3, CharactersKept, RunsKept, HoldersKept DEF Whole
<1>5. \A other : Unconfirmed(T, other) => Unconfirmed(S, other)
  BY <1>1 DEF Unconfirmed
<1>6. ASSUME NEW other \in S, OfferWhole(S, other) PROVE OfferWhole(T, other)
  <2>1. PICK last \in S : EndsOpenings(S, last, other.char)
    BY <1>6 DEF OfferWhole
  <2>2. EndsOpenings(T, last, other.char)
    BY <2>1, <1>1, <1>5 DEF EndsOpenings
  <2> QED
    BY <2>1, <2>2, <1>6 DEF OfferWhole
<1>7. OpeningsWhole(T)
  <2>1. \A other \in T : other.table = "offer" => OfferWhole(T, other)
    BY <1>1, <1>6 DEF Whole, OpeningsWhole
  <2>2. \A done \in S : done.table = "confirmation" =>
          /\ done.pick \in LegalPicks
          /\ \E o, created \in T :
                /\ o.table = "offer" /\ o.offer = done.offer
                /\ created.table = "run_creation" /\ created.op = FrozenOp(o)
                /\ created.run = done.run
    BY DEF Whole, OpeningsWhole
  <2> QED
    BY <2>1, <2>2, <1>1 DEF OpeningsWhole
<1> QED
  BY <1>2, <1>4, <1>7 DEF Whole, new

-----------------------------------------------------------------------------
(* What a run becomes                                                      *)

LEMMA FirstRunRow ==
  ASSUME NEW S, RunsWhole(S), NEW row \in S, row.table = "run"
  PROVE  \E first \in S : first.table = "run" /\ first.run = row.run /\ first.version = 1
<1>1. RunRowPlaced(S, row)
  BY DEF RunsWhole, RunRowWhole
<1>2. 1 \in 1..row.version
  BY <1>1 DEF RunRowPlaced
<1> QED
  BY <1>1, <1>2 DEF RunRowPlaced

\* A run without a character, under a name that no run has.
LEMMA AddRun ==
  ASSUME NEW S, Whole(S), NEW r, NEW op, NEW x, NEW rev, NEW world,
         NEW row, row = RunRow(r, 1, "PRE_FIRST_TURN", "CREATE", op, None, None),
         NEW created, created = RunCreation(op, r, x, rev, world),
         Apart(S, {row, created})
  PROVE  /\ Whole(S \cup {row, created})
         /\ LatestRun(S \cup {row, created}, row)
         /\ \A other \in S : other.table = "run" => other.run # r
<1> DEFINE T == S \cup {row, created}
<1>1. /\ row.table = "run" /\ row.run = r /\ row.version = 1 /\ row.status = "PRE_FIRST_TURN"
      /\ row.kind = "CREATE" /\ row.op = op /\ row.char = None /\ row.rev = None
      /\ created.table = "run_creation" /\ created.run = r /\ created.op = op
  BY DEF RunRow, RunCreation
<1>2. UniqueRows({row, created})
  BY <1>1 DEF UniqueRows, SameKey
<1>3. UniqueRows(T)
  BY <1>2, UniqueTogether DEF Whole
<1>4. /\ Keeps(S, T, CharacterTables) /\ Keeps(S, T, OpeningTables)
      /\ Keeps(S, T, {"revision"}) /\ S \subseteq T
  BY <1>1 DEF Keeps, CharacterTables, OpeningTables
<1>5. CharactersWhole(T) /\ OpeningsWhole(T)
  BY <1>4, CharactersKept, OpeningsKept DEF Whole
<1>6. \A other \in S : other.table = "run" => other.run # r
  <2>1. SUFFICES ASSUME NEW other \in S, other.table = "run", other.run = r PROVE FALSE
    OBVIOUS
  <2>2. PICK first \in S : first.table = "run" /\ first.run = r /\ first.version = 1
    BY <2>1, FirstRunRow DEF Whole
  <2>3. SameKey(first, row)
    BY <2>2, <1>1 DEF SameKey
  <2> QED
    BY <2>2, <2>3 DEF Apart
<1>7. /\ LatestRun(T, row)
      /\ \A m : LatestRun(S, m) => LatestRun(T, m)
      /\ \A m : LatestRun(T, m) => m = row \/ LatestRun(S, m)
  BY <1>1, <1>6 DEF LatestRun
<1>8. ASSUME NEW p \in S, p.table = "participation" \/ p.table = "run_receipt"
      PROVE  p.run # r
  BY <1>6, <1>8 DEF Whole, RunsWhole
<1>9. ASSUME NEW other \in S, other.table = "run" PROVE RunRowWhole(T, other)
  <2>1. RunRowWhole(S, other)
    BY <1>9 DEF Whole, RunsWhole
  <2>2. \E m \in T : LatestRun(T, m) /\ m.run = other.run
    BY <2>1, <1>7 DEF RunRowWhole, RunRowPlaced
  <2>3. Joined(T, other) => Joined(S, other)
    BY <1>1 DEF Joined
  <2> QED
    BY <2>1, <2>2, <2>3, RunRowGrows
<1>10. RunRowWhole(T, row)
  <2>1. RunRowPlaced(T, row)
    BY <1>1, <1>7 DEF RunRowPlaced
  <2>2. ~Joined(T, row)
    BY <1>1, <1>8 DEF Joined
  <2>3. RunRowLawful(T, row)
    BY <2>2, <1>1 DEF RunRowLawful, RunShape
  <2> QED
    BY <2>1, <2>3 DEF RunRowWhole
<1>11. RunRowsAgree(row, row)
  BY <1>1 DEF RunRowsAgree
<1>12. RunsWhole(T)
  <2>1. RunsWhole(S)
    BY DEF Whole
  <2>2. \A other \in T : other.table = "run" => RunRowWhole(T, other)
    BY <1>1, <1>9, <1>10
  <2>3. \A a, b \in T : a.table = "run" /\ b.table = "run" /\ a.run = b.run => RunRowsAgree(a, b)
    BY <2>1, <1>1, <1>6, <1>11 DEF RunsWhole
  <2>4. \A p \in T : p.table = "participation" =>
          \E m \in T : m.table = "run" /\ m.run = p.run /\ m.version = p.version
    BY <2>1, <1>1 DEF RunsWhole
  <2>5. \A receipt \in T : receipt.table = "run_receipt" =>
          \E m \in T : /\ m.table = "run" /\ m.run = receipt.run
                       /\ m.version = receipt.version /\ m.version > 1
    BY <2>1, <1>1 DEF RunsWhole
  <2>6. \A other \in T : other.table \in {"run_creation", "admission"} =>
          \E m \in T : m.table = "run" /\ m.run = other.run
    BY <2>1, <1>1 DEF RunsWhole
  <2> QED
    BY <2>2, <2>3, <2>4, <2>5, <2>6 DEF RunsWhole
<1>13. HoldersCarryOver(S, T)
  <2>1. \A m \in T : m.table = "run" /\ m.char # None /\ Holds(T, m, m.char) =>
            m \in S /\ Succeeds(S, m, m)
    BY <1>1, <1>7 DEF Holds, Succeeds
  <2>2. \A m : Latest(T, m) <=> Latest(S, m)
    BY <1>4, LatestKept
  <2>3. \A offer : Unconfirmed(T, offer) => Unconfirmed(S, offer)
    BY <1>1 DEF Unconfirmed
  <2> QED
    BY <2>1, <2>2, <2>3 DEF HoldersCarryOver
<1>14. HoldersWhole(T)
  BY <1>3, <1>4, <1>12, <1>13, HoldersGrow DEF Whole
<1> QED
  BY <1>3, <1>5, <1>6, <1>7, <1>12, <1>14 DEF Whole

LEMMA AddAdmission ==
  ASSUME NEW S, Whole(S), NEW r, NEW world, Apart(S, {Admission(r, world)}),
         \E row \in S : row.table = "run" /\ row.run = r
  PROVE  Whole(S \cup {Admission(r, world)})
<1> DEFINE new == Admission(r, world)
           T == S \cup {new}
<1>1. new.table = "admission" /\ new.run = r
  BY DEF Admission
<1> HIDE DEF new
<1>2. UniqueRows(T)
  BY UniqueTogether DEF Whole, UniqueRows, new
<1>3. /\ Keeps(S, T, CharacterTables) /\ Keeps(S, T, OpeningTables)
      /\ Keeps(S, T, {"revision", "run", "offer"}) /\ Keeps(S, T, {"run"})
  BY <1>1 DEF Keeps, CharacterTables, OpeningTables
<1>4. CharactersWhole(T) /\ OpeningsWhole(T)
  BY <1>3, CharactersKept, OpeningsKept DEF Whole
<1>5. ASSUME NEW other \in S, other.table = "run" PROVE RunRowWhole(T, other)
  <2>1. RunRowWhole(S, other)
    BY <1>5 DEF Whole, RunsWhole
  <2>2. \E m \in T : LatestRun(T, m) /\ m.run = other.run
    BY <2>1, <1>3, LatestRunKept DEF RunRowWhole, RunRowPlaced
  <2>3. Joined(T, other) => Joined(S, other)
    BY <1>1 DEF Joined
  <2> QED
    BY <2>1, <2>2, <2>3, RunRowGrows
<1>6. RunsWhole(T)
  <2>1. RunsWhole(S)
    BY DEF Whole
  <2>2. \A other \in T : other.table = "run" => RunRowWhole(T, other)
    BY <1>1, <1>5
  <2>3. \A a, b \in T : a.table = "run" /\ b.table = "run" /\ a.run = b.run => RunRowsAgree(a, b)
    BY <2>1, <1>1 DEF RunsWhole
  <2>4. \A p \in T : p.table = "participation" =>
          \E m \in T : m.table = "run" /\ m.run = p.run /\ m.version = p.version
    BY <2>1, <1>1 DEF RunsWhole
  <2>5. \A receipt \in T : receipt.table = "run_receipt" =>
          \E m \in T : /\ m.table = "run" /\ m.run = receipt.run
                       /\ m.version = receipt.version /\ m.version > 1
    BY <2>1, <1>1 DEF RunsWhole
  <2>6. \A other \in T : other.table \in {"run_creation", "admission"} =>
          \E m \in T : m.table = "run" /\ m.run = other.run
    BY <2>1, <1>1 DEF RunsWhole
  <2> QED
    BY <2>2, <2>3, <2>4, <2>5, <2>6 DEF RunsWhole
<1>7. HoldersWhole(T)
  BY <1>2, <1>3, <1>6, HoldersKept DEF Whole
<1> QED
  BY <1>2, <1>4, <1>6, <1>7 DEF Whole, new

\* One more revision of a run, with what belongs to it.
Extends(S, T, m, row) ==
    /\ S \subseteq T /\ LatestRun(S, m)
    /\ row \in T /\ row.table = "run" /\ row.run = m.run /\ row.version = m.version + 1
    /\ \A other \in T : other.table = "run" => other \in S \/ other = row
    /\ \A other \in T : other.table \in {"participation", "run_receipt"} =>
          other \in S \/ (other.run = row.run /\ other.version = row.version)
    /\ \A other \in T : other.table \in {"run_creation", "admission"} => other \in S

LEMMA RunsExtend ==
  ASSUME NEW S, NEW T, NEW m, NEW row, RunsWhole(S), Extends(S, T, m, row),
         RunRowLawful(T, row), RunRowsAgree(row, row),
         \A a \in S : a.table = "run" /\ a.run = m.run =>
            RunRowsAgree(a, row) /\ RunRowsAgree(row, a)
  PROVE  /\ RunsWhole(T)
         /\ LatestRun(T, row)
         /\ \A other : LatestRun(T, other) =>
               other = row \/ (LatestRun(S, other) /\ other.run # m.run)
<1>1. /\ S \subseteq T /\ m \in S /\ m.table = "run" /\ RunRowPlaced(S, m) /\ m.version \in Nat \ {0}
      /\ row \in T /\ row.table = "run" /\ row.run = m.run /\ row.version = m.version + 1
  BY DEF Extends, LatestRun, RunsWhole, RunRowWhole, RunRowPlaced
<1>2. \A other \in S : other.table = "run" /\ other.run = m.run =>
          other.version \in Nat /\ other.version <= m.version
  BY DEF Extends, LatestRun, RunsWhole, RunRowWhole, RunRowPlaced
<1>3. \A other \in T : other.table = "run" => other \in S \/ other = row
  BY DEF Extends
<1>4. LatestRun(T, row)
  BY <1>1, <1>2, <1>3 DEF LatestRun
<1>5. \A other : LatestRun(S, other) /\ other.run # m.run => LatestRun(T, other)
  BY <1>1, <1>3 DEF LatestRun
<1>6. ASSUME NEW other, LatestRun(T, other), other # row
      PROVE  LatestRun(S, other) /\ other.run # m.run
  <2>2. other \in S /\ other.table = "run" /\ LatestRun(S, other)
    BY <1>6, <1>1, <1>3 DEF LatestRun
  <2>3. ASSUME other.run = m.run PROVE FALSE
    <3>1. row.version <= other.version
      BY <1>6, <2>3, <1>1 DEF LatestRun
    <3>2. other.version <= m.version /\ other.version \in Nat
      BY <2>2, <2>3, <1>2
    <3> QED
      BY <3>1, <3>2, <1>1
  <2> QED
    BY <2>2, <2>3
<1>7. ASSUME NEW other \in S, other.table = "run" PROVE RunRowWhole(T, other)
  <2>1. RunRowWhole(S, other)
    BY <1>7 DEF RunsWhole
  <2>2. PICK last \in S : LatestRun(S, last) /\ last.run = other.run
    BY <2>1 DEF RunRowWhole, RunRowPlaced
  <2>3. \E newest \in T : LatestRun(T, newest) /\ newest.run = other.run
    BY <2>2, <1>1, <1>4, <1>5
  <2>4. Joined(T, other) => Joined(S, other)
    <3>1. SUFFICES ASSUME NEW p \in T, p.table = "participation", p.run = other.run,
                          p.version = other.version, p \notin S
                   PROVE  FALSE
      BY DEF Joined
    <3>2. p.run = row.run /\ p.version = row.version
      BY <3>1 DEF Extends
    <3>3. other.run = m.run /\ other.version = m.version + 1
      BY <3>1, <3>2, <1>1
    <3>4. other.version <= m.version
      BY <3>3, <1>2, <1>7
    <3> QED
      BY <3>3, <3>4, <1>1
  <2> QED
    BY <2>1, <2>3, <2>4, <1>1, RunRowGrows
<1>8. RunRowWhole(T, row)
  <2>1. \A k \in 1..(m.version + 1) : \E other \in T :
            other.table = "run" /\ other.run = m.run /\ other.version = k
    BY <1>1 DEF RunRowPlaced
  <2>2. RunRowPlaced(T, row)
    BY <2>1, <1>1, <1>4 DEF RunRowPlaced
  <2> QED
    BY <2>2 DEF RunRowWhole
<1>9. RunsWhole(T)
  <2>1. \A other \in T : other.table = "run" => RunRowWhole(T, other)
    BY <1>3, <1>7, <1>8
  <2>2. \A a, b \in T : a.table = "run" /\ b.table = "run" /\ a.run = b.run => RunRowsAgree(a, b)
    BY <1>1, <1>3 DEF RunsWhole
  <2>3. \A p \in T : p.table = "participation" =>
          \E other \in T : other.table = "run" /\ other.run = p.run /\ other.version = p.version
    BY <1>1 DEF RunsWhole, Extends
  <2>4. \A receipt \in T : receipt.table = "run_receipt" =>
          \E other \in T : /\ other.table = "run" /\ other.run = receipt.run
                           /\ other.version = receipt.version /\ other.version > 1
    <3>1. row.version > 1
      BY <1>1
    <3> QED
      BY <3>1, <1>1 DEF RunsWhole, Extends
  <2>5. \A other \in T : other.table \in {"run_creation", "admission"} =>
          \E first \in T : first.table = "run" /\ first.run = other.run
    BY <1>1 DEF RunsWhole, Extends
  <2> QED
    BY <2>1, <2>2, <2>3, <2>4, <2>5 DEF RunsWhole
<1> QED
  BY <1>4, <1>6, <1>9

\* A run that has not ended has no row that has.
LEMMA NotEndedBefore ==
  ASSUME NEW S, UniqueRows(S), RunsWhole(S), NEW m, LatestRun(S, m), m.status # "TERMINATED",
         NEW a \in S, a.table = "run", a.run = m.run
  PROVE  a.status # "TERMINATED" /\ a.version \in Nat \ {0} /\ a.version <= m.version
<1>1. m \in S /\ m.table = "run" /\ m.version \in Nat /\ a.version \in Nat \ {0} /\ a.version <= m.version
  BY DEF LatestRun, RunsWhole, RunRowWhole, RunRowPlaced
<1>2. a.status = "TERMINATED" => a.version = m.version
  BY <1>1 DEF RunsWhole, RunRowsAgree
<1>3. a.version = m.version => SameKey(a, m)
  BY <1>1 DEF SameKey
<1> QED
  BY <1>1, <1>2, <1>3 DEF UniqueRows

\* The internal bind and the one of an entry: a run takes a character that
\* nothing holds.
LEMMA AddBind ==
  ASSUME NEW S, Whole(S), NEW m, LatestRun(S, m), m.status = "PRE_FIRST_TURN", m.char = None,
         NEW c, Latest(S, c), c.life = "ACTIVE",
         \A holder \in S : ~Holds(S, holder, c.char),
         NEW op, op.family = "internal" \/ \A o \in S : Unconfirmed(S, o) => o.char # c.char,
         NEW row, row = RunRow(m.run, m.version + 1, "PRE_FIRST_TURN", "BIND", op, c.char, c.rev),
         NEW receipt, receipt = RunReceipt(m.run, m.version + 1, "BIND", op, c.char),
         Apart(S, {row, receipt})
  PROVE  /\ Whole(S \cup {row, receipt})
         /\ LatestRun(S \cup {row, receipt}, row)
<1> DEFINE T == S \cup {row, receipt}
<1>1. /\ row.table = "run" /\ row.run = m.run /\ row.version = m.version + 1
      /\ row.status = "PRE_FIRST_TURN" /\ row.kind = "BIND" /\ row.op = op
      /\ row.char = c.char /\ row.rev = c.rev
      /\ receipt.table = "run_receipt" /\ receipt.run = m.run /\ receipt.version = m.version + 1
      /\ receipt.kind = "BIND" /\ receipt.op = op /\ receipt.subject = c.char
  BY DEF RunRow, RunReceipt
<1>2. UniqueRows({row, receipt})
  BY <1>1 DEF UniqueRows, SameKey
<1>3. UniqueRows(T)
  BY <1>2, UniqueTogether DEF Whole
<1>4. /\ Keeps(S, T, CharacterTables) /\ Keeps(S, T, OpeningTables)
      /\ Keeps(S, T, {"revision"}) /\ S \subseteq T
  BY <1>1 DEF Keeps, CharacterTables, OpeningTables
<1>5. CharactersWhole(T) /\ OpeningsWhole(T)
  BY <1>4, CharactersKept, OpeningsKept DEF Whole
<1>6. m \in S /\ m.table = "run" /\ m.version \in Nat \ {0} /\ RunRowWhole(S, m)
  BY DEF LatestRun, Whole, RunsWhole, RunRowWhole, RunRowPlaced
<1>7. c \in S /\ c.table = "revision" /\ c.char # None
  BY DEF Latest, Whole, CharactersWhole, RevisionWhole
<1>8. Extends(S, T, m, row)
  BY <1>1, <1>4 DEF Extends
<1>9. ASSUME NEW a \in S, a.table = "run", a.run = m.run
      PROVE  /\ a.kind # "BIND" /\ a.char = None /\ a.status # "TERMINATED"
             /\ a.version \in Nat \ {0} /\ a.version <= m.version
  <2>1. a.status # "TERMINATED" /\ a.version \in Nat \ {0} /\ a.version <= m.version
    BY <1>9, NotEndedBefore DEF Whole
  <2>2. a.kind # "BIND"
    BY <1>6, <1>9, <2>1 DEF Whole, RunsWhole, RunRowsAgree
  <2>3. ASSUME a.char # None PROVE FALSE
    <3>1. PICK b \in S : b.table = "run" /\ b.run = a.run /\ b.kind = "BIND"
      BY <1>9, <2>3 DEF Whole, RunsWhole, RunRowWhole, RunRowLawful
    <3>2. b.version <= m.version /\ b.version \in Nat
      BY <3>1, <1>9, NotEndedBefore DEF Whole
    <3>3. m.char = None <=> m.version < b.version
      BY <3>1, <1>6, <1>9 DEF Whole, RunsWhole, RunRowsAgree
    <3> QED
      BY <3>2, <3>3, <1>6
  <2> QED
    BY <2>1, <2>2, <2>3
<1>10. ASSUME NEW a \in S, a.table = "run", a.run = m.run
       PROVE  RunRowsAgree(a, row) /\ RunRowsAgree(row, a)
  BY <1>1, <1>6, <1>7, <1>9, <1>10 DEF RunRowsAgree
<1>11. RunRowsAgree(row, row)
  BY <1>1, <1>6, <1>7 DEF RunRowsAgree
<1>12. RunRowLawful(T, row)
  <2>1. RunShape(row)
    BY <1>1, <1>6 DEF RunShape
  <2>2. HasReceipt(T, row)
    BY <1>1 DEF HasReceipt
  <2>3. ~Joined(T, row)
    <3>1. SUFFICES ASSUME NEW p \in S, p.table = "participation", p.run = m.run,
                          p.version = m.version + 1
                   PROVE  FALSE
      BY <1>1 DEF Joined
    <3>2. PICK a \in S : a.table = "run" /\ a.run = m.run /\ a.version = m.version + 1
      BY <3>1 DEF Whole, RunsWhole
    <3> QED
      BY <3>2, <1>6, <1>9
  <2>4. \E bound \in T : /\ bound.table = "run" /\ bound.run = row.run /\ bound.kind = "BIND"
                         /\ bound.version <= row.version
                         /\ bound.char = row.char /\ bound.rev = row.rev
    BY <1>1, <1>6
  <2>5. \E last \in T : /\ last.table = "revision" /\ last.char = row.char
                        /\ last.rev = row.rev /\ last.life = "ACTIVE"
    BY <1>1, <1>7
  <2>6. row.char # None /\ row.version # 1 /\ row.kind # "ATTACH"
    BY <1>1, <1>6, <1>7
  <2> QED
    BY <2>1, <2>2, <2>3, <2>4, <2>5, <2>6, <1>1 DEF RunRowLawful
<1>13. /\ RunsWhole(T) /\ LatestRun(T, row)
       /\ \A other : LatestRun(T, other) => other = row \/ (LatestRun(S, other) /\ other.run # m.run)
  BY <1>8, <1>10, <1>11, <1>12, RunsExtend DEF Whole
<1>14. \A other : LatestRun(S, other) => other \in S /\ other.table = "run"
  BY DEF LatestRun
<1>15. \A offer : Unconfirmed(T, offer) => Unconfirmed(S, offer) /\ offer \in S
  BY <1>1 DEF Unconfirmed
<1>16. ASSUME NEW held \in T, Holds(T, held, held.char), held # row
       PROVE  held \in S /\ held.table = "run" /\ Holds(S, held, held.char) /\ held.char # c.char
  BY <1>13, <1>14, <1>16 DEF Holds
<1>17. \A last : Latest(T, last) <=> Latest(S, last)
  BY <1>4, LatestKept
<1> HIDE DEF T
<1>18. HoldersWhole(T)
  <2>1. ASSUME NEW a \in T, NEW b \in T, a.table = "run", a.char # None,
               Holds(T, a, a.char), Holds(T, b, a.char)
        PROVE  a = b
    <3>1. b.char = a.char
      BY <2>1 DEF Holds
    <3>2. CASE a = row /\ b # row
      BY <3>1, <3>2, <2>1, <1>1, <1>16
    <3>3. CASE a # row /\ b = row
      BY <3>1, <3>3, <2>1, <1>1, <1>16
    <3>4. CASE a # row /\ b # row
      <4>1. a \in S /\ b \in S /\ a.table = "run" /\ Holds(S, a, a.char) /\ Holds(S, b, a.char)
        BY <3>1, <3>4, <2>1, <1>16
      <4> QED
        BY <4>1, <2>1 DEF Whole, HoldersWhole
    <3> QED
      BY <3>2, <3>3, <3>4
  <2>2. ASSUME NEW a \in T, a.table = "run", a.char # None, Holds(T, a, a.char)
        PROVE  /\ \E last \in T : /\ Latest(T, last) /\ last.char = a.char
                                  /\ last.life = "ACTIVE" /\ last.rev = a.rev
               /\ (\E offer \in T : Unconfirmed(T, offer) /\ offer.char = a.char) =>
                     a.op.family = "internal"
    <3>1. CASE a = row
      <4>1. c \in T /\ Latest(T, c)
        BY <1>4, <1>7, <1>17
      <4>2. ASSUME NEW offer \in T, Unconfirmed(T, offer), offer.char = c.char
            PROVE  op.family = "internal"
        BY <4>2, <1>15
      <4> QED
        BY <4>1, <4>2, <3>1, <1>1
    <3>2. CASE a # row
      <4>1. a \in S /\ Holds(S, a, a.char)
        BY <3>2, <2>2, <1>16
      <4>2. /\ \E last \in S : /\ Latest(S, last) /\ last.char = a.char
                               /\ last.life = "ACTIVE" /\ last.rev = a.rev
            /\ (\E offer \in S : Unconfirmed(S, offer) /\ offer.char = a.char) =>
                  a.op.family = "internal"
        BY <4>1, <2>2 DEF Whole, HoldersWhole
      <4> QED
        BY <4>2, <1>4, <1>15, <1>17
    <3> QED
      BY <3>1, <3>2
  <2> QED
    BY <2>1, <2>2 DEF HoldersWhole
<1> QED
  BY <1>3, <1>5, <1>13, <1>18 DEF Whole, T

\* A session joins a run before its first turn; with its first session the
\* run of an entry is active.
LEMMA AddJoin ==
  ASSUME NEW S, Whole(S), NEW m, LatestRun(S, m), m.status = "PRE_FIRST_TURN",
         NEW op, m.op.family = "internal" => op.family = "internal",
         NEW status \in {"PRE_FIRST_TURN", "ACTIVE"},
         status = "ACTIVE" =>
            /\ m.kind = "BIND" /\ m.version = 2
            /\ op.family = "native" =>
                  \E admitted \in S : admitted.table = "admission" /\ admitted.run = m.run,
         NEW s, \E session \in S : session.table = "session" /\ session.session = s,
         NEW row, row = RunRow(m.run, m.version + 1, status, "ATTACH", op, m.char, m.rev),
         NEW receipt, receipt = RunReceipt(m.run, m.version + 1, "ATTACH", op, s),
         NEW joined, joined = Participation(s, m.run, m.version + 1),
         Apart(S, {row, receipt, joined})
  PROVE  /\ Whole(S \cup {row, receipt, joined})
         /\ LatestRun(S \cup {row, receipt, joined}, row)
<1> DEFINE T == S \cup {row, receipt, joined}
<1>1. /\ row.table = "run" /\ row.run = m.run /\ row.version = m.version + 1
      /\ row.status = status /\ row.kind = "ATTACH" /\ row.op = op
      /\ row.char = m.char /\ row.rev = m.rev
      /\ receipt.table = "run_receipt" /\ receipt.run = m.run /\ receipt.version = m.version + 1
      /\ receipt.kind = "ATTACH" /\ receipt.op = op /\ receipt.subject = s
      /\ joined.table = "participation" /\ joined.run = m.run /\ joined.version = m.version + 1
      /\ joined.session = s
  BY DEF RunRow, RunReceipt, Participation
<1>2. UniqueRows({row, receipt, joined})
  BY <1>1 DEF UniqueRows, SameKey
<1>3. UniqueRows(T)
  BY <1>2, UniqueTogether DEF Whole
<1>4. /\ Keeps(S, T, CharacterTables) /\ Keeps(S, T, OpeningTables)
      /\ Keeps(S, T, {"revision"}) /\ S \subseteq T
  BY <1>1 DEF Keeps, CharacterTables, OpeningTables
<1>5. CharactersWhole(T) /\ OpeningsWhole(T)
  BY <1>4, CharactersKept, OpeningsKept DEF Whole
<1>6. m \in S /\ m.table = "run" /\ m.version \in Nat \ {0} /\ RunRowLawful(S, m)
  BY DEF LatestRun, Whole, RunsWhole, RunRowWhole, RunRowPlaced
<1>7. Extends(S, T, m, row)
  BY <1>1, <1>4 DEF Extends
<1>8. ASSUME NEW a \in S, a.table = "run", a.run = m.run
      PROVE  RunRowsAgree(a, row) /\ RunRowsAgree(row, a)
  <2>1. a.status # "TERMINATED" /\ a.version \in Nat \ {0} /\ a.version <= m.version
    BY <1>8, NotEndedBefore DEF Whole
  <2>2. RunRowsAgree(a, m) /\ RunRowLawful(S, a)
    BY <1>6, <1>8 DEF Whole, RunsWhole, RunRowWhole
  <2>3. a.kind = "BIND" => (row.char = None <=> row.version < a.version)
    BY <2>1, <2>2, <1>1, <1>6 DEF RunRowsAgree
  <2>4. a.status # "ACTIVE" \/ row.version # 2
    BY <2>1, <2>2, <1>1, <1>6 DEF RunRowLawful, RunShape
  <2>5. status = "ACTIVE" /\ a.version = 2 => a.kind = "BIND"
    <3>1. a.version = m.version => SameKey(a, m)
      BY <1>6, <1>8 DEF SameKey
    <3> QED
      BY <3>1, <1>6 DEF Whole, UniqueRows
  <2> QED
    BY <2>1, <2>3, <2>4, <2>5, <1>1, <1>6 DEF RunRowsAgree
<1>9. RunRowsAgree(row, row)
  BY <1>1, <1>6 DEF RunRowsAgree
<1>10. RunRowLawful(T, row)
  <2>1. RunShape(row)
    BY <1>1, <1>6 DEF RunShape
  <2>2. HasReceipt(T, row)
    BY <1>1 DEF HasReceipt
  <2>3. Joined(T, row)
    BY <1>1 DEF Joined
  <2>4. ASSUME row.char # None
        PROVE  /\ \E bound \in T : /\ bound.table = "run" /\ bound.run = row.run
                                   /\ bound.kind = "BIND" /\ bound.version <= row.version
                                   /\ bound.char = row.char /\ bound.rev = row.rev
               /\ \E last \in T : /\ last.table = "revision" /\ last.char = row.char
                                  /\ last.rev = row.rev /\ last.life = "ACTIVE"
    <3>1. PICK bound \in S : /\ bound.table = "run" /\ bound.run = m.run
                             /\ bound.kind = "BIND" /\ bound.version <= m.version
                             /\ bound.char = m.char /\ bound.rev = m.rev
      BY <2>4, <1>1, <1>6 DEF RunRowLawful
    <3>2. bound.version \in Nat
      BY <3>1 DEF Whole, RunsWhole, RunRowWhole, RunRowPlaced
    <3>3. \E last \in S : /\ last.table = "revision" /\ last.char = m.char
                          /\ last.rev = m.rev /\ last.life = "ACTIVE"
      BY <2>4, <1>1, <1>6 DEF RunRowLawful
    <3> QED
      BY <3>1, <3>2, <3>3, <1>1, <1>6
  <2>5. row.char = None => row.rev = None
    BY <1>1, <1>6 DEF RunRowLawful
  <2>6. row.version # 1 /\ row.kind = "ATTACH"
    BY <1>1, <1>6
  <2>7. row.status # "PRE_FIRST_TURN" /\ row.op.family = "native" =>
          \E admitted \in T : admitted.table = "admission" /\ admitted.run = row.run
    BY <1>1
  <2> HIDE DEF T
  <2> QED
    BY <2>1, <2>2, <2>3, <2>4, <2>5, <2>6, <2>7 DEF RunRowLawful
<1>11. /\ RunsWhole(T) /\ LatestRun(T, row)
       /\ \A other : LatestRun(T, other) => other = row \/ (LatestRun(S, other) /\ other.run # m.run)
  BY <1>7, <1>8, <1>9, <1>10, RunsExtend DEF Whole
<1>12. HoldersCarryOver(S, T)
  <2>1. ASSUME NEW held \in T, held.table = "run", held.char # None, Holds(T, held, held.char)
        PROVE  \E before \in S : Succeeds(S, before, held)
    <3>1. CASE held = row
      <4>1. Holds(S, m, m.char)
        BY <3>1, <2>1, <1>1 DEF Holds, ActiveLine
      <4> QED
        BY <4>1, <3>1, <1>1, <1>6 DEF Succeeds
    <3>2. CASE held # row
      <4>1. LatestRun(S, held)
        BY <3>2, <2>1, <1>11 DEF Holds
      <4> QED
        BY <4>1, <2>1 DEF Holds, Succeeds, LatestRun
    <3> QED
      BY <3>1, <3>2
  <2>2. \A last : Latest(T, last) <=> Latest(S, last)
    BY <1>4, LatestKept
  <2>3. \A offer : Unconfirmed(T, offer) => Unconfirmed(S, offer)
    BY <1>1 DEF Unconfirmed
  <2> HIDE DEF T
  <2> QED
    BY <2>1, <2>2, <2>3 DEF HoldersCarryOver
<1>13. HoldersWhole(T)
  BY <1>3, <1>4, <1>11, <1>12, HoldersGrow DEF Whole
<1> QED
  BY <1>3, <1>5, <1>11, <1>13 DEF Whole

\* The native run is left.
LEMMA AddExit ==
  ASSUME NEW S, Whole(S), NEW m, LatestRun(S, m), m.status = "ACTIVE", m.op.family = "native",
         NEW op,
         NEW row, row = RunRow(m.run, 4, "TERMINATED", "EXIT", m.op, m.char, m.rev),
         NEW receipt, receipt = RunReceipt(m.run, 4, "EXIT", op, m.run),
         Apart(S, {row, receipt})
  PROVE  Whole(S \cup {row, receipt}) /\ LatestRun(S \cup {row, receipt}, row)
<1> DEFINE T == S \cup {row, receipt}
<1>1. m \in S /\ m.table = "run" /\ m.version = 3 /\ RunRowLawful(S, m)
  BY DEF LatestRun, Whole, RunsWhole, RunRowWhole, RunRowLawful, RunShape
<1>2. /\ row.table = "run" /\ row.run = m.run /\ row.version = m.version + 1 /\ row.version = 4
      /\ row.status = "TERMINATED" /\ row.kind = "EXIT" /\ row.op = m.op
      /\ row.char = m.char /\ row.rev = m.rev
      /\ receipt.table = "run_receipt" /\ receipt.run = m.run /\ receipt.version = m.version + 1
      /\ receipt.kind = "EXIT"
  BY <1>1 DEF RunRow, RunReceipt
<1>3. UniqueRows({row, receipt})
  BY <1>2 DEF UniqueRows, SameKey
<1>4. UniqueRows(T)
  BY <1>3, UniqueTogether DEF Whole
<1>5. /\ Keeps(S, T, CharacterTables) /\ Keeps(S, T, OpeningTables)
      /\ Keeps(S, T, {"revision"}) /\ S \subseteq T
  BY <1>2 DEF Keeps, CharacterTables, OpeningTables
<1>6. CharactersWhole(T) /\ OpeningsWhole(T)
  BY <1>5, CharactersKept, OpeningsKept DEF Whole
<1>7. Extends(S, T, m, row)
  BY <1>2, <1>5 DEF Extends
<1>8. ASSUME NEW a \in S, a.table = "run", a.run = m.run
      PROVE  a.version \in Nat /\ a.version <= 3
  BY <1>1, <1>8, NotEndedBefore DEF Whole
<1>9. ASSUME NEW a \in S, a.table = "run", a.run = m.run
      PROVE  RunRowsAgree(a, row) /\ RunRowsAgree(row, a)
  <2>1. a.status # "TERMINATED" /\ RunRowsAgree(a, m)
    BY <1>1, <1>9, NotEndedBefore DEF Whole, RunsWhole
  <2>2. a.kind = "BIND" => (row.char = None <=> row.version < a.version)
    BY <2>1, <1>1, <1>2, <1>8, <1>9 DEF RunRowsAgree
  <2>3. a.version = 3 => a.status = "ACTIVE"
    <3>1. a.version = 3 => SameKey(a, m)
      BY <1>1, <1>9 DEF SameKey
    <3> QED
      BY <3>1, <1>1 DEF Whole, UniqueRows
  <2> QED
    BY <2>1, <2>2, <2>3, <1>2, <1>8, <1>9 DEF RunRowsAgree
<1>10. RunRowsAgree(row, row)
  BY <1>2 DEF RunRowsAgree
<1>11. RunRowLawful(T, row)
  <2>1. RunShape(row)
    BY <1>2 DEF RunShape
  <2>2. HasReceipt(T, row)
    BY <1>2 DEF HasReceipt
  <2>3. ~Joined(T, row)
    <3>1. SUFFICES ASSUME NEW p \in S, p.table = "participation", p.run = m.run, p.version = 4
                   PROVE  FALSE
      BY <1>2 DEF Joined
    <3>2. PICK a \in S : a.table = "run" /\ a.run = m.run /\ a.version = 4
      BY <3>1 DEF Whole, RunsWhole
    <3> QED
      BY <3>2, <1>8
  <2>4. ASSUME row.char # None
        PROVE  /\ \E bound \in T : /\ bound.table = "run" /\ bound.run = row.run
                                   /\ bound.kind = "BIND" /\ bound.version <= row.version
                                   /\ bound.char = row.char /\ bound.rev = row.rev
               /\ \E last \in T : /\ last.table = "revision" /\ last.char = row.char
                                  /\ last.rev = row.rev /\ last.life = "ACTIVE"
    <3>1. PICK bound \in S : /\ bound.table = "run" /\ bound.run = m.run
                             /\ bound.kind = "BIND" /\ bound.version <= m.version
                             /\ bound.char = m.char /\ bound.rev = m.rev
      BY <2>4, <1>1, <1>2 DEF RunRowLawful
    <3>2. bound.version \in Nat
      BY <3>1, <1>8
    <3>3. \E last \in S : /\ last.table = "revision" /\ last.char = m.char
                          /\ last.rev = m.rev /\ last.life = "ACTIVE"
      BY <2>4, <1>1, <1>2 DEF RunRowLawful
    <3> QED
      BY <3>1, <3>2, <3>3, <1>1, <1>2
  <2>5. row.char = None => row.rev = None
    BY <1>1, <1>2 DEF RunRowLawful
  <2>6. row.version # 1 /\ row.kind = "EXIT"
    BY <1>2
  <2>7. row.op.family = "native" =>
          \E admitted \in T : admitted.table = "admission" /\ admitted.run = row.run
    BY <1>1, <1>2 DEF RunRowLawful
  <2> HIDE DEF T
  <2> QED
    BY <2>1, <2>2, <2>3, <2>4, <2>5, <2>6, <2>7 DEF RunRowLawful
<1>12. /\ RunsWhole(T) /\ LatestRun(T, row)
       /\ \A other : LatestRun(T, other) => other = row \/ (LatestRun(S, other) /\ other.run # m.run)
  BY <1>7, <1>9, <1>10, <1>11, RunsExtend DEF Whole
<1>13. HoldersCarryOver(S, T)
  <2>1. ASSUME NEW held \in T, held.table = "run", held.char # None, Holds(T, held, held.char)
        PROVE  \E before \in S : Succeeds(S, before, held)
    <3>1. held # row
      BY <2>1, <1>2 DEF Holds, ActiveLine
    <3>2. LatestRun(S, held)
      BY <3>1, <2>1, <1>12 DEF Holds
    <3> QED
      BY <3>2, <2>1 DEF Holds, Succeeds, LatestRun
  <2>2. \A last : Latest(T, last) <=> Latest(S, last)
    BY <1>5, LatestKept
  <2>3. \A offer : Unconfirmed(T, offer) => Unconfirmed(S, offer)
    BY <1>2 DEF Unconfirmed
  <2> HIDE DEF T
  <2> QED
    BY <2>1, <2>2, <2>3 DEF HoldersCarryOver
<1>14. HoldersWhole(T)
  BY <1>4, <1>5, <1>12, <1>13, HoldersGrow DEF Whole
<1> QED
  BY <1>4, <1>6, <1>12, <1>14 DEF Whole

-----------------------------------------------------------------------------
(* The newest rows, as the ledger chooses them                             *)

LEMMA CharacterIsLatest ==
  ASSUME NEW S, Whole(S), NEW x, Revisions(S, x) # {}
  PROVE  /\ Latest(S, Character(S, x)) /\ Character(S, x).char = x
         /\ \A m : Latest(S, m) /\ m.char = x => m = Character(S, x)
<1>1. \A row : row \in Revisions(S, x) <=> row \in S /\ row.table = "revision" /\ row.char = x
  BY DEF Revisions, Table
<1>2. PICK row \in S : row.table = "revision" /\ row.char = x
  BY <1>1
<1>3. \E m \in S : Latest(S, m) /\ m.char = x
  BY <1>2 DEF Whole, CharactersWhole, RevisionWhole
<1>4. \E m \in Revisions(S, x) : \A other \in Revisions(S, x) : other.rev <= m.rev
  BY <1>1, <1>3 DEF Latest
<1>5. /\ Character(S, x) \in Revisions(S, x)
      /\ \A other \in Revisions(S, x) : other.rev <= Character(S, x).rev
  BY <1>4 DEF Character
<1>6. Latest(S, Character(S, x)) /\ Character(S, x).char = x
  BY <1>1, <1>5 DEF Latest
<1>7. ASSUME NEW m, Latest(S, m), m.char = x PROVE m = Character(S, x)
  <2> DEFINE c == Character(S, x)
  <2>1. m \in S /\ c \in S /\ m.table = "revision" /\ c.table = "revision" /\ c.char = m.char
    BY <1>6, <1>7 DEF Latest
  <2>2. m.rev \in Nat /\ c.rev \in Nat
    BY <2>1 DEF Whole, CharactersWhole, RevisionWhole
  <2>3. m.rev = c.rev
    BY <1>6, <1>7, <2>1, <2>2 DEF Latest
  <2>4. SameKey(m, c)
    BY <2>1, <2>3 DEF SameKey
  <2> QED
    BY <2>1, <2>4 DEF Whole, UniqueRows
<1> QED
  BY <1>6, <1>7

LEMMA RunIsLatest ==
  ASSUME NEW S, Whole(S), NEW r, RunRevisions(S, r) # {}
  PROVE  /\ LatestRun(S, Run(S, r)) /\ Run(S, r).run = r
         /\ \A m : LatestRun(S, m) /\ m.run = r => m = Run(S, r)
<1>1. \A row : row \in RunRevisions(S, r) <=> row \in S /\ row.table = "run" /\ row.run = r
  BY DEF RunRevisions, Table
<1>2. PICK row \in S : row.table = "run" /\ row.run = r
  BY <1>1
<1>3. \E m \in S : LatestRun(S, m) /\ m.run = r
  BY <1>2 DEF Whole, RunsWhole, RunRowWhole, RunRowPlaced
<1>4. \E m \in RunRevisions(S, r) : \A other \in RunRevisions(S, r) : other.version <= m.version
  BY <1>1, <1>3 DEF LatestRun
<1>5. /\ Run(S, r) \in RunRevisions(S, r)
      /\ \A other \in RunRevisions(S, r) : other.version <= Run(S, r).version
  BY <1>4 DEF Run
<1>6. LatestRun(S, Run(S, r)) /\ Run(S, r).run = r
  BY <1>1, <1>5 DEF LatestRun
<1> QED
  BY <1>6, LatestRunIsOne DEF Whole

LEMMA ActiveRunsHold ==
  ASSUME NEW S, Whole(S), NEW x, NEW r
  PROVE  r \in ActiveRuns(S, x) <=> \E m \in S : Holds(S, m, x) /\ m.run = r
<1>1. ASSUME NEW m \in S, m.table = "run" PROVE m = Run(S, m.run) <=> LatestRun(S, m)
  <2>1. RunRevisions(S, m.run) # {}
    BY <1>1 DEF RunRevisions, Table
  <2> QED
    BY <2>1, RunIsLatest
<1>2. \A m : LatestRun(S, m) => m \in S /\ m.table = "run"
  BY DEF LatestRun
<1>3. r \in ActiveRuns(S, x) <=>
         \E m \in S : /\ m.table = "run" /\ m.char = x /\ m.status \in ActiveLine
                      /\ m = Run(S, m.run) /\ m.run = r
  BY DEF ActiveRuns, Table
<1> QED
  BY <1>1, <1>2, <1>3 DEF Holds

LEMMA LatestOfferIsLast ==
  ASSUME NEW S, Whole(S), NEW x, Offers(S, x) # {}
  PROVE  /\ IsLastOffer(S, LatestOffer(S, x)) /\ LatestOffer(S, x).char = x
         /\ \A o : IsLastOffer(S, o) /\ o.char = x => o = LatestOffer(S, x)
<1>1. \A row : row \in Offers(S, x) <=> row \in S /\ row.table = "offer" /\ row.char = x
  BY DEF Offers, Table
<1>2. PICK row \in S : row.table = "offer" /\ row.char = x
  BY <1>1
<1>3. \E o \in S : EndsOpenings(S, o, x)
  BY <1>2 DEF Whole, OpeningsWhole, OfferWhole
<1>4. \E o \in Offers(S, x) : \A other \in Offers(S, x) : other.ordinal <= o.ordinal
  BY <1>1, <1>3 DEF EndsOpenings
<1>5. /\ LatestOffer(S, x) \in Offers(S, x)
      /\ \A other \in Offers(S, x) : other.ordinal <= LatestOffer(S, x).ordinal
  BY <1>4 DEF LatestOffer
<1>6. IsLastOffer(S, LatestOffer(S, x)) /\ LatestOffer(S, x).char = x
  BY <1>1, <1>5 DEF IsLastOffer
<1>7. ASSUME NEW o, IsLastOffer(S, o), o.char = x PROVE o = LatestOffer(S, x)
  <2> DEFINE last == LatestOffer(S, x)
  <2>1. /\ o \in S /\ last \in S /\ o.table = "offer" /\ last.table = "offer"
        /\ last.char = o.char
    BY <1>6, <1>7 DEF IsLastOffer
  <2>2. o.ordinal \in Nat /\ last.ordinal \in Nat
    BY <2>1 DEF Whole, OpeningsWhole, OfferWhole
  <2>3. o.ordinal = last.ordinal
    BY <1>6, <1>7, <2>1, <2>2 DEF IsLastOffer
  <2>4. SameKey(o, last)
    BY <2>1, <2>3 DEF SameKey
  <2> QED
    BY <2>1, <2>4 DEF Whole, UniqueRows
<1> QED
  BY <1>6, <1>7

\* An opening waits exactly when the last one does.
LEMMA PendingIsUnconfirmed ==
  ASSUME NEW S, Whole(S), NEW x
  PROVE  PendingOffer(S, x) <=> \E offer \in S : Unconfirmed(S, offer) /\ offer.char = x
<1>1. \A row : row \in Offers(S, x) <=> row \in S /\ row.table = "offer" /\ row.char = x
  BY DEF Offers, Table
<1>2. \A offer \in S : offer.table = "offer" =>
          (Confirmations(S, offer.offer) = {} <=> Unconfirmed(S, offer))
  BY DEF Confirmations, Table, Unconfirmed
<1>3. CASE Offers(S, x) = {}
  BY <1>1, <1>3 DEF PendingOffer, Unconfirmed
<1>4. CASE Offers(S, x) # {}
  <2> DEFINE last == LatestOffer(S, x)
  <2>1. IsLastOffer(S, last) /\ last.char = x /\ last \in S /\ last.table = "offer"
    BY <1>4, LatestOfferIsLast DEF IsLastOffer
  <2>2. PICK o \in S : EndsOpenings(S, o, x)
    BY <2>1 DEF Whole, OpeningsWhole, OfferWhole
  <2>3. IsLastOffer(S, o) /\ o.char = x
    BY <2>2 DEF EndsOpenings, IsLastOffer
  <2>4. o = last
    BY <1>4, <2>3, LatestOfferIsLast
  <2>5. \A offer \in S : Unconfirmed(S, offer) /\ offer.char = x => offer = last
    BY <2>2, <2>4 DEF EndsOpenings, Unconfirmed
  <2>6. PendingOffer(S, x) <=> Unconfirmed(S, last)
    BY <1>2, <1>4, <2>1 DEF PendingOffer
  <2> QED
    BY <2>1, <2>5, <2>6
<1> QED
  BY <1>3, <1>4

-----------------------------------------------------------------------------
(* The validity that the repositories check                                *)

LEMMA Counted ==
  ASSUME NEW H, NEW a \in Int, NEW b \in Int, NEW Number,
         Number \in [H -> a..b],
         \A n \in a..b : \E row \in H : Number[row] = n,
         \A row, other \in H : Number[row] = Number[other] => row = other
  PROVE  IsFiniteSet(H) /\ Cardinality(H) = Cardinality(a..b)
<1> DEFINE g == [n \in a..b |-> CHOOSE row \in H : Number[row] = n]
<1>1. \A n \in a..b : g[n] \in H /\ Number[g[n]] = n
  OBVIOUS
<1>2. g \in [a..b -> H]
  BY <1>1
<1>3. \A n, k \in a..b : g[n] = g[k] => n = k
  BY <1>1
<1>4. \A row \in H : g[Number[row]] = row /\ Number[row] \in a..b
  BY <1>1
<1> HIDE DEF g
<1>5. g \in Bijection(a..b, H)
  BY <1>2, <1>3, <1>4 DEF Bijection, Injection, Surjection, IsInjective
<1>6. ExistsBijection(a..b, H)
  BY <1>5 DEF ExistsBijection
<1>7. IsFiniteSet(a..b)
  BY FS_Interval
<1> QED
  BY <1>6, <1>7, FS_Bijection

LEMMA WholeCharacterIsValid ==
  ASSUME NEW S, Whole(S), NEW row \in S, row.table = "revision"
  PROVE  ValidCharacter(S, row.char)
<1> DEFINE x == row.char
           history == {r \in S : r.table = "revision" /\ r.char = x}
           created == {r \in S : r.table = "creation_receipt" /\ r.char = x}
           mutated == {r \in S : r.table = "mutation_receipt" /\ r.char = x}
           family == CharacterFamily(S, x)
           at(n) == CHOOSE r \in history : r.rev = n
<1>1. /\ family.history = history /\ family.created = created /\ family.mutated = mutated
  BY DEF CharacterFamily, Revisions, Table
<1>2. PICK m \in S : Latest(S, m) /\ m.char = x
  BY DEF Whole, CharactersWhole, RevisionWhole
<1> DEFINE n == m.rev
<1>3. m.table = "revision" /\ RevisionWhole(S, m) /\ n \in Nat \ {0}
  BY <1>2 DEF Latest, Whole, CharactersWhole, RevisionWhole
<1>4. \A r \in history : RevisionWhole(S, r) /\ r.rev \in 1..n
  <2>1. SUFFICES ASSUME NEW r \in history PROVE RevisionWhole(S, r) /\ r.rev \in 1..n
    OBVIOUS
  <2>2. RevisionWhole(S, r)
    BY DEF Whole, CharactersWhole
  <2>3. r.rev \in Nat \ {0}
    BY <2>2 DEF RevisionWhole
  <2>4. r.rev <= n
    BY <1>2 DEF Latest
  <2> QED
    BY <2>2, <2>3, <2>4, <1>3
<1>5. \A k \in 1..n : \E r \in history : r.rev = k
  BY <1>2, <1>3 DEF RevisionWhole
<1>6. \A r, t \in history : r.rev = t.rev => r = t
  BY DEF Whole, UniqueRows, SameKey
<1>7. IsFiniteSet(history) /\ Cardinality(history) = n
  <2> DEFINE Number == [r \in history |-> r.rev]
  <2>1. Number \in [history -> 1..n] /\ \A r \in history : Number[r] = r.rev
    BY <1>4
  <2> HIDE DEF Number, history, n
  <2>2. \A k \in 1..n : \E r \in history : Number[r] = k
    BY <2>1, <1>5
  <2>3. \A r, t \in history : Number[r] = Number[t] => r = t
    BY <2>1, <1>6
  <2>4. n \in Int /\ 1 \in Int
    BY <1>3
  <2>5. IsFiniteSet(history) /\ Cardinality(history) = Cardinality(1..n)
    BY <2>1, <2>2, <2>3, <2>4, Counted
  <2> QED
    BY <2>5, <1>3, FS_Interval
<1>8. \A k \in 1..n : at(k) \in history /\ at(k).rev = k
  BY <1>5
<1>9. \A r \in history : at(r.rev) = r
  BY <1>4, <1>6, <1>8
<1>10. \A receipt \in mutated : /\ receipt.rev \in 2..n
                                /\ LawfulStep(at(receipt.rev - 1), at(receipt.rev), receipt)
  <2>1. SUFFICES ASSUME NEW receipt \in mutated
                 PROVE  /\ receipt.rev \in 2..n
                        /\ LawfulStep(at(receipt.rev - 1), at(receipt.rev), receipt)
    OBVIOUS
  <2>2. PICK after \in history : after.rev = receipt.rev /\ after.rev > 1
    BY DEF Whole, CharactersWhole
  <2>3. PICK before, cause \in S :
          /\ before.table = "revision" /\ before.char = x /\ before.rev = after.rev - 1
          /\ cause.table = "mutation_receipt" /\ cause.char = x
          /\ LawfulStep(before, after, cause)
    BY <2>2, <1>4 DEF RevisionWhole
  <2>4. cause.rev = receipt.rev
    BY <2>2, <2>3 DEF LawfulStep
  <2>5. SameKey(cause, receipt)
    BY <2>3, <2>4 DEF SameKey
  <2>6. cause = receipt
    BY <2>3, <2>5 DEF Whole, UniqueRows
  <2>7. before \in history /\ at(before.rev) = before /\ at(after.rev) = after
    BY <2>2, <2>3, <1>9
  <2>8. receipt.rev \in 2..n
    BY <2>2, <1>4
  <2> HIDE DEF at
  <2> QED
    BY <2>2, <2>3, <2>6, <2>7, <2>8
<1>11. \A k \in 2..n : \E receipt \in mutated : receipt.rev = k
  <2>1. SUFFICES ASSUME NEW k \in 2..n PROVE \E receipt \in mutated : receipt.rev = k
    OBVIOUS
  <2>2. PICK after \in history : after.rev = k
    BY <1>3, <1>5
  <2>3. after.rev > 1 /\ RevisionWhole(S, after)
    BY <2>2, <1>4
  <2>4. PICK before, cause \in S :
          /\ cause.table = "mutation_receipt" /\ cause.char = x
          /\ LawfulStep(before, after, cause)
    BY <2>3 DEF RevisionWhole
  <2> QED
    BY <2>2, <2>4 DEF LawfulStep
<1>12. IsFiniteSet(mutated) /\ Cardinality(mutated) = n - 1
  <2> DEFINE Number == [r \in mutated |-> r.rev]
  <2>1. Number \in [mutated -> 2..n] /\ \A r \in mutated : Number[r] = r.rev
    BY <1>10
  <2>2. \A r, t \in mutated : r.rev = t.rev => r = t
    BY DEF Whole, UniqueRows, SameKey
  <2> HIDE DEF Number, mutated, n
  <2>3. \A k \in 2..n : \E r \in mutated : Number[r] = k
    BY <2>1, <1>11
  <2>4. \A r, t \in mutated : Number[r] = Number[t] => r = t
    BY <2>1, <2>2
  <2>5. n \in Int /\ 2 \in Int
    BY <1>3
  <2>6. IsFiniteSet(mutated) /\ Cardinality(mutated) = Cardinality(2..n)
    BY <2>1, <2>3, <2>4, <2>5, Counted
  <2>7. Cardinality(2..n) = n - 1
    BY <1>3, FS_Interval
  <2> QED
    BY <2>6, <2>7
<1>13. PICK receipt \in created : /\ at(1) = Revision(x, 1, "ACTIVE", receipt.who, "CREATE", receipt.body)
                                  /\ Binding(receipt.who) \in S
  <2>1. at(1) \in history /\ at(1).rev = 1
    BY <1>3, <1>8
  <2> DEFINE first == at(1)
  <2> HIDE DEF first
  <2>2. first.char = x /\ RevisionWhole(S, first) /\ first.rev = 1
    BY <2>1, <1>4 DEF first
  <2>3. \E receipt \in S :
              /\ receipt.table = "creation_receipt" /\ receipt.char = x
              /\ first = Revision(x, 1, "ACTIVE", receipt.who, "CREATE", receipt.body)
              /\ Binding(receipt.who) \in S
    BY <2>2 DEF RevisionWhole
  <2> QED
    BY <2>3 DEF first
<1>14. created = {receipt}
  BY DEF Whole, UniqueRows, SameKey
<1>15. Binding(at(1).who) \in S
  <2>1. Revision(x, 1, "ACTIVE", receipt.who, "CREATE", receipt.body).who = receipt.who
    BY DEF Revision
  <2> HIDE DEF at
  <2> QED
    BY <1>13, <2>1
<1>16. {r.rev : r \in history} = 1..n /\ {r.rev : r \in mutated} = 2..n
  BY <1>4, <1>5, <1>10, <1>11
<1> DEFINE ofHistory(k) == CHOOSE r \in family.history : r.rev = k
<1>17. \A k : ofHistory(k) = at(k)
  BY <1>1
<1>18. /\ {r.rev : r \in family.history} = 1..Cardinality(family.history)
       /\ \E found \in family.created :
             /\ family.created = {found}
             /\ ofHistory(1) = Revision(x, 1, "ACTIVE", found.who, "CREATE", found.body)
       /\ Binding(ofHistory(1).who) \in S
       /\ {r.rev : r \in family.mutated} = 2..Cardinality(family.history)
       /\ Cardinality(family.mutated) = Cardinality(family.history) - 1
       /\ \A found \in family.mutated :
             LawfulStep(ofHistory(found.rev - 1), ofHistory(found.rev), found)
  <2> HIDE DEF at, ofHistory, history, created, mutated, family, n
  <2> QED
    BY <1>1, <1>7, <1>10, <1>12, <1>13, <1>14, <1>15, <1>16, <1>17
<1> QED
  BY <1>18 DEF ValidCharacter

LEMMA OneRowPerVersion ==
  ASSUME NEW S, Whole(S), NEW a \in S, NEW b \in S, a.table = "run", b.table = "run",
         a.run = b.run, a.version = b.version
  PROVE  a = b
  BY DEF Whole, UniqueRows, SameKey

LEMMA OneBinding ==
  ASSUME NEW S, Whole(S), NEW a \in S, NEW b \in S, a.table = "run", b.table = "run",
         a.run = b.run, a.kind = "BIND", b.kind = "BIND"
  PROVE  a = b
<1>1. a.version \in Nat /\ b.version \in Nat
  BY DEF Whole, RunsWhole, RunRowWhole, RunRowPlaced
<1>2. /\ a.char = None <=> a.version < a.version
      /\ b.char = None <=> b.version < b.version
      /\ b.char = None <=> b.version < a.version
      /\ a.char = None <=> a.version < b.version
  BY DEF Whole, RunsWhole, RunRowsAgree
<1>3. a.version = b.version
  BY <1>1, <1>2
<1> QED
  BY <1>3, OneRowPerVersion

LEMMA RunRowIsLawful ==
  ASSUME NEW S, Whole(S), NEW row \in S, row.table = "run"
  PROVE  LawfulRun(S, row)
<1> DEFINE joins == {p.version : p \in {p \in Participations(S, row.run) : p.version <= row.version}}
           bound == {m.version : m \in {m \in RunRevisions(S, row.run) :
                                           m.kind = "BIND" /\ m.version <= row.version}}
           ended == IF row.status \in ActiveLine THEN {} ELSE {row.version}
<1>1. row.version \in Nat \ {0} /\ RunRowPlaced(S, row) /\ RunRowLawful(S, row) /\ RunShape(row)
  BY DEF Whole, RunsWhole, RunRowWhole, RunRowPlaced, RunRowLawful
<1>2. \A k : k \in joins <=> \E a \in S : /\ a.table = "run" /\ a.run = row.run /\ a.version = k
                                          /\ a.kind = "ATTACH" /\ k <= row.version
  <2>1. \A k : k \in joins <=> \E p \in S : /\ p.table = "participation" /\ p.run = row.run
                                            /\ p.version = k /\ k <= row.version
    BY DEF Participations, Table
  <2>2. ASSUME NEW p \in S, p.table = "participation"
        PROVE  \E a \in S : /\ a.table = "run" /\ a.run = p.run /\ a.version = p.version
                            /\ a.kind = "ATTACH"
    <3>1. PICK a \in S : a.table = "run" /\ a.run = p.run /\ a.version = p.version
      BY <2>2 DEF Whole, RunsWhole
    <3>2. Joined(S, a)
      BY <2>2, <3>1 DEF Joined
    <3> QED
      BY <3>1, <3>2 DEF Whole, RunsWhole, RunRowWhole, RunRowLawful
  <2>3. ASSUME NEW a \in S, a.table = "run", a.kind = "ATTACH"
        PROVE  \E p \in S : p.table = "participation" /\ p.run = a.run /\ p.version = a.version
    BY <2>3 DEF Whole, RunsWhole, RunRowWhole, RunRowLawful, Joined
  <2> HIDE DEF joins
  <2> QED
    BY <2>1, <2>2, <2>3
<1>3. \A k : k \in bound <=> \E a \in S : /\ a.table = "run" /\ a.run = row.run /\ a.version = k
                                          /\ a.kind = "BIND" /\ k <= row.version
  BY DEF RunRevisions, Table
<1> HIDE DEF joins, bound
<1>4. ASSUME NEW a \in S, a.table = "run", a.run = row.run
      PROVE  RunRowsAgree(a, row) /\ RunRowsAgree(row, a) /\ RunShape(a) /\ a.version \in Nat \ {0}
  BY <1>4 DEF Whole, RunsWhole, RunRowWhole, RunRowPlaced, RunRowLawful
<1>5. \A k \in 1..row.version : \E a \in S : a.table = "run" /\ a.run = row.run /\ a.version = k
  BY <1>1 DEF RunRowPlaced
<1>6. (row.char = None) = (bound = {})
  <2>1. ASSUME row.char = None, NEW k \in bound PROVE FALSE
    <3>1. PICK a \in S : /\ a.table = "run" /\ a.run = row.run /\ a.version = k
                         /\ a.kind = "BIND" /\ k <= row.version
      BY <1>3, <2>1
    <3>2. row.version < a.version /\ a.version \in Nat
      BY <3>1, <1>4, <2>1 DEF RunRowsAgree
    <3> QED
      BY <3>1, <3>2, <1>1
  <2>2. ASSUME row.char # None PROVE bound # {}
    BY <2>2, <1>1, <1>3 DEF RunRowLawful
  <2> QED
    BY <2>1, <2>2
<1>7. Cardinality(bound) <= 1
  <2>1. \A k, l \in bound : k = l
    BY <1>3, OneBinding
  <2>2. CASE bound = {}
    BY <2>2, FS_EmptySet
  <2>3. ASSUME NEW k \in bound PROVE Cardinality(bound) <= 1
    <3>1. bound = {k}
      BY <2>1, <2>3
    <3>2. Cardinality({k}) = 1
      BY FS_Singleton, Zenon
    <3> QED
      BY <3>1, <3>2
  <2> QED
    BY <2>2, <2>3
<1>8. joins \cap bound = {}
  <2>1. SUFFICES ASSUME NEW k \in joins, k \in bound PROVE FALSE
    OBVIOUS
  <2>2. PICK a \in S : /\ a.table = "run" /\ a.run = row.run /\ a.version = k /\ a.kind = "ATTACH"
    BY <1>2
  <2>3. PICK b \in S : /\ b.table = "run" /\ b.run = row.run /\ b.version = k /\ b.kind = "BIND"
    BY <1>3, <2>1
  <2> QED
    BY <2>2, <2>3, OneRowPerVersion
<1>9. row.status \in ActiveLine <=> row.status # "TERMINATED"
  BY <1>1 DEF RunShape, ActiveLine
<1>10. joins \cup bound \cup ended = 2..row.version
  <2>1. ASSUME NEW k \in joins \cup bound \cup ended PROVE k \in 2..row.version
    <3>1. CASE k \in joins \cup bound
      <4>1. PICK a \in S : /\ a.table = "run" /\ a.run = row.run /\ a.version = k
                           /\ a.kind \in {"ATTACH", "BIND"} /\ k <= row.version
        BY <1>2, <1>3, <3>1
      <4>2. k \in Nat /\ k > 1
        BY <4>1, <1>4 DEF RunShape
      <4> HIDE DEF ended
      <4> QED
        BY <4>1, <4>2, <1>1
    <3>2. CASE k \in ended
      <4>1. k = row.version /\ row.status = "TERMINATED"
        BY <3>2, <1>9
      <4>2. row.version = 4
        BY <4>1, <1>1 DEF RunShape
      <4> QED
        BY <4>1, <4>2
    <3> QED
      BY <2>1, <3>1, <3>2
  <2>2. ASSUME NEW k \in 2..row.version PROVE k \in joins \cup bound \cup ended
    <3>1. PICK a \in S : a.table = "run" /\ a.run = row.run /\ a.version = k
      BY <1>1, <1>5, <2>2
    <3>2. CASE a.kind = "ATTACH"
      BY <3>1, <3>2, <1>1, <1>2, <2>2
    <3>3. CASE a.kind = "BIND"
      BY <3>1, <3>3, <1>1, <1>3, <2>2
    <3>4. CASE a.kind = "EXIT"
      <4>1. a.status = "TERMINATED"
        BY <3>1, <3>4, <1>4 DEF RunShape
      <4>2. row.version <= a.version
        BY <3>1, <4>1, <1>4 DEF RunRowsAgree
      <4>3. a = row
        BY <3>1, <4>2, <1>1, OneRowPerVersion
      <4> QED
        BY <4>1, <4>3, <3>1, <1>9
    <3>5. a.kind # "CREATE"
      BY <3>1, <1>4, <2>2 DEF RunShape
    <3> QED
      BY <3>1, <3>2, <3>3, <3>4, <3>5, <1>4 DEF RunShape
  <2> QED
    BY <2>1, <2>2
<1>11. (row.kind \in JoinKinds => row.version \in joins) /\ (row.kind = "CREATE" => row.version = 1)
  BY <1>1, <1>2 DEF RunShape, JoinKinds
<1>12. LawfulShape(row, joins)
  <2>1. ASSUME row.status \in {"ACTIVE", "TERMINATED"} PROVE joins = {3}
    <3>1. row.version \in {3, 4} /\ 2 \in 1..row.version /\ 3 \in 1..row.version
          /\ (row.version = 4 => row.status = "TERMINATED")
      BY <2>1, <1>1 DEF RunShape
    <3>2. PICK second \in S : second.table = "run" /\ second.run = row.run /\ second.version = 2
      BY <3>1, <1>5
    <3>3. PICK third \in S : third.table = "run" /\ third.run = row.run /\ third.version = 3
      BY <3>1, <1>5
    <3>4. third.status = "ACTIVE"
      <4>1. CASE row.status = "ACTIVE"
        <5>1. row.version = 3
          BY <4>1, <1>1 DEF RunShape
        <5> QED
          BY <4>1, <5>1, <3>3, OneRowPerVersion
      <4>2. CASE row.status = "TERMINATED"
        BY <4>2, <3>3, <1>4 DEF RunRowsAgree
      <4> QED
        BY <2>1, <4>1, <4>2
    <3>5. third.kind = "ATTACH"
      BY <3>3, <3>4, <1>4 DEF RunShape
    <3>6. second.kind = "BIND"
      BY <3>2, <3>3, <3>4 DEF Whole, RunsWhole, RunRowsAgree
    <3>7. 3 \in joins
      BY <3>1, <3>3, <3>5, <1>2
    <3>8. ASSUME NEW k \in joins PROVE k = 3
      <4>1. PICK a \in S : /\ a.table = "run" /\ a.run = row.run /\ a.version = k
                           /\ a.kind = "ATTACH" /\ k <= row.version
        BY <1>2, <3>8
      <4>2. k \in Nat /\ k > 1
        BY <4>1, <1>4 DEF RunShape
      <4>3. k # 2
        BY <4>1, <3>2, <3>6, OneRowPerVersion
      <4>4. k # 4
        <5>1. ASSUME k = 4 PROVE FALSE
          <6>1. row.version = 4 /\ row.status = "TERMINATED"
            BY <5>1, <4>1, <3>1
          <6>2. a = row
            BY <5>1, <6>1, <4>1, OneRowPerVersion
          <6> QED
            BY <6>1, <6>2, <4>1, <1>1 DEF RunShape
        <5> QED
          BY <5>1
      <4> QED
        BY <4>1, <4>2, <4>3, <4>4, <3>1
    <3> QED
      BY <3>7, <3>8
  <2>2. 3..3 = {3}
    OBVIOUS
  <2>3. CASE row.status = "ACTIVE"
    <3>1. row.version = 3 /\ row.kind = "ATTACH"
      BY <2>3, <1>1 DEF RunShape
    <3> QED
      BY <2>1, <2>2, <2>3, <3>1 DEF LawfulShape
  <2>4. CASE row.status = "TERMINATED"
    <3>1. row.version = 4 /\ row.kind = "EXIT"
      BY <2>4, <1>1 DEF RunShape
    <3>2. 3..(row.version - 1) = {3} /\ row.version \in 4..6
      BY <3>1, <2>2
    <3> QED
      BY <2>1, <2>4, <3>1, <3>2 DEF LawfulShape
  <2>5. CASE row.status = "PRE_FIRST_TURN"
    <3>1. row.kind \in {"CREATE", "BIND", "ATTACH"}
      BY <2>5, <1>1 DEF RunShape
    <3> QED
      BY <2>5, <3>1 DEF LawfulShape
  <2> QED
    BY <2>3, <2>4, <2>5, <1>1 DEF RunShape
<1>13. /\ (row.char = None) = (bound = {})
       /\ joins \cup bound \cup ended = 2..row.version
       /\ joins \cap bound = {} /\ Cardinality(bound) <= 1
       /\ row.kind \in JoinKinds => row.version \in joins
       /\ row.kind = "CREATE" => row.version = 1
       /\ LawfulShape(row, joins)
  BY <1>6, <1>7, <1>8, <1>10, <1>11, <1>12
<1> QED
  BY <1>13 DEF LawfulRun, joins, bound

LEMMA WholeRunIsValid ==
  ASSUME NEW S, Whole(S), NEW some \in S, some.table = "run"
  PROVE  ValidRun(S, some.run)
<1> DEFINE r == some.run
           history == {a \in S : a.table = "run" /\ a.run = r}
           joined == {a \in S : a.table = "participation" /\ a.run = r}
           created == {a \in S : a.table = "run_creation" /\ a.run = r}
           steps == {a \in S : a.table = "run_receipt" /\ a.run = r}
           family == RunFamily(S, r)
           at(k) == CHOOSE a \in family.history : a.version = k
           last == Run(S, r)
           n == last.version
<1>1. /\ family.history = history /\ family.joined = joined /\ family.created = created
      /\ family.steps = steps /\ RunRevisions(S, r) = history
  BY DEF RunFamily, RunRevisions, Participations, Table
<1>2. LatestRun(S, last) /\ last.run = r /\ last \in history
  <2>1. RunRevisions(S, r) # {}
    BY <1>1
  <2>2. LatestRun(S, last) /\ last.run = r
    BY <2>1, RunIsLatest
  <2> HIDE DEF last
  <2> QED
    BY <2>2 DEF LatestRun
<1> HIDE DEF last, family
<1>3. /\ \A a \in history : RunRowPlaced(S, a) /\ RunRowLawful(S, a) /\ RunShape(a) /\ a.version \in Nat \ {0}
      /\ \A a, b \in history : RunRowsAgree(a, b)
      /\ \A a, b \in history : a.version = b.version => a = b
  <2>1. \A a \in history : RunRowPlaced(S, a) /\ RunRowLawful(S, a) /\ RunShape(a) /\ a.version \in Nat \ {0}
    BY DEF Whole, RunsWhole, RunRowWhole, RunRowLawful, RunRowPlaced
  <2>2. \A a, b \in history : RunRowsAgree(a, b)
    BY DEF Whole, RunsWhole
  <2>3. \A a, b \in history : a.version = b.version => a = b
    BY OneRowPerVersion
  <2> QED
    BY <2>1, <2>2, <2>3
<1>4. n \in Nat \ {0} /\ \A a \in history : a.version \in 1..n
  BY <1>2, <1>3 DEF LatestRun
<1>5. \A k \in 1..n : \E a \in history : a.version = k
  BY <1>2, <1>3 DEF RunRowPlaced
<1>6. IsFiniteSet(history) /\ Cardinality(history) = n
  <2> DEFINE Number == [a \in history |-> a.version]
  <2>1. Number \in [history -> 1..n] /\ \A a \in history : Number[a] = a.version
    BY <1>4
  <2> HIDE DEF Number, history, n
  <2>2. \A k \in 1..n : \E a \in history : Number[a] = k
    BY <2>1, <1>5
  <2>3. \A a, b \in history : Number[a] = Number[b] => a = b
    BY <2>1, <1>3
  <2>4. n \in Int /\ 1 \in Int
    BY <1>4
  <2>5. IsFiniteSet(history) /\ Cardinality(history) = Cardinality(1..n)
    BY <2>1, <2>2, <2>3, <2>4, Counted
  <2> QED
    BY <2>5, <1>4, FS_Interval
<1>7. \A k \in 1..n : at(k) \in history /\ at(k).version = k
  BY <1>1, <1>5
<1>8. \A a \in history : at(a.version) = a
  BY <1>3, <1>4, <1>7
<1> HIDE DEF at
<1>9. HistoryIsWhole(S, r)
  <2>1. {a.version : a \in history} = 1..n
    BY <1>4, <1>5
  <2>2. \A a \in history : LawfulRun(S, a)
    BY RunRowIsLawful
  <2>3. ASSUME NEW p \in joined PROVE \E a \in history : a.kind \in JoinKinds /\ a.version = p.version
    <3>1. PICK a \in history : a.version = p.version
      BY DEF Whole, RunsWhole
    <3>2. Joined(S, a)
      BY <3>1 DEF Joined
    <3>3. a.kind = "ATTACH"
      BY <3>2, <1>3 DEF RunRowLawful
    <3> QED
      BY <3>1, <3>3 DEF JoinKinds
  <2>4. ASSUME NEW a \in history, a.kind \in JoinKinds PROVE \E p \in joined : p.version = a.version
    <3>1. a.kind = "ATTACH"
      BY <2>4, <1>3 DEF RunShape, JoinKinds
    <3>2. Joined(S, a)
      BY <3>1, <1>3 DEF RunRowLawful
    <3> QED
      BY <3>2 DEF Joined
  <2>5. {p.version : p \in joined} = {a.version : a \in {a \in history : a.kind \in JoinKinds}}
    <3> HIDE DEF joined, history
    <3> QED
      BY <2>3, <2>4
  <2> HIDE DEF joined, history, n
  <2> QED
    BY <2>1, <2>2, <2>5, <1>1, <1>6 DEF HistoryIsWhole, family
<1>10. BindingIsKept(S, r)
  <2>1. ASSUME NEW a \in history, a.char # None PROVE a.char = last.char /\ a.rev = last.rev
    <3>1. PICK b \in history : /\ b.kind = "BIND" /\ b.version <= a.version
                               /\ b.char = a.char /\ b.rev = a.rev
      BY <1>3, <2>1 DEF RunRowLawful
    <3>2. a.version <= n /\ b.version \in Nat /\ a.version \in Nat
      BY <1>3, <1>4
    <3>3. last.char = None <=> n < b.version
      BY <3>1, <1>2, <1>3 DEF RunRowsAgree
    <3>4. last.char # None
      BY <3>1, <3>2, <3>3, <1>4
    <3>5. PICK d \in history : /\ d.kind = "BIND" /\ d.char = last.char /\ d.rev = last.rev
      BY <3>4, <1>2, <1>3 DEF RunRowLawful
    <3>6. b = d
      BY <3>1, <3>5, OneBinding
    <3> QED
      BY <3>1, <3>5, <3>6
  <2>2. \A a \in history : a.char \in {None, last.char} /\ a.rev \in {None, last.rev}
    <3>1. \A a \in history : a.char = None => a.rev = None
      BY <1>3 DEF RunRowLawful
    <3> QED
      BY <3>1, <2>1
  <2>3. last.char # None =>
          \E c \in Revisions(S, last.char) : c.rev = last.rev /\ c.life = "ACTIVE"
    <3>1. last.char # None =>
            \E c \in S : /\ c.table = "revision" /\ c.char = last.char
                         /\ c.rev = last.rev /\ c.life = "ACTIVE"
      BY <1>2, <1>3 DEF RunRowLawful
    <3> QED
      BY <3>1 DEF Revisions, Table
  <2> HIDE DEF history, n
  <2> QED
    BY <2>2, <2>3, <1>1 DEF BindingIsKept, last
<1>11. ASSUME NEW a \in history, a.version > 1
       PROVE  \E receipt \in steps : /\ receipt.version = a.version /\ ReceiptShape(receipt)
                                     /\ StepFits(S, a, receipt)
  <2>1. HasReceipt(S, a) /\ RunShape(a)
    BY <1>3, <1>11 DEF RunRowLawful
  <2>2. PICK receipt \in steps :
          /\ receipt.version = a.version
          /\ receipt.kind = a.kind
          /\ a.kind # "EXIT" => receipt.op = a.op
          /\ a.kind = "BIND" => receipt.subject = a.char
          /\ a.kind = "ATTACH" =>
                /\ \E p \in S : /\ p.table = "participation" /\ p.run = r
                                /\ p.version = a.version /\ p.session = receipt.subject
                /\ \E s \in S : s.table = "session" /\ s.session = receipt.subject
    BY <2>1 DEF HasReceipt
  <2>3. a.kind \in {"BIND", "ATTACH", "EXIT"} /\ (a.kind = "EXIT" => a.version = 4)
    BY <2>1, <1>11 DEF RunShape
  <2>4. ReceiptShape(receipt)
    BY <2>2, <2>3 DEF ReceiptShape, JoinKinds
  <2>5. StepFits(S, a, receipt)
    BY <2>2, <2>3 DEF StepFits, JoinKinds, Participations, Table
  <2> QED
    BY <2>2, <2>4, <2>5
<1>12. \A receipt, other \in steps : receipt.version = other.version => receipt = other
  BY DEF Whole, UniqueRows, SameKey
<1>13. \A receipt \in steps : \E a \in history : a.version = receipt.version /\ a.version > 1
  BY DEF Whole, RunsWhole
<1>14. \A receipt \in steps : /\ receipt.version \in 2..n
                              /\ ReceiptShape(receipt) /\ StepFits(S, at(receipt.version), receipt)
  <2>1. SUFFICES ASSUME NEW receipt \in steps
                 PROVE  /\ receipt.version \in 2..n
                        /\ ReceiptShape(receipt) /\ StepFits(S, at(receipt.version), receipt)
    OBVIOUS
  <2>2. PICK a \in history : a.version = receipt.version /\ a.version > 1
    BY <1>13
  <2>3. PICK fitting \in steps : /\ fitting.version = a.version /\ ReceiptShape(fitting)
                                 /\ StepFits(S, a, fitting)
    BY <2>2, <1>11
  <2>4. fitting = receipt
    BY <2>2, <2>3, <1>12
  <2>5. at(receipt.version) = a
    BY <2>2, <1>8
  <2>6. receipt.version \in 2..n
    BY <2>2, <1>4
  <2> QED
    BY <2>3, <2>4, <2>5, <2>6
<1>15. \A k \in 2..n : \E receipt \in steps : receipt.version = k
  <2>1. SUFFICES ASSUME NEW k \in 2..n PROVE \E receipt \in steps : receipt.version = k
    OBVIOUS
  <2>2. PICK a \in history : a.version = k
    BY <1>4, <1>5
  <2> QED
    BY <2>2, <1>4, <1>11
<1>16. IsFiniteSet(steps) /\ Cardinality(steps) = n - 1
  <2> DEFINE Number == [a \in steps |-> a.version]
  <2>1. Number \in [steps -> 2..n] /\ \A a \in steps : Number[a] = a.version
    BY <1>14
  <2> HIDE DEF Number, steps, n
  <2>2. \A k \in 2..n : \E a \in steps : Number[a] = k
    BY <2>1, <1>15
  <2>3. \A a, b \in steps : Number[a] = Number[b] => a = b
    BY <2>1, <1>12
  <2>4. n \in Int /\ 2 \in Int
    BY <1>4
  <2>5. IsFiniteSet(steps) /\ Cardinality(steps) = Cardinality(2..n)
    BY <2>1, <2>2, <2>3, <2>4, Counted
  <2>6. Cardinality(2..n) = n - 1
    BY <1>4, FS_Interval
  <2> QED
    BY <2>5, <2>6
<1>17. \E receipt \in created : created = {receipt} /\ receipt.op = at(1).op
  <2>1. at(1) \in history /\ at(1).version = 1
    BY <1>4, <1>7
  <2>2. PICK receipt \in created : receipt.op = at(1).op
    BY <2>1, <1>3 DEF RunRowLawful
  <2>3. \A a, b \in created : a = b
    BY DEF Whole, UniqueRows, SameKey
  <2> HIDE DEF created
  <2> QED
    BY <2>2, <2>3
<1>18. {a.version : a \in steps} = 2..n
  BY <1>14, <1>15
<1>19. ReceiptsCover(S, r)
  <2> HIDE DEF created, steps, history, n
  <2>1. /\ \E receipt \in family.created : family.created = {receipt} /\ receipt.op = at(1).op
        /\ {a.version : a \in family.steps} = 2..Cardinality(family.history)
        /\ Cardinality(family.steps) = Cardinality(family.history) - 1
        /\ \A a \in family.steps : ReceiptShape(a) /\ StepFits(S, at(a.version), a)
    BY <1>1, <1>6, <1>14, <1>16, <1>17, <1>18
  <2> QED
    BY <2>1 DEF ReceiptsCover, at, family
<1>20. last.kind \in {"EXIT", "CONTINUE", "REVISIT", "COMPLETE"} =>
          \E a \in Table(S, "admission") : a.run = r
  <2>1. ASSUME last.kind \in {"EXIT", "CONTINUE", "REVISIT", "COMPLETE"}
        PROVE  \E a \in S : a.table = "admission" /\ a.run = r
    <3>1. last.status = "TERMINATED" /\ last.op.family = "native"
      BY <2>1, <1>2, <1>3 DEF RunShape
    <3> QED
      BY <3>1, <1>2, <1>3 DEF RunRowLawful
  <2> QED
    BY <2>1 DEF Table
<1> QED
  BY <1>9, <1>10, <1>19, <1>20 DEF ValidRun, last

LEMMA WholeOpeningIsValid ==
  ASSUME NEW S, Whole(S), NEW offer \in S, offer.table = "offer"
  PROVE  ValidOpening(S, offer)
<1>1. Revisions(S, offer.char) # {}
  <2>1. \E m \in S : m.table = "revision" /\ m.char = offer.char
    BY DEF Whole, OpeningsWhole, OfferWhole
  <2> QED
    BY <2>1 DEF Revisions, Table
<1>2. ASSUME NEW done \in S, done.table = "confirmation", done.offer = offer.offer
      PROVE  /\ done.pick \in LegalPicks
             /\ \E row \in S : /\ row.table = "run_creation" /\ row.op = FrozenOp(offer)
                               /\ row.run = done.run
  <2>1. PICK other, created \in S :
          /\ other.table = "offer" /\ other.offer = done.offer
          /\ created.table = "run_creation" /\ created.op = FrozenOp(other)
          /\ created.run = done.run
    BY <1>2 DEF Whole, OpeningsWhole
  <2>2. SameKey(other, offer)
    BY <1>2, <2>1 DEF SameKey
  <2>3. other = offer
    BY <2>2 DEF Whole, UniqueRows
  <2>4. done.pick \in LegalPicks
    BY <1>2 DEF Whole, OpeningsWhole
  <2> QED
    BY <2>1, <2>3, <2>4
<1>3. \A done \in Confirmations(S, offer.offer) :
          done \in S /\ done.table = "confirmation" /\ done.offer = offer.offer
  BY DEF Confirmations, Table
<1>4. \A done \in Confirmations(S, offer.offer) :
          /\ done.pick \in LegalPicks
          /\ \E row \in RunCreations(S, FrozenOp(offer)) : row.run = done.run
  BY <1>2, <1>3 DEF RunCreations, Table
<1> QED
  BY <1>1, <1>4 DEF ValidOpening

LEMMA WholeHoldersAreUnique ==
  ASSUME NEW S, Whole(S)
  PROVE  HoldersAreUnique(S)
<1>1. SUFFICES ASSUME NEW row \in S, row.table = "revision"
               PROVE  /\ \A r, t \in ActiveRuns(S, row.char) : r = t
                      /\ \A o, p \in {offer.offer : offer \in Offers(S, row.char)} :
                            Confirmations(S, o) = {} /\ Confirmations(S, p) = {} => o = p
  BY DEF HoldersAreUnique, Table
<1> DEFINE x == row.char
<1>2. x # None
  BY <1>1 DEF Whole, CharactersWhole, RevisionWhole
<1>3. ASSUME NEW r \in ActiveRuns(S, x), NEW t \in ActiveRuns(S, x) PROVE r = t
  <2>1. PICK m \in S : Holds(S, m, x) /\ m.run = r
    BY <1>3, ActiveRunsHold
  <2>2. PICK k \in S : Holds(S, k, x) /\ k.run = t
    BY <1>3, ActiveRunsHold
  <2>3. m.table = "run" /\ m.char = x
    BY <2>1 DEF Holds, LatestRun
  <2>4. m = k
    BY <2>1, <2>2, <2>3, <1>2 DEF Whole, HoldersWhole
  <2> QED
    BY <2>1, <2>2, <2>4
<1>4. ASSUME NEW a \in S, NEW b \in S, a.table = "offer", b.table = "offer", a.char = x, b.char = x,
             Confirmations(S, a.offer) = {}, Confirmations(S, b.offer) = {}
      PROVE  a.offer = b.offer
  <2>1. Unconfirmed(S, a) /\ Unconfirmed(S, b)
    BY <1>4 DEF Unconfirmed, Confirmations, Table
  <2>2. PICK last \in S : EndsOpenings(S, last, x)
    BY <1>4 DEF Whole, OpeningsWhole, OfferWhole
  <2>3. a = last /\ b = last
    BY <1>4, <2>1, <2>2 DEF EndsOpenings
  <2> QED
    BY <2>3
<1>5. ASSUME NEW o \in {offer.offer : offer \in Offers(S, x)},
             NEW p \in {offer.offer : offer \in Offers(S, x)},
             Confirmations(S, o) = {}, Confirmations(S, p) = {}
      PROVE  o = p
  <2>1. PICK a \in S : a.table = "offer" /\ a.char = x /\ a.offer = o
    BY <1>5 DEF Offers, Table
  <2>2. PICK b \in S : b.table = "offer" /\ b.char = x /\ b.offer = p
    BY <1>5 DEF Offers, Table
  <2> QED
    BY <2>1, <2>2, <1>4, <1>5
<1> QED
  BY <1>3, <1>5

\* Everything that the repositories refuse to load otherwise.
LEMMA WholeFailsNowhere ==
  ASSUME NEW S, Whole(S)
  PROVE  /\ \A x \in {row.char : row \in Table(S, "revision")} : ValidCharacter(S, x)
         /\ \A r \in {row.run : row \in Table(S, "run")} : ValidRun(S, r)
         /\ \A offer \in Table(S, "offer") : ValidOpening(S, offer)
         /\ HoldersAreUnique(S)
         /\ \A row, other \in S : UniqueKeys(row) \cap UniqueKeys(other) # {} => row = other
<1>1. \A x \in {row.char : row \in Table(S, "revision")} : ValidCharacter(S, x)
  BY WholeCharacterIsValid DEF Table
<1>2. \A r \in {row.run : row \in Table(S, "run")} : ValidRun(S, r)
  BY WholeRunIsValid DEF Table
<1>3. \A offer \in Table(S, "offer") : ValidOpening(S, offer)
  BY WholeOpeningIsValid DEF Table
<1>4. \A row, other \in S : UniqueKeys(row) \cap UniqueKeys(other) # {} => row = other
  BY KeysMeet DEF Whole, UniqueRows
<1> QED
  BY <1>1, <1>2, <1>3, <1>4, WholeHoldersAreUnique

\* A character that a run holds, as the ledger reads it.
LEMMA WholeIsSpokenFor ==
  ASSUME NEW S, Whole(S), NEW row \in S, row.table = "revision",
         NEW r \in ActiveRuns(S, row.char)
  PROVE  /\ Character(S, row.char).life = "ACTIVE"
         /\ Character(S, row.char).rev = Run(S, r).rev
         /\ PendingOffer(S, row.char) => Run(S, r).op.family = "internal"
<1> DEFINE x == row.char
<1>1. x # None
  BY DEF Whole, CharactersWhole, RevisionWhole
<1>2. PICK m \in S : Holds(S, m, x) /\ m.run = r
  BY ActiveRunsHold
<1>3. m.table = "run" /\ m.char = x /\ LatestRun(S, m) /\ m \in RunRevisions(S, r)
  BY <1>2 DEF Holds, LatestRun, RunRevisions, Table
<1>4. m = Run(S, r)
  BY <1>2, <1>3, RunIsLatest
<1>5. /\ \E c \in S : Latest(S, c) /\ c.char = x /\ c.life = "ACTIVE" /\ c.rev = m.rev
      /\ (\E offer \in S : Unconfirmed(S, offer) /\ offer.char = x) => m.op.family = "internal"
  BY <1>1, <1>2, <1>3 DEF Whole, HoldersWhole
<1>6. PICK c \in S : Latest(S, c) /\ c.char = x /\ c.life = "ACTIVE" /\ c.rev = m.rev
  BY <1>5
<1>7. Revisions(S, x) # {}
  BY DEF Revisions, Table
<1>8. c = Character(S, x)
  BY <1>6, <1>7, CharacterIsLatest
<1> QED
  BY <1>4, <1>5, <1>6, <1>8, PendingIsUnconfirmed

LEMMA KeysApart ==
  ASSUME NEW S, NEW R, Keys(R) \cap Keys(S) = {}
  PROVE  Apart(S, R)
<1>1. SUFFICES ASSUME NEW a \in S, NEW b \in R, SameKey(a, b) PROVE FALSE
  BY DEF Apart
<1>2. PICK k : k \in UniqueKeys(a) /\ k \in UniqueKeys(b)
  BY <1>1, KeysMeet
<1>3. k \in Keys(S) /\ k \in Keys(R)
  BY <1>2 DEF Keys
<1> QED
  BY <1>3

\* Valid characters, and nothing else, are whole.
LEMMA CharactersAreWhole ==
  ASSUME NEW S, IsFiniteSet(S),
         \A row \in S : row.table \in CharacterTables,
         \A row \in S : row.table = "binding" => row = Binding(row.who),
         \A row \in S : row.table = "revision" => ValidCharacter(S, row.char) /\ row.char # None,
         \A row \in S : row.table \in {"creation_receipt", "mutation_receipt"} =>
            \E first \in S : first.table = "revision" /\ first.char = row.char,
         \A row, other \in S : UniqueKeys(row) \cap UniqueKeys(other) # {} => row = other
  PROVE  Whole(S)
<1>1. UniqueRows(S)
  BY KeysMeet DEF UniqueRows
<1>2. ASSUME NEW row \in S, row.table = "revision"
      PROVE  /\ RevisionWhole(S, row)
             /\ \A receipt \in S : receipt.table = "mutation_receipt" /\ receipt.char = row.char =>
                   \E after \in S : /\ after.table = "revision" /\ after.char = row.char
                                    /\ after.rev = receipt.rev /\ after.rev > 1
  <2> DEFINE x == row.char
             history == {r \in S : r.table = "revision" /\ r.char = x}
             created == {r \in S : r.table = "creation_receipt" /\ r.char = x}
             mutated == {r \in S : r.table = "mutation_receipt" /\ r.char = x}
             family == CharacterFamily(S, x)
             n == Cardinality(family.history)
             at(k) == CHOOSE r \in family.history : r.rev = k
  <2>1. /\ family.history = history /\ family.created = created /\ family.mutated = mutated
    BY DEF CharacterFamily, Revisions, Table
  <2>2. /\ {r.rev : r \in family.history} = 1..n
        /\ \E receipt \in family.created :
              /\ family.created = {receipt}
              /\ at(1) = Revision(x, 1, "ACTIVE", receipt.who, "CREATE", receipt.body)
        /\ Binding(at(1).who) \in S
        /\ {r.rev : r \in family.mutated} = 2..n
        /\ \A receipt \in family.mutated : LawfulStep(at(receipt.rev - 1), at(receipt.rev), receipt)
    BY <1>2 DEF ValidCharacter
  <2>3. n \in Nat
    <3>1. IsFiniteSet(history)
      BY FS_Subset
    <3> QED
      BY <3>1, <2>1, FS_CardinalityType
  <2> HIDE DEF n, family
  <2>4. \A r \in history : r.rev \in 1..n
    BY <2>1, <2>2
  <2>5. \A k \in 1..n : \E r \in history : r.rev = k
    BY <2>1, <2>2
  <2>6. \A r, t \in history : r.rev = t.rev => r = t
    BY <1>1 DEF UniqueRows, SameKey
  <2>7. \A k \in 1..n : at(k) \in history /\ at(k).rev = k
    BY <2>1, <2>5
  <2>8. \A r \in history : at(r.rev) = r
    BY <2>4, <2>6, <2>7
  <2> HIDE DEF at
  <2>9. row.rev \in 1..n /\ n \in 1..n /\ at(n) \in history /\ at(n).rev = n
    BY <2>3, <2>4, <2>7, <1>2
  <2>10. Latest(S, at(n)) /\ at(n).char = x
    BY <2>3, <2>4, <2>9 DEF Latest
  <2>11. \A k \in 1..row.rev :
            \E other \in S : other.table = "revision" /\ other.char = row.char /\ other.rev = k
    BY <2>3, <2>5, <2>9
  <2>12. row.rev = 1 =>
            \E receipt \in S :
                /\ receipt.table = "creation_receipt" /\ receipt.char = row.char
                /\ row = Revision(row.char, 1, "ACTIVE", receipt.who, "CREATE", receipt.body)
                /\ Binding(receipt.who) \in S
    <3>1. SUFFICES ASSUME row.rev = 1
                   PROVE  \E receipt \in S :
                            /\ receipt.table = "creation_receipt" /\ receipt.char = row.char
                            /\ row = Revision(row.char, 1, "ACTIVE", receipt.who, "CREATE", receipt.body)
                            /\ Binding(receipt.who) \in S
      OBVIOUS
    <3>2. at(1) = row
      BY <3>1, <2>8, <1>2
    <3>3. PICK receipt \in created :
            row = Revision(x, 1, "ACTIVE", receipt.who, "CREATE", receipt.body)
      BY <3>2, <2>1, <2>2
    <3>4. row.who = receipt.who
      BY <3>3 DEF Revision
    <3>5. Binding(row.who) \in S
      BY <3>2, <2>2
    <3> QED
      BY <3>3, <3>4, <3>5
  <2>13. row.rev > 1 =>
            \E before, receipt \in S :
                /\ before.table = "revision" /\ before.char = row.char /\ before.rev = row.rev - 1
                /\ receipt.table = "mutation_receipt" /\ receipt.char = row.char
                /\ LawfulStep(before, row, receipt)
    <3>1. SUFFICES ASSUME row.rev > 1
                   PROVE  \E before, receipt \in S :
                            /\ before.table = "revision" /\ before.char = row.char
                            /\ before.rev = row.rev - 1
                            /\ receipt.table = "mutation_receipt" /\ receipt.char = row.char
                            /\ LawfulStep(before, row, receipt)
      OBVIOUS
    <3>2. row.rev \in 2..n /\ row.rev - 1 \in 1..n
      BY <3>1, <2>3, <2>9
    <3>3. PICK receipt \in mutated : receipt.rev = row.rev
      BY <3>2, <2>1, <2>2
    <3>4. LawfulStep(at(row.rev - 1), at(row.rev), receipt)
      BY <3>3, <2>1, <2>2
    <3>5. at(row.rev) = row /\ at(row.rev - 1) \in history /\ at(row.rev - 1).rev = row.rev - 1
      BY <3>2, <2>7, <2>8, <1>2
    <3> QED
      BY <3>3, <3>4, <3>5
  <2>14. RevisionWhole(S, row)
    <3>1. row.rev \in Nat \ {0}
      BY <2>3, <2>9
    <3>2. \E m \in S : Latest(S, m) /\ m.char = row.char
      BY <2>9, <2>10
    <3> HIDE DEF history
    <3> QED
      BY <3>1, <3>2, <2>11, <2>12, <2>13, <1>2 DEF RevisionWhole
  <2>15. ASSUME NEW receipt \in S, receipt.table = "mutation_receipt", receipt.char = row.char
         PROVE  \E after \in S : /\ after.table = "revision" /\ after.char = row.char
                                 /\ after.rev = receipt.rev /\ after.rev > 1
    <3>1. receipt \in mutated
      BY <2>15
    <3>2. receipt.rev \in 2..n
      BY <3>1, <2>1, <2>2
    <3>3. PICK after \in history : after.rev = receipt.rev
      BY <3>2, <2>3, <2>5
    <3> QED
      BY <3>2, <3>3, <2>3
  <2> QED
    BY <2>14, <2>15
<1>3. CharactersWhole(S)
  BY <1>2 DEF CharactersWhole
<1>4. \A row \in S : row.table \notin RunTables /\ row.table \notin OpeningTables
  BY DEF CharacterTables, RunTables, OpeningTables
<1>5. RunsWhole(S) /\ OpeningsWhole(S)
  BY <1>4 DEF RunsWhole, OpeningsWhole, RunTables, OpeningTables
<1>6. HoldersWhole(S)
  BY <1>4 DEF HoldersWhole, RunTables
<1> QED
  BY <1>1, <1>3, <1>5, <1>6 DEF Whole
=============================================================================
