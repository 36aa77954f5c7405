------------------------ MODULE CharacterEntryProofs ------------------------
(***************************************************************************)
(* The properties of CharacterEntry, for every mix of calls.  A verdict is *)
(* sound when its rows keep the tables whole; what makes it sound is kept  *)
(* true until the commit by the locks its call holds, because whatever     *)
(* another call commits in between leaves the locked character and run     *)
(* alone.                                                                  *)
(***************************************************************************)
EXTENDS CharacterEntry, CharacterLedgerProofs

-----------------------------------------------------------------------------
(* When the rows of a verdict keep the tables whole                        *)

Unheld(S, x) == \A holder \in S : ~Holds(S, holder, x)   \* no run holds the character
NoneWaits(S, x) == \A offer \in S : Unconfirmed(S, offer) => offer.char # x

\* A living character at the revision that was asked for.
Startable(S, x, rev) ==
    \E m \in S : Latest(S, m) /\ m.char = x /\ m.life = "ACTIVE" /\ m.rev = rev

NextOrdinal(S, x, ordinal) ==
    \/ ordinal = 1 /\ \A other \in S : other.table = "offer" => other.char # x
    \/ \E last \in S : IsLastOffer(S, last) /\ last.char = x /\ ordinal = last.ordinal + 1

RunMade(op, r, x, rev, world) ==
    {RunRow(r, 1, "PRE_FIRST_TURN", "CREATE", op, None, None), RunCreation(op, r, x, rev, world)}

MutateReady(S, q, rows) ==
    \E m \in S : /\ Latest(S, m) /\ m.char = q.char
                 /\ Policy(m, q) = "ACCEPTED" /\ q.kind \in DOMAIN Successor
                 /\ Unheld(S, q.char)
                 /\ rows = MutationRows(m, q)

EnterReady(S, q, r, rows) ==
    /\ Startable(S, q.char, q.rev) /\ Unheld(S, q.char) /\ NoneWaits(S, q.char)
    /\ q.op = "admit" => q.offer = None
    /\ rows = EntryRows(Op(q), q, r, r)

PrepareReady(S, q, o, rows) ==
    /\ Startable(S, q.char, q.rev) /\ Unheld(S, q.char) /\ NoneWaits(S, q.char)
    /\ q.world \in Worlds
    /\ \E ordinal \in Nat : NextOrdinal(S, q.char, ordinal) /\ rows = {OfferRow(o, q, ordinal)}

ConfirmReady(S, q, r, rows) ==
    \E offer \in S :
        /\ IsLastOffer(S, offer) /\ Unconfirmed(S, offer)
        /\ offer.char = q.char /\ offer.offer = q.offer
        /\ q.pick \in LegalPicks
        /\ Startable(S, offer.char, offer.rev)
        /\ rows = EntryRows(FrozenOp(offer), offer, r, r) \cup {Confirmation(offer, q.pick, r)}

BindReady(S, q, rows) ==
    \E m, c \in S :
        /\ LatestRun(S, m) /\ m.run = q.run /\ m.status = "PRE_FIRST_TURN" /\ m.char = None
        /\ Latest(S, c) /\ c.char = q.char /\ c.life = "ACTIVE"
        /\ Unheld(S, q.char)
        /\ rows = {RunRow(q.run, m.version + 1, "PRE_FIRST_TURN", "BIND", Op(q), q.char, c.rev),
                   RunReceipt(q.run, m.version + 1, "BIND", Op(q), q.char)}

AttachReady(S, q, rows) ==
    /\ \E session \in S : session.table = "session" /\ session.session = q.session
    /\ \E m \in S :
        /\ LatestRun(S, m) /\ m.run = q.run /\ m.status = "PRE_FIRST_TURN"
        /\ rows = {RunRow(q.run, m.version + 1, "PRE_FIRST_TURN", "ATTACH", Op(q), m.char, m.rev),
                   RunReceipt(q.run, m.version + 1, "ATTACH", Op(q), q.session),
                   Participation(q.session, q.run, m.version + 1)}

ExitReady(S, q, rows) ==
    \E m \in S :
        /\ LatestRun(S, m) /\ m.run = q.run /\ m.status = "ACTIVE" /\ m.op.family = "native"
        /\ rows = {RunRow(q.run, 4, "TERMINATED", "EXIT", m.op, m.char, m.rev),
                   RunReceipt(q.run, 4, "EXIT", Op(q), q.run)}

\* What makes the rows of the call's verdict sound.
Ready(S, q, c, rows) ==
    \/ q.op = "create" /\ rows = CreationRows(q, c)
    \/ q.op = "mutate" /\ MutateReady(S, q, rows)
    \/ q.op \in {"enter", "admit"} /\ EnterReady(S, q, c, rows)
    \/ q.op = "prepare" /\ PrepareReady(S, q, c, rows)
    \/ q.op = "confirm" /\ ConfirmReady(S, q, c, rows)
    \/ q.op = "create_run" /\ rows = RunMade(Op(q), c, None, None, None)
    \/ q.op = "bind" /\ BindReady(S, q, rows)
    \/ q.op = "attach" /\ AttachReady(S, q, rows)
    \/ q.op = "exit" /\ ExitReady(S, q, rows)
    \/ q.op = "create_session" /\ rows = {Session(c, Op(q), q.body)}

LEMMA ApartFromLess ==
  ASSUME NEW S, NEW R, NEW P, Apart(S, R), P \subseteq R
  PROVE  Apart(S, P)
  BY DEF Apart

LEMMA ApartFromMore ==
  ASSUME NEW S, NEW P, NEW R, Apart(S, R), Apart(P, R)
  PROVE  Apart(S \cup P, R)
  BY DEF Apart

\* The start of an entry: its session, its run without a character and, for a
\* native run, what it was admitted to.
EntryStart(op, q, r) ==
    {Session(r, op, q.world)} \cup RunMade(op, r, q.char, q.rev, q.world)
    \cup IF op.family = "native" THEN {Admission(r, q.world)} ELSE {}

\* Its end: the run takes the character, and with its first session is active.
EntryEnd(op, q, r) == EntryBinding(op, q, r) \cup EntryActivation(op, q, r, r)

LEMMA EntryInTwo ==
  ASSUME NEW op, NEW q, NEW r
  PROVE  EntryRows(op, q, r, r) = EntryStart(op, q, r) \cup EntryEnd(op, q, r)
  BY DEF EntryRows, EntryStart, EntryEnd, EntryCreation, RunMade

LEMMA EntryOpens ==
  ASSUME NEW S, Whole(S), NEW op, NEW q, NEW r, Apart(S, EntryStart(op, q, r))
  PROVE  /\ Whole(S \cup EntryStart(op, q, r))
         /\ LatestRun(S \cup EntryStart(op, q, r),
                      RunRow(r, 1, "PRE_FIRST_TURN", "CREATE", op, None, None))
<1> DEFINE session == Session(r, op, q.world)
           first == RunRow(r, 1, "PRE_FIRST_TURN", "CREATE", op, None, None)
           created == RunCreation(op, r, q.char, q.rev, q.world)
           admitted == Admission(r, q.world)
           One == S \cup {session}
           Two == One \cup {first, created}
           Three == Two \cup {admitted}
<1>1. /\ session.table = "session"
      /\ first.table = "run" /\ first.run = r /\ created.table = "run_creation"
      /\ admitted.table = "admission"
  BY DEF Session, RunRow, RunCreation, Admission
<1>2. /\ EntryStart(op, q, r) = {session} \cup {first, created}
                                \cup (IF op.family = "native" THEN {admitted} ELSE {})
  BY DEF EntryStart, RunMade
<1> HIDE DEF session, first, created, admitted
<1>3. /\ Apart(S, {session}) /\ Apart(One, {first, created})
      /\ op.family = "native" => Apart(Two, {admitted})
  BY <1>1, <1>2 DEF Apart, SameKey
<1>4. Whole(One)
  BY <1>3, AddSession DEF session
<1>5. Whole(Two) /\ LatestRun(Two, first)
  BY <1>3, <1>4, AddRun DEF first, created
<1>6. op.family = "native" => Whole(Three)
  BY <1>1, <1>3, <1>5, AddAdmission DEF admitted
<1>7. LatestRun(Three, first)
  BY <1>1, <1>5 DEF LatestRun
<1>8. S \cup EntryStart(op, q, r) = IF op.family = "native" THEN Three ELSE Two
  BY <1>2
<1> QED
  BY <1>5, <1>6, <1>7, <1>8 DEF first

LEMMA EntryCloses ==
  ASSUME NEW S, Whole(S), NEW op, op.family # "internal", NEW q, NEW r,
         LatestRun(S, RunRow(r, 1, "PRE_FIRST_TURN", "CREATE", op, None, None)),
         Startable(S, q.char, q.rev), Unheld(S, q.char), NoneWaits(S, q.char),
         \E s \in S : s.table = "session" /\ s.session = r,
         op.family = "native" => \E a \in S : a.table = "admission" /\ a.run = r,
         Apart(S, EntryEnd(op, q, r))
  PROVE  Whole(S \cup EntryEnd(op, q, r))
<1> DEFINE first == RunRow(r, 1, "PRE_FIRST_TURN", "CREATE", op, None, None)
           bound == RunRow(r, 2, "PRE_FIRST_TURN", "BIND", op, q.char, q.rev)
           binding == RunReceipt(r, 2, "BIND", op, q.char)
           last == RunRow(r, 3, "ACTIVE", "ATTACH", op, q.char, q.rev)
           attaching == RunReceipt(r, 3, "ATTACH", op, r)
           joined == Participation(r, r, 3)
           One == S \cup {bound, binding}
           Two == One \cup {last, attaching, joined}
<1>1. /\ first.run = r /\ first.version = 1 /\ first.status = "PRE_FIRST_TURN" /\ first.char = None
      /\ bound.table = "run" /\ bound.run = r /\ bound.version = 2 /\ bound.kind = "BIND"
      /\ bound.status = "PRE_FIRST_TURN" /\ bound.op = op
      /\ bound.char = q.char /\ bound.rev = q.rev
      /\ binding.table = "run_receipt" /\ binding.version = 2 /\ binding.kind = "BIND"
      /\ last.table = "run" /\ last.version = 3
      /\ attaching.table = "run_receipt" /\ attaching.version = 3 /\ attaching.kind = "ATTACH"
      /\ joined.table = "participation"
  BY DEF RunRow, RunReceipt, Participation
<1>2. EntryEnd(op, q, r) = {bound, binding} \cup {last, attaching, joined}
  BY DEF EntryEnd, EntryBinding, EntryActivation
<1>3. PICK c \in S : Latest(S, c) /\ c.char = q.char /\ c.life = "ACTIVE" /\ c.rev = q.rev
  BY DEF Startable
<1> HIDE DEF first, bound, binding, last, attaching, joined
<1>4. Apart(S, {bound, binding}) /\ Apart(One, {last, attaching, joined})
  BY <1>1, <1>2 DEF Apart, SameKey
<1>5. Whole(One) /\ LatestRun(One, bound)
  <2>1. LatestRun(S, first)
    BY DEF first
  <2>2. /\ bound = RunRow(first.run, first.version + 1, "PRE_FIRST_TURN", "BIND", op, c.char, c.rev)
        /\ binding = RunReceipt(first.run, first.version + 1, "BIND", op, c.char)
    BY <1>1, <1>3 DEF bound, binding
  <2>3. /\ \A holder \in S : ~Holds(S, holder, c.char)
        /\ \A o \in S : Unconfirmed(S, o) => o.char # c.char
    BY <1>3 DEF Unheld, NoneWaits
  <2> QED
    BY <2>1, <2>2, <2>3, <1>1, <1>3, <1>4, AddBind
<1>6. Whole(Two)
  <2>1. /\ last = RunRow(bound.run, bound.version + 1, "ACTIVE", "ATTACH", op, bound.char, bound.rev)
        /\ attaching = RunReceipt(bound.run, bound.version + 1, "ATTACH", op, r)
        /\ joined = Participation(r, bound.run, bound.version + 1)
    BY <1>1 DEF last, attaching, joined
  <2>2. \E s \in One : s.table = "session" /\ s.session = r
    OBVIOUS
  <2>3. op.family = "native" => \E a \in One : a.table = "admission" /\ a.run = bound.run
    BY <1>1
  <2> QED
    BY <2>1, <2>2, <2>3, <1>1, <1>4, <1>5, AddJoin
<1> QED
  BY <1>2, <1>6

LEMMA NamesARevision ==
  ASSUME NEW S, Whole(S), NEW x, NEW rev, Startable(S, x, rev)
  PROVE  x # None /\ \E m \in S : m.table = "revision" /\ m.char = x
  BY DEF Startable, Latest, Whole, CharactersWhole, RevisionWhole

\* The start of an entry touches no character, no opening and no holder.
LEMMA StartKeeps ==
  ASSUME NEW S, NEW op, NEW q, NEW r, NEW x, x # None, NEW rev
  PROVE  /\ Startable(S, x, rev) => Startable(S \cup EntryStart(op, q, r), x, rev)
         /\ Unheld(S, x) => Unheld(S \cup EntryStart(op, q, r), x)
         /\ NoneWaits(S, x) => NoneWaits(S \cup EntryStart(op, q, r), x)
<1> DEFINE R == EntryStart(op, q, r)
           T == S \cup R
<1>1. /\ \A row \in R : row.table \in {"session", "run", "run_creation", "admission"}
      /\ \A row \in R : row.table = "run" => row.char = None
  BY DEF EntryStart, RunMade, Session, RunRow, RunCreation, Admission
<1> HIDE DEF R
<1>2. \A m : Latest(S, m) => Latest(T, m)
  BY <1>1 DEF Latest
<1>3. \A m : Holds(T, m, x) => Holds(S, m, x)
  BY <1>1 DEF Holds, LatestRun
<1>4. \A m : Holds(T, m, x) => m \in S
  BY <1>3 DEF Holds, LatestRun
<1>5. \A o : Unconfirmed(T, o) => o \in S /\ Unconfirmed(S, o)
  BY <1>1 DEF Unconfirmed
<1>6. Startable(S, x, rev) => Startable(T, x, rev)
  BY <1>2 DEF Startable
<1>7. Unheld(S, x) => Unheld(T, x)
  BY <1>3, <1>4 DEF Unheld
<1>8. NoneWaits(S, x) => NoneWaits(T, x)
  BY <1>5 DEF NoneWaits
<1> QED
  BY <1>6, <1>7, <1>8 DEF R

LEMMA StartMeetsNoEnd ==
  ASSUME NEW op, NEW q, NEW r
  PROVE  Apart(EntryStart(op, q, r), EntryEnd(op, q, r))
<1>1. \A row \in EntryStart(op, q, r) :
          /\ row.table \in {"session", "run", "run_creation", "admission"}
          /\ row.table = "run" => row.version = 1
  BY DEF EntryStart, RunMade, Session, RunRow, RunCreation, Admission
<1>2. \A row \in EntryEnd(op, q, r) :
          /\ row.table \in {"run", "run_receipt", "participation"}
          /\ row.table = "run" => row.version \in {2, 3}
  BY DEF EntryEnd, EntryBinding, EntryActivation, RunReceipt, RunRow, Participation
<1> QED
  BY <1>1, <1>2 DEF Apart, SameKey

\* What an entry's start leaves for its end.
LEMMA StartLeaves ==
  ASSUME NEW op, NEW q, NEW r
  PROVE  /\ \E s \in EntryStart(op, q, r) : s.table = "session" /\ s.session = r
         /\ \E created \in EntryStart(op, q, r) :
               created.table = "run_creation" /\ created.op = op /\ created.run = r
         /\ op.family = "native" =>
               \E a \in EntryStart(op, q, r) : a.table = "admission" /\ a.run = r
<1>1. Session(r, op, q.world) \in EntryStart(op, q, r)
  BY DEF EntryStart
<1>2. RunCreation(op, r, q.char, q.rev, q.world) \in EntryStart(op, q, r)
  BY DEF EntryStart, RunMade
<1>3. op.family = "native" => Admission(r, q.world) \in EntryStart(op, q, r)
  BY DEF EntryStart
<1> QED
  BY <1>1, <1>2, <1>3 DEF Session, RunCreation, Admission

LEMMA EntryGrows ==
  ASSUME NEW S, Whole(S), NEW op, op.family # "internal", NEW q, NEW r,
         Startable(S, q.char, q.rev), Unheld(S, q.char), NoneWaits(S, q.char),
         Apart(S, EntryRows(op, q, r, r))
  PROVE  Whole(S \cup EntryRows(op, q, r, r))
<1> DEFINE Start == EntryStart(op, q, r)
           End1 == EntryEnd(op, q, r)
           T == S \cup Start
<1>1. EntryRows(op, q, r, r) = Start \cup End1
  BY EntryInTwo
<1>2. Apart(S, Start) /\ Apart(S, End1)
  BY <1>1, ApartFromLess
<1>3. /\ Whole(T)
      /\ LatestRun(T, RunRow(r, 1, "PRE_FIRST_TURN", "CREATE", op, None, None))
  BY <1>2, EntryOpens
<1>4. Startable(T, q.char, q.rev) /\ Unheld(T, q.char) /\ NoneWaits(T, q.char)
  BY NamesARevision, StartKeeps
<1>5. Apart(T, End1)
  BY <1>2, StartMeetsNoEnd, ApartFromMore
<1>6. /\ \E s \in T : s.table = "session" /\ s.session = r
      /\ op.family = "native" => \E a \in T : a.table = "admission" /\ a.run = r
  BY StartLeaves
<1> HIDE DEF T, Start, End1
<1>7. Whole(T \cup EntryEnd(op, q, r))
  BY <1>3, <1>4, <1>5, <1>6, EntryCloses DEF End1
<1> QED
  BY <1>1, <1>7 DEF T, End1

\* The opening of a character that waits is its last.
LEMMA WaitingIsLast ==
  ASSUME NEW S, Whole(S), NEW a, NEW b, Unconfirmed(S, a), Unconfirmed(S, b), a.char = b.char
  PROVE  a = b
<1>1. PICK last \in S : EndsOpenings(S, last, a.char)
  BY DEF Whole, OpeningsWhole, OfferWhole, Unconfirmed
<1> QED
  BY <1>1 DEF EndsOpenings, Unconfirmed

LEMMA ConfirmGrows ==
  ASSUME NEW S, Whole(S), NEW offer \in S, Unconfirmed(S, offer), NEW r, NEW pick \in LegalPicks,
         Startable(S, offer.char, offer.rev), Unheld(S, offer.char),
         Apart(S, EntryRows(FrozenOp(offer), offer, r, r) \cup {Confirmation(offer, pick, r)})
  PROVE  Whole(S \cup (EntryRows(FrozenOp(offer), offer, r, r) \cup {Confirmation(offer, pick, r)}))
<1> DEFINE op == FrozenOp(offer)
           Start == EntryStart(op, offer, r)
           End1 == EntryEnd(op, offer, r)
           done == Confirmation(offer, pick, r)
           T == S \cup Start
           U == T \cup {done}
<1>1. EntryRows(op, offer, r, r) = Start \cup End1
  BY EntryInTwo
<1>2. /\ op.family = "native"
      /\ done.table = "confirmation" /\ done.offer = offer.offer
  BY DEF FrozenOp, Confirmation
<1>3. Apart(S, Start) /\ Apart(S, End1) /\ Apart(S, {done})
  BY <1>1, ApartFromLess
<1>4. /\ Whole(T)
      /\ LatestRun(T, RunRow(r, 1, "PRE_FIRST_TURN", "CREATE", op, None, None))
  BY <1>3, EntryOpens
<1>5. \A row \in Start : row.table \in {"session", "run", "run_creation", "admission"}
  BY DEF EntryStart, RunMade, Session, RunRow, RunCreation, Admission
<1>6. \A row \in End1 : row.table \in {"run", "run_receipt", "participation"}
  BY DEF EntryEnd, EntryBinding, EntryActivation, RunReceipt, RunRow, Participation
<1>7. Apart(T, {done})
  BY <1>2, <1>3, <1>5 DEF Apart, SameKey
<1>8. \E created \in T : created.table = "run_creation" /\ created.op = op /\ created.run = r
  BY StartLeaves
<1>9. offer.table = "offer" /\ offer.char # None
  BY NamesARevision DEF Unconfirmed
<1>10. Startable(T, offer.char, offer.rev) /\ Unheld(T, offer.char)
  BY <1>9, StartKeeps
<1>11. /\ \E s \in T : s.table = "session" /\ s.session = r
       /\ \E a \in T : a.table = "admission" /\ a.run = r
  BY <1>2, StartLeaves
<1>12. Apart(T, End1)
  BY <1>3, StartMeetsNoEnd, ApartFromMore
<1>13. \A row \in T : row.table \in {"offer", "confirmation", "revision"} => row \in S
  BY <1>5
<1>14. S \subseteq T
  OBVIOUS
<1>15. S \cup (EntryRows(op, offer, r, r) \cup {done}) = U \cup End1
  BY <1>1
<1> HIDE DEF T, Start, End1, done, op
<1>16. Whole(U)
  BY <1>4, <1>7, <1>8, <1>9, <1>14, AddConfirmation DEF done, op
<1>17. Startable(U, offer.char, offer.rev)
  BY <1>2, <1>10 DEF Startable, Latest
<1>18. \A m : LatestRun(U, m) <=> LatestRun(T, m)
  BY <1>2 DEF LatestRun
<1>19. Unheld(U, offer.char)
  BY <1>10, <1>18 DEF Unheld, Holds, LatestRun
<1>20. NoneWaits(U, offer.char)
  <2>1. SUFFICES ASSUME NEW other \in U, Unconfirmed(U, other), other.char = offer.char PROVE FALSE
    BY DEF NoneWaits
  <2>2. Unconfirmed(S, other)
    BY <1>2, <1>13, <1>14, <2>1 DEF Unconfirmed
  <2>3. other = offer
    BY <2>1, <2>2, WaitingIsLast
  <2> QED
    BY <1>2, <2>1, <2>3 DEF Unconfirmed
<1>21. Apart(U, End1)
  BY <1>2, <1>6, <1>12 DEF Apart, SameKey
<1>22. Whole(U \cup EntryEnd(op, offer, r))
  <2>1. op.family # "internal"
    BY <1>2
  <2>2. LatestRun(U, RunRow(r, 1, "PRE_FIRST_TURN", "CREATE", op, None, None))
    BY <1>4, <1>18
  <2>3. /\ \E s \in U : s.table = "session" /\ s.session = r
        /\ op.family = "native" => \E a \in U : a.table = "admission" /\ a.run = r
    BY <1>11
  <2>4. Apart(U, EntryEnd(op, offer, r))
    BY <1>21 DEF End1
  <2> HIDE DEF U
  <2> QED
    BY <2>1, <2>2, <2>3, <2>4, <1>16, <1>17, <1>19, <1>20, EntryCloses
<1> QED
  BY <1>15, <1>22 DEF End1, op, done

\* The rows of a call whose verdict is sound keep the tables whole.
LEMMA ReadyGrows ==
  ASSUME NEW S, Whole(S), NEW q, NEW c, NEW rows, Ready(S, q, c, rows), Apart(S, rows),
         q.op = "create" => c # None /\ Binding(q.who) \in S,
         q.op = "confirm" => Unheld(S, q.char)
  PROVE  Whole(S \cup rows)
<1>1. CASE q.op = "create" /\ rows = CreationRows(q, c)
  BY <1>1, AddCharacter
<1>2. CASE q.op = "mutate" /\ MutateReady(S, q, rows)
  BY <1>2, AddMutation DEF MutateReady, Unheld
<1>3. CASE q.op \in {"enter", "admit"} /\ EnterReady(S, q, c, rows)
  <2>1. Op(q).family # "internal"
    BY <1>3 DEF Op
  <2> QED
    BY <2>1, <1>3, EntryGrows DEF EnterReady
<1>4. CASE q.op = "prepare" /\ PrepareReady(S, q, c, rows)
  <2>1. PICK ordinal \in Nat : NextOrdinal(S, q.char, ordinal) /\ rows = {OfferRow(c, q, ordinal)}
    BY <1>4 DEF PrepareReady
  <2>2. /\ \E m \in S : m.table = "revision" /\ m.char = q.char
        /\ \A holder \in S : ~Holds(S, holder, q.char)
        /\ \A other \in S : Unconfirmed(S, other) => other.char # q.char
    BY <1>4, NamesARevision DEF PrepareReady, Unheld, NoneWaits
  <2> QED
    BY <2>1, <2>2, AddOffer DEF NextOrdinal
<1>5. CASE q.op = "confirm" /\ ConfirmReady(S, q, c, rows)
  <2>1. PICK offer \in S :
            /\ Unconfirmed(S, offer) /\ offer.char = q.char /\ q.pick \in LegalPicks
            /\ Startable(S, offer.char, offer.rev)
            /\ rows = EntryRows(FrozenOp(offer), offer, c, c) \cup {Confirmation(offer, q.pick, c)}
    BY <1>5 DEF ConfirmReady
  <2> QED
    BY <2>1, <1>5, ConfirmGrows
<1>6. CASE q.op = "create_run" /\ rows = RunMade(Op(q), c, None, None, None)
  BY <1>6, AddRun DEF RunMade
<1>7. CASE q.op = "bind" /\ BindReady(S, q, rows)
  <2>1. PICK m \in S, k \in S :
            /\ LatestRun(S, m) /\ m.run = q.run /\ m.status = "PRE_FIRST_TURN" /\ m.char = None
            /\ Latest(S, k) /\ k.char = q.char /\ k.life = "ACTIVE"
            /\ Unheld(S, q.char)
            /\ rows = {RunRow(q.run, m.version + 1, "PRE_FIRST_TURN", "BIND", Op(q), q.char, k.rev),
                       RunReceipt(q.run, m.version + 1, "BIND", Op(q), q.char)}
    BY <1>7 DEF BindReady
  <2>2. Op(q).family = "internal"
    BY <1>7 DEF Op
  <2> QED
    BY <2>1, <2>2, AddBind DEF Unheld
<1>8. CASE q.op = "attach" /\ AttachReady(S, q, rows)
  <2>1. PICK m \in S :
            /\ LatestRun(S, m) /\ m.run = q.run /\ m.status = "PRE_FIRST_TURN"
            /\ rows = {RunRow(q.run, m.version + 1, "PRE_FIRST_TURN", "ATTACH", Op(q), m.char, m.rev),
                       RunReceipt(q.run, m.version + 1, "ATTACH", Op(q), q.session),
                       Participation(q.session, q.run, m.version + 1)}
    BY <1>8 DEF AttachReady
  <2>2. Op(q).family = "internal"
    BY <1>8 DEF Op
  <2>3. \E session \in S : session.table = "session" /\ session.session = q.session
    BY <1>8 DEF AttachReady
  <2> QED
    BY <2>1, <2>2, <2>3, AddJoin
<1>9. CASE q.op = "exit" /\ ExitReady(S, q, rows)
  BY <1>9, AddExit DEF ExitReady
<1>10. CASE q.op = "create_session" /\ rows = {Session(c, Op(q), q.body)}
  BY <1>10, AddSession
<1> QED
  BY <1>1, <1>2, <1>3, <1>4, <1>5, <1>6, <1>7, <1>8, <1>9, <1>10 DEF Ready

-----------------------------------------------------------------------------
(* What a commit leaves alone                                              *)

\* The character and its openings are as they were, and if no run held it none does.
Quiet(S, T, x) ==
    /\ S \subseteq T
    /\ \A row \in T : row.table \in {"revision", "offer"} /\ row.char = x => row \in S
    /\ \A offer \in S : Unconfirmed(S, offer) /\ offer.char = x => Unconfirmed(T, offer)
    /\ Unheld(S, x) => Unheld(T, x)

\* The run is as it was.
QuietRun(S, T, r) ==
    S \subseteq T /\ \A row \in T : row.table = "run" /\ row.run = r => row \in S

LEMMA QuietKeeps ==
  ASSUME NEW S, NEW T, NEW x, Quiet(S, T, x)
  PROVE  /\ \A m : Latest(S, m) /\ m.char = x => Latest(T, m)
         /\ \A rev : Startable(S, x, rev) => Startable(T, x, rev)
         /\ NoneWaits(S, x) => NoneWaits(T, x)
         /\ \A o : IsLastOffer(S, o) /\ o.char = x => IsLastOffer(T, o)
         /\ \A ordinal : NextOrdinal(S, x, ordinal) => NextOrdinal(T, x, ordinal)
<1>1. \A m : Latest(S, m) /\ m.char = x => Latest(T, m)
  BY DEF Quiet, Latest
<1>2. \A rev : Startable(S, x, rev) => Startable(T, x, rev)
  BY <1>1 DEF Startable, Quiet
<1>3. NoneWaits(S, x) => NoneWaits(T, x)
  BY DEF NoneWaits, Quiet, Unconfirmed
<1>4. \A o : IsLastOffer(S, o) /\ o.char = x => IsLastOffer(T, o)
  BY DEF IsLastOffer, Quiet
<1>5. \A ordinal : NextOrdinal(S, x, ordinal) => NextOrdinal(T, x, ordinal)
  BY <1>4 DEF NextOrdinal, Quiet
<1> QED
  BY <1>1, <1>2, <1>3, <1>4, <1>5

LEMMA QuietRunKeeps ==
  ASSUME NEW S, NEW T, NEW r, QuietRun(S, T, r)
  PROVE  \A m : LatestRun(S, m) /\ m.run = r => LatestRun(T, m)
  BY DEF QuietRun, LatestRun

\* A verdict stays sound while its character and its run are left alone.
LEMMA ReadyKept ==
  ASSUME NEW S, NEW T, S \subseteq T, NEW q, NEW c, NEW rows, Ready(S, q, c, rows),
         OnCharacter(q) /\ q.op # "exit" => Quiet(S, T, q.char),
         q.op \in {"bind", "attach", "exit"} => QuietRun(S, T, q.run)
  PROVE  Ready(T, q, c, rows)
<1>1. CASE q.op \in {"create", "create_run", "create_session"}
  BY <1>1 DEF Ready
<1>2. CASE q.op = "mutate" /\ MutateReady(S, q, rows)
  <2>1. Quiet(S, T, q.char)
    BY <1>2 DEF OnCharacter
  <2>2. MutateReady(T, q, rows)
    BY <1>2, <2>1, QuietKeeps DEF MutateReady, Quiet
  <2> QED
    BY <1>2, <2>2 DEF Ready
<1>3. CASE q.op \in {"enter", "admit"} /\ EnterReady(S, q, c, rows)
  <2>1. Quiet(S, T, q.char)
    BY <1>3 DEF OnCharacter
  <2>2. EnterReady(T, q, c, rows)
    BY <1>3, <2>1, QuietKeeps DEF EnterReady, Quiet
  <2> QED
    BY <1>3, <2>2 DEF Ready
<1>4. CASE q.op = "prepare" /\ PrepareReady(S, q, c, rows)
  <2>1. Quiet(S, T, q.char)
    BY <1>4 DEF OnCharacter
  <2>2. Startable(T, q.char, q.rev) /\ Unheld(T, q.char) /\ NoneWaits(T, q.char)
    BY <1>4, <2>1, QuietKeeps DEF PrepareReady, Quiet
  <2>3. \A ordinal : NextOrdinal(S, q.char, ordinal) => NextOrdinal(T, q.char, ordinal)
    BY <2>1, QuietKeeps
  <2>4. PrepareReady(T, q, c, rows)
    BY <1>4, <2>2, <2>3 DEF PrepareReady
  <2> QED
    BY <1>4, <2>4 DEF Ready
<1>5. CASE q.op = "confirm" /\ ConfirmReady(S, q, c, rows)
  <2>1. Quiet(S, T, q.char)
    BY <1>5 DEF OnCharacter
  <2>2. PICK offer \in S :
        /\ IsLastOffer(S, offer) /\ Unconfirmed(S, offer)
        /\ offer.char = q.char /\ offer.offer = q.offer
        /\ q.pick \in LegalPicks
        /\ Startable(S, offer.char, offer.rev)
        /\ rows = EntryRows(FrozenOp(offer), offer, c, c) \cup {Confirmation(offer, q.pick, c)}
    BY <1>5 DEF ConfirmReady
  <2>3. IsLastOffer(T, offer) /\ Startable(T, offer.char, offer.rev)
    BY <2>1, <2>2, QuietKeeps
  <2>4. Unconfirmed(T, offer) /\ offer \in T
    BY <2>1, <2>2 DEF Quiet
  <2>5. ConfirmReady(T, q, c, rows)
    BY <2>2, <2>3, <2>4 DEF ConfirmReady
  <2> QED
    BY <1>5, <2>5 DEF Ready
<1>6. CASE q.op = "bind" /\ BindReady(S, q, rows)
  <2>1. Quiet(S, T, q.char) /\ QuietRun(S, T, q.run)
    BY <1>6 DEF OnCharacter
  <2>2. /\ \A m : LatestRun(S, m) /\ m.run = q.run => LatestRun(T, m)
        /\ \A m : Latest(S, m) /\ m.char = q.char => Latest(T, m)
        /\ Unheld(S, q.char) => Unheld(T, q.char)
    BY <2>1, QuietKeeps, QuietRunKeeps DEF Quiet
  <2>3. BindReady(T, q, rows)
    BY <1>6, <2>2 DEF BindReady
  <2> QED
    BY <1>6, <2>3 DEF Ready
<1>7. CASE q.op = "attach" /\ AttachReady(S, q, rows)
  <2>1. \A m : LatestRun(S, m) /\ m.run = q.run => LatestRun(T, m)
    BY <1>7, QuietRunKeeps
  <2>2. AttachReady(T, q, rows)
    BY <1>7, <2>1 DEF AttachReady
  <2> QED
    BY <1>7, <2>2 DEF Ready
<1>8. CASE q.op = "exit" /\ ExitReady(S, q, rows)
  <2>1. \A m : LatestRun(S, m) /\ m.run = q.run => LatestRun(T, m)
    BY <1>8, QuietRunKeeps
  <2>2. ExitReady(T, q, rows)
    BY <1>8, <2>1 DEF ExitReady
  <2> QED
    BY <1>8, <2>2 DEF Ready
<1> QED
  BY <1>1, <1>2, <1>3, <1>4, <1>5, <1>6, <1>7, <1>8 DEF Ready

\* Rows that are about other characters, or give up the one they name.
Aside(S, rows, x) ==
    /\ \A row \in rows : row.table \in {"revision", "offer"} => row.char # x
    /\ \A row \in rows : row.table = "confirmation" =>
          \A offer \in S : offer.table = "offer" /\ offer.offer = row.offer => offer.char # x
    /\ Unheld(S, x) =>
          \A row \in rows : row.table = "run" => row.char # x \/ row.status \notin ActiveLine

LEMMA AsideIsQuiet ==
  ASSUME NEW S, NEW rows, NEW x, Aside(S, rows, x)
  PROVE  Quiet(S, S \cup rows, x)
<1> DEFINE T == S \cup rows
<1>1. \A row \in T : row.table \in {"revision", "offer"} /\ row.char = x => row \in S
  BY DEF Aside
<1>2. \A offer \in S : Unconfirmed(S, offer) /\ offer.char = x => Unconfirmed(T, offer)
  BY DEF Aside, Unconfirmed
<1>3. ASSUME Unheld(S, x) PROVE Unheld(T, x)
  <2>1. SUFFICES ASSUME NEW m \in T, Holds(T, m, x) PROVE FALSE
    BY DEF Unheld
  <2>2. m.table = "run" /\ m.char = x /\ m.status \in ActiveLine
    BY <2>1 DEF Holds, LatestRun
  <2>3. m \in S
    BY <2>2, <1>3 DEF Aside
  <2>4. Holds(S, m, x)
    BY <2>1, <2>3 DEF Holds, LatestRun
  <2> QED
    BY <2>3, <2>4, <1>3 DEF Unheld
<1> QED
  BY <1>1, <1>2, <1>3 DEF Quiet

LEMMA EntryIsAside ==
  ASSUME NEW S, NEW op, NEW q, NEW r, NEW x, x # None, q.char # x
  PROVE  Aside(S, EntryRows(op, q, r, r), x)
<1>1. \A row \in EntryRows(op, q, r, r) :
          /\ row.table \in {"session", "run", "run_creation", "admission", "run_receipt",
                            "participation"}
          /\ row.table = "run" => row.char \in {None, q.char}
  BY DEF EntryRows, EntryCreation, EntryBinding, EntryActivation, Session, RunRow, RunCreation,
         Admission, RunReceipt, Participation
<1> QED
  BY <1>1 DEF Aside

LEMMA ReadyIsAside ==
  ASSUME NEW S, Whole(S), NEW q, NEW c, NEW rows, Ready(S, q, c, rows), Apart(S, rows),
         NEW x, \E m \in S : m.table = "revision" /\ m.char = x,
         OnCharacter(q) /\ q.op # "exit" => q.char # x
  PROVE  Aside(S, rows, x)
<1>1. PICK first \in S : first.table = "revision" /\ first.char = x /\ first.rev = 1
  BY DEF Whole, CharactersWhole, RevisionWhole
<1>2. x # None
  BY <1>1 DEF Whole, CharactersWhole, RevisionWhole
<1>3. CASE q.op = "create" /\ rows = CreationRows(q, c)
  <2>1. Revision(c, 1, "ACTIVE", q.who, "CREATE", q.body) \in rows
    BY <1>3 DEF CreationRows
  <2>2. c # x
    BY <2>1, <1>1 DEF Apart, SameKey, Revision
  <2> QED
    BY <2>2, <1>3 DEF Aside, CreationRows, Revision, CreationReceipt
<1>4. CASE q.op = "mutate" /\ MutateReady(S, q, rows)
  BY <1>4 DEF MutateReady, MutationRows, Aside, Revision, MutationReceipt, OnCharacter
<1>5. CASE q.op \in {"enter", "admit"} /\ EnterReady(S, q, c, rows)
  BY <1>2, <1>5, EntryIsAside DEF EnterReady, OnCharacter
<1>6. CASE q.op = "prepare" /\ PrepareReady(S, q, c, rows)
  BY <1>6 DEF PrepareReady, OfferRow, Aside, OnCharacter
<1>7. CASE q.op = "confirm" /\ ConfirmReady(S, q, c, rows)
  <2>1. q.char # x
    BY <1>7 DEF OnCharacter
  <2>2. PICK offer \in S :
        /\ offer.table = "offer" /\ offer.char = q.char
        /\ rows = EntryRows(FrozenOp(offer), offer, c, c) \cup {Confirmation(offer, q.pick, c)}
    BY <1>7 DEF ConfirmReady, Unconfirmed
  <2>3. Aside(S, EntryRows(FrozenOp(offer), offer, c, c), x)
    BY <1>2, <2>1, <2>2, EntryIsAside
  <2>4. ASSUME NEW other \in S, other.table = "offer", other.offer = offer.offer
        PROVE  other.char # x
    BY <2>1, <2>2, <2>4 DEF Whole, UniqueRows, SameKey
  <2>5. Aside(S, {Confirmation(offer, q.pick, c)}, x)
    BY <2>4 DEF Aside, Confirmation
  <2> QED
    BY <2>2, <2>3, <2>5 DEF Aside
<1>8. CASE q.op = "create_run" /\ rows = RunMade(Op(q), c, None, None, None)
  BY <1>2, <1>8 DEF RunMade, RunRow, RunCreation, Aside
<1>9. CASE q.op = "bind" /\ BindReady(S, q, rows)
  BY <1>9 DEF BindReady, RunRow, RunReceipt, Aside, OnCharacter
<1>10. CASE q.op = "attach" /\ AttachReady(S, q, rows)
  <2>1. PICK m \in S :
        /\ LatestRun(S, m) /\ m.status = "PRE_FIRST_TURN"
        /\ rows = {RunRow(q.run, m.version + 1, "PRE_FIRST_TURN", "ATTACH", Op(q), m.char, m.rev),
                   RunReceipt(q.run, m.version + 1, "ATTACH", Op(q), q.session),
                   Participation(q.session, q.run, m.version + 1)}
    BY <1>10 DEF AttachReady
  <2>2. Unheld(S, x) => m.char # x
    BY <2>1 DEF Unheld, Holds, ActiveLine
  <2> QED
    BY <2>1, <2>2 DEF Aside, RunRow, RunReceipt, Participation
<1>11. CASE q.op = "exit" /\ ExitReady(S, q, rows)
  BY <1>11 DEF ExitReady, Aside, RunRow, RunReceipt, ActiveLine
<1>12. CASE q.op = "create_session" /\ rows = {Session(c, Op(q), q.body)}
  BY <1>12 DEF Aside, Session
<1> QED
  BY <1>3, <1>4, <1>5, <1>6, <1>7, <1>8, <1>9, <1>10, <1>11, <1>12 DEF Ready

LEMMA NewRunElsewhere ==
  ASSUME NEW S, Whole(S), NEW r, \E m \in S : m.table = "run" /\ m.run = r,
         NEW c, NEW op, NEW x, NEW rev,
         Apart(S, {RunRow(c, 1, "PRE_FIRST_TURN", "CREATE", op, x, rev)})
  PROVE  c # r
<1>1. PICK first \in S : first.table = "run" /\ first.run = r /\ first.version = 1
  BY DEF Whole, RunsWhole, RunRowWhole, RunRowPlaced
<1> QED
  BY <1>1 DEF Apart, SameKey, RunRow

LEMMA EntryRunIsItsOwn ==
  ASSUME NEW S, Whole(S), NEW r, \E m \in S : m.table = "run" /\ m.run = r,
         NEW c, NEW op, NEW q, Apart(S, EntryRows(op, q, c, c))
  PROVE  \A row \in EntryRows(op, q, c, c) : row.table = "run" => row.run # r
<1>1. RunRow(c, 1, "PRE_FIRST_TURN", "CREATE", op, None, None) \in EntryRows(op, q, c, c)
  BY DEF EntryRows, EntryCreation
<1>2. Apart(S, {RunRow(c, 1, "PRE_FIRST_TURN", "CREATE", op, None, None)})
  BY <1>1 DEF Apart
<1>3. c # r
  BY <1>2, NewRunElsewhere
<1> QED
  BY <1>3 DEF EntryRows, EntryCreation, EntryBinding, EntryActivation, Session, RunRow,
              RunCreation, Admission, RunReceipt, Participation

LEMMA ReadyLeavesRuns ==
  ASSUME NEW S, Whole(S), NEW q, NEW c, NEW rows, Ready(S, q, c, rows), Apart(S, rows),
         NEW r, \E m \in S : m.table = "run" /\ m.run = r,
         q.op \in {"bind", "attach", "exit"} => q.run # r
  PROVE  \A row \in rows : row.table = "run" => row.run # r
<1>1. CASE q.op = "create" /\ rows = CreationRows(q, c)
  BY <1>1 DEF CreationRows, Revision, CreationReceipt
<1>2. CASE q.op = "mutate" /\ MutateReady(S, q, rows)
  BY <1>2 DEF MutateReady, MutationRows, Revision, MutationReceipt
<1>3. CASE q.op \in {"enter", "admit"} /\ EnterReady(S, q, c, rows)
  BY <1>3, EntryRunIsItsOwn DEF EnterReady
<1>4. CASE q.op = "prepare" /\ PrepareReady(S, q, c, rows)
  BY <1>4 DEF PrepareReady, OfferRow
<1>5. CASE q.op = "confirm" /\ ConfirmReady(S, q, c, rows)
  <2>1. PICK offer \in S :
          rows = EntryRows(FrozenOp(offer), offer, c, c) \cup {Confirmation(offer, q.pick, c)}
    BY <1>5 DEF ConfirmReady
  <2>2. Apart(S, EntryRows(FrozenOp(offer), offer, c, c))
    BY <2>1, ApartFromLess
  <2>3. \A row \in EntryRows(FrozenOp(offer), offer, c, c) : row.table = "run" => row.run # r
    BY <2>2, EntryRunIsItsOwn
  <2> QED
    BY <2>1, <2>3 DEF Confirmation
<1>6. CASE q.op = "create_run" /\ rows = RunMade(Op(q), c, None, None, None)
  <2>1. Apart(S, {RunRow(c, 1, "PRE_FIRST_TURN", "CREATE", Op(q), None, None)})
    BY <1>6 DEF Apart, RunMade
  <2>2. c # r
    BY <2>1, NewRunElsewhere
  <2> QED
    BY <2>2, <1>6 DEF RunMade, RunRow, RunCreation
<1>7. CASE q.op = "bind" /\ BindReady(S, q, rows)
  BY <1>7 DEF BindReady, RunRow, RunReceipt
<1>8. CASE q.op = "attach" /\ AttachReady(S, q, rows)
  BY <1>8 DEF AttachReady, RunRow, RunReceipt, Participation
<1>9. CASE q.op = "exit" /\ ExitReady(S, q, rows)
  BY <1>9 DEF ExitReady, RunRow, RunReceipt
<1>10. CASE q.op = "create_session" /\ rows = {Session(c, Op(q), q.body)}
  BY <1>10 DEF Session
<1> QED
  BY <1>1, <1>2, <1>3, <1>4, <1>5, <1>6, <1>7, <1>8, <1>9, <1>10 DEF Ready

-----------------------------------------------------------------------------
(* A verdict that inserts rows is sound when it is given                   *)

LEMMA NoRunNamed ==
  ASSUME NEW S, Whole(S), NEW x
  PROVE  /\ ActiveRunsNamed(S, S, x) = {} => Unheld(S, x)
         /\ ActiveRuns(S, x) = {} => Unheld(S, x)
<1>1. ASSUME NEW m \in S, Holds(S, m, x)
      PROVE  m.run \in ActiveRuns(S, x) /\ m.run \in ActiveRunsNamed(S, S, x)
  <2>1. m.run \in ActiveRuns(S, x)
    BY <1>1, ActiveRunsHold
  <2>2. m.table = "run" /\ m.char = x
    BY <1>1 DEF Holds, LatestRun
  <2> QED
    BY <2>1, <2>2 DEF ActiveRunsNamed, Table
<1> QED
  BY <1>1 DEF Unheld

LEMMA OwnedHasLatest ==
  ASSUME NEW S, Whole(S), NEW q, Owned(S, q)
  PROVE  /\ Character(S, q.char) \in S /\ Latest(S, Character(S, q.char))
         /\ Character(S, q.char).char = q.char
  BY CharacterIsLatest DEF Owned, Latest

LEMMA MutateIsReady ==
  ASSUME NEW S, Whole(S), NEW q, MutateVerdict(S, S, q).rows # {}
  PROVE  MutateReady(S, q, MutateVerdict(S, S, q).rows)
<1> DEFINE m == Character(S, q.char)
<1>1. \A row : MutateReuse(m, q, row).rows = {}
  BY DEF MutateReuse, Refuse, Answer
<1>2. /\ Owned(S, q) /\ Policy(m, q) = "ACCEPTED"
      /\ ~(q.kind \in DOMAIN Successor /\ ActiveRunsNamed(S, S, q.char) # {})
      /\ MutateVerdict(S, S, q).rows = MutationRows(m, q)
  BY <1>1 DEF MutateVerdict, Refuse, Apply
<1>3. q.kind \in DOMAIN Successor
  BY <1>2 DEF Policy
<1> QED
  BY <1>2, <1>3, NoRunNamed, OwnedHasLatest DEF MutateReady

LEMMA StageIsOpen ==
  ASSUME NEW S, Whole(S), NEW V, NEW op, NEW q, NEW r,
         EntryStage(S, V, op, q, r, r).rows # {} \/ EntryStage(S, V, op, q, r, r).code = "ok"
  PROVE  /\ Character(S, q.char).rev = q.rev /\ Character(S, q.char).life = "ACTIVE"
         /\ ActiveRunsNamed(S, V, q.char) = {} /\ q.world \in Worlds
         /\ EntryStage(S, V, op, q, r, r) = Apply(<<"run", r, r>>, EntryRows(op, q, r, r))
  BY DEF EntryStage, Refuse, Apply

LEMMA EnterIsReady ==
  ASSUME NEW S, Whole(S), NEW q, NEW c, EnterVerdict(S, S, q, c, c).rows # {}
  PROVE  EnterReady(S, q, c, EnterVerdict(S, S, q, c, c).rows)
<1>1. \A row : EntryReplay(S, Op(q), q, row).rows = {}
  BY DEF EntryReplay, LegacyReplay, NativeReplay, Refuse, Answer
<1>2. /\ Owned(S, q) /\ ~PendingOffer(S, q.char) /\ (q.op = "admit" => q.offer = None)
      /\ EnterVerdict(S, S, q, c, c) = EntryStage(S, S, Op(q), q, c, c)
  BY <1>1 DEF EnterVerdict, Refuse
<1>3. /\ Character(S, q.char).rev = q.rev /\ Character(S, q.char).life = "ACTIVE"
      /\ ActiveRunsNamed(S, S, q.char) = {}
      /\ EnterVerdict(S, S, q, c, c).rows = EntryRows(Op(q), q, c, c)
  BY <1>2, StageIsOpen DEF Apply
<1>4. Startable(S, q.char, q.rev)
  BY <1>2, <1>3, OwnedHasLatest DEF Startable
<1>5. NoneWaits(S, q.char)
  BY <1>2, PendingIsUnconfirmed DEF NoneWaits
<1> QED
  BY <1>2, <1>3, <1>4, <1>5, NoRunNamed DEF EnterReady

LEMMA OrdinalFollows ==
  ASSUME NEW S, Whole(S), NEW x,
         NEW ordinal, ordinal = IF Offers(S, x) = {} THEN 1 ELSE LatestOffer(S, x).ordinal + 1
  PROVE  ordinal \in Nat /\ NextOrdinal(S, x, ordinal)
<1>1. CASE Offers(S, x) = {}
  <2>1. \A other \in S : other.table = "offer" => other.char # x
    BY <1>1 DEF Offers, Table
  <2> QED
    BY <2>1, <1>1 DEF NextOrdinal
<1>2. CASE Offers(S, x) # {}
  <2>1. IsLastOffer(S, LatestOffer(S, x)) /\ LatestOffer(S, x).char = x
    BY <1>2, LatestOfferIsLast
  <2>2. LatestOffer(S, x) \in S /\ LatestOffer(S, x).ordinal \in Nat
    BY <2>1 DEF IsLastOffer, Whole, OpeningsWhole, OfferWhole
  <2> QED
    BY <2>1, <2>2, <1>2 DEF NextOrdinal
<1> QED
  BY <1>1, <1>2

LEMMA PrepareIsReady ==
  ASSUME NEW S, Whole(S), NEW q, NEW c, PrepareVerdict(S, S, q, c).rows # {}
  PROVE  PrepareReady(S, q, c, PrepareVerdict(S, S, q, c).rows)
<1> DEFINE m == Character(S, q.char)
           ordinal == IF Offers(S, q.char) = {} THEN 1 ELSE LatestOffer(S, q.char).ordinal + 1
<1>1. /\ Owned(S, q) /\ ~PendingOffer(S, q.char) /\ ActiveRunsNamed(S, S, q.char) = {}
      /\ m.life = "ACTIVE" /\ q.rev = m.rev /\ q.world \in Worlds
      /\ PrepareVerdict(S, S, q, c).rows = {OfferRow(c, q, ordinal)}
  BY DEF PrepareVerdict, Refuse, Answer, Apply
<1>2. ordinal \in Nat /\ NextOrdinal(S, q.char, ordinal)
  BY OrdinalFollows
<1>3. Startable(S, q.char, q.rev)
  BY <1>1, OwnedHasLatest DEF Startable
<1>4. NoneWaits(S, q.char)
  BY <1>1, PendingIsUnconfirmed DEF NoneWaits
<1>5. Unheld(S, q.char)
  BY <1>1, NoRunNamed
<1> HIDE DEF ordinal
<1> QED
  BY <1>1, <1>2, <1>3, <1>4, <1>5 DEF PrepareReady

LEMMA OfferIsFound ==
  ASSUME NEW S, Whole(S), NEW q, OfferFound(S, q),
         NEW offer, offer = CHOOSE row \in Table(S, "offer") : row.offer = q.offer
  PROVE  /\ offer \in S /\ offer.table = "offer" /\ offer.offer = q.offer
         /\ offer.who = q.who /\ offer.char = q.char
         /\ \A other \in S : other.table = "offer" /\ other.offer = q.offer => other = offer
<1>1. PICK found \in Table(S, "offer") :
          found.offer = q.offer /\ found.who = q.who /\ found.char = q.char
  BY DEF OfferFound
<1>2. offer \in Table(S, "offer") /\ offer.offer = q.offer
  BY <1>1
<1>3. found \in S /\ offer \in S /\ found.table = "offer" /\ offer.table = "offer"
  BY <1>1, <1>2 DEF Table
<1>4. \A other \in S : other.table = "offer" /\ other.offer = q.offer => other = offer
  BY <1>2, <1>3 DEF Whole, UniqueRows, SameKey
<1> QED
  BY <1>1, <1>2, <1>3, <1>4

LEMMA ConfirmIsReady ==
  ASSUME NEW S, Whole(S), NEW V, NEW q, NEW c, OfferFound(S, q),
         ConfirmVerdict(S, V, q, c, c).rows # {}
  PROVE  ConfirmReady(S, q, c, ConfirmVerdict(S, V, q, c, c).rows)
<1> DEFINE offer == CHOOSE row \in Table(S, "offer") : row.offer = q.offer
           op == FrozenOp(offer)
           stage == EntryStage(S, V, op, offer, c, c)
<1>1. /\ offer \in S /\ offer.table = "offer" /\ offer.offer = q.offer /\ offer.char = q.char
      /\ \A other \in S : other.table = "offer" /\ other.offer = q.offer => other = offer
  BY OfferIsFound
<1> DEFINE verdict0 == ConfirmVerdict(S, V, q, c, c)
           opened == Apply(<<"confirmed", q.offer, c>>,
                           stage.rows \cup {[table |-> "confirmation", offer |-> q.offer,
                                             pick |-> q.pick, run |-> c]})
<1> DEFINE done == CHOOSE row \in Confirmations(S, q.offer) : TRUE
<1>2. \/ verdict0 = Refuse("PLAYER_CHARACTER_NOT_FOUND")
      \/ verdict0 = Refuse("INVALID_TALENT_SELECTION")
      \/ verdict0 = Refuse("IDEMPOTENCY_CONFLICT")
      \/ verdict0 = Refuse("INTEGRITY")
      \/ verdict0 = Refuse("OPENING_PREPARATION_STALE")
      \/ verdict0 = Answer(<<"confirmed", q.offer, done.run>>)
      \/ stage.code # "ok" /\ verdict0 = stage
      \/ /\ Owned(S, q) /\ q.pick \in LegalPicks /\ Confirmations(S, q.offer) = {}
         /\ LatestOffer(S, q.char).offer = q.offer /\ stage.code = "ok"
         /\ verdict0 = opened
  BY DEF ConfirmVerdict
<1> HIDE DEF offer
<1>3. stage.code # "ok" => stage.rows = {}
  BY StageIsOpen DEF Apply
<1> HIDE DEF stage
<1>4. /\ Owned(S, q) /\ q.pick \in LegalPicks /\ Confirmations(S, q.offer) = {}
      /\ LatestOffer(S, q.char).offer = q.offer /\ stage.code = "ok"
      /\ verdict0 = opened
  BY <1>2, <1>3 DEF Refuse, Answer
<1> USE DEF stage
<1>5. /\ Character(S, offer.char).rev = offer.rev /\ Character(S, offer.char).life = "ACTIVE"
      /\ stage = Apply(<<"run", c, c>>, EntryRows(op, offer, c, c))
  BY <1>4, StageIsOpen
<1>6. verdict0.rows = EntryRows(FrozenOp(offer), offer, c, c) \cup {Confirmation(offer, q.pick, c)}
  BY <1>1, <1>4, <1>5 DEF Apply, Confirmation
<1>7. Offers(S, q.char) # {}
  BY <1>1 DEF Offers, Table
<1>8. IsLastOffer(S, offer)
  BY <1>1, <1>4, <1>7, LatestOfferIsLast DEF IsLastOffer
<1>9. Unconfirmed(S, offer)
  BY <1>1, <1>4 DEF Confirmations, Table, Unconfirmed
<1>10. Startable(S, offer.char, offer.rev)
  BY <1>1, <1>4, <1>5, OwnedHasLatest DEF Startable
<1> QED
  BY <1>1, <1>4, <1>6, <1>8, <1>9, <1>10 DEF ConfirmReady

\* An active run has a character.
LEMMA ActiveIsBound ==
  ASSUME NEW S, Whole(S), NEW m \in S, m.table = "run", m.status = "ACTIVE"
  PROVE  m.char # None
<1>1. m.version = 3 /\ RunRowPlaced(S, m)
  BY DEF Whole, RunsWhole, RunRowWhole, RunRowLawful, RunShape
<1>2. 2 \in 1..m.version
  BY <1>1
<1>3. PICK b \in S : b.table = "run" /\ b.run = m.run /\ b.version = 2
  BY <1>1, <1>2 DEF RunRowPlaced
<1>4. RunRowsAgree(m, b) /\ RunRowsAgree(b, m)
  BY <1>3 DEF Whole, RunsWhole
<1> QED
  BY <1>1, <1>3, <1>4 DEF RunRowsAgree

LEMMA BindIsReady ==
  ASSUME NEW S, Whole(S), NEW q, BindVerdict(S, S, q).rows # {}
  PROVE  BindReady(S, q, BindVerdict(S, S, q).rows)
<1> DEFINE m == Run(S, q.run)
           k == Character(S, q.char)
<1>1. \A row : StepReplay(row, q.char, q).rows = {}
  BY DEF StepReplay, Answer, Refuse
<1>2. /\ Owned(S, q) /\ RunRevisions(S, q.run) # {} /\ StepRefusal(m, q) = "none"
      /\ k.life = "ACTIVE" /\ m.char = None /\ ActiveRuns(S, q.char) = {}
      /\ BindVerdict(S, S, q).rows
            = {RunRow(q.run, m.version + 1, m.status, "BIND", Op(q), q.char, k.rev),
               RunReceipt(q.run, m.version + 1, "BIND", Op(q), q.char)}
  BY <1>1 DEF BindVerdict, Refuse, Apply
<1>3. LatestRun(S, m) /\ m.run = q.run /\ m \in S /\ m.table = "run"
  BY <1>2, RunIsLatest DEF LatestRun
<1>4. m.status = "PRE_FIRST_TURN"
  BY <1>2, <1>3, ActiveIsBound DEF StepRefusal, ActiveLine
<1>5. Latest(S, k) /\ k.char = q.char /\ k \in S
  BY <1>2, OwnedHasLatest
<1>6. Unheld(S, q.char)
  BY <1>2, NoRunNamed
<1> HIDE DEF m, k
<1> QED
  BY <1>2, <1>3, <1>4, <1>5, <1>6 DEF BindReady

LEMMA AttachIsReady ==
  ASSUME NEW S, Whole(S), NEW q, AttachVerdict(S, S, q).rows # {}
  PROVE  AttachReady(S, q, AttachVerdict(S, S, q).rows)
<1> DEFINE m == Run(S, q.run)
<1>1. \A row : StepReplay(row, q.session, q).rows = {}
  BY DEF StepReplay, Answer, Refuse
<1>2. /\ \E row \in Table(S, "session") : row.session = q.session
      /\ RunRevisions(S, q.run) # {} /\ StepRefusal(m, q) = "none" /\ m.status # "ACTIVE"
      /\ AttachVerdict(S, S, q).rows
            = {RunRow(q.run, m.version + 1, m.status, "ATTACH", Op(q), m.char, m.rev),
               RunReceipt(q.run, m.version + 1, "ATTACH", Op(q), q.session),
               Participation(q.session, q.run, m.version + 1)}
  BY <1>1 DEF AttachVerdict, Refuse, Apply
<1>3. LatestRun(S, m) /\ m.run = q.run /\ m \in S
  BY <1>2, RunIsLatest DEF LatestRun
<1>4. m.status = "PRE_FIRST_TURN"
  BY <1>2 DEF StepRefusal, ActiveLine
<1>5. \E session \in S : session.table = "session" /\ session.session = q.session
  BY <1>2 DEF Table
<1> HIDE DEF m
<1> QED
  BY <1>2, <1>3, <1>4, <1>5 DEF AttachReady

LEMMA ExitIsReady ==
  ASSUME NEW S, Whole(S), NEW q, ExitVerdict(S, q).rows # {}
  PROVE  ExitReady(S, q, ExitVerdict(S, q).rows)
<1> DEFINE m == Run(S, q.run)
<1>1. /\ RunRevisions(S, q.run) # {} /\ m.op.family = "native" /\ m.status = "ACTIVE"
      /\ ExitVerdict(S, q).rows = ExitRows(S, q)
  BY DEF ExitVerdict, Refuse, Apply
<1>2. LatestRun(S, m) /\ m.run = q.run /\ m \in S
  BY <1>1, RunIsLatest DEF LatestRun
<1> QED
  BY <1>1, <1>2 DEF ExitReady, ExitRows

\* The verdict of a call that reads V plainly and the committed rows S under lock.
VerdictOf(S, V, q, c) ==
    CASE q.op = "create" -> CreateVerdict(V, q, c)
      [] q.op = "mutate" -> MutateVerdict(S, V, q)
      [] q.op \in {"enter", "admit"} -> EnterVerdict(S, V, q, c, c)
      [] q.op = "prepare" -> PrepareVerdict(S, V, q, c)
      [] q.op = "confirm" -> ConfirmVerdict(S, V, q, c, c)
      [] q.op = "create_run" -> CreateRunVerdict(V, q, c)
      [] q.op = "bind" -> BindVerdict(S, V, q)
      [] q.op = "attach" -> AttachVerdict(S, V, q)
      [] q.op = "exit" -> ExitVerdict(S, q)
      [] OTHER -> CreateSessionVerdict(V, q, c)

LEMMA VerdictIsReady ==
  ASSUME NEW S, Whole(S), NEW V, NEW q, NEW c, q.op \in Operations,
         q.op # "confirm" => V = S,
         q.op = "confirm" => OfferFound(S, q),
         VerdictOf(S, V, q, c).rows # {}
  PROVE  Ready(S, q, c, VerdictOf(S, V, q, c).rows)
<1>1. CASE q.op = "create"
  <2>1. \A row : CreateReuse(q, row).rows = {}
    BY DEF CreateReuse, Refuse, Answer
  <2> QED
    BY <2>1, <1>1 DEF VerdictOf, CreateVerdict, Ready, Apply
<1>2. CASE q.op = "mutate"
  BY <1>2, MutateIsReady DEF VerdictOf, Ready
<1>3. CASE q.op \in {"enter", "admit"}
  BY <1>3, EnterIsReady DEF VerdictOf, Ready
<1>4. CASE q.op = "prepare"
  BY <1>4, PrepareIsReady DEF VerdictOf, Ready
<1>5. CASE q.op = "confirm"
  BY <1>5, ConfirmIsReady DEF VerdictOf, Ready
<1>6. CASE q.op = "create_run"
  BY <1>6 DEF VerdictOf, CreateRunVerdict, Ready, RunMade, Apply, Answer
<1>7. CASE q.op = "bind"
  BY <1>7, BindIsReady DEF VerdictOf, Ready
<1>8. CASE q.op = "attach"
  BY <1>8, AttachIsReady DEF VerdictOf, Ready
<1>9. CASE q.op = "exit"
  BY <1>9, ExitIsReady DEF VerdictOf, Ready
<1>10. CASE q.op = "create_session"
  BY <1>10 DEF VerdictOf, CreateSessionVerdict, SessionReplay, Ready, Apply, Answer, Refuse
<1> QED
  BY <1>1, <1>2, <1>3, <1>4, <1>5, <1>6, <1>7, <1>8, <1>9, <1>10 DEF Operations

-----------------------------------------------------------------------------
(* A confirmation and the run that somebody else gave its character        *)

\* The rows that confirm an opening collide with a run that holds the character,
\* though the confirmation did not see it.
LEMMA ConfirmUnheld ==
  ASSUME NEW S, Whole(S), NEW q, NEW c, NEW rows, ConfirmReady(S, q, c, rows), Apart(S, rows),
         HoldersAreUnique(S \cup rows)
  PROVE  Unheld(S, q.char)
<1> DEFINE T == S \cup rows
           x == q.char
<1>1. SUFFICES ASSUME NEW m \in S, Holds(S, m, x) PROVE FALSE
  BY DEF Unheld
<1>2. PICK offer \in S :
          /\ offer.char = x /\ Startable(S, offer.char, offer.rev)
          /\ rows = EntryRows(FrozenOp(offer), offer, c, c) \cup {Confirmation(offer, q.pick, c)}
  BY DEF ConfirmReady
<1> DEFINE op == FrozenOp(offer)
           one == RunRow(c, 1, "PRE_FIRST_TURN", "CREATE", op, None, None)
           two == RunRow(c, 2, "PRE_FIRST_TURN", "BIND", op, offer.char, offer.rev)
           three == RunRow(c, 3, "ACTIVE", "ATTACH", op, offer.char, offer.rev)
<1>3. /\ m.table = "run" /\ m.char = x /\ m.status \in ActiveLine /\ LatestRun(S, m)
  BY <1>1 DEF Holds, LatestRun
<1>4. one \in rows /\ two \in rows /\ three \in rows
  BY <1>2 DEF EntryRows, EntryCreation, EntryBinding, EntryActivation
<1>5. \A row \in rows : row.table = "run" => row \in {one, two, three}
  BY <1>2 DEF EntryRows, EntryCreation, EntryBinding, EntryActivation, Session, RunRow,
             RunCreation, Admission, RunReceipt, Participation, Confirmation
<1>6. /\ one.table = "run" /\ one.run = c /\ one.version = 1
      /\ two.table = "run" /\ two.run = c /\ two.version = 2
      /\ three.table = "run" /\ three.run = c /\ three.version = 3
      /\ three.char = x /\ three.status = "ACTIVE"
  BY <1>2 DEF RunRow
<1>7. \A row \in S : row.table = "run" => row.run # c
  <2>1. SUFFICES ASSUME NEW row \in S, row.table = "run", row.run = c PROVE FALSE
    OBVIOUS
  <2>2. Apart(S, {one})
    BY <1>4 DEF Apart
  <2> QED
    BY <2>1, <2>2, NewRunElsewhere DEF one
<1> HIDE DEF one, two, three
<1>8. RunRevisions(T, m.run) = RunRevisions(S, m.run)
  BY <1>3, <1>5, <1>6, <1>7 DEF RunRevisions, Table
<1>9. Run(T, m.run) = m
  <2>1. m \in RunRevisions(S, m.run)
    BY <1>3 DEF RunRevisions, Table
  <2>2. m = Run(S, m.run)
    BY <2>1, <1>3, RunIsLatest
  <2> QED
    BY <2>2, <1>8 DEF Run
<1>10. RunRevisions(T, c) = {one, two, three}
  BY <1>4, <1>5, <1>6, <1>7 DEF RunRevisions, Table
<1>11. Run(T, c) = three
  <2>1. \A row \in {one, two, three} :
            (\A other \in {one, two, three} : other.version <= row.version) <=> row = three
    BY <1>6
  <2> QED
    BY <2>1, <1>10 DEF Run
<1>12. m.run \in ActiveRuns(T, x)
  BY <1>3, <1>9 DEF ActiveRuns, Table
<1>13. c \in ActiveRuns(T, x)
  BY <1>4, <1>6, <1>11 DEF ActiveRuns, Table, ActiveLine
<1>14. x \in {row.char : row \in Table(T, "revision")}
  <2>1. PICK k \in S : k.table = "revision" /\ k.char = x
    BY <1>2, NamesARevision
  <2> QED
    BY <2>1 DEF Table
<1>15. m.run = c
  BY <1>12, <1>13, <1>14 DEF HoldersAreUnique
<1> QED
  BY <1>3, <1>7, <1>15

-----------------------------------------------------------------------------
(* The inductive invariant                                                 *)

\* The row a creation adds before it decides.
FirstBinding(q) == IF q.op = "create" THEN {Binding(q.who)} ELSE {}

Decided(p) == p \in {"write", "commit"}
Locked(p) == p \in {"decide", "write", "commit"}

\* What the locks of a call are worth to it.
LocksHeld(S, q, p, h) ==
    /\ Locked(p) /\ OnCharacter(q) /\ q.op # "exit" =>
          /\ <<"character", q.char>> \in h
          /\ \E m \in S : m.table = "revision" /\ m.char = q.char
    /\ Decided(p) /\ q.op \in {"bind", "attach", "exit"} => <<"run", q.run>> \in h

\* What a call has inserted.
StagedRight(S, q, p, st, vd) ==
    /\ ~Locked(p) => st = {}
    /\ p \in {"decide", "write"} => st \subseteq FirstBinding(q)
    /\ p = "commit" => \E early \in SUBSET FirstBinding(q) : st = early \cup vd.rows
    /\ q.op = "create" /\ Locked(p) => Binding(q.who) \in S \cup st
    /\ \A row \in st : row.table = "binding" => row = Binding(row.who)
    /\ Apart(S, st)

CallOk(S, q, c, p, h, w, st, vd) ==
    /\ p = "peek" => q.op = "confirm"
    /\ p = "add binding" => q.op = "create"
    /\ q.op # "confirm" => w = {}
    /\ q.op = "confirm" /\ (Locked(p) \/ p = "lock") => OfferFound(S, q)
    /\ LocksHeld(S, q, p, h)
    /\ StagedRight(S, q, p, st, vd)
    /\ Decided(p) => Ready(S, q, c, vd.rows)
    /\ q.op = "confirm" /\ p = "commit" => Unheld(S, q.char)

\* Only the lock on a binding that two calls are adding can be held by both.
OneHolder(h, other) == \A lock \in h \cap other : lock[1] = "binding"

EntryInv ==
    /\ script \in Scripts
    /\ DOMAIN pc = Calls /\ DOMAIN held = Calls /\ DOMAIN view = Calls
    /\ DOMAIN staged = Calls /\ DOMAIN verdict = Calls /\ DOMAIN answer = Calls
    /\ Whole(store)
    /\ \A c \in Calls :
          CallOk(store, script[c], c, pc[c], held[c], view[c], staged[c], verdict[c])
    /\ \A c, d \in Calls : c # d => OneHolder(held[c], held[d]) /\ Apart(staged[c], staged[d])

LEMMA ApartTurned ==
  ASSUME NEW S, NEW R, Apart(S, R)
  PROVE  Apart(R, S)
  BY SameKeyTurned DEF Apart

LEMMA SeedIsWhole == Whole(Seed)
<1>1. /\ \A row \in Seed : row.table \in CharacterTables
      /\ \A row \in Seed : row.table = "binding" => row = Binding(row.who)
      /\ \A row \in Seed : row.table = "revision" => ValidCharacter(Seed, row.char) /\ row.char # None
  BY SeedAssumption DEF CharacterTables, Table
<1>2. \A row \in Seed : row.table \in {"creation_receipt", "mutation_receipt"} =>
          \E first \in Seed : first.table = "revision" /\ first.char = row.char
  BY SeedAssumption DEF Revisions, Table
<1> QED
  BY <1>1, <1>2, SeedAssumption, CharactersAreWhole

LEMMA InitHolds ==
  ASSUME Init
  PROVE  EntryInv
<1>1. /\ DOMAIN pc = Calls /\ DOMAIN held = Calls /\ DOMAIN view = Calls
      /\ DOMAIN staged = Calls /\ DOMAIN verdict = Calls /\ DOMAIN answer = Calls
      /\ script \in Scripts
  BY DEF Init
<1>2. Whole(store)
  BY SeedIsWhole DEF Init
<1>3. ASSUME NEW c \in Calls
      PROVE  CallOk(store, script[c], c, pc[c], held[c], view[c], staged[c], verdict[c])
  <2>1. /\ held[c] = {} /\ view[c] = {} /\ staged[c] = {}
        /\ pc[c] = IF script[c].op = "exit" THEN "target"
                   ELSE IF Native(script[c]) THEN "gate" ELSE AfterGate(script[c])
    BY DEF Init
  <2>2. /\ pc[c] \in {"target", "gate", "lock", "decide"}
        /\ pc[c] = "decide" => script[c].op # "create" /\ ~OnCharacter(script[c])
        /\ script[c].op = "confirm" => pc[c] = "gate"
    BY <2>1 DEF Native, AfterGate
  <2>3. LocksHeld(store, script[c], pc[c], held[c])
    BY <2>2 DEF LocksHeld, Locked, Decided
  <2>4. StagedRight(store, script[c], pc[c], staged[c], verdict[c])
    BY <2>1, <2>2 DEF StagedRight, Locked, Apart
  <2> QED
    BY <2>1, <2>2, <2>3, <2>4 DEF CallOk, Locked, Decided, OnCharacter
<1>4. \A c, d \in Calls : c # d => OneHolder(held[c], held[d]) /\ Apart(staged[c], staged[d])
  BY DEF Init, OneHolder, Apart
<1> QED
  BY <1>1, <1>2, <1>3, <1>4 DEF EntryInv

-----------------------------------------------------------------------------
(* The steps                                                               *)

\* One call takes a step, the others do nothing.
OnlyCall(c) ==
    /\ script' = script
    /\ DOMAIN pc' = Calls /\ DOMAIN held' = Calls /\ DOMAIN view' = Calls
    /\ DOMAIN staged' = Calls /\ DOMAIN verdict' = Calls /\ DOMAIN answer' = Calls
    /\ \A d \in Calls : d # c =>
          /\ pc'[d] = pc[d] /\ held'[d] = held[d] /\ view'[d] = view[d]
          /\ staged'[d] = staged[d] /\ verdict'[d] = verdict[d] /\ answer'[d] = answer[d]

\* What the call has become fits what the others are.
FitsIn(c) ==
    /\ CallOk(store', script[c], c, pc'[c], held'[c], view'[c], staged'[c], verdict'[c])
    /\ \A d \in Calls : d # c => OneHolder(held'[c], held[d]) /\ Apart(staged'[c], staged[d])

LEMMA StepKeeps ==
  ASSUME EntryInv, NEW c \in Calls, OnlyCall(c), Whole(store)', FitsIn(c),
         \A d \in Calls : d # c =>
            CallOk(store', script[d], d, pc[d], held[d], view[d], staged[d], verdict[d])
  PROVE  EntryInv'
<1>1. ASSUME NEW d \in Calls
      PROVE  CallOk(store', script'[d], d, pc'[d], held'[d], view'[d], staged'[d], verdict'[d])
  BY DEF OnlyCall, FitsIn
<1>2. ASSUME NEW a \in Calls, NEW d \in Calls, a # d
      PROVE  OneHolder(held'[a], held'[d]) /\ Apart(staged'[a], staged'[d])
  <2>1. CASE a = c
    BY <2>1, <1>2 DEF OnlyCall, FitsIn
  <2>2. CASE d = c
    <3>1. OneHolder(held'[c], held'[a]) /\ Apart(staged'[c], staged'[a])
      BY <2>2, <1>2 DEF OnlyCall, FitsIn
    <3>2. OneHolder(held'[a], held'[c])
      BY <3>1 DEF OneHolder
    <3> QED
      BY <3>1, <3>2, <2>2, ApartTurned
  <2>3. CASE a # c /\ d # c
    BY <2>3, <1>2 DEF OnlyCall, EntryInv
  <2> QED
    BY <2>1, <2>2, <2>3
<1> QED
  BY <1>1, <1>2 DEF EntryInv, OnlyCall

LEMMA QuietStepKeeps ==
  ASSUME EntryInv, NEW c \in Calls, OnlyCall(c), store' = store, FitsIn(c)
  PROVE  EntryInv'
<1>1. Whole(store)'
  BY DEF EntryInv
<1>2. \A d \in Calls : d # c =>
          CallOk(store', script[d], d, pc[d], held[d], view[d], staged[d], verdict[d])
  BY DEF EntryInv
<1> QED
  BY <1>1, <1>2, StepKeeps

LEMMA EndFits ==
  ASSUME EntryInv, NEW c \in Calls, NEW code, NEW result, End(c, code, result), script' = script
  PROVE  OnlyCall(c) /\ FitsIn(c)
<1>1. /\ pc'[c] = "done" /\ held'[c] = {} /\ view'[c] = {} /\ staged'[c] = {}
  BY DEF End, EntryInv
<1>2. OnlyCall(c)
  BY DEF End, EntryInv, OnlyCall
<1>3. LocksHeld(store', script[c], pc'[c], held'[c])
  BY <1>1 DEF LocksHeld, Locked, Decided
<1>4. StagedRight(store', script[c], pc'[c], staged'[c], verdict'[c])
  BY <1>1 DEF StagedRight, Locked, Apart
<1>5. CallOk(store', script[c], c, pc'[c], held'[c], view'[c], staged'[c], verdict'[c])
  BY <1>1, <1>3, <1>4 DEF CallOk, Locked, Decided
<1>6. \A d \in Calls : d # c => OneHolder(held'[c], held[d]) /\ Apart(staged'[c], staged[d])
  BY <1>1 DEF OneHolder, Apart
<1> QED
  BY <1>2, <1>5, <1>6 DEF FitsIn

LEMMA EndKeeps ==
  ASSUME EntryInv, NEW c \in Calls, NEW code, NEW result, End(c, code, result), script' = script,
         store' = store
  PROVE  EntryInv'
  BY EndFits, QuietStepKeeps

LEMMA GateKeeps ==
  ASSUME EntryInv, NEW c \in Calls, Gate(c)
  PROVE  EntryInv'
<1> DEFINE q == script[c]
<1>1. /\ pc[c] = "gate" /\ pc'[c] = AfterGate(q) /\ held'[c] = {NamedLock}
      /\ view'[c] = view[c] /\ staged'[c] = staged[c] /\ verdict'[c] = verdict[c]
      /\ store' = store
  BY DEF Gate, Go, EntryInv
<1>2. OnlyCall(c)
  BY DEF Gate, Go, EntryInv, OnlyCall
<1>3. CallOk(store, q, c, pc[c], held[c], view[c], staged[c], verdict[c])
  BY DEF EntryInv
<1>4. staged[c] = {}
  BY <1>1, <1>3 DEF CallOk, StagedRight, Locked
<1>5. /\ pc'[c] \in {"peek", "lock", "decide"}
      /\ pc'[c] = "peek" => q.op = "confirm"
      /\ pc'[c] \in {"lock", "decide"} => q.op # "confirm"
      /\ pc'[c] = "decide" => q.op # "create" /\ ~OnCharacter(q)
  BY <1>1 DEF AfterGate
<1> HIDE DEF q
<1>6. LocksHeld(store', q, pc'[c], held'[c])
  BY <1>5 DEF LocksHeld, Locked, Decided
<1>7. StagedRight(store', q, pc'[c], staged'[c], verdict'[c])
  BY <1>1, <1>4, <1>5 DEF StagedRight, Apart, Locked
<1>8. CallOk(store', q, c, pc'[c], held'[c], view'[c], staged'[c], verdict'[c])
  BY <1>1, <1>3, <1>5, <1>6, <1>7 DEF CallOk, Locked, Decided
<1>9. \A d \in Calls : d # c => OneHolder(held'[c], held[d]) /\ Apart(staged'[c], staged[d])
  <2>1. \A d \in Calls \ {c} : held[d] \cap {NamedLock} = {}
    BY DEF Gate, Free
  <2> QED
    BY <2>1, <1>1, <1>4 DEF OneHolder, Apart
<1> QED
  BY <1>1, <1>2, <1>8, <1>9, QuietStepKeeps DEF FitsIn, q

LEMMA PeekKeeps ==
  ASSUME EntryInv, NEW c \in Calls, Peek(c)
  PROVE  EntryInv'
<1> DEFINE q == script[c]
<1>1. CASE ~OfferFound(store, q)
  BY <1>1, EndKeeps DEF Peek
<1>2. CASE OfferFound(store, q)
  <2>1. /\ pc[c] = "peek" /\ pc'[c] = "lock" /\ held'[c] = held[c]
        /\ staged'[c] = staged[c] /\ verdict'[c] = verdict[c] /\ store' = store
    BY <1>2 DEF Peek, Go, EntryInv
  <2>2. OnlyCall(c)
    BY <1>2 DEF Peek, Go, EntryInv, OnlyCall
  <2>3. CallOk(store, q, c, pc[c], held[c], view[c], staged[c], verdict[c])
    BY DEF EntryInv
  <2>4. staged[c] = {} /\ q.op = "confirm"
    BY <2>1, <2>3 DEF CallOk, StagedRight, Locked
  <2> HIDE DEF q
  <2>5. LocksHeld(store', q, pc'[c], held'[c])
    BY <2>1 DEF LocksHeld, Locked, Decided
  <2>6. StagedRight(store', q, pc'[c], staged'[c], verdict'[c])
    BY <2>1, <2>4 DEF StagedRight, Apart, Locked
  <2>7. CallOk(store', q, c, pc'[c], held'[c], view'[c], staged'[c], verdict'[c])
    BY <1>2, <2>1, <2>4, <2>5, <2>6 DEF CallOk, Locked, Decided
  <2>8. \A d \in Calls : d # c => OneHolder(held'[c], held[d]) /\ Apart(staged'[c], staged[d])
    BY <2>1 DEF EntryInv
  <2> QED
    BY <2>1, <2>2, <2>7, <2>8, QuietStepKeeps DEF FitsIn, q
<1> QED
  BY <1>1, <1>2

LEMMA LockKeeps ==
  ASSUME EntryInv, NEW c \in Calls, Lock(c)
  PROVE  EntryInv'
<1> DEFINE q == script[c]
<1>1. pc[c] = "lock" /\ store' = store /\ script' = script
  BY DEF Lock
<1>2. CallOk(store, q, c, pc[c], held[c], view[c], staged[c], verdict[c])
  BY DEF EntryInv
<1>3. staged[c] = {}
  BY <1>1, <1>2 DEF CallOk, StagedRight, Locked
<1>4. CASE q.op = "create" /\ Binding(q.who) \notin store
  <2>1. /\ pc'[c] = "add binding" /\ held'[c] = held[c] /\ view'[c] = view[c]
        /\ staged'[c] = staged[c] /\ verdict'[c] = verdict[c]
    BY <1>4 DEF Lock, Go, EntryInv
  <2>2. OnlyCall(c)
    BY <1>4 DEF Lock, Go, EntryInv, OnlyCall
  <2> HIDE DEF q
  <2>3. LocksHeld(store', q, pc'[c], held'[c])
    BY <2>1 DEF LocksHeld, Locked, Decided
  <2>4. StagedRight(store', q, pc'[c], staged'[c], verdict'[c])
    BY <2>1, <1>3 DEF StagedRight, Apart, Locked
  <2>5. CallOk(store', q, c, pc'[c], held'[c], view'[c], staged'[c], verdict'[c])
    BY <1>2, <1>4, <2>1, <2>3, <2>4 DEF CallOk, Locked, Decided
  <2>6. \A d \in Calls : d # c => OneHolder(held'[c], held[d]) /\ Apart(staged'[c], staged[d])
    BY <2>1 DEF EntryInv
  <2> QED
    BY <1>1, <2>2, <2>5, <2>6, QuietStepKeeps DEF FitsIn, q
<1>5. CASE ~(q.op = "create" /\ Binding(q.who) \notin store)
           /\ OnCharacter(q) /\ Revisions(store, CharacterOf(q)) = {}
  BY <1>5, EndKeeps DEF Lock
<1>6. CASE ~(q.op = "create" /\ Binding(q.who) \notin store)
           /\ ~(OnCharacter(q) /\ Revisions(store, CharacterOf(q)) = {})
  <2>1. /\ pc'[c] = "decide" /\ held'[c] = held[c] \cup LocksOf(q) /\ view'[c] = view[c]
        /\ staged'[c] = staged[c] /\ verdict'[c] = verdict[c]
        /\ Free(c, LocksOf(q))
    BY <1>6 DEF Lock, Go, EntryInv
  <2>2. OnlyCall(c)
    BY <1>6 DEF Lock, Go, EntryInv, OnlyCall
  <2> HIDE DEF q
  <2>3. LocksHeld(store', q, pc'[c], held'[c])
    <3>1. OnCharacter(q) /\ q.op # "exit" => <<"character", q.char>> \in LocksOf(q)
      BY <1>6 DEF LocksOf, OnCharacter, CharacterOf
    <3>2. OnCharacter(q) /\ q.op # "exit" =>
              \E m \in store : m.table = "revision" /\ m.char = q.char
      BY <1>6 DEF Revisions, Table, CharacterOf
    <3> QED
      BY <1>1, <2>1, <3>1, <3>2 DEF LocksHeld, Decided
  <2>4. StagedRight(store', q, pc'[c], staged'[c], verdict'[c])
    BY <1>1, <1>3, <1>6, <2>1 DEF StagedRight, Apart, Locked
  <2>5. CallOk(store', q, c, pc'[c], held'[c], view'[c], staged'[c], verdict'[c])
    BY <1>1, <1>2, <2>1, <2>3, <2>4 DEF CallOk, Locked, Decided
  <2>6. \A d \in Calls : d # c => OneHolder(held'[c], held[d]) /\ Apart(staged'[c], staged[d])
    <3>1. \A d \in Calls : d # c => OneHolder(held[c], held[d]) /\ Apart(staged[c], staged[d])
      BY DEF EntryInv
    <3>2. \A d \in Calls \ {c} : held[d] \cap LocksOf(q) = {}
      BY <2>1 DEF Free
    <3> QED
      BY <2>1, <3>1, <3>2 DEF OneHolder
  <2> QED
    BY <1>1, <2>2, <2>5, <2>6, QuietStepKeeps DEF FitsIn, q
<1> QED
  BY <1>4, <1>5, <1>6

LEMMA AddBindingKeeps ==
  ASSUME EntryInv, NEW c \in Calls, AddBinding(c)
  PROVE  EntryInv'
<1> DEFINE q == script[c]
           row == Binding(q.who)
<1>1. /\ pc[c] = "add binding" /\ store' = store /\ view'[c] = view[c] /\ verdict'[c] = verdict[c]
      /\ \A d \in Calls : d # c => row \notin staged[d]
  BY DEF AddBinding
<1>2. CallOk(store, q, c, pc[c], held[c], view[c], staged[c], verdict[c])
  BY DEF EntryInv
<1>3. q.op = "create" /\ staged[c] = {}
  BY <1>1, <1>2 DEF CallOk, StagedRight, Locked
<1>4. OnlyCall(c)
  BY DEF AddBinding, Go, EntryInv, OnlyCall
<1>5. CASE row \in store
  <2>1. pc'[c] = "recover" /\ held'[c] = held[c] /\ staged'[c] = staged[c]
    BY <1>5 DEF AddBinding, Go, EntryInv
  <2> HIDE DEF q
  <2>2. LocksHeld(store', q, pc'[c], held'[c])
    BY <2>1 DEF LocksHeld, Locked, Decided
  <2>3. StagedRight(store', q, pc'[c], staged'[c], verdict'[c])
    BY <1>3, <2>1 DEF StagedRight, Apart, Locked
  <2>4. CallOk(store', q, c, pc'[c], held'[c], view'[c], staged'[c], verdict'[c])
    BY <1>1, <1>2, <1>3, <2>1, <2>2, <2>3 DEF CallOk, Locked, Decided
  <2>5. \A d \in Calls : d # c => OneHolder(held'[c], held[d]) /\ Apart(staged'[c], staged[d])
    BY <2>1 DEF EntryInv
  <2> QED
    BY <1>1, <1>4, <2>4, <2>5, QuietStepKeeps DEF FitsIn, q
<1>6. CASE row \notin store
  <2>1. pc'[c] = "decide" /\ held'[c] = LocksOf(q) /\ staged'[c] = {row}
    BY <1>6 DEF AddBinding, Go, EntryInv
  <2>2. row.table = "binding" /\ row = Binding(row.who)
    BY DEF Binding
  <2>3. \A other : other.table = "binding" /\ other = Binding(other.who) /\ SameKey(other, row)
            => other = row
    BY DEF SameKey, Binding
  <2>4. \A other \in store : other.table = "binding" => other = Binding(other.who)
    BY DEF EntryInv, Whole, CharactersWhole
  <2> HIDE DEF row
  <2>5. Apart(store, {row})
    BY <1>6, <2>2, <2>3, <2>4 DEF Apart, SameKey
  <2>6. \A d \in Calls : d # c => Apart(staged'[c], staged[d])
    <3>1. ASSUME NEW d \in Calls, d # c PROVE Apart(staged[d], {row})
      <4>1. \A other \in staged[d] : other.table = "binding" => other = Binding(other.who)
        BY DEF EntryInv, CallOk, StagedRight
      <4> QED
        BY <1>1, <2>2, <2>3, <3>1, <4>1 DEF Apart, SameKey
    <3> QED
      BY <2>1, <3>1, ApartTurned
  <2>7. \A d \in Calls : d # c => OneHolder(held'[c], held[d])
    BY <1>3, <2>1 DEF LocksOf, OneHolder
  <2>8. row \in FirstBinding(q) /\ row = Binding(q.who)
    BY <1>3 DEF FirstBinding, row
  <2> HIDE DEF q
  <2>9. LocksHeld(store', q, pc'[c], held'[c])
    BY <1>3, <2>1 DEF LocksHeld, Decided, OnCharacter
  <2>10. StagedRight(store', q, pc'[c], staged'[c], verdict'[c])
    BY <1>1, <2>1, <2>2, <2>5, <2>8 DEF StagedRight, Locked
  <2>11. CallOk(store', q, c, pc'[c], held'[c], view'[c], staged'[c], verdict'[c])
    BY <1>1, <1>2, <1>3, <2>1, <2>9, <2>10 DEF CallOk, Locked, Decided
  <2> QED
    BY <1>1, <1>4, <2>6, <2>7, <2>11, QuietStepKeeps DEF FitsIn, q
<1> QED
  BY <1>5, <1>6

LEMMA DecideKeeps ==
  ASSUME EntryInv, NEW c \in Calls, Decide(c)
  PROVE  EntryInv'
<1> DEFINE q == script[c]
           v == Verdict(c)
<1>1. pc[c] = "decide" /\ store' = store /\ script' = script /\ Free(c, RunLocks(q))
  BY DEF Decide
<1>2. CallOk(store, q, c, pc[c], held[c], view[c], staged[c], verdict[c])
  BY DEF EntryInv
<1>3. CASE v.rows = {}
  <2>1. End(c, v.code, v.result)
    BY <1>3 DEF Decide
  <2> HIDE DEF v
  <2> QED
    BY <1>1, <2>1, EndKeeps
<1>4. CASE v.rows # {}
  <2>1. /\ pc'[c] = "write" /\ held'[c] = held[c] \cup RunLocks(q) /\ view'[c] = view[c]
        /\ staged'[c] = staged[c] /\ verdict'[c] = v
    BY <1>4 DEF Decide, Go, EntryInv
  <2>2. OnlyCall(c)
    BY <1>4 DEF Decide, Go, EntryInv, OnlyCall
  <2>3. Ready(store, q, c, v.rows)
    <3>1. v = VerdictOf(store, Seen(c), q, c)
      BY DEF Verdict, VerdictOf
    <3>2. q.op # "confirm" => Seen(c) = store
      BY <1>2 DEF CallOk, Seen
    <3>3. q.op = "confirm" => OfferFound(store, q)
      BY <1>1, <1>2 DEF CallOk, Locked
    <3>4. q.op \in Operations
      BY ScriptAssumption DEF EntryInv
    <3>5. Whole(store)
      BY DEF EntryInv
    <3> HIDE DEF v, q
    <3> QED
      BY <3>1, <3>2, <3>3, <3>4, <3>5, <1>4, VerdictIsReady
  <2>4. LocksHeld(store, q, "decide", held[c])
    BY <1>1, <1>2 DEF CallOk
  <2>5. q.op \in {"bind", "attach", "exit"} => <<"run", q.run>> \in RunLocks(q)
    BY DEF RunLocks
  <2> HIDE DEF q, v
  <2>6. LocksHeld(store', q, pc'[c], held'[c])
    BY <1>1, <2>1, <2>4, <2>5 DEF LocksHeld, Locked, Decided
  <2>7. StagedRight(store, q, "decide", staged[c], verdict[c])
    BY <1>1, <1>2 DEF CallOk
  <2>8. StagedRight(store', q, pc'[c], staged'[c], verdict'[c])
    BY <1>1, <2>1, <2>7 DEF StagedRight, Locked
  <2>9. CallOk(store', q, c, pc'[c], held'[c], view'[c], staged'[c], verdict'[c])
    BY <1>1, <1>2, <2>1, <2>3, <2>6, <2>8 DEF CallOk, Locked, Decided
  <2>10. \A d \in Calls : d # c => OneHolder(held'[c], held[d]) /\ Apart(staged'[c], staged[d])
    <3>1. \A d \in Calls : d # c => OneHolder(held[c], held[d]) /\ Apart(staged[c], staged[d])
      BY DEF EntryInv
    <3>2. \A d \in Calls \ {c} : held[d] \cap RunLocks(q) = {}
      BY <1>1 DEF Free
    <3> QED
      BY <2>1, <3>1, <3>2 DEF OneHolder
  <2> QED
    BY <1>1, <2>2, <2>9, <2>10, QuietStepKeeps DEF FitsIn, q
<1> QED
  BY <1>3, <1>4

LEMMA ReadyAddsNoBinding ==
  ASSUME NEW S, NEW q, NEW c, NEW rows, Ready(S, q, c, rows)
  PROVE  \A row \in rows : row.table # "binding"
<1>1. \A op, p : \A row \in EntryRows(op, p, c, c) : row.table # "binding"
  BY DEF EntryRows, EntryCreation, EntryBinding, EntryActivation, Session, RunRow, RunCreation,
         Admission, RunReceipt, Participation
<1>2. CASE q.op = "create" /\ rows = CreationRows(q, c)
  BY <1>2 DEF CreationRows, Revision, CreationReceipt
<1>3. CASE q.op = "mutate" /\ MutateReady(S, q, rows)
  BY <1>3 DEF MutateReady, MutationRows, Revision, MutationReceipt
<1>4. CASE q.op \in {"enter", "admit"} /\ EnterReady(S, q, c, rows)
  BY <1>1, <1>4 DEF EnterReady
<1>5. CASE q.op = "prepare" /\ PrepareReady(S, q, c, rows)
  BY <1>5 DEF PrepareReady, OfferRow
<1>6. CASE q.op = "confirm" /\ ConfirmReady(S, q, c, rows)
  BY <1>1, <1>6 DEF ConfirmReady, Confirmation
<1>7. CASE q.op = "create_run" /\ rows = RunMade(Op(q), c, None, None, None)
  BY <1>7 DEF RunMade, RunRow, RunCreation
<1>8. CASE q.op = "bind" /\ BindReady(S, q, rows)
  BY <1>8 DEF BindReady, RunRow, RunReceipt
<1>9. CASE q.op = "attach" /\ AttachReady(S, q, rows)
  BY <1>9 DEF AttachReady, RunRow, RunReceipt, Participation
<1>10. CASE q.op = "exit" /\ ExitReady(S, q, rows)
  BY <1>10 DEF ExitReady, RunRow, RunReceipt
<1>11. CASE q.op = "create_session" /\ rows = {Session(c, Op(q), q.body)}
  BY <1>11 DEF Session
<1> QED
  BY <1>2, <1>3, <1>4, <1>5, <1>6, <1>7, <1>8, <1>9, <1>10, <1>11 DEF Ready

LEMMA WriteKeeps ==
  ASSUME EntryInv, NEW c \in Calls, Write(c)
  PROVE  EntryInv'
<1> DEFINE q == script[c]
           rows == verdict[c].rows
<1>1. /\ pc[c] = "write" /\ store' = store
      /\ \A d \in Calls \ {c} : Keys(staged[d]) \cap Keys(rows) = {}
      /\ Keys(rows) \cap Keys(store) = {} /\ HoldersAreUnique(store \cup rows)
  BY DEF Write, Clashes
<1>2. /\ pc'[c] = "commit" /\ held'[c] = held[c] /\ view'[c] = view[c]
      /\ staged'[c] = staged[c] \cup rows /\ verdict'[c] = verdict[c]
  BY DEF Write, Go, EntryInv
<1>3. OnlyCall(c)
  BY DEF Write, Go, EntryInv, OnlyCall
<1>4. CallOk(store, q, c, pc[c], held[c], view[c], staged[c], verdict[c])
  BY DEF EntryInv
<1>5. Whole(store) /\ Ready(store, q, c, rows)
  BY <1>1, <1>4 DEF EntryInv, CallOk, Decided
<1> HIDE DEF rows
<1>6. Apart(store, rows) /\ \A d \in Calls : d # c => Apart(staged[d], rows)
  BY <1>1, KeysApart
<1>7. \A row \in rows : row.table # "binding"
  BY <1>5, ReadyAddsNoBinding
<1>8. q.op = "confirm" => Unheld(store, q.char)
  BY <1>1, <1>5, <1>6, ConfirmUnheld DEF Ready
<1> HIDE DEF q
<1>9. LocksHeld(store', q, pc'[c], held'[c])
  BY <1>1, <1>2, <1>4 DEF CallOk, LocksHeld, Locked, Decided
<1>10. StagedRight(store, q, "write", staged[c], verdict[c])
  BY <1>1, <1>4 DEF CallOk
<1>11. StagedRight(store', q, pc'[c], staged'[c], verdict'[c])
  <2>1. staged[c] \in SUBSET FirstBinding(q) /\ Apart(store, staged[c])
        /\ (q.op = "create" => Binding(q.who) \in store \cup staged[c])
        /\ \A row \in staged[c] : row.table = "binding" => row = Binding(row.who)
    BY <1>10 DEF StagedRight, Locked
  <2>2. Apart(store, staged[c] \cup rows)
    BY <2>1, <1>6 DEF Apart
  <2> QED
    BY <1>1, <1>2, <1>7, <2>1, <2>2 DEF StagedRight, Locked, rows
<1>12. CallOk(store', q, c, pc'[c], held'[c], view'[c], staged'[c], verdict'[c])
  BY <1>1, <1>2, <1>4, <1>5, <1>8, <1>9, <1>11 DEF CallOk, Locked, Decided, rows
<1>13. \A d \in Calls : d # c => OneHolder(held'[c], held[d]) /\ Apart(staged'[c], staged[d])
  <2>1. \A d \in Calls : d # c => OneHolder(held[c], held[d]) /\ Apart(staged[c], staged[d])
    BY DEF EntryInv
  <2>2. \A d \in Calls : d # c => Apart(rows, staged[d])
    BY <1>6, ApartTurned
  <2> QED
    BY <1>2, <2>1, <2>2 DEF Apart
<1> QED
  BY <1>1, <1>3, <1>12, <1>13, QuietStepKeeps DEF FitsIn, q

LEMMA ClashKeeps ==
  ASSUME EntryInv, NEW c \in Calls, Clash(c)
  PROVE  EntryInv'
<1> DEFINE q == script[c]
<1>1. pc[c] = "write" /\ store' = store /\ script' = script
  BY DEF Clash
<1>2. CASE q.op \in {"create_session", "mutate", "admit"}
  <2>1. pc'[c] = "recover" /\ held'[c] = {} /\ view'[c] = {} /\ staged'[c] = staged[c]
    BY <1>2 DEF Clash, Go, EntryInv
  <2>2. OnlyCall(c)
    BY <1>2 DEF Clash, Go, EntryInv, OnlyCall
  <2>3. CallOk(store, q, c, pc[c], held[c], view[c], staged[c], verdict[c])
    BY DEF EntryInv
  <2> HIDE DEF q
  <2>4. staged[c] = {}
    BY <1>1, <1>2, <2>3 DEF CallOk, StagedRight, FirstBinding
  <2>5. LocksHeld(store', q, pc'[c], held'[c])
    BY <2>1 DEF LocksHeld, Locked, Decided
  <2>6. StagedRight(store', q, pc'[c], staged'[c], verdict'[c])
    BY <2>1, <2>4 DEF StagedRight, Locked, Apart
  <2>7. CallOk(store', q, c, pc'[c], held'[c], view'[c], staged'[c], verdict'[c])
    BY <1>2, <2>1, <2>5, <2>6 DEF CallOk, Locked, Decided
  <2>8. \A d \in Calls : d # c => OneHolder(held'[c], held[d]) /\ Apart(staged'[c], staged[d])
    BY <2>1, <2>4 DEF OneHolder, Apart
  <2> QED
    BY <1>1, <2>2, <2>7, <2>8, QuietStepKeeps DEF FitsIn, q
<1>3. CASE q.op \notin {"create_session", "mutate", "admit"}
  BY <1>1, <1>3, EndKeeps DEF Clash
<1> QED
  BY <1>2, <1>3

-----------------------------------------------------------------------------
(* The commit                                                              *)

\* What a call commits: its early binding and the rows of its verdict.
Committing(c) ==
    /\ c \in Calls /\ pc[c] = "commit"
    /\ staged[c] \subseteq FirstBinding(script[c]) \cup verdict[c].rows
    /\ verdict[c].rows \subseteq staged[c]
    /\ Ready(store, script[c], c, verdict[c].rows)
    /\ Apart(store, staged[c])

LEMMA CommitIsRight ==
  ASSUME EntryInv, NEW c \in Calls, pc[c] = "commit"
  PROVE  Committing(c)
<1>1. CallOk(store, script[c], c, pc[c], held[c], view[c], staged[c], verdict[c])
  BY DEF EntryInv
<1> QED
  BY <1>1 DEF CallOk, StagedRight, Committing, Decided

LEMMA CommitIsWhole ==
  ASSUME EntryInv, NEW c \in Calls, pc[c] = "commit"
  PROVE  Whole(store \cup staged[c])
<1> DEFINE q == script[c]
           rows == verdict[c].rows
           One == store \cup (staged[c] \cap FirstBinding(q))
<1>1. CallOk(store, q, c, pc[c], held[c], view[c], staged[c], verdict[c])
  BY DEF EntryInv
<1>2. /\ staged[c] \subseteq FirstBinding(q) \cup rows /\ rows \subseteq staged[c]
      /\ Ready(store, q, c, rows) /\ Apart(store, staged[c])
  BY CommitIsRight DEF Committing
<1>3. Whole(store) /\ c # None
  BY CallAssumption DEF EntryInv, None
<1> HIDE DEF rows, q
<1>4. Apart(store, rows) /\ \A row \in rows : row.table # "binding"
  BY <1>2, ApartFromLess, ReadyAddsNoBinding
<1>5. store \cup staged[c] = One \cup rows
  BY <1>2
<1>6. CASE q.op # "create"
  <2>1. One = store
    BY <1>6 DEF FirstBinding
  <2>2. q.op = "confirm" => Unheld(store, q.char)
    BY <1>1 DEF CallOk
  <2> HIDE DEF One
  <2> QED
    BY <1>2, <1>3, <1>4, <1>5, <1>6, <2>1, <2>2, ReadyGrows
<1>7. CASE q.op = "create"
  <2>1. FirstBinding(q) = {Binding(q.who)} /\ Binding(q.who).table = "binding"
    BY <1>7 DEF FirstBinding, Binding
  <2>2. Binding(q.who) \in store \cup staged[c]
    BY <1>1, <1>7 DEF CallOk, StagedRight, Locked
  <2>3. Whole(One) /\ Binding(q.who) \in One
    <3>1. CASE Binding(q.who) \in staged[c]
      <4>1. One = store \cup {Binding(q.who)}
        BY <2>1, <3>1
      <4>2. Apart(store, {Binding(q.who)})
        BY <1>2, <3>1 DEF Apart
      <4> QED
        BY <1>3, <4>1, <4>2, AddOwner
    <3>2. CASE Binding(q.who) \notin staged[c]
      <4>1. One = store
        BY <2>1, <3>2
      <4> QED
        BY <1>3, <2>2, <3>2, <4>1
    <3> QED
      BY <3>1, <3>2
  <2>4. Apart(One, rows)
    BY <1>4, <2>1 DEF Apart, SameKey
  <2>5. Ready(One, q, c, rows)
    BY <1>2, <1>7 DEF Ready
  <2> HIDE DEF One
  <2> QED
    BY <1>3, <1>5, <1>7, <2>3, <2>4, <2>5, ReadyGrows
<1> QED
  BY <1>6, <1>7

LEMMA QuietWithBinding ==
  ASSUME NEW S, NEW rows, NEW x, Aside(S, rows, x), NEW more, rows \subseteq more,
         \A row \in more : row \in rows \/ row.table = "binding"
  PROVE  Quiet(S, S \cup more, x)
<1>1. Aside(S, more, x)
  BY DEF Aside
<1> QED
  BY <1>1, AsideIsQuiet

LEMMA CommitLeavesOthers ==
  ASSUME EntryInv, NEW c \in Calls, pc[c] = "commit", NEW d \in Calls, d # c
  PROVE  CallOk(store \cup staged[c], script[d], d, pc[d], held[d], view[d], staged[d], verdict[d])
<1> DEFINE q == script[c]
           other == script[d]
           T == store \cup staged[c]
           rows == verdict[c].rows
<1>1. /\ CallOk(store, q, c, pc[c], held[c], view[c], staged[c], verdict[c])
      /\ CallOk(store, other, d, pc[d], held[d], view[d], staged[d], verdict[d])
      /\ OneHolder(held[c], held[d]) /\ Apart(staged[c], staged[d]) /\ Whole(store)
  BY DEF EntryInv
<1>2. /\ staged[c] \subseteq FirstBinding(q) \cup rows /\ rows \subseteq staged[c]
      /\ Ready(store, q, c, rows) /\ Apart(store, staged[c])
  BY CommitIsRight DEF Committing
<1>3. /\ OnCharacter(q) /\ q.op # "exit" => <<"character", q.char>> \in held[c]
      /\ q.op \in {"bind", "attach", "exit"} => <<"run", q.run>> \in held[c]
  BY <1>1 DEF CallOk, LocksHeld, Locked, Decided
<1> HIDE DEF q, other, rows
<1>4. Apart(store, rows) /\ \A row \in staged[c] : row \in rows \/ row.table = "binding"
  BY <1>2, ApartFromLess DEF FirstBinding, Binding
<1>5. ASSUME Locked(pc[d]), OnCharacter(other), other.op # "exit"
      PROVE  Quiet(store, T, other.char)
  <2>1. /\ <<"character", other.char>> \in held[d]
        /\ \E m \in store : m.table = "revision" /\ m.char = other.char
    BY <1>1, <1>5 DEF CallOk, LocksHeld
  <2>2. OnCharacter(q) /\ q.op # "exit" => q.char # other.char
    BY <1>1, <1>3, <2>1 DEF OneHolder
  <2>3. Aside(store, rows, other.char)
    BY <1>1, <1>2, <1>4, <2>1, <2>2, ReadyIsAside
  <2> QED
    BY <1>2, <1>4, <2>3, QuietWithBinding
<1>6. ASSUME Decided(pc[d]), other.op \in {"bind", "attach", "exit"}
      PROVE  QuietRun(store, T, other.run)
  <2>1. <<"run", other.run>> \in held[d]
    BY <1>1, <1>6 DEF CallOk, LocksHeld
  <2>2. q.op \in {"bind", "attach", "exit"} => q.run # other.run
    BY <1>1, <1>3, <2>1 DEF OneHolder
  <2>3. \E m \in store : m.table = "run" /\ m.run = other.run
    <3>1. Ready(store, other, d, verdict[d].rows)
      BY <1>1, <1>6 DEF CallOk
    <3> QED
      BY <3>1, <1>6 DEF Ready, BindReady, AttachReady, ExitReady, LatestRun
  <2>4. \A row \in rows : row.table = "run" => row.run # other.run
    BY <1>1, <1>2, <1>4, <2>2, <2>3, ReadyLeavesRuns
  <2> QED
    BY <1>4, <2>4 DEF QuietRun
<1>7. Decided(pc[d]) => Ready(T, other, d, verdict[d].rows)
  <2>1. Decided(pc[d]) => Locked(pc[d]) /\ Ready(store, other, d, verdict[d].rows)
    BY <1>1 DEF CallOk, Decided, Locked
  <2> QED
    BY <2>1, <1>5, <1>6, ReadyKept
<1>8. other.op = "confirm" /\ pc[d] = "commit" => Unheld(T, other.char)
  <2>1. other.op = "confirm" /\ pc[d] = "commit" =>
            Locked(pc[d]) /\ OnCharacter(other) /\ Unheld(store, other.char)
    BY <1>1 DEF CallOk, Locked, OnCharacter
  <2> QED
    BY <2>1, <1>5 DEF Quiet
<1>9. Apart(T, staged[d])
  BY <1>1, ApartFromMore DEF CallOk, StagedRight
<1>10. LocksHeld(T, other, pc[d], held[d])
  BY <1>1 DEF CallOk, LocksHeld
<1>11. StagedRight(T, other, pc[d], staged[d], verdict[d])
  BY <1>1, <1>9 DEF CallOk, StagedRight
<1>12. OfferFound(store, other) => OfferFound(T, other)
  BY DEF OfferFound, Table
<1> HIDE DEF T
<1>13. CallOk(T, other, d, pc[d], held[d], view[d], staged[d], verdict[d])
  BY <1>1, <1>7, <1>8, <1>10, <1>11, <1>12 DEF CallOk
<1> QED
  BY <1>13 DEF T, other

LEMMA CommitKeeps ==
  ASSUME EntryInv, NEW c \in Calls, pc[c] = "commit", NEW code, NEW result, End(c, code, result),
         script' = script, store' = store \cup staged[c]
  PROVE  EntryInv'
<1>1. OnlyCall(c) /\ FitsIn(c)
  BY EndFits
<1>2. Whole(store')
  BY CommitIsWhole
<1>3. \A d \in Calls : d # c =>
          CallOk(store', script[d], d, pc[d], held[d], view[d], staged[d], verdict[d])
  BY CommitLeavesOthers
<1> QED
  BY <1>1, <1>2, <1>3, StepKeeps

LEMMA NextHolds ==
  ASSUME EntryInv, [Next]_vars
  PROVE  EntryInv'
<1>1. CASE UNCHANGED vars
  BY <1>1 DEF vars, EntryInv
<1>2. ASSUME NEW c \in Calls, Step(c) PROVE EntryInv'
  <2>1. CASE Target(c)
    <3>1. CASE ExitVerdict(store, script[c]).code = "RUN_NOT_FOUND"
      BY <2>1, <3>1, EndKeeps DEF Target
    <3>2. CASE ExitVerdict(store, script[c]).code # "RUN_NOT_FOUND"
      <4> DEFINE q == script[c]
      <4>1. /\ pc[c] = "target" /\ pc'[c] = "gate" /\ held'[c] = held[c] /\ view'[c] = view[c]
            /\ staged'[c] = staged[c] /\ verdict'[c] = verdict[c] /\ store' = store
        BY <2>1, <3>2 DEF Target, Go, EntryInv
      <4>2. OnlyCall(c)
        BY <2>1, <3>2 DEF Target, Go, EntryInv, OnlyCall
      <4>3. CallOk(store, q, c, pc[c], held[c], view[c], staged[c], verdict[c])
        BY DEF EntryInv
      <4> HIDE DEF q
      <4>4. staged[c] = {}
        BY <4>1, <4>3 DEF CallOk, StagedRight, Locked
      <4>5. LocksHeld(store', q, pc'[c], held'[c])
        BY <4>1 DEF LocksHeld, Locked, Decided
      <4>6. StagedRight(store', q, pc'[c], staged'[c], verdict'[c])
        BY <4>1, <4>4 DEF StagedRight, Locked, Apart
      <4>7. CallOk(store', q, c, pc'[c], held'[c], view'[c], staged'[c], verdict'[c])
        BY <4>1, <4>3, <4>5, <4>6 DEF CallOk, Locked, Decided
      <4>8. \A d \in Calls : d # c => OneHolder(held'[c], held[d]) /\ Apart(staged'[c], staged[d])
        BY <4>1 DEF EntryInv
      <4> QED
        BY <4>1, <4>2, <4>7, <4>8, QuietStepKeeps DEF FitsIn, q
    <3> QED
      BY <3>1, <3>2
  <2>2. CASE GateTimeout(c)
    BY <2>2, EndKeeps DEF GateTimeout
  <2>3. CASE Recover(c)
    BY <2>3, EndKeeps DEF Recover
  <2>4. CASE Commit(c)
    BY <2>4, CommitKeeps DEF Commit
  <2> QED
    BY <1>2, <2>1, <2>2, <2>3, <2>4, GateKeeps, PeekKeeps, LockKeeps, AddBindingKeeps, DecideKeeps,
       WriteKeeps, ClashKeeps DEF Step
<1>3. ASSUME NEW c \in Calls, CommitUnknown(c) PROVE EntryInv'
  <2>1. /\ pc[c] = "commit" /\ End(c, "OUTCOME_UNKNOWN", <<>>) /\ script' = script
        /\ (store' = store \/ store' = store \cup staged[c])
    BY <1>3 DEF CommitUnknown
  <2> QED
    BY <2>1, EndKeeps, CommitKeeps
<1>4. ASSUME NEW c \in Calls, Fault(c) PROVE EntryInv'
  BY <1>4, EndKeeps DEF Fault
<1> QED
  BY <1>1, <1>2, <1>3, <1>4 DEF Next, Finished

\* Whatever calls run together, whatever fails, and in whatever order: the
\* tables stay whole and every call that is about to commit is sound.
THEOREM EntryInvariant == Spec => []EntryInv
<1>1. Init => EntryInv
  BY InitHolds
<1>2. EntryInv /\ [Next]_vars => EntryInv'
  BY NextHolds
<1> QED
  BY <1>1, <1>2, PTL DEF Spec

\* No committed row ever makes a repository read fail closed.
THEOREM NothingEverFailsClosed == Spec => []NothingFailsClosed
<1>1. EntryInv => NothingFailsClosed
  BY WholeFailsNowhere DEF EntryInv, NothingFailsClosed
<1> QED
  BY <1>1, EntryInvariant, PTL

\* A character that an active run holds is alive, as it was bound, and spoken
\* for once.
THEOREM CharactersAreSpokenFor == Spec => []CharacterIsSpokenFor
<1>1. ASSUME Whole(store) PROVE CharacterIsSpokenFor
  <2>1. SUFFICES ASSUME NEW row \in store, row.table = "revision",
                        NEW r \in ActiveRuns(store, row.char)
                 PROVE  /\ Character(store, row.char).life = "ACTIVE"
                        /\ Character(store, row.char).rev = Run(store, r).rev
                        /\ PendingOffer(store, row.char) => Run(store, r).op.family = "internal"
    BY DEF CharacterIsSpokenFor, Table
  <2> QED
    BY <2>1, <1>1, WholeIsSpokenFor
<1>2. EntryInv => CharacterIsSpokenFor
  BY <1>1 DEF EntryInv
<1> QED
  BY <1>2, EntryInvariant, PTL

-----------------------------------------------------------------------------
(* What a step may do to the tables                                        *)

\* A step of a call that commits, or one that leaves the tables alone.
Writes(c) ==
    \/ store' = store
    \/ pc[c] = "commit" /\ pc'[c] = "done" /\ store' = store \cup staged[c]

LEMMA StepIsOwn ==
  ASSUME EntryInv, NEW c \in Calls, Step(c) \/ CommitUnknown(c) \/ Fault(c)
  PROVE  OnlyCall(c) /\ pc[c] # "done" /\ Writes(c)
<1>1. ASSUME NEW code, NEW result, End(c, code, result), script' = script
      PROVE  OnlyCall(c) /\ pc'[c] = "done"
  BY <1>1 DEF End, OnlyCall, EntryInv
<1>2. CASE Target(c)
  <2>1. OnlyCall(c)
    BY <1>1, <1>2 DEF Target, Go, OnlyCall, EntryInv
  <2> QED
    BY <2>1, <1>2 DEF Target, Writes
<1>3. CASE Gate(c)
  BY <1>3 DEF Gate, Go, OnlyCall, Writes, EntryInv
<1>4. CASE GateTimeout(c)
  BY <1>1, <1>4 DEF GateTimeout, Writes
<1>5. CASE Peek(c)
  <2>1. OnlyCall(c)
    BY <1>1, <1>5 DEF Peek, Go, OnlyCall, EntryInv
  <2> QED
    BY <2>1, <1>5 DEF Peek, Writes
<1>6. CASE Lock(c)
  <2>1. OnlyCall(c)
    BY <1>1, <1>6 DEF Lock, Go, OnlyCall, EntryInv
  <2> QED
    BY <2>1, <1>6 DEF Lock, Writes
<1>7. CASE AddBinding(c)
  <2>1. OnlyCall(c)
    BY <1>7 DEF AddBinding, Go, OnlyCall, EntryInv
  <2> QED
    BY <2>1, <1>7 DEF AddBinding, Writes
<1>8. CASE Decide(c)
  <2>1. OnlyCall(c)
    BY <1>1, <1>8 DEF Decide, Go, OnlyCall, EntryInv
  <2> QED
    BY <2>1, <1>8 DEF Decide, Writes
<1>9. CASE Write(c)
  BY <1>9 DEF Write, Go, OnlyCall, Writes, EntryInv
<1>10. CASE Clash(c)
  <2>1. OnlyCall(c)
    BY <1>1, <1>10 DEF Clash, Go, OnlyCall, EntryInv
  <2> QED
    BY <2>1, <1>10 DEF Clash, Writes
<1>11. CASE Recover(c)
  BY <1>1, <1>11 DEF Recover, Writes
<1>12. CASE Commit(c)
  BY <1>1, <1>12 DEF Commit, Writes
<1>13. CASE CommitUnknown(c)
  BY <1>1, <1>13 DEF CommitUnknown, Writes
<1>14. CASE Fault(c)
  BY <1>1, <1>14 DEF Fault, Writes
<1> QED
  BY <1>2, <1>3, <1>4, <1>5, <1>6, <1>7, <1>8, <1>9, <1>10, <1>11, <1>12, <1>13, <1>14 DEF Step

-----------------------------------------------------------------------------
(* Listed characters                                                       *)

\* What was stored was asked for: under no key that is still free, for no
\* opening but a confirmed one; and an opening can be confirmed as it is.
AskedFor(S) ==
    /\ \A row \in S : row.table \in {"run_creation", "session"} =>
          /\ row.op.key # "fresh"
          /\ row.op.family = "native" /\ row.op.offer # None =>
                \E done \in S : done.table = "confirmation" /\ done.offer = row.op.offer
    /\ \A offer \in S : offer.table = "offer" =>
          offer.rev = 1 /\ offer.world \in Worlds /\ offer.offer # None

LEMMA LivingIsFirst ==
  ASSUME NEW S, Whole(S), NEW x, NEW rev, Startable(S, x, rev)
  PROVE  rev = 1
<1>1. PICK m \in S : m.table = "revision" /\ m.life = "ACTIVE" /\ m.rev = rev
  BY DEF Startable, Latest
<1>2. RevisionWhole(S, m)
  BY <1>1 DEF Whole, CharactersWhole
<1>3. SUFFICES ASSUME m.rev > 1 PROVE FALSE
  BY <1>1, <1>2, <1>3 DEF RevisionWhole
<1>4. PICK before \in S, receipt \in S : LawfulStep(before, m, receipt)
  BY <1>2, <1>3 DEF RevisionWhole
<1> QED
  BY <1>1, <1>4 DEF LawfulStep, Policy, Successor

LEMMA EntryAsked ==
  ASSUME NEW op, NEW q, NEW r
  PROVE  \A row \in EntryRows(op, q, r, r) :
            /\ row.table # "offer"
            /\ row.table \in {"run_creation", "session"} => row.op = op
  BY DEF EntryRows, EntryCreation, EntryBinding, EntryActivation, Session, RunRow, RunCreation,
         Admission, RunReceipt, Participation

LEMMA AskedGrows ==
  ASSUME NEW S, Whole(S), AskedFor(S), NEW q, q.op \in Operations, q.key # "fresh",
         NEW c, c # None, NEW rows, Ready(S, q, c, rows),
         NEW more, more \subseteq FirstBinding(q) \cup rows, rows \subseteq more
  PROVE  AskedFor(S \cup more)
<1> DEFINE Fine(row) ==
          /\ row.table \in {"run_creation", "session"} =>
                /\ row.op.key # "fresh"
                /\ row.op.family = "native" /\ row.op.offer # None =>
                      \E done \in rows : done.table = "confirmation" /\ done.offer = row.op.offer
          /\ row.table = "offer" => row.rev = 1 /\ row.world \in Worlds /\ row.offer # None
<1>0. Op(q).key = q.key /\ Op(q).offer = q.offer
      /\ (Op(q).family = "native" => q.op \in {"admit", "prepare", "confirm"})
  BY DEF Op
<1>1. CASE q.op = "create" /\ rows = CreationRows(q, c)
  <2>1. \A row \in rows : Fine(row)
    BY <1>1 DEF CreationRows, Revision, CreationReceipt
  <2> QED
    BY <2>1 DEF AskedFor, FirstBinding, Binding
<1>2. CASE q.op = "mutate" /\ MutateReady(S, q, rows)
  <2>1. \A row \in rows : Fine(row)
    BY <1>2 DEF MutateReady, MutationRows, Revision, MutationReceipt
  <2> QED
    BY <2>1, <1>2 DEF AskedFor, FirstBinding
<1>3. CASE q.op \in {"enter", "admit"} /\ EnterReady(S, q, c, rows)
  <2>1. \A row \in rows : row.table # "offer" /\ (row.table \in {"run_creation", "session"} => row.op = Op(q))
    BY <1>3, EntryAsked DEF EnterReady
  <2>2. Op(q).family = "native" => q.offer = None
    BY <1>0, <1>3 DEF EnterReady
  <2> QED
    BY <2>1, <2>2, <1>0, <1>3 DEF AskedFor, FirstBinding
<1>4. CASE q.op = "prepare" /\ PrepareReady(S, q, c, rows)
  <2>1. q.rev = 1 /\ q.world \in Worlds
    BY <1>4, LivingIsFirst DEF PrepareReady
  <2>2. \A row \in rows : Fine(row)
    BY <2>1, <1>4 DEF PrepareReady, OfferRow
  <2> QED
    BY <2>2, <1>4 DEF AskedFor, FirstBinding
<1>5. CASE q.op = "confirm" /\ ConfirmReady(S, q, c, rows)
  <2>1. PICK offer \in S :
            rows = EntryRows(FrozenOp(offer), offer, c, c) \cup {Confirmation(offer, q.pick, c)}
    BY <1>5 DEF ConfirmReady
  <2>2. /\ FrozenOp(offer).key = "opening" /\ FrozenOp(offer).offer = offer.offer
        /\ Confirmation(offer, q.pick, c).table = "confirmation"
        /\ Confirmation(offer, q.pick, c).offer = offer.offer
    BY DEF FrozenOp, Confirmation
  <2>3. \A row \in EntryRows(FrozenOp(offer), offer, c, c) :
            row.table # "offer" /\ (row.table \in {"run_creation", "session"} => row.op = FrozenOp(offer))
    BY EntryAsked
  <2>4. \A row \in rows : Fine(row)
    BY <2>1, <2>2, <2>3
  <2> QED
    BY <2>4, <1>5 DEF AskedFor, FirstBinding
<1>6. CASE q.op = "create_run" /\ rows = RunMade(Op(q), c, None, None, None)
  <2>1. \A row \in rows : Fine(row)
    BY <1>0, <1>6 DEF RunMade, RunRow, RunCreation
  <2> QED
    BY <2>1, <1>6 DEF AskedFor, FirstBinding
<1>7. CASE q.op = "bind" /\ BindReady(S, q, rows)
  <2>1. \A row \in rows : Fine(row)
    BY <1>7 DEF BindReady, RunRow, RunReceipt
  <2> QED
    BY <2>1, <1>7 DEF AskedFor, FirstBinding
<1>8. CASE q.op = "attach" /\ AttachReady(S, q, rows)
  <2>1. \A row \in rows : Fine(row)
    BY <1>8 DEF AttachReady, RunRow, RunReceipt, Participation
  <2> QED
    BY <2>1, <1>8 DEF AskedFor, FirstBinding
<1>9. CASE q.op = "exit" /\ ExitReady(S, q, rows)
  <2>1. \A row \in rows : Fine(row)
    BY <1>9 DEF ExitReady, RunRow, RunReceipt
  <2> QED
    BY <2>1, <1>9 DEF AskedFor, FirstBinding
<1>10. CASE q.op = "create_session" /\ rows = {Session(c, Op(q), q.body)}
  <2>1. \A row \in rows : Fine(row)
    BY <1>0, <1>10 DEF Session
  <2> QED
    BY <2>1, <1>10 DEF AskedFor, FirstBinding
<1> QED
  BY <1>1, <1>2, <1>3, <1>4, <1>5, <1>6, <1>7, <1>8, <1>9, <1>10 DEF Ready

LEMMA AskedKept ==
  ASSUME EntryInv, AskedFor(store), [Next]_vars
  PROVE  AskedFor(store)'
<1>1. CASE store' = store
  BY <1>1 DEF AskedFor
<1>2. ASSUME NEW c \in Calls, Step(c) \/ CommitUnknown(c) \/ Fault(c) PROVE AskedFor(store)'
  <2>1. CASE pc[c] = "commit" /\ store' = store \cup staged[c]
    <3>1. /\ staged[c] \subseteq FirstBinding(script[c]) \cup verdict[c].rows
          /\ verdict[c].rows \subseteq staged[c]
          /\ Ready(store, script[c], c, verdict[c].rows)
      BY <2>1, CommitIsRight DEF Committing
    <3>2. script[c].op \in Operations /\ script[c].key # "fresh" /\ Whole(store)
      BY ScriptAssumption DEF EntryInv
    <3>3. c # None
      BY CallAssumption DEF None
    <3>4. AskedFor(store \cup staged[c])
      BY <3>1, <3>2, <3>3, AskedGrows
    <3> QED
      BY <2>1, <3>4 DEF AskedFor
  <2> QED
    BY <1>1, <1>2, <2>1, StepIsOwn DEF Writes
<1> QED
  BY <1>1, <1>2 DEF Next, Finished, vars

\* What is listed can start.
LEMMA ListedCanEnter ==
  ASSUME NEW S, Whole(S), AskedFor(S), NEW x, Revisions(S, x) # {}, NEW who,
         who = Character(S, x).who, Character(S, x).life = "ACTIVE", ActiveRuns(S, x) = {},
         ~PendingOffer(S, x), NEW world \in Worlds, NEW q,
         q = [op |-> "admit", who |-> who, key |-> "fresh", offer |-> None, char |-> x,
              rev |-> Character(S, x).rev, world |-> world]
  PROVE  EnterVerdict(S, S, q, None, None).code = "ok"
<1>1. /\ q.op = "admit" /\ q.offer = None /\ q.char = x /\ q.who = who /\ q.world \in Worlds
      /\ q.rev = Character(S, x).rev /\ Op(q).key = "fresh"
  BY DEF Op
<1>2. Owned(S, q)
  BY <1>1 DEF Owned
<1>3. RunCreations(S, Op(q)) = {} /\ SessionsOf(S, Op(q)) = {}
  BY <1>1 DEF AskedFor, RunCreations, SessionsOf, Table
<1>4. Startable(S, x, q.rev)
  BY <1>1, <1>2, OwnedHasLatest DEF Startable
<1>5. q.rev # MaxRevision
  BY <1>4, LivingIsFirst, RevisionAssumption
<1>6. ActiveRunsNamed(S, S, x) = {}
  BY DEF ActiveRunsNamed
<1>7. EnterVerdict(S, S, q, None, None) = EntryStage(S, S, Op(q), q, None, None)
  BY <1>1, <1>2, <1>3 DEF EnterVerdict
<1>8. EntryStage(S, S, Op(q), q, None, None).code = "ok"
  BY <1>1, <1>3, <1>5, <1>6 DEF EntryStage, Apply
<1> QED
  BY <1>7, <1>8

LEMMA WaitingCanConfirm ==
  ASSUME NEW S, Whole(S), AskedFor(S), NEW x, Revisions(S, x) # {}, NEW who,
         who = Character(S, x).who, Character(S, x).life = "ACTIVE", ActiveRuns(S, x) = {},
         PendingOffer(S, x), NEW pick \in LegalPicks, NEW q,
         q = [op |-> "confirm", who |-> who, char |-> x, pick |-> pick,
              offer |-> LatestOffer(S, x).offer]
  PROVE  ConfirmVerdict(S, S, q, None, None).code = "ok"
<1> DEFINE offer == CHOOSE row \in Table(S, "offer") : row.offer = q.offer
           last == LatestOffer(S, x)
           op == FrozenOp(offer)
           stage == EntryStage(S, S, op, offer, None, None)
<1>1. q.char = x /\ q.who = who /\ q.pick \in LegalPicks /\ q.offer = last.offer
  OBVIOUS
<1>2. Owned(S, q)
  BY <1>1 DEF Owned
<1>3. /\ last \in S /\ last.table = "offer" /\ last.char = x
      /\ Confirmations(S, q.offer) = {}
  BY <1>1, LatestOfferIsLast DEF PendingOffer, IsLastOffer
<1>4. offer \in Table(S, "offer") /\ offer.offer = q.offer
  BY <1>1, <1>3 DEF Table
<1>5. offer = last
  BY <1>1, <1>3, <1>4 DEF Whole, UniqueRows, SameKey, Table
<1> HIDE DEF offer, last
<1>6. /\ offer.rev = 1 /\ offer.world \in Worlds /\ offer.offer # None
      /\ offer.char = x
  BY <1>3, <1>5 DEF AskedFor
<1>7. Startable(S, x, Character(S, x).rev)
  BY <1>1, <1>2, OwnedHasLatest DEF Startable
<1>8. Character(S, x).rev = 1 /\ MaxRevision # 1
  BY <1>7, LivingIsFirst, RevisionAssumption
<1>9. ActiveRunsNamed(S, S, x) = {}
  BY DEF ActiveRunsNamed
<1>10. SessionsOf(S, op) = {}
  <2>1. op.family = "native" /\ op.offer = q.offer /\ op.offer # None
    BY <1>4, <1>6 DEF FrozenOp
  <2> HIDE DEF op
  <2>2. \A done \in S : done.table = "confirmation" => done.offer # q.offer
    BY <1>3 DEF Confirmations, Table
  <2> QED
    BY <2>1, <2>2 DEF AskedFor, SessionsOf, Table
<1>11. stage.code = "ok"
  BY <1>6, <1>8, <1>9, <1>10 DEF EntryStage, Apply
<1>12. LatestOffer(S, q.char).offer = q.offer
  BY <1>1 DEF last
<1> QED
  BY <1>1, <1>2, <1>3, <1>11, <1>12 DEF ConfirmVerdict, Apply, offer

LEMMA ListedStarts ==
  ASSUME Whole(store), AskedFor(store)
  PROVE  ListedCanStart
<1>1. SUFFICES ASSUME NEW x \in {row.char : row \in Table(store, "revision")},
                      x \in Listed(store, Character(store, x).who)
               PROVE  \E world \in Worlds, pick \in LegalPicks :
                \/ EnterVerdict(store, store, FreshEntry(Character(store, x).who, x, world), None, None).code = "ok"
                \/ /\ PendingOffer(store, x)
                   /\ ConfirmVerdict(store, store,
                         [op |-> "confirm", who |-> Character(store, x).who, char |-> x, pick |-> pick,
                          offer |-> LatestOffer(store, x).offer], None, None).code = "ok"
  BY DEF ListedCanStart
<1>2. /\ Character(store, x).life = "ACTIVE" /\ ActiveRuns(store, x) = {}
      /\ Revisions(store, x) # {}
  BY <1>1 DEF Listed, Revisions
<1>3. PICK world \in Worlds, pick \in LegalPicks : TRUE
  BY ContentAssumption
<1>4. CASE PendingOffer(store, x)
  BY <1>2, <1>3, <1>4, WaitingCanConfirm
<1>5. CASE ~PendingOffer(store, x)
  BY <1>2, <1>3, <1>5, ListedCanEnter DEF FreshEntry
<1> QED
  BY <1>4, <1>5

\* A character that is listed for entry can start: with nobody else at work, an
\* entry into any of the worlds is accepted, or its waiting opening is confirmed
\* with any legal pick.
THEOREM ListedAlwaysStarts == Spec => []ListedCanStart
<1>1. Init => AskedFor(store)
  BY SeedAssumption DEF Init, AskedFor
<1>2. EntryInv /\ AskedFor(store) /\ [Next]_vars => AskedFor(store)'
  BY AskedKept
<1>3. EntryInv /\ AskedFor(store) => ListedCanStart
  BY ListedStarts DEF EntryInv
<1> QED
  BY <1>1, <1>2, <1>3, EntryInvariant, PTL DEF Spec

-----------------------------------------------------------------------------
(* Answers                                                                 *)

\* The row that records the answer to a call.
Record(q, told, row) ==
    \/ /\ q.op = "create" /\ row.table = "creation_receipt"
       /\ row.who = q.who /\ row.key = q.key /\ row.char = told[2] /\ row.body = q.body
    \/ /\ q.op = "mutate" /\ row.table = "mutation_receipt"
       /\ row.char = q.char /\ row.key = q.key
       /\ row.rev = told[3] /\ row.life = told[4] /\ row.kind = q.kind
    \/ /\ q.op \in {"enter", "admit"} /\ row.table = "run_creation"
       /\ row.op = Op(q) /\ row.run = told[2] /\ SameEntry(row, q)
    \/ /\ q.op = "prepare" /\ row.table = "offer"
       /\ row.who = q.who /\ row.key = q.key /\ row.char = q.char /\ row.offer = told[2]
    \/ /\ q.op = "confirm" /\ row.table = "confirmation"
       /\ row.offer = q.offer /\ row.run = told[3] /\ row.pick = q.pick
    \/ /\ q.op = "create_run" /\ row.table = "run_creation"
       /\ row.op = Op(q) /\ row.run = told[2]
    \/ /\ q.op = "bind" /\ row.table = "run_receipt" /\ row.run = q.run /\ row.kind = "BIND"
       /\ row.op = Op(q) /\ row.version = told[3] /\ row.subject = q.char
    \/ /\ q.op = "attach" /\ row.table = "run_receipt" /\ row.run = q.run /\ row.kind = "ATTACH"
       /\ row.op = Op(q) /\ row.version = told[3] /\ row.subject = q.session
    \/ q.op = "exit" /\ row.table = "run" /\ row.run = q.run /\ row.status = "TERMINATED"
    \/ /\ q.op = "create_session" /\ row.table = "session"
       /\ row.op = Op(q) /\ row.session = told[2] /\ row.body = q.body

\* A preparation may be answered with an opening that somebody else asked for;
\* one of its own then comes later.
OthersOffer(S, q, told) ==
    /\ q.op = "prepare"
    /\ \E row \in S : row.table = "offer" /\ row.char = q.char /\ row.offer = told[2]
    /\ \A row \in S :
          row.table = "offer" /\ row.who = q.who /\ row.key = q.key /\ row.char = q.char =>
             row.offer = told[2] \/ row.ordinal > 1

OnRecord(S, q, told) == (\E row \in S : Record(q, told, row)) \/ OthersOffer(S, q, told)

\* A native run was active from the transaction that made it.
Started(S) ==
    \A m \in S : m.table = "run" /\ m.op.family = "native" =>
        \E a \in S : a.table = "run" /\ a.run = m.run /\ a.status = "ACTIVE"

\* What was answered is on record; what is about to be committed is the record
\* of its answer; who recovers has lost to a row of its own key; and who exits
\* has found an active run, so that it knows the character to lock.
AnswerOk(S, q, p, a, vd) ==
    /\ a.code = "ok" => OnRecord(S, q, a.result)
    /\ Decided(p) => \E row \in vd.rows : Record(q, vd.result, row)
    /\ p = "recover" => /\ q.op \in {"create", "mutate", "admit", "create_session"}
                        /\ q.op = "create_session" => SessionsOf(S, Op(q)) # {}
    /\ q.op = "exit" /\ p \in {"gate", "lock"} =>
          \E a0 \in S : a0.table = "run" /\ a0.run = q.run /\ a0.status = "ACTIVE"

\* With what else makes it inductive: a session is named by a call that is over.
AnswerInv ==
    /\ \A c \in Calls : AnswerOk(store, script[c], pc[c], answer[c], verdict[c])
    /\ Started(store)
    /\ \A row \in store : row.table = "session" => row.session \in Calls /\ pc[row.session] = "done"

\* What is on record stays on record.
LEMMA OnRecordGrows ==
  ASSUME NEW S, NEW T, Whole(S), Whole(T), S \subseteq T, NEW q, NEW told, OnRecord(S, q, told)
  PROVE  OnRecord(T, q, told)
<1>1. CASE \E row \in S : Record(q, told, row)
  BY <1>1 DEF OnRecord
<1>2. CASE OthersOffer(S, q, told)
  <2>1. PICK offer \in S : offer.table = "offer" /\ offer.char = q.char /\ offer.offer = told[2]
    BY <1>2 DEF OthersOffer
  <2>2. PICK first \in S : first.table = "offer" /\ first.char = q.char /\ first.ordinal = 1
    BY <2>1 DEF Whole, OpeningsWhole, OfferWhole
  <2>3. ASSUME NEW row \in T, row.table = "offer", row.who = q.who, row.key = q.key, row.char = q.char
        PROVE  row.offer = told[2] \/ row.ordinal > 1
    <3>1. row.ordinal \in Nat \ {0}
      BY <2>3 DEF Whole, OpeningsWhole, OfferWhole
    <3>2. row.ordinal = 1 => row = first
      BY <2>2, <2>3 DEF Whole, UniqueRows, SameKey
    <3>3. row \in S => row.offer = told[2] \/ row.ordinal > 1
      BY <1>2, <2>3 DEF OthersOffer
    <3> QED
      BY <3>1, <3>2, <3>3, <2>2
  <2>4. OthersOffer(T, q, told)
    BY <1>2, <2>1, <2>3 DEF OthersOffer
  <2> QED
    BY <2>4 DEF OnRecord
<1> QED
  BY <1>1, <1>2 DEF OnRecord

\* A replay tells what is recorded.
LEMMA CreateReplayed ==
  ASSUME NEW S, NEW q, q.op = "create", CreationReceipts(S, q) # {},
         NEW vd, vd = CreateReuse(q, CHOOSE row \in CreationReceipts(S, q) : TRUE)
  PROVE  vd.rows = {} /\ (vd.code = "ok" => OnRecord(S, q, vd.result))
<1> DEFINE receipt == CHOOSE row \in CreationReceipts(S, q) : TRUE
<1>1. receipt \in S /\ receipt.table = "creation_receipt" /\ receipt.who = q.who /\ receipt.key = q.key
  BY DEF CreationReceipts, Table
<1> HIDE DEF receipt
<1>2. vd = CreateReuse(q, receipt)
  BY DEF receipt
<1>3. vd.rows = {} /\ (vd.code = "ok" => Record(q, vd.result, receipt))
  BY <1>1, <1>2 DEF CreateReuse, Refuse, Answer, Record
<1> QED
  BY <1>1, <1>3 DEF OnRecord

LEMMA MutateReplayed ==
  ASSUME NEW S, NEW q, q.op = "mutate", MutationReceipts(S, q) # {}, Owned(S, q),
         NEW vd, vd = MutateVerdict(S, S, q)
  PROVE  vd.rows = {} /\ (vd.code = "ok" => OnRecord(S, q, vd.result))
<1> DEFINE receipt == CHOOSE row \in MutationReceipts(S, q) : TRUE
<1>1. receipt \in S /\ receipt.table = "mutation_receipt" /\ receipt.char = q.char /\ receipt.key = q.key
  BY DEF MutationReceipts, Table
<1> HIDE DEF receipt
<1>2. vd = Refuse("REVISION_EXHAUSTED") \/ vd = MutateReuse(Character(S, q.char), q, receipt)
  BY DEF receipt, MutateVerdict
<1>3. vd.rows = {} /\ (vd.code = "ok" => Record(q, vd.result, receipt))
  BY <1>1, <1>2 DEF MutateReuse, Refuse, Answer, Record
<1> QED
  BY <1>1, <1>3 DEF OnRecord

LEMMA ReplayResult ==
  ASSUME NEW S, NEW op, NEW q, NEW receipt, NEW vd, vd = EntryReplay(S, op, q, receipt)
  PROVE  vd.rows = {} /\ (vd.code = "ok" => SameEntry(receipt, q) /\ vd.result[2] = receipt.run)
<1>1. \/ vd = Refuse("IDEMPOTENCY_CONFLICT") \/ vd = Refuse("INTEGRITY")
      \/ /\ SameEntry(receipt, q)
         /\ vd = Answer(<<"run", receipt.run, FirstSession(S, receipt.run)>>)
  BY DEF EntryReplay, LegacyReplay, NativeReplay
<1>2. ASSUME NEW s, vd = Answer(<<"run", receipt.run, s>>)
      PROVE  vd.rows = {} /\ vd.result[2] = receipt.run
  BY <1>2 DEF Answer
<1>3. ASSUME NEW code, code # "ok", vd = Refuse(code)
      PROVE  vd.rows = {} /\ vd.code # "ok"
  BY <1>3 DEF Refuse
<1> QED
  BY <1>1, <1>2, <1>3

LEMMA EntryReplayed ==
  ASSUME NEW S, NEW q, q.op \in {"enter", "admit"}, RunCreations(S, Op(q)) # {},
         NEW vd, vd = EntryReplay(S, Op(q), q, CHOOSE row \in RunCreations(S, Op(q)) : TRUE)
  PROVE  vd.rows = {} /\ (vd.code = "ok" => OnRecord(S, q, vd.result))
<1> DEFINE receipt == CHOOSE row \in RunCreations(S, Op(q)) : TRUE
<1>1. receipt \in S /\ receipt.table = "run_creation" /\ receipt.op = Op(q)
  BY DEF RunCreations, Table
<1>2. vd.rows = {} /\ (vd.code = "ok" => SameEntry(receipt, q) /\ vd.result[2] = receipt.run)
  BY ReplayResult
<1> HIDE DEF receipt
<1>3. vd.code = "ok" => Record(q, vd.result, receipt)
  BY <1>1, <1>2 DEF Record
<1> QED
  BY <1>1, <1>2, <1>3 DEF OnRecord

LEMMA SessionReplayed ==
  ASSUME NEW S, NEW q, q.op = "create_session", SessionsOf(S, Op(q)) # {},
         NEW vd, vd = SessionReplay(q, CHOOSE row \in SessionsOf(S, Op(q)) : TRUE)
  PROVE  vd.rows = {} /\ (vd.code = "ok" => OnRecord(S, q, vd.result))
<1> DEFINE session == CHOOSE row \in SessionsOf(S, Op(q)) : TRUE
<1>1. session \in S /\ session.table = "session" /\ session.op = Op(q)
  BY DEF SessionsOf, Table
<1> HIDE DEF session
<1>2. vd = SessionReplay(q, session)
  BY DEF session
<1>3. vd.rows = {} /\ (vd.code = "ok" => Record(q, vd.result, session))
  BY <1>1, <1>2 DEF SessionReplay, Refuse, Answer, Record
<1> QED
  BY <1>1, <1>3 DEF OnRecord

\* A verdict records what it answers, or it is on record.
Told(S, q, vd) ==
    /\ vd.rows # {} => \E row \in vd.rows : Record(q, vd.result, row)
    /\ vd.rows = {} /\ vd.code = "ok" => OnRecord(S, q, vd.result)

LEMMA CreateTells ==
  ASSUME NEW S, NEW q, NEW c, q.op = "create"
  PROVE  Told(S, q, CreateVerdict(S, q, c))
<1>1. CASE CreationReceipts(S, q) # {}
  <2> DEFINE vd == CreateReuse(q, CHOOSE row \in CreationReceipts(S, q) : TRUE)
  <2>1. CreateVerdict(S, q, c) = vd
    BY <1>1 DEF CreateVerdict
  <2>2. vd.rows = {} /\ (vd.code = "ok" => OnRecord(S, q, vd.result))
    BY <1>1, CreateReplayed
  <2> HIDE DEF vd
  <2> QED
    BY <2>1, <2>2 DEF Told
<1>2. CASE CreationReceipts(S, q) = {}
  <2>1. CreateVerdict(S, q, c) = Apply(<<"character", c>>, CreationRows(q, c))
    BY <1>2 DEF CreateVerdict
  <2>2. CreationReceipt(q, c) \in CreationRows(q, c) /\ Record(q, <<"character", c>>, CreationReceipt(q, c))
    BY DEF CreationRows, CreationReceipt, Record
  <2> QED
    BY <2>1, <2>2 DEF Told, Apply
<1> QED
  BY <1>1, <1>2

LEMMA MutateTells ==
  ASSUME NEW S, NEW q, q.op = "mutate"
  PROVE  Told(S, q, MutateVerdict(S, S, q))
<1> DEFINE m == Character(S, q.char)
           vd == MutateVerdict(S, S, q)
<1> SUFFICES Told(S, q, vd)
  OBVIOUS
<1>1. CASE MutationReceipts(S, q) # {} /\ Owned(S, q)
  <2>1. vd.rows = {} /\ (vd.code = "ok" => OnRecord(S, q, vd.result))
    BY <1>1, MutateReplayed
  <2> HIDE DEF vd
  <2> QED
    BY <2>1 DEF Told
<1>2. CASE ~(MutationReceipts(S, q) # {} /\ Owned(S, q))
  <2> DEFINE made == Apply(<<"mutated", q.char, m.rev + 1, Successor[q.kind]>>, MutationRows(m, q))
  <2>1. vd = made \/ (vd.rows = {} /\ vd.code # "ok")
    <3>1. Policy(m, q) # "ok"
      BY DEF Policy
    <3>2. \/ vd = Refuse("AUTHORIZATION_FAILED") \/ vd = Refuse("REVISION_EXHAUSTED")
          \/ vd = Refuse("STALE_REVISION") \/ vd = Refuse("INTEGRITY")
          \/ vd = Refuse("ACTIVE_BINDING_ATOMIC_LIFECYCLE_TRANSITION_REQUIRED")
          \/ vd = Refuse(Policy(m, q)) \/ vd = made
      BY <1>2 DEF MutateVerdict
    <3> HIDE DEF vd, made
    <3> QED
      BY <3>1, <3>2 DEF Refuse
  <2>2. vd = made => Told(S, q, vd)
    <3>1. MutationReceipt(m, q, Successor[q.kind]) \in MutationRows(m, q)
      BY DEF MutationRows
    <3>2. Record(q, <<"mutated", q.char, m.rev + 1, Successor[q.kind]>>,
                 MutationReceipt(m, q, Successor[q.kind]))
      BY DEF MutationReceipt, Record
    <3> HIDE DEF vd, m
    <3> QED
      BY <3>1, <3>2 DEF Told, Apply
  <2> HIDE DEF vd, made
  <2> QED
    BY <2>1, <2>2 DEF Told
<1> QED
  BY <1>1, <1>2

LEMMA EntryRecorded ==
  ASSUME NEW q, q.op \in {"enter", "admit"}, NEW c
  PROVE  \E row \in EntryRows(Op(q), q, c, c) : Record(q, <<"run", c, c>>, row)
<1>1. RunCreation(Op(q), c, q.char, q.rev, q.world) \in EntryRows(Op(q), q, c, c)
  BY DEF EntryRows, EntryCreation
<1>2. Record(q, <<"run", c, c>>, RunCreation(Op(q), c, q.char, q.rev, q.world))
  BY DEF Record, RunCreation, SameEntry
<1> QED
  BY <1>1, <1>2

LEMMA EnterTells ==
  ASSUME NEW S, Whole(S), NEW q, NEW c, q.op \in {"enter", "admit"}
  PROVE  Told(S, q, EnterVerdict(S, S, q, c, c))
<1> DEFINE vd == EnterVerdict(S, S, q, c, c)
           replay == EntryReplay(S, Op(q), q, CHOOSE row \in RunCreations(S, Op(q)) : TRUE)
           stage == EntryStage(S, S, Op(q), q, c, c)
<1> SUFFICES Told(S, q, vd)
  OBVIOUS
<1>1. CASE RunCreations(S, Op(q)) # {} /\ vd = replay
  <2>1. replay.rows = {} /\ (replay.code = "ok" => OnRecord(S, q, replay.result))
    BY <1>1, EntryReplayed
  <2> HIDE DEF vd, replay
  <2> QED
    BY <1>1, <2>1 DEF Told
<1>2. CASE vd = stage
  <2>1. stage.rows # {} \/ stage.code = "ok" => stage = Apply(<<"run", c, c>>, EntryRows(Op(q), q, c, c))
    BY StageIsOpen
  <2>2. \E row \in EntryRows(Op(q), q, c, c) : Record(q, <<"run", c, c>>, row)
    BY EntryRecorded
  <2> HIDE DEF vd, stage
  <2>3. stage.rows # {} \/ stage.code = "ok" => \E row \in stage.rows : Record(q, stage.result, row)
    BY <2>1, <2>2 DEF Apply
  <2> QED
    BY <1>2, <2>3 DEF Told
<1>3. \/ RunCreations(S, Op(q)) # {} /\ vd = replay
      \/ vd = stage
      \/ \E code \in {"AUTHORIZATION_FAILED", "RUN_ENTRY_CONFLICT", "PLAYER_CHARACTER_NOT_ELIGIBLE"} :
            vd = Refuse(code)
  BY DEF EnterVerdict
<1>4. (\E code \in {"AUTHORIZATION_FAILED", "RUN_ENTRY_CONFLICT", "PLAYER_CHARACTER_NOT_ELIGIBLE"} :
            vd = Refuse(code)) => Told(S, q, vd)
  BY DEF Told, Refuse
<1> QED
  BY <1>1, <1>2, <1>3, <1>4

LEMMA PrepareTells ==
  ASSUME NEW S, Whole(S), NEW q, NEW c, q.op = "prepare"
  PROVE  Told(S, q, PrepareVerdict(S, S, q, c))
<1> DEFINE vd == PrepareVerdict(S, S, q, c)
           latest == LatestOffer(S, q.char)
           prior == CHOOSE row \in Requested(S, q) : TRUE
           ordinal == IF Offers(S, q.char) = {} THEN 1 ELSE latest.ordinal + 1
<1> SUFFICES Told(S, q, vd)
  OBVIOUS
<1>1. \/ \E code \in {"PLAYER_CHARACTER_NOT_FOUND", "IDEMPOTENCY_CONFLICT", "INVALID_ENTRY_WORLD",
                      "PLAYER_CHARACTER_NOT_ELIGIBLE", "PLAYER_CHARACTER_STALE"} : vd = Refuse(code)
      \/ /\ Requested(S, q) # {} /\ prior.char = q.char
         /\ vd = Answer(<<"offer", prior.offer>>)
      \/ /\ Requested(S, q) = {} /\ Offers(S, q.char) # {}
         /\ vd = Answer(<<"offer", latest.offer>>)
      \/ vd = Apply(<<"offer", c>>, {OfferRow(c, q, ordinal)})
  BY DEF PrepareVerdict, PendingOffer
<1>2. Requested(S, q) # {} =>
          prior \in S /\ prior.table = "offer" /\ prior.who = q.who /\ prior.key = q.key
  BY DEF Requested, Table
<1>3. Offers(S, q.char) # {} => latest \in S /\ latest.table = "offer" /\ latest.char = q.char
  BY LatestOfferIsLast DEF IsLastOffer
<1> HIDE DEF vd, latest, prior, ordinal
<1>4. ASSUME NEW code, code # "ok", vd = Refuse(code) PROVE Told(S, q, vd)
  BY <1>4 DEF Told, Refuse
<1>5. ASSUME Requested(S, q) # {}, prior.char = q.char, vd = Answer(<<"offer", prior.offer>>)
      PROVE  Told(S, q, vd)
  <2>1. vd.rows = {} /\ vd.result[2] = prior.offer
    BY <1>5 DEF Answer
  <2>2. Record(q, vd.result, prior)
    BY <1>2, <1>5, <2>1 DEF Record
  <2> QED
    BY <1>2, <1>5, <2>1, <2>2 DEF Told, OnRecord
<1>6. ASSUME Requested(S, q) = {}, Offers(S, q.char) # {}, vd = Answer(<<"offer", latest.offer>>)
      PROVE  Told(S, q, vd)
  <2>1. vd.rows = {} /\ vd.result[2] = latest.offer
    BY <1>6 DEF Answer
  <2>2. \A row \in S : ~(row.table = "offer" /\ row.who = q.who /\ row.key = q.key)
    BY <1>6 DEF Requested, Table
  <2>3. OthersOffer(S, q, vd.result)
    BY <1>3, <1>6, <2>1, <2>2 DEF OthersOffer
  <2> QED
    BY <2>1, <2>3 DEF Told, OnRecord
<1>7. ASSUME vd = Apply(<<"offer", c>>, {OfferRow(c, q, ordinal)})
      PROVE  Told(S, q, vd)
  <2>1. vd.rows = {OfferRow(c, q, ordinal)} /\ vd.result = <<"offer", c>>
    BY <1>7 DEF Apply
  <2>2. Record(q, <<"offer", c>>, OfferRow(c, q, ordinal))
    BY DEF Record, OfferRow
  <2> QED
    BY <2>1, <2>2 DEF Told
<1> QED
  BY <1>1, <1>4, <1>5, <1>6, <1>7

LEMMA ConfirmTells ==
  ASSUME NEW S, Whole(S), NEW V, NEW q, NEW c, q.op = "confirm"
  PROVE  Told(S, q, ConfirmVerdict(S, V, q, c, c))
<1> DEFINE vd == ConfirmVerdict(S, V, q, c, c)
           offer == CHOOSE row \in Table(S, "offer") : row.offer = q.offer
           stage == EntryStage(S, V, FrozenOp(offer), offer, c, c)
           done == CHOOSE row \in Confirmations(S, q.offer) : TRUE
           made == [table |-> "confirmation", offer |-> q.offer, pick |-> q.pick, run |-> c]
<1> SUFFICES Told(S, q, vd)
  OBVIOUS
<1>1. \/ \E code \in {"PLAYER_CHARACTER_NOT_FOUND", "INVALID_TALENT_SELECTION",
                      "IDEMPOTENCY_CONFLICT", "INTEGRITY", "OPENING_PREPARATION_STALE"} :
            vd = Refuse(code)
      \/ /\ Confirmations(S, q.offer) # {} /\ done.pick = q.pick
         /\ vd = Answer(<<"confirmed", q.offer, done.run>>)
      \/ stage.code # "ok" /\ vd = stage
      \/ vd = Apply(<<"confirmed", q.offer, c>>, stage.rows \cup {made})
  BY DEF ConfirmVerdict
<1> HIDE DEF offer, vd
<1>2. stage.code # "ok" => stage.rows = {}
  BY StageIsOpen DEF Apply
<1>3. Confirmations(S, q.offer) # {} =>
          done \in S /\ done.table = "confirmation" /\ done.offer = q.offer
  BY DEF Confirmations, Table
<1> HIDE DEF stage, done
<1>4. ASSUME NEW code, code # "ok", vd = Refuse(code) PROVE Told(S, q, vd)
  BY <1>4 DEF Told, Refuse
<1>5. ASSUME Confirmations(S, q.offer) # {}, done.pick = q.pick,
             vd = Answer(<<"confirmed", q.offer, done.run>>)
      PROVE  Told(S, q, vd)
  <2>1. vd.rows = {} /\ vd.result[3] = done.run
    BY <1>5 DEF Answer
  <2>2. Record(q, vd.result, done)
    BY <1>3, <1>5, <2>1 DEF Record
  <2> QED
    BY <1>3, <1>5, <2>1, <2>2 DEF Told, OnRecord
<1>6. ASSUME vd = Apply(<<"confirmed", q.offer, c>>, stage.rows \cup {made})
      PROVE  Told(S, q, vd)
  <2>1. vd.rows = stage.rows \cup {made} /\ vd.result = <<"confirmed", q.offer, c>>
    BY <1>6 DEF Apply
  <2>2. Record(q, <<"confirmed", q.offer, c>>, made)
    BY DEF Record
  <2> HIDE DEF made
  <2> QED
    BY <2>1, <2>2 DEF Told
<1>7. stage.code # "ok" /\ vd = stage => Told(S, q, vd)
  BY <1>2 DEF Told
<1> QED
  BY <1>1, <1>4, <1>5, <1>6, <1>7

LEMMA CreateRunTells ==
  ASSUME NEW S, NEW q, NEW c, q.op = "create_run"
  PROVE  Told(S, q, CreateRunVerdict(S, q, c))
<1> DEFINE vd == CreateRunVerdict(S, q, c)
           receipt == CHOOSE row \in RunCreations(S, Op(q)) : TRUE
           made == RunCreation(Op(q), c, None, None, None)
<1> SUFFICES Told(S, q, vd)
  OBVIOUS
<1>1. CASE RunCreations(S, Op(q)) # {}
  <2>1. vd = Answer(<<"created", receipt.run>>)
    BY <1>1 DEF CreateRunVerdict
  <2>2. receipt \in S /\ receipt.table = "run_creation" /\ receipt.op = Op(q)
    BY <1>1 DEF RunCreations, Table
  <2> HIDE DEF vd, receipt
  <2>3. vd.rows = {} /\ vd.result[2] = receipt.run
    BY <2>1 DEF Answer
  <2>4. Record(q, vd.result, receipt)
    BY <2>2, <2>3 DEF Record
  <2> QED
    BY <2>2, <2>3, <2>4 DEF Told, OnRecord
<1>2. CASE RunCreations(S, Op(q)) = {}
  <2>1. made \in vd.rows /\ vd.result = <<"created", c>>
    BY <1>2 DEF CreateRunVerdict, Apply
  <2>2. Record(q, <<"created", c>>, made)
    BY DEF Record, RunCreation
  <2> HIDE DEF made, vd
  <2> QED
    BY <2>1, <2>2 DEF Told
<1> QED
  BY <1>1, <1>2

LEMMA StepReplayed ==
  ASSUME NEW S, NEW q, NEW kind, NEW subject, StepReceipts(S, q, kind) # {},
         \/ q.op = "bind" /\ kind = "BIND" /\ subject = q.char
         \/ q.op = "attach" /\ kind = "ATTACH" /\ subject = q.session,
         NEW vd, vd = StepReplay(CHOOSE row \in StepReceipts(S, q, kind) : TRUE, subject, q)
  PROVE  Told(S, q, vd)
<1> DEFINE receipt == CHOOSE row \in StepReceipts(S, q, kind) : TRUE
<1>1. /\ receipt \in S /\ receipt.table = "run_receipt" /\ receipt.run = q.run
      /\ receipt.kind = kind /\ receipt.op = Op(q)
  BY DEF StepReceipts, Table
<1> HIDE DEF receipt
<1>2. vd = StepReplay(receipt, subject, q)
  BY DEF receipt
<1>3. vd.rows = {} /\ (vd.code = "ok" => receipt.subject = subject /\ vd.result[3] = receipt.version)
  BY <1>2 DEF StepReplay, Refuse, Answer
<1>4. vd.code = "ok" => Record(q, vd.result, receipt)
  BY <1>1, <1>3 DEF Record
<1> QED
  BY <1>1, <1>3, <1>4 DEF Told, OnRecord

LEMMA BindTells ==
  ASSUME NEW S, NEW q, q.op = "bind"
  PROVE  Told(S, q, BindVerdict(S, S, q))
<1> DEFINE vd == BindVerdict(S, S, q)
           m == Run(S, q.run)
           k == Character(S, q.char)
           replay == StepReplay(CHOOSE row \in StepReceipts(S, q, "BIND") : TRUE, q.char, q)
           made == RunReceipt(q.run, m.version + 1, "BIND", Op(q), q.char)
           row2 == RunRow(q.run, m.version + 1, m.status, "BIND", Op(q), q.char, k.rev)
<1> SUFFICES Told(S, q, vd)
  OBVIOUS
<1>1. \/ \E code \in {"AUTHORIZATION_FAILED", "RUN_NOT_FOUND", "NON_ACTIVE_RUN", "STALE_VERSION",
                      "PLAYER_CHARACTER_INELIGIBLE", "PLAYER_CHARACTER_BINDING_CONFLICT"} :
            vd = Refuse(code)
      \/ StepReceipts(S, q, "BIND") # {} /\ vd = replay
      \/ vd = Apply(<<"step", q.run, m.version + 1>>, {row2, made})
  BY DEF BindVerdict, StepRefusal
<1>2. StepReceipts(S, q, "BIND") # {} => Told(S, q, replay)
  BY StepReplayed
<1> HIDE DEF vd, m, k, row2, replay
<1>3. ASSUME NEW code, code # "ok", vd = Refuse(code) PROVE Told(S, q, vd)
  BY <1>3 DEF Told, Refuse
<1>4. ASSUME vd = Apply(<<"step", q.run, m.version + 1>>, {row2, made}) PROVE Told(S, q, vd)
  <2>1. vd.rows = {row2, made} /\ vd.result = <<"step", q.run, m.version + 1>>
    BY <1>4 DEF Apply
  <2>2. Record(q, <<"step", q.run, m.version + 1>>, made)
    BY DEF Record, RunReceipt
  <2> HIDE DEF made
  <2> QED
    BY <2>1, <2>2 DEF Told
<1> QED
  BY <1>1, <1>2, <1>3, <1>4

LEMMA AttachTells ==
  ASSUME NEW S, NEW q, q.op = "attach"
  PROVE  Told(S, q, AttachVerdict(S, S, q))
<1> DEFINE vd == AttachVerdict(S, S, q)
           m == Run(S, q.run)
           replay == StepReplay(CHOOSE row \in StepReceipts(S, q, "ATTACH") : TRUE, q.session, q)
           made == RunReceipt(q.run, m.version + 1, "ATTACH", Op(q), q.session)
           row2 == RunRow(q.run, m.version + 1, m.status, "ATTACH", Op(q), m.char, m.rev)
           joined == Participation(q.session, q.run, m.version + 1)
<1> SUFFICES Told(S, q, vd)
  OBVIOUS
<1>1. \/ \E code \in {"AUTHORIZATION_FAILED", "RUN_NOT_FOUND", "NON_ACTIVE_RUN", "STALE_VERSION",
                      "SESSION_PARTICIPATION_CONFLICT", "INTEGRITY"} :
            vd = Refuse(code)
      \/ StepReceipts(S, q, "ATTACH") # {} /\ vd = replay
      \/ vd = Apply(<<"step", q.run, m.version + 1>>, {row2, made, joined})
  BY DEF AttachVerdict, StepRefusal
<1>2. StepReceipts(S, q, "ATTACH") # {} => Told(S, q, replay)
  BY StepReplayed
<1> HIDE DEF vd, m, row2, replay, joined
<1>3. ASSUME NEW code, code # "ok", vd = Refuse(code) PROVE Told(S, q, vd)
  BY <1>3 DEF Told, Refuse
<1>4. ASSUME vd = Apply(<<"step", q.run, m.version + 1>>, {row2, made, joined}) PROVE Told(S, q, vd)
  <2>1. vd.rows = {row2, made, joined} /\ vd.result = <<"step", q.run, m.version + 1>>
    BY <1>4 DEF Apply
  <2>2. Record(q, <<"step", q.run, m.version + 1>>, made)
    BY DEF Record, RunReceipt
  <2> HIDE DEF made
  <2> QED
    BY <2>1, <2>2 DEF Told
<1> QED
  BY <1>1, <1>2, <1>3, <1>4

LEMMA ExitTells ==
  ASSUME NEW S, NEW q, q.op = "exit"
  PROVE  Told(S, q, ExitVerdict(S, q))
<1> DEFINE vd == ExitVerdict(S, q)
           m == Run(S, q.run)
           made == RunRow(q.run, 4, "TERMINATED", "EXIT", m.op, m.char, m.rev)
           receipt == RunReceipt(q.run, 4, "EXIT", Op(q), q.run)
<1> SUFFICES Told(S, q, vd)
  OBVIOUS
<1>1. \/ vd = Refuse("RUN_NOT_FOUND") \/ vd = Refuse("RUN_NOT_ELIGIBLE")
      \/ vd = Apply(<<"exited", q.run>>, {made, receipt})
  BY DEF ExitVerdict, ExitRows
<1>2. Record(q, <<"exited", q.run>>, made)
  BY DEF Record, RunRow
<1> HIDE DEF vd, made, receipt
<1>3. ASSUME NEW code, code # "ok", vd = Refuse(code) PROVE Told(S, q, vd)
  BY <1>3 DEF Told, Refuse
<1>4. ASSUME vd = Apply(<<"exited", q.run>>, {made, receipt}) PROVE Told(S, q, vd)
  BY <1>2, <1>4 DEF Told, Apply
<1> QED
  BY <1>1, <1>3, <1>4

LEMMA SessionTells ==
  ASSUME NEW S, NEW q, NEW c, q.op = "create_session"
  PROVE  Told(S, q, CreateSessionVerdict(S, q, c))
<1> DEFINE vd == CreateSessionVerdict(S, q, c)
           replay == SessionReplay(q, CHOOSE row \in SessionsOf(S, Op(q)) : TRUE)
<1> SUFFICES Told(S, q, vd)
  OBVIOUS
<1>1. CASE SessionsOf(S, Op(q)) # {}
  <2>1. vd = replay
    BY <1>1 DEF CreateSessionVerdict
  <2>2. replay.rows = {} /\ (replay.code = "ok" => OnRecord(S, q, replay.result))
    BY <1>1, SessionReplayed
  <2> HIDE DEF vd, replay
  <2> QED
    BY <2>1, <2>2 DEF Told
<1>2. CASE SessionsOf(S, Op(q)) = {}
  <2>1. vd.rows = {Session(c, Op(q), q.body)} /\ vd.result = <<"session", c>>
    BY <1>2 DEF CreateSessionVerdict, Apply
  <2>2. Record(q, <<"session", c>>, Session(c, Op(q), q.body))
    BY DEF Record, Session
  <2> HIDE DEF vd
  <2> QED
    BY <2>1, <2>2 DEF Told
<1> QED
  BY <1>1, <1>2

LEMMA VerdictTells ==
  ASSUME NEW S, Whole(S), NEW V, NEW q, NEW c, q.op \in Operations,
         q.op # "confirm" => V = S
  PROVE  Told(S, q, VerdictOf(S, V, q, c))
<1>1. CASE q.op = "create"
  BY <1>1, CreateTells DEF VerdictOf
<1>2. CASE q.op = "mutate"
  BY <1>2, MutateTells DEF VerdictOf
<1>3. CASE q.op \in {"enter", "admit"}
  BY <1>3, EnterTells DEF VerdictOf
<1>4. CASE q.op = "prepare"
  BY <1>4, PrepareTells DEF VerdictOf
<1>5. CASE q.op = "confirm"
  BY <1>5, ConfirmTells DEF VerdictOf
<1>6. CASE q.op = "create_run"
  BY <1>6, CreateRunTells DEF VerdictOf
<1>7. CASE q.op = "bind"
  BY <1>7, BindTells DEF VerdictOf
<1>8. CASE q.op = "attach"
  BY <1>8, AttachTells DEF VerdictOf
<1>9. CASE q.op = "exit"
  BY <1>9, ExitTells DEF VerdictOf
<1>10. CASE q.op = "create_session"
  BY <1>10, SessionTells DEF VerdictOf
<1> QED
  BY <1>1, <1>2, <1>3, <1>4, <1>5, <1>6, <1>7, <1>8, <1>9, <1>10 DEF Operations

\* The character of a run that was ever active is known.
LEMMA ActiveRunIsBound ==
  ASSUME NEW S, Whole(S), NEW a \in S, a.table = "run", a.status = "ACTIVE"
  PROVE  Revisions(S, Run(S, a.run).char) # {}
<1> DEFINE m == Run(S, a.run)
<1>1. LatestRun(S, m) /\ m.run = a.run
  BY RunIsLatest DEF RunRevisions, Table
<1> HIDE DEF m
<1>2. m \in S /\ m.table = "run" /\ a.version <= m.version
  BY <1>1 DEF LatestRun
<1>3. RunRowWhole(S, a) /\ RunRowWhole(S, m)
  BY <1>2 DEF Whole, RunsWhole
<1>4. PICK bound \in S : bound.table = "run" /\ bound.run = a.run /\ bound.kind = "BIND"
                         /\ bound.version <= a.version
  BY <1>3, ActiveIsBound DEF RunRowWhole, RunRowLawful
<1>5. RunRowsAgree(bound, m)
  BY <1>1, <1>2, <1>4 DEF Whole, RunsWhole
<1>6. bound.version \in Nat /\ a.version \in Nat /\ m.version \in Nat
  BY <1>2, <1>4 DEF Whole, RunsWhole, RunRowWhole, RunRowPlaced
<1>7. m.char # None
  BY <1>2, <1>4, <1>5, <1>6 DEF RunRowsAgree
<1>8. \E row \in S : row.table = "revision" /\ row.char = m.char
  BY <1>3, <1>7 DEF RunRowWhole, RunRowLawful
<1> QED
  BY <1>8 DEF Revisions, Table, m

\* Native runs start active, and sessions are named by the call that makes them.
LEMMA EntryStarts ==
  ASSUME NEW op, NEW q, NEW r
  PROVE  /\ \A row \in EntryRows(op, q, r, r) :
               /\ row.table = "run" => row.run = r
               /\ row.table = "session" => row.session = r
         /\ \E a \in EntryRows(op, q, r, r) : a.table = "run" /\ a.run = r /\ a.status = "ACTIVE"
<1>1. \A row \in EntryRows(op, q, r, r) :
          /\ row.table = "run" => row.run = r
          /\ row.table = "session" => row.session = r
  BY DEF EntryRows, EntryCreation, EntryBinding, EntryActivation, Session, RunRow, RunCreation,
         Admission, RunReceipt, Participation
<1>2. RunRow(r, 3, "ACTIVE", "ATTACH", op, q.char, q.rev) \in EntryRows(op, q, r, r)
  BY DEF EntryRows, EntryActivation
<1> QED
  BY <1>1, <1>2 DEF RunRow

LEMMA ReadyStarts ==
  ASSUME NEW S, NEW q, NEW c, NEW rows, Ready(S, q, c, rows),
         NEW more, more \subseteq FirstBinding(q) \cup rows, rows \subseteq more
  PROVE  /\ Started(S) => Started(S \cup more)
         /\ \A row \in more : row.table = "session" => row.session = c
<1> DEFINE Fine(row) ==
          /\ row.table = "session" => row.session = c
          /\ row.table = "run" /\ row.op.family = "native" =>
                \E a \in S \cup rows : a.table = "run" /\ a.run = row.run /\ a.status = "ACTIVE"
<1>0. Op(q).family = "native" => q.op \in {"admit", "prepare", "confirm"}
  BY DEF Op
<1>1. SUFFICES \A row \in rows : Fine(row)
  <2>1. \A row \in FirstBinding(q) : row.table = "binding"
    BY DEF FirstBinding, Binding
  <2>2. \A row \in more : row \in rows \/ row.table = "binding"
    BY <2>1
  <2> QED
    BY <1>1, <2>2 DEF Started
<1>2. CASE q.op = "create" /\ rows = CreationRows(q, c)
  BY <1>2 DEF CreationRows, Revision, CreationReceipt
<1>3. CASE q.op = "mutate" /\ MutateReady(S, q, rows)
  BY <1>3 DEF MutateReady, MutationRows, Revision, MutationReceipt
<1>4. CASE q.op \in {"enter", "admit"} /\ EnterReady(S, q, c, rows)
  BY <1>4, EntryStarts DEF EnterReady
<1>5. CASE q.op = "prepare" /\ PrepareReady(S, q, c, rows)
  BY <1>5 DEF PrepareReady, OfferRow
<1>6. CASE q.op = "confirm" /\ ConfirmReady(S, q, c, rows)
  <2>1. PICK offer \in S :
            rows = EntryRows(FrozenOp(offer), offer, c, c) \cup {Confirmation(offer, q.pick, c)}
    BY <1>6 DEF ConfirmReady
  <2>2. Confirmation(offer, q.pick, c).table = "confirmation"
    BY DEF Confirmation
  <2> QED
    BY <2>1, <2>2, EntryStarts
<1>7. CASE q.op = "create_run" /\ rows = RunMade(Op(q), c, None, None, None)
  <2>1. Op(q).family # "native"
    BY <1>0, <1>7
  <2> QED
    BY <1>7, <2>1 DEF RunMade, RunRow, RunCreation
<1>8. CASE q.op = "bind" /\ BindReady(S, q, rows)
  <2>1. Op(q).family # "native"
    BY <1>0, <1>8
  <2> QED
    BY <1>8, <2>1 DEF BindReady, RunRow, RunReceipt
<1>9. CASE q.op = "attach" /\ AttachReady(S, q, rows)
  <2>1. Op(q).family # "native"
    BY <1>0, <1>9
  <2> QED
    BY <1>9, <2>1 DEF AttachReady, RunRow, RunReceipt, Participation
<1>10. CASE q.op = "exit" /\ ExitReady(S, q, rows)
  BY <1>10 DEF ExitReady, RunRow, RunReceipt, LatestRun
<1>11. CASE q.op = "create_session" /\ rows = {Session(c, Op(q), q.body)}
  BY <1>11 DEF Session
<1> QED
  BY <1>2, <1>3, <1>4, <1>5, <1>6, <1>7, <1>8, <1>9, <1>10, <1>11 DEF Ready

\* A call for somebody else's character, or for none, is refused.
LEMMA StrangerIsRefused ==
  ASSUME NEW S, NEW V, NEW q, NEW c, ~Owned(S, q),
         q.op \in {"mutate", "enter", "admit", "prepare", "confirm", "bind"}
  PROVE  VerdictOf(S, V, q, c).code # "ok"
<1>1. CASE q.op = "mutate"
  BY <1>1 DEF VerdictOf, MutateVerdict, Refuse
<1>2. CASE q.op \in {"enter", "admit"}
  BY <1>2 DEF VerdictOf, EnterVerdict, Refuse
<1>3. CASE q.op = "prepare"
  BY <1>3 DEF VerdictOf, PrepareVerdict, Refuse
<1>4. CASE q.op = "confirm"
  <2>1. VerdictOf(S, V, q, c) = Refuse("PLAYER_CHARACTER_NOT_FOUND")
    BY <1>4 DEF VerdictOf, ConfirmVerdict
  <2> QED
    BY <2>1 DEF Refuse
<1>5. CASE q.op = "bind"
  BY <1>5 DEF VerdictOf, BindVerdict, Refuse
<1> QED
  BY <1>1, <1>2, <1>3, <1>4, <1>5

LEMMA RecoveryTells ==
  ASSUME NEW q, q.op \in {"create", "mutate", "admit", "create_session"},
         q.op = "create_session" => SessionsOf(store, Op(q)) # {}, Recovery(q).code = "ok"
  PROVE  OnRecord(store, q, Recovery(q).result)
<1>1. CASE q.op = "create"
  <2> DEFINE vd == CreateReuse(q, CHOOSE row \in CreationReceipts(store, q) : TRUE)
  <2>1. CreationReceipts(store, q) # {} /\ Recovery(q) = vd
    BY <1>1 DEF Recovery, CreateRecovery, Refuse
  <2>2. vd.code = "ok" => OnRecord(store, q, vd.result)
    BY <1>1, <2>1, CreateReplayed
  <2> HIDE DEF vd
  <2> QED
    BY <2>1, <2>2
<1>2. CASE q.op = "mutate"
  <2> DEFINE vd == MutateVerdict(store, store, q)
  <2>1. Owned(store, q) /\ MutationReceipts(store, q) # {} /\ Recovery(q) = vd
    BY <1>2 DEF Recovery, Refuse
  <2>2. vd.code = "ok" => OnRecord(store, q, vd.result)
    BY <1>2, <2>1, MutateReplayed
  <2> HIDE DEF vd
  <2> QED
    BY <2>1, <2>2
<1>3. CASE q.op = "admit"
  <2> DEFINE vd == EntryReplay(store, Op(q), q, CHOOSE row \in RunCreations(store, Op(q)) : TRUE)
  <2>1. Owned(store, q) /\ RunCreations(store, Op(q)) # {}
    BY <1>3 DEF Recovery, Refuse
  <2>2. Recovery(q) = vd
    BY <1>3, <2>1 DEF Recovery, EnterVerdict
  <2>3. vd.code = "ok" => OnRecord(store, q, vd.result)
    BY <1>3, <2>1, EntryReplayed
  <2> HIDE DEF vd
  <2> QED
    BY <2>2, <2>3
<1>4. CASE q.op = "create_session"
  <2> DEFINE vd == SessionReplay(q, CHOOSE row \in SessionsOf(store, Op(q)) : TRUE)
  <2>1. Recovery(q) = vd
    BY <1>4 DEF Recovery, CreateSessionVerdict
  <2>2. vd.code = "ok" => OnRecord(store, q, vd.result)
    BY <1>4, SessionReplayed
  <2> HIDE DEF vd
  <2> QED
    BY <2>1, <2>2
<1> QED
  BY <1>1, <1>2, <1>3, <1>4

\* What the steps of a call make of its answer.
AnswerFits(c) == AnswerOk(store', script[c], pc'[c], answer'[c], verdict'[c])

LEMMA EndTells ==
  ASSUME EntryInv, NEW c \in Calls, NEW code, NEW result, End(c, code, result),
         code = "ok" => OnRecord(store', script[c], result)
  PROVE  AnswerFits(c)
<1>1. pc'[c] = "done" /\ answer'[c].code = code /\ answer'[c].result = result
  BY DEF End, EntryInv
<1> QED
  BY <1>1 DEF AnswerFits, AnswerOk, Decided

\* A session that cannot be inserted was inserted by somebody else.
LEMMA SessionClash ==
  ASSUME EntryInv, AnswerInv, NEW c \in Calls, pc[c] = "write", Clashes(verdict[c].rows),
         script[c].op = "create_session"
  PROVE  SessionsOf(store, Op(script[c])) # {}
<1> DEFINE q == script[c]
           rows == verdict[c].rows
<1>1. CallOk(store, q, c, pc[c], held[c], view[c], staged[c], verdict[c])
  BY DEF EntryInv
<1>2. Ready(store, q, c, rows)
  BY <1>1 DEF CallOk, Decided
<1>3. rows = {Session(c, Op(q), q.body)}
  BY <1>2 DEF Ready
<1> HIDE DEF rows
<1>4. ~Apart(store, rows)
  <2>1. SUFFICES ASSUME Apart(store, rows) PROVE FALSE
    OBVIOUS
  <2>2. Whole(store \cup rows)
    BY <1>2, <2>1, ReadyGrows DEF EntryInv
  <2>3. HoldersAreUnique(store \cup rows)
    BY <2>2, WholeHoldersAreUnique
  <2>4. PICK k \in Keys(rows) : k \in Keys(store)
    BY <2>3 DEF Clashes, rows
  <2>5. PICK a \in store, b \in rows : k \in UniqueKeys(a) /\ k \in UniqueKeys(b)
    BY <2>4 DEF Keys
  <2> QED
    BY <2>1, <2>5, KeysMeet DEF Apart
<1>5. PICK row \in store : SameKey(row, Session(c, Op(q), q.body))
  BY <1>3, <1>4 DEF Apart
<1>6. row.table = "session" /\ (row.session = c \/ row.op = Op(q))
  BY <1>5 DEF SameKey, Session
<1>7. row.session # c
  BY <1>6 DEF AnswerInv
<1> QED
  BY <1>6, <1>7 DEF SessionsOf, Table

LEMMA DecideTells ==
  ASSUME EntryInv, AnswerInv, NEW c \in Calls, Decide(c)
  PROVE  AnswerFits(c)
<1> DEFINE q == script[c]
           v == Verdict(c)
<1>1. pc[c] = "decide" /\ store' = store
  BY DEF Decide
<1>2. CallOk(store, q, c, pc[c], held[c], view[c], staged[c], verdict[c])
  BY DEF EntryInv
<1>3. Told(store, q, v)
  <2>1. v = VerdictOf(store, Seen(c), q, c)
    BY DEF Verdict, VerdictOf
  <2>2. q.op # "confirm" => Seen(c) = store
    BY <1>2 DEF CallOk, Seen
  <2>3. q.op \in Operations /\ Whole(store)
    BY ScriptAssumption DEF EntryInv
  <2> HIDE DEF v, q
  <2> QED
    BY <2>1, <2>2, <2>3, VerdictTells
<1>4. CASE v.rows = {}
  <2>1. End(c, v.code, v.result)
    BY <1>4 DEF Decide
  <2> HIDE DEF v
  <2> QED
    BY <1>1, <1>3, <1>4, <2>1, EndTells DEF Told
<1>5. CASE v.rows # {}
  <2>1. pc'[c] = "write" /\ verdict'[c] = v /\ answer'[c] = answer[c]
    BY <1>5 DEF Decide, Go, EntryInv
  <2>2. AnswerOk(store, q, pc[c], answer[c], verdict[c])
    BY DEF AnswerInv
  <2> HIDE DEF v
  <2> QED
    BY <1>1, <1>3, <1>5, <2>1, <2>2 DEF Told, AnswerFits, AnswerOk, Decided
<1> QED
  BY <1>4, <1>5

LEMMA LockTells ==
  ASSUME EntryInv, AnswerInv, NEW c \in Calls, Lock(c)
  PROVE  AnswerFits(c)
<1> DEFINE q == script[c]
<1>1. pc[c] = "lock" /\ store' = store
  BY DEF Lock
<1>2. AnswerOk(store, q, pc[c], answer[c], verdict[c])
  BY DEF AnswerInv
<1>3. CASE q.op = "create" /\ Binding(q.who) \notin store
  <2>1. pc'[c] = "add binding" /\ verdict'[c] = verdict[c] /\ answer'[c] = answer[c]
    BY <1>3 DEF Lock, Go, EntryInv
  <2> QED
    BY <1>1, <1>2, <2>1 DEF AnswerFits, AnswerOk, Decided
<1>4. CASE ~(q.op = "create" /\ Binding(q.who) \notin store)
           /\ OnCharacter(q) /\ Revisions(store, CharacterOf(q)) = {}
  <2>1. End(c, Verdict(c).code, <<>>)
    BY <1>4 DEF Lock
  <2>2. q.op # "exit"
    <3>1. SUFFICES ASSUME q.op = "exit" PROVE FALSE
      OBVIOUS
    <3>2. PICK a \in store : a.table = "run" /\ a.run = q.run /\ a.status = "ACTIVE"
      BY <1>1, <1>2, <3>1 DEF AnswerOk
    <3> QED
      BY <1>4, <3>1, <3>2, ActiveRunIsBound DEF EntryInv, CharacterOf
  <2>3. ~Owned(store, q)
    BY <1>4, <2>2 DEF Owned, CharacterOf
  <2>4. q.op \in {"mutate", "enter", "admit", "prepare", "confirm", "bind"}
    BY <1>4, <2>2 DEF OnCharacter
  <2>5. Verdict(c) = VerdictOf(store, Seen(c), q, c)
    BY DEF Verdict, VerdictOf
  <2>6. Verdict(c).code # "ok"
    BY <2>3, <2>4, <2>5, StrangerIsRefused
  <2> QED
    BY <2>1, <2>6, EndTells
<1>5. CASE ~(q.op = "create" /\ Binding(q.who) \notin store)
           /\ ~(OnCharacter(q) /\ Revisions(store, CharacterOf(q)) = {})
  <2>1. pc'[c] = "decide" /\ verdict'[c] = verdict[c] /\ answer'[c] = answer[c]
    BY <1>5 DEF Lock, Go, EntryInv
  <2> QED
    BY <1>1, <1>2, <2>1 DEF AnswerFits, AnswerOk, Decided
<1> QED
  BY <1>3, <1>4, <1>5

LEMMA ClashTells ==
  ASSUME EntryInv, AnswerInv, NEW c \in Calls, Clash(c)
  PROVE  AnswerFits(c)
<1> DEFINE q == script[c]
<1>1. pc[c] = "write" /\ store' = store /\ Clashes(verdict[c].rows)
  BY DEF Clash
<1>2. CASE q.op \in {"create_session", "mutate", "admit"}
  <2>1. pc'[c] = "recover" /\ answer'[c] = answer[c]
    BY <1>2 DEF Clash, Go, EntryInv
  <2>2. q.op = "create_session" => SessionsOf(store, Op(q)) # {}
    BY <1>1, SessionClash
  <2>3. AnswerOk(store, q, pc[c], answer[c], verdict[c])
    BY DEF AnswerInv
  <2> QED
    BY <1>1, <1>2, <2>1, <2>2, <2>3 DEF AnswerFits, AnswerOk, Decided
<1>3. CASE q.op \notin {"create_session", "mutate", "admit"}
  <2>1. End(c, Collision(q), <<>>)
    BY <1>3 DEF Clash
  <2>2. Collision(q) # "ok"
    BY DEF Collision
  <2> QED
    BY <2>1, <2>2, EndTells
<1> QED
  BY <1>2, <1>3

LEMMA TargetTells ==
  ASSUME EntryInv, AnswerInv, NEW c \in Calls, Target(c)
  PROVE  AnswerFits(c)
<1> DEFINE q == script[c]
           m == Run(store, q.run)
<1>1. store' = store
  BY DEF Target
<1>2. CASE ExitVerdict(store, q).code = "RUN_NOT_FOUND"
  BY <1>2, EndTells DEF Target
<1>3. CASE ExitVerdict(store, q).code # "RUN_NOT_FOUND"
  <2>1. pc'[c] = "gate" /\ verdict'[c] = verdict[c] /\ answer'[c] = answer[c]
    BY <1>3 DEF Target, Go, EntryInv
  <2>2. RunRevisions(store, q.run) # {} /\ m.op.family = "native"
    BY <1>3 DEF ExitVerdict, Refuse
  <2>3. m \in store /\ m.table = "run" /\ m.run = q.run
    BY <2>2, RunIsLatest DEF EntryInv, LatestRun
  <2> HIDE DEF m
  <2>4. \E a \in store : a.table = "run" /\ a.run = q.run /\ a.status = "ACTIVE"
    BY <2>2, <2>3 DEF AnswerInv, Started
  <2>5. AnswerOk(store, q, pc[c], answer[c], verdict[c])
    BY DEF AnswerInv
  <2> QED
    BY <1>1, <2>1, <2>4, <2>5 DEF AnswerFits, AnswerOk, Decided
<1> QED
  BY <1>2, <1>3

LEMMA StepTells ==
  ASSUME EntryInv, AnswerInv, NEW c \in Calls, Step(c) \/ CommitUnknown(c) \/ Fault(c)
  PROVE  AnswerFits(c)
<1> DEFINE q == script[c]
<1>1. /\ AnswerOk(store, q, pc[c], answer[c], verdict[c])
      /\ CallOk(store, q, c, pc[c], held[c], view[c], staged[c], verdict[c])
  BY DEF AnswerInv, EntryInv
<1>2. CASE Target(c)
  BY <1>2, TargetTells
<1>3. CASE Gate(c)
  <2>1. /\ pc[c] = "gate" /\ pc'[c] = AfterGate(q) /\ store' = store
        /\ verdict'[c] = verdict[c] /\ answer'[c] = answer[c]
    BY <1>3 DEF Gate, Go, EntryInv
  <2>2. AfterGate(q) \in {"peek", "lock", "decide"}
    BY DEF AfterGate
  <2> QED
    BY <1>1, <2>1, <2>2 DEF AnswerFits, AnswerOk, Decided
<1>4. CASE GateTimeout(c)
  BY <1>4, EndTells DEF GateTimeout
<1>5. CASE Peek(c)
  <2>1. CASE OfferFound(store, q)
    <3>1. /\ pc[c] = "peek" /\ pc'[c] = "lock" /\ store' = store
          /\ verdict'[c] = verdict[c] /\ answer'[c] = answer[c]
      BY <1>5, <2>1 DEF Peek, Go, EntryInv
    <3>2. q.op = "confirm"
      BY <1>1, <3>1 DEF CallOk
    <3> QED
      BY <1>1, <3>1, <3>2 DEF AnswerFits, AnswerOk, Decided
  <2>2. CASE ~OfferFound(store, q)
    BY <1>5, <2>2, EndTells DEF Peek
  <2> QED
    BY <2>1, <2>2
<1>6. CASE Lock(c)
  BY <1>6, LockTells
<1>7. CASE AddBinding(c)
  <2>1. /\ pc[c] = "add binding" /\ pc'[c] \in {"recover", "decide"} /\ store' = store
        /\ verdict'[c] = verdict[c] /\ answer'[c] = answer[c]
    BY <1>7 DEF AddBinding, Go, EntryInv
  <2>2. q.op = "create"
    BY <1>1, <2>1 DEF CallOk
  <2> QED
    BY <1>1, <2>1, <2>2 DEF AnswerFits, AnswerOk, Decided
<1>8. CASE Decide(c)
  BY <1>8, DecideTells
<1>9. CASE Write(c)
  <2>1. /\ pc[c] = "write" /\ pc'[c] = "commit" /\ store' = store
        /\ verdict'[c] = verdict[c] /\ answer'[c] = answer[c]
    BY <1>9 DEF Write, Go, EntryInv
  <2> QED
    BY <1>1, <2>1 DEF AnswerFits, AnswerOk, Decided
<1>10. CASE Clash(c)
  BY <1>10, ClashTells
<1>11. CASE Recover(c)
  <2>1. pc[c] = "recover" /\ store' = store /\ End(c, Recovery(q).code, Recovery(q).result)
    BY <1>11 DEF Recover
  <2>2. Recovery(q).code = "ok" => OnRecord(store, q, Recovery(q).result)
    BY <1>1, <2>1, RecoveryTells DEF AnswerOk
  <2> QED
    BY <2>1, <2>2, EndTells
<1>12. CASE Commit(c)
  <2>1. /\ pc[c] = "commit" /\ store' = store \cup staged[c]
        /\ End(c, verdict[c].code, verdict[c].result)
    BY <1>12 DEF Commit
  <2>2. PICK row \in verdict[c].rows : Record(q, verdict[c].result, row)
    BY <1>1, <2>1 DEF AnswerOk, Decided
  <2>3. row \in store'
    BY <2>1, CommitIsRight DEF Committing
  <2>4. OnRecord(store', q, verdict[c].result)
    BY <2>2, <2>3 DEF OnRecord
  <2> QED
    BY <2>1, <2>4, EndTells
<1>13. CASE CommitUnknown(c)
  BY <1>13, EndTells DEF CommitUnknown
<1>14. CASE Fault(c)
  BY <1>14, EndTells DEF Fault
<1> QED
  BY <1>2, <1>3, <1>4, <1>5, <1>6, <1>7, <1>8, <1>9, <1>10, <1>11, <1>12, <1>13, <1>14 DEF Step

LEMMA AnswersKept ==
  ASSUME EntryInv, AnswerInv, EntryInv', [Next]_vars
  PROVE  AnswerInv'
<1>1. CASE UNCHANGED vars
  BY <1>1 DEF vars, AnswerInv
<1>2. ASSUME NEW c \in Calls, Step(c) \/ CommitUnknown(c) \/ Fault(c) PROVE AnswerInv'
  <2>1. OnlyCall(c) /\ pc[c] # "done" /\ Writes(c)
    BY <1>2, StepIsOwn
  <2>2. AnswerFits(c)
    BY <1>2, StepTells
  <2>3. Whole(store) /\ Whole(store')
    BY DEF EntryInv
  <2>4. store \subseteq store'
    BY <2>1 DEF Writes
  <2>5. ASSUME NEW d \in Calls, d # c
        PROVE  AnswerOk(store', script[d], pc[d], answer[d], verdict[d])
    <3>1. AnswerOk(store, script[d], pc[d], answer[d], verdict[d])
      BY DEF AnswerInv
    <3>2. answer[d].code = "ok" => OnRecord(store', script[d], answer[d].result)
      BY <2>3, <2>4, <3>1, OnRecordGrows DEF AnswerOk
    <3>3. SessionsOf(store, Op(script[d])) # {} => SessionsOf(store', Op(script[d])) # {}
      BY <2>4 DEF SessionsOf, Table
    <3> QED
      BY <2>4, <3>1, <3>2, <3>3 DEF AnswerOk
  <2>6. \A d \in Calls : AnswerOk(store', script'[d], pc'[d], answer'[d], verdict'[d])
    BY <2>1, <2>2, <2>5 DEF OnlyCall, AnswerFits
  <2>7. /\ Started(store')
        /\ \A row \in store' : row.table = "session" => row.session \in Calls /\ pc'[row.session] = "done"
    <3>1. CASE store' = store
      BY <2>1, <3>1 DEF AnswerInv, OnlyCall
    <3>2. CASE pc[c] = "commit" /\ pc'[c] = "done" /\ store' = store \cup staged[c]
      <4>1. /\ staged[c] \subseteq FirstBinding(script[c]) \cup verdict[c].rows
            /\ verdict[c].rows \subseteq staged[c]
            /\ Ready(store, script[c], c, verdict[c].rows)
        BY <3>2, CommitIsRight DEF Committing
      <4>2. Started(store)
        BY DEF AnswerInv
      <4> DEFINE q == script[c]
                 rows == verdict[c].rows
                 more == staged[c]
      <4>3. Ready(store, q, c, rows) /\ more \subseteq FirstBinding(q) \cup rows /\ rows \subseteq more
        BY <4>1
      <4> HIDE DEF q, rows, more
      <4>4. /\ Started(store) => Started(store \cup more)
            /\ \A row \in more : row.table = "session" => row.session = c
        BY <4>3, ReadyStarts
      <4> QED
        BY <2>1, <3>2, <4>2, <4>4 DEF AnswerInv, OnlyCall, more
    <3> QED
      BY <2>1, <3>1, <3>2 DEF Writes
  <2> QED
    BY <2>6, <2>7 DEF AnswerInv
<1> QED
  BY <1>1, <1>2 DEF Next, Finished

\* What is on record is what AnswersAreOnRecord looks for.
LEMMA ExitIsLast ==
  ASSUME NEW S, Whole(S), NEW row \in S, row.table = "run", row.status = "TERMINATED"
  PROVE  Run(S, row.run) = row
<1> DEFINE m == Run(S, row.run)
<1>1. LatestRun(S, m) /\ m.run = row.run
  BY RunIsLatest DEF RunRevisions, Table
<1> HIDE DEF m
<1>2. m \in S /\ m.table = "run" /\ row.version <= m.version
  BY <1>1 DEF LatestRun
<1>3. RunRowsAgree(row, m) /\ row.version \in Nat /\ m.version \in Nat
  BY <1>1, <1>2 DEF Whole, RunsWhole, RunRowWhole, RunRowPlaced
<1>4. m.version = row.version
  BY <1>2, <1>3 DEF RunRowsAgree
<1> QED
  BY <1>1, <1>2, <1>4 DEF Whole, UniqueRows, SameKey, m

LEMMA AnswersBegin ==
  ASSUME Init
  PROVE  AnswerInv
<1>1. ASSUME NEW c \in Calls
      PROVE  AnswerOk(store, script[c], pc[c], answer[c], verdict[c])
  <2>1. /\ answer[c] = NoAnswer
        /\ pc[c] = IF script[c].op = "exit" THEN "target"
                   ELSE IF Native(script[c]) THEN "gate" ELSE AfterGate(script[c])
    BY <1>1 DEF Init
  <2>2. /\ pc[c] \in {"target", "gate", "peek", "lock", "decide"}
        /\ script[c].op = "exit" => pc[c] = "target"
    BY <2>1 DEF AfterGate
  <2> QED
    BY <2>1, <2>2 DEF AnswerOk, NoAnswer, Decided
<1>2. \A row \in store : row.table \notin {"run", "session"}
  BY SeedAssumption DEF Init
<1> QED
  BY <1>1, <1>2 DEF AnswerInv, Started

LEMMA CreationToldOnce ==
  ASSUME NEW S, UniqueRows(S), NEW q, NEW told, OnRecord(S, q, told), q.op = "create"
  PROVE  {<<row.char, row.body>> : row \in CreationReceipts(S, q)} = {<<told[2], q.body>>}
<1>1. PICK row \in S : Record(q, told, row)
  BY DEF OnRecord, OthersOffer
<1>2. /\ row \in CreationReceipts(S, q)
      /\ row.char = told[2] /\ row.body = q.body
      /\ \A other \in CreationReceipts(S, q) : other = row
  BY <1>1 DEF Record, UniqueRows, SameKey, Table, CreationReceipts
<1> QED
  BY <1>2

LEMMA MutationToldOnce ==
  ASSUME NEW S, UniqueRows(S), NEW q, NEW told, OnRecord(S, q, told), q.op = "mutate"
  PROVE  {<<row.rev, row.life, row.kind>> : row \in MutationReceipts(S, q)}
            = {<<told[3], told[4], q.kind>>}
<1>1. PICK row \in S : Record(q, told, row)
  BY DEF OnRecord, OthersOffer
<1>2. /\ row \in MutationReceipts(S, q)
      /\ row.rev = told[3] /\ row.life = told[4] /\ row.kind = q.kind
      /\ \A other \in MutationReceipts(S, q) : other = row
  BY <1>1 DEF Record, UniqueRows, SameKey, Table, MutationReceipts
<1> QED
  BY <1>2

LEMMA EntryToldOnce ==
  ASSUME NEW S, UniqueRows(S), NEW q, NEW told, OnRecord(S, q, told), q.op \in {"enter", "admit"}
  PROVE  {<<row.run, row.char, row.rev, row.world>> : row \in RunCreations(S, Op(q))}
            = {<<told[2], q.char, q.rev, q.world>>}
<1>1. PICK row \in S : Record(q, told, row)
  BY DEF OnRecord, OthersOffer
<1>2. /\ row \in RunCreations(S, Op(q))
      /\ row.run = told[2] /\ row.char = q.char /\ row.rev = q.rev /\ row.world = q.world
      /\ \A other \in RunCreations(S, Op(q)) : other = row
  BY <1>1 DEF Record, SameEntry, UniqueRows, SameKey, Table, RunCreations
<1> QED
  BY <1>2

LEMMA OpeningToldOnce ==
  ASSUME NEW S, UniqueRows(S), NEW q, NEW told, OnRecord(S, q, told), q.op = "prepare"
  PROVE  /\ \E row \in Offers(S, q.char) : row.offer = told[2]
         /\ \A row \in Requested(S, q) \cap Offers(S, q.char) :
               row.offer # told[2] => row.ordinal > 1
<1>1. CASE OthersOffer(S, q, told)
  BY <1>1 DEF OthersOffer, Offers, Requested, Table
<1>2. ASSUME NEW row \in S, Record(q, told, row)
      PROVE  /\ row \in Offers(S, q.char) /\ row.offer = told[2]
             /\ \A other \in Requested(S, q) : other = row
  BY <1>2 DEF Record, Offers, Requested, Table, UniqueRows, SameKey
<1> QED
  BY <1>1, <1>2 DEF OnRecord

LEMMA ConfirmationToldOnce ==
  ASSUME NEW S, UniqueRows(S), NEW q, NEW told, OnRecord(S, q, told), q.op = "confirm"
  PROVE  {<<row.run, row.pick>> : row \in Confirmations(S, q.offer)} = {<<told[3], q.pick>>}
<1>1. PICK row \in S : Record(q, told, row)
  BY DEF OnRecord, OthersOffer
<1>2. /\ row \in Confirmations(S, q.offer)
      /\ row.run = told[3] /\ row.pick = q.pick
      /\ \A other \in Confirmations(S, q.offer) : other = row
  BY <1>1 DEF Record, UniqueRows, SameKey, Table, Confirmations
<1> QED
  BY <1>2

LEMMA RunToldOnce ==
  ASSUME NEW S, UniqueRows(S), NEW q, NEW told, OnRecord(S, q, told), q.op = "create_run"
  PROVE  {row.run : row \in RunCreations(S, Op(q))} = {told[2]}
<1>1. PICK row \in S : Record(q, told, row)
  BY DEF OnRecord, OthersOffer
<1>2. /\ row \in RunCreations(S, Op(q))
      /\ row.run = told[2]
      /\ \A other \in RunCreations(S, Op(q)) : other = row
  BY <1>1 DEF Record, UniqueRows, SameKey, Table, RunCreations
<1> QED
  BY <1>2

LEMMA BindToldOnce ==
  ASSUME NEW S, UniqueRows(S), NEW q, NEW told, OnRecord(S, q, told), q.op = "bind"
  PROVE  {<<row.version, row.subject>> : row \in StepReceipts(S, q, "BIND")}
            = {<<told[3], q.char>>}
<1>1. PICK row \in S : Record(q, told, row)
  BY DEF OnRecord, OthersOffer
<1>2. /\ row \in StepReceipts(S, q, "BIND")
      /\ row.version = told[3] /\ row.subject = q.char
      /\ \A other \in StepReceipts(S, q, "BIND") : other = row
  BY <1>1 DEF Record, UniqueRows, SameKey, Table, StepReceipts
<1> QED
  BY <1>2

LEMMA AttachToldOnce ==
  ASSUME NEW S, UniqueRows(S), NEW q, NEW told, OnRecord(S, q, told), q.op = "attach"
  PROVE  {<<row.version, row.subject>> : row \in StepReceipts(S, q, "ATTACH")}
            = {<<told[3], q.session>>}
<1>1. PICK row \in S : Record(q, told, row)
  BY DEF OnRecord, OthersOffer
<1>2. /\ row \in StepReceipts(S, q, "ATTACH")
      /\ row.version = told[3] /\ row.subject = q.session
      /\ \A other \in StepReceipts(S, q, "ATTACH") : other = row
  BY <1>1 DEF Record, UniqueRows, SameKey, Table, StepReceipts
<1> QED
  BY <1>2

LEMMA ExitTold ==
  ASSUME NEW S, Whole(S), NEW q, NEW told, OnRecord(S, q, told), q.op = "exit"
  PROVE  Run(S, q.run).status = "TERMINATED"
<1>1. PICK row \in S : Record(q, told, row)
  BY DEF OnRecord, OthersOffer
<1> QED
  BY <1>1, ExitIsLast DEF Record

LEMMA SessionToldOnce ==
  ASSUME NEW S, UniqueRows(S), NEW q, NEW told, OnRecord(S, q, told), q.op = "create_session"
  PROVE  {<<row.session, row.body>> : row \in SessionsOf(S, Op(q))} = {<<told[2], q.body>>}
<1>1. PICK row \in S : Record(q, told, row)
  BY DEF OnRecord, OthersOffer
<1>2. /\ row \in SessionsOf(S, Op(q))
      /\ row.session = told[2] /\ row.body = q.body
      /\ \A other \in SessionsOf(S, Op(q)) : other = row
  BY <1>1 DEF Record, UniqueRows, SameKey, Table, SessionsOf
<1> QED
  BY <1>2

LEMMA RecordIsToldOnce ==
  ASSUME Whole(store), NEW q, q.op \in Operations, NEW told, OnRecord(store, q, told)
  PROVE  ToldOnce(q, told)
<1>1. UniqueRows(store)
  BY DEF Whole
<1>2. CASE q.op = "create"
  BY <1>1, <1>2, CreationToldOnce DEF ToldOnce
<1>3. CASE q.op = "mutate"
  BY <1>1, <1>3, MutationToldOnce DEF ToldOnce
<1>4. CASE q.op \in {"enter", "admit"}
  BY <1>1, <1>4, EntryToldOnce DEF ToldOnce
<1>5. CASE q.op = "prepare"
  BY <1>1, <1>5, OpeningToldOnce DEF ToldOnce
<1>6. CASE q.op = "confirm"
  BY <1>1, <1>6, ConfirmationToldOnce DEF ToldOnce
<1>7. CASE q.op = "create_run"
  BY <1>1, <1>7, RunToldOnce DEF ToldOnce
<1>8. CASE q.op = "bind"
  BY <1>1, <1>8, BindToldOnce DEF ToldOnce
<1>9. CASE q.op = "attach"
  BY <1>1, <1>9, AttachToldOnce DEF ToldOnce
<1>10. CASE q.op = "exit"
  BY <1>10, ExitTold DEF ToldOnce
<1>11. CASE q.op = "create_session"
  BY <1>1, <1>11, SessionToldOnce DEF ToldOnce
<1> QED
  BY <1>2, <1>3, <1>4, <1>5, <1>6, <1>7, <1>8, <1>9, <1>10, <1>11 DEF Operations

\* Whatever a service has answered with success, the tables tell of it once, as
\* it was asked and answered, in that state and every later one; this holds of
\* answers given at the decision, at the commit and by a recovery.
THEOREM AnswersStayOnRecord == Spec => []AnswersAreOnRecord
<1>1. Init => EntryInv /\ AnswerInv
  BY InitHolds, AnswersBegin
<1>2. EntryInv /\ AnswerInv /\ [Next]_vars => EntryInv' /\ AnswerInv'
  BY NextHolds, AnswersKept
<1>3. EntryInv /\ AnswerInv => AnswersAreOnRecord
  BY ScriptAssumption, RecordIsToldOnce DEF EntryInv, AnswerInv, AnswerOk, AnswersAreOnRecord
<1> QED
  BY <1>1, <1>2, <1>3, PTL DEF Spec

-----------------------------------------------------------------------------
(* Alarms                                                                  *)

\* The row is of the character, run, opening or session of this name.
Bears(row, n) ==
    \/ row.table = "revision" /\ row.char = n
    \/ row.table = "run" /\ row.run = n
    \/ row.table = "offer" /\ row.offer = n
    \/ row.table = "session" /\ row.session = n

\* A player's entry is complete from the start, the older one is never
\* continued, and a confirmed opening's is the one that was offered.
Entered(S) ==
    /\ \A made \in S : made.table = "run_creation" /\ made.op.family \in {"legacy", "native"} =>
          /\ \E a \in S : /\ a.table = "run" /\ a.run = made.run /\ a.version = 3
                          /\ a.status = "ACTIVE" /\ a.op = made.op
          /\ made.op.family = "legacy" =>
                \A m \in S : m.table = "run" /\ m.run = made.run => m.version <= 3
    /\ \A made, offer \in S :
          /\ made.table = "run_creation" /\ offer.table = "offer" /\ made.op = FrozenOp(offer)
          => SameEntry(made, offer)

\* The operation's own key is still free.
Unused(S, q) ==
    /\ q.op = "create" => CreationReceipts(S, q) = {}
    /\ q.op = "mutate" => MutationReceipts(S, q) = {}
    /\ q.op = "prepare" => Requested(S, q) = {}

\* From the gate to the end of its transaction.
Gated(p) == p \in {"peek", "lock", "decide", "write", "commit"}

\* Another call creates a character of the same player under another key.
Rivalled(c) ==
    \E d \in Calls \ {c} :
        /\ script[d].op = "create" /\ script[d].who = script[c].who
        /\ script[d].key # script[c].key

\* The three alarms there may be.
Excused(S, c, q) ==
    \/ q.op = "create" /\ Rivalled(c)
    \/ q.op = "attach" /\ \E row \in S : /\ row.table = "run" /\ row.run = q.run
                                         /\ row.status = "ACTIVE"
    \/ /\ q.op = "confirm" /\ q.char # None
       /\ \E m \in S : Holds(S, m, q.char) /\ m.op.family = "internal"

\* A confirmation's snapshot has every confirmation there is.
ViewHolds(S, w) ==
    /\ w # {} /\ w \subseteq S /\ Whole(w)
    /\ \A done \in S : done.table = "confirmation" => done \in w

AlarmOk(S, c, q, p, h, w, vd, a) ==
    /\ Native(q) /\ Gated(p) => NamedLock \in h
    /\ q.op = "create" /\ Locked(p) => <<"binding", q.who>> \in h
    /\ Decided(p) => vd.code = "ok"
    /\ p = "write" => Unused(S, q)
    /\ q.op = "confirm" /\ p \in {"lock", "decide"} => ViewHolds(S, w)
    /\ q.op = "create" /\ (p = "recover" \/ (p = "add binding" /\ Binding(q.who) \in S)) =>
          CreationReceipts(S, q) # {} \/ Rivalled(c)
    /\ p = "recover" => q.op # "mutate"
    /\ a.code \in Alarms => Excused(S, c, q)

\* Two creations of one player do not decide together.
CreatesApart(c, d) ==
    script[c].op = "create" /\ script[d].op = "create" /\ Locked(pc[c]) /\ Locked(pc[d]) =>
        script[c].who # script[d].who

AlarmInv ==
    /\ \A c \in Calls :
          AlarmOk(store, c, script[c], pc[c], held[c], view[c], verdict[c], answer[c])
    /\ \A c, d \in Calls : c # d => CreatesApart(c, d)
    /\ \A row \in store : \A n \in Calls : Bears(row, n) => pc[n] = "done"
    /\ Entered(store)

-----------------------------------------------------------------------------
(* What a verdict may report                                               *)

\* A mutation that was applied is replayed without a contradiction.
LEMMA MutateReuseIsQuiet ==
  ASSUME NEW S, Whole(S), NEW q, Owned(S, q), NEW receipt \in MutationReceipts(S, q)
  PROVE  MutateReuse(Character(S, q.char), q, receipt).code \notin Alarms
<1> DEFINE m == Character(S, q.char)
<1>1. Latest(S, m) /\ m.char = q.char /\ m \in S /\ m.table = "revision"
  BY OwnedHasLatest DEF Latest
<1> HIDE DEF m
<1>2. receipt \in S /\ receipt.table = "mutation_receipt" /\ receipt.char = q.char
  BY DEF MutationReceipts, Table
<1>3. PICK after \in S : /\ after.table = "revision" /\ after.char = q.char
                         /\ after.rev = receipt.rev /\ after.rev > 1
  BY <1>2 DEF Whole, CharactersWhole
<1>4. m.rev \in Nat /\ after.rev \in Nat /\ RevisionWhole(S, m)
  BY <1>1, <1>3 DEF Whole, CharactersWhole, RevisionWhole
<1>5. receipt.rev <= m.rev
  BY <1>1, <1>3 DEF Latest
<1>6. ASSUME m.rev = receipt.rev PROVE m.life = receipt.life /\ m.kind = receipt.kind
  <2>1. PICK before \in S, made \in S :
            /\ made.table = "mutation_receipt" /\ made.char = m.char
            /\ LawfulStep(before, m, made)
    BY <1>3, <1>4, <1>6 DEF RevisionWhole
  <2>2. made.rev = m.rev /\ made.life = m.life /\ made.kind = m.kind
    BY <2>1 DEF LawfulStep
  <2>3. SameKey(made, receipt)
    BY <1>1, <1>2, <1>6, <2>1, <2>2 DEF SameKey
  <2>4. made = receipt
    BY <1>2, <2>1, <2>3 DEF Whole, UniqueRows
  <2> QED
    BY <2>2, <2>4
<1>7. MutateReuse(m, q, receipt) \in {Refuse("IDEMPOTENCY_CONFLICT"),
                                      Answer(<<"mutated", q.char, receipt.rev, receipt.life>>)}
  BY <1>3, <1>4, <1>5, <1>6 DEF MutateReuse
<1> QED
  BY <1>7 DEF Refuse, Answer, Alarms, m

LEMMA MutateIsQuiet ==
  ASSUME NEW S, Whole(S), NEW q
  PROVE  MutateVerdict(S, S, q).code \notin Alarms
<1> DEFINE m == Character(S, q.char)
           reused == MutateReuse(m, q, CHOOSE row \in MutationReceipts(S, q) : TRUE)
           v == MutateVerdict(S, S, q)
<1>1. Owned(S, q) /\ MutationReceipts(S, q) # {} => reused.code \notin Alarms
  BY MutateReuseIsQuiet
<1>2. Owned(S, q) /\ ActiveRunsNamed(S, S, q.char) # {} => m.life = "ACTIVE"
  <2>1. SUFFICES ASSUME Owned(S, q), NEW r \in ActiveRuns(S, q.char) PROVE m.life = "ACTIVE"
    BY DEF ActiveRunsNamed
  <2>2. m \in S /\ m.table = "revision" /\ m.char = q.char
    BY <2>1, OwnedHasLatest DEF Latest
  <2> QED
    BY <2>1, <2>2, WholeIsSpokenFor
<1> HIDE DEF reused, m
<1>3. \/ v = Refuse("AUTHORIZATION_FAILED")
      \/ v = Refuse("REVISION_EXHAUSTED")
      \/ Owned(S, q) /\ MutationReceipts(S, q) # {} /\ v = reused
      \/ v = Refuse("STALE_REVISION")
      \/ v = Refuse("ACTIVE_BINDING_ATOMIC_LIFECYCLE_TRANSITION_REQUIRED")
      \/ v = Refuse(Policy(m, q))
      \/ v = Apply(<<"mutated", q.char, m.rev + 1, Successor[q.kind]>>, MutationRows(m, q))
  BY <1>2 DEF MutateVerdict, m, reused
<1>4. Policy(m, q) \notin Alarms
  BY DEF Policy, Alarms
<1> HIDE DEF v
<1> QED
  BY <1>1, <1>3, <1>4 DEF Refuse, Apply, Alarms, v

\* An entry that was made is replayed.
LEMMA EntryReplayIsQuiet ==
  ASSUME NEW S, Whole(S), Entered(S), NEW op, op.family \in {"legacy", "native"}, NEW q,
         NEW made \in S, made.table = "run_creation", made.op = op
  PROVE  /\ EntryReplay(S, op, q, made).code \in {"ok", "IDEMPOTENCY_CONFLICT"}
         /\ SameEntry(made, q) => EntryReplay(S, op, q, made).code = "ok"
<1>1. PICK a \in S : /\ a.table = "run" /\ a.run = made.run /\ a.version = 3
                     /\ a.status = "ACTIVE" /\ a.op = op
  BY DEF Entered
<1>2. RunRowLawful(S, a)
  BY <1>1 DEF Whole, RunsWhole, RunRowWhole
<1>3. a.kind = "ATTACH"
  BY <1>1, <1>2 DEF RunRowLawful, RunShape
<1>4. PICK p \in S : p.table = "participation" /\ p.run = made.run /\ p.version = 3
  BY <1>1, <1>2, <1>3 DEF RunRowLawful, Joined
<1>5. \E row \in Participations(S, made.run) : row.version = 3
  BY <1>4 DEF Participations, Table
<1>6. op.family = "native" => \E row \in Table(S, "admission") : row.run = made.run
  BY <1>1, <1>2 DEF RunRowLawful, Table
<1>7. RunRevisions(S, made.run) # {}
  BY <1>1 DEF RunRevisions, Table
<1>8. op.family = "legacy" => Run(S, made.run).version = 3
  <2> DEFINE m == Run(S, made.run)
  <2>1. LatestRun(S, m) /\ m.run = made.run
    BY <1>7, RunIsLatest
  <2> HIDE DEF m
  <2>2. m \in S /\ m.table = "run" /\ m.version >= 3
    BY <1>1, <2>1 DEF LatestRun
  <2>3. m.version \in Nat
    BY <2>2 DEF Whole, RunsWhole, RunRowWhole, RunRowPlaced
  <2>4. op.family = "legacy" => m.version <= 3
    BY <2>1, <2>2 DEF Entered
  <2> QED
    BY <2>2, <2>3, <2>4 DEF m
<1> DEFINE told == <<"run", made.run, FirstSession(S, made.run)>>
           v == EntryReplay(S, op, q, made)
<1>9. v = IF SameEntry(made, q) THEN Answer(told) ELSE Refuse("IDEMPOTENCY_CONFLICT")
  BY <1>5, <1>6, <1>7, <1>8 DEF EntryReplay, LegacyReplay, NativeReplay
<1> HIDE DEF told, v
<1> QED
  BY <1>9 DEF Answer, Refuse, v

LEMMA StageIsQuiet ==
  ASSUME NEW S, NEW V, NEW op, NEW q, NEW r, NEW s
  PROVE  EntryStage(S, V, op, q, r, s).code \notin Alarms
<1> DEFINE v == EntryStage(S, V, op, q, r, s)
           rows == EntryRows(op, q, r, s)
<1>1. v \in {Refuse("PLAYER_CHARACTER_STALE"), Refuse("PLAYER_CHARACTER_NOT_ELIGIBLE"),
             Refuse("INVALID_SCENARIO_DEFINITION"), Refuse("INVALID_ENTRY_WORLD"),
             Refuse("RUN_ENTRY_CONFLICT"),
             Apply(<<"run", r, s>>, rows)}
  BY DEF EntryStage
<1> HIDE DEF v, rows
<1> QED
  BY <1>1 DEF Refuse, Apply, Alarms, v

LEMMA EnterIsQuiet ==
  ASSUME NEW S, Whole(S), Entered(S), NEW q, q.op \in {"enter", "admit"}, NEW r, NEW s
  PROVE  EnterVerdict(S, S, q, r, s).code \notin Alarms
<1> DEFINE made == CHOOSE row \in RunCreations(S, Op(q)) : TRUE
           v == EnterVerdict(S, S, q, r, s)
           replay == EntryReplay(S, Op(q), q, made)
           stage == EntryStage(S, S, Op(q), q, r, s)
<1>1. Op(q).family \in {"legacy", "native"}
  BY DEF Op
<1>2. RunCreations(S, Op(q)) # {} => made \in S /\ made.table = "run_creation" /\ made.op = Op(q)
  BY DEF RunCreations, Table
<1> HIDE DEF made
<1>3. RunCreations(S, Op(q)) # {} => replay.code \notin Alarms
  BY <1>1, <1>2, EntryReplayIsQuiet DEF Alarms
<1>4. stage.code \notin Alarms
  BY StageIsQuiet
<1>5. \/ v \in {Refuse("AUTHORIZATION_FAILED"), Refuse("RUN_ENTRY_CONFLICT"),
                Refuse("PLAYER_CHARACTER_NOT_ELIGIBLE")}
      \/ RunCreations(S, Op(q)) # {} /\ v = replay
      \/ v = stage
  BY DEF EnterVerdict, made
<1> HIDE DEF v, replay, stage
<1> QED
  BY <1>3, <1>4, <1>5 DEF Refuse, Alarms, v

LEMMA PrepareIsQuiet ==
  ASSUME NEW S, NEW q, NEW o
  PROVE  PrepareVerdict(S, S, q, o).code \notin Alarms
<1> DEFINE v == PrepareVerdict(S, S, q, o)
<1>1. \/ \E code \in {"PLAYER_CHARACTER_NOT_FOUND", "IDEMPOTENCY_CONFLICT", "PLAYER_CHARACTER_STALE",
                      "PLAYER_CHARACTER_NOT_ELIGIBLE", "INVALID_ENTRY_WORLD"} : v = Refuse(code)
      \/ \E told : v = Answer(told)
      \/ \E told, rows : v = Apply(told, rows)
  BY DEF PrepareVerdict
<1> HIDE DEF v
<1> QED
  BY <1>1 DEF Refuse, Answer, Apply, Alarms, v

\* A confirmation that was made is replayed from an older snapshot too.
LEMMA ConfirmIsQuiet ==
  ASSUME NEW S, Whole(S), Entered(S), NEW V, ViewHolds(S, V), NEW q, OfferFound(S, q), NEW r, NEW s
  PROVE  ConfirmVerdict(S, V, q, r, s).code \notin Alarms
<1> DEFINE offer == CHOOSE row \in Table(S, "offer") : row.offer = q.offer
           op == FrozenOp(offer)
           stage == EntryStage(S, V, op, offer, r, s)
           done == CHOOSE row \in Confirmations(S, q.offer) : TRUE
           made == CHOOSE row \in RunCreations(V, op) : TRUE
           v == ConfirmVerdict(S, V, q, r, s)
<1>1. offer \in S /\ offer.table = "offer" /\ offer.offer = q.offer
  BY DEF OfferFound, Table
<1>2. stage.code \notin Alarms
  BY StageIsQuiet
<1>3. op.family = "native"
  BY DEF FrozenOp
<1>4. ASSUME Confirmations(S, q.offer) # {}
      PROVE  /\ RunCreations(V, op) # {} /\ EntryReplay(S, op, offer, made).code = "ok"
  <2>1. PICK paid \in S : paid.table = "confirmation" /\ paid.offer = q.offer
    BY <1>4 DEF Confirmations, Table
  <2>2. PICK other \in V, row \in V :
            /\ other.table = "offer" /\ other.offer = q.offer
            /\ row.table = "run_creation" /\ row.op = FrozenOp(other)
    BY <2>1 DEF ViewHolds, Whole, OpeningsWhole
  <2>3. other \in S /\ SameKey(other, offer)
    BY <1>1, <2>2 DEF ViewHolds, SameKey
  <2>4. other = offer
    BY <1>1, <2>3 DEF Whole, UniqueRows
  <2> HIDE DEF offer
  <2>5. RunCreations(V, op) # {}
    BY <2>2, <2>4 DEF RunCreations, Table
  <2>6. made \in S /\ made.table = "run_creation" /\ made.op = op
    BY <2>5 DEF RunCreations, Table, ViewHolds
  <2> HIDE DEF made
  <2>7. SameEntry(made, offer)
    BY <1>1, <2>6 DEF Entered
  <2> QED
    BY <1>3, <2>5, <2>6, <2>7, EntryReplayIsQuiet
<1> HIDE DEF offer, made
<1>5. \/ v \in {Refuse("PLAYER_CHARACTER_NOT_FOUND"), Refuse("INVALID_TALENT_SELECTION"),
                Refuse("IDEMPOTENCY_CONFLICT"), Answer(<<"confirmed", q.offer, done.run>>),
                Refuse("OPENING_PREPARATION_STALE")}
      \/ v = stage
      \/ \E told, rows : v = Apply(told, rows)
  BY <1>4 DEF ConfirmVerdict, offer, made
<1> HIDE DEF v, stage, done
<1> QED
  BY <1>2, <1>5 DEF Refuse, Answer, Apply, Alarms, v

LEMMA BindIsQuiet ==
  ASSUME NEW S, NEW q
  PROVE  BindVerdict(S, S, q).code \notin Alarms
<1> DEFINE v == BindVerdict(S, S, q)
           receipt == CHOOSE row \in StepReceipts(S, q, "BIND") : TRUE
           refusal == StepRefusal(Run(S, q.run), q)
<1>1. StepReplay(receipt, q.char, q) \in {Answer(<<"step", q.run, receipt.version>>), Refuse("CONFLICT")}
  BY DEF StepReplay
<1>2. refusal \in {"NON_ACTIVE_RUN", "STALE_VERSION", "none"}
  BY DEF StepRefusal
<1> HIDE DEF receipt, refusal
<1>3. \/ \E code \in {"AUTHORIZATION_FAILED", "RUN_NOT_FOUND", "PLAYER_CHARACTER_INELIGIBLE",
                      "PLAYER_CHARACTER_BINDING_CONFLICT", refusal} : v = Refuse(code)
      \/ v = StepReplay(receipt, q.char, q)
      \/ \E told, rows : v = Apply(told, rows)
  BY DEF BindVerdict, receipt, refusal
<1> HIDE DEF v
<1> QED
  BY <1>1, <1>2, <1>3 DEF Refuse, Answer, Apply, Alarms, v

\* A session is refused as a contradiction by an active run, and only by one.
LEMMA AttachAlarm ==
  ASSUME NEW S, Whole(S), NEW q, AttachVerdict(S, S, q).code \in Alarms
  PROVE  \E row \in S : row.table = "run" /\ row.run = q.run /\ row.status = "ACTIVE"
<1> DEFINE v == AttachVerdict(S, S, q)
           m == Run(S, q.run)
           receipt == CHOOSE row \in StepReceipts(S, q, "ATTACH") : TRUE
           refusal == StepRefusal(m, q)
<1>1. StepReplay(receipt, q.session, q)
         \in {Answer(<<"step", q.run, receipt.version>>), Refuse("CONFLICT")}
  BY DEF StepReplay
<1>2. refusal \in {"NON_ACTIVE_RUN", "STALE_VERSION", "none"}
  BY DEF StepRefusal
<1>3. RunRevisions(S, q.run) # {} => m \in S /\ m.table = "run" /\ m.run = q.run
  BY RunIsLatest DEF LatestRun
<1> HIDE DEF receipt, refusal, m
<1>4. \/ \E code \in {"AUTHORIZATION_FAILED", "RUN_NOT_FOUND", "SESSION_PARTICIPATION_CONFLICT",
                      refusal} : v = Refuse(code)
      \/ v = StepReplay(receipt, q.session, q)
      \/ RunRevisions(S, q.run) # {} /\ m.status = "ACTIVE"
      \/ \E told, rows : v = Apply(told, rows)
  BY DEF AttachVerdict, receipt, refusal, m
<1>5. v.code \in Alarms
  OBVIOUS
<1> HIDE DEF v
<1>6. RunRevisions(S, q.run) # {} /\ m.status = "ACTIVE"
  BY <1>1, <1>2, <1>4, <1>5 DEF Refuse, Answer, Apply, Alarms
<1> QED
  BY <1>3, <1>6

\* The verdicts of the other operations.
LEMMA OthersAreQuiet ==
  ASSUME NEW S, NEW q, NEW c
  PROVE  /\ CreateVerdict(S, q, c).code \notin Alarms
         /\ CreateRunVerdict(S, q, c).code \notin Alarms
         /\ ExitVerdict(S, q).code \notin Alarms
         /\ CreateSessionVerdict(S, q, c).code \notin Alarms
<1>1. \A row : CreateReuse(q, row).code \notin Alarms /\ SessionReplay(q, row).code \notin Alarms
  BY DEF CreateReuse, SessionReplay, Answer, Refuse, Alarms
<1>2. CreateVerdict(S, q, c).code \notin Alarms
  BY <1>1 DEF CreateVerdict, Apply, Alarms
<1>3. CreateRunVerdict(S, q, c).code \notin Alarms
  BY DEF CreateRunVerdict, Answer, Apply, Alarms
<1>4. ExitVerdict(S, q).code \notin Alarms
  BY DEF ExitVerdict, Refuse, Apply, Alarms
<1>5. CreateSessionVerdict(S, q, c).code \notin Alarms
  BY <1>1 DEF CreateSessionVerdict, Apply, Alarms
<1> QED
  BY <1>2, <1>3, <1>4, <1>5

LEMMA VerdictAlarm ==
  ASSUME NEW S, Whole(S), Entered(S), NEW V, NEW q, NEW c, q.op \in Operations,
         q.op # "confirm" => V = S,
         q.op = "confirm" => OfferFound(S, q) /\ ViewHolds(S, V),
         VerdictOf(S, V, q, c).code \in Alarms
  PROVE  Excused(S, c, q)
<1>1. CASE q.op = "create"
  BY <1>1, OthersAreQuiet DEF VerdictOf
<1>2. CASE q.op = "mutate"
  BY <1>2, MutateIsQuiet DEF VerdictOf
<1>3. CASE q.op \in {"enter", "admit"}
  BY <1>3, EnterIsQuiet DEF VerdictOf
<1>4. CASE q.op = "prepare"
  BY <1>4, PrepareIsQuiet DEF VerdictOf
<1>5. CASE q.op = "confirm"
  BY <1>5, ConfirmIsQuiet DEF VerdictOf
<1>6. CASE q.op = "create_run"
  BY <1>6, OthersAreQuiet DEF VerdictOf
<1>7. CASE q.op = "bind"
  BY <1>7, BindIsQuiet DEF VerdictOf
<1>8. CASE q.op = "attach"
  BY <1>8, AttachAlarm DEF VerdictOf, Excused
<1>9. CASE q.op = "exit"
  BY <1>9, OthersAreQuiet DEF VerdictOf
<1>10. CASE q.op = "create_session"
  BY <1>10, OthersAreQuiet DEF VerdictOf
<1> QED
  BY <1>1, <1>2, <1>3, <1>4, <1>5, <1>6, <1>7, <1>8, <1>9, <1>10 DEF Operations

\* A verdict that inserts rows is a success, and found its own key free.
LEMMA VerdictWrites ==
  ASSUME NEW S, NEW V, NEW q, NEW c, q.op \in Operations, q.op # "confirm" => V = S,
         VerdictOf(S, V, q, c).rows # {}
  PROVE  VerdictOf(S, V, q, c).code = "ok" /\ Unused(S, q)
<1> DEFINE v == VerdictOf(S, V, q, c)
           stage(op, p) == EntryStage(S, V, op, p, c, c)
<1>1. \A row, subject :
          /\ CreateReuse(q, row).rows = {} /\ SessionReplay(q, row).rows = {}
          /\ StepReplay(row, subject, q).rows = {}
          /\ \A m : MutateReuse(m, q, row).rows = {}
          /\ \A op, p : EntryReplay(S, op, p, row).rows = {}
  BY DEF CreateReuse, SessionReplay, StepReplay, MutateReuse, EntryReplay, LegacyReplay,
         NativeReplay, Answer, Refuse
<1>2. \A op, p : stage(op, p).rows # {} => stage(op, p).code = "ok"
  BY DEF EntryStage, Apply, Refuse
<1> HIDE DEF stage
<1>3. CASE q.op = "create"
  BY <1>1, <1>3 DEF VerdictOf, CreateVerdict, Apply, Unused
<1>4. CASE q.op = "mutate"
  BY <1>1, <1>4 DEF VerdictOf, MutateVerdict, Apply, Refuse, Unused
<1>5. CASE q.op \in {"enter", "admit"}
  BY <1>1, <1>2, <1>5 DEF VerdictOf, EnterVerdict, Refuse, Unused, stage
<1>6. CASE q.op = "prepare"
  BY <1>6 DEF VerdictOf, PrepareVerdict, Apply, Answer, Refuse, Unused
<1>7. CASE q.op = "confirm"
  <2>1. v = ConfirmVerdict(S, V, q, c, c)
    BY <1>7 DEF VerdictOf
  <2> DEFINE offer == CHOOSE row \in Table(S, "offer") : row.offer = q.offer
             first == stage(FrozenOp(offer), offer)
  <2>2. \/ \E code : v = Refuse(code)
        \/ \E told : v = Answer(told)
        \/ \E told, rows : v = Apply(told, rows)
        \/ v = first
    BY <2>1 DEF ConfirmVerdict, stage
  <2> QED
    BY <1>2, <1>7, <2>2 DEF Apply, Answer, Refuse, Unused
<1>8. CASE q.op = "create_run"
  BY <1>8 DEF VerdictOf, CreateRunVerdict, Apply, Answer, Unused
<1>9. CASE q.op = "bind"
  BY <1>1, <1>9 DEF VerdictOf, BindVerdict, Apply, Refuse, Unused
<1>10. CASE q.op = "attach"
  BY <1>1, <1>10 DEF VerdictOf, AttachVerdict, Apply, Refuse, Unused
<1>11. CASE q.op = "exit"
  BY <1>11 DEF VerdictOf, ExitVerdict, Apply, Refuse, Unused
<1>12. CASE q.op = "create_session"
  BY <1>1, <1>12 DEF VerdictOf, CreateSessionVerdict, Apply, Unused
<1> QED
  BY <1>3, <1>4, <1>5, <1>6, <1>7, <1>8, <1>9, <1>10, <1>11, <1>12 DEF Operations

-----------------------------------------------------------------------------
(* Which rows find their keys free                                         *)

\* A joined session exists.
LEMMA JoinedSessionExists ==
  ASSUME NEW S, Whole(S), NEW p \in S, p.table = "participation"
  PROVE  \E row \in S : row.table = "session" /\ row.session = p.session
<1>1. PICK m \in S : m.table = "run" /\ m.run = p.run /\ m.version = p.version
  BY DEF Whole, RunsWhole
<1>2. RunRowLawful(S, m)
  BY <1>1 DEF Whole, RunsWhole, RunRowWhole
<1>3. m.kind = "ATTACH"
  BY <1>1, <1>2 DEF RunRowLawful, Joined
<1>4. HasReceipt(S, m)
  BY <1>2, <1>3 DEF RunRowLawful, RunShape
<1>5. PICK receipt \in S, other \in S :
          /\ other.table = "participation" /\ other.run = m.run /\ other.version = m.version
          /\ other.session = receipt.subject
          /\ \E s \in S : s.table = "session" /\ s.session = receipt.subject
  BY <1>3, <1>4 DEF HasReceipt
<1>6. other = p
  <2>1. SameKey(other, p)
    BY <1>1, <1>5 DEF SameKey
  <2> QED
    BY <1>5, <2>1 DEF Whole, UniqueRows
<1> QED
  BY <1>5, <1>6

\* Nothing is of a run that has no row.
LEMMA NothingOfNoRun ==
  ASSUME NEW S, Whole(S), NEW r, \A m \in S : m.table = "run" => m.run # r
  PROVE  \A row \in S :
            row.table \in {"run_creation", "run_receipt", "participation", "admission",
                           "confirmation"} => row.run # r
<1>1. \A row \in S : row.table \in {"run_creation", "run_receipt", "participation", "admission"} =>
          row.run # r
  BY DEF Whole, RunsWhole
<1>2. \A done \in S : done.table = "confirmation" =>
          \E made \in S : made.table = "run_creation" /\ made.run = done.run
  BY DEF Whole, OpeningsWhole
<1> QED
  BY <1>1, <1>2

LEMMA CreationIsFree ==
  ASSUME NEW S, Whole(S), NEW q, NEW c, \A row \in S : ~Bears(row, c), CreationReceipts(S, q) = {}
  PROVE  Apart(S, CreationRows(q, c))
<1>1. SUFFICES ASSUME NEW a \in S, NEW b \in CreationRows(q, c), SameKey(a, b) PROVE FALSE
  BY DEF Apart
<1>2. CASE b = Revision(c, 1, "ACTIVE", q.who, "CREATE", q.body)
  BY <1>1, <1>2 DEF SameKey, Revision, Bears
<1>3. CASE b = CreationReceipt(q, c)
  <2>1. /\ a.table = "creation_receipt"
        /\ (a.who = q.who /\ a.key = q.key) \/ a.char = c
    BY <1>1, <1>3 DEF SameKey, CreationReceipt
  <2>2. a.char # c
    BY <1>1, <2>1 DEF Whole, CharactersWhole, Bears
  <2> QED
    BY <1>1, <2>1, <2>2 DEF CreationReceipts, Table
<1> QED
  BY <1>1, <1>2, <1>3 DEF CreationRows

LEMMA MutationIsFree ==
  ASSUME NEW S, Whole(S), NEW q, MutationReceipts(S, q) = {}, NEW rows, MutateReady(S, q, rows)
  PROVE  Apart(S, rows)
<1>1. PICK m \in S : Latest(S, m) /\ m.char = q.char /\ rows = MutationRows(m, q)
  BY DEF MutateReady
<1>2. m.table = "revision" /\ m.rev \in Nat
  BY <1>1 DEF Latest, Whole, CharactersWhole, RevisionWhole
<1>3. \A a \in S : a.table = "revision" /\ a.char = q.char => a.rev # m.rev + 1
  <2>1. SUFFICES ASSUME NEW a \in S, a.table = "revision", a.char = q.char, a.rev = m.rev + 1
                 PROVE  FALSE
    OBVIOUS
  <2>2. a.rev <= m.rev
    BY <1>1, <2>1 DEF Latest
  <2> QED
    BY <1>2, <2>1, <2>2
<1>4. \A a \in S : a.table = "mutation_receipt" /\ a.char = q.char =>
          a.rev # m.rev + 1 /\ a.key # q.key
  BY <1>3 DEF Whole, CharactersWhole, MutationReceipts, Table
<1>5. SUFFICES ASSUME NEW a \in S, NEW b \in rows, SameKey(a, b) PROVE FALSE
  BY DEF Apart
<1>6. CASE b = Revision(q.char, m.rev + 1, Successor[q.kind], m.who, q.kind, m.body)
  BY <1>3, <1>5, <1>6 DEF SameKey, Revision
<1>7. CASE b = MutationReceipt(m, q, Successor[q.kind])
  BY <1>4, <1>5, <1>7 DEF SameKey, MutationReceipt
<1> QED
  BY <1>1, <1>5, <1>6, <1>7 DEF MutationRows

LEMMA OfferIsFree ==
  ASSUME NEW S, Whole(S), NEW q, NEW c, \A row \in S : ~Bears(row, c), Requested(S, q) = {},
         NEW rows, PrepareReady(S, q, c, rows)
  PROVE  Apart(S, rows)
<1>1. PICK ordinal \in Nat : NextOrdinal(S, q.char, ordinal) /\ rows = {OfferRow(c, q, ordinal)}
  BY DEF PrepareReady
<1>2. \A a \in S : a.table = "offer" => a.ordinal \in Nat
  BY DEF Whole, OpeningsWhole, OfferWhole
<1>3. \A a \in S : a.table = "offer" /\ a.char = q.char => a.ordinal # ordinal
  <2>1. SUFFICES ASSUME NEW a \in S, a.table = "offer", a.char = q.char, a.ordinal = ordinal
                 PROVE  FALSE
    OBVIOUS
  <2>2. PICK last \in S : IsLastOffer(S, last) /\ last.char = q.char /\ ordinal = last.ordinal + 1
    BY <1>1, <2>1 DEF NextOrdinal
  <2>3. a.ordinal <= last.ordinal /\ last.table = "offer"
    BY <2>1, <2>2 DEF IsLastOffer
  <2>4. a.ordinal \in Nat /\ last.ordinal \in Nat
    BY <1>2, <2>1, <2>3
  <2> QED
    BY <2>1, <2>2, <2>3, <2>4
<1>4. SUFFICES ASSUME NEW a \in S, SameKey(a, OfferRow(c, q, ordinal)) PROVE FALSE
  BY <1>1 DEF Apart
<1>5. a.table = "offer"
  BY <1>4 DEF SameKey, OfferRow
<1>6. \/ a.offer = c
      \/ a.who = q.who /\ a.key = q.key
      \/ a.char = q.char /\ a.ordinal = ordinal
  BY <1>4, <1>5 DEF SameKey, OfferRow
<1> QED
  BY <1>3, <1>5, <1>6 DEF Bears, Requested, Table

LEMMA ConfirmationIsFree ==
  ASSUME NEW S, Whole(S), AskedFor(S), NEW q, NEW c, \A row \in S : ~Bears(row, c),
         NEW rows, ConfirmReady(S, q, c, rows)
  PROVE  Apart(S, rows)
<1>1. PICK offer \in S :
          /\ Unconfirmed(S, offer) /\ offer.offer = q.offer
          /\ rows = EntryRows(FrozenOp(offer), offer, c, c) \cup {Confirmation(offer, q.pick, c)}
  BY DEF ConfirmReady
<1> DEFINE op == FrozenOp(offer)
<1>2. op.family = "native" /\ op.offer = offer.offer
  BY DEF FrozenOp
<1>3. offer.offer # None
  BY <1>1 DEF AskedFor, Unconfirmed
<1>4. \A a \in S : a.table = "confirmation" => a.offer # offer.offer
  BY <1>1 DEF Unconfirmed
<1>5. \A a \in S : a.table \in {"run_creation", "session"} => a.op # op
  <2>1. SUFFICES ASSUME NEW a \in S, a.table \in {"run_creation", "session"}, a.op = op PROVE FALSE
    OBVIOUS
  <2>2. a.op.family = "native" /\ a.op.offer = offer.offer
    BY <1>2, <2>1
  <2>3. \E done \in S : done.table = "confirmation" /\ done.offer = offer.offer
    BY <1>3, <2>1, <2>2 DEF AskedFor
  <2> QED
    BY <1>4, <2>3
<1> HIDE DEF op
<1>6. \A a \in S : a.table = "run" => a.run # c
  BY DEF Bears
<1>7. \A a \in S : a.table \in {"run_creation", "run_receipt", "participation", "admission",
                               "confirmation"} => a.run # c
  BY <1>6, NothingOfNoRun
<1>8. \A a \in S : a.table = "session" => a.session # c
  BY DEF Bears
<1>9. \A a \in S : a.table = "participation" => a.session # c
  BY <1>8, JoinedSessionExists
<1>10. SUFFICES ASSUME NEW a \in S, NEW b \in rows, SameKey(a, b) PROVE FALSE
  BY DEF Apart
<1>11. a.table = b.table
  BY <1>10 DEF SameKey
<1>12. \/ b = Session(c, op, offer.world)
       \/ b.table = "run" /\ b.run = c
       \/ b.table = "run_creation" /\ b.op = op /\ b.run = c
       \/ b.table = "run_receipt" /\ b.run = c
       \/ b.table = "participation" /\ b.run = c /\ b.session = c
       \/ b.table = "admission" /\ b.run = c
       \/ b.table = "confirmation" /\ b.run = c /\ b.offer = offer.offer
  BY <1>1 DEF EntryRows, EntryCreation, EntryBinding, EntryActivation, RunRow, RunCreation,
              Admission, RunReceipt, Participation, Confirmation, op
<1>13. b = Session(c, op, offer.world) => b.table = "session" /\ b.session = c /\ b.op = op
  BY DEF Session
<1> QED
  BY <1>4, <1>5, <1>6, <1>7, <1>8, <1>9, <1>10, <1>11, <1>12, <1>13 DEF SameKey

LEMMA ExitIsFree ==
  ASSUME NEW S, Whole(S), NEW q, NEW rows, ExitReady(S, q, rows)
  PROVE  Apart(S, rows)
<1>1. PICK m \in S :
          /\ LatestRun(S, m) /\ m.run = q.run /\ m.status = "ACTIVE"
          /\ rows = {RunRow(q.run, 4, "TERMINATED", "EXIT", m.op, m.char, m.rev),
                     RunReceipt(q.run, 4, "EXIT", Op(q), q.run)}
  BY DEF ExitReady
<1>2. m.table = "run" /\ m.version = 3
  BY <1>1 DEF LatestRun, Whole, RunsWhole, RunRowWhole, RunRowLawful, RunShape
<1>3. \A a \in S : a.table = "run" /\ a.run = q.run => a.version <= 3 /\ a.kind # "EXIT"
  <2>1. SUFFICES ASSUME NEW a \in S, a.table = "run", a.run = q.run
                 PROVE  a.version <= 3 /\ a.kind # "EXIT"
    OBVIOUS
  <2>2. a.version <= 3
    BY <1>1, <1>2, <2>1 DEF LatestRun
  <2>3. RunShape(a)
    BY <2>1 DEF Whole, RunsWhole, RunRowWhole, RunRowLawful
  <2> QED
    BY <2>2, <2>3 DEF RunShape
<1>4. \A a \in S : a.table = "run_receipt" /\ a.run = q.run => a.version # 4 /\ a.kind # "EXIT"
  <2>1. SUFFICES ASSUME NEW a \in S, a.table = "run_receipt", a.run = q.run
                 PROVE  a.version # 4 /\ a.kind # "EXIT"
    OBVIOUS
  <2>2. PICK n \in S : /\ n.table = "run" /\ n.run = q.run
                       /\ n.version = a.version /\ n.version > 1
    BY <2>1 DEF Whole, RunsWhole
  <2>3. HasReceipt(S, n)
    BY <2>2 DEF Whole, RunsWhole, RunRowWhole, RunRowLawful
  <2>4. PICK other \in S : /\ other.table = "run_receipt" /\ other.run = n.run
                           /\ other.version = n.version /\ other.kind = n.kind
    BY <2>3 DEF HasReceipt
  <2>5. other = a
    <3>1. SameKey(other, a)
      BY <2>1, <2>2, <2>4 DEF SameKey
    <3> QED
      BY <2>4, <3>1 DEF Whole, UniqueRows
  <2>6. n.version <= 3 /\ n.kind # "EXIT"
    BY <1>3, <2>2
  <2> QED
    BY <2>2, <2>4, <2>5, <2>6
<1>5. SUFFICES ASSUME NEW a \in S, NEW b \in rows, SameKey(a, b) PROVE FALSE
  BY DEF Apart
<1>6. CASE b = RunRow(q.run, 4, "TERMINATED", "EXIT", m.op, m.char, m.rev)
  <2>1. a.table = "run" /\ a.run = q.run /\ a.version = 4
    BY <1>5, <1>6 DEF SameKey, RunRow
  <2>2. a.version <= 3
    BY <1>3, <2>1
  <2> QED
    BY <2>1, <2>2
<1>7. CASE b = RunReceipt(q.run, 4, "EXIT", Op(q), q.run)
  BY <1>4, <1>5, <1>7 DEF SameKey, RunReceipt
<1> QED
  BY <1>1, <1>5, <1>6, <1>7

\* The rows of these operations meet nobody's.
LEMMA KeysAreFree ==
  ASSUME NEW S, Whole(S), AskedFor(S), NEW q, NEW c, \A row \in S : ~Bears(row, c), Unused(S, q),
         q.op \in {"create", "mutate", "prepare", "confirm", "exit"}, NEW rows, Ready(S, q, c, rows)
  PROVE  Apart(S, rows)
<1>1. CASE q.op = "create"
  BY <1>1, CreationIsFree DEF Ready, Unused
<1>2. CASE q.op = "mutate"
  BY <1>2, MutationIsFree DEF Ready, Unused
<1>3. CASE q.op = "prepare"
  BY <1>3, OfferIsFree DEF Ready, Unused
<1>4. CASE q.op = "confirm"
  BY <1>4, ConfirmationIsFree DEF Ready
<1>5. CASE q.op = "exit"
  BY <1>5, ExitIsFree DEF Ready
<1> QED
  BY <1>1, <1>2, <1>3, <1>4, <1>5

-----------------------------------------------------------------------------
(* What a commit leaves true                                               *)

\* An entry's rows are of its own call.
LEMMA EntryBears ==
  ASSUME NEW op, NEW q, NEW r
  PROVE  \A row \in EntryRows(op, q, r, r) : \A n : Bears(row, n) => n = r
  BY DEF EntryRows, EntryCreation, EntryBinding, EntryActivation, Session, RunRow, RunCreation,
         Admission, RunReceipt, Participation, Bears

\* A call adds rows of what there is, or of its own name.
LEMMA ReadyBears ==
  ASSUME NEW S, NEW q, NEW c, NEW rows, Ready(S, q, c, rows), NEW row \in rows, NEW n, Bears(row, n)
  PROVE  n = c \/ \E old \in S : Bears(old, n)
<1>1. CASE q.op = "create" /\ rows = CreationRows(q, c)
  BY <1>1 DEF CreationRows, Revision, CreationReceipt, Bears
<1>2. CASE q.op = "mutate" /\ MutateReady(S, q, rows)
  <2>1. PICK m \in S : m.table = "revision" /\ m.char = q.char /\ rows = MutationRows(m, q)
    BY <1>2 DEF MutateReady, Latest
  <2>2. n = q.char
    BY <2>1 DEF MutationRows, Revision, MutationReceipt, Bears
  <2> QED
    BY <2>1, <2>2 DEF Bears
<1>3. CASE q.op \in {"enter", "admit"} /\ EnterReady(S, q, c, rows)
  BY <1>3, EntryBears DEF EnterReady
<1>4. CASE q.op = "prepare" /\ PrepareReady(S, q, c, rows)
  BY <1>4 DEF PrepareReady, OfferRow, Bears
<1>5. CASE q.op = "confirm" /\ ConfirmReady(S, q, c, rows)
  <2>1. PICK offer \in S :
          rows = EntryRows(FrozenOp(offer), offer, c, c) \cup {Confirmation(offer, q.pick, c)}
    BY <1>5 DEF ConfirmReady
  <2>2. ~Bears(Confirmation(offer, q.pick, c), n)
    BY DEF Confirmation, Bears
  <2> QED
    BY <2>1, <2>2, EntryBears
<1>6. CASE q.op = "create_run" /\ rows = RunMade(Op(q), c, None, None, None)
  BY <1>6 DEF RunMade, RunRow, RunCreation, Bears
<1>7. CASE q.op = "bind" /\ BindReady(S, q, rows)
  <2>1. n = q.run
    BY <1>7 DEF BindReady, RunRow, RunReceipt, Bears
  <2> QED
    BY <1>7, <2>1 DEF BindReady, LatestRun, Bears
<1>8. CASE q.op = "attach" /\ AttachReady(S, q, rows)
  <2>1. n = q.run
    BY <1>8 DEF AttachReady, RunRow, RunReceipt, Participation, Bears
  <2> QED
    BY <1>8, <2>1 DEF AttachReady, LatestRun, Bears
<1>9. CASE q.op = "exit" /\ ExitReady(S, q, rows)
  <2>1. n = q.run
    BY <1>9 DEF ExitReady, RunRow, RunReceipt, Bears
  <2> QED
    BY <1>9, <2>1 DEF ExitReady, LatestRun, Bears
<1>10. CASE q.op = "create_session" /\ rows = {Session(c, Op(q), q.body)}
  BY <1>10 DEF Session, Bears
<1> QED
  BY <1>1, <1>2, <1>3, <1>4, <1>5, <1>6, <1>7, <1>8, <1>9, <1>10 DEF Ready

\* The tables each operation writes to.
LEMMA EntryTables ==
  ASSUME NEW op, NEW q, NEW r
  PROVE  \A row \in EntryRows(op, q, r, r) :
            row.table \in {"run", "run_creation", "run_receipt", "participation", "session", "admission"}
  BY DEF EntryRows, EntryCreation, EntryBinding, EntryActivation, Session, RunRow, RunCreation,
         Admission, RunReceipt, Participation

LEMMA ReadyTables ==
  ASSUME NEW S, NEW q, NEW c, NEW rows, Ready(S, q, c, rows), NEW row \in rows
  PROVE  /\ row.table = "creation_receipt" =>
               q.op = "create" /\ row.who = q.who /\ row = CreationReceipt(q, c)
         /\ row.table = "mutation_receipt" => q.op = "mutate" /\ row.char = q.char
         /\ row.table = "offer" => q.op = "prepare" /\ row.offer = c
         /\ row.table = "confirmation" => q.op = "confirm"
<1>1. CASE q.op = "create" /\ rows = CreationRows(q, c)
  BY <1>1 DEF CreationRows, Revision, CreationReceipt
<1>2. CASE q.op = "mutate" /\ MutateReady(S, q, rows)
  BY <1>2 DEF MutateReady, MutationRows, Revision, MutationReceipt
<1>3. CASE q.op \in {"enter", "admit"} /\ EnterReady(S, q, c, rows)
  BY <1>3, EntryTables DEF EnterReady
<1>4. CASE q.op = "prepare" /\ PrepareReady(S, q, c, rows)
  BY <1>4 DEF PrepareReady, OfferRow
<1>5. CASE q.op = "confirm" /\ ConfirmReady(S, q, c, rows)
  <2>1. PICK offer \in S :
          rows = EntryRows(FrozenOp(offer), offer, c, c) \cup {Confirmation(offer, q.pick, c)}
    BY <1>5 DEF ConfirmReady
  <2>2. Confirmation(offer, q.pick, c).table = "confirmation"
    BY DEF Confirmation
  <2>3. row.table \in {"run", "run_creation", "run_receipt", "participation", "session", "admission",
                       "confirmation"}
    BY <2>1, <2>2, EntryTables
  <2> QED
    BY <1>5, <2>3
<1>6. CASE q.op = "create_run" /\ rows = RunMade(Op(q), c, None, None, None)
  BY <1>6 DEF RunMade, RunRow, RunCreation
<1>7. CASE q.op = "bind" /\ BindReady(S, q, rows)
  BY <1>7 DEF BindReady, RunRow, RunReceipt
<1>8. CASE q.op = "attach" /\ AttachReady(S, q, rows)
  BY <1>8 DEF AttachReady, RunRow, RunReceipt, Participation
<1>9. CASE q.op = "exit" /\ ExitReady(S, q, rows)
  BY <1>9 DEF ExitReady, RunRow, RunReceipt
<1>10. CASE q.op = "create_session" /\ rows = {Session(c, Op(q), q.body)}
  BY <1>10 DEF Session
<1> QED
  BY <1>1, <1>2, <1>3, <1>4, <1>5, <1>6, <1>7, <1>8, <1>9, <1>10 DEF Ready

\* What is committed beside the rows of a verdict is a binding.
Beside(rows, more) == rows \subseteq more /\ \A row \in more : row \in rows \/ row.table = "binding"

\* A key stays free when nobody who could take it commits.
LEMMA UnusedKept ==
  ASSUME NEW S, NEW q, NEW c, NEW rows, Ready(S, q, c, rows), NEW more, Beside(rows, more),
         NEW other, Unused(S, other),
         other.op = "create" /\ q.op = "create" => q.who # other.who,
         other.op = "mutate" /\ q.op = "mutate" => q.char # other.char,
         ~(other.op = "prepare" /\ q.op = "prepare")
  PROVE  Unused(S \cup more, other)
<1>1. \A row \in more :
          /\ row.table = "creation_receipt" => q.op = "create" /\ row.who = q.who
          /\ row.table = "mutation_receipt" => q.op = "mutate" /\ row.char = q.char
          /\ row.table = "offer" => q.op = "prepare"
  BY ReadyTables DEF Beside
<1>2. ASSUME other.op = "create" PROVE CreationReceipts(S \cup more, other) = {}
  BY <1>1, <1>2 DEF Unused, CreationReceipts, Table
<1>3. ASSUME other.op = "mutate" PROVE MutationReceipts(S \cup more, other) = {}
  BY <1>1, <1>3 DEF Unused, MutationReceipts, Table
<1>4. ASSUME other.op = "prepare" PROVE Requested(S \cup more, other) = {}
  BY <1>1, <1>4 DEF Unused, Requested, Table
<1> QED
  BY <1>2, <1>3, <1>4 DEF Unused

\* A run that the internal operations made stays with its character.
LEMMA InternalStays ==
  ASSUME NEW S, Whole(S), NEW q, NEW c, NEW rows, Ready(S, q, c, rows), Apart(S, rows),
         NEW more, Beside(rows, more), NEW m \in S, NEW x, x # None, Holds(S, m, x),
         m.op.family = "internal"
  PROVE  \E n \in S \cup more : Holds(S \cup more, n, x) /\ n.op.family = "internal"
<1> DEFINE T == S \cup more
<1>1. /\ LatestRun(S, m) /\ m.char = x /\ m.status \in ActiveLine
      /\ m \in S /\ m.table = "run"
  BY DEF Holds, LatestRun
<1>2. \A row \in more : row.table = "run" => row \in rows
  BY DEF Beside
<1>3. CASE \A row \in rows : row.table = "run" => row.run # m.run
  <2>1. LatestRun(T, m)
    BY <1>1, <1>2, <1>3 DEF LatestRun
  <2> QED
    BY <1>1, <2>1 DEF Holds
<1>4. CASE \E row \in rows : row.table = "run" /\ row.run = m.run
  <2>1. q.op \in {"bind", "attach", "exit"} /\ q.run = m.run
    BY <1>1, <1>4, ReadyLeavesRuns
  <2>2. \A n : LatestRun(S, n) /\ n.run = m.run => n = m
    <3>1. SUFFICES ASSUME NEW n, LatestRun(S, n), n.run = m.run PROVE n = m
      OBVIOUS
    <3> QED
      BY <1>1, <3>1, LatestRunIsOne DEF Whole
  <2>3. CASE q.op = "bind"
    BY <1>1, <2>1, <2>2, <2>3 DEF Ready, BindReady
  <2>4. CASE q.op = "exit"
    BY <1>1, <2>1, <2>2, <2>4 DEF Ready, ExitReady
  <2>5. CASE q.op = "attach"
    <3> DEFINE n == RunRow(q.run, m.version + 1, "PRE_FIRST_TURN", "ATTACH", Op(q), m.char, m.rev)
    <3>1. rows = {n, RunReceipt(q.run, m.version + 1, "ATTACH", Op(q), q.session),
                  Participation(q.session, q.run, m.version + 1)}
      BY <2>1, <2>2, <2>5 DEF Ready, AttachReady
    <3>2. /\ n.table = "run" /\ n.run = m.run /\ n.version = m.version + 1 /\ n.char = x
          /\ n.status \in ActiveLine /\ n.op.family = "internal"
      BY <1>1, <2>1, <2>5 DEF RunRow, ActiveLine, Op
    <3>3. \A row \in rows : row.table = "run" => row = n
      BY <3>1 DEF RunReceipt, Participation
    <3>4. n \in T
      BY <3>1 DEF Beside
    <3> HIDE DEF n
    <3>5. \A row \in T : row.table = "run" /\ row.run = m.run => row.version <= n.version
      <4>1. \A row \in S : row.table = "run" /\ row.run = m.run =>
                row.version <= m.version /\ row.version \in Nat
        BY <1>1 DEF LatestRun, Whole, RunsWhole, RunRowWhole, RunRowPlaced
      <4>2. m.version \in Nat
        BY <1>1, <4>1
      <4>3. \A row \in S : row.table = "run" /\ row.run = m.run => row.version <= n.version
        BY <3>2, <4>1, <4>2
      <4>4. n.version <= n.version
        BY <3>2, <4>2
      <4> QED
        BY <1>2, <3>3, <4>3, <4>4
    <3>6. LatestRun(T, n)
      BY <3>2, <3>4, <3>5 DEF LatestRun
    <3> QED
      BY <3>2, <3>4, <3>6 DEF Holds
  <2> QED
    BY <2>1, <2>3, <2>4, <2>5
<1> QED
  BY <1>3, <1>4

LEMMA ExcusedStays ==
  ASSUME NEW S, Whole(S), NEW q, NEW c, NEW rows, Ready(S, q, c, rows), Apart(S, rows),
         NEW more, Beside(rows, more), NEW d, NEW other, Excused(S, d, other)
  PROVE  Excused(S \cup more, d, other)
<1>1. CASE other.op = "create" /\ Rivalled(d)
  BY <1>1 DEF Excused
<1>2. CASE /\ other.op = "attach"
           /\ \E row \in S : row.table = "run" /\ row.run = other.run /\ row.status = "ACTIVE"
  BY <1>2 DEF Excused
<1>3. CASE /\ other.op = "confirm" /\ other.char # None
           /\ \E m \in S : Holds(S, m, other.char) /\ m.op.family = "internal"
  <2>1. PICK m \in S : Holds(S, m, other.char) /\ m.op.family = "internal"
    BY <1>3
  <2> DEFINE x == other.char
  <2>2. x # None /\ Holds(S, m, x) /\ m.op.family = "internal"
    BY <1>3, <2>1
  <2> HIDE DEF x
  <2>3. \E n \in S \cup more : Holds(S \cup more, n, x) /\ n.op.family = "internal"
    BY <2>1, <2>2, InternalStays
  <2> QED
    BY <1>3, <2>3 DEF Excused, x
<1> QED
  BY <1>1, <1>2, <1>3 DEF Excused

\* What an entry says of itself.
LEMMA EntryEnters ==
  ASSUME NEW op, NEW q, NEW r
  PROVE  /\ \E a \in EntryRows(op, q, r, r) : /\ a.table = "run" /\ a.run = r /\ a.version = 3
                                              /\ a.status = "ACTIVE" /\ a.op = op
         /\ \A row \in EntryRows(op, q, r, r) :
               /\ row.table = "run" => row.run = r /\ row.version <= 3
               /\ row.table = "run_creation" => row.run = r /\ row.op = op /\ SameEntry(row, q)
<1>1. RunRow(r, 3, "ACTIVE", "ATTACH", op, q.char, q.rev) \in EntryRows(op, q, r, r)
  BY DEF EntryRows, EntryActivation
<1>2. \A row \in EntryRows(op, q, r, r) :
          /\ row.table = "run" => row.run = r /\ row.version <= 3
          /\ row.table = "run_creation" => row.run = r /\ row.op = op /\ SameEntry(row, q)
  BY DEF EntryRows, EntryCreation, EntryBinding, EntryActivation, Session, RunRow, RunCreation,
         Admission, RunReceipt, Participation, SameEntry
<1> QED
  BY <1>1, <1>2 DEF RunRow

\* The older entry's run is what its entry left.
LEMMA EntryIsLeft ==
  ASSUME NEW S, Whole(S), NEW op, NEW q, NEW c, Apart(S, EntryRows(op, q, c, c)),
         NEW T, S \subseteq T, EntryRows(op, q, c, c) \subseteq T,
         \A row \in T : row.table = "run" => row \in S \cup EntryRows(op, q, c, c)
  PROVE  /\ \E a \in T : /\ a.table = "run" /\ a.run = c /\ a.version = 3
                         /\ a.status = "ACTIVE" /\ a.op = op
         /\ \A m \in T : m.table = "run" /\ m.run = c => m.version <= 3
<1>1. PICK a \in EntryRows(op, q, c, c) : /\ a.table = "run" /\ a.run = c /\ a.version = 3
                                          /\ a.status = "ACTIVE" /\ a.op = op
  BY EntryEnters
<1>2. \A m \in S : m.table = "run" => m.run # c
  <2>1. SUFFICES ASSUME NEW m \in S, m.table = "run", m.run = c PROVE FALSE
    OBVIOUS
  <2> QED
    BY <1>1, <2>1, EntryRunIsItsOwn
<1>3. \A m \in EntryRows(op, q, c, c) : m.table = "run" => m.version <= 3
  BY EntryEnters
<1> QED
  BY <1>1, <1>2, <1>3

LEMMA LegacyIsLeft ==
  ASSUME NEW S, Whole(S), NEW q, NEW c, NEW rows, Ready(S, q, c, rows), Apart(S, rows),
         NEW more, Beside(rows, more), NEW a \in S, a.table = "run", a.version = 3,
         a.status = "ACTIVE", a.op.family = "legacy",
         \A m \in S : m.table = "run" /\ m.run = a.run => m.version <= 3
  PROVE  \A m \in S \cup more : m.table = "run" /\ m.run = a.run => m.version <= 3
<1>1. SUFFICES ASSUME NEW n \in rows, n.table = "run", n.run = a.run PROVE FALSE
  BY DEF Beside
<1>2. q.op \in {"bind", "attach", "exit"} /\ q.run = a.run
  BY <1>1, ReadyLeavesRuns
<1>3. \A m : LatestRun(S, m) /\ m.run = a.run => m = a
  <2>1. SUFFICES ASSUME NEW m, LatestRun(S, m), m.run = a.run PROVE m = a
    OBVIOUS
  <2>2. m \in S /\ m.table = "run" /\ m.version >= 3 /\ m.version <= 3
    BY <2>1 DEF LatestRun
  <2>3. m.version \in Nat
    BY <2>2 DEF Whole, RunsWhole, RunRowWhole, RunRowPlaced
  <2>4. SameKey(m, a)
    BY <2>1, <2>2, <2>3 DEF SameKey
  <2> QED
    BY <2>2, <2>4 DEF Whole, UniqueRows
<1>4. CASE q.op = "bind"
  BY <1>2, <1>3, <1>4 DEF Ready, BindReady
<1>5. CASE q.op = "attach"
  BY <1>2, <1>3, <1>5 DEF Ready, AttachReady
<1>6. CASE q.op = "exit"
  BY <1>2, <1>3, <1>6 DEF Ready, ExitReady
<1> QED
  BY <1>2, <1>4, <1>5, <1>6

\* Which operations record a run's creation.
LEMMA ReadyCreates ==
  ASSUME NEW S, NEW q, NEW c, NEW rows, Ready(S, q, c, rows), NEW made \in rows,
         made.table = "run_creation"
  PROVE  \/ /\ q.op \in {"enter", "admit"} /\ rows = EntryRows(Op(q), q, c, c)
            /\ q.op = "admit" => q.offer = None
         \/ /\ q.op = "confirm"
            /\ \E offer \in S :
                  /\ offer.table = "offer"
                  /\ rows = EntryRows(FrozenOp(offer), offer, c, c)
                            \cup {Confirmation(offer, q.pick, c)}
         \/ q.op = "create_run" /\ made.op.family = "internal"
<1>1. CASE q.op = "create" /\ rows = CreationRows(q, c)
  BY <1>1 DEF CreationRows, Revision, CreationReceipt
<1>2. CASE q.op = "mutate" /\ MutateReady(S, q, rows)
  BY <1>2 DEF MutateReady, MutationRows, Revision, MutationReceipt
<1>3. CASE q.op \in {"enter", "admit"} /\ EnterReady(S, q, c, rows)
  BY <1>3 DEF EnterReady
<1>4. CASE q.op = "prepare" /\ PrepareReady(S, q, c, rows)
  BY <1>4 DEF PrepareReady, OfferRow
<1>5. CASE q.op = "confirm" /\ ConfirmReady(S, q, c, rows)
  BY <1>5 DEF ConfirmReady, Unconfirmed
<1>6. CASE q.op = "create_run" /\ rows = RunMade(Op(q), c, None, None, None)
  BY <1>6 DEF RunMade, RunRow, RunCreation, Op
<1>7. CASE q.op = "bind" /\ BindReady(S, q, rows)
  BY <1>7 DEF BindReady, RunRow, RunReceipt
<1>8. CASE q.op = "attach" /\ AttachReady(S, q, rows)
  BY <1>8 DEF AttachReady, RunRow, RunReceipt, Participation
<1>9. CASE q.op = "exit" /\ ExitReady(S, q, rows)
  BY <1>9 DEF ExitReady, RunRow, RunReceipt
<1>10. CASE q.op = "create_session" /\ rows = {Session(c, Op(q), q.body)}
  BY <1>10 DEF Session
<1> QED
  BY <1>1, <1>2, <1>3, <1>4, <1>5, <1>6, <1>7, <1>8, <1>9, <1>10 DEF Ready

\* A new player's run is complete.
LEMMA NewRunIsEntered ==
  ASSUME NEW S, Whole(S), NEW q, NEW c, NEW rows, Ready(S, q, c, rows), Apart(S, rows),
         NEW more, Beside(rows, more), NEW made \in rows, made.table = "run_creation",
         made.op.family # "internal"
  PROVE  /\ \E a \in S \cup more : /\ a.table = "run" /\ a.run = made.run /\ a.version = 3
                                   /\ a.status = "ACTIVE" /\ a.op = made.op
         /\ \A m \in S \cup more : m.table = "run" /\ m.run = made.run => m.version <= 3
<1> DEFINE T == S \cup more
<1>1. \A row \in T : row.table = "run" => row \in S \cup rows
  BY DEF Beside
<1>2. rows \subseteq T /\ S \subseteq T
  BY DEF Beside
<1>3. ASSUME NEW op, NEW p, EntryRows(op, p, c, c) \subseteq rows, made \in EntryRows(op, p, c, c),
             \A row \in rows : row.table = "run" => row \in EntryRows(op, p, c, c)
      PROVE  /\ \E a \in T : /\ a.table = "run" /\ a.run = made.run /\ a.version = 3
                             /\ a.status = "ACTIVE" /\ a.op = made.op
             /\ \A m \in T : m.table = "run" /\ m.run = made.run => m.version <= 3
  <2>1. made.run = c /\ made.op = op
    BY <1>3, EntryEnters
  <2>2. Apart(S, EntryRows(op, p, c, c))
    BY <1>3, ApartFromLess
  <2>3. \A row \in T : row.table = "run" => row \in S \cup EntryRows(op, p, c, c)
    BY <1>1, <1>3
  <2>4. EntryRows(op, p, c, c) \subseteq T
    BY <1>2, <1>3
  <2> HIDE DEF T
  <2> QED
    BY <1>2, <2>1, <2>2, <2>3, <2>4, EntryIsLeft
<1>4. CASE q.op \in {"enter", "admit"} /\ rows = EntryRows(Op(q), q, c, c)
  BY <1>3, <1>4
<1>5. CASE q.op = "confirm"
  <2>1. PICK offer \in S :
          rows = EntryRows(FrozenOp(offer), offer, c, c) \cup {Confirmation(offer, q.pick, c)}
    BY <1>5, ReadyCreates
  <2>2. Confirmation(offer, q.pick, c).table = "confirmation"
    BY DEF Confirmation
  <2> QED
    BY <1>3, <2>1, <2>2
<1> QED
  BY <1>4, <1>5, ReadyCreates

\* An opening that is confirmed is entered as it was offered.
LEMMA OpeningIsEntered ==
  ASSUME NEW S, Whole(S), AskedFor(S), Entered(S), NEW q, NEW c, c # None, NEW rows,
         Ready(S, q, c, rows), Apart(S, rows), NEW made \in S \cup rows, NEW offer \in S \cup rows,
         made.table = "run_creation", offer.table = "offer", made.op = FrozenOp(offer)
  PROVE  SameEntry(made, offer)
<1>1. made.op.family = "native" /\ made.op.offer = offer.offer
  BY DEF FrozenOp
<1>2. offer.offer # None
  <2>1. offer \in rows => offer.offer = c
    BY ReadyTables
  <2> QED
    BY <2>1 DEF AskedFor
<1>3. CASE made \in S /\ offer \in S
  BY <1>3 DEF Entered
<1>4. CASE made \in S /\ offer \in rows
  <2>1. PICK done \in S : done.table = "confirmation" /\ done.offer = offer.offer
    BY <1>1, <1>2, <1>4 DEF AskedFor
  <2>2. PICK other \in S : other.table = "offer" /\ other.offer = offer.offer
    BY <2>1 DEF Whole, OpeningsWhole
  <2>3. SameKey(other, offer)
    BY <2>2 DEF SameKey
  <2> QED
    BY <1>4, <2>2, <2>3 DEF Apart
<1>5. CASE made \in rows
  <2>1. CASE q.op \in {"enter", "admit"} /\ rows = EntryRows(Op(q), q, c, c)
             /\ (q.op = "admit" => q.offer = None)
    <3>1. made.op = Op(q)
      BY <1>5, <2>1, EntryEnters
    <3>2. q.op = "admit" /\ q.offer = None
      BY <1>1, <2>1, <3>1 DEF Op
    <3> QED
      BY <1>1, <1>2, <3>1, <3>2 DEF Op
  <2>2. CASE q.op = "confirm"
    <3>1. PICK other \in S :
            /\ other.table = "offer"
            /\ rows = EntryRows(FrozenOp(other), other, c, c) \cup {Confirmation(other, q.pick, c)}
      BY <1>5, <2>2, ReadyCreates
    <3>2. Confirmation(other, q.pick, c).table = "confirmation"
      BY DEF Confirmation
    <3>3. made.op = FrozenOp(other) /\ SameEntry(made, other)
      BY <1>5, <3>1, <3>2, EntryEnters
    <3>4. other.offer = offer.offer
      BY <1>1, <3>3 DEF FrozenOp
    <3>5. SameKey(other, offer)
      BY <3>1, <3>4 DEF SameKey
    <3>6. offer \in S
      BY <2>2, ReadyTables
    <3>7. other = offer
      BY <3>1, <3>5, <3>6 DEF Whole, UniqueRows
    <3> QED
      BY <3>3, <3>7
  <2> QED
    BY <1>1, <1>5, <2>1, <2>2, ReadyCreates
<1> QED
  BY <1>3, <1>4, <1>5

LEMMA EnteredGrows ==
  ASSUME NEW S, Whole(S), AskedFor(S), Entered(S), NEW q, NEW c, c # None, NEW rows,
         Ready(S, q, c, rows), Apart(S, rows), NEW more, Beside(rows, more)
  PROVE  Entered(S \cup more)
<1> DEFINE T == S \cup more
<1>1. \A row \in T : row.table \in {"run_creation", "offer"} => row \in S \cup rows
  BY DEF Beside
<1>2. ASSUME NEW made \in T, made.table = "run_creation", made.op.family \in {"legacy", "native"}
      PROVE  /\ \E a \in T : /\ a.table = "run" /\ a.run = made.run /\ a.version = 3
                             /\ a.status = "ACTIVE" /\ a.op = made.op
             /\ made.op.family = "legacy" =>
                   \A m \in T : m.table = "run" /\ m.run = made.run => m.version <= 3
  <2>1. CASE made \in S
    <3>1. PICK a \in S : /\ a.table = "run" /\ a.run = made.run /\ a.version = 3
                         /\ a.status = "ACTIVE" /\ a.op = made.op
      BY <1>2, <2>1 DEF Entered
    <3>2. ASSUME made.op.family = "legacy"
          PROVE  \A m \in T : m.table = "run" /\ m.run = made.run => m.version <= 3
      <4>1. \A m \in S : m.table = "run" /\ m.run = a.run => m.version <= 3
        BY <1>2, <2>1, <3>1, <3>2 DEF Entered
      <4> QED
        BY <3>1, <3>2, <4>1, LegacyIsLeft
    <3> QED
      BY <3>1, <3>2
  <2>2. CASE made \in rows
    BY <1>2, <2>2, NewRunIsEntered
  <2> QED
    BY <1>1, <1>2, <2>1, <2>2
<1>3. ASSUME NEW made \in T, NEW offer \in T, made.table = "run_creation", offer.table = "offer",
             made.op = FrozenOp(offer)
      PROVE  SameEntry(made, offer)
  BY <1>1, <1>3, OpeningIsEntered
<1> HIDE DEF T
<1> QED
  BY <1>2, <1>3 DEF Entered, T

-----------------------------------------------------------------------------
(* The steps, and what they report                                         *)

LEMMA AlarmsBegin ==
  ASSUME Init
  PROVE  AlarmInv
<1>1. ASSUME NEW c \in Calls
      PROVE  /\ pc[c] \in {"target", "gate", "lock", "decide"} /\ answer[c] = NoAnswer
             /\ pc[c] \in {"lock", "decide"} => ~Native(script[c])
             /\ pc[c] = "decide" => script[c].op # "create"
  <2>1. /\ pc[c] = IF script[c].op = "exit" THEN "target"
                   ELSE IF Native(script[c]) THEN "gate" ELSE AfterGate(script[c])
        /\ answer[c] = NoAnswer
    BY DEF Init
  <2> QED
    BY <2>1 DEF AfterGate, Native
<1>2. ASSUME NEW c \in Calls
      PROVE  AlarmOk(store, c, script[c], pc[c], held[c], view[c], verdict[c], answer[c])
  <2>1. ~(pc[c] \in {"lock", "decide"} /\ script[c].op = "confirm")
    BY <1>1 DEF Native
  <2>2. answer[c].code \notin Alarms
    BY <1>1 DEF NoAnswer, Alarms
  <2> QED
    BY <1>1, <2>1, <2>2 DEF AlarmOk, Gated, Locked, Decided
<1>3. ASSUME NEW c \in Calls, NEW d \in Calls PROVE CreatesApart(c, d)
  BY <1>1 DEF CreatesApart, Locked
<1>4. ASSUME NEW row \in store, NEW n \in Calls PROVE ~Bears(row, n)
  <2>1. /\ row.table \in {"binding", "revision", "creation_receipt", "mutation_receipt"}
        /\ row.table = "revision" => row.char # n
    BY SeedAssumption DEF Init, Table
  <2> QED
    BY <2>1 DEF Bears
<1>5. Entered(store)
  <2>1. \A row \in store :
            row.table \in {"binding", "revision", "creation_receipt", "mutation_receipt"}
    BY SeedAssumption DEF Init
  <2> QED
    BY <2>1 DEF Entered
<1> QED
  BY <1>2, <1>3, <1>4, <1>5 DEF AlarmInv

\* What a step of one call makes of it, given the tables the step leaves.
AlarmFits(c) ==
    AlarmOk(store', c, script[c], pc'[c], held'[c], view'[c], verdict'[c], answer'[c])

\* A creation that has come to its decision came alone.
ComesApart(c) ==
    script[c].op = "create" /\ Locked(pc'[c]) =>
        \/ Locked(pc[c])
        \/ \A d \in Calls : d # c /\ script[d].op = "create" /\ Locked(pc[d]) =>
              script[d].who # script[c].who

LEMMA EndAlarm ==
  ASSUME EntryInv, NEW c \in Calls, NEW code, NEW result, End(c, code, result),
         code \in Alarms => Excused(store', c, script[c])
  PROVE  AlarmFits(c) /\ ComesApart(c)
<1>1. pc'[c] = "done" /\ answer'[c].code = code
  BY DEF End, EntryInv
<1> QED
  BY <1>1 DEF AlarmFits, AlarmOk, ComesApart, Gated, Locked, Decided

\* The verdict of a call that has locked its character.
LEMMA OwnVerdict ==
  ASSUME EntryInv, AlarmInv, NEW c \in Calls, pc[c] \in {"lock", "decide"}
  PROVE  /\ Verdict(c).code \in Alarms => Excused(store, c, script[c])
         /\ Verdict(c).rows # {} => Verdict(c).code = "ok" /\ Unused(store, script[c])
<1> DEFINE q == script[c]
           v == Verdict(c)
<1>1. CallOk(store, q, c, pc[c], held[c], view[c], staged[c], verdict[c])
  BY DEF EntryInv
<1>2. AlarmOk(store, c, q, pc[c], held[c], view[c], verdict[c], answer[c])
  BY DEF AlarmInv
<1>3. Whole(store) /\ Entered(store)
  BY DEF EntryInv, AlarmInv
<1>4. v = VerdictOf(store, Seen(c), q, c)
  BY DEF Verdict, VerdictOf
<1>5. q.op \in Operations
  BY ScriptAssumption DEF EntryInv
<1>6. q.op # "confirm" => Seen(c) = store
  BY <1>1 DEF CallOk, Seen
<1>7. q.op = "confirm" => OfferFound(store, q) /\ ViewHolds(store, Seen(c))
  <2>1. q.op = "confirm" => ViewHolds(store, view[c])
    BY <1>2 DEF AlarmOk
  <2>2. q.op = "confirm" => Seen(c) = view[c]
    BY <2>1 DEF ViewHolds, Seen
  <2> QED
    BY <1>1, <2>1, <2>2 DEF CallOk, Locked
<1> HIDE DEF q, v
<1>8. v.code \in Alarms => Excused(store, c, q)
  BY <1>3, <1>4, <1>5, <1>6, <1>7, VerdictAlarm
<1>9. v.rows # {} => v.code = "ok" /\ Unused(store, q)
  BY <1>4, <1>5, <1>6, VerdictWrites
<1> QED
  BY <1>8, <1>9 DEF q, v

LEMMA LockAlarm ==
  ASSUME EntryInv, AlarmInv, NEW c \in Calls, Lock(c)
  PROVE  AlarmFits(c) /\ ComesApart(c)
<1> DEFINE q == script[c]
<1>1. pc[c] = "lock" /\ store' = store
  BY DEF Lock
<1>2. AlarmOk(store, c, q, pc[c], held[c], view[c], verdict[c], answer[c])
  BY DEF AlarmInv
<1>3. CASE q.op = "create" /\ Binding(q.who) \notin store
  <2>1. /\ pc'[c] = "add binding" /\ held'[c] = held[c] /\ view'[c] = view[c]
        /\ verdict'[c] = verdict[c] /\ answer'[c] = answer[c]
    BY <1>3 DEF Lock, Go, EntryInv
  <2> HIDE DEF q
  <2>2. AlarmOk(store, c, q, pc'[c], held'[c], view'[c], verdict'[c], answer'[c])
    BY <1>2, <1>3, <2>1 DEF AlarmOk, Gated, Locked, Decided
  <2> QED
    BY <1>1, <2>1, <2>2 DEF AlarmFits, ComesApart, Locked, q
<1>4. CASE ~(q.op = "create" /\ Binding(q.who) \notin store)
           /\ OnCharacter(q) /\ Revisions(store, CharacterOf(q)) = {}
  <2>1. End(c, Verdict(c).code, <<>>)
    BY <1>4 DEF Lock
  <2>2. Verdict(c).code \in Alarms => Excused(store', c, q)
    BY <1>1, OwnVerdict
  <2> QED
    BY <2>1, <2>2, EndAlarm
<1>5. CASE ~(q.op = "create" /\ Binding(q.who) \notin store)
           /\ ~(OnCharacter(q) /\ Revisions(store, CharacterOf(q)) = {})
  <2>1. /\ pc'[c] = "decide" /\ held'[c] = held[c] \cup LocksOf(q) /\ view'[c] = view[c]
        /\ verdict'[c] = verdict[c] /\ answer'[c] = answer[c] /\ Free(c, LocksOf(q))
    BY <1>5 DEF Lock, Go, EntryInv
  <2>2. q.op = "create" => LocksOf(q) = {<<"binding", q.who>>}
    BY DEF LocksOf
  <2> HIDE DEF q
  <2>3. AlarmOk(store, c, q, pc'[c], held'[c], view'[c], verdict'[c], answer'[c])
    BY <1>1, <1>2, <2>1, <2>2 DEF AlarmOk, Gated, Locked, Decided
  <2>4. ASSUME q.op = "create", NEW d \in Calls, d # c, script[d].op = "create", Locked(pc[d])
        PROVE  script[d].who # q.who
    <3>1. <<"binding", script[d].who>> \in held[d]
      BY <2>4 DEF AlarmInv, AlarmOk
    <3>2. held[d] \cap LocksOf(q) = {}
      BY <2>1, <2>4 DEF Free
    <3> QED
      BY <2>2, <2>4, <3>1, <3>2
  <2> QED
    BY <1>1, <2>1, <2>3, <2>4 DEF AlarmFits, ComesApart, q
<1> QED
  BY <1>3, <1>4, <1>5

LEMMA AddBindingAlarm ==
  ASSUME EntryInv, AlarmInv, NEW c \in Calls, AddBinding(c)
  PROVE  AlarmFits(c) /\ ComesApart(c)
<1> DEFINE q == script[c]
           row == Binding(q.who)
<1>1. /\ pc[c] = "add binding" /\ store' = store /\ view'[c] = view[c] /\ verdict'[c] = verdict[c]
      /\ answer'[c] = answer[c] /\ \A d \in Calls : d # c => row \notin staged[d]
  BY DEF AddBinding
<1>2. q.op = "create"
  BY <1>1 DEF EntryInv, CallOk
<1>3. AlarmOk(store, c, q, pc[c], held[c], view[c], verdict[c], answer[c])
  BY DEF AlarmInv
<1>4. CASE row \in store
  <2>1. pc'[c] = "recover" /\ held'[c] = held[c]
    BY <1>4 DEF AddBinding, Go, EntryInv
  <2> HIDE DEF q
  <2>2. AlarmOk(store, c, q, pc'[c], held'[c], view'[c], verdict'[c], answer'[c])
    BY <1>1, <1>2, <1>3, <1>4, <2>1 DEF AlarmOk, Gated, Locked, Decided
  <2> QED
    BY <1>1, <2>1, <2>2 DEF AlarmFits, ComesApart, Locked, q
<1>5. CASE row \notin store
  <2>1. pc'[c] = "decide" /\ held'[c] = LocksOf(q)
    BY <1>5 DEF AddBinding, Go, EntryInv
  <2>2. LocksOf(q) = {<<"binding", q.who>>} /\ ~Native(q)
    BY <1>2 DEF LocksOf, Native
  <2>3. ASSUME NEW d \in Calls, d # c, script[d].op = "create", Locked(pc[d])
        PROVE  script[d].who # q.who
    <3>1. StagedRight(store, script[d], pc[d], staged[d], verdict[d])
      BY DEF EntryInv, CallOk
    <3>2. Binding(script[d].who) \in store \cup staged[d]
      BY <2>3, <3>1 DEF StagedRight
    <3>3. row \notin staged[d]
      BY <1>1, <2>3
    <3> QED
      BY <1>5, <3>2, <3>3
  <2> HIDE DEF q, row
  <2>4. AlarmOk(store, c, q, pc'[c], held'[c], view'[c], verdict'[c], answer'[c])
    BY <1>1, <1>2, <1>3, <2>1, <2>2 DEF AlarmOk, Gated, Locked, Decided
  <2> QED
    BY <1>1, <2>3, <2>4 DEF AlarmFits, ComesApart, q
<1> QED
  BY <1>4, <1>5

LEMMA DecideAlarm ==
  ASSUME EntryInv, AlarmInv, NEW c \in Calls, Decide(c)
  PROVE  AlarmFits(c) /\ ComesApart(c)
<1> DEFINE q == script[c]
           v == Verdict(c)
<1>1. pc[c] = "decide" /\ store' = store
  BY DEF Decide
<1>2. v.code \in Alarms => Excused(store', c, q)
  BY <1>1, OwnVerdict
<1>3. CASE v.rows = {}
  <2>1. End(c, v.code, v.result)
    BY <1>3 DEF Decide
  <2> HIDE DEF v
  <2> QED
    BY <1>2, <2>1, EndAlarm
<1>4. CASE v.rows # {}
  <2>1. /\ pc'[c] = "write" /\ held'[c] = held[c] \cup RunLocks(q) /\ view'[c] = view[c]
        /\ verdict'[c] = v /\ answer'[c] = answer[c]
    BY <1>4 DEF Decide, Go, EntryInv
  <2>2. v.code = "ok" /\ Unused(store, q)
    BY <1>1, <1>4, OwnVerdict
  <2>3. AlarmOk(store, c, q, pc[c], held[c], view[c], verdict[c], answer[c])
    BY DEF AlarmInv
  <2> HIDE DEF q, v
  <2>4. AlarmOk(store, c, q, pc'[c], held'[c], view'[c], verdict'[c], answer'[c])
    BY <1>1, <2>1, <2>2, <2>3 DEF AlarmOk, Gated, Locked, Decided
  <2> QED
    BY <1>1, <2>4 DEF AlarmFits, ComesApart, Locked, q
<1> QED
  BY <1>3, <1>4

\* Who holds a character does not depend on the bindings.
LEMMA HoldersIgnoreBindings ==
  ASSUME NEW S, NEW T, S \subseteq T, \A row \in T : row \in S \/ row.table = "binding",
         HoldersAreUnique(T)
  PROVE  HoldersAreUnique(S)
<1>1. /\ Table(T, "revision") = Table(S, "revision") /\ Table(T, "run") = Table(S, "run")
      /\ Table(T, "offer") = Table(S, "offer")
      /\ Table(T, "confirmation") = Table(S, "confirmation")
  BY DEF Table
<1>2. \A r : Run(T, r) = Run(S, r)
  BY <1>1 DEF Run, RunRevisions
<1>3. \A x : ActiveRuns(T, x) = ActiveRuns(S, x)
  BY <1>1, <1>2 DEF ActiveRuns
<1>4. /\ \A x : Offers(T, x) = Offers(S, x)
      /\ \A o : Confirmations(T, o) = Confirmations(S, o)
  BY <1>1 DEF Offers, Confirmations
<1> QED
  BY <1>1, <1>3, <1>4 DEF HoldersAreUnique

\* Rows that meet nobody's collide only when their character has been taken.
LEMMA FreeRowsClash ==
  ASSUME EntryInv, AlarmInv, AskedFor(store), NEW c \in Calls, pc[c] = "write",
         Clashes(verdict[c].rows),
         script[c].op \in {"create", "mutate", "prepare", "confirm", "exit"}
  PROVE  script[c].op = "confirm" /\ Excused(store, c, script[c])
<1> DEFINE q == script[c]
           rows == verdict[c].rows
<1>1. CallOk(store, q, c, pc[c], held[c], view[c], staged[c], verdict[c])
  BY DEF EntryInv
<1>2. Ready(store, q, c, rows) /\ Whole(store)
  BY <1>1 DEF CallOk, Decided, EntryInv
<1>3. Unused(store, q)
  BY DEF AlarmInv, AlarmOk
<1>4. \A row \in store : ~Bears(row, c)
  BY DEF AlarmInv
<1>5. c # None
  BY CallAssumption DEF None
<1> HIDE DEF rows, q
<1>6. q.op \in {"create", "mutate", "prepare", "confirm", "exit"}
  BY DEF q
<1>7. Apart(store, rows)
  BY <1>2, <1>3, <1>4, <1>6, KeysAreFree
<1>8. ~HoldersAreUnique(store \cup rows)
  <2>1. SUFFICES ASSUME NEW k \in Keys(rows), k \in Keys(store) PROVE FALSE
    BY DEF Clashes, rows
  <2>2. PICK a \in store, b \in rows : k \in UniqueKeys(a) /\ k \in UniqueKeys(b)
    BY <2>1 DEF Keys
  <2> QED
    BY <1>7, <2>2, KeysMeet DEF Apart
<1>9. q.op # "create"
  <2>1. SUFFICES ASSUME q.op = "create" PROVE FALSE
    OBVIOUS
  <2> DEFINE One == store \cup {Binding(q.who)}
  <2>2. Binding(q.who).table = "binding"
    BY DEF Binding
  <2>3. Whole(One)
    <3>1. StagedRight(store, q, "write", staged[c], verdict[c])
      BY <1>1 DEF CallOk
    <3>2. \/ Binding(q.who) \in store
          \/ Binding(q.who) \in staged[c] /\ Apart(store, staged[c])
      BY <2>1, <3>1 DEF StagedRight, Locked
    <3>3. Binding(q.who) \in store \/ Apart(store, {Binding(q.who)})
      BY <3>2 DEF Apart
    <3>4. Binding(q.who) \in store => One = store
      OBVIOUS
    <3> HIDE DEF One
    <3>5. CASE Binding(q.who) \in store
      BY <1>2, <3>4, <3>5
    <3>6. CASE Apart(store, {Binding(q.who)})
      BY <1>2, <3>6, AddOwner DEF One
    <3> QED
      BY <3>3, <3>5, <3>6
  <2>4. Apart(One, rows)
    <3>1. \A row \in rows : row.table # "binding"
      BY <1>2, ReadyAddsNoBinding
    <3> QED
      BY <1>7, <2>2, <3>1 DEF Apart, SameKey
  <2>5. Ready(One, q, c, rows)
    BY <1>2, <2>1 DEF Ready
  <2>6. Binding(q.who) \in One
    OBVIOUS
  <2>7. HoldersAreUnique(One \cup rows)
    <3> HIDE DEF One
    <3> QED
      BY <1>5, <2>1, <2>3, <2>4, <2>5, <2>6, ReadyGrows, WholeHoldersAreUnique
  <2> QED
    BY <1>8, <2>2, <2>7, HoldersIgnoreBindings
<1>10. q.op = "confirm" /\ ~Unheld(store, q.char)
  <2>1. SUFFICES ASSUME q.op = "confirm" => Unheld(store, q.char) PROVE FALSE
    OBVIOUS
  <2>2. Whole(store \cup rows)
    BY <1>2, <1>7, <1>9, <2>1, ReadyGrows
  <2> QED
    BY <1>8, <2>2, WholeHoldersAreUnique
<1>11. Excused(store, c, q)
  <2>1. PICK offer \in store : /\ Unconfirmed(store, offer) /\ offer.char = q.char
                               /\ Startable(store, offer.char, offer.rev)
    BY <1>2, <1>10 DEF Ready, ConfirmReady
  <2>2. q.char # None
    BY <1>2, <2>1, NamesARevision
  <2>3. PICK m \in store : Holds(store, m, q.char)
    BY <1>10 DEF Unheld
  <2>4. m.table = "run" /\ m.char = q.char
    BY <2>3 DEF Holds, LatestRun
  <2>5. m.op.family = "internal"
    BY <1>2, <2>1, <2>2, <2>3, <2>4 DEF Whole, HoldersWhole
  <2> QED
    BY <1>10, <2>2, <2>3, <2>5 DEF Excused
<1> QED
  BY <1>10, <1>11 DEF q

LEMMA ClashAlarm ==
  ASSUME EntryInv, AlarmInv, AskedFor(store), NEW c \in Calls, Clash(c)
  PROVE  AlarmFits(c) /\ ComesApart(c)
<1> DEFINE q == script[c]
<1>1. pc[c] = "write" /\ store' = store /\ Clashes(verdict[c].rows)
  BY DEF Clash
<1>2. AlarmOk(store, c, q, pc[c], held[c], view[c], verdict[c], answer[c])
  BY DEF AlarmInv
<1>3. CASE q.op \in {"create_session", "mutate", "admit"}
  <2>1. pc'[c] = "recover" /\ answer'[c] = answer[c]
    BY <1>3 DEF Clash, Go, EntryInv
  <2>2. q.op # "mutate"
    BY <1>1, FreeRowsClash
  <2> HIDE DEF q
  <2>3. AlarmOk(store, c, q, pc'[c], held'[c], view'[c], verdict'[c], answer'[c])
    BY <1>2, <1>3, <2>1, <2>2 DEF AlarmOk, Gated, Locked, Decided
  <2> QED
    BY <1>1, <2>1, <2>3 DEF AlarmFits, ComesApart, Locked, q
<1>4. CASE q.op \notin {"create_session", "mutate", "admit"}
  <2>1. End(c, Collision(q), <<>>)
    BY <1>4 DEF Clash
  <2>2. q.op \in {"create", "prepare", "confirm", "exit"} => Excused(store', c, q)
    BY <1>1, FreeRowsClash
  <2>3. q.op \in Operations
    BY ScriptAssumption DEF EntryInv
  <2> HIDE DEF q
  <2>4. Collision(q) \in Alarms => q.op \in {"create", "prepare", "confirm", "exit"}
    BY <1>4, <2>3 DEF Collision, Alarms, Operations
  <2> QED
    BY <2>1, <2>2, <2>4, EndAlarm DEF q
<1> QED
  BY <1>3, <1>4

LEMMA RecoverAlarm ==
  ASSUME EntryInv, AlarmInv, NEW c \in Calls, Recover(c)
  PROVE  AlarmFits(c) /\ ComesApart(c)
<1> DEFINE q == script[c]
           v == Recovery(q)
<1>1. pc[c] = "recover" /\ store' = store /\ End(c, v.code, v.result)
  BY DEF Recover
<1>2. AlarmOk(store, c, q, pc[c], held[c], view[c], verdict[c], answer[c])
  BY DEF AlarmInv
<1>3. Whole(store) /\ Entered(store)
  BY DEF EntryInv, AlarmInv
<1> HIDE DEF q
<1>4. CASE q.op = "create"
  <2> DEFINE reuse == CreateReuse(q, CHOOSE row \in CreationReceipts(store, q) : TRUE)
  <2>1. reuse.code \notin Alarms
    BY DEF CreateReuse, Refuse, Answer, Alarms
  <2>2. CreationReceipts(store, q) # {} => v = reuse
    BY <1>4 DEF Recovery, CreateRecovery
  <2> HIDE DEF reuse, v
  <2>3. CreationReceipts(store, q) # {} \/ Excused(store, c, q)
    BY <1>1, <1>2, <1>4 DEF AlarmOk, Excused
  <2> QED
    BY <1>1, <2>1, <2>2, <2>3, EndAlarm DEF q
<1>5. CASE q.op = "admit"
  <2> DEFINE again == EnterVerdict(store, store, q, None, None)
  <2>1. again.code \notin Alarms
    BY <1>3, <1>5, EnterIsQuiet
  <2>2. \/ v \in {Refuse("AUTHORIZATION_FAILED"), Refuse("RUN_ENTRY_CONFLICT")}
        \/ v = again
    BY <1>5 DEF Recovery
  <2> HIDE DEF again, v
  <2>3. v.code \notin Alarms
    BY <2>1, <2>2 DEF Refuse, Alarms
  <2> QED
    BY <1>1, <2>3, EndAlarm
<1>6. CASE q.op \notin {"create", "mutate", "admit"}
  <2>1. v = CreateSessionVerdict(store, q, None)
    BY <1>6 DEF Recovery
  <2>2. v.code \notin Alarms
    BY <2>1, OthersAreQuiet
  <2> HIDE DEF v
  <2> QED
    BY <1>1, <2>2, EndAlarm
<1>7. q.op # "mutate"
  BY <1>1, <1>2 DEF AlarmOk
<1> QED
  BY <1>4, <1>5, <1>6, <1>7

\* A step of one call reports no alarm but the three.
LEMMA StepAlarm ==
  ASSUME EntryInv, AlarmInv, AskedFor(store), NEW c \in Calls,
         Step(c) \/ CommitUnknown(c) \/ Fault(c)
  PROVE  AlarmFits(c) /\ ComesApart(c)
<1> DEFINE q == script[c]
<1>1. AlarmOk(store, c, q, pc[c], held[c], view[c], verdict[c], answer[c])
  BY DEF AlarmInv
<1>2. CASE Target(c)
  <2>1. CASE ExitVerdict(store, q).code = "RUN_NOT_FOUND"
    BY <1>2, <2>1, EndAlarm DEF Target, Alarms
  <2>2. CASE ExitVerdict(store, q).code # "RUN_NOT_FOUND"
    <3>1. pc'[c] = "gate" /\ answer'[c] = answer[c] /\ store' = store
      BY <1>2, <2>2 DEF Target, Go, EntryInv
    <3> HIDE DEF q
    <3>2. AlarmOk(store, c, q, pc'[c], held'[c], view'[c], verdict'[c], answer'[c])
      BY <1>1, <3>1 DEF AlarmOk, Gated, Locked, Decided
    <3> QED
      BY <3>1, <3>2 DEF AlarmFits, ComesApart, Locked, q
  <2> QED
    BY <2>1, <2>2
<1>3. CASE Gate(c)
  <2>1. /\ pc'[c] = AfterGate(q) /\ held'[c] = {NamedLock} /\ answer'[c] = answer[c]
        /\ store' = store
    BY <1>3 DEF Gate, Go, EntryInv
  <2>2. /\ pc'[c] \in {"peek", "lock", "decide"}
        /\ q.op = "confirm" => pc'[c] = "peek"
        /\ q.op = "create" => pc'[c] = "lock"
    BY <2>1 DEF AfterGate
  <2> HIDE DEF q
  <2>3. AlarmOk(store, c, q, pc'[c], held'[c], view'[c], verdict'[c], answer'[c])
    BY <1>1, <2>1, <2>2 DEF AlarmOk, Gated, Locked, Decided
  <2> QED
    BY <2>1, <2>2, <2>3 DEF AlarmFits, ComesApart, Locked, q
<1>4. CASE GateTimeout(c)
  BY <1>4, EndAlarm DEF GateTimeout, Alarms
<1>5. CASE Peek(c)
  <2>1. CASE ~OfferFound(store, q)
    BY <1>5, <2>1, EndAlarm DEF Peek, Alarms
  <2>2. CASE OfferFound(store, q)
    <3>1. /\ pc[c] = "peek" /\ pc'[c] = "lock" /\ held'[c] = held[c] /\ view'[c] = store
          /\ answer'[c] = answer[c] /\ store' = store
      BY <1>5, <2>2 DEF Peek, Go, EntryInv
    <3>2. ViewHolds(store, store)
      BY <2>2 DEF ViewHolds, OfferFound, Table, EntryInv
    <3> HIDE DEF q
    <3>3. AlarmOk(store, c, q, pc'[c], held'[c], view'[c], verdict'[c], answer'[c])
      BY <1>1, <3>1, <3>2 DEF AlarmOk, Gated, Locked, Decided
    <3> QED
      BY <3>1, <3>3 DEF AlarmFits, ComesApart, Locked, q
  <2> QED
    BY <2>1, <2>2
<1>6. CASE Write(c)
  <2>1. /\ pc[c] = "write" /\ pc'[c] = "commit" /\ held'[c] = held[c] /\ verdict'[c] = verdict[c]
        /\ answer'[c] = answer[c] /\ store' = store
    BY <1>6 DEF Write, Go, EntryInv
  <2> HIDE DEF q
  <2>2. AlarmOk(store, c, q, pc'[c], held'[c], view'[c], verdict'[c], answer'[c])
    BY <1>1, <2>1 DEF AlarmOk, Gated, Locked, Decided
  <2> QED
    BY <2>1, <2>2 DEF AlarmFits, ComesApart, Locked, q
<1>7. CASE Commit(c)
  <2>1. pc[c] = "commit" /\ End(c, verdict[c].code, verdict[c].result)
    BY <1>7 DEF Commit
  <2>2. verdict[c].code \notin Alarms
    BY <1>1, <2>1 DEF AlarmOk, Decided, Alarms
  <2> QED
    BY <2>1, <2>2, EndAlarm
<1>8. CASE CommitUnknown(c)
  BY <1>8, EndAlarm DEF CommitUnknown, Alarms
<1>9. CASE Fault(c)
  BY <1>9, EndAlarm DEF Fault, Alarms
<1> QED
  BY <1>2, <1>3, <1>4, <1>5, <1>6, <1>7, <1>8, <1>9, LockAlarm, AddBindingAlarm, DecideAlarm,
     ClashAlarm, RecoverAlarm DEF Step

\* What a commit leaves the others.
LEMMA CommitExcuses ==
  ASSUME EntryInv, AlarmInv, NEW c \in Calls, pc[c] = "commit", NEW d \in Calls, d # c
  PROVE  AlarmOk(store \cup staged[c], d, script[d], pc[d], held[d], view[d], verdict[d], answer[d])
<1> DEFINE q == script[c]
           other == script[d]
           T == store \cup staged[c]
           rows == verdict[c].rows
<1>1. /\ CallOk(store, q, c, pc[c], held[c], view[c], staged[c], verdict[c])
      /\ CallOk(store, other, d, pc[d], held[d], view[d], staged[d], verdict[d])
      /\ OneHolder(held[c], held[d]) /\ Whole(store)
  BY DEF EntryInv
<1>2. /\ AlarmOk(store, c, q, pc[c], held[c], view[c], verdict[c], answer[c])
      /\ AlarmOk(store, d, other, pc[d], held[d], view[d], verdict[d], answer[d])
      /\ CreatesApart(c, d)
  BY DEF AlarmInv
<1>3. /\ staged[c] \subseteq FirstBinding(q) \cup rows /\ rows \subseteq staged[c]
      /\ Ready(store, q, c, rows) /\ Apart(store, rows)
  BY CommitIsRight, ApartFromLess DEF Committing
<1>4. Beside(rows, staged[c])
  BY <1>3 DEF Beside, FirstBinding, Binding
<1>5. CreatesApart(c, d) => (q.op = "create" /\ other.op = "create" /\ Locked(pc[d]) =>
                                q.who # other.who)
  BY DEF CreatesApart, Locked
<1> HIDE DEF q, other, rows
<1>6. ~(Native(q) /\ Native(other) /\ Gated(pc[d]))
  <2>1. SUFFICES ASSUME Native(q), Native(other), Gated(pc[d]) PROVE FALSE
    OBVIOUS
  <2>2. NamedLock \in held[c] /\ NamedLock \in held[d]
    BY <1>2, <2>1 DEF AlarmOk, Gated
  <2>3. NamedLock[1] # "binding"
    BY DEF NamedLock
  <2> QED
    BY <1>1, <2>2, <2>3 DEF OneHolder
<1>7. pc[d] = "write" => Unused(T, other)
  <2>1. SUFFICES ASSUME pc[d] = "write" PROVE Unused(T, other)
    OBVIOUS
  <2>2. Unused(store, other)
    BY <1>2, <2>1 DEF AlarmOk
  <2>3. other.op = "create" /\ q.op = "create" => q.who # other.who
    BY <1>2, <1>5, <2>1 DEF Locked
  <2>4. other.op = "mutate" /\ q.op = "mutate" => q.char # other.char
    <3>1. SUFFICES ASSUME other.op = "mutate", q.op = "mutate" PROVE q.char # other.char
      OBVIOUS
    <3>2. <<"character", q.char>> \in held[c] /\ <<"character", other.char>> \in held[d]
      BY <1>1, <2>1, <3>1 DEF CallOk, LocksHeld, Locked, OnCharacter
    <3> QED
      BY <1>1, <3>2 DEF OneHolder
  <2>5. ~(other.op = "prepare" /\ q.op = "prepare")
    BY <1>6, <2>1 DEF Native, Gated
  <2> QED
    BY <1>3, <1>4, <2>2, <2>3, <2>4, <2>5, UnusedKept
<1>8. other.op = "confirm" /\ pc[d] \in {"lock", "decide"} => ViewHolds(T, view[d])
  <2>1. SUFFICES ASSUME other.op = "confirm", pc[d] \in {"lock", "decide"}
                 PROVE  ViewHolds(T, view[d])
    OBVIOUS
  <2>2. ViewHolds(store, view[d])
    BY <1>2, <2>1 DEF AlarmOk
  <2>3. q.op # "confirm"
    BY <1>6, <2>1 DEF Native, Gated
  <2>4. \A row \in staged[c] : row.table # "confirmation"
    <3>1. \A row \in rows : row.table # "confirmation"
      BY <1>3, <2>3, ReadyTables
    <3> QED
      BY <1>4, <3>1 DEF Beside
  <2> QED
    BY <2>2, <2>4 DEF ViewHolds
<1>9. /\ other.op = "create"
      /\ pc[d] = "recover" \/ (pc[d] = "add binding" /\ Binding(other.who) \in T)
      => CreationReceipts(T, other) # {} \/ Rivalled(d)
  <2>1. SUFFICES ASSUME other.op = "create", ~Rivalled(d),
                        pc[d] = "recover" \/ (pc[d] = "add binding" /\ Binding(other.who) \in T)
                 PROVE  CreationReceipts(T, other) # {}
    OBVIOUS
  <2>2. CASE pc[d] = "recover" \/ Binding(other.who) \in store
    <3>1. CreationReceipts(store, other) # {}
      BY <1>2, <2>1, <2>2 DEF AlarmOk
    <3> QED
      BY <3>1 DEF CreationReceipts, Table
  <2>3. CASE Binding(other.who) \in staged[c]
    <3>1. \A row \in rows : row.table # "binding"
      BY <1>3, ReadyAddsNoBinding
    <3>2. Binding(other.who) \in FirstBinding(q)
      BY <1>3, <2>3, <3>1 DEF Binding
    <3>3. q.op = "create" /\ q.who = other.who
      BY <3>2 DEF FirstBinding, Binding
    <3>4. q.key = other.key
      BY <2>1, <3>3 DEF Rivalled, q, other
    <3>5. CreationReceipt(q, c) \in rows
      BY <1>3, <3>3 DEF Ready, CreationRows
    <3> QED
      BY <1>3, <3>3, <3>4, <3>5 DEF CreationReceipts, Table, CreationReceipt
  <2> QED
    BY <2>1, <2>2, <2>3
<1>10. answer[d].code \in Alarms => Excused(T, d, other)
  BY <1>1, <1>2, <1>3, <1>4, ExcusedStays DEF AlarmOk
<1> HIDE DEF T
<1>11. AlarmOk(T, d, other, pc[d], held[d], view[d], verdict[d], answer[d])
  BY <1>2, <1>7, <1>8, <1>9, <1>10 DEF AlarmOk
<1> QED
  BY <1>11 DEF T, other

LEMMA AlarmsKept ==
  ASSUME EntryInv, AlarmInv, AskedFor(store), [Next]_vars
  PROVE  AlarmInv'
<1>1. CASE UNCHANGED vars
  <2>1. /\ store' = store /\ script' = script /\ pc' = pc /\ held' = held /\ view' = view
        /\ verdict' = verdict /\ answer' = answer
    BY <1>1 DEF vars
  <2>2. \A c : Rivalled(c)' <=> Rivalled(c)
    BY <2>1 DEF Rivalled
  <2>3. ASSUME NEW c \in Calls
        PROVE  AlarmOk(store, c, script[c], pc[c], held[c], view[c], verdict[c], answer[c])'
    <3>1. AlarmOk(store, c, script[c], pc[c], held[c], view[c], verdict[c], answer[c])
      BY DEF AlarmInv
    <3> QED
      BY <2>1, <2>2, <3>1 DEF AlarmOk, Excused
  <2>4. \A c, d \in Calls : c # d => CreatesApart(c, d)'
    BY <2>1 DEF AlarmInv, CreatesApart
  <2>5. \A row \in store' : \A n \in Calls : Bears(row, n) => pc'[n] = "done"
    BY <2>1 DEF AlarmInv
  <2>6. Entered(store)'
    BY <2>1 DEF AlarmInv
  <2> QED
    BY <2>3, <2>4, <2>5, <2>6 DEF AlarmInv
<1>2. ASSUME NEW c \in Calls, Step(c) \/ CommitUnknown(c) \/ Fault(c) PROVE AlarmInv'
  <2>1. OnlyCall(c) /\ pc[c] # "done" /\ Writes(c) /\ AlarmFits(c) /\ ComesApart(c)
    BY <1>2, StepIsOwn, StepAlarm
  <2>2. ASSUME NEW d \in Calls
        PROVE  AlarmOk(store', d, script[d], pc'[d], held'[d], view'[d], verdict'[d], answer'[d])
    <3>1. CASE d = c
      BY <2>1, <3>1 DEF AlarmFits
    <3>2. CASE d # c
      <4>1. /\ pc'[d] = pc[d] /\ held'[d] = held[d] /\ view'[d] = view[d]
            /\ verdict'[d] = verdict[d] /\ answer'[d] = answer[d]
        BY <2>1, <3>2 DEF OnlyCall
      <4>2. AlarmOk(store', d, script[d], pc[d], held[d], view[d], verdict[d], answer[d])
        BY <2>1, <3>2, CommitExcuses DEF Writes, AlarmInv
      <4> QED
        BY <4>1, <4>2
    <3> QED
      BY <3>1, <3>2
  <2>3. ASSUME NEW a \in Calls, NEW d \in Calls, a # d, script[a].op = "create",
               script[d].op = "create", Locked(pc'[a]), Locked(pc'[d])
        PROVE  script[a].who # script[d].who
    <3>1. \A e \in Calls : e # c => pc'[e] = pc[e]
      BY <2>1 DEF OnlyCall
    <3>2. CreatesApart(a, d)
      BY <2>3 DEF AlarmInv
    <3>3. CASE a # c /\ d # c
      BY <2>3, <3>1, <3>2, <3>3 DEF CreatesApart
    <3>4. CASE a = c
      BY <2>1, <2>3, <3>1, <3>2, <3>4 DEF CreatesApart, ComesApart
    <3>5. CASE d = c
      BY <2>1, <2>3, <3>1, <3>2, <3>5 DEF CreatesApart, ComesApart
    <3> QED
      BY <3>3, <3>4, <3>5
  <2>4. ASSUME pc[c] = "commit", store' = store \cup staged[c]
        PROVE  /\ Entered(store')
               /\ \A row \in store' : \A n \in Calls :
                     Bears(row, n) => n = c \/ \E old \in store : Bears(old, n)
    <3> DEFINE rows == verdict[c].rows
    <3>1. /\ staged[c] \subseteq FirstBinding(script[c]) \cup rows /\ rows \subseteq staged[c]
          /\ Ready(store, script[c], c, rows) /\ Apart(store, rows)
      BY <2>4, CommitIsRight, ApartFromLess DEF Committing
    <3>2. Beside(rows, staged[c])
      BY <3>1 DEF Beside, FirstBinding, Binding
    <3>3. Whole(store) /\ Entered(store) /\ c # None
      BY CallAssumption DEF EntryInv, AlarmInv, None
    <3> HIDE DEF rows
    <3>4. Entered(store \cup staged[c])
      BY <3>1, <3>2, <3>3, EnteredGrows
    <3>5. ASSUME NEW row \in staged[c], NEW n \in Calls, Bears(row, n)
          PROVE  n = c \/ \E old \in store : Bears(old, n)
      <4>1. row \in rows
        BY <3>2, <3>5 DEF Beside, Bears
      <4> QED
        BY <3>1, <3>5, <4>1, ReadyBears
    <3> QED
      BY <2>4, <3>4, <3>5
  <2>5. Entered(store')
    BY <2>1, <2>4 DEF Writes, AlarmInv
  <2>6. ASSUME NEW row \in store', NEW n \in Calls, Bears(row, n) PROVE pc'[n] = "done"
    <3>1. CASE \E old \in store : Bears(old, n)
      <4>1. pc[n] = "done"
        BY <3>1 DEF AlarmInv
      <4> QED
        BY <2>1, <4>1 DEF OnlyCall
    <3>2. CASE \A old \in store : ~Bears(old, n)
      <4>1. /\ store' # store /\ pc'[c] = "done" /\ pc[c] = "commit"
            /\ store' = store \cup staged[c]
        BY <2>1, <2>6, <3>2 DEF Writes
      <4>2. n = c
        BY <2>4, <2>6, <3>2, <4>1
      <4> QED
        BY <4>1, <4>2
    <3> QED
      BY <3>1, <3>2
  <2>7. script' = script
    BY <2>1 DEF OnlyCall
  <2>8. ASSUME NEW d \in Calls
        PROVE  AlarmOk(store, d, script[d], pc[d], held[d], view[d], verdict[d], answer[d])'
    <3>1. \A e : Rivalled(e)' <=> Rivalled(e)
      BY <2>7 DEF Rivalled
    <3> QED
      BY <2>2, <2>7, <2>8, <3>1 DEF AlarmOk, Excused
  <2>9. \A a, d \in Calls : a # d => CreatesApart(a, d)'
    BY <2>3, <2>7 DEF CreatesApart
  <2> QED
    BY <2>5, <2>6, <2>8, <2>9 DEF AlarmInv
<1> QED
  BY <1>1, <1>2 DEF Next, Finished

\* What excuses an alarm is what the property says.
LEMMA AlarmsAreExcused ==
  ASSUME EntryInv, AlarmInv
  PROVE  AlarmsAreReal
<1>1. SUFFICES ASSUME NEW c \in Calls, Excused(store, c, script[c])
               PROVE  \/ /\ script[c].op = "create"
                         /\ \E d \in Calls \ {c} :
                               /\ script[d].op = "create" /\ script[d].who = script[c].who
                               /\ script[d].key # script[c].key
                      \/ /\ script[c].op = "attach"
                         /\ \E row \in Table(store, "run") :
                               row.run = script[c].run /\ row.status = "ACTIVE"
                      \/ /\ script[c].op = "confirm"
                         /\ \E r \in ActiveRuns(store, script[c].char) :
                               Run(store, r).op.family = "internal"
  BY DEF AlarmInv, AlarmOk, AlarmsAreReal
<1> DEFINE x == script[c].char
<1>2. ASSUME NEW m \in store, Holds(store, m, x), m.op.family = "internal"
      PROVE  \E r \in ActiveRuns(store, x) : Run(store, r).op.family = "internal"
  <2>1. Whole(store)
    BY DEF EntryInv
  <2>2. m.run \in ActiveRuns(store, x)
    BY <1>2, <2>1, ActiveRunsHold
  <2>3. LatestRun(store, m) /\ m \in RunRevisions(store, m.run)
    BY <1>2 DEF Holds, LatestRun, RunRevisions, Table
  <2>4. m = Run(store, m.run)
    BY <2>1, <2>3, RunIsLatest
  <2> QED
    BY <1>2, <2>2, <2>4
<1> HIDE DEF x
<1>3. CASE script[c].op = "create" /\ Rivalled(c)
  BY <1>3 DEF Rivalled
<1>4. CASE /\ script[c].op = "attach"
           /\ \E row \in store : /\ row.table = "run" /\ row.run = script[c].run
                                 /\ row.status = "ACTIVE"
  BY <1>4 DEF Table
<1>5. CASE /\ script[c].op = "confirm"
           /\ \E m \in store : Holds(store, m, x) /\ m.op.family = "internal"
  BY <1>2, <1>5 DEF x
<1> QED
  BY <1>1, <1>3, <1>4, <1>5 DEF Excused, x

\* No service reports corrupt records or fails on a unique key, but for the
\* three races that are named.
THEOREM AlarmsStayReal == Spec => []AlarmsAreReal
<1> DEFINE Inv == AlarmInv /\ AskedFor(store)
<1>1. Init => Inv
  <2>1. Init => AskedFor(store)
    BY SeedAssumption DEF Init, AskedFor
  <2> QED
    BY <2>1, AlarmsBegin
<1>2. EntryInv /\ Inv /\ [Next]_vars => Inv'
  BY AlarmsKept, AskedKept
<1>3. EntryInv /\ Inv => AlarmsAreReal
  BY AlarmsAreExcused
<1> HIDE DEF Inv
<1> QED
  BY <1>1, <1>2, <1>3, EntryInvariant, PTL DEF Spec
=============================================================================
