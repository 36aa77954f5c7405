-------------------------- MODULE DemoStoreProofs --------------------------
(***************************************************************************)
(* For every set of tasks, every script and every seed that is whole: the  *)
(* units of work of the Demo's store never wait for each other in a        *)
(* circle, and what they publish is of one moment (demo_persistence.py).   *)
(* The second invariant says of the store what its rows and maps owe each  *)
(* other, and of every unit of work that what it staged may be added to    *)
(* the store under the locks it holds.                                     *)
(***************************************************************************)
EXTENDS DemoStore, SequenceTheorems, FiniteSetTheorems, FunctionTheorems, TLAPS

-----------------------------------------------------------------------------
(* Runs in the published rows                                               *)

\* The run r is there, bound to x.
Bound(S, r, x) ==
    /\ \A a \in RunRevisions(S, r) : a.version \in Nat /\ (a.version = 1 \/ a.char = x)
    /\ \E a \in RunRevisions(S, r) : a.version = 1
    /\ \E a \in RunRevisions(S, r) :
          a.version >= 3 /\ \A b \in RunRevisions(S, r) : b.version <= a.version

\* The tables that name a run, but for what only its own operations add.
NamesRun == {"run", "run_creation", "participation", "admission", "confirmation"}

\* What the locks are looked up in: every run is bound, what names one names one that
\* is there, and receipts, offers and confirmations are found by their keys.
RowsHang(S) ==
    /\ \A row \in Table(S, "run") : \E x : Bound(S, row.run, x)
    /\ \A row \in S : row.table \in NamesRun => RunRevisions(S, row.run) # {}
    /\ \A a, b \in Table(S, "run_creation") : a.op = b.op => a = b
    /\ \A a, b \in Table(S, "offer") : a.offer = b.offer => a = b
    /\ \A a, b \in Table(S, "confirmation") : a.offer = b.offer => a = b

LEMMA BoundRun ==
  ASSUME NEW S, NEW r, NEW x, Bound(S, r, x)
  PROVE  /\ Run(S, r) \in RunRevisions(S, r)
         /\ \A b \in RunRevisions(S, r) : b.version <= Run(S, r).version
         /\ Run(S, r).version \in Nat /\ Run(S, r).version >= 3 /\ Run(S, r).char = x
  <1>1. \E a \in RunRevisions(S, r) :
          a.version >= 3 /\ \A b \in RunRevisions(S, r) : b.version <= a.version
    BY DEF Bound
  <1>2. /\ Run(S, r) \in RunRevisions(S, r)
        /\ \A b \in RunRevisions(S, r) : b.version <= Run(S, r).version
    BY <1>1 DEF Run
  <1>3. Run(S, r).version >= 3 /\ Run(S, r).version \in Nat
    BY <1>1, <1>2 DEF Bound
  <1> QED BY <1>2, <1>3 DEF Bound

-----------------------------------------------------------------------------
(* What a unit of work stages                                               *)

NoRuns(R) == \A row \in R : row.table \notin NamesRun

\* One receipt, one offer, one confirmation at most.
Single(R) ==
    \A a, b \in R :
        a.table = b.table /\ a.table \in {"run_creation", "offer", "confirmation"} => a = b

\* A new run of x, all three revisions at once.
Enters(S, R, x) ==
    \E r :
        /\ \A row \in R : row.table \in NamesRun => row.run = r
        /\ \A row \in Table(R, "run") : row.version \in 1..3 /\ (row.version = 1 \/ row.char = x)
        /\ \E row \in Table(R, "run") : row.version = 1
        /\ \E row \in Table(R, "run") : row.version = 3
        /\ \A row \in Table(R, "run_creation") : row.char = x
        /\ \A row \in Table(R, "confirmation") :
              \E offer \in Table(S, "offer") : offer.offer = row.offer /\ offer.char = x

\* A further revision of a run of x.
Steps(S, R, x) ==
    \E r :
        /\ Bound(S, r, x)
        /\ \A row \in R : row.table \in NamesRun => row.run = r
        /\ \A row \in Table(R, "run") : row.version \in Nat /\ row.version > 3 /\ row.char = x
        /\ \A a, b \in Table(R, "run") : a = b
        /\ \A row \in Table(R, "participation") : row.version \in Nat /\ row.version > 3
        /\ \A row \in R : row.table \notin {"run_creation", "admission", "confirmation"}

Concerns(S, R, x) == Enters(S, R, x) \/ Steps(S, R, x)

\* The key of a row that is not taken is that of no row.
LEMMA FreeKeys ==
  ASSUME NEW D, NEW R, ~Taken(D, R)
  PROVE  /\ \A a \in Table(R, "run"), b \in Table(D.rows, "run") :
              a.run = b.run => a.version # b.version
         /\ \A a \in Table(R, "run_creation"), b \in Table(D.rows, "run_creation") : a.op # b.op
         /\ \A a \in Table(R, "offer"), b \in Table(D.rows, "offer") : a.offer # b.offer
         /\ \A a \in Table(R, "confirmation"), b \in Table(D.rows, "confirmation") :
              a.offer # b.offer
  <1>1. ASSUME NEW a \in R, NEW b \in D.rows, NEW key, key \in StoreKeys(a), key \in StoreKeys(b)
        PROVE  FALSE
    <2>1. key \in KeysOf(R) /\ key \in KeysOf(D.rows)
      BY <1>1 DEF KeysOf
    <2> QED BY <2>1 DEF Taken
  <1>2. \A row : row.table = "run" => <<"run", row.run, row.version>> \in StoreKeys(row)
    BY DEF StoreKeys, UniqueKeys, RunKeys, WorldTables
  <1>3. \A row : row.table = "run_creation" => <<"run_op", row.op>> \in StoreKeys(row)
    BY DEF StoreKeys, UniqueKeys, RunKeys, WorldTables
  <1>4. \A row : row.table = "offer" => <<"offer", row.offer>> \in StoreKeys(row)
    BY DEF StoreKeys, UniqueKeys, OpeningKeys, WorldTables
  <1>5. \A row : row.table = "confirmation" => <<"confirmation", row.offer>> \in StoreKeys(row)
    BY DEF StoreKeys, UniqueKeys, OpeningKeys, WorldTables
  <1>6. ASSUME NEW a \in Table(R, "run"), NEW b \in Table(D.rows, "run"), a.run = b.run,
               a.version = b.version
        PROVE  FALSE
    BY <1>1, <1>2, <1>6 DEF Table
  <1>7. ASSUME NEW a \in Table(R, "run_creation"), NEW b \in Table(D.rows, "run_creation"),
               a.op = b.op
        PROVE  FALSE
    BY <1>1, <1>3, <1>7 DEF Table
  <1>8. ASSUME NEW a \in Table(R, "offer"), NEW b \in Table(D.rows, "offer"), a.offer = b.offer
        PROVE  FALSE
    BY <1>1, <1>4, <1>8 DEF Table
  <1>9. ASSUME NEW a \in Table(R, "confirmation"), NEW b \in Table(D.rows, "confirmation"),
               a.offer = b.offer
        PROVE  FALSE
    BY <1>1, <1>5, <1>9 DEF Table
  <1> QED BY <1>6, <1>7, <1>8, <1>9

-----------------------------------------------------------------------------
(* Publishing                                                               *)

\* What stays of the rows S when those of a unit of work are added: every run and its
\* first session, what is looked for by key, and who is held by what, but for x.
KeepsFound(S, T, x) ==
    /\ \A r, y : Bound(S, r, y) => Bound(T, r, y)
    /\ \A y : y # x => ActiveRuns(T, y) = ActiveRuns(S, y)
    /\ \A r : RunRevisions(S, r) # {} => FirstSession(T, r) = FirstSession(S, r)
    /\ \A op : RunCreations(S, op) # {} => RunCreations(T, op) = RunCreations(S, op)
    /\ \A op : \A row \in RunCreations(T, op) \ RunCreations(S, op) : row.char = x
    /\ \A o : Confirmations(S, o) # {} => Confirmations(T, o) = Confirmations(S, o)
    /\ \A o : \A row \in Confirmations(T, o) \ Confirmations(S, o) :
          \E offer \in Table(S, "offer") : offer.offer = o /\ offer.char = x
    /\ S \subseteq T

LEMMA SameChoice ==
  ASSUME NEW A, NEW B, NEW n, {p \in A : p.version = n} = {p \in B : p.version = n}
  PROVE  (CHOOSE p \in A : p.version = n) = (CHOOSE p \in B : p.version = n)
  <1>1. \A p : p \in A /\ p.version = n <=> p \in B /\ p.version = n
    OBVIOUS
  <1> QED BY <1>1

LEMMA PublishingWithoutRuns ==
  ASSUME NEW S, NEW R, RowsHang(S), NoRuns(R), Single(R),
         \A a \in Table(R, "offer"), b \in Table(S, "offer") : a.offer # b.offer
  PROVE  /\ RowsHang(S \cup R)
         /\ \A x : KeepsFound(S, S \cup R, x)
  <1> DEFINE T == S \cup R
  <1>1. /\ Table(T, "run") = Table(S, "run") /\ Table(T, "run_creation") = Table(S, "run_creation")
        /\ Table(T, "participation") = Table(S, "participation")
        /\ Table(T, "confirmation") = Table(S, "confirmation")
        /\ \A row \in T : row.table \in NamesRun => row \in S
    BY DEF Table, NoRuns, NamesRun
  <1>2. Table(T, "offer") = Table(S, "offer") \cup Table(R, "offer")
    BY DEF Table
  <1>3. \A a, b \in Table(R, "offer") : a = b
    BY DEF Single, Table
  <1>4. S \subseteq T
    OBVIOUS
  <1> HIDE DEF T
  <1>5. \A r : RunRevisions(T, r) = RunRevisions(S, r) /\ Run(T, r) = Run(S, r)
    BY <1>1 DEF RunRevisions, Run
  <1>6. \A r, y : Bound(T, r, y) <=> Bound(S, r, y)
    BY <1>5 DEF Bound
  <1>7. \A y : ActiveRuns(T, y) = ActiveRuns(S, y)
    BY <1>1, <1>5 DEF ActiveRuns
  <1>8. \A r : FirstSession(T, r) = FirstSession(S, r)
    BY <1>1 DEF FirstSession, Participations
  <1>9. /\ \A op : RunCreations(T, op) = RunCreations(S, op)
        /\ \A o : Confirmations(T, o) = Confirmations(S, o)
    BY <1>1 DEF RunCreations, Confirmations
  <1>10. RowsHang(T)
    <2>1. \A a, b \in Table(T, "offer") : a.offer = b.offer => a = b
      BY <1>2, <1>3 DEF RowsHang
    <2>2. \A row \in Table(T, "run") : \E x : Bound(T, row.run, x)
      BY <1>1, <1>6 DEF RowsHang
    <2>3. \A row \in T : row.table \in NamesRun => RunRevisions(T, row.run) # {}
      BY <1>1, <1>5 DEF RowsHang
    <2> QED BY <1>1, <2>1, <2>2, <2>3 DEF RowsHang
  <1>11. ASSUME NEW x PROVE KeepsFound(S, T, x)
    BY <1>4, <1>6, <1>7, <1>8, <1>9 DEF KeepsFound
  <1> QED BY <1>10, <1>11 DEF T

\* The run that a unit of work is about: it is new, or bound to the same character and
\* gets a later revision.
LEMMA RunGrows ==
  ASSUME NEW S, NEW R, NEW x, RowsHang(S), Concerns(S, R, x),
         \A a \in Table(R, "run"), b \in Table(S, "run") : a.run = b.run => a.version # b.version
  PROVE  \E r : /\ \A row \in R : row.table \in NamesRun => row.run = r
                /\ RunRevisions(S, r) = {} \/ Bound(S, r, x)
                /\ Bound(S \cup R, r, x)
                /\ RunRevisions(S, r) # {} =>
                     \A row \in Table(R, "participation") : row.version # 3
  <1> DEFINE T == S \cup R
  <1>1. CASE Enters(S, R, x)
    <2>1. PICK r : /\ \A row \in R : row.table \in NamesRun => row.run = r
                   /\ \A row \in Table(R, "run") :
                        row.version \in 1..3 /\ (row.version = 1 \/ row.char = x)
                   /\ \E row \in Table(R, "run") : row.version = 1
                   /\ \E row \in Table(R, "run") : row.version = 3
      BY <1>1 DEF Enters
    <2>2. \A row \in Table(R, "run") : row.run = r
      BY <2>1 DEF Table, NamesRun
    <2>3. RunRevisions(S, r) = {}
      <3> SUFFICES ASSUME NEW b \in RunRevisions(S, r) PROVE FALSE
        OBVIOUS
      <3>1. b \in Table(S, "run") /\ b.run = r
        BY DEF RunRevisions
      <3>2. PICK y : Bound(S, r, y)
        BY <3>1 DEF RowsHang
      <3>3. PICK first \in RunRevisions(S, r) : first.version = 1
        BY <3>2 DEF Bound
      <3>4. first \in Table(S, "run") /\ first.run = r
        BY DEF RunRevisions
      <3> QED BY <2>1, <2>2, <3>3, <3>4
    <2>4. RunRevisions(T, r) = Table(R, "run")
      BY <2>2, <2>3 DEF RunRevisions, Table
    <2>5. \A a \in RunRevisions(T, r) : a.version \in Nat /\ (a.version = 1 \/ a.char = x)
      BY <2>1, <2>4
    <2>6. \E a \in RunRevisions(T, r) : a.version = 1
      BY <2>1, <2>4
    <2>7. \E a \in RunRevisions(T, r) :
            a.version >= 3 /\ \A b \in RunRevisions(T, r) : b.version <= a.version
      <3>1. PICK last \in RunRevisions(T, r) : last.version = 3
        BY <2>1, <2>4
      <3>2. \A b \in RunRevisions(T, r) : b.version <= 3
        BY <2>1, <2>4
      <3> QED BY <3>1, <3>2
    <2>8. Bound(T, r, x)
      BY <2>5, <2>6, <2>7 DEF Bound
    <2> QED BY <2>1, <2>3, <2>8 DEF T
  <1>2. CASE Steps(S, R, x)
    <2>1. PICK r : /\ Bound(S, r, x)
                   /\ \A row \in R : row.table \in NamesRun => row.run = r
                   /\ \A row \in Table(R, "run") :
                        row.version \in Nat /\ row.version > 3 /\ row.char = x
                   /\ \A a, b \in Table(R, "run") : a = b
                   /\ \A row \in Table(R, "participation") : row.version > 3
      BY <1>2 DEF Steps
    <2>2. RunRevisions(T, r) = RunRevisions(S, r) \cup Table(R, "run")
      BY <2>1 DEF RunRevisions, Table, NamesRun
    <2>3. \A a \in RunRevisions(T, r) : a.version \in Nat /\ (a.version = 1 \/ a.char = x)
      BY <2>1, <2>2 DEF Bound
    <2>4. \E a \in RunRevisions(T, r) : a.version = 1
      BY <2>1, <2>2 DEF Bound
    <2>5. \E a \in RunRevisions(T, r) :
            a.version >= 3 /\ \A b \in RunRevisions(T, r) : b.version <= a.version
      <3>1. PICK last \in RunRevisions(S, r) :
              last.version >= 3 /\ \A b \in RunRevisions(S, r) : b.version <= last.version
        BY <2>1 DEF Bound
      <3>2. \A b \in RunRevisions(S, r) : b.version \in Nat
        BY <2>1 DEF Bound
      <3>3. CASE \A row \in Table(R, "run") : row.version <= last.version
        <4>1. \A b \in RunRevisions(T, r) : b.version <= last.version
          BY <2>2, <3>1, <3>3
        <4>2. last \in RunRevisions(T, r)
          BY <2>2
        <4> QED BY <3>1, <4>1, <4>2
      <3>4. CASE \E row \in Table(R, "run") : ~(row.version <= last.version)
        <4>1. PICK new \in Table(R, "run") : ~(new.version <= last.version)
          BY <3>4
        <4>2. new.version >= 3 /\ new.version \in Nat /\ new.version >= last.version
          BY <2>1, <3>2, <4>1
        <4>3. \A b \in Table(R, "run") : b = new
          BY <2>1
        <4>4. ASSUME NEW b \in RunRevisions(T, r) PROVE b.version <= new.version
          <5>1. CASE b \in Table(R, "run")
            BY <4>2, <4>3, <5>1
          <5>2. CASE b \in RunRevisions(S, r)
            BY <3>1, <3>2, <4>2, <5>2
          <5> QED BY <2>2, <5>1, <5>2
        <4>5. new \in RunRevisions(T, r)
          BY <2>2
        <4> QED BY <4>2, <4>4, <4>5
      <3> QED BY <3>3, <3>4
    <2>6. Bound(T, r, x)
      BY <2>3, <2>4, <2>5 DEF Bound
    <2> QED BY <2>1, <2>6 DEF T
  <1> QED BY <1>1, <1>2 DEF Concerns

LEMMA PublishingRuns ==
  ASSUME NEW S, NEW R, NEW x, RowsHang(S), Concerns(S, R, x), Single(R),
         \A a \in Table(R, "run"), b \in Table(S, "run") : a.run = b.run => a.version # b.version,
         \A a \in Table(R, "run_creation"), b \in Table(S, "run_creation") : a.op # b.op,
         \A a \in Table(R, "offer"), b \in Table(S, "offer") : a.offer # b.offer,
         \A a \in Table(R, "confirmation"), b \in Table(S, "confirmation") : a.offer # b.offer
  PROVE  RowsHang(S \cup R) /\ KeepsFound(S, S \cup R, x)
  <1> DEFINE T == S \cup R
  <1>1. PICK r : /\ \A row \in R : row.table \in NamesRun => row.run = r
                 /\ RunRevisions(S, r) = {} \/ Bound(S, r, x)
                 /\ Bound(T, r, x)
                 /\ RunRevisions(S, r) # {} =>
                      \A row \in Table(R, "participation") : row.version # 3
    BY RunGrows
  <1>2. \A t : Table(T, t) = Table(S, t) \cup Table(R, t)
    BY DEF Table
  <1>3. S \subseteq T /\ T = S \cup R
    OBVIOUS
  <1>4. /\ \A row \in Table(R, "run") : row.run = r
        /\ \A row \in Table(R, "participation") : row.run = r
    BY <1>1 DEF Table, NamesRun
  <1>5. /\ \A row \in Table(R, "run_creation") : row.char = x
        /\ \A row \in Table(R, "confirmation") :
              \E offer \in Table(S, "offer") : offer.offer = row.offer /\ offer.char = x
    BY DEF Concerns, Enters, Steps, Table
  <1>6. /\ \A a, b \in Table(R, "run_creation") : a = b
        /\ \A a, b \in Table(R, "offer") : a = b
        /\ \A a, b \in Table(R, "confirmation") : a = b
    BY DEF Single, Table
  <1> HIDE DEF T
  <1>7. ASSUME NEW q, q # r
        PROVE  /\ RunRevisions(T, q) = RunRevisions(S, q) /\ Run(T, q) = Run(S, q)
               /\ FirstSession(T, q) = FirstSession(S, q)
               /\ \A y : Bound(T, q, y) <=> Bound(S, q, y)
    <2>1. RunRevisions(T, q) = RunRevisions(S, q)
      BY <1>2, <1>4, <1>7 DEF RunRevisions
    <2>2. Participations(T, q) = Participations(S, q)
      BY <1>2, <1>4, <1>7 DEF Participations
    <2> QED BY <2>1, <2>2 DEF Run, FirstSession, Bound
  <1>8. ASSUME NEW q, NEW y, Bound(S, q, y) PROVE Bound(T, q, y)
    <2>1. CASE q = r
      <3>1. Bound(S, r, x)
        BY <1>1, <1>8, <2>1 DEF Bound
      <3>2. y = x
        BY <1>8, <2>1, <3>1, BoundRun
      <3> QED BY <1>1, <2>1, <3>2
    <2> QED BY <1>7, <1>8, <2>1
  <1>9. ASSUME NEW y, y # x PROVE ActiveRuns(T, y) = ActiveRuns(S, y)
    <2>1. Run(T, r).char = x
      BY <1>1, BoundRun
    <2>2. ASSUME NEW m \in Table(S, "run"), m.run = r PROVE Run(S, r).char = x
      <3>1. RunRevisions(S, r) # {}
        BY <2>2 DEF RunRevisions
      <3> QED BY <1>1, <3>1, BoundRun
    <2>3. ASSUME NEW m, m \in Table(T, "run"), m.char = y, m = Run(T, m.run)
          PROVE  m \in Table(S, "run") /\ m = Run(S, m.run)
      <3>1. m.run # r
        BY <1>9, <2>1, <2>3
      <3> QED BY <1>2, <1>4, <1>7, <2>3, <3>1
    <2>4. ASSUME NEW m, m \in Table(S, "run"), m.char = y, m = Run(S, m.run)
          PROVE  m \in Table(T, "run") /\ m = Run(T, m.run)
      <3>1. m.run # r
        BY <1>9, <2>2, <2>4
      <3> QED BY <1>2, <1>7, <2>4, <3>1
    <2>5. {m \in Table(T, "run") : m.char = y /\ m.status \in ActiveLine /\ m = Run(T, m.run)}
          = {m \in Table(S, "run") : m.char = y /\ m.status \in ActiveLine /\ m = Run(S, m.run)}
      BY <2>3, <2>4
    <2> QED BY <2>5 DEF ActiveRuns
  <1>10. ASSUME NEW q, RunRevisions(S, q) # {} PROVE FirstSession(T, q) = FirstSession(S, q)
    <2>1. CASE q = r
      <3>1. \A row \in Table(R, "participation") : row.version # 3
        BY <1>1, <1>10, <2>1
      <3>2. {p \in Participations(T, q) : p.version = 3} = {p \in Participations(S, q) : p.version = 3}
        BY <1>2, <3>1 DEF Participations
      <3> QED BY <3>2, SameChoice DEF FirstSession
    <2> QED BY <1>7, <2>1
  <1>11. ASSUME NEW op, RunCreations(S, op) # {} PROVE RunCreations(T, op) = RunCreations(S, op)
    BY <1>2, <1>11 DEF RunCreations
  <1>12. ASSUME NEW o, Confirmations(S, o) # {} PROVE Confirmations(T, o) = Confirmations(S, o)
    BY <1>2, <1>12 DEF Confirmations
  <1>13. ASSUME NEW op, NEW row \in RunCreations(T, op) \ RunCreations(S, op) PROVE row.char = x
    BY <1>2, <1>5 DEF RunCreations
  <1>14. ASSUME NEW o, NEW row \in Confirmations(T, o) \ Confirmations(S, o)
         PROVE  \E offer \in Table(S, "offer") : offer.offer = o /\ offer.char = x
    BY <1>2, <1>5 DEF Confirmations
  <1>15. KeepsFound(S, T, x)
    BY <1>3, <1>8, <1>9, <1>10, <1>11, <1>12, <1>13, <1>14 DEF KeepsFound
  <1>16. RowsHang(T)
    <2>1. ASSUME NEW row \in Table(T, "run") PROVE \E y : Bound(T, row.run, y)
      <3>1. CASE row \in Table(S, "run")
        BY <1>8, <3>1 DEF RowsHang
      <3>2. CASE row \in Table(R, "run")
        BY <1>1, <1>4, <3>2
      <3> QED BY <1>2, <3>1, <3>2
    <2>2. ASSUME NEW row \in T, row.table \in NamesRun PROVE RunRevisions(T, row.run) # {}
      <3>1. CASE row \in S
        <4>1. RunRevisions(S, row.run) # {}
          BY <2>2, <3>1 DEF RowsHang
        <4> QED BY <1>2, <4>1 DEF RunRevisions
      <3>2. CASE row \in R
        BY <1>1, <2>2, <3>2 DEF Bound
      <3> QED BY <1>3, <3>1, <3>2
    <2>3. \A a, b \in Table(T, "run_creation") : a.op = b.op => a = b
      BY <1>2, <1>6 DEF RowsHang
    <2>4. \A a, b \in Table(T, "offer") : a.offer = b.offer => a = b
      BY <1>2, <1>6 DEF RowsHang
    <2>5. \A a, b \in Table(T, "confirmation") : a.offer = b.offer => a = b
      BY <1>2, <1>6 DEF RowsHang
    <2> QED BY <2>1, <2>2, <2>3, <2>4, <2>5 DEF RowsHang
  <1> QED BY <1>15, <1>16 DEF T

-----------------------------------------------------------------------------
(* What each operation stages                                               *)

Marginal == {"turn", "event", "session", "binding", "revision", "creation_receipt",
             "mutation_receipt", "run_receipt", "root", "visit", "entry", "evidence"}

\* Rows that no lock is looked up in make no difference.
LEMMA MarginalRows ==
  ASSUME NEW S, NEW R, NEW E, \A row \in E : row.table \in Marginal
  PROVE  /\ Single(R) => Single(R \cup E)
         /\ NoRuns(R) => NoRuns(R \cup E)
         /\ \A x : Concerns(S, R, x) => Concerns(S, R \cup E, x)
  <1> DEFINE T == R \cup E
  <1>1. Single(R) => Single(T)
    BY DEF Single, Marginal
  <1>2. NoRuns(R) => NoRuns(T)
    BY DEF NoRuns, Marginal, NamesRun
  <1>3. \A t \in NamesRun : Table(T, t) = Table(R, t)
    BY DEF Table, Marginal, NamesRun
  <1>4. \A row \in T : row.table \in NamesRun => row \in R
    BY DEF Marginal, NamesRun
  <1>5. \A row \in T : row.table \in {"run_creation", "admission", "confirmation"} => row \in R
    BY DEF Marginal
  <1>6. /\ Table(T, "run") = Table(R, "run") /\ Table(T, "run_creation") = Table(R, "run_creation")
        /\ Table(T, "participation") = Table(R, "participation")
        /\ Table(T, "confirmation") = Table(R, "confirmation")
    BY <1>3 DEF NamesRun
  <1> HIDE DEF T
  <1>7. ASSUME NEW x, Enters(S, R, x) PROVE Enters(S, T, x)
    BY <1>4, <1>6, <1>7 DEF Enters
  <1>8. ASSUME NEW x, Steps(S, R, x) PROVE Steps(S, T, x)
    BY <1>4, <1>5, <1>6, <1>8 DEF Steps
  <1> QED BY <1>1, <1>2, <1>7, <1>8 DEF T, Concerns

LEMMA NothingStaged == Single({}) /\ NoRuns({})
  BY DEF Single, NoRuns

\* The rows of an entry, and the confirmation that an opening adds to them.
LEMMA EntryConcerns ==
  ASSUME NEW S, NEW op, NEW q, NEW r, NEW s, NEW C,
         \A row \in C : /\ row.table = "confirmation" /\ row.run = r
                        /\ \E offer \in Table(S, "offer") :
                              offer.offer = row.offer /\ offer.char = q.char,
         \A a, b \in C : a = b
  PROVE  Single(EntryRows(op, q, r, s) \cup C) /\ Concerns(S, EntryRows(op, q, r, s) \cup C, q.char)
  <1> DEFINE R == EntryRows(op, q, r, s) \cup C
  <1> USE DEF EntryRows, EntryCreation, EntryBinding, EntryActivation, RunRow, RunCreation,
              RunReceipt, Participation, Session, Admission
  <1>1. Table(R, "run") = {RunRow(r, 1, "PRE_FIRST_TURN", "CREATE", op, None, None),
                           RunRow(r, 2, "PRE_FIRST_TURN", "BIND", op, q.char, q.rev),
                           RunRow(r, 3, "ACTIVE", "ATTACH", op, q.char, q.rev)}
    BY DEF Table
  <1>2. Table(R, "run_creation") = {RunCreation(op, r, q.char, q.rev, q.world)}
    BY DEF Table
  <1>3. Table(R, "confirmation") = C
    BY DEF Table
  <1>4. Table(R, "offer") = {}
    BY DEF Table
  <1>5. \A row \in R : row.table \in NamesRun => row.run = r
    BY DEF NamesRun
  <1>6. Single(R)
    BY <1>2, <1>3, <1>4 DEF Single, Table
  <1> HIDE DEF R
  <1>7. /\ \A row \in Table(R, "run") : row.version \in 1..3 /\ (row.version = 1 \/ row.char = q.char)
        /\ \E row \in Table(R, "run") : row.version = 1
        /\ \E row \in Table(R, "run") : row.version = 3
    <2>1. \A n, status, kind, x, rev :
             /\ RunRow(r, n, status, kind, op, x, rev).version = n
             /\ RunRow(r, n, status, kind, op, x, rev).char = x
      OBVIOUS
    <2> HIDE DEF RunRow
    <2> QED BY <1>1, <2>1
  <1>8. \A row \in Table(R, "run_creation") : row.char = q.char
    BY <1>2
  <1>9. Enters(S, R, q.char)
    BY <1>3, <1>5, <1>7, <1>8 DEF Enters
  <1> QED BY <1>6, <1>9 DEF R, Concerns

LEMMA EnterVerdictRows ==
  ASSUME NEW S, NEW V, NEW op, NEW q, NEW r, NEW s
  PROVE  /\ EntryStage(S, V, op, q, r, s).rows =
              IF EntryStage(S, V, op, q, r, s).code = "ok" THEN EntryRows(op, q, r, s) ELSE {}
         /\ EnterVerdict(S, V, q, r, s).rows \in {{}, EntryRows(Op(q), q, r, s)}
  <1>1. \A code : Refuse(code).rows = {}
    BY DEF Refuse
  <1>2. \A result : Answer(result).rows = {}
    BY DEF Answer
  <1>3. \A result, rows : Apply(result, rows).rows = rows /\ Apply(result, rows).code = "ok"
    BY DEF Apply
  <1>4. EntryStage(S, V, op, q, r, s).rows =
          IF EntryStage(S, V, op, q, r, s).code = "ok" THEN EntryRows(op, q, r, s) ELSE {}
    BY DEF EntryStage, Refuse, Apply
  <1>5. EntryStage(S, V, Op(q), q, r, s).rows \in {{}, EntryRows(Op(q), q, r, s)}
    BY <1>1, <1>3 DEF EntryStage
  <1>6. \A o, receipt : EntryReplay(S, o, q, receipt).rows = {}
    BY <1>1, <1>2 DEF EntryReplay, LegacyReplay, NativeReplay
  <1> QED BY <1>1, <1>4, <1>5, <1>6 DEF EnterVerdict

LEMMA ConfirmVerdictRows ==
  ASSUME NEW S, NEW V, NEW q, NEW r, NEW s
  PROVE  LET offer == CHOOSE row \in Table(S, "offer") : row.offer = q.offer IN
         ConfirmVerdict(S, V, q, r, s).rows \in
            {{}, EntryRows(FrozenOp(offer), offer, r, s)
                    \cup {[table |-> "confirmation", offer |-> q.offer, pick |-> q.pick, run |-> r]}}
  <1> DEFINE offer == CHOOSE row \in Table(S, "offer") : row.offer = q.offer
             op == FrozenOp(offer)
             stage == EntryStage(S, V, op, offer, r, s)
             done == CHOOSE row \in Confirmations(S, q.offer) : TRUE
             conf == {[table |-> "confirmation", offer |-> q.offer, pick |-> q.pick, run |-> r]}
             v == ConfirmVerdict(S, V, q, r, s)
             replay == EntryReplay(S, op, offer, CHOOSE row \in RunCreations(V, op) : TRUE).code
  <1>1. stage.rows = IF stage.code = "ok" THEN EntryRows(op, offer, r, s) ELSE {}
    BY EnterVerdictRows
  <1>2. \A code : Refuse(code).rows = {}
    BY DEF Refuse
  <1>3. \A result : Answer(result).rows = {}
    BY DEF Answer
  <1>4. \A result, rows : Apply(result, rows).rows = rows
    BY DEF Apply
  <1>5. v = IF ~Owned(S, q) THEN Refuse("PLAYER_CHARACTER_NOT_FOUND")
            ELSE IF q.pick \notin LegalPicks THEN Refuse("INVALID_TALENT_SELECTION")
            ELSE IF Confirmations(S, q.offer) # {}
            THEN IF done.pick # q.pick THEN Refuse("IDEMPOTENCY_CONFLICT")
                 ELSE IF RunCreations(V, op) = {} \/ replay # "ok" THEN Refuse("INTEGRITY")
                 ELSE Answer(<<"confirmed", q.offer, done.run>>)
            ELSE IF LatestOffer(S, q.char).offer # q.offer THEN Refuse("OPENING_PREPARATION_STALE")
            ELSE IF stage.code # "ok" THEN stage
            ELSE Apply(<<"confirmed", q.offer, r>>, stage.rows \cup conf)
    BY DEF ConfirmVerdict
  <1> HIDE DEF offer, op, stage, done, conf, v, replay
  <1>6. v.rows \in {{}, EntryRows(op, offer, r, s) \cup conf}
    BY <1>1, <1>2, <1>3, <1>4, <1>5
  <1> QED BY <1>6 DEF offer, op, v, conf

\* What the other operations on characters, offers and sessions write names no run.
LEMMA OtherVerdictRows ==
  ASSUME NEW S, NEW q, NEW x
  PROVE  /\ \A row \in Registering(S, q, CreateVerdict(S, q, x)).rows : row.table \in Marginal
         /\ \A row \in MutateVerdict(S, S, q).rows : row.table \in Marginal
         /\ \A row \in CreateSessionVerdict(S, q, x).rows : row.table \in Marginal
         /\ \E n : PrepareVerdict(S, S, q, x).rows \in {{}, {OfferRow(x, q, n)}}
  <1>1. \A code : Refuse(code).rows = {}
    BY DEF Refuse
  <1>2. \A result : Answer(result).rows = {}
    BY DEF Answer
  <1>3. \A result, rows : Apply(result, rows).rows = rows
    BY DEF Apply
  <1>4. \A row \in CreateVerdict(S, q, x).rows : row.table \in Marginal
    <2>1. \A row \in CreationRows(q, x) : row.table \in Marginal
      BY DEF CreationRows, Revision, CreationReceipt, Marginal
    <2>2. \A receipt : CreateReuse(q, receipt).rows = {}
      BY <1>1, <1>2 DEF CreateReuse
    <2> QED BY <1>3, <2>1, <2>2 DEF CreateVerdict
  <1>8. \A row \in Registering(S, q, CreateVerdict(S, q, x)).rows : row.table \in Marginal
    <2>1. "rows" \in DOMAIN CreateVerdict(S, q, x)
      BY DEF CreateVerdict, CreateReuse, Refuse, Answer, Apply
    <2>2. Registering(S, q, CreateVerdict(S, q, x)).rows
            \subseteq CreateVerdict(S, q, x).rows \cup {Binding(q.who)}
      BY <2>1 DEF Registering
    <2> QED BY <1>4, <2>2 DEF Binding, Marginal
  <1>5. \A row \in MutateVerdict(S, S, q).rows : row.table \in Marginal
    <2>1. \A m : \A row \in MutationRows(m, q) : row.table \in Marginal
      BY DEF MutationRows, Revision, MutationReceipt, Marginal
    <2>2. \A m, receipt : MutateReuse(m, q, receipt).rows = {}
      BY <1>1, <1>2 DEF MutateReuse
    <2>3. \/ MutateVerdict(S, S, q).rows = {}
          \/ MutateVerdict(S, S, q).rows = MutationRows(Character(S, q.char), q)
      BY <1>1, <1>3, <2>2 DEF MutateVerdict
    <2> QED BY <2>1, <2>3
  <1>6. \A row \in CreateSessionVerdict(S, q, x).rows : row.table \in Marginal
    <2>1. \A row : SessionReplay(q, row).rows = {}
      BY <1>1, <1>2 DEF SessionReplay
    <2>2. Session(x, Op(q), q.body).table \in Marginal
      BY DEF Session, Marginal
    <2> QED BY <1>3, <2>1, <2>2 DEF CreateSessionVerdict
  <1>7. \E n : PrepareVerdict(S, S, q, x).rows \in {{}, {OfferRow(x, q, n)}}
    <2> DEFINE n == IF Offers(S, q.char) = {} THEN 1 ELSE LatestOffer(S, q.char).ordinal + 1
               v == PrepareVerdict(S, S, q, x)
               active == ActiveRunsNamed(S, S, q.char)
               prior == CHOOSE row \in Requested(S, q) : TRUE
               latest == LatestOffer(S, q.char)
               m == Character(S, q.char)
               holds == \E row \in Offers(S, q.char) :
                           /\ row = latest
                           /\ \E done \in Confirmations(S, row.offer) : done.run \in active
    <2>1. v = IF ~Owned(S, q) THEN Refuse("PLAYER_CHARACTER_NOT_FOUND")
              ELSE IF Requested(S, q) # {}
              THEN IF prior.char # q.char THEN Refuse("IDEMPOTENCY_CONFLICT")
                   ELSE Answer(<<"offer", prior.offer>>)
              ELSE IF PendingOffer(S, q.char) THEN Answer(<<"offer", latest.offer>>)
              ELSE IF active # {}
              THEN IF holds THEN Answer(<<"offer", latest.offer>>)
                   ELSE Refuse("PLAYER_CHARACTER_NOT_ELIGIBLE")
              ELSE IF m.life # "ACTIVE" \/ m.rev = MaxRevision
              THEN Refuse("PLAYER_CHARACTER_NOT_ELIGIBLE")
              ELSE IF q.rev # m.rev THEN Refuse("PLAYER_CHARACTER_STALE")
              ELSE IF q.world \notin Worlds THEN Refuse("INVALID_ENTRY_WORLD")
              ELSE Apply(<<"offer", x>>, {OfferRow(x, q, n)})
      BY DEF PrepareVerdict
    <2> HIDE DEF n, v, active, prior, latest, m, holds
    <2>2. v.rows \in {{}, {OfferRow(x, q, n)}}
      BY <1>1, <1>2, <1>3, <2>1
    <2> QED BY <2>2 DEF v
  <1> QED BY <1>5, <1>6, <1>7, <1>8

LEMMA EmptyRows == Empty.rows = {}
  BY DEF Empty

LEMMA StagedRows ==
  ASSUME NEW code, NEW result, NEW staged
  PROVE  /\ Stage(result, staged).staged = staged
         /\ Tell(result).staged = Empty
         /\ Deny(code).staged = Empty
  BY DEF Stage, Tell, Deny

\* What an operation on a native run stages, and when.
LEMMA StepStages ==
  ASSUME NEW D, NEW q, NEW s
  PROVE  \/ StepVerdict(D, q, s).staged = Empty
         \/ /\ StepVerdict(D, q, s).staged = StepStaged(D, q, s)
            /\ q.run \in NativeRuns(D) /\ StepTaken(D, q) = {} /\ StepAllowed(D, q)
  <1> DEFINE ready == /\ q.run \in NativeRuns(D) /\ Classify(D, q.run) # "broken"
                      /\ StepTaken(D, q) = {} /\ StepAllowed(D, q)
             last == IF Classify(Merge(D, StepStaged(D, q, s)), q.run) = "broken" THEN Deny("INTEGRITY")
                     ELSE Stage(<<"step", q.op, q.run>>, StepStaged(D, q, s))
  <1>1. StepAllowed(D, q) => StepOffered(D, q)
    BY DEF StepAllowed
  <1>2. last.staged = Empty \/ last.staged = StepStaged(D, q, s)
    BY StagedRows
  <1>3. CASE ready
    <2> HIDE DEF last
    <2>1. StepVerdict(D, q, s)
            \in {Deny("STALE_REQUEST"), Deny("INTEGRITY"), last}
      BY <1>1, <1>3 DEF StepVerdict, last
    <2> QED BY <1>2, <1>3, <2>1, StagedRows
  <1>4. CASE ~ready
    <2>1. \/ StepVerdict(D, q, s) \in {Deny("NATIVE_RUN_REQUIRED"), Deny("INTEGRITY"),
               Deny("IDEMPOTENCY_CONFLICT"), Deny("NOT_AVAILABLE"), Deny("STALE_REQUEST")}
          \/ StepVerdict(D, q, s) = Tell(<<"step", q.op, q.run>>)
      BY <1>4 DEF StepVerdict
    <2> QED BY <2>1, StagedRows
  <1> QED BY <1>3, <1>4

LEMMA CarriedRows ==
  ASSUME NEW rows, NEW image
  PROVE  \E E : /\ Carried(rows, image).rows = rows \cup E
                /\ \A row \in E : row.table \in Marginal
  <1>1. Carried(rows, image).rows = rows \cup {Event(s, 1) : s \in Opens(rows)}
    BY DEF Carried, Empty
  <1>2. \A row \in {Event(s, 1) : s \in Opens(rows)} : row.table \in Marginal
    BY DEF Event, Marginal
  <1> QED BY <1>1, <1>2

LEMMA LiftedRows ==
  ASSUME NEW v
  PROVE  \E E : /\ Lift(v).staged.rows = v.rows \cup E
                /\ \A row \in E : row.table \in Marginal
  <1>1. Lift(v).staged = Carried(v.rows, Image(0, "open", 0))
    BY DEF Lift
  <1> QED BY <1>1, CarriedRows

\* Turns and jobs write turns and events.
LEMMA TurnRows ==
  ASSUME NEW D, NEW q, NEW t
  PROVE  /\ \A row \in TurnVerdict(D, q).staged.rows : row.table \in Marginal
         /\ \A row \in PrepareJobVerdict(D, q).staged.rows : row.table \in Marginal
         /\ \A row \in ClaimVerdict(D, q, t).staged.rows : row.table \in Marginal
         /\ \A row \in ProposeVerdict(D, q, t).staged.rows : row.table \in Marginal
         /\ \A row \in ExpireVerdict(D, q).staged.rows : row.table \in Marginal
         /\ \A row \in FinishVerdict(D, q, t).staged.rows : row.table \in Marginal
  <1>1. /\ \A result, staged : Stage(result, staged).staged = staged
        /\ \A result : Tell(result).staged.rows = {}
        /\ \A code : Deny(code).staged.rows = {}
    BY StagedRows, EmptyRows
  <1>2. \A row \in Advanced(D, q).rows : row.table \in Marginal
    BY DEF Advanced, Empty, Turn, Event, Marginal
  <1>3. \A row \in Unchanged(D, q).staged.rows : row.table \in Marginal
    <2> DEFINE kept == [Empty EXCEPT !.rows = {Turn(q.session, q.key, q.body)}]
    <2>1. \A row \in kept.rows : row.table \in Marginal
      BY DEF Empty, Turn, Marginal
    <2>2. \/ Unchanged(D, q) = Tell(<<"turn", q.session>>)
          \/ Unchanged(D, q) = Stage(<<"turn", q.session>>, kept)
      BY DEF Unchanged
    <2> HIDE DEF kept
    <2> QED BY <1>1, <2>1, <2>2
  <1>4. TurnReplay(D, q).staged.rows = {}
    BY <1>1 DEF TurnReplay
  <1>5. \A job, status, lease : Replaced(job, status, lease).rows = {}
    BY DEF Replaced, Empty
  <1>6. \A row \in TurnVerdict(D, q).staged.rows : row.table \in Marginal
    BY <1>1, <1>2, <1>3, <1>4 DEF TurnVerdict
  <1>7. \A row \in PrepareJobVerdict(D, q).staged.rows : row.table \in Marginal
    <2> DEFINE v == PrepareJobVerdict(D, q)
               job == [Empty EXCEPT !.jobs = {[old |-> NoJob, new |-> JobOn(q, D.sess[q.session])]}]
    <2>1. job.rows = {}
      BY DEF Empty
    <2>2. \/ \E code : v = Deny(code)
          \/ \E result : v = Tell(result)
          \/ v = TurnReplay(D, q) \/ v = Unchanged(D, q)
          \/ v = Stage(<<"job", q.session>>, job)
      BY DEF PrepareJobVerdict
    <2> HIDE DEF v, job
    <2>3. \A row \in v.staged.rows : row.table \in Marginal
      BY <1>1, <1>3, <1>4, <2>1, <2>2
    <2> QED BY <2>3 DEF v
  <1>8. \A row \in ClaimVerdict(D, q, t).staged.rows : row.table \in Marginal
    BY <1>1, <1>5 DEF ClaimVerdict
  <1>9. \A row \in ProposeVerdict(D, q, t).staged.rows : row.table \in Marginal
    BY <1>1, <1>5 DEF ProposeVerdict
  <1>10. \A row \in ExpireVerdict(D, q).staged.rows : row.table \in Marginal
    BY <1>1, <1>5 DEF ExpireVerdict
  <1>11. \A row \in FinishVerdict(D, q, t).staged.rows : row.table \in Marginal
    <2> DEFINE v == FinishVerdict(D, q, t)
               job == CHOOSE j \in JobOf(D, q) : TRUE
               turn == [Advanced(D, q) EXCEPT !.jobs = Replaced(job, "COMMITTED", None).jobs,
                                              !.progress = IF Outside(D, q.session)
                                                  THEN Only(q.session, D.progress[q.session] + 1)
                                                  ELSE <<>>]
    <2>1. turn.rows = Advanced(D, q).rows
      <3>1. "rows" \in DOMAIN Advanced(D, q)
        <4> DEFINE f == [Empty EXCEPT !.rows = {Turn(q.session, q.key, q.body),
                                                Event(q.session, NextEvent(D, q.session))},
                                      !.saved = Only(q.session, After(D, q.session, q.pick))]
        <4>1. "rows" \in DOMAIN f
          BY DEF Empty
        <4>2. Advanced(D, q) = f
          BY DEF Advanced
        <4> HIDE DEF f
        <4> QED BY <4>1, <4>2
      <3>2. \A f, jobs, progress :
              "rows" \in DOMAIN f
                => [f EXCEPT !.jobs = jobs, !.progress = progress].rows = f.rows
        OBVIOUS
      <3> QED BY <3>1, <3>2
    <2>2. v = IF \A j \in JobOf(D, q) : j.status # "PROPOSAL_VALIDATED" \/ j.lease # t
              THEN Deny("JOB_STALE")
              ELSE IF job.version # D.sess[q.session] THEN Deny("JOB_STALE")
              ELSE IF ~Readable(D, q.session) THEN Deny("INTEGRITY")
              ELSE Stage(<<"turn", q.session>>, turn)
      BY DEF FinishVerdict
    <2> HIDE DEF v, turn, job
    <2>3. \A row \in v.staged.rows : row.table \in Marginal
      BY <1>1, <1>2, <2>1, <2>2
    <2> QED BY <2>3 DEF v
  <1> QED BY <1>6, <1>7, <1>8, <1>9, <1>10, <1>11

\* An operation on a run adds one revision to it.
LEMMA StepConcerns ==
  ASSUME NEW D, NEW q, NEW s, q.op \in DOMAIN StepKind, Bound(D.rows, q.run, Run(D.rows, q.run).char)
  PROVE  /\ Single(StepStaged(D, q, s).rows)
         /\ Concerns(D.rows, StepStaged(D, q, s).rows, Run(D.rows, q.run).char)
  <1> DEFINE m == Run(D.rows, q.run)
             left == Current(D.rows, q.run)
  <1>1. m \in RunRevisions(D.rows, q.run) /\ m.version \in Nat /\ m.version >= 3
    BY BoundRun
  <1>2. m.run = q.run
    BY <1>1 DEF RunRevisions
  <1>3. \E status, kind, P, E :
          /\ StepStaged(D, q, s).rows = NextRun(m, status, kind) \cup P \cup E
          /\ P \in {{}, {Participation(s, m.run, m.version + 1)}}
          /\ \A row \in E : row.table \in Marginal
    <2>1. DOMAIN StepKind = {"exit", "continue", "revisit", "complete"}
      BY DEF StepKind
    <2>2. CASE q.op \in {"exit", "complete"}
      <3>1. ASSUME NEW status, NEW kind, NEW sealed
            PROVE  \E E : /\ EndRows(D, q, status, kind, sealed) = NextRun(m, status, kind) \cup E
                          /\ \A row \in E : row.table \in Marginal
        <4> DEFINE rest == {RunReceipt(q.run, m.version + 1, kind, StepOp(q), q.run),
                            Evidence(q.run, m.version + 1, sealed, None)}
        <4>1. EndRows(D, q, status, kind, sealed) = NextRun(m, status, kind) \cup rest
          BY DEF EndRows
        <4>2. \A row \in rest : row.table \in Marginal
          BY DEF RunReceipt, Evidence, Marginal
        <4> HIDE DEF rest
        <4> QED BY <4>1, <4>2
      <3>2. \/ StepStaged(D, q, s).rows = LeaveRows(D, q)
            \/ StepStaged(D, q, s).rows = CompleteRows(D, q)
        <4>1. \A rows : [Empty EXCEPT !.rows = rows].rows = rows
          BY DEF Empty
        <4>2. CASE q.op = "exit"
          BY <4>1, <4>2 DEF StepStaged
        <4>3. CASE q.op = "complete"
          BY <4>1, <4>3 DEF StepStaged
        <4> QED BY <2>2, <4>2, <4>3
      <3>3. \E status, kind, sealed : StepStaged(D, q, s).rows = EndRows(D, q, status, kind, sealed)
        BY <3>2 DEF LeaveRows, CompleteRows
      <3>4. PICK status, kind, sealed : StepStaged(D, q, s).rows = EndRows(D, q, status, kind, sealed)
        BY <3>3
      <3>5. PICK E : /\ StepStaged(D, q, s).rows = NextRun(m, status, kind) \cup E
                     /\ \A row \in E : row.table \in Marginal
        BY <3>1, <3>4
      <3> WITNESS status, kind, {}, E
      <3> QED BY <3>5
    <2>3. CASE q.op \in {"continue", "revisit"}
      <3>1. \E kind, F : /\ StepStaged(D, q, s).rows = JoinRows(m, kind, q, s) \cup F
                         /\ \A row \in F : row.table \in Marginal
        <4> USE DEF Marginal, Opened, Session, Event, Root, Entry, Visit, Evidence
        <4>1. \E F : /\ ContinueRows(D, q, s) = JoinRows(m, "CONTINUE", q, s) \cup F
                     /\ \A row \in F : row.table \in Marginal
          <5> DEFINE found == Opened(s, StepOp(q), Onward["death_certificate"], D.snap[left].player)
                     rest == found.rows
                        \cup {Root(q.run, "sealed", left, D.snap[left]),
                              Root(q.run, "found", s, found.image),
                              Visit(q.run, 1, left), Visit(q.run, 2, s),
                              Evidence(q.run, 4, {SealedNow(D, left)}, s)}
          <5>1. ContinueRows(D, q, s) = JoinRows(m, "CONTINUE", q, s) \cup rest
            BY DEF ContinueRows
          <5>2. \A row \in rest : row.table \in Marginal
            OBVIOUS
          <5> HIDE DEF rest
          <5> QED BY <5>1, <5>2
        <4>2. \E F : /\ FogRows(D, q, s) = JoinRows(m, "CONTINUE", q, s) \cup F
                     /\ \A row \in F : row.table \in Marginal
          <5> DEFINE found == Opened(s, StepOp(q), Onward["fog_station"], D.snap[left].player)
                     rest == found.rows
                        \cup {Root(q.run, "sealed", left, D.snap[left]),
                              Entry(q.run, s, left, D.snap[left], found.image),
                              Visit(q.run, 1, left), Visit(q.run, 2, s),
                              Evidence(q.run, 4, {SealedNow(D, left)}, s)}
          <5>1. FogRows(D, q, s) = JoinRows(m, "CONTINUE", q, s) \cup rest
            BY DEF FogRows
          <5>2. \A row \in rest : row.table \in Marginal
            OBVIOUS
          <5> HIDE DEF rest
          <5> QED BY <5>1, <5>2
        <4>3. \E F : /\ RevisitRows(D, q, s) = JoinRows(m, "REVISIT", q, s) \cup F
                     /\ \A row \in F : row.table \in Marginal
          <5> DEFINE found == Opened(s, StepOp(q), Onward["undelivered_receipt"], D.snap[left].player)
                     rest == found.rows
                        \cup {Entry(q.run, s, left, D.snap[left], found.image),
                              Visit(q.run, 3, s), Evidence(q.run, 5, {SealedNow(D, left)}, s)}
          <5>1. RevisitRows(D, q, s) = JoinRows(m, "REVISIT", q, s) \cup rest
            BY DEF RevisitRows
          <5>2. \A row \in rest : row.table \in Marginal
            OBVIOUS
          <5> HIDE DEF rest
          <5> QED BY <5>1, <5>2
        <4>4. \A rows, image, moved, at :
                 /\ [Carried(rows, image) EXCEPT !.moved = moved].rows = Carried(rows, image).rows
                 /\ [Carried(rows, image) EXCEPT !.found = at, !.moved = moved].rows
                       = Carried(rows, image).rows
          <5>1. \A rows, image : "rows" \in DOMAIN Carried(rows, image)
            <6>1. \A rows, opened :
                    "rows" \in DOMAIN [Empty EXCEPT !.rows = rows, !.opened = opened]
              BY DEF Empty
            <6> QED BY <6>1 DEF Carried
          <5>2. \A f, moved, at :
                  "rows" \in DOMAIN f
                    => /\ [f EXCEPT !.moved = moved].rows = f.rows
                       /\ [f EXCEPT !.found = at, !.moved = moved].rows = f.rows
            OBVIOUS
          <5> QED BY <5>1, <5>2
        <4>5. \E kind, F, image :
                 /\ StepStaged(D, q, s).rows = Carried(JoinRows(m, kind, q, s) \cup F, image).rows
                 /\ \A row \in F : row.table \in Marginal
          <5> DEFINE opened == Image(0, "open", D.snap[left].player)
                     moved == Only(q.run, PositionAt(s, m.version + 1))
                     found == Only(q.run, D.position[q.run])
                     rows == IF World(D.rows, left) = "fog_station" THEN FogRows(D, q, s)
                             ELSE ContinueRows(D, q, s)
          <5>1. CASE q.op = "continue"
            <6>1. StepStaged(D, q, s) = [Carried(rows, opened) EXCEPT !.moved = moved]
              BY <5>1 DEF StepStaged
            <6>2. \E F : /\ rows = JoinRows(m, "CONTINUE", q, s) \cup F
                         /\ \A row \in F : row.table \in Marginal
              BY <4>1, <4>2
            <6> HIDE DEF rows, opened, moved
            <6>3. StepStaged(D, q, s).rows = Carried(rows, opened).rows
              BY <4>4, <6>1
            <6> QED BY <6>2, <6>3
          <5>2. CASE q.op = "revisit"
            <6>1. StepStaged(D, q, s)
                    = [Carried(RevisitRows(D, q, s), opened) EXCEPT !.found = found, !.moved = moved]
              BY <5>2 DEF StepStaged
            <6> HIDE DEF rows, opened, moved, found
            <6>2. StepStaged(D, q, s).rows = Carried(RevisitRows(D, q, s), opened).rows
              BY <4>4, <6>1
            <6> QED BY <4>3, <6>2
          <5> QED BY <2>3, <5>1, <5>2
        <4>6. PICK kind, F, image :
                 /\ StepStaged(D, q, s).rows = Carried(JoinRows(m, kind, q, s) \cup F, image).rows
                 /\ \A row \in F : row.table \in Marginal
          BY <4>5
        <4>7. PICK events :
                 /\ Carried(JoinRows(m, kind, q, s) \cup F, image).rows
                       = (JoinRows(m, kind, q, s) \cup F) \cup events
                 /\ \A row \in events : row.table \in Marginal
          BY CarriedRows
        <4> DEFINE rest == F \cup events
        <4>8. StepStaged(D, q, s).rows = JoinRows(m, kind, q, s) \cup rest
          BY <4>6, <4>7
        <4>9. \A row \in rest : row.table \in Marginal
          BY <4>6, <4>7
        <4> HIDE DEF rest
        <4> QED BY <4>8, <4>9
      <3>2. PICK kind, F : /\ StepStaged(D, q, s).rows = JoinRows(m, kind, q, s) \cup F
                           /\ \A row \in F : row.table \in Marginal
        BY <3>1
      <3> DEFINE joins == {Participation(s, m.run, m.version + 1)}
                 rest == {RunReceipt(m.run, m.version + 1, kind, StepOp(q), s)} \cup F
      <3>3. StepStaged(D, q, s).rows = NextRun(m, "ACTIVE", kind) \cup joins \cup rest
        BY <3>2 DEF JoinRows
      <3>4. \A row \in rest : row.table \in Marginal
        BY <3>2 DEF RunReceipt, Marginal
      <3>5. joins \in {{}, {Participation(s, m.run, m.version + 1)}}
        OBVIOUS
      <3> HIDE DEF joins, rest
      <3> QED BY <3>3, <3>4, <3>5
    <2> QED BY <2>1, <2>2, <2>3
  <1> HIDE DEF m
  <1>4. PICK status, kind, P, E :
          /\ StepStaged(D, q, s).rows = NextRun(m, status, kind) \cup P \cup E
          /\ P \in {{}, {Participation(s, m.run, m.version + 1)}}
          /\ \A row \in E : row.table \in Marginal
    BY <1>3
  <1> DEFINE R == NextRun(m, status, kind) \cup P
             next == RunRow(m.run, m.version + 1, status, kind, m.op, m.char, m.rev)
  <1>5. next.table = "run" /\ next.run = m.run /\ next.version = m.version + 1 /\ next.char = m.char
    BY DEF RunRow
  <1>6. /\ \A row \in P : /\ row.table = "participation" /\ row.run = m.run
                         /\ row.version = m.version + 1
        /\ R = {next} \cup P
    BY <1>4 DEF Participation, NextRun
  <1> HIDE DEF R, next
  <1>7. Table(R, "run") = {next} /\ Table(R, "participation") = P
    BY <1>5, <1>6 DEF Table
  <1>8. Single(R)
    BY <1>5, <1>6 DEF Single
  <1>9. Steps(D.rows, R, m.char)
    <2>1. \A row \in R : row.table \in NamesRun => row.run = q.run
      BY <1>2, <1>5, <1>6
    <2>2. m.version + 1 \in Nat /\ m.version + 1 > 3
      BY <1>1 DEF m
    <2>3. \A row \in R : row.table \notin {"run_creation", "admission", "confirmation"}
      BY <1>5, <1>6
    <2> QED BY <1>5, <1>6, <1>7, <2>1, <2>2, <2>3 DEF Steps, m
  <1>10. StepStaged(D, q, s).rows = R \cup E
    BY <1>4 DEF R
  <1>11. Concerns(D.rows, R, Run(D.rows, q.run).char)
    BY <1>9 DEF Concerns, m
  <1>12. \A row \in E : row.table \in Marginal
    BY <1>4
  <1>13. /\ Single(R \cup E)
         /\ Concerns(D.rows, R \cup E, Run(D.rows, q.run).char)
    BY <1>8, <1>11, <1>12, MarginalRows
  <1> QED BY <1>10, <1>13

-----------------------------------------------------------------------------
(* The order of the locks                                                   *)

\* Controllers, then characters, runs and sessions.
Rank(lock) ==
    IF lock[1] = "controller" THEN 0
    ELSE IF lock[1] = "character" THEN 1
    ELSE IF lock[1] = "run" THEN 2 ELSE 3

LEMMA Ranks ==
  /\ \A x : /\ Rank(ControllerLock(x)) = 0 /\ Rank(CharacterLock(x)) = 1
            /\ Rank(RunLock(x)) = 2 /\ Rank(SessionLock(x)) = 3
  /\ \A lock : Rank(lock) \in 0..3
  /\ \A x, y : CharacterLock(x) = CharacterLock(y) => x = y
  BY DEF Rank, ControllerLock, CharacterLock, RunLock, SessionLock

\* Two short sequences, one after the other.
LEMMA ShortConcat ==
  ASSUME NEW a, NEW b, NEW c
  PROVE  /\ <<a>> \o <<>> = <<a>> /\ <<a>> \o <<b>> = <<a, b>>
         /\ <<a>> \o <<b, c>> = <<a, b, c>>
  <1> DEFINE S == {a, b, c}
  <1>1. <<a>> \in Seq(S) /\ <<b>> \in Seq(S) /\ <<b, c>> \in Seq(S)
        /\ <<a, b>> \in Seq(S) /\ <<a, b, c>> \in Seq(S)
    OBVIOUS
  <1>2. <<a>> \o <<>> = <<a>>
    BY <1>1, ConcatEmptySeq
  <1>3. <<a>> \o <<b>> = <<a, b>>
    <2> DEFINE both == <<a>> \o <<b>>
    <2>1. /\ both \in Seq(S)
          /\ Len(both) = Len(<<a>>) + Len(<<b>>)
          /\ \A i \in 1..Len(<<a>>) + Len(<<b>>) :
                both[i] = IF i <= Len(<<a>>) THEN <<a>>[i] ELSE <<b>>[i - Len(<<a>>)]
      BY <1>1, ConcatProperties
    <2> HIDE DEF both, S
    <2>2. Len(both) = 2 /\ both[1] = a /\ both[2] = b
      BY <2>1
    <2>3. \A i \in 1..2 : both[i] = <<a, b>>[i]
      BY <2>2
    <2>4. both = <<a, b>>
      BY <1>1, <2>1, <2>2, <2>3, SeqEqual
    <2> QED BY <2>4 DEF both
  <1>4. <<a>> \o <<b, c>> = <<a, b, c>>
    <2> DEFINE all == <<a>> \o <<b, c>>
    <2>1. /\ all \in Seq(S)
          /\ Len(all) = Len(<<a>>) + Len(<<b, c>>)
          /\ \A i \in 1..Len(<<a>>) + Len(<<b, c>>) :
                all[i] = IF i <= Len(<<a>>) THEN <<a>>[i] ELSE <<b, c>>[i - Len(<<a>>)]
      BY <1>1, ConcatProperties
    <2> HIDE DEF all, S
    <2>2. Len(all) = 3 /\ all[1] = a /\ all[2] = b /\ all[3] = c
      BY <2>1
    <2>3. \A i \in 1..3 : all[i] = <<a, b, c>>[i]
      BY <2>2
    <2>4. all = <<a, b, c>>
      BY <1>1, <2>1, <2>2, <2>3, SeqEqual
    <2> QED BY <2>4 DEF all
  <1> QED BY <1>2, <1>3, <1>4

LEMMA StepOperations == DOMAIN StepKind = {"exit", "continue", "revisit", "complete"}
  BY DEF StepKind

\* What is locked after the character: nothing, a run, or a run and its first session.
Follows(rest) ==
    \/ rest = <<>> \/ \E r : rest = <<RunLock(r)>>
    \/ \E r, s : rest = <<RunLock(r), SessionLock(s)>>

LEMMA FollowingLocks ==
  ASSUME NEW D, NEW q
  PROVE  Follows(EntryLocks(D, q)) /\ Follows(OpeningLocks(D, q)) /\ Follows(HoldingRun(D, q.char))
  <1>1. Follows(<<>>) /\ Follows(HoldingRun(D, q.char))
    BY DEF HoldingRun, Follows
  <1>2. \A r : Follows(Replayed(D, r))
    BY DEF Replayed, Follows
  <1> QED BY <1>1, <1>2 DEF EntryLocks, OpeningLocks

LEMMA LocksAfterCharacter ==
  ASSUME NEW x, NEW rest, Follows(rest)
  PROVE  LET order == <<CharacterLock(x)>> \o rest IN
         /\ order[1] = CharacterLock(x)
         /\ \/ order = <<CharacterLock(x)>>
            \/ \E r : order = <<CharacterLock(x), RunLock(r)>>
            \/ \E r, s : order = <<CharacterLock(x), RunLock(r), SessionLock(s)>>
  <1> DEFINE order == <<CharacterLock(x)>> \o rest
  <1>1. ASSUME NEW r, rest = <<RunLock(r)>>
        PROVE  order = <<CharacterLock(x), RunLock(r)>> /\ order[1] = CharacterLock(x)
    <2>1. order = <<CharacterLock(x), RunLock(r)>>
      BY <1>1, ShortConcat
    <2> HIDE DEF order
    <2> QED BY <2>1
  <1>2. ASSUME NEW r, NEW s, rest = <<RunLock(r), SessionLock(s)>>
        PROVE  /\ order = <<CharacterLock(x), RunLock(r), SessionLock(s)>>
               /\ order[1] = CharacterLock(x)
    <2>1. order = <<CharacterLock(x), RunLock(r), SessionLock(s)>>
      BY <1>2, ShortConcat
    <2> HIDE DEF order
    <2> QED BY <2>1
  <1>3. rest = <<>> \/ (\E r : rest = <<RunLock(r)>>) \/ (\E r, s : rest = <<RunLock(r), SessionLock(s)>>)
    BY DEF Follows
  <1>4. /\ order[1] = CharacterLock(x)
        /\ \/ order = <<CharacterLock(x)>>
           \/ \E r : order = <<CharacterLock(x), RunLock(r)>>
           \/ \E r, s : order = <<CharacterLock(x), RunLock(r), SessionLock(s)>>
    <2>1. CASE rest = <<>>
      <3>1. order = <<CharacterLock(x)>>
        BY <2>1, ShortConcat
      <3> HIDE DEF order
      <3> QED BY <3>1
    <2> HIDE DEF order
    <2> QED BY <1>1, <1>2, <1>3, <2>1
  <1> QED BY <1>4

LEMMA OrderShapes ==
  ASSUME NEW D, NEW q, q.op \in Operations
  PROVE  \/ LockOrder(D, q) = <<>>
         \/ \E x : LockOrder(D, q) \in {<<ControllerLock(x)>>, <<SessionLock(x)>>, <<CharacterLock(x)>>}
         \/ \E x, r : LockOrder(D, q) = <<CharacterLock(x), RunLock(r)>>
         \/ \E x, r, s : LockOrder(D, q) = <<CharacterLock(x), RunLock(r), SessionLock(s)>>
  <1>1. CASE LockOrder(D, q) = <<>> \/ LockOrder(D, q) = <<ControllerLock(q.who)>>
             \/ LockOrder(D, q) = <<SessionLock(q.session)>>
    BY <1>1
  <1>2. CASE LockOrder(D, q) = StepLocks(D, q)
    BY <1>2 DEF StepLocks
  <1>3. ASSUME NEW rest, Follows(rest), LockOrder(D, q) = <<CharacterLock(q.char)>> \o rest
        PROVE  \/ LockOrder(D, q) = <<CharacterLock(q.char)>>
               \/ \E r : LockOrder(D, q) = <<CharacterLock(q.char), RunLock(r)>>
               \/ \E r, s : LockOrder(D, q) = <<CharacterLock(q.char), RunLock(r), SessionLock(s)>>
    BY <1>3, LocksAfterCharacter
  <1>4. CASE LockOrder(D, q) \in {<<CharacterLock(q.char)>> \o EntryLocks(D, q),
                                <<CharacterLock(q.char)>> \o OpeningLocks(D, q),
                                <<CharacterLock(q.char)>> \o HoldingRun(D, q.char)}
    <2>1. PICK rest : Follows(rest) /\ LockOrder(D, q) = <<CharacterLock(q.char)>> \o rest
      BY <1>4, FollowingLocks
    <2> QED BY <1>3, <2>1
  <1> QED BY <1>1, <1>2, <1>4, StepOperations DEF LockOrder, Operations

LEMMA OrderAscends ==
  ASSUME NEW D, NEW q, q.op \in Operations
  PROVE  \E n \in 0..3 :
            /\ DOMAIN LockOrder(D, q) = 1..n
            /\ LockOrder(D, q) # <<>> => n >= 1
            /\ \A i, j \in 1..n : i < j => Rank(LockOrder(D, q)[i]) < Rank(LockOrder(D, q)[j])
  <1> DEFINE order == LockOrder(D, q)
  <1>1. CASE order = <<>>
    <2>1. DOMAIN order = 1..0
      BY <1>1
    <2> HIDE DEF order
    <2> QED BY <1>1, <2>1 DEF order
  <1>2. ASSUME NEW x, order \in {<<ControllerLock(x)>>, <<SessionLock(x)>>, <<CharacterLock(x)>>}
        PROVE  DOMAIN order = 1..1
    BY <1>2
  <1>3. ASSUME NEW x, NEW r, order = <<CharacterLock(x), RunLock(r)>>
        PROVE  DOMAIN order = 1..2 /\ Rank(order[1]) = 1 /\ Rank(order[2]) = 2
    BY <1>3, Ranks
  <1>4. ASSUME NEW x, NEW r, NEW s, order = <<CharacterLock(x), RunLock(r), SessionLock(s)>>
        PROVE  /\ DOMAIN order = 1..3
               /\ Rank(order[1]) = 1 /\ Rank(order[2]) = 2 /\ Rank(order[3]) = 3
    BY <1>4, Ranks
  <1>5. \/ order = <<>> \/ DOMAIN order = 1..1
        \/ DOMAIN order = 1..2 /\ Rank(order[1]) = 1 /\ Rank(order[2]) = 2
        \/ DOMAIN order = 1..3 /\ Rank(order[1]) = 1 /\ Rank(order[2]) = 2 /\ Rank(order[3]) = 3
    BY <1>2, <1>3, <1>4, OrderShapes
  <1> HIDE DEF order
  <1>6. CASE DOMAIN order = 1..1
    BY <1>6 DEF order
  <1>7. CASE DOMAIN order = 1..2 /\ Rank(order[1]) = 1 /\ Rank(order[2]) = 2
    <2>1. \A i, j \in 1..2 : i < j => i = 1 /\ j = 2
      OBVIOUS
    <2> QED BY <1>7, <2>1 DEF order
  <1>8. CASE DOMAIN order = 1..3 /\ Rank(order[1]) = 1 /\ Rank(order[2]) = 2 /\ Rank(order[3]) = 3
    <2>1. \A i, j \in 1..3 :
            i < j => (i = 1 /\ j = 2) \/ (i = 1 /\ j = 3) \/ (i = 2 /\ j = 3)
      OBVIOUS
    <2> QED BY <1>8, <2>1 DEF order
  <1> QED BY <1>1, <1>5, <1>6, <1>7, <1>8

\* The lock that is asked for next is the first that is missing.
LEMMA NextIsFirst ==
  ASSUME NEW D, NEW q, NEW held, q.op \in Operations, Missing(D, q, held) # {}
  PROVE  \E k \in Missing(D, q, held) :
            /\ k \in Nat /\ k >= 1 /\ NextLock(D, q, held) = LockOrder(D, q)[k]
            /\ \A j \in Missing(D, q, held) : k <= j
            /\ 1 \in Missing(D, q, held) => k = 1
  <1> DEFINE M == Missing(D, q, held)
             first == CHOOSE k \in M : \A j \in M : k <= j
  <1>1. PICK n \in 0..3 : DOMAIN LockOrder(D, q) = 1..n
    BY OrderAscends
  <1>2. M \subseteq 1..n
    BY <1>1 DEF Missing
  <1>3. M \subseteq {1, 2, 3}
    BY <1>2
  <1>4. M # {}
    OBVIOUS
  <1>5. NextLock(D, q, held) = LockOrder(D, q)[first]
    BY DEF NextLock
  <1> HIDE DEF M
  <1>6. \E k \in M : \A j \in M : k <= j
    <2>1. CASE 1 \in M
      BY <1>3, <2>1
    <2>2. CASE 1 \notin M /\ 2 \in M
      BY <1>3, <2>2
    <2>3. CASE 1 \notin M /\ 2 \notin M
      <3>1. M = {3}
        BY <1>3, <1>4, <2>3
      <3> QED BY <3>1
    <2> QED BY <2>1, <2>2, <2>3
  <1>7. first \in M /\ \A j \in M : first <= j
    BY <1>6
  <1> HIDE DEF first
  <1>8. first \in Nat /\ first >= 1 /\ (1 \in M => first = 1)
    <2>1. first \in {1, 2, 3}
      BY <1>3, <1>7
    <2>2. 1 \in M => first <= 1
      BY <1>7
    <2> QED BY <2>1, <2>2
  <1> QED BY <1>5, <1>7, <1>8 DEF M

\* What is held begins with the first lock and comes before what is missing.
InOrder(D, q, held) ==
    held # {} =>
        /\ LockOrder(D, q) # <<>>
        /\ LockOrder(D, q)[1] \in held
        /\ \A lock \in held : \A k \in Missing(D, q, held) : Rank(lock) < Rank(LockOrder(D, q)[k])

LEMMA AcquiringInOrder ==
  ASSUME NEW D, NEW q, NEW held, q.op \in Operations, InOrder(D, q, held), Missing(D, q, held) # {}
  PROVE  /\ InOrder(D, q, held \cup {NextLock(D, q, held)})
         /\ \A lock \in held : Rank(lock) < Rank(NextLock(D, q, held))
  <1> DEFINE order == LockOrder(D, q)
             next == NextLock(D, q, held)
             M == Missing(D, q, held)
             N == Missing(D, q, held \cup {next})
  <1>1. PICK k \in M : /\ k \in Nat /\ k >= 1 /\ next = order[k] /\ \A j \in M : k <= j
                       /\ 1 \in M => k = 1
    BY NextIsFirst
  <1>2. PICK n \in 0..3 : /\ DOMAIN order = 1..n
                          /\ \A i, j \in 1..n : i < j => Rank(order[i]) < Rank(order[j])
    BY OrderAscends
  <1>3. M \subseteq 1..n /\ N \subseteq M \ {k}
    BY <1>1, <1>2 DEF Missing
  <1>4. \A lock \in held : Rank(lock) < Rank(next)
    BY <1>1 DEF InOrder
  <1>5. \A j \in N : Rank(next) < Rank(order[j])
    <2>1. \A j \in N : k < j /\ j \in 1..n /\ k \in 1..n
      BY <1>1, <1>3
    <2> QED BY <1>1, <1>2, <2>1
  <1>6. \A lock \in held \cup {next} : \A j \in N : Rank(lock) < Rank(order[j])
    <2>1. \A lock \in held : \A j \in N : Rank(lock) < Rank(order[j])
      BY <1>3 DEF InOrder
    <2> QED BY <1>5, <2>1
  <1>7. order # <<>>
    BY <1>1, <1>2, <1>3
  <1>8. order[1] \in held \cup {next}
    <2>1. CASE 1 \in M
      BY <1>1, <2>1
    <2>2. CASE 1 \notin M
      <3>1. 1 \in DOMAIN order
        BY <1>1, <1>2, <1>3
      <3> QED BY <2>2, <3>1 DEF Missing
    <2> QED BY <2>1, <2>2
  <1> QED BY <1>4, <1>6, <1>7, <1>8 DEF InOrder

Entering == {"enter", "admit"}
OnCharacter == Entering \cup {"confirm", "mutate", "prepare"}

\* A character's lock is the first.
LEMMA CharacterFirst ==
  ASSUME NEW D, NEW q, q.op \in Operations, Found(D, q)
  PROVE  /\ q.op \in OnCharacter =>
               LockOrder(D, q) # <<>> /\ LockOrder(D, q)[1] = CharacterLock(q.char)
         /\ q.op \in DOMAIN StepKind =>
               /\ LockOrder(D, q) # <<>>
               /\ LockOrder(D, q)[1] = CharacterLock(Run(D.rows, q.run).char)
  <1>1. ASSUME q.op \in OnCharacter
        PROVE  LockOrder(D, q) # <<>> /\ LockOrder(D, q)[1] = CharacterLock(q.char)
    <2>1. LockOrder(D, q) \in {<<CharacterLock(q.char)>> \o EntryLocks(D, q),
                              <<CharacterLock(q.char)>> \o OpeningLocks(D, q),
                              <<CharacterLock(q.char)>> \o HoldingRun(D, q.char)}
      BY <1>1, StepOperations DEF LockOrder, OnCharacter, Entering
    <2>2. PICK rest : Follows(rest) /\ LockOrder(D, q) = <<CharacterLock(q.char)>> \o rest
      BY <2>1, FollowingLocks
    <2> DEFINE order == <<CharacterLock(q.char)>> \o rest
    <2>3. /\ order[1] = CharacterLock(q.char)
          /\ \/ order = <<CharacterLock(q.char)>>
             \/ \E r : order = <<CharacterLock(q.char), RunLock(r)>>
             \/ \E r, s : order = <<CharacterLock(q.char), RunLock(r), SessionLock(s)>>
      BY <2>2, LocksAfterCharacter
    <2>4. LockOrder(D, q) = order
      BY <2>2
    <2> HIDE DEF order
    <2>5. order # <<>>
      BY <2>3
    <2> QED BY <2>3, <2>4, <2>5
  <1>2. ASSUME q.op \in DOMAIN StepKind
        PROVE  /\ LockOrder(D, q) # <<>>
               /\ LockOrder(D, q)[1] = CharacterLock(Run(D.rows, q.run).char)
    BY <1>2, StepOperations DEF LockOrder, StepLocks
  <1> QED BY <1>1, <1>2

LEMMA OrderIsStable ==
  ASSUME NEW D, NEW E, NEW q, NEW x, NEW held, q.op \in Operations,
         RowsHang(D.rows), KeepsFound(D.rows, E.rows, x),
         held # {}, InOrder(D, q, held), LockOrder(D, q)[1] # CharacterLock(x)
  PROVE  InOrder(E, q, held)
  <1> DEFINE S == D.rows
             T == E.rows
             first == LockOrder(D, q)[1]
  <1>1. LockOrder(D, q) # <<>> /\ first \in held
    BY DEF InOrder
  <1>2. Found(D, q)
    BY <1>1 DEF LockOrder
  <1>3. S \subseteq T
    BY DEF KeepsFound
  <1>4. Found(E, q)
    BY <1>2, <1>3 DEF Found, OfferFound, NativeRuns, Table
  <1>5. ASSUME q.op \in OnCharacter PROVE q.char # x /\ HoldingRun(E, q.char) = HoldingRun(D, q.char)
    <2>1. q.char # x
      BY <1>1, <1>2, <1>5, CharacterFirst
    <2>2. ActiveRuns(E.rows, q.char) = ActiveRuns(D.rows, q.char)
      BY <2>1 DEF KeepsFound
    <2> QED BY <2>1, <2>2 DEF HoldingRun
  <1>6. ASSUME NEW row \in S, row.table \in NamesRun
        PROVE  FirstSession(T, row.run) = FirstSession(S, row.run)
    <2>1. RunRevisions(S, row.run) # {}
      BY <1>6 DEF RowsHang
    <2> QED BY <2>1 DEF KeepsFound
  <1>7. ASSUME LockOrder(E, q) = LockOrder(D, q) \/ LockOrder(E, q) = <<first>>
        PROVE  InOrder(E, q, held)
    <2>1. CASE LockOrder(E, q) = LockOrder(D, q)
      BY <2>1 DEF InOrder, Missing
    <2>2. CASE LockOrder(E, q) = <<first>>
      <3>1. Missing(E, q, held) = {}
        BY <1>1, <2>2 DEF Missing
      <3> QED BY <1>1, <2>2, <3>1 DEF InOrder
    <2> QED BY <1>7, <2>1, <2>2
  <1>8. CASE q.op \in Entering
    <2>1. q.char # x /\ HoldingRun(E, q.char) = HoldingRun(D, q.char)
      BY <1>5, <1>8 DEF OnCharacter
    <2>2. /\ LockOrder(D, q) = <<CharacterLock(q.char)>> \o EntryLocks(D, q)
          /\ LockOrder(E, q) = <<CharacterLock(q.char)>> \o EntryLocks(E, q)
      BY <1>2, <1>4, <1>8, StepOperations DEF LockOrder, Entering
    <2>3. CASE RunCreations(S, Op(q)) = {} /\ RunCreations(T, Op(q)) = {}
      <3>1. EntryLocks(E, q) = EntryLocks(D, q)
        BY <2>1, <2>3 DEF EntryLocks
      <3> QED BY <1>7, <2>2, <3>1
    <2>4. CASE RunCreations(S, Op(q)) = {} /\ RunCreations(T, Op(q)) # {}
      <3>1. \A row \in RunCreations(T, Op(q)) : row.char = x
        BY <2>4 DEF KeepsFound
      <3>2. EntryLocks(E, q) = <<>>
        BY <2>1, <2>4, <3>1 DEF EntryLocks, SameEntry
      <3>3. LockOrder(E, q) = <<CharacterLock(q.char)>>
        BY <2>2, <3>2, ShortConcat
      <3> QED BY <1>2, <1>7, <1>8, <3>3, CharacterFirst DEF OnCharacter
    <2>5. CASE RunCreations(S, Op(q)) # {}
      <3> DEFINE receipt == CHOOSE row \in RunCreations(S, Op(q)) : TRUE
      <3>1. RunCreations(T, Op(q)) = RunCreations(S, Op(q))
        BY <2>5 DEF KeepsFound
      <3>2. receipt \in S /\ receipt.table \in NamesRun
        BY <2>5 DEF RunCreations, Table, NamesRun
      <3>3. FirstSession(T, receipt.run) = FirstSession(S, receipt.run)
        BY <1>6, <3>2
      <3>4. EntryLocks(E, q) = EntryLocks(D, q)
        BY <2>5, <3>1, <3>3 DEF EntryLocks, Replayed
      <3> QED BY <1>7, <2>2, <3>4
    <2> QED BY <2>3, <2>4, <2>5
  <1>9. CASE q.op = "confirm"
    <2>1. q.char # x /\ HoldingRun(E, q.char) = HoldingRun(D, q.char)
      BY <1>5, <1>9 DEF OnCharacter
    <2>2. /\ LockOrder(D, q) = <<CharacterLock(q.char)>> \o OpeningLocks(D, q)
          /\ LockOrder(E, q) = <<CharacterLock(q.char)>> \o OpeningLocks(E, q)
      BY <1>2, <1>4, <1>9, StepOperations DEF LockOrder
    <2>3. CASE Confirmations(S, q.offer) = {} /\ Confirmations(T, q.offer) = {}
      <3>1. OpeningLocks(E, q) = OpeningLocks(D, q)
        BY <2>1, <2>3 DEF OpeningLocks
      <3> QED BY <1>7, <2>2, <3>1
    <2>4. CASE Confirmations(S, q.offer) = {} /\ Confirmations(T, q.offer) # {}
      <3>1. PICK mine \in Table(S, "offer") : mine.offer = q.offer /\ mine.char = q.char
        BY <1>2, <1>9 DEF Found, OfferFound
      <3>2. PICK theirs \in Table(S, "offer") : theirs.offer = q.offer /\ theirs.char = x
        BY <2>4 DEF KeepsFound
      <3>3. mine = theirs
        BY <3>1, <3>2 DEF RowsHang
      <3> QED BY <2>1, <3>1, <3>2, <3>3
    <2>5. CASE Confirmations(S, q.offer) # {}
      <3> DEFINE done == CHOOSE row \in Confirmations(S, q.offer) : TRUE
      <3>1. Confirmations(T, q.offer) = Confirmations(S, q.offer)
        BY <2>5 DEF KeepsFound
      <3>2. done \in S /\ done.table \in NamesRun
        BY <2>5 DEF Confirmations, Table, NamesRun
      <3>3. FirstSession(T, done.run) = FirstSession(S, done.run)
        BY <1>6, <3>2
      <3>4. OpeningLocks(E, q) = OpeningLocks(D, q)
        BY <2>5, <3>1, <3>3 DEF OpeningLocks, Replayed
      <3> QED BY <1>7, <2>2, <3>4
    <2> QED BY <2>3, <2>4, <2>5
  <1>10. CASE q.op \in {"mutate", "prepare"}
    <2>1. HoldingRun(E, q.char) = HoldingRun(D, q.char)
      BY <1>5, <1>10 DEF OnCharacter
    <2>2. LockOrder(E, q) = LockOrder(D, q)
      BY <1>2, <1>4, <1>10, <2>1, StepOperations DEF LockOrder
    <2> QED BY <1>7, <2>2
  <1>11. CASE q.op \in DOMAIN StepKind
    <2>1. PICK row \in Table(S, "admission") : row.run = q.run
      BY <1>2, <1>11 DEF Found, NativeRuns
    <2>2. RunRevisions(S, q.run) # {}
      BY <2>1 DEF RowsHang, Table, NamesRun
    <2>3. PICK y : Bound(S, q.run, y)
      BY <2>2 DEF RowsHang, RunRevisions
    <2>4. Bound(T, q.run, y)
      BY <2>3 DEF KeepsFound
    <2>5. Run(T, q.run).char = Run(S, q.run).char
      BY <2>3, <2>4, BoundRun
    <2>6. LockOrder(E, q) = LockOrder(D, q)
      BY <1>2, <1>4, <1>11, <2>5, StepOperations DEF LockOrder, StepLocks
    <2> QED BY <1>7, <2>6
  <1>12. CASE q.op \in {"create", "create_session", "turn", "prepare_job", "claim", "propose",
                       "expire", "finish"}
    <2>1. LockOrder(E, q) = LockOrder(D, q)
      BY <1>2, <1>4, <1>12, StepOperations DEF LockOrder
    <2> QED BY <1>7, <2>1
  <1> QED BY <1>8, <1>9, <1>10, <1>11, <1>12 DEF Operations, Entering

-----------------------------------------------------------------------------
(* Units of work                                                            *)

\* What is staged is about no run, or about runs of a character whose lock is held.
StagedFits(S, R, held) ==
    /\ Single(R)
    /\ NoRuns(R) \/ \E x : CharacterLock(x) \in held /\ Concerns(S, R, x)

LEMMA MarginalFits ==
  ASSUME NEW S, NEW R, NEW held, \A row \in R : row.table \in Marginal
  PROVE  StagedFits(S, R, held)
  <1>1. Single(R) /\ NoRuns(R)
    BY DEF Single, NoRuns, Marginal, NamesRun
  <1> QED BY <1>1 DEF StagedFits

LEMMA WorkFits ==
  ASSUME NEW D, NEW q, NEW t, NEW held, q.op \in Operations, RowsHang(D.rows),
         Missing(D, q, held) = {}
  PROVE  StagedFits(D.rows, Verdict(D, q, t).staged.rows, held)
  <1> DEFINE S == D.rows
             v == Verdict(D, q, t)
  <1>1. ASSUME LockOrder(D, q) # <<>> PROVE LockOrder(D, q)[1] \in held
    <2>1. PICK n \in 0..3 : DOMAIN LockOrder(D, q) = 1..n /\ n >= 1
      BY <1>1, OrderAscends
    <2>2. 1 \in DOMAIN LockOrder(D, q)
      BY <2>1
    <2> QED BY <2>2 DEF Missing
  <1>2. ASSUME NEW w, v = Lift(w), w.rows = {} PROVE StagedFits(S, v.staged.rows, held)
    BY <1>2, LiftedRows, MarginalFits
  <1>3. ASSUME NEW w, v = Lift(w), \A row \in w.rows : row.table \in Marginal
        PROVE  StagedFits(S, v.staged.rows, held)
    <2>1. \A row \in v.staged.rows : row.table \in Marginal
      BY <1>3, LiftedRows
    <2> QED BY <2>1, MarginalFits
  <1>4. ASSUME NEW w, v = Lift(w), StagedFits(S, w.rows, held) PROVE StagedFits(S, v.staged.rows, held)
    <2>1. PICK E : v.staged.rows = w.rows \cup E /\ \A row \in E : row.table \in Marginal
      BY <1>4, LiftedRows
    <2>2. Single(w.rows) => Single(w.rows \cup E)
      BY <2>1, MarginalRows
    <2>3. NoRuns(w.rows) => NoRuns(w.rows \cup E)
      BY <2>1, MarginalRows
    <2>4. \A x : Concerns(S, w.rows, x) => Concerns(S, w.rows \cup E, x)
      BY <2>1, MarginalRows
    <2> HIDE DEF v, S
    <2> QED BY <1>4, <2>1, <2>2, <2>3, <2>4 DEF StagedFits
  <1>5. CASE q.op \in {"create", "mutate", "create_session"}
    <2>1. \E w : v = Lift(w) /\ \A row \in w.rows : row.table \in Marginal
      BY <1>5, OtherVerdictRows DEF Verdict
    <2> QED BY <1>3, <2>1
  <1>6. CASE q.op \in Entering
    <2> DEFINE w == EnterVerdict(S, S, q, Fresh, Fresh)
    <2>1. v = Lift(w)
      BY <1>6 DEF Verdict, Entering
    <2>2. w.rows \in {{}, EntryRows(Op(q), q, Fresh, Fresh)}
      BY EnterVerdictRows
    <2>3. CASE w.rows = {}
      BY <1>2, <2>1, <2>3
    <2>4. CASE w.rows = EntryRows(Op(q), q, Fresh, Fresh)
      <3>1. CharacterLock(q.char) \in held
        <4>1. Found(D, q)
          BY <1>6, StepOperations DEF Found, Entering
        <4>2. LockOrder(D, q)[1] = CharacterLock(q.char)
          BY <1>6, <4>1, CharacterFirst DEF OnCharacter
        <4>3. LockOrder(D, q) # <<>>
          BY <1>6, <4>1, CharacterFirst DEF OnCharacter
        <4> QED BY <1>1, <4>2, <4>3
      <3>2. Single(w.rows) /\ Concerns(S, w.rows, q.char)
        <4>1. /\ Single(EntryRows(Op(q), q, Fresh, Fresh) \cup {})
              /\ Concerns(S, EntryRows(Op(q), q, Fresh, Fresh) \cup {}, q.char)
          BY EntryConcerns
        <4> QED BY <2>4, <4>1
      <3>3. StagedFits(S, w.rows, held)
        BY <3>1, <3>2 DEF StagedFits
      <3> QED BY <1>4, <2>1, <3>3
    <2> QED BY <2>2, <2>3, <2>4
  <1>7. CASE q.op = "prepare"
    <2>1. v = Lift(PrepareVerdict(S, S, q, Fresh))
      BY <1>7 DEF Verdict
    <2>2. PICK n : PrepareVerdict(S, S, q, Fresh).rows \in {{}, {OfferRow(Fresh, q, n)}}
      BY OtherVerdictRows
    <2>3. StagedFits(S, {}, held)
      BY NothingStaged DEF StagedFits
    <2>4. StagedFits(S, {OfferRow(Fresh, q, n)}, held)
      BY DEF StagedFits, Single, NoRuns, OfferRow, NamesRun
    <2> QED BY <1>4, <2>1, <2>2, <2>3, <2>4
  <1>8. CASE q.op = "confirm"
    <2> DEFINE w == ConfirmVerdict(S, S, q, Fresh, Fresh)
               offer == CHOOSE row \in Table(S, "offer") : row.offer = q.offer
               entry == EntryRows(FrozenOp(offer), offer, Fresh, Fresh)
               conf == {[table |-> "confirmation", offer |-> q.offer, pick |-> q.pick,
                         run |-> Fresh]}
    <2>1. CASE ~OfferFound(S, q)
      <3>1. v = Deny("PLAYER_CHARACTER_NOT_FOUND")
        BY <1>8, <2>1 DEF Verdict
      <3>2. v.staged.rows = {}
        BY <3>1, StagedRows, EmptyRows
      <3> QED BY <3>2, MarginalFits
    <2>2. CASE OfferFound(S, q)
      <3>1. v = Lift(w)
        BY <1>8, <2>2 DEF Verdict
      <3>2. PICK mine \in Table(S, "offer") : mine.offer = q.offer /\ mine.char = q.char
        BY <2>2 DEF OfferFound
      <3>3. offer \in Table(S, "offer") /\ offer.offer = q.offer /\ offer = mine
        BY <3>2 DEF RowsHang
      <3>4. w.rows \in {{}, entry \cup conf}
        BY ConfirmVerdictRows
      <3>5. CharacterLock(q.char) \in held
        <4>1. Found(D, q)
          BY <1>8, <2>2, StepOperations DEF Found
        <4> QED BY <1>1, <1>8, <4>1, CharacterFirst DEF OnCharacter
      <3>6. Single(entry \cup conf) /\ Concerns(S, entry \cup conf, q.char)
        <4>1. /\ \A row \in conf : /\ row.table = "confirmation" /\ row.run = Fresh
                                   /\ row.offer = q.offer
              /\ \A a, b \in conf : a = b
          OBVIOUS
        <4>2. offer.char = q.char
          BY <3>2, <3>3
        <4> HIDE DEF offer, conf
        <4>3. \A row \in conf : \E o \in Table(S, "offer") : o.offer = row.offer /\ o.char = offer.char
          BY <3>3, <4>1
        <4>4. /\ Single(EntryRows(FrozenOp(offer), offer, Fresh, Fresh) \cup conf)
              /\ Concerns(S, EntryRows(FrozenOp(offer), offer, Fresh, Fresh) \cup conf, offer.char)
          BY <4>1, <4>3, EntryConcerns
        <4> QED BY <4>2, <4>4
      <3>7. StagedFits(S, entry \cup conf, held) /\ StagedFits(S, {}, held)
        BY <3>5, <3>6, NothingStaged DEF StagedFits
      <3> HIDE DEF w, entry, conf
      <3> QED BY <1>4, <3>1, <3>4, <3>7
    <2> QED BY <2>1, <2>2
  <1>9. CASE q.op \in {"turn", "prepare_job", "claim", "propose", "expire", "finish"}
    <2>1. v \in {TurnVerdict(D, q), PrepareJobVerdict(D, q), ClaimVerdict(D, q, t),
                ProposeVerdict(D, q, t), ExpireVerdict(D, q), FinishVerdict(D, q, t)}
      BY <1>9 DEF Verdict
    <2>2. \A row \in v.staged.rows : row.table \in Marginal
      BY <2>1, TurnRows
    <2> QED BY <2>2, MarginalFits
  <1>10. CASE q.op \in DOMAIN StepKind
    <2> DEFINE staged == StepStaged(D, q, Fresh)
               x == Run(S, q.run).char
    <2>1. v = StepVerdict(D, q, Fresh)
      BY <1>10, StepOperations DEF Verdict
    <2>2. CASE q.run \notin NativeRuns(D)
      <3>1. v = Deny("NATIVE_RUN_REQUIRED")
        BY <2>1, <2>2 DEF StepVerdict
      <3> QED BY <3>1, StagedRows, EmptyRows, MarginalFits
    <2>3. CASE q.run \in NativeRuns(D)
      <3>1. v.staged = Empty \/ v.staged = staged
        BY <2>1, StepStages
      <3>2. PICK row \in Table(S, "admission") : row.run = q.run
        BY <2>3 DEF NativeRuns
      <3>3. RunRevisions(S, q.run) # {}
        BY <3>2 DEF RowsHang, Table, NamesRun
      <3>4. PICK y : Bound(S, q.run, y)
        BY <3>3 DEF RowsHang, RunRevisions
      <3>5. Bound(S, q.run, x)
        BY <3>4, BoundRun
      <3>6. CharacterLock(x) \in held
        <4>1. Found(D, q)
          BY <1>10, <2>3, StepOperations DEF Found
        <4> QED BY <1>1, <1>10, <4>1, CharacterFirst
      <3>7. Single(staged.rows) /\ Concerns(S, staged.rows, x)
        BY <1>10, <3>5, StepConcerns
      <3>8. StagedFits(S, staged.rows, held) /\ StagedFits(S, {}, held)
        BY <3>6, <3>7, NothingStaged DEF StagedFits
      <3>9. StagedFits(S, v.staged.rows, held)
        <4> HIDE DEF v, staged, S
        <4> QED BY <3>1, <3>8, EmptyRows
      <3> QED BY <3>9
    <2> QED BY <2>2, <2>3
  <1> QED BY <1>5, <1>6, <1>7, <1>8, <1>9, <1>10 DEF Operations, Entering

\* A publication that is not refused takes no key that is taken.
LEMMA NothingTaken ==
  ASSUME NEW D, NEW st, Objection(D, st) = "none"
  PROVE  ~Taken(D, st.rows)
  <1>1. PICK R : R = st.rows
    OBVIOUS
  <1>2. ~Taken(D, R \ OpeningRows(R)) /\ ~Taken(D, OpeningRows(R))
    BY <1>1 DEF Objection
  <1>3. KeysOf(R) \subseteq KeysOf(R \ OpeningRows(R)) \cup KeysOf(OpeningRows(R))
    BY DEF KeysOf
  <1> QED BY <1>1, <1>2, <1>3 DEF Taken

\* What publishing leaves of what others hold and have staged.
LEMMA PublishingFits ==
  ASSUME NEW D, NEW st, NEW held, RowsHang(D.rows), StagedFits(D.rows, st.rows, held),
         Objection(D, st) = "none"
  PROVE  /\ RowsHang(Merge(D, st).rows)
         /\ (\A x : KeepsFound(D.rows, Merge(D, st).rows, x))
              \/ \E x : CharacterLock(x) \in held /\ KeepsFound(D.rows, Merge(D, st).rows, x)
  <1>1. Merge(D, st).rows = D.rows \cup st.rows
    BY DEF Merge
  <1>2. ~Taken(D, st.rows)
    BY NothingTaken
  <1>3. /\ \A a \in Table(st.rows, "run"), b \in Table(D.rows, "run") :
              a.run = b.run => a.version # b.version
        /\ \A a \in Table(st.rows, "run_creation"), b \in Table(D.rows, "run_creation") : a.op # b.op
        /\ \A a \in Table(st.rows, "offer"), b \in Table(D.rows, "offer") : a.offer # b.offer
        /\ \A a \in Table(st.rows, "confirmation"), b \in Table(D.rows, "confirmation") :
              a.offer # b.offer
    BY <1>2, FreeKeys
  <1>4. CASE NoRuns(st.rows)
    <2>1. RowsHang(D.rows \cup st.rows) /\ \A x : KeepsFound(D.rows, D.rows \cup st.rows, x)
      BY <1>3, <1>4, PublishingWithoutRuns DEF StagedFits
    <2> QED BY <1>1, <2>1
  <1>5. CASE ~NoRuns(st.rows)
    <2>1. PICK x : CharacterLock(x) \in held /\ Concerns(D.rows, st.rows, x)
      BY <1>5 DEF StagedFits
    <2>2. Single(st.rows)
      BY DEF StagedFits
    <2>3. RowsHang(D.rows \cup st.rows) /\ KeepsFound(D.rows, D.rows \cup st.rows, x)
      BY <1>3, <2>1, <2>2, PublishingRuns
    <2> QED BY <1>1, <2>1, <2>3
  <1> QED BY <1>4, <1>5

LEMMA StagedStays ==
  ASSUME NEW S, NEW T, NEW R, NEW x, NEW held, KeepsFound(S, T, x), StagedFits(S, R, held)
  PROVE  StagedFits(T, R, held)
  <1>1. \A y : Concerns(S, R, y) => Concerns(T, R, y)
    <2>1. S \subseteq T /\ \A r, y : Bound(S, r, y) => Bound(T, r, y)
      BY DEF KeepsFound
    <2>2. Table(S, "offer") \subseteq Table(T, "offer")
      BY <2>1 DEF Table
    <2>3. \A y : Enters(S, R, y) => Enters(T, R, y)
      BY <2>2 DEF Enters
    <2>4. \A y : Steps(S, R, y) => Steps(T, R, y)
      BY <2>1 DEF Steps
    <2> QED BY <2>3, <2>4 DEF Concerns
  <1> QED BY <1>1 DEF StagedFits

LEMMA OthersStayInOrder ==
  ASSUME NEW D, NEW E, NEW q, NEW held, NEW theirs, q.op \in Operations, RowsHang(D.rows),
         held \cap theirs = {}, InOrder(D, q, held),
         (\A x : KeepsFound(D.rows, E.rows, x))
            \/ \E x : CharacterLock(x) \in theirs /\ KeepsFound(D.rows, E.rows, x)
  PROVE  InOrder(E, q, held)
  <1>1. CASE held = {}
    BY <1>1 DEF InOrder
  <1>2. CASE held # {} /\ \E x : CharacterLock(x) \in theirs /\ KeepsFound(D.rows, E.rows, x)
    <2>1. PICK x : CharacterLock(x) \in theirs /\ KeepsFound(D.rows, E.rows, x)
      BY <1>2
    <2>2. LockOrder(D, q)[1] # CharacterLock(x)
      BY <1>2, <2>1 DEF InOrder
    <2> QED BY <1>2, <2>1, <2>2, OrderIsStable
  <1>3. CASE held # {} /\ \A x : KeepsFound(D.rows, E.rows, x)
    <2>1. CharacterLock(0) # CharacterLock(1)
      BY Ranks
    <2>2. PICK x : LockOrder(D, q)[1] # CharacterLock(x)
      BY <2>1
    <2> QED BY <1>3, <2>2, OrderIsStable
  <1> QED BY <1>1, <1>2, <1>3

-----------------------------------------------------------------------------
(* The invariant                                                            *)

\* The fields of a task.
Shape(u) == DOMAIN u = {"pc", "q", "held", "staged", "result", "object", "read", "code"}

TaskFits(D, u) ==
    /\ Shape(u)
    /\ u.pc \in {"idle", "lock", "staged", "recover"}
    /\ u.pc = "idle" => u.held = {} /\ (u.code # "ok" => u.object = u.read)
    /\ u.pc # "idle" => u.q.op \in Operations /\ (u.staged.saved = <<>> => u.object = u.read)
    /\ u.pc \in {"lock", "recover"} => InOrder(D, u.q, u.held)
    /\ u.pc = "staged" => StagedFits(D.rows, u.staged.rows, u.held)

Exclusive == \A t, u \in Tasks : t # u => HeldBy(t) \cap HeldBy(u) = {}

LockInvariant ==
    /\ RowsHang(store.rows)
    /\ script \in [Tasks -> Seq(Requests)]
    /\ DOMAIN task = Tasks
    /\ \A t \in Tasks : TaskFits(store, task[t])
    /\ Exclusive

LEMMA InitLocks == Init => LockInvariant
  <1> SUFFICES ASSUME Init PROVE LockInvariant
    OBVIOUS
  <1>1. RowsHang(store.rows)
    BY SeedAssumption DEF Init, RowsHang, Table, NamesRun
  <1>2. script \in [Tasks -> Seq(Requests)]
    BY ScriptAssumption DEF Init
  <1>3. DOMAIN task = Tasks /\ \A t \in Tasks : task[t] = Idle
    BY DEF Init
  <1>4. TaskFits(store, Idle) /\ Idle.held = {}
    BY DEF TaskFits, Shape, Idle
  <1>5. Exclusive
    BY <1>3, <1>4 DEF Exclusive, HeldBy
  <1> QED BY <1>1, <1>2, <1>3, <1>4, <1>5 DEF LockInvariant

\* A step of one task that leaves the maps alone.
LEMMA OneTask ==
  ASSUME LockInvariant, NEW t \in Tasks, store' = store, script' \in [Tasks -> Seq(Requests)],
         DOMAIN task' = Tasks, \A u \in Tasks \ {t} : task'[u] = task[u],
         TaskFits(store, task'[t]), \A u \in Tasks \ {t} : task'[t].held \cap task[u].held = {}
  PROVE  LockInvariant'
  <1>1. \A u \in Tasks : TaskFits(store', task'[u])
    BY DEF LockInvariant
  <1>2. \A u, v \in Tasks : u # v => task'[u].held \cap task'[v].held = {}
    BY DEF LockInvariant, Exclusive, HeldBy
  <1> QED BY <1>1, <1>2 DEF LockInvariant, Exclusive, HeldBy

\* Rolling back leaves the caller's session object as it was read.
LEMMA RollingBack ==
  ASSUME LockInvariant, NEW t \in Tasks, task[t].pc # "idle"
  PROVE  RolledBack(t) = task[t].read
  BY DEF LockInvariant, TaskFits, RolledBack

LEMMA Leaving ==
  ASSUME LockInvariant, NEW t \in Tasks, NEW code, NEW result, NEW object,
         Leave(t, code, result, object), code = "ok" \/ object = task[t].read
  PROVE  /\ DOMAIN task' = Tasks /\ \A u \in Tasks \ {t} : task'[u] = task[u]
         /\ task'[t].held = {}
         /\ \A D : TaskFits(D, task'[t])
  <1>1. Shape(task[t])
    BY DEF LockInvariant, TaskFits
  <1> DEFINE left == [task[t] EXCEPT !.pc = "idle", !.held = {}, !.staged = Empty, !.code = code,
                                     !.result = result, !.object = object]
  <1>2. /\ Shape(left) /\ left.pc = "idle" /\ left.held = {} /\ left.code = code
        /\ left.object = object /\ left.read = task[t].read
    BY <1>1 DEF Shape
  <1>3. task' = [task EXCEPT ![t] = left]
    BY DEF Leave
  <1> HIDE DEF left
  <1>4. DOMAIN task' = Tasks /\ task'[t] = left /\ \A u \in Tasks \ {t} : task'[u] = task[u]
    BY <1>3 DEF LockInvariant
  <1>5. ASSUME NEW D PROVE TaskFits(D, left)
    BY <1>2 DEF TaskFits
  <1> QED BY <1>2, <1>4, <1>5

LEMMA BeginLocks ==
  ASSUME LockInvariant, NEW t \in Tasks, Begin(t)
  PROVE  LockInvariant'
  <1> DEFINE q == Aim(store, Head(script[t]))
             u == [Idle EXCEPT !.pc = "lock", !.q = q]
  <1>1. script[t] \in Seq(Requests) /\ script[t] # <<>>
    BY DEF LockInvariant, Begin
  <1>2. Head(script[t]) \in Requests /\ Tail(script[t]) \in Seq(Requests)
    BY <1>1
  <1>3. q.op \in Operations
    <2>1. \A c \in Requests : \A r, s, n, m :
            [c EXCEPT !.run = r, !.session = s, !.version = n, !.seen = m].op = c.op
      BY DEF Requests
    <2>2. \E r, s, n, m : q = [Head(script[t]) EXCEPT !.run = r, !.session = s, !.version = n, !.seen = m]
      BY DEF Aim
    <2>3. \A c \in Requests : c.op \in Operations
      BY DEF Requests
    <2> HIDE DEF q
    <2> QED BY <1>2, <2>1, <2>2, <2>3
  <1>4. script' \in [Tasks -> Seq(Requests)]
    BY <1>2 DEF Begin, LockInvariant
  <1>5. task' = [task EXCEPT ![t] = u] /\ store' = store
    BY DEF Begin
  <1> HIDE DEF q
  <1>6. Shape(u) /\ u.pc = "lock" /\ u.q = q /\ u.held = {} /\ u.object = u.read
    BY DEF Idle, Shape
  <1> HIDE DEF u
  <1>7. DOMAIN task' = Tasks /\ task'[t] = u /\ \A v \in Tasks \ {t} : task'[v] = task[v]
    BY <1>5 DEF LockInvariant
  <1>8. TaskFits(store, u)
    BY <1>3, <1>6 DEF TaskFits, InOrder
  <1> QED BY <1>4, <1>5, <1>6, <1>7, <1>8, OneTask

LEMMA AcquireLocks ==
  ASSUME LockInvariant, NEW t \in Tasks, Acquire(t)
  PROVE  LockInvariant'
  <1> DEFINE next == NextLock(store, task[t].q, HeldBy(t))
             u == [task[t] EXCEPT !.held = task[t].held \cup {next}]
  <1>1. /\ Shape(task[t]) /\ task[t].q.op \in Operations
        /\ InOrder(store, task[t].q, HeldBy(t))
    BY DEF LockInvariant, TaskFits, Acquire, HeldBy
  <1>2. Missing(store, task[t].q, HeldBy(t)) # {} /\ next \notin HeldByOthers(t)
    BY DEF Acquire
  <1>3. InOrder(store, task[t].q, HeldBy(t) \cup {next})
    BY <1>1, <1>2, AcquiringInOrder
  <1>6. task[t].pc \in {"lock", "recover"}
    BY DEF Acquire
  <1>4. /\ Shape(u) /\ u.pc = task[t].pc /\ u.q = task[t].q /\ u.held = HeldBy(t) \cup {next}
        /\ (u.staged.saved = <<>> => u.object = u.read)
    BY <1>1, <1>6 DEF Shape, HeldBy, LockInvariant, TaskFits
  <1>5. task' = [task EXCEPT ![t] = u] /\ store' = store /\ script' = script
    BY DEF Acquire
  <1>7. \A v \in Tasks \ {t} : next \notin task[v].held
    BY <1>2 DEF HeldByOthers, HeldBy
  <1> HIDE DEF u, next
  <1>8. DOMAIN task' = Tasks /\ task'[t] = u /\ \A v \in Tasks \ {t} : task'[v] = task[v]
    BY <1>5 DEF LockInvariant
  <1>9. TaskFits(store, u)
    BY <1>1, <1>3, <1>4, <1>6 DEF TaskFits
  <1>10. \A v \in Tasks \ {t} : u.held \cap task[v].held = {}
    BY <1>4, <1>7 DEF LockInvariant, Exclusive, HeldBy
  <1>11. script' \in [Tasks -> Seq(Requests)]
    BY <1>5 DEF LockInvariant
  <1> QED BY <1>5, <1>8, <1>9, <1>10, <1>11, OneTask

LEMMA WorkLocks ==
  ASSUME LockInvariant, NEW t \in Tasks, Work(t)
  PROVE  LockInvariant'
  <1> DEFINE q == task[t].q
             v == Verdict(store, q, t)
             read == ReadVersion(store, q)
             raised == Raised(v, read)
             done == [task[t] EXCEPT !.pc = "idle", !.held = {},
                                     !.code = IF v.staged = Empty THEN v.code ELSE "UNSTAGED",
                                     !.result = v.result, !.read = read, !.object = read]
             staged == [task[t] EXCEPT !.pc = "staged", !.staged = v.staged, !.result = v.result,
                                       !.read = read, !.object = raised]
  <1>1. Shape(task[t]) /\ q.op \in Operations /\ RowsHang(store.rows)
    BY DEF LockInvariant, TaskFits, Work
  <1>2. Missing(store, q, HeldBy(t)) = {}
    BY DEF Work
  <1>3. StagedFits(store.rows, v.staged.rows, HeldBy(t))
    BY <1>1, <1>2, WorkFits
  <1>4. task' = [task EXCEPT ![t] = done] \/ task' = [task EXCEPT ![t] = staged]
    BY DEF Work
  <1>5. store' = store /\ script' \in [Tasks -> Seq(Requests)]
    BY DEF Work, LockInvariant
  <1> HIDE DEF v, q, read, raised
  <1>6. /\ Shape(done) /\ done.pc = "idle" /\ done.held = {} /\ done.read = read
        /\ done.object = read
    BY <1>1 DEF Shape
  <1>7. /\ Shape(staged) /\ staged.pc = "staged" /\ staged.held = HeldBy(t)
        /\ staged.staged = v.staged /\ staged.q = q
        /\ staged.object = raised /\ staged.read = read
    BY <1>1 DEF Shape, HeldBy, q
  <1> HIDE DEF done, staged
  <1>8. TaskFits(store, done)
    BY <1>6 DEF TaskFits
  <1>9. TaskFits(store, staged)
    <2>1. v.staged.saved = <<>> => raised = read
      BY DEF raised, Raised
    <2> QED BY <1>1, <1>3, <1>7, <2>1 DEF TaskFits
  <1>10. CASE task' = [task EXCEPT ![t] = done]
    <2>1. DOMAIN task' = Tasks /\ task'[t] = done /\ \A u \in Tasks \ {t} : task'[u] = task[u]
      BY <1>10 DEF LockInvariant
    <2> QED BY <1>5, <1>6, <1>8, <2>1, OneTask
  <1>11. CASE task' = [task EXCEPT ![t] = staged]
    <2>1. DOMAIN task' = Tasks /\ task'[t] = staged /\ \A u \in Tasks \ {t} : task'[u] = task[u]
      BY <1>11 DEF LockInvariant
    <2>2. \A u \in Tasks \ {t} : staged.held \cap task[u].held = {}
      BY <1>7 DEF LockInvariant, Exclusive, HeldBy
    <2> QED BY <1>5, <1>9, <2>1, <2>2, OneTask
  <1> QED BY <1>4, <1>10, <1>11

LEMMA LeaveLocks ==
  ASSUME LockInvariant, NEW t \in Tasks, NEW code, NEW result, NEW object,
         Leave(t, code, result, object), code = "ok" \/ object = task[t].read,
         store' = store, script' = script
  PROVE  LockInvariant'
  <1>1. /\ DOMAIN task' = Tasks /\ \A u \in Tasks \ {t} : task'[u] = task[u]
        /\ task'[t].held = {} /\ TaskFits(store, task'[t])
    BY Leaving
  <1>2. script' \in [Tasks -> Seq(Requests)]
    BY DEF LockInvariant
  <1> QED BY <1>1, <1>2, OneTask

LEMMA PublishLocks ==
  ASSUME LockInvariant, NEW t \in Tasks, Publish(t)
  PROVE  LockInvariant'
  <1> DEFINE st == task[t].staged
             why == Objection(store, st)
             again == [task[t] EXCEPT !.pc = "recover", !.held = {}, !.staged = Empty,
                                      !.object = RolledBack(t)]
  <1>6. RolledBack(t) = task[t].read
    BY RollingBack DEF Publish
  <1>1. /\ Shape(task[t]) /\ task[t].q.op \in Operations
        /\ StagedFits(store.rows, st.rows, HeldBy(t))
    BY DEF LockInvariant, TaskFits, Publish, HeldBy
  <1>2. script' = script
    BY DEF Publish
  <1>3. CASE why = "none" /\ store' = Merge(store, st) /\ Leave(t, "ok", task[t].result, task[t].object)
    <2>1. /\ RowsHang(store'.rows)
          /\ (\A x : KeepsFound(store.rows, store'.rows, x))
               \/ \E x : CharacterLock(x) \in HeldBy(t) /\ KeepsFound(store.rows, store'.rows, x)
      BY <1>1, <1>3, PublishingFits DEF LockInvariant
    <2>2. /\ DOMAIN task' = Tasks /\ \A u \in Tasks \ {t} : task'[u] = task[u]
          /\ task'[t].held = {} /\ TaskFits(store', task'[t])
      BY <1>3, Leaving
    <2>3. ASSUME NEW u \in Tasks \ {t} PROVE TaskFits(store', task'[u])
      <3>1. TaskFits(store, task[u]) /\ task'[u] = task[u]
        BY <2>2 DEF LockInvariant
      <3>2. task[u].held \cap HeldBy(t) = {}
        BY DEF LockInvariant, Exclusive, HeldBy
      <3>3. task[u].pc \in {"lock", "recover"} => InOrder(store', task[u].q, task[u].held)
        <4> SUFFICES ASSUME task[u].pc \in {"lock", "recover"}
                     PROVE  InOrder(store', task[u].q, task[u].held)
          OBVIOUS
        <4>1. task[u].q.op \in Operations /\ InOrder(store, task[u].q, task[u].held)
          BY <3>1 DEF TaskFits
        <4> QED BY <2>1, <3>2, <4>1, OthersStayInOrder DEF LockInvariant
      <3>4. task[u].pc = "staged" => StagedFits(store'.rows, task[u].staged.rows, task[u].held)
        BY <2>1, <3>1, StagedStays DEF TaskFits
      <3> QED BY <3>1, <3>3, <3>4 DEF TaskFits
    <2>4. \A u, v \in Tasks : u # v => task'[u].held \cap task'[v].held = {}
      BY <2>2 DEF LockInvariant, Exclusive, HeldBy
    <2>5. script' \in [Tasks -> Seq(Requests)]
      BY <1>2 DEF LockInvariant
    <2> QED BY <2>1, <2>2, <2>3, <2>4, <2>5 DEF LockInvariant, Exclusive, HeldBy
  <1>4. CASE store' = store /\ Leave(t, why, <<>>, RolledBack(t))
    BY <1>2, <1>4, <1>6, LeaveLocks
  <1>5. CASE store' = store /\ task' = [task EXCEPT ![t] = again]
    <2>1. /\ Shape(again) /\ again.pc = "recover" /\ again.held = {} /\ again.q = task[t].q
          /\ again.object = again.read
      BY <1>1, <1>6 DEF Shape
    <2> HIDE DEF again
    <2>2. DOMAIN task' = Tasks /\ task'[t] = again /\ \A u \in Tasks \ {t} : task'[u] = task[u]
      BY <1>5 DEF LockInvariant
    <2>3. TaskFits(store, again)
      BY <1>1, <2>1 DEF TaskFits, InOrder
    <2>4. script' \in [Tasks -> Seq(Requests)]
      BY <1>2 DEF LockInvariant
    <2> QED BY <1>5, <2>1, <2>2, <2>3, <2>4, OneTask
  <1> QED BY <1>3, <1>4, <1>5 DEF Publish

\* Every step keeps the invariant.
LEMMA NextLocks == LockInvariant /\ [Next]_vars => LockInvariant'
  <1> SUFFICES ASSUME LockInvariant, [Next]_vars PROVE LockInvariant'
    OBVIOUS
  <1>1. CASE UNCHANGED vars
    BY <1>1 DEF vars, LockInvariant, Exclusive, HeldBy
  <1>2. CASE Finished
    BY <1>1, <1>2 DEF Finished
  <1>3. ASSUME NEW t \in Tasks, Begin(t) PROVE LockInvariant'
    BY <1>3, BeginLocks
  <1>4. ASSUME NEW t \in Tasks, Acquire(t) PROVE LockInvariant'
    BY <1>4, AcquireLocks
  <1>5. ASSUME NEW t \in Tasks, Work(t) PROVE LockInvariant'
    BY <1>5, WorkLocks
  <1>6. ASSUME NEW t \in Tasks, Publish(t) PROVE LockInvariant'
    BY <1>6, PublishLocks
  <1>7. ASSUME NEW t \in Tasks, Recover(t) PROVE LockInvariant'
    BY <1>7, LeaveLocks, RollingBack DEF Recover
  <1>8. ASSUME NEW t \in Tasks, Cancel(t) PROVE LockInvariant'
    BY <1>8, LeaveLocks, RollingBack DEF Cancel
  <1> QED BY <1>1, <1>2, <1>3, <1>4, <1>5, <1>6, <1>7, <1>8 DEF Next

-----------------------------------------------------------------------------
(* No circle                                                                *)

\* Whoever waits holds nothing that comes after what it waits for.
LEMMA WaitsUpwards ==
  ASSUME LockInvariant, NEW t \in Tasks, Waits(t) # {}
  PROVE  \E next : /\ Waits(t) = {next}
                   /\ \A lock \in HeldBy(t) : Rank(lock) < Rank(next)
  <1> DEFINE q == task[t].q
             next == NextLock(store, q, HeldBy(t))
  <1>1. /\ task[t].pc \in {"lock", "recover"}
        /\ Missing(store, q, HeldBy(t)) # {} /\ Waits(t) = {next}
    BY DEF Waits
  <1>2. q.op \in Operations /\ InOrder(store, q, HeldBy(t))
    BY <1>1 DEF LockInvariant, TaskFits, HeldBy
  <1>3. \A lock \in HeldBy(t) : Rank(lock) < Rank(next)
    BY <1>1, <1>2, AcquiringInOrder
  <1> QED BY <1>1, <1>3

\* Of those in a circle, the one that waits for the last lock waits for none of them.
LEMMA NoCircle == LockInvariant => NobodyWaitsInACircle
  <1> SUFFICES ASSUME LockInvariant, NEW circle \in SUBSET Tasks, circle # {}
               PROVE  \E t \in circle : \A u \in circle \ {t} : Waits(t) \cap HeldBy(u) = {}
    BY DEF NobodyWaitsInACircle
  <1>1. CASE \E t \in circle : Waits(t) = {}
    BY <1>1
  <1>2. CASE \A t \in circle : Waits(t) # {}
    <2> DEFINE Up(t) == \E next : /\ Waits(t) = {next}
                                  /\ \A lock \in HeldBy(t) : Rank(lock) < Rank(next)
               At(t, n) == \E next : Waits(t) = {next} /\ Rank(next) = n
    <2>1. \A t \in circle : Up(t)
      BY <1>2, WaitsUpwards
    <2>2. \A t \in circle : \E n \in 0..3 : At(t, n)
      BY <2>1, Ranks
    <2>3. ASSUME NEW t \in circle, NEW n \in 0..3, At(t, n), \A u \in circle : \A k \in 0..3 : At(u, k) => k <= n
          PROVE  \A u \in circle \ {t} : Waits(t) \cap HeldBy(u) = {}
      <3> SUFFICES ASSUME NEW u \in circle \ {t}, NEW lock \in Waits(t) \cap HeldBy(u) PROVE FALSE
        OBVIOUS
      <3>1. Rank(lock) = n
        BY <2>3
      <3>2. PICK next : Waits(u) = {next} /\ Rank(lock) < Rank(next)
        BY <2>1
      <3>3. Rank(next) \in 0..3 /\ At(u, Rank(next))
        BY <3>2, Ranks
      <3>4. Rank(next) <= n
        BY <2>3, <3>3
      <3> QED BY <3>1, <3>2, <3>3, <3>4
    <2>4. \E n \in 0..3 : /\ \E t \in circle : At(t, n)
                          /\ \A u \in circle : \A k \in 0..3 : At(u, k) => k <= n
      <3> DEFINE Some(n) == \E t \in circle : At(t, n)
      <3>1. \E n \in 0..3 : Some(n)
        BY <2>2
      <3> HIDE DEF Some
      <3>2. \E n \in 0..3 : Some(n) /\ \A k \in 0..3 : Some(k) => k <= n
        <4>1. Some(0) \/ Some(1) \/ Some(2) \/ Some(3)
          BY <3>1
        <4>2. CASE Some(3)
          BY <4>2
        <4>3. CASE ~Some(3) /\ Some(2)
          BY <4>3
        <4>4. CASE ~Some(3) /\ ~Some(2) /\ Some(1)
          BY <4>4
        <4>5. CASE ~Some(3) /\ ~Some(2) /\ ~Some(1) /\ Some(0)
          BY <4>5
        <4> QED BY <4>1, <4>2, <4>3, <4>4, <4>5
      <3> QED BY <3>2 DEF Some
    <2> HIDE DEF Up, At
    <2> QED BY <2>3, <2>4
  <1> QED BY <1>1, <1>2

LEMMA Restored == LockInvariant => ObjectsAreRestored
  BY DEF LockInvariant, TaskFits, ObjectsAreRestored

\* However many units of work ask for whatever, and wherever they are cancelled, they
\* never wait for each other in a circle, and one that does not commit leaves its caller's
\* session object as it was read (demo_persistence.py).
THEOREM LocksNeverTrap == Spec => []LocksAreNoTrap
  <1>1. LockInvariant => LocksAreNoTrap
    BY NoCircle, Restored DEF LocksAreNoTrap
  <1> QED BY InitLocks, NextLocks, <1>1, PTL DEF Spec

-----------------------------------------------------------------------------
(* The keys of the store's rows                                             *)

\* The tables there are.
AllTables ==
    {"binding", "revision", "creation_receipt", "mutation_receipt", "run", "run_creation",
     "run_receipt", "participation", "admission", "offer", "confirmation", "session", "turn",
     "event", "evidence", "root", "visit", "entry"}

\* The keys of a row, table by table.
LEMMA RowKeys ==
  ASSUME NEW row
  PROVE
         /\ row.table = "binding" => StoreKeys(row) =
              {<<"binding", row.who>>}
         /\ row.table = "revision" => StoreKeys(row) =
              {<<"revision", row.char, row.rev>>}
         /\ row.table = "creation_receipt" => StoreKeys(row) =
              {<<"creation", row.who, row.key>>, <<"created_character", row.char>>}
         /\ row.table = "mutation_receipt" => StoreKeys(row) =
              {<<"mutation", row.char, row.key>>, <<"mutated_revision", row.char, row.rev>>}
         /\ row.table = "run" => StoreKeys(row) =
              {<<"run", row.run, row.version>>}
         /\ row.table = "run_creation" => StoreKeys(row) =
              {<<"run_op", row.op>>, <<"created_run", row.run>>}
         /\ row.table = "run_receipt" => StoreKeys(row) =
              {<<"step_op", row.run, row.kind, row.op>>, <<"step", row.run, row.version>>}
         /\ row.table = "participation" => StoreKeys(row) =
              {<<"member", row.session>>, <<"joined", row.run, row.version>>,
               <<"joined exactly", row.session, row.run, row.version>>}
         /\ row.table = "admission" => StoreKeys(row) =
              {<<"admission", row.run>>}
         /\ row.table = "offer" => StoreKeys(row) =
              {<<"offer", row.offer>>, <<"offer_key", row.who, row.key>>,
               <<"ordinal", row.char, row.ordinal>>}
         /\ row.table = "confirmation" => StoreKeys(row) =
              {<<"confirmation", row.offer>>, <<"opened_run", row.run>>}
         /\ row.table = "session" => StoreKeys(row) =
              {<<"session", row.session>>, <<"request", row.op>>}
         /\ row.table = "turn" => StoreKeys(row) =
              {<<"turn", row.session, row.key>>}
         /\ row.table = "event" => StoreKeys(row) =
              {<<"event", row.session, row.seq>>}
         /\ row.table = "evidence" => StoreKeys(row) =
              {<<"evidence", row.run, row.version>>}
         /\ row.table = "root" => StoreKeys(row) =
              {<<"root", row.run, row.basis>>}
         /\ row.table = "visit" => StoreKeys(row) =
              {<<"visit", row.run, row.ordinal>>, <<"visit at", row.run, row.joined>>,
               <<"visited", row.session>>, <<"visit of", row.run, row.session>>}
         /\ row.table = "entry" => StoreKeys(row) =
              {<<"entry", row.run, row.session>>, <<"entered", row.session>>}
         /\ row.table \notin AllTables => StoreKeys(row) = {}
  <1>1. row.table = "binding" => StoreKeys(row) =
              {<<"binding", row.who>>}
    BY DEF StoreKeys, UniqueKeys, CharacterKeys, RunKeys, OpeningKeys, SessionKeys, WorldTables
  <1>2. row.table = "revision" => StoreKeys(row) =
              {<<"revision", row.char, row.rev>>}
    BY DEF StoreKeys, UniqueKeys, CharacterKeys, RunKeys, OpeningKeys, SessionKeys, WorldTables
  <1>3. row.table = "creation_receipt" => StoreKeys(row) =
              {<<"creation", row.who, row.key>>, <<"created_character", row.char>>}
    BY DEF StoreKeys, UniqueKeys, CharacterKeys, RunKeys, OpeningKeys, SessionKeys, WorldTables
  <1>4. row.table = "mutation_receipt" => StoreKeys(row) =
              {<<"mutation", row.char, row.key>>, <<"mutated_revision", row.char, row.rev>>}
    BY DEF StoreKeys, UniqueKeys, CharacterKeys, RunKeys, OpeningKeys, SessionKeys, WorldTables
  <1>5. row.table = "run" => StoreKeys(row) =
              {<<"run", row.run, row.version>>}
    BY DEF StoreKeys, UniqueKeys, CharacterKeys, RunKeys, OpeningKeys, SessionKeys, WorldTables
  <1>6. row.table = "run_creation" => StoreKeys(row) =
              {<<"run_op", row.op>>, <<"created_run", row.run>>}
    BY DEF StoreKeys, UniqueKeys, CharacterKeys, RunKeys, OpeningKeys, SessionKeys, WorldTables
  <1>7. row.table = "run_receipt" => StoreKeys(row) =
              {<<"step_op", row.run, row.kind, row.op>>, <<"step", row.run, row.version>>}
    BY DEF StoreKeys, UniqueKeys, CharacterKeys, RunKeys, OpeningKeys, SessionKeys, WorldTables
  <1>8. row.table = "participation" => StoreKeys(row) =
              {<<"member", row.session>>, <<"joined", row.run, row.version>>,
               <<"joined exactly", row.session, row.run, row.version>>}
    BY DEF StoreKeys, UniqueKeys, CharacterKeys, RunKeys, OpeningKeys, SessionKeys, WorldTables
  <1>9. row.table = "admission" => StoreKeys(row) =
              {<<"admission", row.run>>}
    BY DEF StoreKeys, UniqueKeys, CharacterKeys, RunKeys, OpeningKeys, SessionKeys, WorldTables
  <1>10. row.table = "offer" => StoreKeys(row) =
              {<<"offer", row.offer>>, <<"offer_key", row.who, row.key>>,
               <<"ordinal", row.char, row.ordinal>>}
    BY DEF StoreKeys, UniqueKeys, CharacterKeys, RunKeys, OpeningKeys, SessionKeys, WorldTables
  <1>11. row.table = "confirmation" => StoreKeys(row) =
              {<<"confirmation", row.offer>>, <<"opened_run", row.run>>}
    BY DEF StoreKeys, UniqueKeys, CharacterKeys, RunKeys, OpeningKeys, SessionKeys, WorldTables
  <1>12. row.table = "session" => StoreKeys(row) =
              {<<"session", row.session>>, <<"request", row.op>>}
    BY DEF StoreKeys, UniqueKeys, CharacterKeys, RunKeys, OpeningKeys, SessionKeys, WorldTables
  <1>13. row.table = "turn" => StoreKeys(row) =
              {<<"turn", row.session, row.key>>}
    BY DEF StoreKeys, WorldTables
  <1>14. row.table = "event" => StoreKeys(row) =
              {<<"event", row.session, row.seq>>}
    BY DEF StoreKeys, WorldTables
  <1>15. row.table = "evidence" => StoreKeys(row) =
              {<<"evidence", row.run, row.version>>}
    BY DEF StoreKeys, WorldTables
  <1>16. row.table = "root" => StoreKeys(row) =
              {<<"root", row.run, row.basis>>}
    BY DEF StoreKeys, WorldKeys, WorldTables
  <1>17. row.table = "visit" => StoreKeys(row) =
              {<<"visit", row.run, row.ordinal>>, <<"visit at", row.run, row.joined>>,
               <<"visited", row.session>>, <<"visit of", row.run, row.session>>}
    BY DEF StoreKeys, WorldKeys, WorldTables
  <1>18. row.table = "entry" => StoreKeys(row) =
              {<<"entry", row.run, row.session>>, <<"entered", row.session>>}
    BY DEF StoreKeys, WorldKeys, WorldTables
  <1>19. row.table \notin AllTables => StoreKeys(row) = {}
    BY DEF AllTables, StoreKeys, UniqueKeys, CharacterKeys, RunKeys, OpeningKeys, SessionKeys,
           WorldTables
  <1> QED BY <1>1, <1>2, <1>3, <1>4, <1>5, <1>6, <1>7, <1>8, <1>9, <1>10, <1>11, <1>12, <1>13, <1>14, <1>15, <1>16, <1>17, <1>18, <1>19

\* Every key tells the table it is of.
KeyTable(tag) ==
    CASE tag \in {"creation", "created_character"} -> "creation_receipt"
      [] tag \in {"mutation", "mutated_revision"} -> "mutation_receipt"
      [] tag \in {"run_op", "created_run"} -> "run_creation"
      [] tag \in {"step_op", "step"} -> "run_receipt"
      [] tag \in {"member", "joined", "joined exactly"} -> "participation"
      [] tag \in {"offer_key", "ordinal"} -> "offer"
      [] tag = "opened_run" -> "confirmation"
      [] tag = "request" -> "session"
      [] tag \in {"visit at", "visited", "visit of"} -> "visit"
      [] tag = "entered" -> "entry"
      [] OTHER -> tag

\* A key says by its name which table holds it.
LEMMA KeysTellTables ==
  ASSUME NEW row, NEW key \in StoreKeys(row)
  PROVE  KeyTable(key[1]) = row.table
  <1>1. CASE row.table = "binding"
    <2>1. StoreKeys(row) = {<<"binding", row.who>>}
      BY <1>1, RowKeys
    <2>2. key[1] = "binding"
      BY <2>1
    <2>3. KeyTable("binding") = "binding"
      BY DEF KeyTable
    <2> QED BY <1>1, <2>2, <2>3
  <1>2. CASE row.table = "revision"
    <2>1. StoreKeys(row) = {<<"revision", row.char, row.rev>>}
      BY <1>2, RowKeys
    <2>2. key[1] = "revision"
      BY <2>1
    <2>3. KeyTable("revision") = "revision"
      BY DEF KeyTable
    <2> QED BY <1>2, <2>2, <2>3
  <1>3. CASE row.table = "creation_receipt"
    <2>1. StoreKeys(row) = {<<"creation", row.who, row.key>>, <<"created_character", row.char>>}
      BY <1>3, RowKeys
    <2>2. key[1] \in {"creation", "created_character"}
      BY <2>1
    <2>3. KeyTable("creation") = "creation_receipt"
      BY DEF KeyTable
    <2>4. KeyTable("created_character") = "creation_receipt"
      BY DEF KeyTable
    <2> QED BY <1>3, <2>2, <2>3, <2>4
  <1>4. CASE row.table = "mutation_receipt"
    <2>1. StoreKeys(row) = {<<"mutation", row.char, row.key>>, <<"mutated_revision", row.char, row.rev>>}
      BY <1>4, RowKeys
    <2>2. key[1] \in {"mutation", "mutated_revision"}
      BY <2>1
    <2>3. KeyTable("mutation") = "mutation_receipt"
      BY DEF KeyTable
    <2>4. KeyTable("mutated_revision") = "mutation_receipt"
      BY DEF KeyTable
    <2> QED BY <1>4, <2>2, <2>3, <2>4
  <1>5. CASE row.table = "run"
    <2>1. StoreKeys(row) = {<<"run", row.run, row.version>>}
      BY <1>5, RowKeys
    <2>2. key[1] = "run"
      BY <2>1
    <2>3. KeyTable("run") = "run"
      BY DEF KeyTable
    <2> QED BY <1>5, <2>2, <2>3
  <1>6. CASE row.table = "run_creation"
    <2>1. StoreKeys(row) = {<<"run_op", row.op>>, <<"created_run", row.run>>}
      BY <1>6, RowKeys
    <2>2. key[1] \in {"run_op", "created_run"}
      BY <2>1
    <2>3. KeyTable("run_op") = "run_creation"
      BY DEF KeyTable
    <2>4. KeyTable("created_run") = "run_creation"
      BY DEF KeyTable
    <2> QED BY <1>6, <2>2, <2>3, <2>4
  <1>7. CASE row.table = "run_receipt"
    <2>1. StoreKeys(row) = {<<"step_op", row.run, row.kind, row.op>>, <<"step", row.run, row.version>>}
      BY <1>7, RowKeys
    <2>2. key[1] \in {"step_op", "step"}
      BY <2>1
    <2>3. KeyTable("step_op") = "run_receipt"
      BY DEF KeyTable
    <2>4. KeyTable("step") = "run_receipt"
      BY DEF KeyTable
    <2> QED BY <1>7, <2>2, <2>3, <2>4
  <1>8. CASE row.table = "participation"
    <2>1. StoreKeys(row) = {<<"member", row.session>>, <<"joined", row.run, row.version>>,
               <<"joined exactly", row.session, row.run, row.version>>}
      BY <1>8, RowKeys
    <2>2. key[1] \in {"member", "joined", "joined exactly"}
      <3>1. CASE key = <<"member", row.session>>
        BY <3>1
      <3>2. CASE key = <<"joined", row.run, row.version>>
        BY <3>2
      <3>3. CASE key = <<"joined exactly", row.session, row.run, row.version>>
        BY <3>3
      <3> QED BY <2>1, <3>1, <3>2, <3>3
    <2>3. KeyTable("member") = "participation"
      BY DEF KeyTable
    <2>4. KeyTable("joined") = "participation"
      BY DEF KeyTable
    <2>5. KeyTable("joined exactly") = "participation"
      BY DEF KeyTable
    <2> QED BY <1>8, <2>2, <2>3, <2>4, <2>5
  <1>9. CASE row.table = "admission"
    <2>1. StoreKeys(row) = {<<"admission", row.run>>}
      BY <1>9, RowKeys
    <2>2. key[1] = "admission"
      BY <2>1
    <2>3. KeyTable("admission") = "admission"
      BY DEF KeyTable
    <2> QED BY <1>9, <2>2, <2>3
  <1>10. CASE row.table = "offer"
    <2>1. StoreKeys(row) = {<<"offer", row.offer>>, <<"offer_key", row.who, row.key>>,
               <<"ordinal", row.char, row.ordinal>>}
      BY <1>10, RowKeys
    <2>2. key[1] \in {"offer", "offer_key", "ordinal"}
      BY <2>1
    <2>3. KeyTable("offer") = "offer"
      BY DEF KeyTable
    <2>4. KeyTable("offer_key") = "offer"
      BY DEF KeyTable
    <2>5. KeyTable("ordinal") = "offer"
      BY DEF KeyTable
    <2> QED BY <1>10, <2>2, <2>3, <2>4, <2>5
  <1>11. CASE row.table = "confirmation"
    <2>1. StoreKeys(row) = {<<"confirmation", row.offer>>, <<"opened_run", row.run>>}
      BY <1>11, RowKeys
    <2>2. key[1] \in {"confirmation", "opened_run"}
      BY <2>1
    <2>3. KeyTable("confirmation") = "confirmation"
      BY DEF KeyTable
    <2>4. KeyTable("opened_run") = "confirmation"
      BY DEF KeyTable
    <2> QED BY <1>11, <2>2, <2>3, <2>4
  <1>12. CASE row.table = "session"
    <2>1. StoreKeys(row) = {<<"session", row.session>>, <<"request", row.op>>}
      BY <1>12, RowKeys
    <2>2. key[1] \in {"session", "request"}
      BY <2>1
    <2>3. KeyTable("session") = "session"
      BY DEF KeyTable
    <2>4. KeyTable("request") = "session"
      BY DEF KeyTable
    <2> QED BY <1>12, <2>2, <2>3, <2>4
  <1>13. CASE row.table = "turn"
    <2>1. StoreKeys(row) = {<<"turn", row.session, row.key>>}
      BY <1>13, RowKeys
    <2>2. key[1] = "turn"
      BY <2>1
    <2>3. KeyTable("turn") = "turn"
      BY DEF KeyTable
    <2> QED BY <1>13, <2>2, <2>3
  <1>14. CASE row.table = "event"
    <2>1. StoreKeys(row) = {<<"event", row.session, row.seq>>}
      BY <1>14, RowKeys
    <2>2. key[1] = "event"
      BY <2>1
    <2>3. KeyTable("event") = "event"
      BY DEF KeyTable
    <2> QED BY <1>14, <2>2, <2>3
  <1>15. CASE row.table = "evidence"
    <2>1. StoreKeys(row) = {<<"evidence", row.run, row.version>>}
      BY <1>15, RowKeys
    <2>2. key[1] = "evidence"
      BY <2>1
    <2>3. KeyTable("evidence") = "evidence"
      BY DEF KeyTable
    <2> QED BY <1>15, <2>2, <2>3
  <1>16. CASE row.table = "root"
    <2>1. StoreKeys(row) = {<<"root", row.run, row.basis>>}
      BY <1>16, RowKeys
    <2>2. key[1] = "root"
      BY <2>1
    <2>3. KeyTable("root") = "root"
      BY DEF KeyTable
    <2> QED BY <1>16, <2>2, <2>3
  <1>17. CASE row.table = "visit"
    <2>1. StoreKeys(row) = {<<"visit", row.run, row.ordinal>>, <<"visit at", row.run, row.joined>>,
               <<"visited", row.session>>, <<"visit of", row.run, row.session>>}
      BY <1>17, RowKeys
    <2>2. key[1] \in {"visit", "visit at", "visited", "visit of"}
      <3>1. CASE key = <<"visit", row.run, row.ordinal>>
        BY <3>1
      <3>2. CASE key = <<"visit at", row.run, row.joined>>
        BY <3>2
      <3>3. CASE key = <<"visited", row.session>>
        BY <3>3
      <3>4. CASE key = <<"visit of", row.run, row.session>>
        BY <3>4
      <3> QED BY <2>1, <3>1, <3>2, <3>3, <3>4
    <2>3. KeyTable("visit") = "visit"
      BY DEF KeyTable
    <2>4. KeyTable("visit at") = "visit"
      BY DEF KeyTable
    <2>5. KeyTable("visited") = "visit"
      BY DEF KeyTable
    <2>6. KeyTable("visit of") = "visit"
      BY DEF KeyTable
    <2> QED BY <1>17, <2>2, <2>3, <2>4, <2>5, <2>6
  <1>18. CASE row.table = "entry"
    <2>1. StoreKeys(row) = {<<"entry", row.run, row.session>>, <<"entered", row.session>>}
      BY <1>18, RowKeys
    <2>2. key[1] \in {"entry", "entered"}
      BY <2>1
    <2>3. KeyTable("entry") = "entry"
      BY DEF KeyTable
    <2>4. KeyTable("entered") = "entry"
      BY DEF KeyTable
    <2> QED BY <1>18, <2>2, <2>3, <2>4
  <1>19. CASE row.table \notin AllTables
    BY <1>19, RowKeys
  <1> QED BY <1>1, <1>2, <1>3, <1>4, <1>5, <1>6, <1>7, <1>8, <1>9, <1>10, <1>11, <1>12, <1>13, <1>14, <1>15, <1>16, <1>17, <1>18, <1>19 DEF AllTables

\* No two rows share a key.
OneHolder(S) == \A a, b \in S : StoreKeys(a) \cap StoreKeys(b) # {} => a = b

\* Rows that take no key that is held share none with those that hold them.
LEMMA HoldersTogether ==
  ASSUME NEW D, NEW R, OneHolder(D.rows), OneHolder(R), ~Taken(D, R)
  PROVE  OneHolder(D.rows \cup R)
  <1>1. ASSUME NEW a \in D.rows, NEW b \in R, NEW key, key \in StoreKeys(a), key \in StoreKeys(b)
        PROVE  FALSE
    <2>1. key \in KeysOf(D.rows) /\ key \in KeysOf(R)
      BY <1>1 DEF KeysOf
    <2> QED BY <2>1 DEF Taken
  <1> QED BY <1>1 DEF OneHolder

\* A key has one holder.
LEMMA SharedKeys ==
  ASSUME NEW S, OneHolder(S), NEW a \in S, NEW b \in S, NEW key, key \in StoreKeys(a),
         key \in StoreKeys(b)
  PROVE  a = b
  BY DEF OneHolder

\* What a row holds is held in the set.
LEMMA KeyOfRow ==
  ASSUME NEW S, NEW row \in S, NEW key \in StoreKeys(row)
  PROVE  key \in KeysOf(S)
  BY DEF KeysOf

\* The keys of a row, one by one.
LEMMA OwnKeys ==
  ASSUME NEW row
  PROVE
         /\ row.table = "binding" => <<"binding", row.who>> \in StoreKeys(row)
         /\ row.table = "revision" => <<"revision", row.char, row.rev>> \in StoreKeys(row)
         /\ row.table = "run" => <<"run", row.run, row.version>> \in StoreKeys(row)
         /\ row.table = "participation" =>
              /\ <<"member", row.session>> \in StoreKeys(row)
              /\ <<"joined", row.run, row.version>> \in StoreKeys(row)
              /\ <<"joined exactly", row.session, row.run, row.version>> \in StoreKeys(row)
         /\ row.table = "session" =>
              /\ <<"session", row.session>> \in StoreKeys(row)
              /\ <<"request", row.op>> \in StoreKeys(row)
         /\ row.table = "turn" => <<"turn", row.session, row.key>> \in StoreKeys(row)
         /\ row.table = "event" => <<"event", row.session, row.seq>> \in StoreKeys(row)
         /\ row.table = "offer" =>
              /\ <<"offer", row.offer>> \in StoreKeys(row)
              /\ <<"offer_key", row.who, row.key>> \in StoreKeys(row)
              /\ <<"ordinal", row.char, row.ordinal>> \in StoreKeys(row)
         /\ row.table = "confirmation" =>
              /\ <<"confirmation", row.offer>> \in StoreKeys(row)
              /\ <<"opened_run", row.run>> \in StoreKeys(row)
         /\ row.table = "root" => <<"root", row.run, row.basis>> \in StoreKeys(row)
         /\ row.table = "visit" =>
              /\ <<"visit", row.run, row.ordinal>> \in StoreKeys(row)
              /\ <<"visit at", row.run, row.joined>> \in StoreKeys(row)
              /\ <<"visited", row.session>> \in StoreKeys(row)
              /\ <<"visit of", row.run, row.session>> \in StoreKeys(row)
         /\ row.table = "admission" => <<"admission", row.run>> \in StoreKeys(row)
         /\ row.table = "run_creation" =>
              /\ <<"run_op", row.op>> \in StoreKeys(row)
              /\ <<"created_run", row.run>> \in StoreKeys(row)
  <1>1. ASSUME row.table = "binding"
        PROVE  <<"binding", row.who>> \in StoreKeys(row)
    <2>1. StoreKeys(row) = {<<"binding", row.who>>}
      BY <1>1, RowKeys
    <2> QED BY <2>1
  <1>2. ASSUME row.table = "revision"
        PROVE  <<"revision", row.char, row.rev>> \in StoreKeys(row)
    <2>1. StoreKeys(row) = {<<"revision", row.char, row.rev>>}
      BY <1>2, RowKeys
    <2> QED BY <2>1
  <1>3. ASSUME row.table = "run"
        PROVE  <<"run", row.run, row.version>> \in StoreKeys(row)
    <2>1. StoreKeys(row) = {<<"run", row.run, row.version>>}
      BY <1>3, RowKeys
    <2> QED BY <2>1
  <1>4. ASSUME row.table = "participation"
        PROVE  /\ <<"member", row.session>> \in StoreKeys(row)
               /\ <<"joined", row.run, row.version>> \in StoreKeys(row)
               /\ <<"joined exactly", row.session, row.run, row.version>> \in StoreKeys(row)
    <2>1. StoreKeys(row) = {<<"member", row.session>>, <<"joined", row.run, row.version>>,
               <<"joined exactly", row.session, row.run, row.version>>}
      BY <1>4, RowKeys
    <2> QED BY <2>1
  <1>5. ASSUME row.table = "session"
        PROVE  /\ <<"session", row.session>> \in StoreKeys(row)
               /\ <<"request", row.op>> \in StoreKeys(row)
    <2>1. StoreKeys(row) = {<<"session", row.session>>, <<"request", row.op>>}
      BY <1>5, RowKeys
    <2> QED BY <2>1
  <1>6. ASSUME row.table = "turn"
        PROVE  <<"turn", row.session, row.key>> \in StoreKeys(row)
    <2>1. StoreKeys(row) = {<<"turn", row.session, row.key>>}
      BY <1>6, RowKeys
    <2> QED BY <2>1
  <1>7. ASSUME row.table = "event"
        PROVE  <<"event", row.session, row.seq>> \in StoreKeys(row)
    <2>1. StoreKeys(row) = {<<"event", row.session, row.seq>>}
      BY <1>7, RowKeys
    <2> QED BY <2>1
  <1>8. ASSUME row.table = "offer"
        PROVE  /\ <<"offer", row.offer>> \in StoreKeys(row)
               /\ <<"offer_key", row.who, row.key>> \in StoreKeys(row)
               /\ <<"ordinal", row.char, row.ordinal>> \in StoreKeys(row)
    <2>1. StoreKeys(row) = {<<"offer", row.offer>>, <<"offer_key", row.who, row.key>>,
               <<"ordinal", row.char, row.ordinal>>}
      BY <1>8, RowKeys
    <2> QED BY <2>1
  <1>9. ASSUME row.table = "confirmation"
        PROVE  /\ <<"confirmation", row.offer>> \in StoreKeys(row)
               /\ <<"opened_run", row.run>> \in StoreKeys(row)
    <2>1. StoreKeys(row) = {<<"confirmation", row.offer>>, <<"opened_run", row.run>>}
      BY <1>9, RowKeys
    <2> QED BY <2>1
  <1>10. ASSUME row.table = "root"
        PROVE  <<"root", row.run, row.basis>> \in StoreKeys(row)
    <2>1. StoreKeys(row) = {<<"root", row.run, row.basis>>}
      BY <1>10, RowKeys
    <2> QED BY <2>1
  <1>11. ASSUME row.table = "visit"
        PROVE  /\ <<"visit", row.run, row.ordinal>> \in StoreKeys(row)
               /\ <<"visit at", row.run, row.joined>> \in StoreKeys(row)
               /\ <<"visited", row.session>> \in StoreKeys(row)
               /\ <<"visit of", row.run, row.session>> \in StoreKeys(row)
    <2>1. StoreKeys(row) = {<<"visit", row.run, row.ordinal>>, <<"visit at", row.run, row.joined>>,
               <<"visited", row.session>>, <<"visit of", row.run, row.session>>}
      BY <1>11, RowKeys
    <2> QED BY <2>1
  <1>12. ASSUME row.table = "admission"
        PROVE  <<"admission", row.run>> \in StoreKeys(row)
    <2>1. StoreKeys(row) = {<<"admission", row.run>>}
      BY <1>12, RowKeys
    <2> QED BY <2>1
  <1>13. ASSUME row.table = "run_creation"
        PROVE  /\ <<"run_op", row.op>> \in StoreKeys(row)
               /\ <<"created_run", row.run>> \in StoreKeys(row)
    <2>1. StoreKeys(row) = {<<"run_op", row.op>>, <<"created_run", row.run>>}
      BY <1>13, RowKeys
    <2> QED BY <2>1
  <1> QED BY <1>1, <1>2, <1>3, <1>4, <1>5, <1>6, <1>7, <1>8, <1>9, <1>10, <1>11, <1>12, <1>13

\* What a row of each table is the only one to have.
LEMMA OnlyRows ==
  ASSUME NEW S, OneHolder(S)
  PROVE  /\ \A a, b \in Table(S, "run") : a.run = b.run /\ a.version = b.version => a = b
         /\ \A a, b \in Table(S, "participation") :
              a.run = b.run /\ a.version = b.version => a = b
         /\ \A a, b \in Table(S, "participation") : a.session = b.session => a = b
         /\ \A a, b \in Table(S, "revision") : a.char = b.char /\ a.rev = b.rev => a = b
         /\ \A a, b \in Table(S, "event") : a.session = b.session /\ a.seq = b.seq => a = b
         /\ \A a, b \in Table(S, "turn") : a.session = b.session /\ a.key = b.key => a = b
         /\ \A a, b \in Table(S, "session") : a.session = b.session => a = b
         /\ \A a, b \in Table(S, "offer") : a.offer = b.offer => a = b
         /\ \A a, b \in Table(S, "confirmation") : a.offer = b.offer => a = b
  <1>1. ASSUME NEW a \in Table(S, "run"), NEW b \in Table(S, "run"), a.run = b.run, a.version = b.version
        PROVE  a = b
    <2>1. a \in S /\ b \in S /\ a.table = "run" /\ b.table = "run"
      BY DEF Table
    <2>2. <<"run", a.run, a.version>> \in StoreKeys(a) /\ <<"run", b.run, b.version>> \in StoreKeys(b)
      BY <2>1, OwnKeys
    <2> QED BY <1>1, <2>1, <2>2, SharedKeys
  <1>2. ASSUME NEW a \in Table(S, "participation"), NEW b \in Table(S, "participation"), a.run = b.run, a.version = b.version
        PROVE  a = b
    <2>1. a \in S /\ b \in S /\ a.table = "participation" /\ b.table = "participation"
      BY DEF Table
    <2>2. <<"joined", a.run, a.version>> \in StoreKeys(a) /\ <<"joined", b.run, b.version>> \in StoreKeys(b)
      BY <2>1, OwnKeys
    <2> QED BY <1>2, <2>1, <2>2, SharedKeys
  <1>3. ASSUME NEW a \in Table(S, "participation"), NEW b \in Table(S, "participation"), a.session = b.session
        PROVE  a = b
    <2>1. a \in S /\ b \in S /\ a.table = "participation" /\ b.table = "participation"
      BY DEF Table
    <2>2. <<"member", a.session>> \in StoreKeys(a) /\ <<"member", b.session>> \in StoreKeys(b)
      BY <2>1, OwnKeys
    <2> QED BY <1>3, <2>1, <2>2, SharedKeys
  <1>4. ASSUME NEW a \in Table(S, "revision"), NEW b \in Table(S, "revision"), a.char = b.char, a.rev = b.rev
        PROVE  a = b
    <2>1. a \in S /\ b \in S /\ a.table = "revision" /\ b.table = "revision"
      BY DEF Table
    <2>2. <<"revision", a.char, a.rev>> \in StoreKeys(a) /\ <<"revision", b.char, b.rev>> \in StoreKeys(b)
      BY <2>1, OwnKeys
    <2> QED BY <1>4, <2>1, <2>2, SharedKeys
  <1>5. ASSUME NEW a \in Table(S, "event"), NEW b \in Table(S, "event"), a.session = b.session, a.seq = b.seq
        PROVE  a = b
    <2>1. a \in S /\ b \in S /\ a.table = "event" /\ b.table = "event"
      BY DEF Table
    <2>2. <<"event", a.session, a.seq>> \in StoreKeys(a) /\ <<"event", b.session, b.seq>> \in StoreKeys(b)
      BY <2>1, OwnKeys
    <2> QED BY <1>5, <2>1, <2>2, SharedKeys
  <1>6. ASSUME NEW a \in Table(S, "turn"), NEW b \in Table(S, "turn"), a.session = b.session, a.key = b.key
        PROVE  a = b
    <2>1. a \in S /\ b \in S /\ a.table = "turn" /\ b.table = "turn"
      BY DEF Table
    <2>2. <<"turn", a.session, a.key>> \in StoreKeys(a) /\ <<"turn", b.session, b.key>> \in StoreKeys(b)
      BY <2>1, OwnKeys
    <2> QED BY <1>6, <2>1, <2>2, SharedKeys
  <1>7. ASSUME NEW a \in Table(S, "session"), NEW b \in Table(S, "session"), a.session = b.session
        PROVE  a = b
    <2>1. a \in S /\ b \in S /\ a.table = "session" /\ b.table = "session"
      BY DEF Table
    <2>2. <<"session", a.session>> \in StoreKeys(a) /\ <<"session", b.session>> \in StoreKeys(b)
      BY <2>1, OwnKeys
    <2> QED BY <1>7, <2>1, <2>2, SharedKeys
  <1>8. ASSUME NEW a \in Table(S, "offer"), NEW b \in Table(S, "offer"), a.offer = b.offer
        PROVE  a = b
    <2>1. a \in S /\ b \in S /\ a.table = "offer" /\ b.table = "offer"
      BY DEF Table
    <2>2. <<"offer", a.offer>> \in StoreKeys(a) /\ <<"offer", b.offer>> \in StoreKeys(b)
      BY <2>1, OwnKeys
    <2> QED BY <1>8, <2>1, <2>2, SharedKeys
  <1>9. ASSUME NEW a \in Table(S, "confirmation"), NEW b \in Table(S, "confirmation"), a.offer = b.offer
        PROVE  a = b
    <2>1. a \in S /\ b \in S /\ a.table = "confirmation" /\ b.table = "confirmation"
      BY DEF Table
    <2>2. <<"confirmation", a.offer>> \in StoreKeys(a) /\ <<"confirmation", b.offer>> \in StoreKeys(b)
      BY <2>1, OwnKeys
    <2> QED BY <1>9, <2>1, <2>2, SharedKeys
  <1> QED BY <1>1, <1>2, <1>3, <1>4, <1>5, <1>6, <1>7, <1>8, <1>9

-----------------------------------------------------------------------------
(* What the schema asks follows from the families                           *)

\* The rows that the rows R need beside them, where no family asks for them.
HangsIn(R, S) ==
    /\ \A row \in R : row.table \in {"turn", "event"} =>
          \E p \in Table(S, "session") : p.session = row.session
    /\ \A row \in Table(R, "revision") : \E b \in Table(S, "binding") : b.who = row.who
    /\ \A row \in R : row.table \in {"creation_receipt", "mutation_receipt"} =>
          Revisions(S, row.char) # {}
    /\ \A row \in Table(R, "run") : row.char # None =>
          \E m \in Revisions(S, row.char) : m.rev = row.rev
    /\ \A row \in Table(R, "run") : row.version >= 3 => row.status \in {"ACTIVE", "TERMINATED", "COMPLETED"}
    /\ \A row \in Table(R, "run_receipt") : RunRevisions(S, row.run) # {}
    /\ \A row \in R : row.table \in WorldTables =>
          \E a \in Table(S, "admission") : a.run = row.run
    /\ \A row \in Table(R, "confirmation") : \E o \in Table(S, "offer") : o.offer = row.offer
    /\ \A row \in Table(R, "offer") : row.ordinal \in Nat /\ row.ordinal >= 1

\* The rows of a store that holds what was published.
RowsWhole(D) ==
    /\ IsFiniteSet(D.rows)
    /\ RowsHang(D.rows)
    /\ HangsIn(D.rows, D.rows)
    /\ OneHolder(D.rows)
    /\ FamiliesAreWhole(D)
    /\ Opens(D.rows) = DOMAIN D.sess
    /\ DOMAIN D.position \subseteq NativeRuns(D)

\* What is part of finitely many rows can be counted.
LEMMA TableIsFinite ==
  ASSUME NEW S, IsFiniteSet(S), NEW T, T \subseteq S
  PROVE  IsFiniteSet(T) /\ Cardinality(T) \in Nat
  BY FS_Subset, FS_CardinalityType

\* Sets that a function pairs off have as many elements.
LEMMA SameCount ==
  ASSUME NEW P, NEW J, IsFiniteSet(P), NEW f, f \in [P -> J],
         \A p, o \in P : f[p] = f[o] => p = o, \A j \in J : \E p \in P : f[p] = j
  PROVE  IsFiniteSet(J) /\ Cardinality(J) = Cardinality(P)
  <1>1. f \in Bijection(P, J)
    BY Fun_IsBij
  <1>2. ExistsBijection(P, J)
    BY <1>1 DEF ExistsBijection
  <1> QED BY <1>2, FS_Bijection

\* The numbers of a history are 1 to its length.
LEMMA NumbersOfHistory ==
  ASSUME NEW T, IsFiniteSet(T), T # {}, NEW V, V # {}, V = 1..Cardinality(T)
  PROVE  \E n \in Nat : n >= 1 /\ V = 1..n /\ n = Cardinality(T)
  <1>1. Cardinality(T) \in Nat
    BY FS_CardinalityType
  <1>2. Cardinality(T) # 0
    BY FS_EmptySet
  <1> QED BY <1>1, <1>2

\* The revisions of a run, its newest one and its participations, by their numbers.
LEMMA RunHistory ==
  ASSUME NEW S, IsFiniteSet(S), NEW r, RunRevisions(S, r) # {}, HistoryIsWhole(S, r)
  PROVE  \E n \in Nat :
            /\ n >= 1 /\ {row.version : row \in RunRevisions(S, r)} = 1..n
            /\ n = Cardinality(RunRevisions(S, r))
            /\ Run(S, r) \in RunRevisions(S, r) /\ Run(S, r).version = n
            /\ \A row \in RunRevisions(S, r) : row.version \in 1..n
            /\ \A k \in 1..n : \E row \in RunRevisions(S, r) : row.version = k
            /\ {p.version : p \in Participations(S, r)}
                  = {row.version : row \in {m \in RunRevisions(S, r) : m.kind \in JoinKinds}}
  <1> DEFINE H == RunRevisions(S, r)
             V == {row.version : row \in H}
  <1>1. H \subseteq S
    BY DEF RunRevisions, Table
  <1>2. IsFiniteSet(H)
    BY <1>1, TableIsFinite
  <1>3. V = 1..Cardinality(H) /\ V # {}
    BY DEF HistoryIsWhole, RunFamily
  <1>4. PICK n \in Nat : n >= 1 /\ V = 1..n /\ n = Cardinality(H)
    BY <1>2, <1>3, NumbersOfHistory
  <1>5. \A row \in H : row.version \in 1..n
    BY <1>4
  <1>6. \A k \in 1..n : \E row \in H : row.version = k
    BY <1>4
  <1>7. PICK last \in H : last.version = n
    BY <1>4, <1>6
  <1>8. \A row \in H : row.version <= n
    BY <1>5
  <1>9. Run(S, r) \in H /\ \A row \in H : row.version <= Run(S, r).version
    BY <1>7, <1>8 DEF Run
  <1>10. Run(S, r).version = n
    BY <1>4, <1>5, <1>7, <1>9
  <1>11. {p.version : p \in Participations(S, r)}
                  = {row.version : row \in {m \in H : m.kind \in JoinKinds}}
    BY DEF HistoryIsWhole, RunFamily
  <1> QED BY <1>4, <1>5, <1>6, <1>9, <1>10, <1>11

\* Which sessions had joined a run at a revision, and whether it was bound.
Joins(S, row) == {p.version : p \in {p \in Participations(S, row.run) : p.version <= row.version}}
\* The revisions at which a character was bound, up to that of the row.
Binds(S, row) ==
    {m.version : m \in {m \in RunRevisions(S, row.run) : m.kind = "BIND" /\ m.version <= row.version}}

\* What a lawful run says of one revision.
LEMMA LawOfRow ==
  ASSUME NEW S, NEW row, LawfulRun(S, row)
  PROVE  /\ (row.char = None) = (Binds(S, row) = {})
         /\ Joins(S, row) \cup Binds(S, row) \subseteq 2..row.version
         /\ 2..row.version \subseteq Joins(S, row) \cup Binds(S, row)
                                \cup (IF row.status \in ActiveLine THEN {} ELSE {row.version})
         /\ row.kind \in JoinKinds => row.version \in Joins(S, row)
         /\ row.kind = "CREATE" => row.version = 1
         /\ LawfulShape(row, Joins(S, row))
  BY DEF LawfulRun, Joins, Binds

\* A lawful revision passes the checks of its table.
LEMMA RunRowChecks ==
  ASSUME NEW S, NEW row \in Table(S, "run"), row.version \in Nat, LawfulRun(S, row)
  PROVE  RunCheck(row)
  <1>1. CASE row.kind = "CREATE"
    BY <1>1, LawOfRow DEF RunCheck
  <1>2. CASE row.kind = "BIND"
    <2>1. row \in RunRevisions(S, row.run) /\ row.version <= row.version
      BY DEF RunRevisions
    <2>2. row.version \in Binds(S, row)
      BY <1>2, <2>1 DEF Binds
    <2>3. row.version \in 2..row.version
      BY <2>2, LawOfRow
    <2> QED BY <1>2, <2>3 DEF RunCheck
  <1>3. CASE row.kind = "ATTACH"
    <2>1. row.version \in 2..row.version
      BY <1>3, LawOfRow DEF JoinKinds
    <2> QED BY <1>3, <2>1 DEF RunCheck
  <1>4. CASE row.kind \notin {"CREATE", "BIND", "ATTACH"}
    <2>1. LawfulShape(row, Joins(S, row))
      BY LawOfRow
    <2>2. /\ row.kind \in DOMAIN NativeSuffix /\ row.version \in NativeSuffix[row.kind]
          /\ row.status = StatusAfter[row.kind]
          /\ 2 \notin Joins(S, row)
          /\ row.version >= 4
      BY <1>4, <2>1 DEF LawfulShape, NativeSuffix, StatusAfter
    <2>3. 2 \in 2..row.version /\ row.version # 2
      BY <2>2
    <2>4. 2 \in Binds(S, row)
      BY <2>2, <2>3, LawOfRow
    <2>5. row.char # None
      BY <2>4, LawOfRow
    <2> QED BY <1>4, <2>2, <2>5 DEF RunCheck
  <1> QED BY <1>1, <1>2, <1>3, <1>4

\* A run's receipts are of its steps.
LEMMA ReceiptsOfRun ==
  ASSUME NEW S, IsFiniteSet(S), NEW r, RunRevisions(S, r) # {}, ValidRun(S, r),
         NEW row \in Table(S, "run_receipt"), row.run = r
  PROVE  /\ RunReceiptCheck(row)
         /\ \E m \in RunRevisions(S, r) :
               /\ m.version = row.version /\ m.version \in Nat /\ m.version >= 2
               /\ LawfulRun(S, m) /\ StepFits(S, m, row)
  <1> DEFINE steps == {step \in Table(S, "run_receipt") : step.run = r}
             at(k) == CHOOSE m \in RunRevisions(S, r) : m.version = k
  <1>1. HistoryIsWhole(S, r)
    BY DEF ValidRun
  <1>2. PICK n \in Nat :
            /\ n = Cardinality(RunRevisions(S, r))
            /\ \A k \in 1..n : \E m \in RunRevisions(S, r) : m.version = k
    BY <1>1, RunHistory
  <1>3. /\ {step.version : step \in steps} = 2..n
        /\ \A step \in steps : ReceiptShape(step) /\ StepFits(S, at(step.version), step)
    BY <1>2 DEF ValidRun, ReceiptsCover, RunFamily
  <1>4. row \in steps
    OBVIOUS
  <1>5. row.version \in 2..n /\ ReceiptShape(row) /\ StepFits(S, at(row.version), row)
    BY <1>3, <1>4
  <1>6. at(row.version) \in RunRevisions(S, r) /\ at(row.version).version = row.version
    BY <1>2, <1>5
  <1>7. LawfulRun(S, at(row.version))
    BY <1>1, <1>6 DEF HistoryIsWhole, RunFamily
  <1>8. RunReceiptCheck(row)
    <2>1. row.version \in Nat /\ row.version >= 2
      BY <1>5
    <2>2. row.kind \in {"BIND", "EXIT", "COMPLETE", "ATTACH", "CONTINUE", "REVISIT"}
      BY <1>5 DEF ReceiptShape, JoinKinds
    <2>3. CASE row.kind \in {"BIND", "ATTACH"}
      BY <2>1, <2>3 DEF RunReceiptCheck
    <2>4. CASE row.kind \in {"EXIT", "COMPLETE", "CONTINUE", "REVISIT"}
      <3>1. row.version \in NativeSuffix[row.kind] /\ row.kind \in DOMAIN NativeSuffix
        BY <1>5, <2>4 DEF ReceiptShape, NativeSuffix
      <3> QED BY <3>1 DEF RunReceiptCheck
    <2> QED BY <2>2, <2>3, <2>4
  <1> QED BY <1>5, <1>6, <1>7, <1>8

\* A valid character has a first revision.
LEMMA FirstOfCharacter ==
  ASSUME NEW S, IsFiniteSet(S), NEW x, Revisions(S, x) # {}, ValidCharacter(S, x)
  PROVE  \E first \in Revisions(S, x) : first.rev = 1
  <1> DEFINE H == Revisions(S, x)
             V == {m.rev : m \in H}
  <1>1. H \subseteq S
    BY DEF Revisions, Table
  <1>2. IsFiniteSet(H)
    BY <1>1, TableIsFinite
  <1>3. V = 1..Cardinality(H) /\ V # {}
    BY DEF ValidCharacter, CharacterFamily
  <1>4. PICK n \in Nat : n >= 1 /\ V = 1..n
    BY <1>2, <1>3, NumbersOfHistory
  <1> QED BY <1>4

\* The keys that foreign keys name.
LEMMA KeysAreThere ==
  ASSUME NEW S
  PROVE  /\ \A row \in Table(S, "binding") : <<"binding", row.who>> \in KeysOf(S)
         /\ \A row \in Table(S, "revision") : <<"revision", row.char, row.rev>> \in KeysOf(S)
         /\ \A row \in Table(S, "run") : <<"run", row.run, row.version>> \in KeysOf(S)
         /\ \A row \in Table(S, "participation") :
              <<"joined exactly", row.session, row.run, row.version>> \in KeysOf(S)
         /\ \A row \in Table(S, "session") : <<"session", row.session>> \in KeysOf(S)
         /\ \A row \in Table(S, "offer") : <<"offer", row.offer>> \in KeysOf(S)
         /\ \A row \in Table(S, "root") : <<"root", row.run, row.basis>> \in KeysOf(S)
         /\ \A row \in Table(S, "visit") : <<"visit of", row.run, row.session>> \in KeysOf(S)
  <1> USE DEF Table
  <1>1. ASSUME NEW row \in Table(S, "binding") PROVE <<"binding", row.who>> \in KeysOf(S)
    BY OwnKeys, KeyOfRow
  <1>2. ASSUME NEW row \in Table(S, "revision")
        PROVE  <<"revision", row.char, row.rev>> \in KeysOf(S)
    BY OwnKeys, KeyOfRow
  <1>3. ASSUME NEW row \in Table(S, "run") PROVE <<"run", row.run, row.version>> \in KeysOf(S)
    BY OwnKeys, KeyOfRow
  <1>4. ASSUME NEW row \in Table(S, "participation")
        PROVE  <<"joined exactly", row.session, row.run, row.version>> \in KeysOf(S)
    BY OwnKeys, KeyOfRow
  <1>5. ASSUME NEW row \in Table(S, "session") PROVE <<"session", row.session>> \in KeysOf(S)
    BY OwnKeys, KeyOfRow
  <1>6. ASSUME NEW row \in Table(S, "offer") PROVE <<"offer", row.offer>> \in KeysOf(S)
    BY OwnKeys, KeyOfRow
  <1>7. ASSUME NEW row \in Table(S, "root") PROVE <<"root", row.run, row.basis>> \in KeysOf(S)
    BY OwnKeys, KeyOfRow
  <1>8. ASSUME NEW row \in Table(S, "visit")
        PROVE  <<"visit of", row.run, row.session>> \in KeysOf(S)
    BY OwnKeys, KeyOfRow
  <1> QED BY <1>1, <1>2, <1>3, <1>4, <1>5, <1>6, <1>7, <1>8

\* The families of a whole store.
LEMMA WholeFamilies ==
  ASSUME NEW D, RowsWhole(D)
  PROVE  /\ \A r : RunRevisions(D.rows, r) # {} => ValidRun(D.rows, r)
         /\ \A x : Revisions(D.rows, x) # {} => ValidCharacter(D.rows, x)
         /\ \A row \in D.rows : row.table \in NamesRun => RunRevisions(D.rows, row.run) # {}
         /\ IsFiniteSet(D.rows)
         /\ \A row \in Table(D.rows, "participation") :
              \E p \in Table(D.rows, "session") : p.session = row.session
  <1>1. \A r : RunRevisions(D.rows, r) # {} => r \in AllRuns(D)
    BY DEF RunRevisions, AllRuns
  <1>2. \A x : Revisions(D.rows, x) # {} => x \in Characters(D)
    BY DEF Revisions, Characters
  <1>3. \A row \in Table(D.rows, "participation") : row.session \in DOMAIN D.sess
    BY DEF RowsWhole, FamiliesAreWhole, RecordsAreWhole, OpeningsAreWhole
  <1>4. \A s \in DOMAIN D.sess : \E p \in Table(D.rows, "session") : p.session = s
    BY DEF RowsWhole, Opens
  <1> QED BY <1>1, <1>2, <1>3, <1>4 DEF RowsWhole, FamiliesAreWhole, RecordsAreWhole, OpeningsAreWhole, RowsHang

\* The rows of a run refer to what is there.
LEMMA RunReferencesHold ==
  ASSUME NEW D, RowsWhole(D), NEW row \in D.rows
  PROVE  RunReferences(row) \subseteq KeysOf(D.rows)
  <1> DEFINE S == D.rows
  <1>1. /\ IsFiniteSet(S) /\ HangsIn(S, S)
        /\ (row.table \in NamesRun => RunRevisions(S, row.run) # {})
        /\ \A r : RunRevisions(S, r) # {} => ValidRun(S, r)
        /\ \A x : Revisions(S, x) # {} => ValidCharacter(S, x)
        /\ \A p \in Table(S, "participation") :
              \E session \in Table(S, "session") : session.session = p.session
    BY WholeFamilies DEF RowsWhole
  <1>2. row \in S
    OBVIOUS
  <1> HIDE DEF S
  <1>3. \A r, n : (\E m \in RunRevisions(S, r) : m.version = n) => <<"run", r, n>> \in KeysOf(S)
    BY KeysAreThere DEF RunRevisions
  <1>4. \A x, n : (\E m \in Revisions(S, x) : m.rev = n) => <<"revision", x, n>> \in KeysOf(S)
    BY KeysAreThere DEF Revisions
  <1>5. ASSUME NEW r, RunRevisions(S, r) # {}
        PROVE  /\ HistoryIsWhole(S, r)
               /\ <<"run", r, 1>> \in KeysOf(S)
    <2>1. HistoryIsWhole(S, r)
      BY <1>1, <1>5 DEF ValidRun
    <2>2. \E m \in RunRevisions(S, r) : m.version = 1
      BY <1>1, <1>5, <2>1, RunHistory
    <2> QED BY <1>3, <2>1, <2>2
  <1>6. CASE row.table = "run"
    <2>1. row.char # None => \E m \in Revisions(S, row.char) : m.rev = row.rev
      BY <1>1, <1>2, <1>6 DEF HangsIn, Table
    <2>2. RunReferences(row) = IF row.char = None THEN {} ELSE {<<"revision", row.char, row.rev>>}
      BY <1>6 DEF RunReferences
    <2> QED BY <1>4, <2>1, <2>2 DEF S
  <1>7. CASE row.table = "participation"
    <2>1. RunReferences(row) = {<<"session", row.session>>, <<"run", row.run, row.version>>}
      BY <1>7 DEF RunReferences
    <2>2. row \in Participations(S, row.run) /\ RunRevisions(S, row.run) # {}
      BY <1>1, <1>2, <1>7 DEF Participations, Table, NamesRun
    <2>3. {p.version : p \in Participations(S, row.run)}
            = {m.version : m \in {m \in RunRevisions(S, row.run) : m.kind \in JoinKinds}}
      BY <1>5, <2>2 DEF HistoryIsWhole, RunFamily
    <2>4. \E m \in RunRevisions(S, row.run) : m.version = row.version
      BY <2>2, <2>3
    <2>5. <<"session", row.session>> \in KeysOf(S)
      BY <1>1, <1>2, <1>7, KeysAreThere DEF Table
    <2> QED BY <1>3, <2>1, <2>4, <2>5 DEF S
  <1>8. CASE row.table = "run_creation"
    <2>1. RunReferences(row) = {<<"run", row.run, 1>>}
      BY <1>8 DEF RunReferences
    <2> QED BY <1>1, <1>5, <1>8, <2>1 DEF NamesRun, S
  <1>9. CASE row.table = "run_receipt"
    <2>1. RunReferences(row) =
            {<<"run", row.run, row.version>>}
            \cup (IF row.kind \in JoinKinds
                  THEN {<<"joined exactly", row.subject, row.run, row.version>>} ELSE {})
            \cup (IF row.kind = "BIND" THEN {<<"revision", row.subject, 1>>} ELSE {})
      BY <1>9 DEF RunReferences
    <2>2. row \in Table(S, "run_receipt") /\ RunRevisions(S, row.run) # {}
      BY <1>1, <1>2, <1>9 DEF HangsIn, Table
    <2>3. PICK m \in RunRevisions(S, row.run) :
            /\ m.version = row.version /\ m.version \in Nat /\ m.version >= 2
            /\ LawfulRun(S, m) /\ StepFits(S, m, row)
      BY <1>1, <2>2, ReceiptsOfRun
    <2>4. <<"run", row.run, row.version>> \in KeysOf(S)
      BY <1>3, <2>3
    <2>5. row.kind \in JoinKinds =>
            <<"joined exactly", row.subject, row.run, row.version>> \in KeysOf(S)
      <3> SUFFICES ASSUME row.kind \in JoinKinds
                   PROVE  <<"joined exactly", row.subject, row.run, row.version>> \in KeysOf(S)
        OBVIOUS
      <3>1. PICK p \in Participations(S, row.run) :
              p.version = row.version /\ p.session = row.subject
        BY <2>3 DEF StepFits
      <3>2. p \in Table(S, "participation") /\ p.run = row.run
        BY DEF Participations
      <3> QED BY <3>1, <3>2, KeysAreThere
    <2>6. row.kind = "BIND" => <<"revision", row.subject, 1>> \in KeysOf(S)
      <3> SUFFICES ASSUME row.kind = "BIND" PROVE <<"revision", row.subject, 1>> \in KeysOf(S)
        OBVIOUS
      <3>1. m.kind = "BIND" /\ m.char = row.subject
        BY <2>3 DEF StepFits
      <3>2. m \in Table(S, "run") /\ m.run = row.run /\ m \in RunRevisions(S, m.run)
        BY DEF RunRevisions
      <3>3. m.version \in Binds(S, m)
        BY <2>3, <3>1, <3>2 DEF Binds
      <3>4. m.char # None
        BY <2>3, <3>3, LawOfRow
      <3>5. Revisions(S, m.char) # {}
        BY <1>1, <3>2, <3>4 DEF HangsIn
      <3>6. \E first \in Revisions(S, m.char) : first.rev = 1
        BY <1>1, <3>5, FirstOfCharacter
      <3> QED BY <1>4, <3>1, <3>6
    <2> QED BY <2>1, <2>4, <2>5, <2>6 DEF S
  <1>10. CASE row.table \notin {"run", "participation", "run_creation", "run_receipt"}
    BY <1>10 DEF RunReferences
  <1> QED BY <1>6, <1>7, <1>8, <1>9, <1>10

\* The rows of a valid character pass their checks and refer to what is there.
LEMMA CharacterRows ==
  ASSUME NEW S, IsFiniteSet(S), OneHolder(S), NEW x, Revisions(S, x) # {}, ValidCharacter(S, x)
  PROVE  /\ \A row \in Revisions(S, x) : RevisionCheck(row)
         /\ \A row \in Table(S, "mutation_receipt") : row.char = x =>
              /\ MutationReceiptCheck(row)
              /\ \E m \in Revisions(S, x) : m.rev = row.rev
              /\ \E m \in Revisions(S, x) : m.rev = row.rev - 1
         /\ \A row \in Table(S, "creation_receipt") : row.char = x => Binding(row.who) \in S
  <1> DEFINE H == Revisions(S, x)
             V == {m.rev : m \in H}
             at(k) == CHOOSE m \in H : m.rev = k
             made == {receipt \in Table(S, "creation_receipt") : receipt.char = x}
             mutated == {receipt \in Table(S, "mutation_receipt") : receipt.char = x}
  <1>1. IsFiniteSet(H)
    <2>1. H \subseteq S
      BY DEF Revisions, Table
    <2> QED BY <2>1, TableIsFinite
  <1>2. V = 1..Cardinality(H) /\ V # {}
    BY DEF ValidCharacter, CharacterFamily
  <1>3. PICK n \in Nat : n >= 1 /\ V = 1..n /\ n = Cardinality(H)
    BY <1>1, <1>2, NumbersOfHistory
  <1>4. /\ \E receipt \in made :
             /\ made = {receipt}
             /\ at(1) = Revision(x, 1, "ACTIVE", receipt.who, "CREATE", receipt.body)
        /\ Binding(at(1).who) \in S
        /\ {receipt.rev : receipt \in mutated} = 2..n
        /\ Cardinality(mutated) = n - 1
        /\ \A receipt \in mutated : LawfulStep(at(receipt.rev - 1), at(receipt.rev), receipt)
    BY <1>3 DEF ValidCharacter, CharacterFamily
  <1>5. \A k \in 1..n : at(k) \in H /\ at(k).rev = k
    BY <1>3
  <1>6. ASSUME NEW row \in H PROVE row.rev \in 1..n /\ at(row.rev) = row
    <2>1. row.rev \in 1..n
      BY <1>3
    <2>2. at(row.rev) \in H /\ at(row.rev).rev = row.rev
      BY <1>5, <2>1
    <2>3. row \in Table(S, "revision") /\ at(row.rev) \in Table(S, "revision")
          /\ row.char = x /\ at(row.rev).char = x
      BY <2>2 DEF Revisions
    <2> QED BY <2>1, <2>2, <2>3, OnlyRows
  <1>7. ASSUME NEW receipt \in mutated
        PROVE  /\ receipt.rev \in 2..n /\ receipt.rev - 1 \in 1..n
               /\ LawfulStep(at(receipt.rev - 1), at(receipt.rev), receipt)
    <2>1. receipt.rev \in 2..n
      BY <1>4
    <2> QED BY <1>3, <1>4, <2>1
  <1> HIDE DEF at, mutated, made
  <1>8. ASSUME NEW receipt \in mutated
        PROVE  /\ receipt.kind \in {"RETIRE", "FINAL_DEATH"}
               /\ receipt.kind = at(receipt.rev).kind
               /\ at(receipt.rev).life = LifeAfter[receipt.kind]
               /\ receipt.life = LifeAfter[receipt.kind]
    <2> DEFINE before == at(receipt.rev - 1)
               after == at(receipt.rev)
    <2>1. /\ receipt.life = after.life /\ receipt.kind = after.kind
          /\ Policy(before, [kind |-> after.kind, rev |-> before.rev, confirmed |-> TRUE]) = "ACCEPTED"
          /\ after.life = Successor[after.kind]
      BY <1>7 DEF LawfulStep
    <2>2. after.kind \in DOMAIN Successor
      BY <2>1 DEF Policy
    <2>3. /\ after.kind \in {"RETIRE", "FINAL_DEATH"}
          /\ Successor[after.kind] = LifeAfter[after.kind]
      BY <2>2 DEF Successor, LifeAfter
    <2> QED BY <2>1, <2>3
  <1>9. ASSUME NEW row \in H PROVE RevisionCheck(row)
    <2>1. CASE row.rev = 1
      <3>1. PICK receipt \in made :
              at(1) = Revision(x, 1, "ACTIVE", receipt.who, "CREATE", receipt.body)
        BY <1>4
      <3>2. row = Revision(x, 1, "ACTIVE", receipt.who, "CREATE", receipt.body)
        BY <1>6, <2>1, <3>1
      <3> QED BY <3>2 DEF Revision, RevisionCheck, LifeAfter
    <2>2. CASE row.rev # 1
      <3>1. row.rev \in 2..n
        BY <1>3, <1>6, <2>2
      <3>2. PICK receipt \in mutated : receipt.rev = row.rev
        BY <1>4, <3>1
      <3>3. /\ row.kind \in {"RETIRE", "FINAL_DEATH"} /\ row.life = LifeAfter[row.kind]
        BY <1>6, <1>8, <3>2
      <3> QED BY <2>2, <3>3 DEF RevisionCheck, LifeAfter
    <2> QED BY <2>1, <2>2
  <1>10. ASSUME NEW row \in Table(S, "mutation_receipt"), row.char = x
         PROVE  /\ MutationReceiptCheck(row)
                /\ \E m \in H : m.rev = row.rev
                /\ \E m \in H : m.rev = row.rev - 1
    <2>1. row \in mutated
      BY <1>10 DEF mutated
    <2>2. row.rev \in 2..n /\ row.rev - 1 \in 1..n /\ row.rev \in 1..n
      BY <1>3, <1>7, <2>1
    <2>3. MutationReceiptCheck(row)
      BY <1>8, <2>1, <2>2 DEF MutationReceiptCheck
    <2> QED BY <1>5, <2>2, <2>3
  <1>11. ASSUME NEW row \in Table(S, "creation_receipt"), row.char = x PROVE Binding(row.who) \in S
    <2>1. PICK receipt \in made :
             /\ made = {receipt}
             /\ at(1) = Revision(x, 1, "ACTIVE", receipt.who, "CREATE", receipt.body)
      BY <1>4
    <2>2. row = receipt
      BY <1>11, <2>1 DEF made
    <2>3. at(1).who = row.who
      BY <2>1, <2>2 DEF Revision
    <2> QED BY <1>4, <2>3
  <1> QED BY <1>9, <1>10, <1>11

\* Of a native run: it has one to three sessions, that joined at the third revision and
\* at those after it.
LEMMA NativeJoins ==
  ASSUME NEW D, RowsWhole(D), NEW r \in NativeRuns(D)
  PROVE  \E k \in 1..3 :
            /\ {p.version : p \in Participations(D.rows, r)} = 3..k + 2
            /\ Cardinality(Participations(D.rows, r)) = k
            /\ \A n \in 1..k + 2 : \E m \in RunRevisions(D.rows, r) : m.version = n
            /\ Classify(D, r) # "broken"
  <1> DEFINE S == D.rows
             P == Participations(S, r)
             J == {p.version : p \in P}
             m == Run(S, r)
             H == RunRevisions(S, r)
             at(n) == CHOOSE row \in H : row.version = n
  <1>1. PICK a \in Table(S, "admission") : a.run = r
    BY DEF NativeRuns
  <1>2. /\ H # {} /\ ValidRun(S, r) /\ IsFiniteSet(S) /\ OneHolder(S)
        /\ Classify(D, r) # "broken"
    BY <1>1, WholeFamilies DEF RowsWhole, FamiliesAreWhole, RecordsAreWhole, OpeningsAreWhole, NamesRun, Table
  <1>3. HistoryIsWhole(S, r)
    BY <1>2 DEF ValidRun
  <1> HIDE DEF S
  <1>4. PICK n \in Nat :
            /\ n >= 1 /\ m \in H /\ m.version = n
            /\ \A row \in H : row.version \in 1..n
            /\ \A k \in 1..n : \E row \in H : row.version = k
            /\ J = {row.version : row \in {row \in H : row.kind \in JoinKinds}}
    BY <1>2, <1>3, RunHistory
  <1>5. AdmissionPrefix(D, r)
    BY <1>2 DEF Classify, AdmissionStands
  <1>6. /\ n >= 3 /\ (n > 3 => <<n, m.kind>> \in NativeKinds)
        /\ <<at(1).kind, at(2).kind, at(3).kind>> = <<"CREATE", "BIND", "ATTACH">>
    BY <1>4, <1>5 DEF AdmissionPrefix, S
  <1>7. ASSUME NEW row \in H PROVE at(row.version) = row
    <2>1. at(row.version) \in H /\ at(row.version).version = row.version
      OBVIOUS
    <2>2. row \in Table(S, "run") /\ at(row.version) \in Table(S, "run")
          /\ row.run = r /\ at(row.version).run = r
      BY <2>1 DEF RunRevisions
    <2> QED BY <1>2, <2>1, <2>2, OnlyRows
  <1>8. LawfulRun(S, m) /\ m.run = r
    BY <1>3, <1>4 DEF HistoryIsWhole, RunFamily, RunRevisions
  <1>9. Joins(S, m) = J
    <2>1. \A p \in P : p.version \in J
      OBVIOUS
    <2>2. \A k \in J : k <= n
      BY <1>4
    <2>3. {p \in P : p.version <= n} = P
      BY <2>1, <2>2
    <2> QED BY <1>4, <1>8, <2>3 DEF Joins
  <1>10. LawfulShape(m, J)
    <2>1. LawfulShape(m, Joins(S, m))
      <3> HIDE DEF m
      <3> QED BY <1>8, LawOfRow
    <2> HIDE DEF m, J
    <2> QED BY <1>9, <2>1
  <1>11. PICK k \in 1..3 : J = 3..k + 2 /\ k + 2 <= n
    <2>1. CASE m.status = "ACTIVE"
      <3>1. <<m.version, m.kind>> \in {<<3, "ATTACH">>, <<4, "CONTINUE">>, <<5, "REVISIT">>}
            /\ J = 3..m.version
        BY <1>10, <2>1 DEF LawfulShape
      <3>2. n \in 3..5 /\ J = 3..n
        BY <1>4, <3>1
      <3>3. n - 2 \in 1..3 /\ n - 2 + 2 = n
        BY <3>2
      <3> QED BY <3>2, <3>3
    <2>2. CASE m.status = "TERMINATED"
      <3>1. n \in 4..6 /\ J = 3..n - 1
        BY <1>4, <1>10, <2>2 DEF LawfulShape
      <3>2. n - 3 \in 1..3 /\ n - 3 + 2 = n - 1 /\ n - 3 + 2 <= n
        BY <3>1
      <3> QED BY <3>1, <3>2
    <2>3. CASE m.status = "COMPLETED"
      <3>1. n = 6 /\ J = 3..5
        BY <1>4, <1>10, <2>3 DEF LawfulShape
      <3> QED BY <3>1
    <2>4. CASE m.status \notin {"ACTIVE", "TERMINATED", "COMPLETED"}
      <3>1. m.kind \in {"CREATE", "BIND", "ATTACH"}
        BY <1>10, <2>4 DEF LawfulShape
      <3>2. n = 3
        BY <1>4, <1>6, <3>1 DEF NativeKinds
      <3>3. at(1).kind = "CREATE" /\ at(2).kind = "BIND" /\ at(3).kind = "ATTACH"
        BY <1>6
      <3>4. \A row \in H : row.kind \in JoinKinds <=> row.version = 3
        <4> TAKE row \in H
        <4>1. row.version \in 1..3 /\ at(row.version) = row
          BY <1>4, <1>7, <3>2
        <4> DEFINE v == row.version
        <4>2. v \in 1..3 /\ at(v) = row
          BY <4>1
        <4> HIDE DEF at, v
        <4>3. (v = 1 => row.kind = "CREATE") /\ (v = 2 => row.kind = "BIND")
              /\ (v = 3 => row.kind = "ATTACH") /\ v \in {1, 2, 3}
          BY <3>3, <4>2
        <4>4. row.kind \in JoinKinds <=> v = 3
          BY <4>3 DEF JoinKinds
        <4> QED BY <4>4 DEF v
      <3>5. J = {3}
        <4>1. \A row \in H : row.kind \in JoinKinds => row.version = 3
          BY <3>4
        <4>2. \E row \in H : row.version = 3 /\ row.kind \in JoinKinds
          BY <1>4, <3>2, <3>4
        <4> HIDE DEF H
        <4>3. {row.version : row \in {row \in H : row.kind \in JoinKinds}} = {3}
          BY <4>1, <4>2
        <4> QED BY <1>4, <4>3
      <3> QED BY <3>2, <3>5
    <2> QED BY <2>1, <2>2, <2>3, <2>4
  <1>12. Cardinality(P) = k
    <2>1. \A p, o \in P : p.version = o.version => p = o
      BY <1>2, OnlyRows DEF Participations
    <2>2. IsFiniteSet(P)
      <3>1. P \subseteq S
        BY DEF Participations, Table
      <3> QED BY <1>2, <3>1, TableIsFinite
    <2> DEFINE f == [p \in P |-> p.version]
    <2>3. f \in [P -> J]
      <3>1. \A p \in P : p.version \in J
        OBVIOUS
      <3> HIDE DEF P, J
      <3> QED BY <3>1
    <2>4. Cardinality(J) = Cardinality(P)
      <3>1. \A p, o \in P : f[p] = f[o] => p = o
        BY <2>1
      <3>2. \A j \in J : \E p \in P : f[p] = j
        <4>1. \A j \in J : \E p \in P : p.version = j
          OBVIOUS
        <4> HIDE DEF P, J
        <4> QED BY <4>1
      <3> HIDE DEF P, J, f
      <3> QED BY <2>2, <2>3, <3>1, <3>2, SameCount
    <2>5. Cardinality(3..k + 2) = k
      BY <1>11, FS_Interval
    <2> QED BY <1>11, <2>4, <2>5
  <1>13. \A j \in 1..k + 2 : \E row \in H : row.version = j
    BY <1>4, <1>11
  <1> QED BY <1>2, <1>11, <1>12, <1>13 DEF S

\* A set of one, two or three elements is the elements that are known.
LEMMA OneOf ==
  ASSUME NEW S, IsFiniteSet(S), Cardinality(S) = 1, NEW a \in S
  PROVE  S = {a}
  <1>1. IsFiniteSet({a}) /\ Cardinality({a}) = 1
    BY FS_Singleton
  <1> QED BY <1>1, FS_Subset

\* Counting one more.
LEMMA OneMore ==
  ASSUME NEW S, IsFiniteSet(S), NEW x, x \notin S
  PROVE  IsFiniteSet(S \cup {x}) /\ Cardinality(S \cup {x}) = Cardinality(S) + 1
  BY FS_AddElement

\* Two of two are all.
LEMMA TwoOf ==
  ASSUME NEW S, IsFiniteSet(S), Cardinality(S) = 2, NEW a \in S, NEW b \in S, a # b
  PROVE  S = {a, b}
  <1>1. IsFiniteSet({a}) /\ Cardinality({a}) = 1
    BY FS_Singleton
  <1>2. b \notin {a}
    OBVIOUS
  <1>3. IsFiniteSet({a} \cup {b}) /\ Cardinality({a} \cup {b}) = 1 + 1
    BY <1>1, <1>2, OneMore
  <1>4. {a} \cup {b} = {a, b}
    OBVIOUS
  <1>5. IsFiniteSet({a, b}) /\ Cardinality({a, b}) = 2 /\ {a, b} \subseteq S
    BY <1>3, <1>4
  <1> QED BY <1>5, FS_Subset

\* Three of three are all.
LEMMA ThreeOf ==
  ASSUME NEW S, IsFiniteSet(S), Cardinality(S) = 3,
         NEW a \in S, NEW b \in S, NEW c \in S, a # b, a # c, b # c
  PROVE  S = {a, b, c}
  <1>1. IsFiniteSet({a}) /\ Cardinality({a}) = 1
    BY FS_Singleton
  <1>2. b \notin {a} /\ c \notin {a} \cup {b}
    OBVIOUS
  <1>3. IsFiniteSet({a} \cup {b}) /\ Cardinality({a} \cup {b}) = 1 + 1
    BY <1>1, <1>2, OneMore
  <1>4. /\ IsFiniteSet(({a} \cup {b}) \cup {c})
        /\ Cardinality(({a} \cup {b}) \cup {c}) = 1 + 1 + 1
    BY <1>2, <1>3, OneMore
  <1>5. ({a} \cup {b}) \cup {c} = {a, b, c}
    OBVIOUS
  <1>6. IsFiniteSet({a, b, c}) /\ Cardinality({a, b, c}) = 3 /\ {a, b, c} \subseteq S
    BY <1>4, <1>5
  <1> QED BY <1>6, FS_Subset

\* How many sessions a run has had.
Joined(S, r) == Cardinality(Participations(S, r))

\* The journey of a native run: nothing of a world until it goes on from the first, then
\* a visit for each session and the root of the world it left; the place where the run is
\* is its last visit.
LEMMA NativeJourney ==
  ASSUME NEW D, NEW r, Classify(D, r) # "broken"
  PROVE  /\ Joined(D.rows, r) = 1 => WorldRows(D.rows, r) = {} /\ r \notin DOMAIN D.position
         /\ Joined(D.rows, r) \in 2..3 =>
              /\ VisitsFollow(D, r, Joined(D.rows, r))
              /\ Cardinality(Of(D.rows, "visit", r)) = Joined(D.rows, r)
              /\ \E s, image : Root(r, "sealed", s, image) \in D.rows
              /\ \/ Cardinality(Of(D.rows, "entry", r)) = 0
                 \/ /\ Cardinality(Of(D.rows, "entry", r)) = 1
                    /\ \E base, before, image :
                          Entry(r, JoinedAt(D.rows, r, Joined(D.rows, r) + 2), base, before, image)
                             \in D.rows
              /\ PositionIs(D, r, Joined(D.rows, r) + 2)
  <1> DEFINE visits == Joined(D.rows, r)
             fog == AdmittedWorld(D.rows, r) = "fog_station"
  <1>1. CASE visits = 1
    BY <1>1 DEF Classify, Joined
  <1>2. CASE visits = 2 /\ fog
    <2>1. Counts(D, r, 1, 2, 1) /\ FogStands(D, r) /\ PositionIs(D, r, 4)
      BY <1>2 DEF Classify, Joined
    <2>2. /\ VisitsFollow(D, r, 2)
          /\ \E s, image : Root(r, "sealed", s, image) \in D.rows
          /\ \E base, before, image : Entry(r, JoinedAt(D.rows, r, 4), base, before, image) \in D.rows
      BY <2>1 DEF FogStands
    <2>3. Cardinality(Of(D.rows, "visit", r)) = 2 /\ Cardinality(Of(D.rows, "entry", r)) = 1
      BY <2>1 DEF Counts
    <2> QED BY <1>2, <2>1, <2>2, <2>3
  <1>3. CASE visits = 2 /\ ~fog
    <2>1. Counts(D, r, 2, 2, 0) /\ ContinuedStands(D, r) /\ PositionIs(D, r, 4)
      BY <1>3 DEF Classify, Joined
    <2>2. /\ VisitsFollow(D, r, 2)
          /\ \E s, image : Root(r, "sealed", s, image) \in D.rows
      BY <2>1 DEF ContinuedStands
    <2>3. Cardinality(Of(D.rows, "visit", r)) = 2 /\ Cardinality(Of(D.rows, "entry", r)) = 0
      BY <2>1 DEF Counts
    <2> QED BY <1>3, <2>1, <2>2, <2>3
  <1>4. CASE visits = 3
    <2>1. Counts(D, r, 2, 3, 1) /\ RegionalStands(D, r) /\ PositionIs(D, r, 5)
      BY <1>4 DEF Classify, Joined
    <2>2. /\ VisitsFollow(D, r, 3)
          /\ \E base, before, image : Entry(r, JoinedAt(D.rows, r, 5), base, before, image) \in D.rows
          /\ ContinuedStands(D, r)
      BY <2>1 DEF RegionalStands
    <2>3. Cardinality(Of(D.rows, "visit", r)) = 3 /\ Cardinality(Of(D.rows, "entry", r)) = 1
      BY <2>1 DEF Counts
    <2>4. \E s, image : Root(r, "sealed", s, image) \in D.rows
      BY <2>2 DEF ContinuedStands
    <2> QED BY <1>4, <2>1, <2>2, <2>3, <2>4
  <1> QED BY <1>1, <1>2, <1>3, <1>4

\* The keys a native run's own rows refer to.
LEMMA NativeKeys ==
  ASSUME NEW D, RowsWhole(D), NEW r \in NativeRuns(D)
  PROVE  /\ <<"run", r, 3>> \in KeysOf(D.rows)
         /\ \A row \in D.rows : row.table \in WorldTables /\ row.run = r =>
              /\ row.table = "visit" => VisitCheck(row)
              /\ VisitReferences(row) \cup EntryReferences(row) \subseteq KeysOf(D.rows)
         /\ r \in DOMAIN D.position => PositionCheck(D, r)
  <1> DEFINE S == D.rows
             P == Participations(S, r)
             visits == Of(S, "visit", r)
             entries == Of(S, "entry", r)
  <1>1. PICK k \in 1..3 :
            /\ {p.version : p \in P} = 3..k + 2
            /\ Joined(S, r) = k
            /\ \A n \in 1..k + 2 : \E m \in RunRevisions(S, r) : m.version = n
            /\ Classify(D, r) # "broken"
    BY NativeJoins DEF Joined
  <1>2. IsFiniteSet(S)
    BY DEF RowsWhole
  <1>3. \A n \in 1..k + 2 : <<"run", r, n>> \in KeysOf(S)
    <2> TAKE n \in 1..k + 2
    <2>1. PICK m \in RunRevisions(S, r) : m.version = n
      BY <1>1
    <2>2. m \in Table(S, "run") /\ m.run = r
      BY DEF RunRevisions
    <2> QED BY <2>1, <2>2, KeysAreThere
  <1>4. <<"run", r, 3>> \in KeysOf(S)
    BY <1>3
  <1>5. CASE k = 1
    <2>1. WorldRows(S, r) = {} /\ r \notin DOMAIN D.position
      BY <1>1, <1>5, NativeJourney
    <2>2. \A row \in S : ~(row.table \in WorldTables /\ row.run = r)
      BY <2>1 DEF WorldRows
    <2> QED BY <1>4, <2>1, <2>2
  <1>6. CASE k \in 2..3
    <2>1. /\ VisitsFollow(D, r, k)
          /\ Cardinality(visits) = k
          /\ \E s, image : Root(r, "sealed", s, image) \in S
          /\ \/ Cardinality(entries) = 0
             \/ /\ Cardinality(entries) = 1
                /\ \E base, before, image : Entry(r, JoinedAt(S, r, k + 2), base, before, image) \in S
          /\ PositionIs(D, r, k + 2)
      BY <1>1, <1>6, NativeJourney
    <2>2. IsFiniteSet(visits) /\ IsFiniteSet(entries)
      <3>1. visits \subseteq S /\ entries \subseteq S
        BY DEF Of, Table
      <3> QED BY <1>2, <3>1, TableIsFinite
    <2> DEFINE at(i) == Visit(r, i, JoinedAt(S, r, i + 2))
    <2>3. \A i \in 1..k : at(i) \in visits
      BY <2>1 DEF VisitsFollow, Of, Table, Visit
    <2>4. \A i : /\ at(i).ordinal = i /\ at(i).joined = i + 2 /\ at(i).table = "visit"
                 /\ at(i).run = r /\ at(i).session = JoinedAt(S, r, i + 2)
      BY DEF Visit
    <2> HIDE DEF at
    <2>5. ASSUME NEW row \in visits PROVE \E i \in 1..k : row = at(i)
      <3>1. at(1) # at(2) /\ at(1) # at(3) /\ at(2) # at(3)
        BY <2>4
      <3>2. CASE k = 2
        <4>1. at(1) \in visits /\ at(2) \in visits
          BY <2>3, <3>2
        <4>2. visits = {at(1), at(2)}
          BY <2>1, <2>2, <3>1, <3>2, <4>1, TwoOf
        <4> QED BY <3>2, <4>2
      <3>3. CASE k = 3
        <4>1. at(1) \in visits /\ at(2) \in visits /\ at(3) \in visits
          BY <2>3, <3>3
        <4>2. visits = {at(1), at(2), at(3)}
          BY <2>1, <2>2, <3>1, <3>3, <4>1, ThreeOf
        <4> QED BY <3>3, <4>2
      <3> QED BY <1>6, <3>2, <3>3
    <2>6. <<"root", r, "sealed">> \in KeysOf(S)
      <3>1. PICK s, image : Root(r, "sealed", s, image) \in S
        BY <2>1
      <3>2. /\ Root(r, "sealed", s, image) \in Table(S, "root")
            /\ Root(r, "sealed", s, image).run = r /\ Root(r, "sealed", s, image).basis = "sealed"
        BY <3>1 DEF Root, Table
      <3> QED BY <3>2, KeysAreThere
    <2>7. \A i \in 1..k : <<"visit of", r, JoinedAt(S, r, i + 2)>> \in KeysOf(S)
      <3> TAKE i \in 1..k
      <3>1. at(i) \in Table(S, "visit")
        BY <2>3 DEF Of
      <3> QED BY <2>4, <3>1, KeysAreThere
    <2>8. \A i \in 1..k : <<"joined exactly", JoinedAt(S, r, i + 2), r, i + 2>> \in KeysOf(S)
      <3> TAKE i \in 1..k
      <3>1. i + 2 \in 3..k + 2
        BY <1>6
      <3>2. \E p \in P : p.version = i + 2
        BY <1>1, <3>1
      <3> DEFINE p == CHOOSE p \in P : p.version = i + 2
      <3>3. p \in P /\ p.version = i + 2
        BY <3>2
      <3>4. JoinedAt(S, r, i + 2) = p.session
        BY DEF JoinedAt
      <3> HIDE DEF p
      <3>5. p \in Table(S, "participation") /\ p.run = r
        BY <3>3 DEF Participations
      <3> QED BY <3>3, <3>4, <3>5, KeysAreThere
    <2>9. ASSUME NEW row \in S, row.table = "visit", row.run = r
          PROVE  /\ VisitCheck(row) /\ VisitReferences(row) \subseteq KeysOf(S)
      <3>1. PICK i \in 1..k : row = at(i)
        BY <2>5, <2>9 DEF Of, Table
      <3>2. /\ row.ordinal = i /\ row.joined = i + 2 /\ row.session = JoinedAt(S, r, i + 2)
        BY <2>4, <3>1
      <3>3. VisitCheck(row)
        BY <1>6, <3>2 DEF VisitCheck
      <3>4. Max({4, row.joined}) \in 1..k + 2
        <4>1. row.joined \in 3..k + 2 /\ 4 \in 3..k + 2
          BY <1>6, <3>2
        <4>2. \E n \in {4, row.joined} : \A y \in {4, row.joined} : n >= y
          BY <4>1
        <4>3. Max({4, row.joined}) \in {4, row.joined}
          BY <4>2 DEF Max
        <4> QED BY <4>1, <4>3
      <3>5. VisitReferences(row) =
              {<<"run", r, Max({4, row.joined})>>,
               <<"joined exactly", JoinedAt(S, r, i + 2), r, i + 2>>, <<"root", r, "sealed">>}
        BY <2>9, <3>2 DEF VisitReferences
      <3>6. <<"run", r, Max({4, row.joined})>> \in KeysOf(S)
        BY <1>3, <3>4
      <3> QED BY <2>6, <2>8, <3>3, <3>5, <3>6
    <2>10. ASSUME NEW row \in S, row.table = "root", row.run = r
           PROVE  VisitReferences(row) \subseteq KeysOf(S)
      <3>1. VisitReferences(row) = {<<"run", r, 4>>}
        BY <2>10 DEF VisitReferences
      <3>2. 4 \in 1..k + 2
        BY <1>6
      <3> QED BY <1>3, <3>1, <3>2
    <2>11. ASSUME NEW row \in S, row.table = "entry", row.run = r
           PROVE  EntryReferences(row) \subseteq KeysOf(S)
      <3>1. row \in entries
        BY <2>11 DEF Of, Table
      <3>2. Cardinality(entries) # 0
        BY <2>2, <3>1, FS_EmptySet
      <3>3. PICK base, before, image :
               Entry(r, JoinedAt(S, r, k + 2), base, before, image) \in S
        BY <2>1, <3>2
      <3> DEFINE e == Entry(r, JoinedAt(S, r, k + 2), base, before, image)
      <3>4. e \in entries /\ e.session = JoinedAt(S, r, k + 2)
        BY <3>3 DEF Entry, Of, Table
      <3>5. entries = {row}
        BY <2>1, <2>2, <3>1, <3>2, OneOf
      <3>6. row.session = JoinedAt(S, r, k + 2)
        BY <3>4, <3>5
      <3>7. EntryReferences(row) = {<<"visit of", r, JoinedAt(S, r, k + 2)>>}
        BY <2>11, <3>6 DEF EntryReferences
      <3>8. k \in 1..k
        BY <1>6
      <3> QED BY <2>7, <3>7, <3>8
    <2>12. PositionCheck(D, r)
      <3>1. D.position[r] = PositionAt(JoinedAt(S, r, k + 2), k + 2)
        BY <2>1 DEF PositionIs
      <3>2. D.position[r].version = k + 2 /\ D.position[r].session = JoinedAt(S, r, k + 2)
        BY <3>1 DEF PositionAt
      <3>3. k \in 1..k /\ k + 2 \in 1..k + 2 /\ k + 2 \in {4, 5}
        BY <1>6
      <3>4. <<"visit of", r, D.position[r].session>> \in KeysOf(S)
        BY <2>7, <3>2, <3>3
      <3>5. <<"run", r, D.position[r].version>> \in KeysOf(S)
        BY <1>3, <3>2, <3>3
      <3> QED BY <3>2, <3>3, <3>4, <3>5 DEF PositionCheck
    <2>13. ASSUME NEW row \in S, row.table \in WorldTables, row.run = r
           PROVE  /\ row.table = "visit" => VisitCheck(row)
                  /\ VisitReferences(row) \cup EntryReferences(row) \subseteq KeysOf(S)
      <3>1. CASE row.table = "visit"
        <4>1. EntryReferences(row) = {}
          BY <3>1 DEF EntryReferences
        <4> QED BY <2>9, <2>13, <3>1, <4>1
      <3>2. CASE row.table = "root"
        <4>1. EntryReferences(row) = {}
          BY <3>2 DEF EntryReferences
        <4> QED BY <2>10, <2>13, <3>2, <4>1
      <3>3. CASE row.table = "entry"
        <4>1. VisitReferences(row) = {}
          BY <3>3 DEF VisitReferences
        <4> QED BY <2>11, <2>13, <3>3, <4>1
      <3> QED BY <2>13, <3>1, <3>2, <3>3 DEF WorldTables
    <2> QED BY <1>4, <2>12, <2>13
  <1> QED BY <1>5, <1>6

\* A row has finitely many keys.
LEMMA FewKeys ==
  ASSUME NEW row
  PROVE  IsFiniteSet(StoreKeys(row))
  <1>3. \A a : IsFiniteSet({a})
    BY FS_Singleton
  <1>4. \A a, b : IsFiniteSet({a, b})
    <2> TAKE a, b
    <2>1. IsFiniteSet({a} \cup {b}) /\ {a, b} = {a} \cup {b}
      BY <1>3, FS_AddElement
    <2> QED BY <2>1
  <1>5. \A a, b, c : IsFiniteSet({a, b, c})
    <2> TAKE a, b, c
    <2>1. IsFiniteSet({a, b} \cup {c}) /\ {a, b, c} = {a, b} \cup {c}
      BY <1>4, FS_AddElement
    <2> QED BY <2>1
  <1>6. \A a, b, c, d : IsFiniteSet({a, b, c, d})
    <2> TAKE a, b, c, d
    <2>1. IsFiniteSet({a, b, c} \cup {d}) /\ {a, b, c, d} = {a, b, c} \cup {d}
      BY <1>5, FS_AddElement
    <2> QED BY <2>1
  <1>7. IsFiniteSet({})
    BY FS_EmptySet
  <1>8. CASE row.table = "binding"
    <2>1. StoreKeys(row) = {<<"binding", row.who>>}
      BY <1>8, RowKeys
    <2> QED BY <1>3, <2>1
  <1>9. CASE row.table = "revision"
    <2>1. StoreKeys(row) = {<<"revision", row.char, row.rev>>}
      BY <1>9, RowKeys
    <2> QED BY <1>3, <2>1
  <1>10. CASE row.table = "creation_receipt"
    <2>1. StoreKeys(row) = {<<"creation", row.who, row.key>>, <<"created_character", row.char>>}
      BY <1>10, RowKeys
    <2> QED BY <1>4, <2>1
  <1>11. CASE row.table = "mutation_receipt"
    <2>1. StoreKeys(row) = {<<"mutation", row.char, row.key>>, <<"mutated_revision", row.char, row.rev>>}
      BY <1>11, RowKeys
    <2> QED BY <1>4, <2>1
  <1>12. CASE row.table = "run"
    <2>1. StoreKeys(row) = {<<"run", row.run, row.version>>}
      BY <1>12, RowKeys
    <2> QED BY <1>3, <2>1
  <1>13. CASE row.table = "run_creation"
    <2>1. StoreKeys(row) = {<<"run_op", row.op>>, <<"created_run", row.run>>}
      BY <1>13, RowKeys
    <2> QED BY <1>4, <2>1
  <1>14. CASE row.table = "run_receipt"
    <2>1. StoreKeys(row) = {<<"step_op", row.run, row.kind, row.op>>, <<"step", row.run, row.version>>}
      BY <1>14, RowKeys
    <2> QED BY <1>4, <2>1
  <1>15. CASE row.table = "participation"
    <2>1. StoreKeys(row) = {<<"member", row.session>>, <<"joined", row.run, row.version>>, <<"joined exactly", row.session, row.run, row.version>>}
      BY <1>15, RowKeys
    <2> QED BY <1>5, <2>1
  <1>16. CASE row.table = "admission"
    <2>1. StoreKeys(row) = {<<"admission", row.run>>}
      BY <1>16, RowKeys
    <2> QED BY <1>3, <2>1
  <1>17. CASE row.table = "offer"
    <2>1. StoreKeys(row) = {<<"offer", row.offer>>, <<"offer_key", row.who, row.key>>, <<"ordinal", row.char, row.ordinal>>}
      BY <1>17, RowKeys
    <2>2. IsFiniteSet({<<"offer", row.offer>>, <<"offer_key", row.who, row.key>>, <<"ordinal", row.char, row.ordinal>>})
      BY ONLY <1>5, Zenon
    <2> QED BY <2>1, <2>2
  <1>18. CASE row.table = "confirmation"
    <2>1. StoreKeys(row) = {<<"confirmation", row.offer>>, <<"opened_run", row.run>>}
      BY <1>18, RowKeys
    <2> QED BY <1>4, <2>1
  <1>19. CASE row.table = "session"
    <2>1. StoreKeys(row) = {<<"session", row.session>>, <<"request", row.op>>}
      BY <1>19, RowKeys
    <2> QED BY <1>4, <2>1
  <1>20. CASE row.table = "turn"
    <2>1. StoreKeys(row) = {<<"turn", row.session, row.key>>}
      BY <1>20, RowKeys
    <2> QED BY <1>3, <2>1
  <1>21. CASE row.table = "event"
    <2>1. StoreKeys(row) = {<<"event", row.session, row.seq>>}
      BY <1>21, RowKeys
    <2> QED BY <1>3, <2>1
  <1>22. CASE row.table = "evidence"
    <2>1. StoreKeys(row) = {<<"evidence", row.run, row.version>>}
      BY <1>22, RowKeys
    <2> QED BY <1>3, <2>1
  <1>23. CASE row.table = "root"
    <2>1. StoreKeys(row) = {<<"root", row.run, row.basis>>}
      BY <1>23, RowKeys
    <2> QED BY <1>3, <2>1
  <1>24. CASE row.table = "visit"
    <2>1. StoreKeys(row) = {<<"visit", row.run, row.ordinal>>, <<"visit at", row.run, row.joined>>, <<"visited", row.session>>, <<"visit of", row.run, row.session>>}
      BY <1>24, RowKeys
    <2>2. IsFiniteSet({<<"visit", row.run, row.ordinal>>, <<"visit at", row.run, row.joined>>, <<"visited", row.session>>, <<"visit of", row.run, row.session>>})
      BY ONLY <1>6, Zenon
    <2> QED BY <2>1, <2>2
  <1>25. CASE row.table = "entry"
    <2>1. StoreKeys(row) = {<<"entry", row.run, row.session>>, <<"entered", row.session>>}
      BY <1>25, RowKeys
    <2> QED BY <1>4, <2>1
  <1>26. CASE row.table \notin AllTables
    <2>1. StoreKeys(row) = {}
      BY <1>26, RowKeys
    <2> QED BY <1>7, <2>1
  <1> QED BY <1>8, <1>9, <1>10, <1>11, <1>12, <1>13, <1>14, <1>15, <1>16, <1>17, <1>18, <1>19, <1>20,
             <1>21, <1>22, <1>23, <1>24, <1>25, <1>26 DEF AllTables

\* Finitely many rows hold finitely many keys.
LEMMA FewHolders ==
  ASSUME NEW S, IsFiniteSet(S)
  PROVE  IsFiniteSet(KeyHolders(S))
  <1> DEFINE of == [row \in S |-> {<<key, row>> : key \in StoreKeys(row)}]
             all == {of[row] : row \in S}
  <1>1. KeyHolders(S) = UNION all
    BY DEF KeyHolders
  <1>2. IsFiniteSet(all)
    <2>1. of \in [S -> all] /\ \A a \in all : \E row \in S : of[row] = a
      OBVIOUS
    <2>2. of \in Surjection(S, all)
      BY <2>1, Fun_IsSurj
    <2> QED BY <2>2, FS_Surjection
  <1>3. ASSUME NEW row \in S PROVE IsFiniteSet(of[row])
    <2> DEFINE pair == [key \in StoreKeys(row) |-> <<key, row>>]
    <2>1. pair \in [StoreKeys(row) -> of[row]] /\ \A a \in of[row] : \E key \in StoreKeys(row) : pair[key] = a
      OBVIOUS
    <2>2. pair \in Surjection(StoreKeys(row), of[row])
      BY <2>1, Fun_IsSurj
    <2> QED BY <2>2, FewKeys, FS_Surjection
  <1>4. \A a \in all : IsFiniteSet(a)
    BY <1>3
  <1> QED BY <1>1, <1>2, <1>4, FS_UNION

\* What is held and by whom.
LEMMA HoldersHold ==
  ASSUME NEW S
  PROVE  /\ \A h \in KeyHolders(S) : \E row \in S : \E key \in StoreKeys(row) : h = <<key, row>>
         /\ \A row \in S : \A key \in StoreKeys(row) : <<key, row>> \in KeyHolders(S)
  BY DEF KeyHolders

\* When no two rows share a key the schema finds every key unique.
LEMMA UniqueHolders ==
  ASSUME NEW S, IsFiniteSet(S), OneHolder(S)
  PROVE  KeysAreUnique(S)
  <1> DEFINE H == KeyHolders(S)
             name == [h \in H |-> h[1]]
  <1>5. \A h \in H : \E row \in S : \E key \in StoreKeys(row) : h = <<key, row>>
    BY HoldersHold
  <1>6. \A row \in S : \A key \in StoreKeys(row) : <<key, row>> \in H
    BY HoldersHold
  <1>4. IsFiniteSet(H)
    BY FewHolders
  <1> HIDE DEF H
  <1>7. name \in [H -> KeysOf(S)]
    BY <1>5 DEF KeysOf
  <1>8. ASSUME NEW g \in H, NEW h \in H, name[g] = name[h] PROVE g = h
    <2>1. PICK a \in S : \E key \in StoreKeys(a) : g = <<key, a>>
      BY <1>5
    <2>2. PICK b \in S : \E key \in StoreKeys(b) : h = <<key, b>>
      BY <1>5
    <2>3. PICK k : k \in StoreKeys(a) /\ k \in StoreKeys(b) /\ g = <<k, a>> /\ h = <<k, b>>
      BY <1>8, <2>1, <2>2
    <2>4. a = b
      BY <2>3, SharedKeys
    <2> QED BY <2>3, <2>4
  <1>9. ASSUME NEW key \in KeysOf(S) PROVE \E h \in H : name[h] = key
    <2>1. PICK row \in S : key \in StoreKeys(row)
      BY DEF KeysOf
    <2> QED BY <1>6, <2>1
  <1> HIDE DEF name
  <1>10. Cardinality(KeysOf(S)) = Cardinality(H)
    BY <1>4, <1>7, <1>8, <1>9, SameCount
  <1> QED BY <1>10 DEF KeysAreUnique, H

\* A run's sessions joined it after it was made.
LEMMA JoinedLater ==
  ASSUME NEW S, NEW r, HistoryIsWhole(S, r), NEW p \in Participations(S, r)
  PROVE  /\ \E m \in RunRevisions(S, r) : m.version = p.version /\ m.kind \in JoinKinds
         /\ p.version \in Int /\ p.version >= 2
  <1>1. {o.version : o \in Participations(S, r)}
           = {m.version : m \in {m \in RunRevisions(S, r) : m.kind \in JoinKinds}}
    BY DEF HistoryIsWhole, RunFamily
  <1>2. p.version \in {o.version : o \in Participations(S, r)}
    OBVIOUS
  <1>3. PICK m \in RunRevisions(S, r) : m.version = p.version /\ m.kind \in JoinKinds
    BY <1>1, <1>2
  <1>4. LawfulRun(S, m)
    BY DEF HistoryIsWhole, RunFamily
  <1>5. m.version \in Joins(S, m) /\ Joins(S, m) \subseteq 2..m.version
    BY <1>3, <1>4, LawOfRow
  <1>6. m.version \in 2..m.version
    BY <1>5
  <1>7. m.version \in Int /\ m.version >= 2
    BY <1>6
  <1> QED BY <1>3, <1>7

\* Every row of a whole store passes the checks of its table.
LEMMA RowsPassChecks ==
  ASSUME NEW D, RowsWhole(D), NEW row \in D.rows
  PROVE  RowCheck(row)
  <1> DEFINE S == D.rows
  <1>1. /\ IsFiniteSet(S) /\ HangsIn(S, S) /\ OneHolder(S)
        /\ (row.table \in NamesRun => RunRevisions(S, row.run) # {})
        /\ \A r : RunRevisions(S, r) # {} => ValidRun(S, r)
        /\ \A x : Revisions(S, x) # {} => ValidCharacter(S, x)
    BY WholeFamilies DEF RowsWhole
  <1>2. row \in S /\ row \in Table(S, row.table)
    BY DEF Table
  <1>3. CASE row.table = "revision"
    <2>1. row \in Revisions(S, row.char)
      BY <1>2, <1>3 DEF Revisions, Table
    <2>2. RevisionCheck(row)
      BY <1>1, <2>1, CharacterRows
    <2> QED BY <1>3, <2>2 DEF RowCheck
  <1>4. CASE row.table = "mutation_receipt"
    <2>1. Revisions(S, row.char) # {}
      BY <1>1, <1>2, <1>4 DEF HangsIn
    <2>2. MutationReceiptCheck(row)
      BY <1>1, <1>2, <1>4, <2>1, CharacterRows
    <2> QED BY <1>4, <2>2 DEF RowCheck
  <1>5. CASE row.table = "run"
    <2>1. row \in RunRevisions(S, row.run)
      BY <1>2, <1>5 DEF RunRevisions
    <2>2. HistoryIsWhole(S, row.run)
      BY <1>1, <2>1 DEF ValidRun
    <2>3. \E n \in Nat : row.version \in 1..n
      BY <1>1, <2>1, <2>2, RunHistory
    <2>4. LawfulRun(S, row)
      BY <2>1, <2>2 DEF HistoryIsWhole, RunFamily
    <2>5. row \in Table(S, "run") /\ row.version \in Nat
      BY <1>2, <1>5, <2>3
    <2>6. RunCheck(row)
      BY <2>4, <2>5, RunRowChecks
    <2> QED BY <1>5, <2>6 DEF RowCheck
  <1>6. CASE row.table = "run_receipt"
    <2>1. RunRevisions(S, row.run) # {} /\ ValidRun(S, row.run)
      BY <1>1, <1>2, <1>6 DEF HangsIn
    <2>2. RunReceiptCheck(row)
      BY <1>1, <1>2, <1>6, <2>1, ReceiptsOfRun
    <2> QED BY <1>6, <2>2 DEF RowCheck
  <1>7. CASE row.table = "participation"
    <2>1. row \in Participations(S, row.run) /\ RunRevisions(S, row.run) # {}
      BY <1>1, <1>2, <1>7 DEF Participations, NamesRun
    <2>2. HistoryIsWhole(S, row.run)
      BY <1>1, <2>1 DEF ValidRun
    <2>3. row.version >= 2
      BY <2>1, <2>2, JoinedLater
    <2> QED BY <1>7, <2>3 DEF RowCheck
  <1>8. CASE row.table = "visit"
    <2>1. \E a \in Table(S, "admission") : a.run = row.run
      BY <1>1, <1>2, <1>8 DEF HangsIn, WorldTables
    <2>2. row.run \in NativeRuns(D)
      BY <2>1 DEF NativeRuns
    <2>3. VisitCheck(row)
      BY <1>8, <2>2, NativeKeys DEF WorldTables
    <2> QED BY <1>8, <2>3 DEF RowCheck
  <1>9. CASE row.table = "offer"
    <2>1. row.ordinal >= 1
      BY <1>1, <1>2, <1>9 DEF HangsIn
    <2> QED BY <1>9, <2>1 DEF RowCheck
  <1>10. CASE row.table \notin {"revision", "mutation_receipt", "run", "run_receipt", "participation",
                                "visit", "offer"}
    BY <1>10 DEF RowCheck
  <1> QED BY <1>3, <1>4, <1>5, <1>6, <1>7, <1>8, <1>9, <1>10

\* What a row of a whole store refers to is there.
LEMMA ReferencesHold ==
  ASSUME NEW D, RowsWhole(D), NEW row \in D.rows
  PROVE  ForeignKeys(row) \subseteq KeysOf(D.rows)
  <1> DEFINE S == D.rows
  <1>1. /\ IsFiniteSet(S) /\ HangsIn(S, S) /\ OneHolder(S)
        /\ (row.table \in NamesRun => RunRevisions(S, row.run) # {})
        /\ \A r : RunRevisions(S, r) # {} => ValidRun(S, r)
        /\ \A x : Revisions(S, x) # {} => ValidCharacter(S, x)
    BY WholeFamilies DEF RowsWhole
  <1>2. row \in S /\ row \in Table(S, row.table)
    BY DEF Table
  <1>3. \A x : Revisions(S, x) # {} => <<"revision", x, 1>> \in KeysOf(S)
    <2> SUFFICES ASSUME NEW x, Revisions(S, x) # {} PROVE <<"revision", x, 1>> \in KeysOf(S)
      OBVIOUS
    <2>1. PICK first \in Revisions(S, x) : first.rev = 1
      BY <1>1, FirstOfCharacter
    <2>2. first \in Table(S, "revision") /\ first.char = x
      BY DEF Revisions
    <2> QED BY <2>1, <2>2, KeysAreThere
  <1>4. GameReferences(row) \subseteq KeysOf(S)
    <2>1. CASE row.table \in {"turn", "event"}
      <3>1. \E p \in Table(S, "session") : p.session = row.session
        BY <1>1, <1>2, <2>1 DEF HangsIn
      <3>2. <<"session", row.session>> \in KeysOf(S)
        BY <3>1, KeysAreThere
      <3> QED BY <2>1, <3>2 DEF GameReferences
    <2>2. CASE row.table \notin {"turn", "event"}
      BY <2>2 DEF GameReferences
    <2> QED BY <2>1, <2>2
  <1>5. CharacterReferences(row) \subseteq KeysOf(S)
    <2>1. \A who : Binding(who) \in S => <<"binding", who>> \in KeysOf(S)
      <3> SUFFICES ASSUME NEW who, Binding(who) \in S PROVE <<"binding", who>> \in KeysOf(S)
        OBVIOUS
      <3>1. Binding(who) \in Table(S, "binding") /\ Binding(who).who = who
        BY DEF Binding, Table
      <3> QED BY <3>1, KeysAreThere
    <2>2. CASE row.table = "revision"
      <3>1. CharacterReferences(row) = {<<"binding", row.who>>}
        BY <2>2 DEF CharacterReferences
      <3>2. PICK b \in Table(S, "binding") : b.who = row.who
        BY <1>1, <1>2, <2>2 DEF HangsIn
      <3>3. <<"binding", b.who>> \in KeysOf(S)
        BY <3>2, KeysAreThere
      <3> QED BY <3>1, <3>2, <3>3
    <2>3. CASE row.table = "creation_receipt"
      <3>1. CharacterReferences(row) = {<<"binding", row.who>>, <<"revision", row.char, 1>>}
        BY <2>3 DEF CharacterReferences
      <3>2. Revisions(S, row.char) # {}
        BY <1>1, <1>2, <2>3 DEF HangsIn
      <3>3. Binding(row.who) \in S
        BY <1>1, <1>2, <2>3, <3>2, CharacterRows
      <3> QED BY <1>3, <2>1, <3>1, <3>2, <3>3
    <2>4. CASE row.table = "mutation_receipt"
      <3>1. CharacterReferences(row) =
              {<<"revision", row.char, row.rev - 1>>, <<"revision", row.char, row.rev>>}
        BY <2>4 DEF CharacterReferences
      <3>2. Revisions(S, row.char) # {}
        BY <1>1, <1>2, <2>4 DEF HangsIn
      <3>3. /\ \E m \in Revisions(S, row.char) : m.rev = row.rev
            /\ \E m \in Revisions(S, row.char) : m.rev = row.rev - 1
        BY <1>1, <1>2, <2>4, <3>2, CharacterRows
      <3>4. \A m \in Revisions(S, row.char) : <<"revision", row.char, m.rev>> \in KeysOf(S)
        BY KeysAreThere DEF Revisions
      <3> QED BY <3>1, <3>3, <3>4
    <2>5. CASE row.table \notin {"revision", "creation_receipt", "mutation_receipt"}
      BY <2>5 DEF CharacterReferences
    <2> QED BY <2>2, <2>3, <2>4, <2>5
  <1>6. RunReferences(row) \subseteq KeysOf(S)
    BY RunReferencesHold
  <1>7. EntryWorldReferences(row) \subseteq KeysOf(S)
    <2>1. CASE row.table = "admission"
      <3>1. row.run \in NativeRuns(D)
        BY <1>2, <2>1 DEF NativeRuns
      <3> QED BY <2>1, <3>1, NativeKeys DEF EntryWorldReferences
    <2>2. CASE row.table # "admission"
      BY <2>2 DEF EntryWorldReferences
    <2> QED BY <2>1, <2>2
  <1>8. VisitReferences(row) \cup EntryReferences(row) \subseteq KeysOf(S)
    <2>1. CASE row.table \in WorldTables
      <3>1. \E a \in Table(S, "admission") : a.run = row.run
        BY <1>1, <1>2, <2>1 DEF HangsIn
      <3>2. row.run \in NativeRuns(D)
        BY <3>1 DEF NativeRuns
      <3> QED BY <2>1, <3>2, NativeKeys
    <2>2. CASE row.table \notin WorldTables
      BY <2>2 DEF WorldTables, VisitReferences, EntryReferences
    <2> QED BY <2>1, <2>2
  <1>9. OpeningReferences(row) \subseteq KeysOf(S)
    <2>1. CASE row.table = "offer"
      <3>1. OpeningReferences(row) = {<<"revision", row.char, 1>>}
        BY <2>1 DEF OpeningReferences
      <3>2. ValidOpening(S, row)
        BY <1>2, <2>1 DEF RowsWhole, FamiliesAreWhole, RecordsAreWhole, OpeningsAreWhole
      <3> QED BY <1>3, <3>1, <3>2 DEF ValidOpening
    <2>2. CASE row.table = "confirmation"
      <3>1. OpeningReferences(row) = {<<"offer", row.offer>>, <<"run", row.run, 1>>}
        BY <2>2 DEF OpeningReferences
      <3>2. \E o \in Table(S, "offer") : o.offer = row.offer
        BY <1>1, <1>2, <2>2 DEF HangsIn
      <3>3. <<"offer", row.offer>> \in KeysOf(S)
        BY <3>2, KeysAreThere
      <3>4. RunRevisions(S, row.run) # {}
        BY <1>1, <2>2 DEF NamesRun
      <3>5. HistoryIsWhole(S, row.run)
        BY <1>1, <3>4 DEF ValidRun
      <3>6. PICK m \in RunRevisions(S, row.run) : m.version = 1
        BY <1>1, <3>4, <3>5, RunHistory
      <3>7. m \in Table(S, "run") /\ m.run = row.run
        BY DEF RunRevisions
      <3>8. <<"run", row.run, 1>> \in KeysOf(S)
        BY <3>6, <3>7, KeysAreThere
      <3> QED BY <3>1, <3>3, <3>8
    <2>3. CASE row.table \notin {"offer", "confirmation"}
      BY <2>3 DEF OpeningReferences
    <2> QED BY <2>1, <2>2, <2>3
  <1> HIDE DEF S
  <1>10. ForeignKeys(row) \subseteq KeysOf(S)
    BY <1>4, <1>5, <1>6, <1>7, <1>8, <1>9 DEF ForeignKeys
  <1> QED BY <1>10 DEF S

\* An opening of a whole store pends or has a run.
LEMMA OpeningsPassChecks ==
  ASSUME NEW D, RowsWhole(D), NEW offer \in Table(D.rows, "offer")
  PROVE  OpeningCheck(D.rows, offer)
  <1> DEFINE S == D.rows
             confirmed == Confirmations(S, offer.offer)
  <1>1. OneHolder(S) /\ IsFiniteSet(S) /\ HoldersAreUnique(S) /\ ValidOpening(S, offer)
    BY DEF RowsWhole, FamiliesAreWhole, RecordsAreWhole, OpeningsAreWhole
  <1>2. Cardinality(confirmed) <= 1
    <2>1. \A a, b \in confirmed : a = b
      BY <1>1, OnlyRows DEF Confirmations
    <2>2. CASE confirmed = {}
      BY <2>2, FS_EmptySet
    <2>3. CASE confirmed # {}
      <3>1. PICK a : confirmed = {a}
        BY <2>1, <2>3
      <3>2. Cardinality({a}) = 1
        BY FS_Singleton
      <3> QED BY <3>1, <3>2
    <2> QED BY <2>2, <2>3
  <1>3. ASSUME confirmed = {}, NEW other \in Offers(S, offer.char),
               Confirmations(S, other.offer) = {}
        PROVE  other = offer
    <2>1. offer.char \in {row.char : row \in Table(S, "revision")}
      BY <1>1 DEF ValidOpening, Revisions
    <2>2. offer \in Offers(S, offer.char)
      BY DEF Offers
    <2>3. other.offer = offer.offer
      BY <1>1, <1>3, <2>1, <2>2 DEF HoldersAreUnique
    <2>4. other \in Table(S, "offer")
      BY DEF Offers
    <2> QED BY <1>1, <2>3, <2>4, OnlyRows
  <1> QED BY <1>2, <1>3 DEF OpeningCheck

\* The families, the keys and what hangs on each other make the whole schema hold.
LEMMA WholeSchema ==
  ASSUME NEW D, RowsWhole(D), DOMAIN D.snap \subseteq DOMAIN D.sess, JobsCheck(D)
  PROVE  SchemaHolds(D)
  <1>1. KeysAreUnique(D.rows)
    BY UniqueHolders DEF RowsWhole
  <1>2. UNION {ForeignKeys(row) : row \in D.rows} \subseteq KeysOf(D.rows)
    BY ReferencesHold
  <1>3. \A row \in D.rows : RowCheck(row)
    BY RowsPassChecks
  <1>4. \A offer \in Table(D.rows, "offer") : OpeningCheck(D.rows, offer)
    BY OpeningsPassChecks
  <1>5. \A r \in DOMAIN D.position : PositionCheck(D, r)
    BY NativeKeys DEF RowsWhole
  <1> QED BY <1>1, <1>2, <1>3, <1>4, <1>5 DEF SchemaHolds

-----------------------------------------------------------------------------
(* A whole store                                                            *)

\* The events, the kept responses and the committed jobs of a session.
EventsOf(S, s) == {row \in Table(S, "event") : row.session = s}
TurnsOf(S, s) == {row \in Table(S, "turn") : row.session = s}
CommittedOf(D, s) == {j \in D.jobs : j.session = s /\ j.status = "COMMITTED"}
\* The states of a job that is not done.
Underway == {"PREPARED", "IN_PROGRESS", "PROPOSAL_VALIDATED"}

\* What the maps say of one session agrees; a job is under way only while its story is open.
SessionOk(D, s) ==
    /\ D.sess[s] \in Nat /\ D.snap[s].version = D.sess[s]
    /\ {row.seq : row \in EventsOf(D.rows, s)} = 1..D.sess[s] + 1
    /\ Cardinality(TurnsOf(D.rows, s)) >= D.sess[s]
    /\ D.progress[s] = IF Outside(D, s) THEN Cardinality(CommittedOf(D, s)) ELSE 0
    /\ \A j \in ActiveJobs(D, s) :
          ActiveJobs(D, s) = {j} /\ j.version = D.sess[s] /\ D.snap[s].ending = "open"

\* A job has these columns.
IsJob(j) == DOMAIN j = {"session", "key", "status", "version", "lease"}

\* The maps that are kept by session agree.
MapsWhole(D) ==
    /\ DOMAIN D.snap = DOMAIN D.sess /\ DOMAIN D.progress = DOMAIN D.sess
    /\ \A j \in D.jobs : IsJob(j)
    /\ IsFiniteSet(D.jobs) /\ JobsCheck(D)
    /\ \A s \in DOMAIN D.sess : SessionOk(D, s)

\* Rows and maps.
StoreWhole(D) == RowsWhole(D) /\ MapsWhole(D)

-----------------------------------------------------------------------------
(* What is staged                                                           *)

\* The rows: they hang in the store or on each other, and open sessions of their own.
RowsFit(D, st) ==
    /\ IsFiniteSet(st.rows)
    /\ HangsIn(st.rows, D.rows \cup st.rows)
    /\ ~Taken(D, st.rows) => OneHolder(st.rows)
    /\ DOMAIN st.opened = Opens(st.rows)
    /\ \A s \in DOMAIN st.opened : st.opened[s].version = 0
    /\ \A row \in Table(st.rows, "participation") : row.session \in DOMAIN st.opened
    /\ DOMAIN st.moved \subseteq NativeRuns(D)

\* The events: the first of each session that is opened, the next of one that is saved.
EventsFit(st) ==
    /\ \A row \in Table(st.rows, "event") :
          \/ row.session \in DOMAIN st.opened /\ row.seq = 1
          \/ row.session \in DOMAIN st.saved /\ row.seq = st.saved[row.session].version + 1
    /\ \A s \in DOMAIN st.opened : Event(s, 1) \in st.rows
    /\ \A s \in DOMAIN st.saved : Event(s, st.saved[s].version + 1) \in st.rows

\* A job under way and what replaces it.
Replaces(change) ==
    /\ change.old.status \in Underway
    /\ change.new.session = change.old.session /\ change.new.key = change.old.key
    /\ change.new.version = change.old.version

\* A change that does not commit a job.
Moves(change) == Replaces(change) /\ change.new.status # "COMMITTED"

\* A job that is new to an idle session that is locked.
Prepares(D, change, held) ==
    LET s == change.new.session IN
    /\ change.old = NoJob /\ change.new.status = "PREPARED"
    /\ s \in DOMAIN D.sess /\ SessionLock(s) \in held
    /\ ActiveJobs(D, s) = {} /\ change.new.version = D.sess[s] /\ D.snap[s].ending = "open"

\* A turn of a session that is locked: of its own, or the end of the session's job.
Plays(D, st, s, held) ==
    /\ DOMAIN st.saved = {s} /\ s \in DOMAIN D.sess /\ SessionLock(s) \in held
    /\ st.saved[s].version \in Nat
    /\ \E row \in Table(st.rows, "turn") : row.session = s
    /\ \A z \in DOMAIN st.progress : st.progress[z] \in Nat
    /\ \/ st.jobs = {} /\ DOMAIN st.progress = {} /\ ActiveJobs(D, s) = {}
       \/ \E change \in st.jobs :
             /\ st.jobs = {change} /\ Replaces(change) /\ change.new.status = "COMMITTED"
             /\ change.old.session = s
             /\ DOMAIN st.progress = IF Outside(D, s) THEN {s} ELSE {}

\* A unit of work that plays no turn may change one job.
JobsStaged(D, st, held) ==
    /\ DOMAIN st.saved = {} /\ DOMAIN st.progress = {}
    /\ \/ st.jobs = {}
       \/ \E change \in st.jobs :
             st.jobs = {change} /\ (Moves(change) \/ Prepares(D, change, held))

\* What a unit of work that holds these locks may stage.
UnitFits(D, st, held) ==
    /\ RowsFit(D, st) /\ EventsFit(st)
    /\ \A change \in st.jobs : IsJob(change.new)
    /\ JobsStaged(D, st, held) \/ \E s \in DOMAIN st.saved : Plays(D, st, s, held)

-----------------------------------------------------------------------------
(* Publishing                                                               *)

\* The maps that publishing makes.
LEMMA Merged ==
  ASSUME NEW D, NEW st
  PROVE  LET E == Merge(D, st) IN
         /\ E.rows = D.rows \cup st.rows
         /\ DOMAIN E.sess = DOMAIN st.saved \cup DOMAIN st.opened \cup DOMAIN D.sess
         /\ \A s \in DOMAIN st.saved : E.sess[s] = st.saved[s].version
         /\ \A s \in DOMAIN st.opened \ DOMAIN st.saved : E.sess[s] = 0
         /\ \A s \in DOMAIN D.sess \ (DOMAIN st.saved \cup DOMAIN st.opened) : E.sess[s] = D.sess[s]
         /\ DOMAIN E.snap = DOMAIN st.saved \cup DOMAIN st.opened \cup DOMAIN D.snap
         /\ \A s \in DOMAIN st.saved : E.snap[s] = st.saved[s]
         /\ \A s \in DOMAIN st.opened \ DOMAIN st.saved : E.snap[s] = st.opened[s]
         /\ \A s \in DOMAIN D.snap \ (DOMAIN st.saved \cup DOMAIN st.opened) : E.snap[s] = D.snap[s]
         /\ DOMAIN E.position = DOMAIN st.moved \cup DOMAIN D.position
         /\ E.jobs = (D.jobs \ {change.old : change \in st.jobs}) \cup {change.new : change \in st.jobs}
         /\ DOMAIN E.progress = DOMAIN st.progress \cup DOMAIN st.opened \cup DOMAIN D.progress
         /\ \A s \in DOMAIN st.progress : E.progress[s] = st.progress[s]
         /\ \A s \in DOMAIN st.opened \ DOMAIN st.progress : E.progress[s] = 0
         /\ \A s \in DOMAIN D.progress \ (DOMAIN st.progress \cup DOMAIN st.opened) :
               E.progress[s] = D.progress[s]
  <1> DEFINE unplayed == [s \in DOMAIN st.opened |-> 0]
             raised == [s \in DOMAIN st.saved |-> st.saved[s].version]
             E == Merge(D, st)
  <1>1. /\ E.rows = D.rows \cup st.rows
        /\ E.sess = Over(raised, Over(unplayed, D.sess))
        /\ E.snap = Over(st.saved, Over(st.opened, D.snap))
        /\ E.position = Over(st.moved, D.position)
        /\ E.jobs = (D.jobs \ {change.old : change \in st.jobs}) \cup {change.new : change \in st.jobs}
        /\ E.progress = Over(st.progress, Over(unplayed, D.progress))
    BY DEF Merge
  <1>2. /\ DOMAIN unplayed = DOMAIN st.opened /\ \A s \in DOMAIN st.opened : unplayed[s] = 0
        /\ DOMAIN raised = DOMAIN st.saved /\ \A s \in DOMAIN st.saved : raised[s] = st.saved[s].version
    OBVIOUS
  <1> HIDE DEF unplayed, raised, E
  <1>3. /\ DOMAIN E.sess = DOMAIN st.saved \cup DOMAIN st.opened \cup DOMAIN D.sess
        /\ \A s \in DOMAIN st.saved : E.sess[s] = st.saved[s].version
        /\ \A s \in DOMAIN st.opened \ DOMAIN st.saved : E.sess[s] = 0
        /\ \A s \in DOMAIN D.sess \ (DOMAIN st.saved \cup DOMAIN st.opened) : E.sess[s] = D.sess[s]
    BY <1>1, <1>2 DEF Over
  <1>4. /\ DOMAIN E.snap = DOMAIN st.saved \cup DOMAIN st.opened \cup DOMAIN D.snap
        /\ \A s \in DOMAIN st.saved : E.snap[s] = st.saved[s]
        /\ \A s \in DOMAIN st.opened \ DOMAIN st.saved : E.snap[s] = st.opened[s]
        /\ \A s \in DOMAIN D.snap \ (DOMAIN st.saved \cup DOMAIN st.opened) : E.snap[s] = D.snap[s]
    BY <1>1, <1>2 DEF Over
  <1>5. /\ DOMAIN E.progress = DOMAIN st.progress \cup DOMAIN st.opened \cup DOMAIN D.progress
        /\ \A s \in DOMAIN st.progress : E.progress[s] = st.progress[s]
        /\ \A s \in DOMAIN st.opened \ DOMAIN st.progress : E.progress[s] = 0
        /\ \A s \in DOMAIN D.progress \ (DOMAIN st.progress \cup DOMAIN st.opened) :
              E.progress[s] = D.progress[s]
    BY <1>1, <1>2 DEF Over
  <1>6. DOMAIN E.position = DOMAIN st.moved \cup DOMAIN D.position
    BY <1>1 DEF Over
  <1> QED BY <1>1, <1>3, <1>4, <1>5, <1>6 DEF E

\* What a publication that is not refused has looked at.
LEMMA Unopposed ==
  ASSUME NEW D, NEW st, Objection(D, st) = "none"
  PROVE  /\ UpdateFits(D, st) /\ JobsFit(D, st) /\ ProgressFits(D, st)
         /\ ~Taken(D, st.rows) /\ FamiliesAreWhole(Merge(D, st))
  BY NothingTaken DEF Objection, FamiliesAreWhole

\* Two rows of one table with the same key, one published and one staged.
LEMMA NotTaken ==
  ASSUME NEW D, NEW R, ~Taken(D, R), NEW a \in R, NEW b \in D.rows
  PROVE  StoreKeys(a) \cap StoreKeys(b) = {}
  <1>1. \A key \in StoreKeys(a) : key \in KeysOf(R)
    BY DEF KeysOf
  <1>2. \A key \in StoreKeys(b) : key \in KeysOf(D.rows)
    BY DEF KeysOf
  <1> QED BY <1>1, <1>2 DEF Taken

\* No session is opened twice, and a turn that is staged is not yet kept.
LEMMA NewRows ==
  ASSUME NEW D, RowsWhole(D), NEW st, RowsFit(D, st), ~Taken(D, st.rows)
  PROVE  /\ DOMAIN st.opened \cap DOMAIN D.sess = {}
         /\ Opens(st.rows) \cap DOMAIN D.sess = {}
         /\ \A row \in Table(st.rows, "turn") : row \notin D.rows
  <1>1. ASSUME NEW a \in Table(st.rows, "session"), NEW b \in Table(D.rows, "session"),
               a.session = b.session
        PROVE  FALSE
    <2>1. a \in st.rows /\ b \in D.rows /\ a.table = "session" /\ b.table = "session"
      BY DEF Table
    <2>2. <<"session", a.session>> \in StoreKeys(a)
      BY <2>1, OwnKeys
    <2>3. <<"session", b.session>> \in StoreKeys(b)
      BY <2>1, OwnKeys
    <2> QED BY <1>1, <2>1, <2>2, <2>3, NotTaken
  <1>2. Opens(st.rows) \cap DOMAIN D.sess = {}
    BY <1>1 DEF RowsWhole, Opens
  <1>3. ASSUME NEW row \in Table(st.rows, "turn"), row \in D.rows PROVE FALSE
    <2>1. row \in st.rows /\ row.table = "turn"
      BY DEF Table
    <2>2. <<"turn", row.session, row.key>> \in StoreKeys(row)
      BY <2>1, OwnKeys
    <2> QED BY <1>3, <2>1, <2>2, NotTaken
  <1>4. DOMAIN st.opened = Opens(st.rows)
    BY DEF RowsFit
  <1> QED BY <1>2, <1>3, <1>4

-----------------------------------------------------------------------------
(* Where an open story is played                                            *)

\* The sessions a native run has left show the ending it left by, and the last one of a run
\* that is over shows one too.
LEMMA NativeEndings ==
  ASSUME NEW D, NEW r, Classify(D, r) # "broken", Joined(D.rows, r) \in 1..3
  PROVE  /\ Joined(D.rows, r) \in 2..3 => D.snap[JoinedAt(D.rows, r, 3)].ending = "onward"
         /\ Joined(D.rows, r) = 3 => D.snap[JoinedAt(D.rows, r, 4)].ending = "onward"
         /\ Run(D.rows, r).status \notin ActiveLine => D.snap[Current(D.rows, r)].ending # "open"
  <1> DEFINE visits == Joined(D.rows, r)
             fog == AdmittedWorld(D.rows, r) = "fog_station"
             over == Run(D.rows, r).status \notin ActiveLine
  <1>1. CASE visits = 1
    <2>1. over => EndingStands(D, r)
      BY <1>1 DEF Classify, Joined
    <2> QED BY <1>1, <2>1 DEF EndingStands
  <1>2. CASE visits = 2 /\ fog
    <2>1. FogStands(D, r) /\ (over => EndingStands(D, r))
      BY <1>2 DEF Classify, Joined
    <2>2. D.snap[JoinedAt(D.rows, r, 3)].ending = "onward"
      BY <2>1 DEF FogStands, SourceStands
    <2> QED BY <1>2, <2>1, <2>2 DEF EndingStands
  <1>3. CASE visits = 2 /\ ~fog
    <2>1. ContinuedStands(D, r) /\ (over => EndingStands(D, r))
      BY <1>3 DEF Classify, Joined
    <2>2. D.snap[JoinedAt(D.rows, r, 3)].ending = "onward"
      BY <2>1 DEF ContinuedStands, SourceStands
    <2> QED BY <1>3, <2>1, <2>2 DEF EndingStands
  <1>4. CASE visits = 3
    <2>1. RegionalStands(D, r) /\ (over => EndingStands(D, r) \/ CompletionStands(D, r))
      BY <1>4 DEF Classify, Joined
    <2>2. ContinuedStands(D, r) /\ D.snap[JoinedAt(D.rows, r, 4)].ending = "onward"
      BY <2>1 DEF RegionalStands, SourceStands
    <2>3. D.snap[JoinedAt(D.rows, r, 3)].ending = "onward"
      BY <2>2 DEF ContinuedStands, SourceStands
    <2>4. over => D.snap[Current(D.rows, r)].ending # "open"
      BY <2>1 DEF EndingStands, CompletionStands
    <2> QED BY <2>2, <2>3, <2>4
  <1> QED BY <1>1, <1>2, <1>3, <1>4

\* The session a run had joined at a version, and the last one.
LEMMA JoinedSessions ==
  ASSUME NEW S, OneHolder(S), NEW r, NEW p \in Participations(S, r)
  PROVE  /\ JoinedAt(S, r, p.version) = p.session
         /\ \A n \in Int : {o.version : o \in Participations(S, r)} \subseteq 3..n /\ p.version = n =>
               Current(S, r) = p.session
  <1>1. ASSUME NEW n, p.version = n PROVE JoinedAt(S, r, n) = p.session
    <2> DEFINE o == CHOOSE row \in Participations(S, r) : row.version = n
    <2>1. o \in Participations(S, r) /\ o.version = n
      BY <1>1
    <2>2. JoinedAt(S, r, n) = o.session
      BY DEF JoinedAt
    <2> HIDE DEF o
    <2>3. o = p
      BY <1>1, <2>1, OnlyRows DEF Participations
    <2> QED BY <2>2, <2>3
  <1>2. ASSUME NEW n \in Int, {o.version : o \in Participations(S, r)} \subseteq 3..n, p.version = n
        PROVE  Current(S, r) = p.session
    <2> DEFINE V == {row.version : row \in Participations(S, r)}
    <2>1. n \in V /\ \A v \in V : v \in 3..n
      BY <1>2
    <2> HIDE DEF V
    <2>2. Max(V) \in V /\ \A v \in V : Max(V) >= v
      <3>1. \E m \in V : \A v \in V : m >= v
        BY <2>1
      <3> QED BY ONLY <3>1, Zenon DEF Max
    <2>3. Max(V) = n
      <3>1. Max(V) \in 3..n /\ Max(V) >= n
        BY <2>1, <2>2
      <3> QED BY <3>1
    <2>4. Current(S, r) = JoinedAt(S, r, n)
      BY <2>3 DEF Current, V
    <2> QED BY <1>1, <1>2, <2>4
  <1> QED BY <1>1, <1>2

\* A story that is open is where its run is, and the run is active.
LEMMA OpenPlays ==
  ASSUME NEW D, RowsWhole(D), NEW s, D.snap[s].ending = "open"
  PROVE  Playing(D, s)
  <1> SUFFICES ASSUME NEW r \in RunOf(D, s)
               PROVE  Run(D.rows, r).status = "ACTIVE" /\ Current(D.rows, r) = s
    BY DEF Playing
  <1> DEFINE S == D.rows
  <1>1. PICK p \in Participations(S, r) : p.session = s
    BY DEF RunOf, Participations
  <1>2. /\ IsFiniteSet(S) /\ HangsIn(S, S) /\ OneHolder(S)
        /\ RunRevisions(S, r) # {} /\ ValidRun(S, r)
    <2>1. p \in S /\ p.table = "participation" /\ p.run = r
      BY DEF Participations, Table
    <2>2. p.table \in NamesRun
      BY <2>1 DEF NamesRun
    <2>3. RunRevisions(S, r) # {} /\ ValidRun(S, r)
      BY <2>1, <2>2, WholeFamilies
    <2> QED BY <2>3 DEF RowsWhole
  <1>3. Run(S, r) \in RunRevisions(S, r) /\ Run(S, r).version \in Nat /\ Run(S, r).version >= 3
    <2>1. PICK row \in RunRevisions(S, r) : TRUE
      BY <1>2
    <2>2. row \in Table(S, "run") /\ row.run = r
      BY DEF RunRevisions
    <2>3. \E x : Bound(S, r, x)
      BY <2>2 DEF RowsWhole, RowsHang
    <2> QED BY <2>3, BoundRun
  <1>4. Run(S, r).status \in {"ACTIVE", "TERMINATED", "COMPLETED"}
    BY <1>2, <1>3 DEF HangsIn, RunRevisions
  <1>5. CASE r \in NativeRuns(D)
    <2>1. PICK k \in 1..3 :
            /\ {o.version : o \in Participations(S, r)} = 3..k + 2
            /\ Joined(S, r) = k
            /\ Classify(D, r) # "broken"
      BY <1>5, NativeJoins DEF Joined
    <2>2. p.version \in 3..k + 2 /\ JoinedAt(S, r, p.version) = s
      BY <1>1, <1>2, <2>1, JoinedSessions
    <2>3. /\ k \in 2..3 => D.snap[JoinedAt(S, r, 3)].ending = "onward"
          /\ k = 3 => D.snap[JoinedAt(S, r, 4)].ending = "onward"
          /\ Run(S, r).status \notin ActiveLine => D.snap[Current(S, r)].ending # "open"
      BY <2>1, NativeEndings
    <2>4. p.version = k + 2
      BY <2>2, <2>3
    <2>5. Current(S, r) = s
      <3>1. k + 2 \in Int
        OBVIOUS
      <3> QED BY <1>1, <1>2, <2>1, <2>4, <3>1, JoinedSessions
    <2>6. Run(S, r).status \in ActiveLine
      BY <2>3, <2>5
    <2> QED BY <1>4, <2>5, <2>6 DEF ActiveLine
  <1>6. CASE r \notin NativeRuns(D)
    <2>1. ~\E row \in Table(S, "admission") : row.run = r
      BY <1>6 DEF NativeRuns
    <2>2. Run(S, r).kind \notin {"EXIT", "CONTINUE", "REVISIT", "COMPLETE"}
      BY <1>2, <2>1 DEF ValidRun
    <2>3. HistoryIsWhole(S, r) /\ LawfulRun(S, Run(S, r))
      BY <1>2, <1>3 DEF ValidRun, HistoryIsWhole, RunFamily
    <2>4. LawfulShape(Run(S, r), Joins(S, Run(S, r)))
      BY <2>3, LawOfRow
    <2>5. Run(S, r).status = "ACTIVE" /\ Run(S, r).version = 3
      BY <1>4, <2>2, <2>4 DEF LawfulShape
    <2>6. PICK n \in Nat : /\ Run(S, r).version = n
                           /\ \A row \in RunRevisions(S, r) : row.version \in 1..n
      BY <1>2, <2>3, RunHistory
    <2>7. ASSUME NEW o \in Participations(S, r) PROVE o.version \in Int /\ o.version <= 3 /\ o.version >= 2
      BY <2>3, <2>5, <2>6, JoinedLater
    <2>8. Joins(S, Run(S, r)) = 3..3
      BY <1>4, <2>2, <2>4, <2>5 DEF LawfulShape
    <2>9. ASSUME NEW o \in Participations(S, r) PROVE o.version = 3
      <3>1. o \in Participations(S, Run(S, r).run) /\ o.version <= Run(S, r).version
        BY <1>3, <2>5, <2>7 DEF RunRevisions
      <3>2. o.version \in Joins(S, Run(S, r))
        BY <3>1 DEF Joins
      <3> QED BY <2>8, <3>2
    <2>10. {o.version : o \in Participations(S, r)} \subseteq 3..3
      BY <2>9
    <2>11. Current(S, r) = s
      BY <1>1, <1>2, <2>9, <2>10, JoinedSessions
    <2> QED BY <2>5, <2>11
  <1> QED BY <1>5, <1>6

\* What the store says of one session when its maps are whole.
LEMMA WholeStoreAgrees ==
  ASSUME StoreWhole(store)
  PROVE  StoreIsWhole
  <1>1. Opens(store.rows) = DOMAIN store.sess
    BY DEF StoreWhole, RowsWhole
  <1>2. SchemaHolds(store)
    BY WholeSchema DEF StoreWhole, MapsWhole
  <1>3. ASSUME NEW s \in DOMAIN store.sess PROVE SessionAgrees(s)
    <2>1. SessionOk(store, s)
      BY DEF StoreWhole, MapsWhole
    <2> DEFINE events == {row.seq : row \in {e \in Table(store.rows, "event") : e.session = s}}
    <2>2. events = 1..store.sess[s] + 1
      BY <2>1 DEF SessionOk, EventsOf
    <2>3. store.sess[s] \in Nat /\ store.snap[s].version = store.sess[s]
      BY <2>1 DEF SessionOk
    <2>4. Cardinality(events) = store.sess[s] + 1
      <3>1. Cardinality(1..store.sess[s] + 1) = store.sess[s] + 1
        BY <2>3, FS_Interval
      <3> QED BY <2>2, <3>1
    <2>5. NumberedFromOne(events)
      BY <2>2, <2>4 DEF NumberedFromOne
    <2>6. Cardinality({row \in Table(store.rows, "turn") : row.session = s}) >= store.sess[s]
      BY <2>1 DEF SessionOk, TurnsOf
    <2>7. store.progress[s] =
             IF Outside(store, s) THEN Cardinality({j \in store.jobs : j.session = s /\ j.status = "COMMITTED"}) ELSE 0
      BY <2>1 DEF SessionOk, CommittedOf
    <2>8. ASSUME NEW j \in ActiveJobs(store, s)
          PROVE  ActiveJobs(store, s) = {j} /\ j.version = store.sess[s] /\ Playing(store, s)
      <3>1. ActiveJobs(store, s) = {j} /\ j.version = store.sess[s] /\ store.snap[s].ending = "open"
        BY <2>1 DEF SessionOk
      <3> QED BY <3>1, OpenPlays DEF StoreWhole
    <2> HIDE DEF events
    <2> QED BY <2>3, <2>4, <2>5, <2>6, <2>7, <2>8 DEF SessionAgrees, events
  <1> QED BY <1>1, <1>2, <1>3 DEF StoreIsWhole, StoreWhole, MapsWhole, Opens

-----------------------------------------------------------------------------
(* Publishing keeps the store whole                                         *)

\* What hangs in some rows hangs in more of them, and so do two sets of rows together.
LEMMA HangsOn ==
  ASSUME NEW R, NEW S, NEW T, HangsIn(R, S), S \subseteq T
  PROVE  HangsIn(R, T)
  <1>1. \A t : Table(S, t) \subseteq Table(T, t)
    BY DEF Table
  <1>2. \A x : Revisions(S, x) \subseteq Revisions(T, x)
    BY <1>1 DEF Revisions
  <1>3. \A r : RunRevisions(S, r) \subseteq RunRevisions(T, r)
    BY <1>1 DEF RunRevisions
  <1>4. \A row \in R : row.table \in {"turn", "event"} =>
          \E p \in Table(T, "session") : p.session = row.session
    BY <1>1 DEF HangsIn
  <1>5. \A row \in Table(R, "revision") : \E b \in Table(T, "binding") : b.who = row.who
    BY <1>1 DEF HangsIn
  <1>6. \A row \in R : row.table \in {"creation_receipt", "mutation_receipt"} =>
          Revisions(T, row.char) # {}
    BY <1>2 DEF HangsIn
  <1>7. \A row \in Table(R, "run") : row.char # None =>
          \E m \in Revisions(T, row.char) : m.rev = row.rev
    BY <1>2 DEF HangsIn
  <1>8. \A row \in Table(R, "run_receipt") : RunRevisions(T, row.run) # {}
    BY <1>3 DEF HangsIn
  <1>9. \A row \in R : row.table \in WorldTables =>
          \E a \in Table(T, "admission") : a.run = row.run
    BY <1>1 DEF HangsIn
  <1>10. \A row \in Table(R, "confirmation") : \E o \in Table(T, "offer") : o.offer = row.offer
    BY <1>1 DEF HangsIn
  <1> QED BY <1>4, <1>5, <1>6, <1>7, <1>8, <1>9, <1>10 DEF HangsIn

\* Rows that hang in a set may be put together.
LEMMA HangTogether ==
  ASSUME NEW A, NEW B, NEW S, HangsIn(A, S), HangsIn(B, S)
  PROVE  HangsIn(A \cup B, S)
  <1>1. \A t : Table(A \cup B, t) = Table(A, t) \cup Table(B, t)
    BY DEF Table
  <1>2. ASSUME NEW row \in A \cup B
        PROVE  /\ row.table \in {"turn", "event"} =>
                    \E p \in Table(S, "session") : p.session = row.session
               /\ row.table \in {"creation_receipt", "mutation_receipt"} =>
                    Revisions(S, row.char) # {}
               /\ row.table \in WorldTables => \E a \in Table(S, "admission") : a.run = row.run
    <2>1. CASE row \in A
      BY <2>1 DEF HangsIn
    <2>2. CASE row \in B
      BY <2>2 DEF HangsIn
    <2> QED BY <2>1, <2>2
  <1>3. \A row \in Table(A \cup B, "revision") : \E b \in Table(S, "binding") : b.who = row.who
    BY <1>1 DEF HangsIn
  <1>4. /\ \A row \in Table(A \cup B, "run") : row.char # None =>
              \E m \in Revisions(S, row.char) : m.rev = row.rev
        /\ \A row \in Table(A \cup B, "run") : row.version >= 3 =>
              row.status \in {"ACTIVE", "TERMINATED", "COMPLETED"}
    BY <1>1 DEF HangsIn
  <1>5. \A row \in Table(A \cup B, "run_receipt") : RunRevisions(S, row.run) # {}
    BY <1>1 DEF HangsIn
  <1>6. /\ \A row \in Table(A \cup B, "confirmation") : \E o \in Table(S, "offer") : o.offer = row.offer
        /\ \A row \in Table(A \cup B, "offer") : row.ordinal \in Nat /\ row.ordinal >= 1
    BY <1>1 DEF HangsIn
  <1> QED BY <1>2, <1>3, <1>4, <1>5, <1>6 DEF HangsIn

\* The rows stay whole, and every session has its row.
LEMMA PublishedRows ==
  ASSUME NEW D, NEW st, NEW held, RowsWhole(D), RowsFit(D, st),
         StagedFits(D.rows, st.rows, held), Objection(D, st) = "none"
  PROVE  RowsWhole(Merge(D, st))
  <1> DEFINE E == Merge(D, st)
  <1>1. E.rows = D.rows \cup st.rows
    BY Merged
  <1>2. /\ UpdateFits(D, st) /\ ~Taken(D, st.rows) /\ FamiliesAreWhole(E)
    BY Unopposed
  <1>3. IsFiniteSet(E.rows)
    BY <1>1, FS_Union DEF RowsWhole, RowsFit
  <1>4. RowsHang(E.rows)
    BY PublishingFits DEF RowsWhole
  <1>5. HangsIn(E.rows, E.rows)
    <2>1. HangsIn(D.rows, E.rows)
      BY <1>1, HangsOn DEF RowsWhole
    <2>2. HangsIn(st.rows, E.rows)
      BY <1>1 DEF RowsFit
    <2> HIDE DEF E
    <2> QED BY <1>1, <2>1, <2>2, HangTogether
  <1>6. OneHolder(E.rows)
    BY <1>1, <1>2, HoldersTogether DEF RowsWhole, RowsFit
  <1>7. Opens(E.rows) = DOMAIN E.sess
    <2>1. Opens(E.rows) = Opens(D.rows) \cup Opens(st.rows)
      BY <1>1 DEF Opens, Table
    <2>2. DOMAIN E.sess = DOMAIN st.saved \cup DOMAIN st.opened \cup DOMAIN D.sess
      BY Merged
    <2>3. DOMAIN st.saved \subseteq DOMAIN D.sess
      BY <1>2 DEF UpdateFits
    <2> HIDE DEF E
    <2> QED BY <2>1, <2>2, <2>3 DEF RowsWhole, RowsFit
  <1>8. DOMAIN E.position \subseteq NativeRuns(E)
    <2>1. NativeRuns(D) \subseteq NativeRuns(E)
      BY <1>1 DEF NativeRuns, Table
    <2>2. DOMAIN E.position = DOMAIN st.moved \cup DOMAIN D.position
      BY Merged
    <2> HIDE DEF E
    <2> QED BY <2>1, <2>2 DEF RowsWhole, RowsFit
  <1> HIDE DEF E
  <1>9. FamiliesAreWhole(E)
    BY <1>2
  <1> QED BY <1>3, <1>4, <1>5, <1>6, <1>7, <1>8, <1>9 DEF RowsWhole, E

-----------------------------------------------------------------------------
(* The jobs after a publication                                             *)

\* Only one session's jobs differ.
SameElsewhere(D, E, z) ==
    \A s : s # z => ActiveJobs(E, s) = ActiveJobs(D, s) /\ CommittedOf(E, s) = CommittedOf(D, s)

\* A job that is replaced stays its session's only one until it is committed.
LEMMA JobReplaced ==
  ASSUME NEW D, NEW E, NEW change, IsFiniteSet(D.jobs), JobsCheck(D), Replaces(change),
         change.old \in D.jobs, ActiveJobs(D, change.old.session) = {change.old},
         E.jobs = (D.jobs \ {change.old}) \cup {change.new}, DOMAIN D.sess \subseteq DOMAIN E.sess
  PROVE  /\ IsFiniteSet(E.jobs) /\ JobsCheck(E)
         /\ SameElsewhere(D, E, change.old.session)
         /\ ActiveJobs(E, change.old.session)
               = IF change.new.status \in Underway THEN {change.new} ELSE {}
         /\ CommittedOf(E, change.old.session)
               = CommittedOf(D, change.old.session)
                    \cup (IF change.new.status = "COMMITTED" THEN {change.new} ELSE {})
         /\ change.new \notin CommittedOf(D, change.old.session)
  <1> DEFINE old == change.old
             new == change.new
  <1>1. /\ old.status \in Underway
        /\ new.session = old.session /\ new.key = old.key /\ new.version = old.version
    BY DEF Replaces
  <1>2. \A j, other \in D.jobs : j.session = other.session /\ j.key = other.key => j = other
    BY DEF JobsCheck
  <1>3. \A s, j : j \in ActiveJobs(D, s) <=> j \in D.jobs /\ j.session = s /\ j.status \in Underway
    BY DEF ActiveJobs, Underway
  <1>4. \A s, j : j \in ActiveJobs(E, s) <=> j \in E.jobs /\ j.session = s /\ j.status \in Underway
    BY DEF ActiveJobs, Underway
  <1>5. /\ \A s, j : j \in CommittedOf(D, s) <=> j \in D.jobs /\ j.session = s /\ j.status = "COMMITTED"
        /\ \A s, j : j \in CommittedOf(E, s) <=> j \in E.jobs /\ j.session = s /\ j.status = "COMMITTED"
    BY DEF CommittedOf
  <1>6. old.status # "COMMITTED"
    BY <1>1 DEF Underway
  <1>7. \A j : j \in E.jobs <=> (j \in D.jobs /\ j # old) \/ j = new
    OBVIOUS
  <1>8. ASSUME NEW j \in D.jobs, j.session = old.session, j.key = old.key PROVE j = old
    BY <1>2, <1>8
  <1> HIDE DEF old, new
  <1>9. IsFiniteSet(E.jobs)
    <2>1. IsFiniteSet(D.jobs \ {old})
      BY FS_Difference
    <2>2. IsFiniteSet({new})
      BY FS_Singleton
    <2>3. IsFiniteSet((D.jobs \ {old}) \cup {new})
      BY <2>1, <2>2, FS_Union
    <2>4. E.jobs = (D.jobs \ {old}) \cup {new}
      BY DEF old, new
    <2> QED BY <2>3, <2>4
  <1>10. JobsCheck(E)
    <2>1. \A j \in D.jobs : j.session \in DOMAIN D.sess
      BY DEF JobsCheck
    <2>2. old \in D.jobs
      BY DEF old
    <2>3. \A j \in E.jobs : j.session \in DOMAIN E.sess
      BY <1>1, <1>7, <2>1, <2>2
    <2>4. \A j, other \in E.jobs : j.session = other.session /\ j.key = other.key => j = other
      BY <1>1, <1>2, <1>7, <1>8
    <2>5. \A j, other \in E.jobs : <<j.session, j.key>> = <<other.session, other.key>> => j = other
      BY <2>4
    <2> QED BY <2>3, <2>5 DEF JobsCheck
  <1>11. ASSUME NEW s, s # old.session
         PROVE  ActiveJobs(E, s) = ActiveJobs(D, s) /\ CommittedOf(E, s) = CommittedOf(D, s)
    <2>1. \A j : j \in ActiveJobs(E, s) <=> j \in ActiveJobs(D, s)
      BY <1>1, <1>3, <1>4, <1>7, <1>11
    <2>2. \A j : j \in CommittedOf(E, s) <=> j \in CommittedOf(D, s)
      BY <1>1, <1>5, <1>7, <1>11
    <2> QED BY <2>1, <2>2
  <1>12. ActiveJobs(E, old.session) = IF new.status \in Underway THEN {new} ELSE {}
    <2>1. ActiveJobs(D, old.session) = {old}
      BY DEF old
    <2>2. ASSUME NEW j \in D.jobs, j # old, j.session = old.session, j.status \in Underway PROVE FALSE
      BY <1>3, <2>1, <2>2
    <2>3. \A j : j \in ActiveJobs(E, old.session) <=> j = new /\ new.status \in Underway
      BY <1>1, <1>4, <1>7, <2>2
    <2> QED BY <2>3
  <1>13. CommittedOf(E, old.session)
            = CommittedOf(D, old.session) \cup (IF new.status = "COMMITTED" THEN {new} ELSE {})
    <2>1. \A j : j \in CommittedOf(E, old.session)
                   <=> j \in CommittedOf(D, old.session) \/ (j = new /\ new.status = "COMMITTED")
      BY <1>1, <1>5, <1>6, <1>7
    <2> QED BY <2>1
  <1>14. new \notin CommittedOf(D, old.session)
    BY <1>1, <1>5, <1>6, <1>8
  <1>15. SameElsewhere(D, E, change.old.session)
    BY <1>11 DEF SameElsewhere, old
  <1> QED BY <1>9, <1>10, <1>12, <1>13, <1>14, <1>15 DEF old, new

\* A job that is new to its session is then its only one.
LEMMA JobAdded ==
  ASSUME NEW D, NEW E, NEW new, IsFiniteSet(D.jobs), JobsCheck(D),
         E.jobs = (D.jobs \ {NoJob}) \cup {new}, DOMAIN D.sess \subseteq DOMAIN E.sess,
         new.session \in DOMAIN D.sess, new.status = "PREPARED",
         ActiveJobs(D, new.session) = {},
         \A j \in D.jobs : j.session = new.session => j.key # new.key
  PROVE  /\ IsFiniteSet(E.jobs) /\ JobsCheck(E)
         /\ \A s : s # new.session => ActiveJobs(E, s) = ActiveJobs(D, s)
         /\ \A s : CommittedOf(E, s) = CommittedOf(D, s)
         /\ ActiveJobs(E, new.session) = {new}
  <1>1. \A s, j : j \in ActiveJobs(D, s) <=> j \in D.jobs /\ j.session = s /\ j.status \in Underway
    BY DEF ActiveJobs, Underway
  <1>2. \A s, j : j \in ActiveJobs(E, s) <=> j \in E.jobs /\ j.session = s /\ j.status \in Underway
    BY DEF ActiveJobs, Underway
  <1>3. NoJob.status \notin Underway /\ NoJob.status # "COMMITTED"
    BY DEF NoJob, Underway
  <1>4. \A j : j \in E.jobs <=> (j \in D.jobs /\ j # NoJob) \/ j = new
    OBVIOUS
  <1>5. new.status \in Underway
    BY DEF Underway
  <1>6. \A j, other \in D.jobs : j.session = other.session /\ j.key = other.key => j = other
    BY DEF JobsCheck
  <1>7. IsFiniteSet(E.jobs)
    <2>1. IsFiniteSet(D.jobs \ {NoJob}) /\ IsFiniteSet({new})
      BY FS_Difference, FS_Singleton
    <2>2. IsFiniteSet((D.jobs \ {NoJob}) \cup {new})
      BY <2>1, FS_Union
    <2> QED BY <2>2
  <1>8. JobsCheck(E)
    <2>1. \A j \in D.jobs : j.session \in DOMAIN D.sess
      BY DEF JobsCheck
    <2>2. \A j \in E.jobs : j.session \in DOMAIN E.sess
      BY <1>4, <2>1
    <2>3. \A j, other \in E.jobs : j.session = other.session /\ j.key = other.key => j = other
      BY <1>4, <1>6
    <2>4. \A j, other \in E.jobs : <<j.session, j.key>> = <<other.session, other.key>> => j = other
      BY <2>3
    <2> QED BY <2>2, <2>4 DEF JobsCheck
  <1>9. ASSUME NEW s, s # new.session PROVE ActiveJobs(E, s) = ActiveJobs(D, s)
    <2>1. \A j : j \in ActiveJobs(E, s) <=> j \in ActiveJobs(D, s)
      BY <1>1, <1>2, <1>3, <1>4, <1>9
    <2> QED BY <2>1
  <1>10. ASSUME NEW s PROVE CommittedOf(E, s) = CommittedOf(D, s)
    <2>1. \A j : j \in CommittedOf(E, s) <=> j \in CommittedOf(D, s)
      BY <1>3, <1>4, <1>5 DEF CommittedOf, Underway
    <2> QED BY <2>1
  <1>11. ActiveJobs(E, new.session) = {new}
    <2>1. \A j \in D.jobs : j.session = new.session => j.status \notin Underway
      BY <1>1
    <2>2. \A j : j \in ActiveJobs(E, new.session) <=> j = new
      BY <1>2, <1>4, <1>5, <2>1
    <2> QED BY <2>2
  <1> QED BY <1>7, <1>8, <1>9, <1>10, <1>11

-----------------------------------------------------------------------------
(* The sessions after a publication                                         *)

\* The numbers of a session's events.
Numbers(S, s) == {row.seq : row \in EventsOf(S, s)}

\* The events and the responses of a session that a unit of work adds.
LEMMA PublishedEvents ==
  ASSUME NEW D, NEW st, StoreWhole(D), RowsFit(D, st), EventsFit(st), UpdateFits(D, st),
         ~Taken(D, st.rows), NEW S, S = D.rows \cup st.rows
  PROVE  /\ \A s, n : n \in Numbers(S, s) <=>
               \/ n \in Numbers(D.rows, s)
               \/ s \in DOMAIN st.opened /\ n = 1
               \/ s \in DOMAIN st.saved /\ n = st.saved[s].version + 1
         /\ \A s \in DOMAIN st.opened : Numbers(D.rows, s) = {}
  <1>1. DOMAIN st.opened \cap DOMAIN D.sess = {}
    BY NewRows DEF StoreWhole
  <1>3. \A s, n : n \in Numbers(S, s) <=>
            n \in Numbers(D.rows, s) \/ \E row \in Table(st.rows, "event") : row.session = s /\ row.seq = n
    BY DEF Numbers, EventsOf, Table
  <1>4. ASSUME NEW row \in Table(D.rows, "event") PROVE row.session \in DOMAIN D.sess
    <2>1. \E p \in Table(D.rows, "session") : p.session = row.session
      BY DEF StoreWhole, RowsWhole, HangsIn, Table
    <2> QED BY <2>1 DEF StoreWhole, RowsWhole, Opens
  <1>5. ASSUME NEW row \in Table(st.rows, "event")
        PROVE  \/ row.session \in DOMAIN st.opened /\ row.seq = 1
               \/ row.session \in DOMAIN st.saved /\ row.seq = st.saved[row.session].version + 1
    BY DEF EventsFit
  <1>6. ASSUME NEW s, NEW n, Event(s, n) \in st.rows
        PROVE  \E row \in Table(st.rows, "event") : row.session = s /\ row.seq = n
    <2>1. Event(s, n) \in Table(st.rows, "event") /\ Event(s, n).session = s /\ Event(s, n).seq = n
      BY <1>6 DEF Event, Table
    <2> QED BY <2>1
  <1>7. /\ \A s \in DOMAIN st.opened : Event(s, 1) \in st.rows
        /\ \A s \in DOMAIN st.saved : Event(s, st.saved[s].version + 1) \in st.rows
    BY DEF EventsFit
  <1>8. ASSUME NEW s, NEW n
        PROVE  (\E row \in Table(st.rows, "event") : row.session = s /\ row.seq = n) <=>
                  \/ s \in DOMAIN st.opened /\ n = 1
                  \/ s \in DOMAIN st.saved /\ n = st.saved[s].version + 1
    BY <1>5, <1>6, <1>7
  <1>9. \A s \in DOMAIN st.opened : Numbers(D.rows, s) = {}
    BY <1>1, <1>4 DEF Numbers, EventsOf
  <1> QED BY <1>3, <1>8, <1>9

\* The numbers of a session's events stay without a gap.
LEMMA NextNumber ==
  ASSUME NEW d \in Nat, NEW v \in Nat, d = v - 1, NEW N, NEW M, M = 1..d + 1,
         \A n : n \in N <=> n \in M \/ n = v + 1
  PROVE  N = 1..v + 1
  <1>1. \A n : n \in 1..d + 1 \/ n = v + 1 <=> n \in 1..v + 1
    OBVIOUS
  <1> QED BY <1>1

\* A publication keeps the responses there are, and a turn adds one.
LEMMA PublishedTurns ==
  ASSUME NEW D, NEW st, StoreWhole(D), RowsFit(D, st), ~Taken(D, st.rows),
         NEW S, S = D.rows \cup st.rows, NEW s
  PROVE  /\ Cardinality(TurnsOf(S, s)) \in Nat /\ Cardinality(TurnsOf(D.rows, s)) \in Nat
         /\ Cardinality(TurnsOf(S, s)) >= Cardinality(TurnsOf(D.rows, s))
         /\ (\E row \in Table(st.rows, "turn") : row.session = s) =>
               Cardinality(TurnsOf(S, s)) >= Cardinality(TurnsOf(D.rows, s)) + 1
  <1>1. TurnsOf(D.rows, s) \subseteq TurnsOf(S, s) /\ TurnsOf(S, s) \subseteq S
    BY DEF TurnsOf, Table
  <1>2. IsFiniteSet(S)
    BY FS_Union DEF StoreWhole, RowsWhole, RowsFit
  <1>3. IsFiniteSet(TurnsOf(S, s)) /\ IsFiniteSet(TurnsOf(D.rows, s))
    BY <1>1, <1>2, FS_Subset
  <1>4. /\ Cardinality(TurnsOf(S, s)) \in Nat /\ Cardinality(TurnsOf(D.rows, s)) \in Nat
        /\ Cardinality(TurnsOf(D.rows, s)) <= Cardinality(TurnsOf(S, s))
    BY <1>1, <1>3, FS_Subset, FS_CardinalityType
  <1>5. ASSUME NEW row \in Table(st.rows, "turn"), row.session = s
        PROVE  Cardinality(TurnsOf(S, s)) >= Cardinality(TurnsOf(D.rows, s)) + 1
    <2>1. row \notin D.rows
      BY NewRows DEF StoreWhole
    <2>2. row \notin TurnsOf(D.rows, s) /\ row \in TurnsOf(S, s)
      BY <1>5, <2>1 DEF TurnsOf, Table
    <2>3. /\ IsFiniteSet(TurnsOf(D.rows, s) \cup {row})
          /\ Cardinality(TurnsOf(D.rows, s) \cup {row}) = Cardinality(TurnsOf(D.rows, s)) + 1
      BY <1>3, <2>2, OneMore
    <2>4. TurnsOf(D.rows, s) \cup {row} \subseteq TurnsOf(S, s)
      BY <1>1, <2>2
    <2>5. Cardinality(TurnsOf(D.rows, s) \cup {row}) <= Cardinality(TurnsOf(S, s))
      BY <1>3, <2>4, FS_Subset
    <2> QED BY <1>4, <2>3, <2>5
  <1> QED BY <1>4, <1>5

\* A session that is in the store is outside any run, or not, for good.
LEMMA StaysOutside ==
  ASSUME NEW D, NEW st, NEW E, E.rows = D.rows \cup st.rows, RowsFit(D, st),
         NEW s, s \notin DOMAIN st.opened
  PROVE  Outside(E, s) <=> Outside(D, s)
  <1>1. \A p \in Table(st.rows, "participation") : p.session # s
    BY DEF RowsFit
  <1>2. {p \in Table(E.rows, "participation") : p.session = s}
           = {p \in Table(D.rows, "participation") : p.session = s}
    BY <1>1 DEF Table
  <1> QED BY <1>2 DEF Outside, RunOf

\* A job that no unit of work has replaced is none of those that are replaced.
LEMMA OldJobs ==
  ASSUME NEW D, NEW st, JobsFit(D, st), NEW change \in st.jobs
  PROVE  /\ change.new.session \in DOMAIN D.sess
         /\ change.old = NoJob =>
              \A j \in D.jobs : j.session = change.new.session => j.key # change.new.key
         /\ Replaces(change) => change.old \in D.jobs
  <1>1. NoJob.status \notin Underway
    BY DEF NoJob, Underway
  <1>2. Replaces(change) => change.old # NoJob
    BY <1>1 DEF Replaces
  <1> QED BY <1>2 DEF JobsFit, AddsFit

\* The jobs of the sessions after a publication: a session that is played has none under way,
\* and any other at most the one of its version.
LEMMA PublishedJobs ==
  ASSUME NEW D, NEW st, NEW held, MapsWhole(D), UnitFits(D, st, held), JobsFit(D, st),
         NEW E, E.jobs = (D.jobs \ {change.old : change \in st.jobs}) \cup {change.new : change \in st.jobs},
         DOMAIN D.sess \subseteq DOMAIN E.sess
  PROVE  /\ IsFiniteSet(E.jobs) /\ JobsCheck(E)
         /\ DOMAIN st.progress \subseteq DOMAIN st.saved
         /\ \A s : s \notin DOMAIN D.sess => ActiveJobs(E, s) = {} /\ CommittedOf(E, s) = {}
         /\ \A s \in DOMAIN D.sess \ DOMAIN st.saved :
              /\ CommittedOf(E, s) = CommittedOf(D, s)
              /\ \/ ActiveJobs(E, s) = ActiveJobs(D, s) \/ ActiveJobs(E, s) = {}
                 \/ /\ \E j : /\ ActiveJobs(E, s) = {j} /\ j.version = D.sess[s]
                              /\ D.snap[s].ending = "open"
                    /\ ActiveJobs(D, s) # {} \/ SessionLock(s) \in held
         /\ \A s \in DOMAIN st.saved :
              /\ s \in DOMAIN D.sess /\ ActiveJobs(E, s) = {}
              /\ s \in DOMAIN st.progress =>
                   /\ Outside(D, s)
                   /\ Cardinality(CommittedOf(E, s)) = Cardinality(CommittedOf(D, s)) + 1
              /\ s \notin DOMAIN st.progress =>
                   ~Outside(D, s) \/ CommittedOf(E, s) = CommittedOf(D, s)
  <1>1. IsFiniteSet(D.jobs) /\ JobsCheck(D) /\ \A s \in DOMAIN D.sess : SessionOk(D, s)
    BY DEF MapsWhole
  <1>2. \A s : s \notin DOMAIN D.sess => ActiveJobs(D, s) = {} /\ CommittedOf(D, s) = {}
    BY <1>1 DEF JobsCheck, ActiveJobs, CommittedOf
  <1>3. ASSUME st.jobs = {}
        PROVE  /\ IsFiniteSet(E.jobs) /\ JobsCheck(E)
               /\ \A s : ActiveJobs(E, s) = ActiveJobs(D, s) /\ CommittedOf(E, s) = CommittedOf(D, s)
    <2>1. E.jobs = D.jobs
      BY <1>3
    <2>2. \A s : ActiveJobs(E, s) = ActiveJobs(D, s) /\ CommittedOf(E, s) = CommittedOf(D, s)
      BY <2>1 DEF ActiveJobs, CommittedOf
    <2>3. JobsCheck(E)
      BY <1>1, <2>1 DEF JobsCheck
    <2> QED BY <1>1, <2>1, <2>2, <2>3
  <1>4. ASSUME NEW change, st.jobs = {change}, Replaces(change)
        PROVE  /\ IsFiniteSet(E.jobs) /\ JobsCheck(E)
               /\ change.old.session \in DOMAIN D.sess
               /\ ActiveJobs(D, change.old.session) = {change.old}
               /\ \A s : s # change.old.session =>
                     ActiveJobs(E, s) = ActiveJobs(D, s) /\ CommittedOf(E, s) = CommittedOf(D, s)
               /\ ActiveJobs(E, change.old.session)
                     = IF change.new.status \in Underway THEN {change.new} ELSE {}
               /\ CommittedOf(E, change.old.session)
                     = CommittedOf(D, change.old.session)
                          \cup (IF change.new.status = "COMMITTED" THEN {change.new} ELSE {})
               /\ change.new \notin CommittedOf(D, change.old.session)
               /\ change.new.version = D.sess[change.old.session]
               /\ D.snap[change.old.session].ending = "open"
    <2>1. change.old \in D.jobs /\ change.new.session \in DOMAIN D.sess
      BY <1>4, OldJobs
    <2>2. change.old.session \in DOMAIN D.sess /\ change.old.status \in Underway
      BY <1>4, <2>1 DEF Replaces
    <2>3. change.old \in ActiveJobs(D, change.old.session)
      BY <2>1, <2>2 DEF ActiveJobs, Underway
    <2>4. /\ ActiveJobs(D, change.old.session) = {change.old}
          /\ change.old.version = D.sess[change.old.session]
          /\ D.snap[change.old.session].ending = "open"
      BY <1>1, <2>2, <2>3 DEF SessionOk
    <2>5. E.jobs = (D.jobs \ {change.old}) \cup {change.new}
      BY <1>4
    <2>6. change.new.version = D.sess[change.old.session]
      BY <1>4, <2>4 DEF Replaces
    <2>7. IsFiniteSet(D.jobs) /\ JobsCheck(D) /\ Replaces(change)
      BY <1>1, <1>4
    <2>10. IsFiniteSet(E.jobs) /\ JobsCheck(E)
      BY ONLY <2>1, <2>4, <2>5, <2>7, DOMAIN D.sess \subseteq DOMAIN E.sess, JobReplaced
    <2>11. SameElsewhere(D, E, change.old.session)
      BY ONLY <2>1, <2>4, <2>5, <2>7, DOMAIN D.sess \subseteq DOMAIN E.sess, JobReplaced
    <2>8. /\ IsFiniteSet(E.jobs) /\ JobsCheck(E)
          /\ \A s : s # change.old.session =>
                ActiveJobs(E, s) = ActiveJobs(D, s) /\ CommittedOf(E, s) = CommittedOf(D, s)
      BY ONLY <2>10, <2>11 DEF SameElsewhere
    <2>9. /\ ActiveJobs(E, change.old.session)
                = IF change.new.status \in Underway THEN {change.new} ELSE {}
          /\ CommittedOf(E, change.old.session)
                = CommittedOf(D, change.old.session)
                     \cup (IF change.new.status = "COMMITTED" THEN {change.new} ELSE {})
          /\ change.new \notin CommittedOf(D, change.old.session)
      BY ONLY <2>1, <2>4, <2>5, <2>7, DOMAIN D.sess \subseteq DOMAIN E.sess, JobReplaced
    <2> QED BY ONLY <2>2, <2>4, <2>6, <2>8, <2>9
  <1>5. CASE JobsStaged(D, st, held)
    <2>1. DOMAIN st.saved = {} /\ DOMAIN st.progress = {}
      BY <1>5 DEF JobsStaged
    <2>2. CASE st.jobs = {}
      BY <1>2, <1>3, <2>1, <2>2
    <2>3. CASE \E change \in st.jobs : st.jobs = {change} /\ Moves(change)
      <3>1. PICK change \in st.jobs : st.jobs = {change} /\ Moves(change)
        BY <2>3
      <3>2. Replaces(change) /\ change.new.status # "COMMITTED"
        BY <3>1 DEF Moves
      <3> DEFINE z == change.old.session
      <3>3. /\ IsFiniteSet(E.jobs) /\ JobsCheck(E) /\ z \in DOMAIN D.sess
            /\ \A s : s # z =>
                  ActiveJobs(E, s) = ActiveJobs(D, s) /\ CommittedOf(E, s) = CommittedOf(D, s)
            /\ ActiveJobs(E, z) = {change.new} \/ ActiveJobs(E, z) = {}
            /\ ActiveJobs(D, z) # {}
            /\ change.new.version = D.sess[z] /\ D.snap[z].ending = "open"
        BY <1>4, <3>1, <3>2
      <3>4. CommittedOf(E, z) = CommittedOf(D, z)
        <4>1. CommittedOf(E, z) = CommittedOf(D, z) \cup
                 (IF change.new.status = "COMMITTED" THEN {change.new} ELSE {})
          BY <1>4, <3>1, <3>2
        <4> QED BY <3>2, <4>1
      <3> HIDE DEF z
      <3>5. ASSUME NEW s \in DOMAIN D.sess
            PROVE  /\ CommittedOf(E, s) = CommittedOf(D, s)
                   /\ \/ ActiveJobs(E, s) = ActiveJobs(D, s) \/ ActiveJobs(E, s) = {}
                      \/ /\ \E j : /\ ActiveJobs(E, s) = {j} /\ j.version = D.sess[s]
                                   /\ D.snap[s].ending = "open"
                         /\ ActiveJobs(D, s) # {} \/ SessionLock(s) \in held
        <4>1. CASE s = z
          BY <3>3, <3>4, <4>1
        <4>2. CASE s # z
          BY <3>3, <4>2
        <4> QED BY <4>1, <4>2
      <3>6. \A s : s \notin DOMAIN D.sess => ActiveJobs(E, s) = {} /\ CommittedOf(E, s) = {}
        BY <1>2, <3>3
      <3> QED BY <2>1, <3>3, <3>5, <3>6
    <2>4. CASE \E change \in st.jobs : st.jobs = {change} /\ Prepares(D, change, held)
      <3>1. PICK change \in st.jobs : st.jobs = {change} /\ Prepares(D, change, held)
        BY <2>4
      <3> DEFINE z == change.new.session
      <3>2. /\ change.old = NoJob /\ change.new.status = "PREPARED" /\ z \in DOMAIN D.sess
            /\ ActiveJobs(D, z) = {} /\ change.new.version = D.sess[z] /\ D.snap[z].ending = "open"
            /\ SessionLock(z) \in held
        BY <3>1 DEF Prepares
      <3>3. E.jobs = (D.jobs \ {NoJob}) \cup {change.new}
        BY <3>1, <3>2
      <3>4. \A j \in D.jobs : j.session = z => j.key # change.new.key
        BY <3>2, OldJobs
      <3>5. /\ IsFiniteSet(E.jobs) /\ JobsCheck(E)
            /\ \A s : s # z => ActiveJobs(E, s) = ActiveJobs(D, s)
            /\ \A s : CommittedOf(E, s) = CommittedOf(D, s)
            /\ ActiveJobs(E, z) = {change.new}
        <4>1. PICK new : new = change.new
          OBVIOUS
        <4>2. /\ E.jobs = (D.jobs \ {NoJob}) \cup {new} /\ new.session \in DOMAIN D.sess
              /\ new.status = "PREPARED" /\ ActiveJobs(D, new.session) = {}
              /\ \A j \in D.jobs : j.session = new.session => j.key # new.key
          BY <3>2, <3>3, <3>4, <4>1
        <4>3. IsFiniteSet(D.jobs) /\ JobsCheck(D) /\ DOMAIN D.sess \subseteq DOMAIN E.sess
          BY <1>1
        <4> HIDE DEF z
        <4>5. /\ \A s : s # new.session => ActiveJobs(E, s) = ActiveJobs(D, s)
              /\ ActiveJobs(E, new.session) = {new}
          BY ONLY <4>2, <4>3, JobAdded
        <4>6. \A s : CommittedOf(E, s) = CommittedOf(D, s)
          BY ONLY <4>2, <4>3, JobAdded
        <4>7. IsFiniteSet(E.jobs) /\ JobsCheck(E)
          BY ONLY <4>2, <4>3, JobAdded
        <4>4. new.session = z
          BY <4>1 DEF z
        <4> QED BY <4>1, <4>4, <4>5, <4>6, <4>7
      <3> HIDE DEF z
      <3>6. ASSUME NEW s \in DOMAIN D.sess
            PROVE  \/ ActiveJobs(E, s) = ActiveJobs(D, s)
                   \/ /\ \E j : /\ ActiveJobs(E, s) = {j} /\ j.version = D.sess[s]
                                /\ D.snap[s].ending = "open"
                      /\ ActiveJobs(D, s) # {} \/ SessionLock(s) \in held
        <4>1. CASE s = z
          <5>1. change.new.version = D.sess[z]
            BY <3>2
          <5> QED BY <3>2, <3>5, <4>1, <5>1
        <4>2. CASE s # z
          BY <3>5, <4>2
        <4> QED BY <4>1, <4>2
      <3>7. \A s : s \notin DOMAIN D.sess => ActiveJobs(E, s) = {} /\ CommittedOf(E, s) = {}
        BY <1>2, <3>2, <3>5
      <3>8. \A s \in DOMAIN D.sess \ DOMAIN st.saved :
              /\ CommittedOf(E, s) = CommittedOf(D, s)
              /\ \/ ActiveJobs(E, s) = ActiveJobs(D, s) \/ ActiveJobs(E, s) = {}
                 \/ /\ \E j : /\ ActiveJobs(E, s) = {j} /\ j.version = D.sess[s]
                              /\ D.snap[s].ending = "open"
                    /\ ActiveJobs(D, s) # {} \/ SessionLock(s) \in held
        BY <3>5, <3>6
      <3>9. DOMAIN st.progress \subseteq DOMAIN st.saved
        BY <2>1
      <3>10. \A s : s \notin DOMAIN st.saved
        BY <2>1
      <3> QED BY ONLY <3>5, <3>7, <3>8, <3>9, <3>10, Zenon
    <2> QED BY <1>5, <2>2, <2>3, <2>4 DEF JobsStaged
  <1>6. CASE \E s \in DOMAIN st.saved : Plays(D, st, s, held)
    <2>1. PICK z \in DOMAIN st.saved : Plays(D, st, z, held)
      BY <1>6
    <2>2. DOMAIN st.saved = {z} /\ z \in DOMAIN D.sess
      BY <2>1 DEF Plays
    <2>3. CASE st.jobs = {} /\ DOMAIN st.progress = {} /\ ActiveJobs(D, z) = {}
      BY <1>2, <1>3, <2>2, <2>3
    <2>4. CASE \E change \in st.jobs :
             /\ st.jobs = {change} /\ Replaces(change) /\ change.new.status = "COMMITTED"
             /\ change.old.session = z
             /\ DOMAIN st.progress = IF Outside(D, z) THEN {z} ELSE {}
      <3>1. PICK change \in st.jobs :
             /\ st.jobs = {change} /\ Replaces(change) /\ change.new.status = "COMMITTED"
             /\ change.old.session = z
             /\ DOMAIN st.progress = IF Outside(D, z) THEN {z} ELSE {}
        BY <2>4
      <3>2. change.new.status \notin Underway
        BY <3>1 DEF Underway
      <3>3. /\ IsFiniteSet(E.jobs) /\ JobsCheck(E)
            /\ \A s : s # z =>
                  ActiveJobs(E, s) = ActiveJobs(D, s) /\ CommittedOf(E, s) = CommittedOf(D, s)
            /\ ActiveJobs(E, z) = {}
            /\ CommittedOf(E, z) = CommittedOf(D, z) \cup {change.new}
            /\ change.new \notin CommittedOf(D, z)
        BY <1>4, <3>1, <3>2
      <3>4. Cardinality(CommittedOf(E, z)) = Cardinality(CommittedOf(D, z)) + 1
        <4>1. IsFiniteSet(CommittedOf(D, z))
          <5>1. CommittedOf(D, z) \subseteq D.jobs
            BY DEF CommittedOf
          <5> QED BY <1>1, <5>1, FS_Subset
        <4> QED BY <3>3, <4>1, OneMore
      <3> QED BY <1>2, <2>2, <3>1, <3>3, <3>4
    <2> QED BY <2>1, <2>3, <2>4 DEF Plays
  <1> QED BY <1>5, <1>6 DEF UnitFits

\* What one session needs after a publication, from what it had before.
LEMMA PublishedSession ==
  ASSUME NEW E, NEW s, NEW n \in Nat, E.sess[s] = n, E.snap[s].version = n,
         Numbers(E.rows, s) = 1..n + 1,
         Cardinality(TurnsOf(E.rows, s)) >= n,
         E.progress[s] = IF Outside(E, s) THEN Cardinality(CommittedOf(E, s)) ELSE 0,
         \/ ActiveJobs(E, s) = {}
         \/ \E j : ActiveJobs(E, s) = {j} /\ j.version = n /\ E.snap[s].ending = "open"
  PROVE  SessionOk(E, s)
  BY DEF SessionOk, Numbers

\* A publication keeps the maps whole.
LEMMA PublishedMaps ==
  ASSUME NEW D, NEW st, NEW held, StoreWhole(D), UnitFits(D, st, held), Objection(D, st) = "none"
  PROVE  MapsWhole(Merge(D, st))
  <1> DEFINE E == Merge(D, st)
  <1>1. /\ UpdateFits(D, st) /\ JobsFit(D, st) /\ ProgressFits(D, st) /\ ~Taken(D, st.rows)
    BY Unopposed
  <1>2. /\ RowsWhole(D) /\ MapsWhole(D) /\ RowsFit(D, st) /\ EventsFit(st)
        /\ DOMAIN D.snap = DOMAIN D.sess /\ DOMAIN D.progress = DOMAIN D.sess
        /\ \A s \in DOMAIN D.sess : SessionOk(D, s)
    BY DEF StoreWhole, MapsWhole, UnitFits
  <1>3. DOMAIN st.opened \cap DOMAIN D.sess = {}
    BY <1>1, <1>2, NewRows
  <1>4. \A s \in DOMAIN st.saved :
           /\ s \in DOMAIN D.sess /\ D.sess[s] = st.saved[s].version - 1
           /\ st.saved[s].version \in Nat
           /\ \E row \in Table(st.rows, "turn") : row.session = s
    BY <1>1 DEF UpdateFits, UnitFits, Plays, JobsStaged
  <1>5. \A s \in DOMAIN st.progress : st.progress[s] \in Nat /\ D.progress[s] = st.progress[s] - 1
    BY <1>1 DEF ProgressFits, UnitFits, Plays, JobsStaged
  <1>6. /\ E.rows = D.rows \cup st.rows
        /\ E.jobs = (D.jobs \ {change.old : change \in st.jobs}) \cup {change.new : change \in st.jobs}
        /\ DOMAIN E.sess = DOMAIN st.opened \cup DOMAIN D.sess
        /\ DOMAIN E.snap = DOMAIN st.opened \cup DOMAIN D.sess
    BY <1>2, <1>4, Merged
  <1>7. /\ \A s \in DOMAIN st.saved : E.sess[s] = st.saved[s].version /\ E.snap[s] = st.saved[s]
        /\ \A s \in DOMAIN st.opened : E.sess[s] = 0 /\ E.snap[s] = st.opened[s]
        /\ \A s \in DOMAIN D.sess \ DOMAIN st.saved : E.sess[s] = D.sess[s] /\ E.snap[s] = D.snap[s]
    BY <1>2, <1>3, <1>4, Merged
  <1>8. DOMAIN D.sess \subseteq DOMAIN E.sess
    BY <1>6
  <1>9. UnitFits(D, st, held)
    OBVIOUS
  <1>10. /\ DOMAIN E.progress = DOMAIN st.progress \cup DOMAIN st.opened \cup DOMAIN D.progress
         /\ \A s \in DOMAIN st.progress : E.progress[s] = st.progress[s]
         /\ \A s \in DOMAIN st.opened \ DOMAIN st.progress : E.progress[s] = 0
         /\ \A s \in DOMAIN D.progress \ (DOMAIN st.progress \cup DOMAIN st.opened) :
               E.progress[s] = D.progress[s]
    BY Merged
  <1> HIDE DEF E
  <1>11. IsFiniteSet(E.jobs) /\ JobsCheck(E)
    BY <1>1, <1>2, <1>6, <1>8, <1>9, PublishedJobs
  <1>12. DOMAIN st.progress \subseteq DOMAIN st.saved
    BY <1>1, <1>2, <1>6, <1>8, <1>9, PublishedJobs
  <1>13. \A s : s \notin DOMAIN D.sess => ActiveJobs(E, s) = {} /\ CommittedOf(E, s) = {}
    BY <1>1, <1>2, <1>6, <1>8, <1>9, PublishedJobs
  <1>14. \A s \in DOMAIN D.sess \ DOMAIN st.saved :
              /\ CommittedOf(E, s) = CommittedOf(D, s)
              /\ \/ ActiveJobs(E, s) = ActiveJobs(D, s) \/ ActiveJobs(E, s) = {}
                 \/ /\ \E j : /\ ActiveJobs(E, s) = {j} /\ j.version = D.sess[s]
                              /\ D.snap[s].ending = "open"
                    /\ ActiveJobs(D, s) # {} \/ SessionLock(s) \in held
    BY <1>1, <1>2, <1>6, <1>8, <1>9, PublishedJobs
  <1>15. \A s \in DOMAIN st.saved :
              /\ ActiveJobs(E, s) = {}
              /\ s \in DOMAIN st.progress =>
                   /\ Outside(D, s)
                   /\ Cardinality(CommittedOf(E, s)) = Cardinality(CommittedOf(D, s)) + 1
              /\ s \notin DOMAIN st.progress =>
                   ~Outside(D, s) \/ CommittedOf(E, s) = CommittedOf(D, s)
    BY <1>1, <1>2, <1>6, <1>8, <1>9, PublishedJobs
  <1>16. \A s, n : n \in Numbers(E.rows, s) <=>
            \/ n \in Numbers(D.rows, s)
            \/ s \in DOMAIN st.opened /\ n = 1
            \/ s \in DOMAIN st.saved /\ n = st.saved[s].version + 1
    BY <1>1, <1>2, <1>6, PublishedEvents
  <1>17. \A s : /\ Cardinality(TurnsOf(E.rows, s)) \in Nat /\ Cardinality(TurnsOf(D.rows, s)) \in Nat
                /\ Cardinality(TurnsOf(E.rows, s)) >= Cardinality(TurnsOf(D.rows, s))
                /\ (\E row \in Table(st.rows, "turn") : row.session = s) =>
                      Cardinality(TurnsOf(E.rows, s)) >= Cardinality(TurnsOf(D.rows, s)) + 1
    BY <1>1, <1>2, <1>6, PublishedTurns
  <1>18. \A s \in DOMAIN D.sess : Outside(E, s) <=> Outside(D, s)
    BY <1>2, <1>3, <1>6, StaysOutside
  <1>19. \A s \in DOMAIN D.sess :
            /\ D.sess[s] \in Nat /\ D.snap[s].version = D.sess[s]
            /\ Numbers(D.rows, s) = 1..D.sess[s] + 1
            /\ Cardinality(TurnsOf(D.rows, s)) >= D.sess[s]
            /\ D.progress[s] = IF Outside(D, s) THEN Cardinality(CommittedOf(D, s)) ELSE 0
            /\ \A j \in ActiveJobs(D, s) :
                  ActiveJobs(D, s) = {j} /\ j.version = D.sess[s] /\ D.snap[s].ending = "open"
    BY <1>2 DEF SessionOk, Numbers
  <1>20. ASSUME NEW s \in DOMAIN st.opened PROVE SessionOk(E, s)
    <2>1. s \notin DOMAIN D.sess /\ s \notin DOMAIN st.saved
      BY <1>3, <1>4
    <2>2. E.sess[s] = 0 /\ E.snap[s].version = 0
      BY <1>2, <1>7 DEF RowsFit
    <2>3. E.progress[s] = 0
      BY <1>10, <1>12, <2>1
    <2>4. ActiveJobs(E, s) = {} /\ Cardinality(CommittedOf(E, s)) = 0
      BY <1>13, <2>1, FS_EmptySet
    <2>5. Numbers(E.rows, s) = 1..0 + 1
      <3>1. Numbers(D.rows, s) = {}
        BY <1>1, <1>2, <1>6, PublishedEvents
      <3>2. \A n : n \in Numbers(E.rows, s) <=> n = 1
        BY <1>16, <2>1, <3>1
      <3> QED BY <3>2
    <2>6. Cardinality(TurnsOf(E.rows, s)) >= 0
      BY <1>17
    <2> QED BY <2>2, <2>3, <2>4, <2>5, <2>6, PublishedSession
  <1>21. ASSUME NEW s \in DOMAIN D.sess, s \notin DOMAIN st.saved PROVE SessionOk(E, s)
    <2> DEFINE n == D.sess[s]
    <2>1. n \in Nat /\ E.sess[s] = n /\ E.snap[s].version = n
      BY <1>7, <1>19, <1>21
    <2>2. Numbers(E.rows, s) = 1..n + 1
      <3>1. \A z \in Numbers(E.rows, s) : z \in Numbers(D.rows, s)
        BY <1>3, <1>16, <1>21
      <3>2. \A z \in Numbers(D.rows, s) : z \in Numbers(E.rows, s)
        BY <1>16
      <3>3. Numbers(E.rows, s) = Numbers(D.rows, s)
        BY <3>1, <3>2
      <3> QED BY <1>19, <3>3
    <2>3. Cardinality(TurnsOf(E.rows, s)) >= n
      <3>1. /\ Cardinality(TurnsOf(D.rows, s)) >= n /\ Cardinality(TurnsOf(D.rows, s)) \in Nat
            /\ Cardinality(TurnsOf(E.rows, s)) \in Nat
            /\ Cardinality(TurnsOf(E.rows, s)) >= Cardinality(TurnsOf(D.rows, s))
        BY <1>17, <1>19
      <3> QED BY <2>1, <3>1
    <2>4. E.progress[s] = IF Outside(E, s) THEN Cardinality(CommittedOf(E, s)) ELSE 0
      <3>1. E.progress[s] = D.progress[s]
        BY <1>2, <1>3, <1>10, <1>12, <1>21
      <3>2. CommittedOf(E, s) = CommittedOf(D, s)
        BY <1>14, <1>21
      <3> QED BY <1>18, <1>19, <3>1, <3>2
    <2>5. \/ ActiveJobs(E, s) = {}
          \/ \E j : ActiveJobs(E, s) = {j} /\ j.version = n /\ E.snap[s].ending = "open"
      <3>1. E.snap[s] = D.snap[s]
        BY <1>7, <1>21
      <3>2. CASE ActiveJobs(E, s) = {}
        BY <3>2
      <3>3. CASE ActiveJobs(E, s) = ActiveJobs(D, s) /\ ActiveJobs(E, s) # {}
        <4>1. PICK j \in ActiveJobs(D, s) : TRUE
          BY <3>3
        <4>2. ActiveJobs(D, s) = {j} /\ j.version = D.sess[s] /\ D.snap[s].ending = "open"
          BY <1>19
        <4> QED BY <3>1, <3>3, <4>2
      <3>4. CASE \E j : ActiveJobs(E, s) = {j} /\ j.version = D.sess[s] /\ D.snap[s].ending = "open"
        BY <3>1, <3>4
      <3> QED BY <1>14, <1>21, <3>2, <3>3, <3>4
    <2> HIDE DEF n
    <2> QED BY <2>1, <2>2, <2>3, <2>4, <2>5, PublishedSession
  <1>22. ASSUME NEW s \in DOMAIN st.saved PROVE SessionOk(E, s)
    <2> DEFINE n == st.saved[s].version
    <2>1. n \in Nat /\ E.sess[s] = n /\ E.snap[s].version = n /\ D.sess[s] = n - 1 /\ s \in DOMAIN D.sess
      BY <1>4, <1>7
    <2>2. Numbers(E.rows, s) = 1..n + 1
      <3>1. PICK d \in Nat : d = D.sess[s]
        BY <1>19, <2>1
      <3>2. \A z : z \in Numbers(E.rows, s) <=> z \in Numbers(D.rows, s) \/ z = n + 1
        BY <1>3, <1>16, <2>1
      <3>3. d = n - 1 /\ Numbers(D.rows, s) = 1..d + 1
        BY <1>19, <2>1, <3>1
      <3>4. n \in Nat
        BY <2>1
      <3> HIDE DEF n
      <3>5. PICK N, M : N = Numbers(E.rows, s) /\ M = Numbers(D.rows, s)
        OBVIOUS
      <3>6. M = 1..d + 1 /\ \A z : z \in N <=> z \in M \/ z = n + 1
        BY <3>2, <3>3, <3>5
      <3>7. N = 1..n + 1
        BY <3>3, <3>4, <3>6, NextNumber
      <3> QED BY <3>5, <3>7
    <2>3. Cardinality(TurnsOf(E.rows, s)) >= n
      <3>1. Cardinality(TurnsOf(E.rows, s)) >= Cardinality(TurnsOf(D.rows, s)) + 1
        BY <1>4, <1>17
      <3>2. /\ Cardinality(TurnsOf(D.rows, s)) >= n - 1
            /\ Cardinality(TurnsOf(E.rows, s)) \in Nat /\ Cardinality(TurnsOf(D.rows, s)) \in Nat
        BY <1>17, <1>19, <2>1
      <3> QED BY <2>1, <3>1, <3>2
    <2>4. E.progress[s] = IF Outside(E, s) THEN Cardinality(CommittedOf(E, s)) ELSE 0
      <3>1. Outside(E, s) <=> Outside(D, s)
        BY <1>18, <2>1
      <3>2. D.progress[s] = IF Outside(D, s) THEN Cardinality(CommittedOf(D, s)) ELSE 0
        BY <1>19, <2>1
      <3>3. CASE s \in DOMAIN st.progress
        <4>1. E.progress[s] = st.progress[s] /\ st.progress[s] \in Nat /\ D.progress[s] = st.progress[s] - 1
          BY <1>5, <1>10, <3>3
        <4>2. Outside(D, s) /\ Cardinality(CommittedOf(E, s)) = Cardinality(CommittedOf(D, s)) + 1
          BY <1>15, <3>3
        <4> QED BY <3>1, <3>2, <4>1, <4>2
      <3>4. CASE s \notin DOMAIN st.progress
        <4>1. E.progress[s] = D.progress[s]
          BY <1>2, <1>3, <1>10, <2>1, <3>4
        <4>2. ~Outside(D, s) \/ CommittedOf(E, s) = CommittedOf(D, s)
          BY <1>15, <3>4
        <4> QED BY <3>1, <3>2, <4>1, <4>2
      <3> QED BY <3>3, <3>4
    <2>5. ActiveJobs(E, s) = {}
      BY <1>15
    <2> HIDE DEF n
    <2> QED BY <2>1, <2>2, <2>3, <2>4, <2>5, PublishedSession
  <1>23. DOMAIN E.snap = DOMAIN E.sess
    BY <1>6
  <1>24. DOMAIN E.progress = DOMAIN E.sess
    BY <1>2, <1>4, <1>6, <1>10, <1>12
  <1>25. \A s \in DOMAIN E.sess : SessionOk(E, s)
    BY <1>6, <1>20, <1>21, <1>22
  <1>26. \A j \in E.jobs : IsJob(j)
    <2>1. \A j \in D.jobs : IsJob(j)
      BY DEF StoreWhole, MapsWhole
    <2>2. \A change \in st.jobs : IsJob(change.new)
      BY DEF UnitFits
    <2> QED BY <1>6, <2>1, <2>2
  <1> QED BY <1>11, <1>23, <1>24, <1>25, <1>26 DEF MapsWhole, E

\* What publishes without an objection leaves the store whole.
LEMMA PublishedStore ==
  ASSUME NEW D, NEW st, NEW held, StoreWhole(D), UnitFits(D, st, held),
         StagedFits(D.rows, st.rows, held), Objection(D, st) = "none"
  PROVE  StoreWhole(Merge(D, st))
  BY PublishedMaps, PublishedRows DEF StoreWhole, UnitFits

-----------------------------------------------------------------------------
(* What another unit of work has staged                                     *)

\* A session that another unit of work has locked is as that one found it.
LEMMA LockedSession ==
  ASSUME NEW D, NEW st, NEW held, StoreWhole(D), UnitFits(D, st, held), Objection(D, st) = "none",
         NEW s \in DOMAIN D.sess, SessionLock(s) \notin held,
         NEW E, E = Merge(D, st)
  PROVE  /\ s \in DOMAIN E.sess /\ E.sess[s] = D.sess[s] /\ E.snap[s] = D.snap[s]
         /\ ActiveJobs(D, s) = {} => ActiveJobs(E, s) = {}
         /\ Outside(E, s) <=> Outside(D, s)
  <1>1. /\ UpdateFits(D, st) /\ JobsFit(D, st) /\ ~Taken(D, st.rows)
    BY Unopposed
  <1>2. /\ RowsWhole(D) /\ MapsWhole(D) /\ RowsFit(D, st)
        /\ DOMAIN D.snap = DOMAIN D.sess /\ UnitFits(D, st, held)
    BY DEF StoreWhole, MapsWhole, UnitFits
  <1>3. s \notin DOMAIN st.opened
    BY <1>1, <1>2, NewRows
  <1>4. s \notin DOMAIN st.saved
    BY DEF UnitFits, Plays, JobsStaged
  <1>5. /\ E.rows = D.rows \cup st.rows
        /\ E.jobs = (D.jobs \ {change.old : change \in st.jobs}) \cup {change.new : change \in st.jobs}
        /\ DOMAIN D.sess \subseteq DOMAIN E.sess
        /\ E.sess[s] = D.sess[s] /\ E.snap[s] = D.snap[s]
    BY <1>2, <1>3, <1>4, Merged
  <1>6. Outside(E, s) <=> Outside(D, s)
    BY <1>2, <1>3, <1>5, StaysOutside
  <1>7. \/ ActiveJobs(E, s) = ActiveJobs(D, s) \/ ActiveJobs(E, s) = {}
        \/ ActiveJobs(D, s) # {} \/ SessionLock(s) \in held
    <2>1. \A z \in DOMAIN D.sess \ DOMAIN st.saved :
              /\ CommittedOf(E, z) = CommittedOf(D, z)
              /\ \/ ActiveJobs(E, z) = ActiveJobs(D, z) \/ ActiveJobs(E, z) = {}
                 \/ /\ \E j : /\ ActiveJobs(E, z) = {j} /\ j.version = D.sess[z]
                              /\ D.snap[z].ending = "open"
                    /\ ActiveJobs(D, z) # {} \/ SessionLock(z) \in held
      BY <1>1, <1>2, <1>5, PublishedJobs
    <2> QED BY <1>4, <2>1
  <1> QED BY <1>5, <1>6, <1>7

\* So what it has staged still fits.
LEMMA UnitStays ==
  ASSUME NEW D, NEW st, NEW held, StoreWhole(D), UnitFits(D, st, held), Objection(D, st) = "none",
         NEW other, NEW theirs, UnitFits(D, other, theirs), held \cap theirs = {},
         NEW E, E = Merge(D, st)
  PROVE  UnitFits(E, other, theirs)
  <1>1. E.rows = D.rows \cup st.rows
    BY Merged
  <1>2. RowsFit(E, other)
    <2>1. RowsFit(D, other)
      BY DEF UnitFits
    <2>2. HangsIn(other.rows, E.rows \cup other.rows)
      <3>1. D.rows \cup other.rows \subseteq E.rows \cup other.rows
        BY <1>1
      <3> QED BY <2>1, <3>1, HangsOn DEF RowsFit
    <2>3. ~Taken(E, other.rows) => OneHolder(other.rows)
      <3>1. KeysOf(D.rows) \subseteq KeysOf(E.rows)
        BY <1>1 DEF KeysOf
      <3>2. Taken(D, other.rows) => Taken(E, other.rows)
        BY <3>1 DEF Taken
      <3> QED BY <2>1, <3>2 DEF RowsFit
    <2>4. NativeRuns(D) \subseteq NativeRuns(E)
      BY <1>1 DEF NativeRuns, Table
    <2> QED BY <2>1, <2>2, <2>3, <2>4 DEF RowsFit
  <1>3. EventsFit(other)
    BY DEF UnitFits
  <1>4. ASSUME NEW s \in DOMAIN D.sess, SessionLock(s) \in theirs
        PROVE  /\ s \in DOMAIN E.sess /\ E.sess[s] = D.sess[s] /\ E.snap[s] = D.snap[s]
               /\ ActiveJobs(D, s) = {} => ActiveJobs(E, s) = {}
               /\ Outside(E, s) <=> Outside(D, s)
    BY <1>4, LockedSession
  <1>5. ASSUME NEW change, Prepares(D, change, theirs) PROVE Prepares(E, change, theirs)
    <2> DEFINE s == change.new.session
    <2>1. /\ s \in DOMAIN D.sess /\ SessionLock(s) \in theirs /\ ActiveJobs(D, s) = {}
          /\ change.new.version = D.sess[s] /\ D.snap[s].ending = "open"
          /\ change.old = NoJob /\ change.new.status = "PREPARED"
      BY <1>5 DEF Prepares
    <2>2. /\ s \in DOMAIN E.sess /\ E.sess[s] = D.sess[s] /\ E.snap[s] = D.snap[s]
          /\ ActiveJobs(E, s) = {}
      BY <1>4, <2>1
    <2> QED BY <2>1, <2>2 DEF Prepares
  <1>6. ASSUME NEW s, Plays(D, other, s, theirs) PROVE Plays(E, other, s, theirs)
    <2>1. s \in DOMAIN D.sess /\ SessionLock(s) \in theirs
      BY <1>6 DEF Plays
    <2>2. /\ s \in DOMAIN E.sess /\ (ActiveJobs(D, s) = {} => ActiveJobs(E, s) = {})
          /\ Outside(E, s) <=> Outside(D, s)
      BY <1>4, <2>1
    <2> QED BY <1>6, <2>2 DEF Plays
  <1>7. CASE JobsStaged(D, other, theirs)
    <2>1. JobsStaged(E, other, theirs)
      BY <1>5, <1>7 DEF JobsStaged
    <2> QED BY <1>2, <1>3, <2>1 DEF UnitFits
  <1>8. CASE \E s \in DOMAIN other.saved : Plays(D, other, s, theirs)
    BY <1>2, <1>3, <1>6, <1>8 DEF UnitFits
  <1> QED BY <1>7, <1>8 DEF UnitFits

-----------------------------------------------------------------------------
(* Rows that may be staged                                                  *)

\* What a unit of work writes before its sessions get their first events.
RowsStaged(D, R) ==
    /\ IsFiniteSet(R)
    /\ HangsIn(R, D.rows \cup R)
    /\ ~Taken(D, R) => OneHolder(R)
    /\ \A row \in Table(R, "participation") : row.session \in Opens(R)
    /\ \A row \in Table(R, "event") : \E s \in Opens(R) : row = Event(s, 1)

\* Rows of one table share no key with those of another.
LEMMA HoldersApart ==
  ASSUME NEW A, NEW B, OneHolder(A), OneHolder(B), \A a \in A, b \in B : a.table # b.table
  PROVE  OneHolder(A \cup B)
  <1>1. ASSUME NEW a \in A, NEW b \in B PROVE StoreKeys(a) \cap StoreKeys(b) = {}
    <2> SUFFICES ASSUME NEW key \in StoreKeys(a), key \in StoreKeys(b) PROVE FALSE
      OBVIOUS
    <2>1. KeyTable(key[1]) = a.table
      BY KeysTellTables
    <2>2. KeyTable(key[1]) = b.table
      BY KeysTellTables
    <2> QED BY <2>1, <2>2
  <1> QED BY <1>1 DEF OneHolder

\* So one row of each table is one holder of each key.
LEMMA OneOfEach ==
  ASSUME NEW R, \A a, b \in R : a.table = b.table => a = b
  PROVE  OneHolder(R)
  <1> SUFFICES ASSUME NEW a \in R, NEW b \in R, NEW key \in StoreKeys(a), key \in StoreKeys(b)
               PROVE  a = b
    BY DEF OneHolder
  <1>1. KeyTable(key[1]) = a.table
    BY KeysTellTables
  <1>2. KeyTable(key[1]) = b.table
    BY KeysTellTables
  <1> QED BY <1>1, <1>2

\* The first events of sessions.
LEMMA FirstEvents ==
  ASSUME NEW Z
  PROVE  OneHolder({Event(s, 1) : s \in Z})
  <1> SUFFICES ASSUME NEW s \in Z, NEW z \in Z, NEW key \in StoreKeys(Event(s, 1)),
                      key \in StoreKeys(Event(z, 1))
               PROVE  Event(s, 1) = Event(z, 1)
    BY DEF OneHolder
  <1>1. ASSUME NEW n PROVE StoreKeys(Event(n, 1)) = {<<"event", n, 1>>}
    <2>1. PICK row : row = Event(n, 1)
      OBVIOUS
    <2>2. row.table = "event" /\ row.session = n /\ row.seq = 1
      BY <2>1 DEF Event
    <2>3. StoreKeys(row) = {<<"event", row.session, row.seq>>}
      BY ONLY <2>2, RowKeys
    <2> QED BY <2>1, <2>2, <2>3
  <1>2. key = <<"event", s, 1>> /\ key = <<"event", z, 1>>
    BY <1>1
  <1>3. s = z
    BY <1>2
  <1> QED BY <1>3

\* The images of a finite set's members are finitely many.
LEMMA FewImages ==
  ASSUME NEW A, IsFiniteSet(A), NEW f, DOMAIN f = A
  PROVE  IsFiniteSet({f[a] : a \in A})
  <1> DEFINE T == {f[a] : a \in A}
             g == [a \in A |-> f[a]]
  <1>1. g \in [A -> T] /\ \A y \in T : \E a \in A : g[a] = y
    OBVIOUS
  <1>2. g \in Surjection(A, T)
    BY <1>1, Fun_IsSurj
  <1> QED BY <1>2, FS_Surjection

\* The first events of the sessions that are opened.
Firsts(R) == {Event(s, 1) : s \in Opens(R)}

\* They are finitely many.
LEMMA FewOpened ==
  ASSUME NEW R, IsFiniteSet(R)
  PROVE  IsFiniteSet(Firsts(R))
  <1> DEFINE rows == Table(R, "session")
             f == [row \in rows |-> Event(row.session, 1)]
  <1>1. IsFiniteSet(rows)
    BY TableIsFinite DEF Table
  <1>2. DOMAIN f = rows /\ \A row \in rows : f[row] = Event(row.session, 1)
    OBVIOUS
  <1>3. {f[row] : row \in rows} = {Event(s, 1) : s \in Opens(R)}
    <2>1. Opens(R) = {row.session : row \in rows}
      BY DEF Opens
    <2>2. {Event(s, 1) : s \in Opens(R)} = {Event(row.session, 1) : row \in rows}
      BY <2>1
    <2>3. {f[row] : row \in rows} = {Event(row.session, 1) : row \in rows}
      BY <1>2
    <2> QED BY <2>2, <2>3
  <1> HIDE DEF f, rows
  <1>4. IsFiniteSet({f[row] : row \in rows})
    BY <1>1, <1>2, FewImages
  <1> QED BY <1>3, <1>4 DEF Firsts

\* A unit of work that opens sessions stages what fits.
LEMMA CarriedFits ==
  ASSUME NEW D, NEW rows, RowsStaged(D, rows), NEW held, NEW st, st.rows = rows \cup Firsts(rows),
         DOMAIN st.opened = Opens(rows), \A s \in Opens(rows) : st.opened[s].version = 0,
         DOMAIN st.saved = {}, DOMAIN st.progress = {}, st.jobs = {},
         DOMAIN st.moved \subseteq NativeRuns(D)
  PROVE  UnitFits(D, st, held)
  <1> DEFINE events == Firsts(rows)
  <1>1. \A row \in events : row.table = "event" /\ row.session \in Opens(rows) /\ row.seq = 1
    BY DEF Event, Firsts
  <1>2. st.rows = rows \cup events
    OBVIOUS
  <1>3. IsFiniteSet(st.rows)
    <2>1. IsFiniteSet(events)
      BY FewOpened DEF RowsStaged
    <2>2. IsFiniteSet(rows)
      BY DEF RowsStaged
    <2> HIDE DEF events
    <2> QED BY ONLY <1>2, <2>1, <2>2, FS_Union
  <1>4. /\ \A t : t # "event" => Table(st.rows, t) = Table(rows, t)
        /\ Opens(st.rows) = Opens(rows)
    <2>1. \A t : t # "event" => Table(st.rows, t) = Table(rows, t)
      BY <1>1, <1>2 DEF Table
    <2> QED BY <2>1 DEF Opens
  <1>5. HangsIn(st.rows, D.rows \cup st.rows)
    <2>1. HangsIn(rows, D.rows \cup st.rows)
      <3>1. D.rows \cup rows \subseteq D.rows \cup st.rows
        BY <1>2
      <3> QED BY <3>1, HangsOn DEF RowsStaged
    <2>2. HangsIn(events, D.rows \cup st.rows)
      <3>1. ASSUME NEW row \in events
            PROVE  \E p \in Table(D.rows \cup st.rows, "session") : p.session = row.session
        <4>1. PICK p \in Table(rows, "session") : p.session = row.session
          BY <1>1 DEF Opens
        <4> QED BY <1>2, <4>1 DEF Table
      <3>2. \A t : t # "event" => Table(events, t) = {}
        BY <1>1 DEF Table
      <3>3. \A row \in events : row.table \notin {"creation_receipt", "mutation_receipt"} \cup WorldTables
        BY <1>1 DEF WorldTables
      <3>4. /\ Table(events, "revision") = {} /\ Table(events, "run") = {}
            /\ Table(events, "run_receipt") = {} /\ Table(events, "confirmation") = {}
            /\ Table(events, "offer") = {}
        BY ONLY <3>2
      <3> HIDE DEF events
      <3> QED BY ONLY <3>1, <3>3, <3>4 DEF HangsIn
    <2> HIDE DEF events
    <2> QED BY <1>2, <2>1, <2>2, HangTogether
  <1>6. ASSUME ~Taken(D, st.rows) PROVE OneHolder(st.rows)
    <2> DEFINE rest == {row \in rows : row.table # "event"}
    <2>1. OneHolder(rows)
      <3>1. KeysOf(rows) \subseteq KeysOf(st.rows)
        BY <1>2 DEF KeysOf
      <3> QED BY <1>6, <3>1 DEF Taken, RowsStaged
    <2>2. OneHolder(rest)
      BY <2>1 DEF OneHolder
    <2>3. OneHolder(events)
      BY FirstEvents DEF Firsts
    <2>4. st.rows = rest \cup events
      BY <1>2 DEF RowsStaged, Table, Firsts
    <2>5. \A a \in rest, b \in events : a.table # b.table
      BY <1>1
    <2> HIDE DEF rest, events
    <2> QED BY <2>2, <2>3, <2>4, <2>5, HoldersApart
  <1>7. DOMAIN st.opened = Opens(rows) /\ \A s \in Opens(rows) : st.opened[s].version = 0
    OBVIOUS
  <1>8. RowsFit(D, st)
    <2>1. \A row \in Table(st.rows, "participation") : row.session \in DOMAIN st.opened
      BY <1>4, <1>7 DEF RowsStaged
    <2> HIDE DEF events
    <2> QED BY <1>3, <1>4, <1>5, <1>6, <1>7, <2>1 DEF RowsFit
  <1>9. DOMAIN st.saved = {} /\ DOMAIN st.progress = {}
    OBVIOUS
  <1>10. EventsFit(st)
    <2>1. \A row \in Table(st.rows, "event") : row \in events
      BY <1>2 DEF RowsStaged, Table, Firsts
    <2>2. \A s \in Opens(rows) : Event(s, 1) \in st.rows
      BY <1>2 DEF Firsts
    <2> HIDE DEF events
    <2> QED BY <1>1, <1>7, <1>9, <2>1, <2>2 DEF EventsFit
  <1> QED BY <1>8, <1>9, <1>10 DEF UnitFits, JobsStaged

-----------------------------------------------------------------------------
(* What the operations on characters, entries and sessions stage            *)

\* What the verdicts stage fits with its rows.
LEMMA LiftFits ==
  ASSUME NEW D, NEW w, RowsStaged(D, w.rows), NEW held
  PROVE  UnitFits(D, Lift(w).staged, held)
  <1>1. PICK rows : rows = w.rows
    OBVIOUS
  <1>2. PICK image : image = Image(0, "open", 0)
    OBVIOUS
  <1>3. PICK st : st = Carried(rows, image)
    OBVIOUS
  <1>4. /\ st.rows = rows \cup Firsts(rows)
        /\ st.opened = [s \in Opens(rows) |-> image]
        /\ st.saved = <<>> /\ st.progress = <<>> /\ st.jobs = {} /\ st.moved = <<>>
    BY <1>3 DEF Carried, Empty, Firsts
  <1>5. /\ DOMAIN st.opened = Opens(rows) /\ \A s \in Opens(rows) : st.opened[s].version = 0
        /\ DOMAIN st.saved = {} /\ DOMAIN st.progress = {} /\ st.jobs = {}
        /\ DOMAIN st.moved \subseteq NativeRuns(D)
    BY <1>2, <1>4 DEF Image
  <1>6. Lift(w).staged = st
    BY <1>1, <1>2, <1>3 DEF Lift
  <1>7. RowsStaged(D, rows)
    BY <1>1
  <1>8. UnitFits(D, st, held)
    BY ONLY <1>4, <1>5, <1>7, CarriedFits
  <1> QED BY <1>6, <1>8

\* Nothing at all fits.
LEMMA NothingFits ==
  ASSUME NEW D
  PROVE  RowsStaged(D, {})
  <1>1. \A t : Table({}, t) = {}
    BY DEF Table
  <1>2. IsFiniteSet({})
    BY FS_EmptySet
  <1>3. HangsIn({}, D.rows \cup {})
    BY <1>1 DEF HangsIn
  <1>4. OneHolder({})
    BY DEF OneHolder
  <1> QED BY <1>1, <1>2, <1>3, <1>4 DEF RowsStaged

\* One row of each table: the rows of the older operations are such.
LEMMA FewRows ==
  /\ \A a : IsFiniteSet({a})
  /\ \A a, b : IsFiniteSet({a, b})
  /\ \A a, b, c : IsFiniteSet({a, b, c})
  <1>1. \A a : IsFiniteSet({a})
    BY FS_Singleton
  <1>2. ASSUME NEW a, NEW b PROVE IsFiniteSet({a, b})
    <2>1. IsFiniteSet({a} \cup {b})
      BY <1>1, FS_AddElement
    <2>2. {a, b} = {a} \cup {b}
      OBVIOUS
    <2> QED BY <2>1, <2>2
  <1>3. ASSUME NEW a, NEW b, NEW c PROVE IsFiniteSet({a, b, c})
    <2>1. IsFiniteSet({a, b} \cup {c})
      BY <1>2, FS_AddElement
    <2>2. {a, b, c} = {a, b} \cup {c}
      OBVIOUS
    <2> QED BY <2>1, <2>2
  <1> QED BY <1>1, <1>2, <1>3

\* The current revision of a character is one of its revisions.
LEMMA CurrentCharacter ==
  ASSUME NEW S, IsFiniteSet(S), NEW x, Revisions(S, x) # {}, ValidCharacter(S, x)
  PROVE  Character(S, x) \in Revisions(S, x)
  <1> DEFINE T == Revisions(S, x)
             V == {row.rev : row \in T}
  <1>1. IsFiniteSet(T)
    BY TableIsFinite DEF Revisions, Table
  <1>2. V = 1..Cardinality(T)
    BY DEF ValidCharacter, CharacterFamily
  <1>3. V # {}
    OBVIOUS
  <1> HIDE DEF T
  <1>4. PICK n \in Nat : n >= 1 /\ V = 1..n
    BY <1>1, <1>2, <1>3, NumbersOfHistory DEF T
  <1>5. PICK last \in T : last.rev = n
    BY <1>4
  <1>6. \A other \in T : other.rev <= last.rev
    BY <1>4, <1>5
  <1>7. \E row \in T : \A other \in T : other.rev <= row.rev
    BY <1>6
  <1> QED BY ONLY <1>7, Zenon DEF Character, T

\* A new character and, where it is missing, its player's binding.
LEMMA CreationStaged ==
  ASSUME NEW D, NEW q, NEW x, NEW R, R = CreationRows(q, x) \cup ({Binding(q.who)} \ D.rows)
  PROVE  RowsStaged(D, R)
  <1>1. PICK first : first = Revision(x, 1, "ACTIVE", q.who, "CREATE", q.body)
    OBVIOUS
  <1>2. PICK receipt : receipt = CreationReceipt(q, x)
    OBVIOUS
  <1>3. PICK bound : bound = Binding(q.who)
    OBVIOUS
  <1>4. /\ first.table = "revision" /\ first.char = x /\ first.who = q.who
        /\ receipt.table = "creation_receipt" /\ receipt.char = x
        /\ bound.table = "binding" /\ bound.who = q.who
    BY <1>1, <1>2, <1>3 DEF Revision, CreationReceipt, Binding
  <1>5. R = {first, receipt} \cup ({bound} \ D.rows)
    BY <1>1, <1>2, <1>3 DEF CreationRows
  <1>6. R \subseteq {first, receipt, bound} /\ first \in R /\ bound \in D.rows \cup R
    BY <1>5
  <1>7. IsFiniteSet(R)
    BY <1>6, FewRows, FS_Subset
  <1>8. OneHolder(R)
    <2>1. \A a, b \in R : a.table = b.table => a = b
      BY <1>4, <1>6
    <2> QED BY <2>1, OneOfEach
  <1>9. /\ \A row \in R : row.table \in {"revision", "creation_receipt", "binding"}
        /\ \A row \in Table(R, "revision") : row = first
        /\ \A row \in R : row.table = "creation_receipt" => row = receipt
    BY <1>4, <1>6 DEF Table
  <1>10. HangsIn(R, D.rows \cup R)
    <2>1. \A t : t \notin {"revision", "creation_receipt", "binding"} => Table(R, t) = {}
      BY <1>9 DEF Table
    <2>2. \E b \in Table(D.rows \cup R, "binding") : b.who = first.who
      BY <1>4, <1>6 DEF Table
    <2>3. Revisions(D.rows \cup R, receipt.char) # {}
      BY <1>4, <1>6 DEF Revisions, Table
    <2> QED BY <1>9, <2>1, <2>2, <2>3 DEF HangsIn, WorldTables
  <1>11. Table(R, "participation") = {} /\ Table(R, "event") = {}
    BY <1>9 DEF Table
  <1> QED BY <1>7, <1>8, <1>10, <1>11 DEF RowsStaged

\* A character's next revision, with its receipt.
LEMMA MutationStaged ==
  ASSUME NEW D, RowsWhole(D), NEW q, Revisions(D.rows, q.char) # {},
         NEW R, R = MutationRows(Character(D.rows, q.char), q)
  PROVE  RowsStaged(D, R)
  <1>1. PICK m : m = Character(D.rows, q.char)
    OBVIOUS
  <1>2. m \in Revisions(D.rows, q.char)
    <2>1. ValidCharacter(D.rows, q.char) /\ IsFiniteSet(D.rows)
      BY WholeFamilies
    <2> QED BY <1>1, <2>1, CurrentCharacter
  <1>3. PICK next : next = Revision(q.char, m.rev + 1, Successor[q.kind], m.who, q.kind, m.body)
    OBVIOUS
  <1>4. PICK receipt : receipt = MutationReceipt(m, q, Successor[q.kind])
    OBVIOUS
  <1>5. /\ next.table = "revision" /\ next.who = m.who
        /\ receipt.table = "mutation_receipt" /\ receipt.char = q.char
    BY <1>3, <1>4 DEF Revision, MutationReceipt
  <1>6. R = {next, receipt}
    BY <1>1, <1>3, <1>4 DEF MutationRows
  <1>7. IsFiniteSet(R)
    BY <1>6, FewRows
  <1>8. OneHolder(R)
    <2>1. \A a, b \in R : a.table = b.table => a = b
      BY <1>5, <1>6
    <2> QED BY <2>1, OneOfEach
  <1>9. /\ \A row \in R : row.table \in {"revision", "mutation_receipt"}
        /\ \A row \in Table(R, "revision") : row = next
        /\ \A row \in R : row.table = "mutation_receipt" => row = receipt
    BY <1>5, <1>6 DEF Table
  <1>10. HangsIn(R, D.rows \cup R)
    <2>1. \A t : t \notin {"revision", "mutation_receipt"} => Table(R, t) = {}
      BY <1>9 DEF Table
    <2>2. \E b \in Table(D.rows \cup R, "binding") : b.who = next.who
      <3>1. m \in Table(D.rows, "revision")
        BY <1>2 DEF Revisions
      <3>2. PICK b \in Table(D.rows, "binding") : b.who = m.who
        BY <3>1 DEF RowsWhole, HangsIn
      <3> QED BY <1>5, <3>2 DEF Table
    <2>3. Revisions(D.rows \cup R, receipt.char) # {}
      BY <1>2, <1>5 DEF Revisions, Table
    <2> QED BY <1>9, <2>1, <2>2, <2>3 DEF HangsIn, WorldTables
  <1>11. Table(R, "participation") = {} /\ Table(R, "event") = {}
    BY <1>9 DEF Table
  <1> QED BY <1>7, <1>8, <1>10, <1>11 DEF RowsStaged

\* An opening, or a session outside any run, alone.
LEMMA AloneStaged ==
  ASSUME NEW D, NEW row,
         \/ row.table = "session"
         \/ row.table = "offer" /\ row.ordinal \in Nat /\ row.ordinal >= 1
  PROVE  RowsStaged(D, {row})
  <1>1. \A t : t # row.table => Table({row}, t) = {}
    BY DEF Table
  <1>2. \A other \in {row} : other = row
    OBVIOUS
  <1>3. HangsIn({row}, D.rows \cup {row})
    BY <1>1, <1>2 DEF HangsIn, WorldTables, Table
  <1>4. OneHolder({row})
    BY DEF OneHolder
  <1>5. Table({row}, "participation") = {} /\ Table({row}, "event") = {}
    BY <1>1
  <1> QED BY <1>3, <1>4, <1>5, FewRows DEF RowsStaged

-----------------------------------------------------------------------------
(* Openings and entries                                                     *)

\* Of finitely many numbers one is the greatest: the least set of them that nothing is
\* beyond has one member.
LEMMA GreatestOf ==
  ASSUME NEW V, IsFiniteSet(V), V # {}, V \subseteq Int
  PROVE  \E m \in V : \A v \in V : v <= m
  <1> DEFINE all == {T \in SUBSET V : \A v \in V : \E b \in T : v <= b}
             order == StrictSubsetOrdering(V)
  <1>1. V \in all
    <2>1. \A v \in V : v <= v
      OBVIOUS
    <2> QED BY <2>1
  <1>2. IsWellFoundedOn(order, FiniteSubsetsOf(V))
    BY FS_StrictSubsetOrderingWellFounded
  <1>3. all \subseteq FiniteSubsetsOf(V)
    BY FS_FiniteSubsetsOfFinite
  <1>4. all # {}
    BY <1>1
  <1> HIDE DEF all, order
  <1>5. PICK T \in all : \A U \in all : <<U, T>> \notin order
    BY <1>2, <1>3, <1>4, WFMin
  <1>6. T \subseteq V /\ \A v \in V : \E b \in T : v <= b
    BY <1>5 DEF all
  <1>7. ASSUME NEW a \in T, NEW b \in T, a # b, a <= b PROVE FALSE
    <2> DEFINE U == T \ {a}
    <2>1. ASSUME NEW v \in V PROVE \E c \in U : v <= c
      <3>1. PICK c \in T : v <= c
        BY <1>6
      <3>2. v \in Int /\ a \in Int /\ b \in Int
        BY <1>6
      <3>3. CASE c = a
        <4>1. v <= b
          BY <1>7, <3>1, <3>2, <3>3
        <4> QED BY <1>7, <4>1
      <3> QED BY <3>1, <3>3
    <2>2. U \in all
      BY <1>6, <2>1 DEF all
    <2>3. <<U, T>> \in order
      BY <1>6 DEF order, StrictSubsetOrdering
    <2> QED BY <1>5, <2>2, <2>3
  <1>8. PICK v \in V : TRUE
    OBVIOUS
  <1>9. PICK m \in T : v <= m
    BY <1>6
  <1>10. ASSUME NEW w \in V PROVE w <= m
    <2>1. PICK b \in T : w <= b
      BY <1>6
    <2>2. m \in Int /\ b \in Int
      BY <1>6
    <2>3. b = m
      BY <1>7, <2>2
    <2> QED BY <2>1, <2>3
  <1> QED BY <1>6, <1>9, <1>10

\* The latest of a character's openings is one of them.
LEMMA LatestIsThere ==
  ASSUME NEW S, IsFiniteSet(S), NEW x, Offers(S, x) # {},
         \A row \in Table(S, "offer") : row.ordinal \in Nat
  PROVE  LatestOffer(S, x) \in Offers(S, x)
  <1> DEFINE T == Offers(S, x)
             V == {row.ordinal : row \in T}
             f == [row \in T |-> row.ordinal]
  <1>1. IsFiniteSet(T)
    BY TableIsFinite DEF Offers, Table
  <1>2. \A row \in T : row.ordinal \in Nat
    BY DEF Offers
  <1>3. T # {}
    OBVIOUS
  <1> HIDE DEF T
  <1>4. DOMAIN f = T /\ V = {f[row] : row \in T}
    OBVIOUS
  <1> HIDE DEF f
  <1>5. IsFiniteSet(V)
    BY <1>1, <1>4, FewImages
  <1>6. V # {} /\ V \subseteq Int
    BY <1>2, <1>3
  <1>7. \A row \in T : row.ordinal \in V
    OBVIOUS
  <1>8. \A v \in V : \E row \in T : row.ordinal = v
    OBVIOUS
  <1> HIDE DEF V
  <1>9. PICK m \in V : \A v \in V : v <= m
    BY <1>5, <1>6, GreatestOf
  <1>10. \E row \in T : \A other \in T : other.ordinal <= row.ordinal
    BY <1>7, <1>8, <1>9
  <1> QED BY ONLY <1>10, Zenon DEF LatestOffer, T

\* Only the run's revisions and the receipts are several in their tables.
LEMMA EntryHolders ==
  ASSUME NEW op, NEW q, NEW r, NEW s, NEW C,
         \A row \in C : row.table = "confirmation", \A a, b \in C : a = b
  PROVE  OneHolder(EntryRows(op, q, r, s) \cup C)
  <1>1. PICK a : a = RunRow(r, 1, "PRE_FIRST_TURN", "CREATE", op, None, None)
    OBVIOUS
  <1>2. PICK b : b = RunRow(r, 2, "PRE_FIRST_TURN", "BIND", op, q.char, q.rev)
    OBVIOUS
  <1>3. PICK c : c = RunRow(r, 3, "ACTIVE", "ATTACH", op, q.char, q.rev)
    OBVIOUS
  <1>4. PICK d : d = RunReceipt(r, 2, "BIND", op, q.char)
    OBVIOUS
  <1>5. PICK e : e = RunReceipt(r, 3, "ATTACH", op, s)
    OBVIOUS
  <1>6. PICK creation : creation = RunCreation(op, r, q.char, q.rev, q.world)
    OBVIOUS
  <1>7. PICK part : part = Participation(s, r, 3)
    OBVIOUS
  <1>8. PICK game : game = Session(s, op, q.world)
    OBVIOUS
  <1>9. PICK native : native = Admission(r, q.world)
    OBVIOUS
  <1> DEFINE rest == {creation, part, game} \cup (IF op.family = "native" THEN {native} ELSE {}) \cup C
  <1>10. EntryRows(op, q, r, s) \cup C = ({a, b, c} \cup {d, e}) \cup rest
    BY <1>1, <1>2, <1>3, <1>4, <1>5, <1>6, <1>7, <1>8, <1>9
       DEF EntryRows, EntryCreation, EntryBinding, EntryActivation
  <1>11. OneHolder({a, b, c})
    <2>1. /\ a.table = "run" /\ b.table = "run" /\ c.table = "run"
          /\ a.run = r /\ b.run = r /\ c.run = r
          /\ a.version = 1 /\ b.version = 2 /\ c.version = 3
      BY <1>1, <1>2, <1>3 DEF RunRow
    <2>2. ASSUME NEW row, row.table = "run" PROVE StoreKeys(row) = {<<"run", row.run, row.version>>}
      BY ONLY <2>2, RowKeys
    <2>3. /\ StoreKeys(a) = {<<"run", r, 1>>} /\ StoreKeys(b) = {<<"run", r, 2>>}
          /\ StoreKeys(c) = {<<"run", r, 3>>}
      BY <2>1, <2>2
    <2> QED BY <2>3 DEF OneHolder
  <1>12. OneHolder({d, e})
    <2>1. /\ d.table = "run_receipt" /\ e.table = "run_receipt" /\ d.run = r /\ e.run = r
          /\ d.version = 2 /\ e.version = 3 /\ d.kind = "BIND" /\ e.kind = "ATTACH"
      BY <1>4, <1>5 DEF RunReceipt
    <2>2. ASSUME NEW row, row.table = "run_receipt"
          PROVE  StoreKeys(row) = {<<"step_op", row.run, row.kind, row.op>>, <<"step", row.run, row.version>>}
      BY ONLY <2>2, RowKeys
    <2>3. /\ StoreKeys(d) = {<<"step_op", r, "BIND", d.op>>, <<"step", r, 2>>}
          /\ StoreKeys(e) = {<<"step_op", r, "ATTACH", e.op>>, <<"step", r, 3>>}
      BY <2>1, <2>2
    <2> QED BY <2>3 DEF OneHolder
  <1>13. /\ \A row \in {a, b, c} : row.table = "run"
         /\ \A row \in {d, e} : row.table = "run_receipt"
    BY <1>1, <1>2, <1>3, <1>4, <1>5 DEF RunRow, RunReceipt
  <1>14. /\ creation.table = "run_creation" /\ part.table = "participation"
         /\ game.table = "session" /\ native.table = "admission"
    BY <1>6, <1>7, <1>8, <1>9 DEF RunCreation, Participation, Session, Admission
  <1>15. /\ \A row \in rest : row.table \notin {"run", "run_receipt"}
         /\ \A x, y \in rest : x.table = y.table => x = y
    BY <1>14
  <1> HIDE DEF rest
  <1>16. OneHolder(rest)
    BY <1>15, OneOfEach
  <1>17. OneHolder({a, b, c} \cup {d, e})
    <2>1. \A x \in {a, b, c}, y \in {d, e} : x.table # y.table
      BY <1>13
    <2>2. PICK A : A = {a, b, c}
      OBVIOUS
    <2>3. PICK B : B = {d, e}
      OBVIOUS
    <2>4. OneHolder(A \cup B)
      BY <1>11, <1>12, <2>1, <2>2, <2>3, HoldersApart
    <2> QED BY <2>2, <2>3, <2>4
  <1>18. PICK A : A = {a, b, c} \cup {d, e}
    OBVIOUS
  <1>19. \A x \in A, y \in rest : x.table # y.table
    BY <1>13, <1>15, <1>18
  <1>20. OneHolder(A \cup rest)
    BY <1>16, <1>17, <1>18, <1>19, HoldersApart
  <1> QED BY <1>10, <1>18, <1>20

-----------------------------------------------------------------------------
(* What the verdicts on characters, entries and openings stage              *)

\* At most one confirmation, of an opening that is there.
ConfirmsOne(D, C) ==
    /\ IsFiniteSet(C) /\ \A a, b \in C : a = b
    /\ \A row \in C : row.table = "confirmation" /\ \E o \in Table(D.rows, "offer") : o.offer = row.offer

\* The revision that is asked for is there.
AsksForOne(D, q) == \E mine \in Revisions(D.rows, q.char) : mine.rev = q.rev

\* An entry stages a run that hangs together, of a revision that is there.
LEMMA EntryStaged ==
  ASSUME NEW D, NEW op, NEW q, NEW r, NEW s, NEW C, NEW R, ConfirmsOne(D, C), AsksForOne(D, q),
         R = EntryRows(op, q, r, s) \cup C
  PROVE  RowsStaged(D, R)
  <1>1. PICK a : a = RunRow(r, 1, "PRE_FIRST_TURN", "CREATE", op, None, None)
    OBVIOUS
  <1>2. PICK b : b = RunRow(r, 2, "PRE_FIRST_TURN", "BIND", op, q.char, q.rev)
    OBVIOUS
  <1>3. PICK c : c = RunRow(r, 3, "ACTIVE", "ATTACH", op, q.char, q.rev)
    OBVIOUS
  <1>4. PICK d : d = RunReceipt(r, 2, "BIND", op, q.char)
    OBVIOUS
  <1>5. PICK e : e = RunReceipt(r, 3, "ATTACH", op, s)
    OBVIOUS
  <1>6. PICK creation : creation = RunCreation(op, r, q.char, q.rev, q.world)
    OBVIOUS
  <1>7. PICK part : part = Participation(s, r, 3)
    OBVIOUS
  <1>8. PICK game : game = Session(s, op, q.world)
    OBVIOUS
  <1>9. PICK native : native = Admission(r, q.world)
    OBVIOUS
  <1>10. /\ R \subseteq {a, b, c} \cup {d, e, creation} \cup {part, game, native} \cup C
         /\ a \in R /\ game \in R /\ C \subseteq R
    BY <1>1, <1>2, <1>3, <1>4, <1>5, <1>6, <1>7, <1>8, <1>9
       DEF EntryRows, EntryCreation, EntryBinding, EntryActivation
  <1>11. /\ a.table = "run" /\ a.run = r /\ a.version = 1 /\ a.char = None
         /\ b.table = "run" /\ b.run = r /\ b.version = 2 /\ b.char = q.char /\ b.rev = q.rev
         /\ c.table = "run" /\ c.run = r /\ c.char = q.char /\ c.rev = q.rev /\ c.status = "ACTIVE"
         /\ d.table = "run_receipt" /\ d.run = r /\ e.table = "run_receipt" /\ e.run = r
    BY <1>1, <1>2, <1>3, <1>4, <1>5 DEF RunRow, RunReceipt
  <1>12. /\ creation.table = "run_creation" /\ part.table = "participation" /\ part.session = s
         /\ game.table = "session" /\ game.session = s /\ native.table = "admission"
    BY <1>6, <1>7, <1>8, <1>9 DEF RunCreation, Participation, Session, Admission
  <1>13. IsFiniteSet(R)
    <2>1. PICK A : A = {a, b, c}
      OBVIOUS
    <2>2. PICK B : B = {d, e, creation}
      OBVIOUS
    <2>3. PICK Z : Z = {part, game, native}
      OBVIOUS
    <2>4. IsFiniteSet(A) /\ IsFiniteSet(B) /\ IsFiniteSet(Z)
      BY <2>1, <2>2, <2>3, FewRows
    <2>5. IsFiniteSet(A \cup B)
      BY <2>4, FS_Union
    <2>6. IsFiniteSet((A \cup B) \cup Z)
      BY <2>4, <2>5, FS_Union
    <2>7. IsFiniteSet(((A \cup B) \cup Z) \cup C)
      BY <2>6, FS_Union DEF ConfirmsOne
    <2>8. R \subseteq ((A \cup B) \cup Z) \cup C
      BY <1>10, <2>1, <2>2, <2>3
    <2> QED BY <2>7, <2>8, FS_Subset
  <1>14. OneHolder(R)
    <2>1. (\A row \in C : row.table = "confirmation") /\ \A x, y \in C : x = y
      BY DEF ConfirmsOne
    <2> QED BY <2>1, EntryHolders
  <1>15. /\ \A row \in Table(R, "run") : row \in {a, b, c}
         /\ \A row \in Table(R, "run_receipt") : row.run = r
         /\ \A row \in Table(R, "confirmation") : row \in C
         /\ \A row \in Table(R, "participation") : row.session = s
         /\ \A row \in R : row.table \in {"run", "run_receipt", "run_creation", "participation",
                                          "session", "admission", "confirmation"}
    BY <1>10, <1>11, <1>12 DEF Table, ConfirmsOne
  <1>16. HangsIn(R, D.rows \cup R)
    <2> DEFINE S == D.rows \cup R
    <2>1. \A row \in Table(R, "run") : row.char # None => \E m \in Revisions(S, row.char) : m.rev = row.rev
      <3>1. PICK mine \in Revisions(D.rows, q.char) : mine.rev = q.rev
        BY DEF AsksForOne
      <3>2. mine \in Revisions(S, q.char)
        BY DEF Revisions, Table
      <3> QED BY <1>11, <1>15, <3>1, <3>2
    <2>2. \A row \in Table(R, "run") :
            row.version >= 3 => row.status \in {"ACTIVE", "TERMINATED", "COMPLETED"}
      <3>1. ~(a.version >= 3) /\ ~(b.version >= 3)
        BY <1>11
      <3> QED BY <1>11, <1>15, <3>1
    <2>3. RunRevisions(S, r) # {}
      BY <1>10, <1>11 DEF RunRevisions, Table
    <2>4. \A row \in Table(R, "run_receipt") : RunRevisions(S, row.run) # {}
      BY <1>15, <2>3
    <2>5. \A row \in Table(R, "confirmation") : \E o \in Table(S, "offer") : o.offer = row.offer
      BY <1>15 DEF Table, ConfirmsOne
    <2>6. Table(R, "revision") = {} /\ Table(R, "offer") = {}
      BY <1>15 DEF Table
    <2>7. \A row \in R : row.table \notin {"turn", "event", "creation_receipt", "mutation_receipt"} \cup WorldTables
      BY <1>15 DEF WorldTables
    <2> HIDE DEF S
    <2>8. HangsIn(R, S)
      BY ONLY <2>1, <2>2, <2>4, <2>5, <2>6, <2>7 DEF HangsIn
    <2> QED BY <2>8 DEF S
  <1>17. s \in Opens(R)
    BY <1>10, <1>12 DEF Opens, Table
  <1>18. Table(R, "event") = {}
    BY <1>15 DEF Table
  <1> QED BY <1>13, <1>14, <1>15, <1>16, <1>17, <1>18 DEF RowsStaged

\* The revision that an entry asks for is the character's current one.
LEMMA EntryOfCharacter ==
  ASSUME NEW D, RowsWhole(D), NEW op, NEW q, NEW r, NEW s, Revisions(D.rows, q.char) # {},
         EntryStage(D.rows, D.rows, op, q, r, s).code = "ok"
  PROVE  AsksForOne(D, q)
  <1>1. ValidCharacter(D.rows, q.char) /\ IsFiniteSet(D.rows)
    BY WholeFamilies
  <1>2. Character(D.rows, q.char) \in Revisions(D.rows, q.char)
    BY <1>1, CurrentCharacter
  <1>3. Character(D.rows, q.char).rev = q.rev
    BY DEF EntryStage, Refuse
  <1> QED BY <1>2, <1>3 DEF AsksForOne

\* Entering, the older way or the native one.
LEMMA EnterStaged ==
  ASSUME NEW D, RowsWhole(D), NEW q, NEW r, NEW s
  PROVE  RowsStaged(D, EnterVerdict(D.rows, D.rows, q, r, s).rows)
  <1> DEFINE S == D.rows
  <1>1. PICK op : op = Op(q)
    OBVIOUS
  <1>2. PICK stage : stage = EntryStage(S, S, op, q, r, s)
    OBVIOUS
  <1>3. EnterVerdict(S, S, q, r, s).rows \in {{}, stage.rows}
    <2>1. \A code : Refuse(code).rows = {}
      BY DEF Refuse
    <2>2. \A result : Answer(result).rows = {}
      BY DEF Answer
    <2>3. \A o, receipt : EntryReplay(S, o, q, receipt).rows = {}
      BY <2>1, <2>2 DEF EntryReplay, LegacyReplay, NativeReplay
    <2> QED BY <1>1, <1>2, <2>1, <2>3 DEF EnterVerdict
  <1>4. CASE EnterVerdict(S, S, q, r, s).rows = {}
    BY <1>4, NothingFits
  <1>5. CASE EnterVerdict(S, S, q, r, s).rows # {}
    <2>1. Owned(S, q) /\ EnterVerdict(S, S, q, r, s).rows = stage.rows
      BY <1>3, <1>5 DEF EnterVerdict, Refuse
    <2>2. Revisions(S, q.char) # {}
      BY <2>1 DEF Owned
    <2>3. stage.code = "ok" /\ stage.rows = EntryRows(op, q, r, s)
      BY <1>2, <1>5, <2>1, EnterVerdictRows
    <2>4. AsksForOne(D, q)
      BY <1>2, <2>2, <2>3, EntryOfCharacter
    <2>5. PICK C : C = {}
      OBVIOUS
    <2>6. ConfirmsOne(D, C)
      BY <2>5, FS_EmptySet DEF ConfirmsOne
    <2>7. PICK R : R = EntryRows(op, q, r, s) \cup C
      OBVIOUS
    <2>8. RowsStaged(D, R)
      BY ONLY <2>4, <2>6, <2>7, EntryStaged
    <2> QED BY <2>1, <2>3, <2>5, <2>7, <2>8
  <1> QED BY <1>4, <1>5

\* Confirming an opening.
LEMMA ConfirmStaged ==
  ASSUME NEW D, RowsWhole(D), NEW q, NEW r, NEW s, OfferFound(D.rows, q)
  PROVE  RowsStaged(D, ConfirmVerdict(D.rows, D.rows, q, r, s).rows)
  <1> DEFINE S == D.rows
  <1>1. PICK w : w = ConfirmVerdict(S, S, q, r, s)
    OBVIOUS
  <1>2. PICK offer : offer = CHOOSE row \in Table(S, "offer") : row.offer = q.offer
    OBVIOUS
  <1>3. offer \in Table(S, "offer") /\ offer.offer = q.offer
    BY <1>2 DEF OfferFound
  <1>4. PICK op : op = FrozenOp(offer)
    OBVIOUS
  <1>5. PICK conf : conf = [table |-> "confirmation", offer |-> q.offer, pick |-> q.pick, run |-> r]
    OBVIOUS
  <1>6. PICK stage : stage = EntryStage(S, S, op, offer, r, s)
    OBVIOUS
  <1>7. w.rows = {} \/ w.rows = EntryRows(op, offer, r, s) \cup {conf}
    BY <1>1, <1>2, <1>4, <1>5, ConfirmVerdictRows
  <1>8. w.rows # {} => stage.code = "ok"
    <2>1. \A code : Refuse(code).rows = {}
      BY DEF Refuse
    <2>2. \A result : Answer(result).rows = {}
      BY DEF Answer
    <2>3. stage.rows = IF stage.code = "ok" THEN EntryRows(op, offer, r, s) ELSE {}
      BY <1>6, EnterVerdictRows
    <2> DEFINE done == CHOOSE row \in Confirmations(S, q.offer) : TRUE
               replay == EntryReplay(S, op, offer, CHOOSE row \in RunCreations(S, op) : TRUE).code
    <2>4. w = IF ~Owned(S, q) THEN Refuse("PLAYER_CHARACTER_NOT_FOUND")
              ELSE IF q.pick \notin LegalPicks THEN Refuse("INVALID_TALENT_SELECTION")
              ELSE IF Confirmations(S, q.offer) # {}
              THEN IF done.pick # q.pick THEN Refuse("IDEMPOTENCY_CONFLICT")
                   ELSE IF RunCreations(S, op) = {} \/ replay # "ok" THEN Refuse("INTEGRITY")
                   ELSE Answer(<<"confirmed", q.offer, done.run>>)
              ELSE IF LatestOffer(S, q.char).offer # q.offer THEN Refuse("OPENING_PREPARATION_STALE")
              ELSE IF stage.code # "ok" THEN stage
              ELSE Apply(<<"confirmed", q.offer, r>>, stage.rows \cup {conf})
      BY <1>1, <1>2, <1>4, <1>5, <1>6 DEF ConfirmVerdict
    <2> HIDE DEF done, replay
    <2> QED BY <2>1, <2>2, <2>3, <2>4
  <1>9. CASE w.rows = {}
    BY <1>1, <1>9, NothingFits
  <1>10. CASE w.rows # {}
    <2>1. Revisions(S, offer.char) # {}
      BY <1>3 DEF RowsWhole, FamiliesAreWhole, RecordsAreWhole, OpeningsAreWhole, ValidOpening
    <2>2. AsksForOne(D, offer)
      BY <1>6, <1>8, <1>10, <2>1, EntryOfCharacter
    <2>3. PICK C : C = {conf}
      OBVIOUS
    <2>4. ConfirmsOne(D, C)
      <3>1. IsFiniteSet(C)
        BY <2>3, FewRows
      <3>2. \A a, b \in C : a = b
        BY ONLY <2>3
      <3>3. \A row \in C : row.table = "confirmation" /\ row.offer = q.offer
        BY ONLY <2>3, <1>5
      <3>4. \A row \in C : \E o \in Table(D.rows, "offer") : o.offer = row.offer
        BY <1>3, <3>3
      <3> QED BY ONLY <3>1, <3>2, <3>3, <3>4 DEF ConfirmsOne
    <2>5. PICK R : R = EntryRows(op, offer, r, s) \cup C
      OBVIOUS
    <2>6. RowsStaged(D, R)
      BY ONLY <2>2, <2>4, <2>5, EntryStaged
    <2> QED BY <1>1, <1>7, <1>10, <2>3, <2>5, <2>6
  <1> QED BY <1>9, <1>10

-----------------------------------------------------------------------------
(* What the other services of the ledger stage                              *)

\* Creating a character, with its player's binding if there is none.
LEMMA CreateStaged ==
  ASSUME NEW D, NEW q, NEW x
  PROVE  RowsStaged(D, Registering(D.rows, q, CreateVerdict(D.rows, q, x)).rows)
  <1>1. PICK v : v = CreateVerdict(D.rows, q, x)
    OBVIOUS
  <1>2. v.rows = {} \/ v.rows = CreationRows(q, x)
    <2>1. \A receipt : CreateReuse(q, receipt).rows = {}
      BY DEF CreateReuse, Refuse, Answer
    <2> QED BY <1>1, <2>1 DEF CreateVerdict, Apply
  <1>3. "rows" \in DOMAIN v
    BY <1>1 DEF CreateVerdict, CreateReuse, Refuse, Answer, Apply
  <1>4. CASE v.rows = {}
    BY <1>1, <1>4, NothingFits DEF Registering
  <1>5. CASE v.rows # {}
    <2>1. PICK R : R = CreationRows(q, x) \cup ({Binding(q.who)} \ D.rows)
      OBVIOUS
    <2>2. Registering(D.rows, q, v).rows = R
      BY <1>2, <1>3, <1>5, <2>1 DEF Registering
    <2>3. RowsStaged(D, R)
      BY ONLY <2>1, CreationStaged
    <2> QED BY <1>1, <2>2, <2>3
  <1> QED BY <1>4, <1>5

\* Changing a character's life.
LEMMA MutateStaged ==
  ASSUME NEW D, RowsWhole(D), NEW q
  PROVE  RowsStaged(D, MutateVerdict(D.rows, D.rows, q).rows)
  <1>1. PICK v : v = MutateVerdict(D.rows, D.rows, q)
    OBVIOUS
  <1>2. \A code : Refuse(code).rows = {}
    BY DEF Refuse
  <1>3. \A result : Answer(result).rows = {}
    BY DEF Answer
  <1>4. \A m, receipt : MutateReuse(m, q, receipt).rows = {}
    BY <1>2, <1>3 DEF MutateReuse
  <1>5. v.rows # {} => Owned(D.rows, q) /\ v.rows = MutationRows(Character(D.rows, q.char), q)
    BY <1>1, <1>2, <1>4 DEF MutateVerdict, Apply
  <1>6. CASE v.rows = {}
    BY <1>1, <1>6, NothingFits
  <1>7. CASE v.rows # {}
    <2>1. Revisions(D.rows, q.char) # {}
      BY <1>5, <1>7 DEF Owned
    <2>2. PICK R : R = MutationRows(Character(D.rows, q.char), q)
      OBVIOUS
    <2>3. RowsStaged(D, R)
      BY ONLY <2>1, <2>2, RowsWhole(D), MutationStaged
    <2> QED BY <1>1, <1>5, <1>7, <2>2, <2>3
  <1> QED BY <1>6, <1>7

\* A session outside any run.
LEMMA CreateSessionStaged ==
  ASSUME NEW D, NEW q, NEW s
  PROVE  RowsStaged(D, CreateSessionVerdict(D.rows, q, s).rows)
  <1>1. PICK v : v = CreateSessionVerdict(D.rows, q, s)
    OBVIOUS
  <1>2. \A row : SessionReplay(q, row).rows = {}
    BY DEF SessionReplay, Refuse, Answer
  <1>3. PICK row : row = Session(s, Op(q), q.body)
    OBVIOUS
  <1>4. v.rows = {} \/ v.rows = {row}
    BY <1>1, <1>2, <1>3 DEF CreateSessionVerdict, Apply
  <1>5. row.table = "session"
    BY <1>3 DEF Session
  <1>6. RowsStaged(D, {row})
    BY <1>5, AloneStaged
  <1> QED BY <1>1, <1>4, <1>6, NothingFits

\* Preparing an opening: the next of its character.
LEMMA PrepareStaged ==
  ASSUME NEW D, RowsWhole(D), NEW q, NEW o
  PROVE  RowsStaged(D, PrepareVerdict(D.rows, D.rows, q, o).rows)
  <1> DEFINE S == D.rows
             n == IF Offers(S, q.char) = {} THEN 1 ELSE LatestOffer(S, q.char).ordinal + 1
             v == PrepareVerdict(S, S, q, o)
             active == ActiveRunsNamed(S, S, q.char)
             prior == CHOOSE row \in Requested(S, q) : TRUE
             latest == LatestOffer(S, q.char)
             m == Character(S, q.char)
             holds == \E row \in Offers(S, q.char) :
                         /\ row = latest
                         /\ \E done \in Confirmations(S, row.offer) : done.run \in active
  <1>1. \A code : Refuse(code).rows = {}
    BY DEF Refuse
  <1>2. \A result : Answer(result).rows = {}
    BY DEF Answer
  <1>3. \A result, rows : Apply(result, rows).rows = rows
    BY DEF Apply
  <1>4. v = IF ~Owned(S, q) THEN Refuse("PLAYER_CHARACTER_NOT_FOUND")
            ELSE IF Requested(S, q) # {}
            THEN IF prior.char # q.char THEN Refuse("IDEMPOTENCY_CONFLICT")
                 ELSE Answer(<<"offer", prior.offer>>)
            ELSE IF PendingOffer(S, q.char) THEN Answer(<<"offer", latest.offer>>)
            ELSE IF active # {}
            THEN IF holds THEN Answer(<<"offer", latest.offer>>)
                 ELSE Refuse("PLAYER_CHARACTER_NOT_ELIGIBLE")
            ELSE IF m.life # "ACTIVE" \/ m.rev = MaxRevision
            THEN Refuse("PLAYER_CHARACTER_NOT_ELIGIBLE")
            ELSE IF q.rev # m.rev THEN Refuse("PLAYER_CHARACTER_STALE")
            ELSE IF q.world \notin Worlds THEN Refuse("INVALID_ENTRY_WORLD")
            ELSE Apply(<<"offer", o>>, {OfferRow(o, q, n)})
    BY DEF PrepareVerdict
  <1>5. n \in Nat /\ n >= 1
    <2>1. CASE Offers(S, q.char) = {}
      BY <2>1
    <2>2. CASE Offers(S, q.char) # {}
      <3>1. \A row \in Table(S, "offer") : row.ordinal \in Nat
        BY DEF RowsWhole, HangsIn
      <3>2. IsFiniteSet(S)
        BY DEF RowsWhole
      <3>3. LatestOffer(S, q.char) \in Offers(S, q.char)
        BY <2>2, <3>1, <3>2, LatestIsThere
      <3>4. LatestOffer(S, q.char) \in Table(S, "offer")
        BY <3>3 DEF Offers
      <3>5. LatestOffer(S, q.char).ordinal \in Nat
        BY <3>1, <3>4
      <3> QED BY <2>2, <3>5
    <2> QED BY <2>1, <2>2
  <1>6. PICK k : k = n
    OBVIOUS
  <1> HIDE DEF n, v, active, prior, latest, m, holds
  <1>7. PICK row : row = OfferRow(o, q, k)
    OBVIOUS
  <1>8. v.rows = {} \/ v.rows = {row}
    BY <1>1, <1>2, <1>3, <1>4, <1>6, <1>7
  <1>9. row.table = "offer" /\ row.ordinal = k
    BY <1>7 DEF OfferRow
  <1>10. RowsStaged(D, {row})
    BY <1>5, <1>6, <1>9, AloneStaged
  <1>11. RowsStaged(D, v.rows)
    BY <1>8, <1>10, NothingFits
  <1> QED BY <1>11 DEF v

\* A unit of work that stages nothing.
LEMMA EmptyFits ==
  ASSUME NEW D, NEW held
  PROVE  UnitFits(D, Empty, held)
  <1>1. PICK st : st = Empty
    OBVIOUS
  <1>2. PICK R : R = {}
    OBVIOUS
  <1>3. RowsStaged(D, R)
    BY <1>2, NothingFits
  <1>4. Opens(R) = {}
    BY <1>2 DEF Opens, Table
  <1>5. Firsts(R) = {}
    BY <1>4 DEF Firsts
  <1>6. /\ st.rows = {} /\ DOMAIN st.opened = {} /\ DOMAIN st.saved = {} /\ DOMAIN st.progress = {}
        /\ st.jobs = {} /\ DOMAIN st.moved = {}
    BY <1>1 DEF Empty
  <1>7. /\ st.rows = R \cup Firsts(R) /\ DOMAIN st.opened = Opens(R)
        /\ \A s \in Opens(R) : st.opened[s].version = 0
        /\ DOMAIN st.moved \subseteq NativeRuns(D)
    BY <1>2, <1>4, <1>5, <1>6
  <1>8. UnitFits(D, st, held)
    BY ONLY <1>3, <1>6, <1>7, CarriedFits
  <1> QED BY <1>1, <1>8

\* The operations on characters, entries, openings and sessions.
LedgerOperations ==
    {"create", "mutate", "enter", "admit", "prepare", "confirm", "create_session"}

\* Whatever a service of the ledger decides may be staged.
LEMMA LedgerStaged ==
  ASSUME NEW D, RowsWhole(D), NEW q, NEW t, NEW held, q.op \in LedgerOperations
  PROVE  UnitFits(D, Verdict(D, q, t).staged, held)
  <1>1. PICK x : x = Fresh
    OBVIOUS
  <1>2. ASSUME NEW w, Verdict(D, q, t) = Lift(w), RowsStaged(D, w.rows)
        PROVE  UnitFits(D, Verdict(D, q, t).staged, held)
    <2>1. UnitFits(D, Lift(w).staged, held)
      BY ONLY <1>2, LiftFits
    <2> QED BY <1>2, <2>1
  <1>3. CASE q.op = "create"
    <2>1. PICK w : w = Registering(D.rows, q, CreateVerdict(D.rows, q, x))
      OBVIOUS
    <2>2. Verdict(D, q, t) = Lift(w)
      BY <1>1, <1>3, <2>1 DEF Verdict
    <2>3. RowsStaged(D, w.rows)
      BY <2>1, CreateStaged
    <2> QED BY <1>2, <2>2, <2>3
  <1>4. CASE q.op = "mutate"
    <2>1. PICK w : w = MutateVerdict(D.rows, D.rows, q)
      OBVIOUS
    <2>2. Verdict(D, q, t) = Lift(w)
      BY <1>4, <2>1 DEF Verdict
    <2>3. RowsStaged(D, w.rows)
      BY <2>1, MutateStaged
    <2> QED BY <1>2, <2>2, <2>3
  <1>5. CASE q.op \in {"enter", "admit"}
    <2>1. PICK w : w = EnterVerdict(D.rows, D.rows, q, x, x)
      OBVIOUS
    <2>2. Verdict(D, q, t) = Lift(w)
      BY <1>1, <1>5, <2>1 DEF Verdict
    <2>3. RowsStaged(D, w.rows)
      BY <2>1, EnterStaged
    <2> QED BY <1>2, <2>2, <2>3
  <1>6. CASE q.op = "prepare"
    <2>1. PICK w : w = PrepareVerdict(D.rows, D.rows, q, x)
      OBVIOUS
    <2>2. Verdict(D, q, t) = Lift(w)
      BY <1>1, <1>6, <2>1 DEF Verdict
    <2>3. RowsStaged(D, w.rows)
      BY <2>1, PrepareStaged
    <2> QED BY <1>2, <2>2, <2>3
  <1>7. CASE q.op = "confirm" /\ OfferFound(D.rows, q)
    <2>1. PICK w : w = ConfirmVerdict(D.rows, D.rows, q, x, x)
      OBVIOUS
    <2>2. Verdict(D, q, t) = Lift(w)
      BY <1>1, <1>7, <2>1 DEF Verdict
    <2>3. RowsStaged(D, w.rows)
      BY <1>7, <2>1, ConfirmStaged
    <2> QED BY <1>2, <2>2, <2>3
  <1>8. CASE q.op = "confirm" /\ ~OfferFound(D.rows, q)
    <2>1. Verdict(D, q, t).staged = Empty
      BY <1>8, StagedRows DEF Verdict
    <2> QED BY <2>1, EmptyFits
  <1>9. CASE q.op = "create_session"
    <2>1. PICK w : w = CreateSessionVerdict(D.rows, q, x)
      OBVIOUS
    <2>2. Verdict(D, q, t) = Lift(w)
      BY <1>1, <1>9, <2>1 DEF Verdict
    <2>3. RowsStaged(D, w.rows)
      BY <2>1, CreateSessionStaged
    <2> QED BY <1>2, <2>2, <2>3
  <1> QED BY <1>3, <1>4, <1>5, <1>6, <1>7, <1>8, <1>9 DEF LedgerOperations

-----------------------------------------------------------------------------
(* What turns and narrative jobs stage                                      *)

\* The next event of a session follows those of its turns.
LEMMA NextEventIs ==
  ASSUME NEW D, NEW s, SessionOk(D, s)
  PROVE  NextEvent(D, s) = D.sess[s] + 2
  <1>1. PICK V : V = {row.seq : row \in {e \in Table(D.rows, "event") : e.session = s}}
    OBVIOUS
  <1>2. V = {row.seq : row \in EventsOf(D.rows, s)}
    BY <1>1 DEF EventsOf
  <1>3. PICK n \in Nat : n = D.sess[s]
    BY DEF SessionOk
  <1>4. V = 1..n + 1
    BY <1>2, <1>3 DEF SessionOk
  <1>5. n + 1 \in V /\ \A v \in V : n + 1 >= v
    BY <1>3, <1>4
  <1>6. Max(V) \in V /\ \A v \in V : Max(V) >= v
    <2>1. \E v \in V : \A w \in V : v >= w
      BY <1>5
    <2> QED BY ONLY <2>1, Zenon DEF Max
  <1>7. Max(V) = n + 1
    <2>1. Max(V) \in 1..n + 1 /\ Max(V) >= n + 1
      BY <1>4, <1>5, <1>6
    <2> QED BY <1>3, <2>1
  <1>8. NextEvent(D, s) = Max(V) + 1
    BY <1>1 DEF NextEvent
  <1> QED BY <1>3, <1>7, <1>8

\* The kept response of a session that is there.
LEMMA KeptStaged ==
  ASSUME NEW D, RowsWhole(D), NEW R, IsFiniteSet(R), R # {}, NEW s \in DOMAIN D.sess,
         \A row \in R : row.table \in {"turn", "event"} /\ row.session = s,
         \A a, b \in R : a.table = b.table => a = b
  PROVE  HangsIn(R, D.rows \cup R) /\ OneHolder(R) /\ Opens(R) = {} /\ Table(R, "participation") = {}
  <1> DEFINE S == D.rows \cup R
  <1>1. \E p \in Table(S, "session") : p.session = s
    BY DEF RowsWhole, Opens, Table
  <1>2. \A row \in R : row.table \in {"turn", "event"} => \E p \in Table(S, "session") : p.session = row.session
    BY <1>1
  <1>3. \A row \in R : row.table \in {"turn", "event"}
    OBVIOUS
  <1>4. /\ Table(R, "revision") = {} /\ Table(R, "run") = {} /\ Table(R, "run_receipt") = {}
        /\ Table(R, "confirmation") = {} /\ Table(R, "offer") = {} /\ Table(R, "participation") = {}
        /\ Table(R, "session") = {}
    BY <1>3 DEF Table
  <1>5. \A row \in R : row.table \notin {"creation_receipt", "mutation_receipt"} \cup WorldTables
    BY <1>3 DEF WorldTables
  <1> HIDE DEF S
  <1>6. HangsIn(R, S)
    BY ONLY <1>2, <1>4, <1>5 DEF HangsIn
  <1>7. OneHolder(R)
    BY OneOfEach
  <1>8. Opens(R) = {}
    BY <1>4 DEF Opens
  <1> QED BY <1>4, <1>6, <1>7, <1>8 DEF S

\* A response that changes nothing.
LEMMA UnchangedFits ==
  ASSUME NEW D, RowsWhole(D), NEW q, q.session \in DOMAIN D.sess, NEW held
  PROVE  UnitFits(D, Unchanged(D, q).staged, held)
  <1>1. PICK row : row = Turn(q.session, q.key, q.body)
    OBVIOUS
  <1>2. PICK R : R = {row}
    OBVIOUS
  <1>3. PICK st : st = [Empty EXCEPT !.rows = R]
    OBVIOUS
  <1>4. Unchanged(D, q).staged \in {Empty, st}
    BY <1>1, <1>2, <1>3, StagedRows DEF Unchanged
  <1>5. /\ st.rows = R /\ DOMAIN st.opened = {} /\ DOMAIN st.saved = {} /\ DOMAIN st.progress = {}
        /\ st.jobs = {} /\ DOMAIN st.moved = {}
    BY <1>3 DEF Empty
  <1>6. row.table = "turn" /\ row.session = q.session
    BY <1>1 DEF Turn
  <1>7. IsFiniteSet(R) /\ R # {}
    BY <1>2, FewRows
  <1>8. /\ \A a \in R : a.table \in {"turn", "event"} /\ a.session = q.session
        /\ \A a, b \in R : a.table = b.table => a = b
    BY <1>2, <1>6
  <1>9. PICK s \in DOMAIN D.sess : s = q.session
    OBVIOUS
  <1>10. HangsIn(R, D.rows \cup R) /\ OneHolder(R) /\ Opens(R) = {} /\ Table(R, "participation") = {}
    BY ONLY RowsWhole(D), <1>7, <1>8, <1>9, KeptStaged
  <1>11. Table(R, "event") = {}
    BY <1>2, <1>6 DEF Table
  <1>12. RowsStaged(D, R)
    BY <1>7, <1>10, <1>11 DEF RowsStaged
  <1>13. Firsts(R) = {}
    BY <1>10 DEF Firsts
  <1>14. /\ st.rows = R \cup Firsts(R) /\ DOMAIN st.opened = Opens(R)
         /\ \A z \in Opens(R) : st.opened[z].version = 0
         /\ DOMAIN st.moved \subseteq NativeRuns(D)
    BY <1>5, <1>10, <1>13
  <1>15. UnitFits(D, st, held)
    BY ONLY <1>5, <1>12, <1>14, CarriedFits
  <1> QED BY <1>4, <1>15, EmptyFits

\* The session's job is committed with its turn; a session outside any run makes progress.
JobEnds(D, st, s) ==
    \E change \in st.jobs :
        /\ st.jobs = {change} /\ Replaces(change) /\ change.new.status = "COMMITTED"
        /\ change.old.session = s
        /\ DOMAIN st.progress = IF Outside(D, s) THEN {s} ELSE {}

\* What a turn writes to a session that is locked, with the end of its job or without.
LEMMA PlayedFits ==
  ASSUME NEW D, StoreWhole(D), NEW s \in DOMAIN D.sess, NEW held, SessionLock(s) \in held,
         NEW st, NEW turn, turn.table = "turn", turn.session = s,
         NEW event, event = Event(s, D.sess[s] + 2), st.rows = {turn, event},
         DOMAIN st.opened = {}, DOMAIN st.moved = {}, DOMAIN st.saved = {s},
         st.saved[s].version = D.sess[s] + 1,
         \A z \in DOMAIN st.progress : st.progress[z] \in Nat,
         \A change \in st.jobs : IsJob(change.new),
         \/ st.jobs = {} /\ DOMAIN st.progress = {} /\ ActiveJobs(D, s) = {}
         \/ JobEnds(D, st, s)
  PROVE  UnitFits(D, st, held)
  <1>1. PICK n \in Nat : n = D.sess[s]
    BY DEF StoreWhole, MapsWhole, SessionOk
  <1>2. PICK R : R = {turn, event}
    OBVIOUS
  <1>3. event.table = "event" /\ event.session = s /\ event.seq = n + 2
    BY <1>1 DEF Event
  <1>4. IsFiniteSet(R) /\ R # {}
    BY <1>2, FewRows
  <1>5. /\ \A a \in R : a.table \in {"turn", "event"} /\ a.session = s
        /\ \A a, b \in R : a.table = b.table => a = b
    BY <1>2, <1>3
  <1>6. RowsWhole(D)
    BY DEF StoreWhole
  <1>7. HangsIn(R, D.rows \cup R) /\ OneHolder(R) /\ Opens(R) = {} /\ Table(R, "participation") = {}
    BY ONLY <1>4, <1>5, <1>6, s \in DOMAIN D.sess, KeptStaged
  <1>8. RowsFit(D, st)
    BY <1>2, <1>4, <1>7 DEF RowsFit
  <1>9. st.saved[s].version = n + 1 /\ (n + 1) + 1 = n + 2 /\ n + 1 \in Nat
    BY <1>1
  <1>10. EventsFit(st)
    <2>1. \A row \in Table(st.rows, "event") : row = event
      BY <1>3 DEF Table
    <2>2. event = Event(s, st.saved[s].version + 1)
      BY <1>1, <1>9
    <2>3. event.seq = st.saved[s].version + 1
      BY <1>3, <1>9
    <2>4. \A row \in Table(st.rows, "event") :
             row.session \in DOMAIN st.saved /\ row.seq = st.saved[row.session].version + 1
      BY <1>3, <2>1, <2>3
    <2>5. \A z \in DOMAIN st.saved : Event(z, st.saved[z].version + 1) \in st.rows
      BY <2>2
    <2> QED BY <2>4, <2>5 DEF EventsFit
  <1>11. \E row \in Table(st.rows, "turn") : row.session = s
    BY DEF Table
  <1>12. Plays(D, st, s, held)
    BY <1>9, <1>11 DEF Plays, JobEnds
  <1> QED BY <1>8, <1>10, <1>12 DEF UnitFits

\* The end of a turn.
LEMMA AdvancedIs ==
  ASSUME NEW D, StoreWhole(D), NEW q, q.session \in DOMAIN D.sess
  PROVE  LET st == Advanced(D, q) IN
         /\ st.rows = {Turn(q.session, q.key, q.body), Event(q.session, D.sess[q.session] + 2)}
         /\ DOMAIN st.saved = {q.session}
         /\ st.saved[q.session].version = D.sess[q.session] + 1
         /\ DOMAIN st.opened = {} /\ DOMAIN st.moved = {} /\ DOMAIN st.progress = {} /\ st.jobs = {}
  <1>1. SessionOk(D, q.session)
    BY DEF StoreWhole, MapsWhole
  <1>2. NextEvent(D, q.session) = D.sess[q.session] + 2
    BY <1>1, NextEventIs
  <1>3. PICK after : after = After(D, q.session, q.pick)
    OBVIOUS
  <1>4. after.version = D.snap[q.session].version + 1
    BY <1>3 DEF After, Image
  <1>5. PICK image : image = Only(q.session, after)
    OBVIOUS
  <1>6. DOMAIN image = {q.session} /\ image[q.session] = after
    BY <1>5 DEF Only
  <1>7. PICK st : st = Advanced(D, q)
    OBVIOUS
  <1>8. /\ st.rows = {Turn(q.session, q.key, q.body), Event(q.session, D.sess[q.session] + 2)}
        /\ st.saved = image
        /\ DOMAIN st.opened = {} /\ DOMAIN st.moved = {} /\ DOMAIN st.progress = {} /\ st.jobs = {}
    BY <1>2, <1>3, <1>5, <1>7 DEF Advanced, Empty
  <1>9. D.snap[q.session].version = D.sess[q.session]
    BY <1>1 DEF SessionOk
  <1> QED BY <1>4, <1>6, <1>7, <1>8, <1>9


\* The session's lock is held by what locks it.
LEMMA HeldSession ==
  ASSUME NEW D, NEW q, NEW held, q.op \in {"turn", "prepare_job", "finish"}, Missing(D, q, held) = {}
  PROVE  SessionLock(q.session) \in held
  <1>1. Found(D, q)
    BY StepOperations DEF Found
  <1>2. LockOrder(D, q) = <<SessionLock(q.session)>>
    BY <1>1, StepOperations DEF LockOrder
  <1>3. PICK order : order = LockOrder(D, q)
    OBVIOUS
  <1>4. 1 \in DOMAIN order /\ order[1] = SessionLock(q.session)
    BY <1>2, <1>3
  <1>5. \A k \in DOMAIN order : order[k] \in held
    BY <1>3 DEF Missing
  <1> QED BY <1>4, <1>5

\* What a turn stages fits.
LEMMA TurnFits ==
  ASSUME NEW D, StoreWhole(D), NEW q, NEW held, SessionLock(q.session) \in held
  PROVE  UnitFits(D, TurnVerdict(D, q).staged, held)
  <1>1. PICK v : v = TurnVerdict(D, q)
    OBVIOUS
  <1>2. \A code : Deny(code).staged = Empty
    BY StagedRows
  <1>3. \A result : Tell(result).staged = Empty
    BY StagedRows
  <1>4. TurnReplay(D, q).staged = Empty
    BY <1>2, <1>3 DEF TurnReplay
  <1>5. PICK st : st = Advanced(D, q)
    OBVIOUS
  <1>6. Stage(<<"turn", q.session>>, st).staged = st
    BY StagedRows
  <1>7. \/ v.staged = Empty
        \/ q.session \in DOMAIN D.sess /\ v.staged = Unchanged(D, q).staged
        \/ q.session \in DOMAIN D.sess /\ ActiveJobs(D, q.session) = {} /\ v.staged = st
    BY <1>1, <1>2, <1>3, <1>4, <1>5, <1>6 DEF TurnVerdict
  <1>8. CASE v.staged = Empty
    BY <1>1, <1>8, EmptyFits
  <1>9. CASE q.session \in DOMAIN D.sess /\ v.staged = Unchanged(D, q).staged
    <2>1. RowsWhole(D)
      BY DEF StoreWhole
    <2> QED BY <1>1, <1>9, <2>1, UnchangedFits
  <1>10. CASE q.session \in DOMAIN D.sess /\ ActiveJobs(D, q.session) = {} /\ v.staged = st
    <2>1. PICK s \in DOMAIN D.sess : s = q.session
      BY <1>10
    <2>2. PICK turn : turn = Turn(q.session, q.key, q.body)
      OBVIOUS
    <2>3. PICK event : event = Event(s, D.sess[s] + 2)
      OBVIOUS
    <2>4. turn.table = "turn" /\ turn.session = s
      BY <2>1, <2>2 DEF Turn
    <2>5. /\ st.rows = {turn, event} /\ DOMAIN st.saved = {s}
          /\ st.saved[s].version = D.sess[s] + 1
          /\ DOMAIN st.opened = {} /\ DOMAIN st.moved = {} /\ DOMAIN st.progress = {} /\ st.jobs = {}
      BY <1>5, <2>1, <2>2, <2>3, AdvancedIs
    <2>6. /\ \A z \in DOMAIN st.progress : st.progress[z] \in Nat
          /\ \A change \in st.jobs : IsJob(change.new)
      BY <2>5
    <2>7. SessionLock(s) \in held /\ ActiveJobs(D, s) = {}
      BY <1>10, <2>1
    <2>8. UnitFits(D, st, held)
      BY ONLY StoreWhole(D), s \in DOMAIN D.sess, <2>3, <2>4, <2>5, <2>6, <2>7, PlayedFits
    <2> QED BY <1>1, <1>10, <2>8
  <1> QED BY <1>7, <1>8, <1>9, <1>10

\* One job is new or replaced, and nothing else is staged.
LEMMA JobFits ==
  ASSUME NEW D, NEW held, NEW change, IsJob(change.new), Moves(change) \/ Prepares(D, change, held),
         NEW st, st = [Empty EXCEPT !.jobs = {change}]
  PROVE  UnitFits(D, st, held)
  <1>1. /\ st.rows = {} /\ DOMAIN st.opened = {} /\ DOMAIN st.saved = {} /\ DOMAIN st.progress = {}
        /\ st.jobs = {change} /\ DOMAIN st.moved = {}
    BY DEF Empty
  <1>2. UnitFits(D, Empty, held)
    BY EmptyFits
  <1>3. PICK e : e = Empty
    OBVIOUS
  <1>4. /\ e.rows = {} /\ DOMAIN e.opened = {} /\ DOMAIN e.saved = {} /\ DOMAIN e.moved = {}
    BY <1>3 DEF Empty
  <1>5. RowsFit(D, e) /\ EventsFit(e)
    BY <1>2, <1>3 DEF UnitFits
  <1>6. RowsFit(D, st)
    BY <1>1, <1>4, <1>5 DEF RowsFit
  <1>7. EventsFit(st)
    BY <1>1 DEF EventsFit, Table
  <1>8. JobsStaged(D, st, held)
    BY <1>1 DEF JobsStaged
  <1> QED BY <1>1, <1>6, <1>7, <1>8 DEF UnitFits

\* What preparing a job stages fits.
LEMMA PrepareJobFits ==
  ASSUME NEW D, StoreWhole(D), NEW q, NEW held, SessionLock(q.session) \in held
  PROVE  UnitFits(D, PrepareJobVerdict(D, q).staged, held)
  <1>1. PICK v : v = PrepareJobVerdict(D, q)
    OBVIOUS
  <1>2. \A code : Deny(code).staged = Empty
    BY StagedRows
  <1>3. \A result : Tell(result).staged = Empty
    BY StagedRows
  <1>4. TurnReplay(D, q).staged = Empty
    BY <1>2, <1>3 DEF TurnReplay
  <1>5. PICK new : new = JobOn(q, D.sess[q.session])
    OBVIOUS
  <1>6. PICK change : change = [old |-> NoJob, new |-> new]
    OBVIOUS
  <1>7. PICK st : st = [Empty EXCEPT !.jobs = {change}]
    OBVIOUS
  <1>8. Stage(<<"job", q.session>>, st).staged = st
    BY StagedRows
  <1>9. \/ v.staged = Empty
        \/ q.session \in DOMAIN D.sess /\ v.staged = Unchanged(D, q).staged
        \/ /\ q.session \in DOMAIN D.sess /\ ActiveJobs(D, q.session) = {}
           /\ D.snap[q.session].ending = "open" /\ v.staged = st
    BY <1>1, <1>2, <1>3, <1>4, <1>5, <1>6, <1>7, <1>8 DEF PrepareJobVerdict
  <1>10. CASE v.staged = Empty
    BY <1>1, <1>10, EmptyFits
  <1>11. CASE q.session \in DOMAIN D.sess /\ v.staged = Unchanged(D, q).staged
    <2>1. RowsWhole(D)
      BY DEF StoreWhole
    <2> QED BY <1>1, <1>11, <2>1, UnchangedFits
  <1>12. CASE /\ q.session \in DOMAIN D.sess /\ ActiveJobs(D, q.session) = {}
              /\ D.snap[q.session].ending = "open" /\ v.staged = st
    <2>1. /\ new.session = q.session /\ new.status = "PREPARED" /\ new.version = D.sess[q.session]
          /\ IsJob(new)
      BY <1>5 DEF JobOn, IsJob
    <2>2. change.old = NoJob /\ change.new = new
      BY <1>6
    <2>3. Prepares(D, change, held)
      BY <1>12, <2>1, <2>2 DEF Prepares
    <2>4. IsJob(change.new)
      BY <2>1, <2>2
    <2>5. UnitFits(D, st, held)
      BY ONLY <1>7, <2>3, <2>4, JobFits
    <2> QED BY <1>1, <1>12, <2>5
  <1> QED BY <1>9, <1>10, <1>11, <1>12

\* The job of a request is the only one.
LEMMA JobIs ==
  ASSUME NEW D, MapsWhole(D), NEW q, NEW j \in JobOf(D, q)
  PROVE  /\ (CHOOSE x \in JobOf(D, q) : TRUE) = j
         /\ IsJob(j) /\ j.session = q.session /\ j \in D.jobs
  <1>1. \A x, y \in D.jobs : x.session = y.session /\ x.key = y.key => x = y
    BY DEF MapsWhole, JobsCheck
  <1>2. \A x \in JobOf(D, q) : x = j
    BY <1>1 DEF JobOf
  <1>3. (CHOOSE x \in JobOf(D, q) : TRUE) \in JobOf(D, q)
    OBVIOUS
  <1> QED BY <1>2, <1>3 DEF JobOf, MapsWhole

\* A job with another status and lease.
LEMMA JobChanged ==
  ASSUME NEW job, IsJob(job), job.status \in Underway, NEW status, NEW lease
  PROVE  \E change : /\ Replaced(job, status, lease) = [Empty EXCEPT !.jobs = {change}]
                     /\ change.old = job /\ change.new.status = status
                     /\ Replaces(change) /\ IsJob(change.new)
  <1>1. PICK new : new = [job EXCEPT !.status = status, !.lease = lease]
    OBVIOUS
  <1>2. PICK change : change = [old |-> job, new |-> new]
    OBVIOUS
  <1>3. /\ new.session = job.session /\ new.key = job.key /\ new.version = job.version
        /\ new.status = status /\ DOMAIN new = DOMAIN job
    BY <1>1 DEF IsJob
  <1>4. change.old = job /\ change.new = new
    BY <1>2
  <1>5. Replaces(change) /\ IsJob(change.new)
    BY <1>3, <1>4 DEF Replaces, IsJob
  <1>6. Replaced(job, status, lease) = [Empty EXCEPT !.jobs = {change}]
    BY <1>1, <1>2 DEF Replaced
  <1> QED BY <1>3, <1>4, <1>5, <1>6

\* A job that is claimed, proposed or given up.
LEMMA MovedJobFits ==
  ASSUME NEW D, MapsWhole(D), NEW q, NEW held, NEW j \in JobOf(D, q), j.status \in Underway,
         NEW status, status # "COMMITTED", NEW lease
  PROVE  UnitFits(D, Replaced(CHOOSE x \in JobOf(D, q) : TRUE, status, lease), held)
  <1>1. (CHOOSE x \in JobOf(D, q) : TRUE) = j /\ IsJob(j)
    BY JobIs
  <1>2. PICK change : /\ Replaced(j, status, lease) = [Empty EXCEPT !.jobs = {change}]
                      /\ change.old = j /\ change.new.status = status
                      /\ Replaces(change) /\ IsJob(change.new)
    BY ONLY <1>1, j.status \in Underway, JobChanged
  <1>3. PICK st : st = [Empty EXCEPT !.jobs = {change}]
    OBVIOUS
  <1>4. Moves(change)
    BY <1>2 DEF Moves
  <1>5. UnitFits(D, st, held)
    BY ONLY <1>2, <1>3, <1>4, JobFits
  <1> QED BY <1>1, <1>2, <1>3, <1>5

\* What the workers of a job stage before it is finished fits.
LEMMA WorkerFits ==
  ASSUME NEW D, StoreWhole(D), NEW q, NEW t, NEW held
  PROVE  /\ UnitFits(D, ClaimVerdict(D, q, t).staged, held)
         /\ UnitFits(D, ProposeVerdict(D, q, t).staged, held)
         /\ UnitFits(D, ExpireVerdict(D, q).staged, held)
  <1> DEFINE job == CHOOSE x \in JobOf(D, q) : TRUE
  <1>1. MapsWhole(D)
    BY DEF StoreWhole
  <1>2. \A code : Deny(code).staged = Empty
    BY StagedRows
  <1>3. \A result, st : Stage(result, st).staged = st
    BY StagedRows
  <1>4. {"PREPARED", "IN_PROGRESS"} \subseteq Underway
    BY DEF Underway
  <1>5. UnitFits(D, Empty, held)
    BY EmptyFits
  <1>6. UnitFits(D, ClaimVerdict(D, q, t).staged, held)
    <2>1. CASE \E j \in JobOf(D, q) : j.status = "PREPARED"
      <3>1. PICK j \in JobOf(D, q) : j.status = "PREPARED"
        BY <2>1
      <3>2. UnitFits(D, Replaced(job, "IN_PROGRESS", t), held)
        BY <1>1, <1>4, <3>1, MovedJobFits
      <3>3. ClaimVerdict(D, q, t).staged = Replaced(job, "IN_PROGRESS", t)
        BY <1>3, <2>1 DEF ClaimVerdict
      <3> QED BY <3>2, <3>3
    <2>2. CASE ~\E j \in JobOf(D, q) : j.status = "PREPARED"
      BY <1>2, <1>5, <2>2 DEF ClaimVerdict
    <2> QED BY <2>1, <2>2
  <1>7. UnitFits(D, ProposeVerdict(D, q, t).staged, held)
    <2>1. CASE \E j \in JobOf(D, q) : j.status = "IN_PROGRESS" /\ j.lease = t
      <3>1. PICK j \in JobOf(D, q) : j.status = "IN_PROGRESS"
        BY <2>1
      <3>2. UnitFits(D, Replaced(job, "PROPOSAL_VALIDATED", t), held)
        BY <1>1, <1>4, <3>1, MovedJobFits
      <3>3. ProposeVerdict(D, q, t).staged = Replaced(job, "PROPOSAL_VALIDATED", t)
        BY <1>3, <2>1 DEF ProposeVerdict
      <3> QED BY <3>2, <3>3
    <2>2. CASE ~\E j \in JobOf(D, q) : j.status = "IN_PROGRESS" /\ j.lease = t
      BY <1>2, <1>5, <2>2 DEF ProposeVerdict
    <2> QED BY <2>1, <2>2
  <1>8. UnitFits(D, ExpireVerdict(D, q).staged, held)
    <2>1. CASE \E j \in JobOf(D, q) : j.status = "IN_PROGRESS"
      <3>1. PICK j \in JobOf(D, q) : j.status = "IN_PROGRESS"
        BY <2>1
      <3>2. UnitFits(D, Replaced(job, "OUTCOME_UNKNOWN", None), held)
        BY <1>1, <1>4, <3>1, MovedJobFits
      <3>3. ExpireVerdict(D, q).staged = Replaced(job, "OUTCOME_UNKNOWN", None)
        BY <1>3, <2>1 DEF ExpireVerdict
      <3> QED BY <3>2, <3>3
    <2>2. CASE ~\E j \in JobOf(D, q) : j.status = "IN_PROGRESS"
      BY <1>2, <1>5, <2>2 DEF ExpireVerdict
    <2> QED BY <2>1, <2>2
  <1> QED BY <1>6, <1>7, <1>8

\* What finishing a job stages fits.
LEMMA FinishFits ==
  ASSUME NEW D, StoreWhole(D), NEW q, NEW t, NEW held, SessionLock(q.session) \in held
  PROVE  UnitFits(D, FinishVerdict(D, q, t).staged, held)
  <1> DEFINE job == CHOOSE j \in JobOf(D, q) : TRUE
             done == Replaced(job, "COMMITTED", None)
             turn == Advanced(D, q)
             progress == IF Outside(D, q.session)
                         THEN Only(q.session, D.progress[q.session] + 1) ELSE <<>>
             staged == [turn EXCEPT !.jobs = done.jobs, !.progress = progress]
             v == FinishVerdict(D, q, t)
  <1>1. MapsWhole(D)
    BY DEF StoreWhole
  <1>2. \A code : Deny(code).staged = Empty
    BY StagedRows
  <1>3. \A result, st : Stage(result, st).staged = st
    BY StagedRows
  <1>4. v = IF \A j \in JobOf(D, q) : j.status # "PROPOSAL_VALIDATED" \/ j.lease # t
            THEN Deny("JOB_STALE")
            ELSE IF job.version # D.sess[q.session] THEN Deny("JOB_STALE")
            ELSE IF ~Readable(D, q.session) THEN Deny("INTEGRITY")
            ELSE Stage(<<"turn", q.session>>, staged)
    BY DEF FinishVerdict
  <1> HIDE DEF v
  <1>5. CASE v.staged = Empty
    BY <1>5, EmptyFits DEF v
  <1>6. CASE v.staged # Empty
    <2>1. /\ \E j \in JobOf(D, q) : j.status = "PROPOSAL_VALIDATED"
          /\ v.staged = staged
      <3> HIDE DEF staged, job
      <3> QED BY <1>2, <1>3, <1>4, <1>6
    <2>2. PICK j \in JobOf(D, q) : j.status = "PROPOSAL_VALIDATED"
      BY <2>1
    <2>3. job = j /\ IsJob(j) /\ j.session = q.session /\ j \in D.jobs
      BY <1>1, <2>2, JobIs
    <2>4. j.status \in Underway
      BY <2>2 DEF Underway
    <2>5. PICK change : /\ Replaced(j, "COMMITTED", None) = [Empty EXCEPT !.jobs = {change}]
                        /\ change.old = j /\ change.new.status = "COMMITTED"
                        /\ Replaces(change) /\ IsJob(change.new)
      BY <2>3, <2>4, JobChanged
    <2>6. done.jobs = {change}
      BY <2>3, <2>5 DEF Empty
    <2>7. PICK s \in DOMAIN D.sess : s = q.session
      BY <1>1, <2>3 DEF MapsWhole, JobsCheck
    <2>8. PICK row : row = Turn(q.session, q.key, q.body)
      OBVIOUS
    <2>9. PICK event : event = Event(s, D.sess[s] + 2)
      OBVIOUS
    <2>10. row.table = "turn" /\ row.session = s
      BY <2>7, <2>8 DEF Turn
    <2>11. PICK st : st = staged
      OBVIOUS
    <2>12. st.jobs = {change} /\ st.progress = progress
      <3> HIDE DEF done, progress
      <3> QED BY <2>6, <2>11 DEF Advanced, Empty
    <2>13. /\ st.rows = turn.rows /\ st.saved = turn.saved /\ st.opened = turn.opened
           /\ st.moved = turn.moved
      <3> HIDE DEF done, progress
      <3> QED BY <2>11 DEF Advanced, Empty
    <2>14. /\ turn.rows = {row, event} /\ DOMAIN turn.saved = {s}
           /\ turn.saved[s].version = D.sess[s] + 1
           /\ DOMAIN turn.opened = {} /\ DOMAIN turn.moved = {}
      <3> HIDE DEF job, done, progress, staged
      <3> QED BY <2>7, <2>8, <2>9, AdvancedIs
    <2>15. /\ DOMAIN st.progress = IF Outside(D, s) THEN {s} ELSE {}
           /\ \A z \in DOMAIN st.progress : st.progress[z] \in Nat
      <3>1. CASE Outside(D, s)
        <4>1. PICK m : m = D.progress[s] + 1
          OBVIOUS
        <4>2. st.progress = Only(s, m)
          BY <2>7, <2>12, <3>1, <4>1
        <4>3. IsFiniteSet(CommittedOf(D, s))
          BY <1>1, FS_Subset DEF MapsWhole, CommittedOf
        <4>4. Cardinality(CommittedOf(D, s)) \in Nat
          BY <4>3, FS_CardinalityType
        <4>5. D.progress[s] = Cardinality(CommittedOf(D, s))
          BY <1>1, <3>1 DEF MapsWhole, SessionOk
        <4>6. m \in Nat
          BY <4>1, <4>4, <4>5
        <4> QED BY <3>1, <4>2, <4>6 DEF Only
      <3>2. CASE ~Outside(D, s)
        <4>1. st.progress = <<>>
          BY <2>7, <2>12, <3>2
        <4> QED BY <3>2, <4>1
      <3> QED BY <3>1, <3>2
    <2>16. /\ st.rows = {row, event} /\ DOMAIN st.saved = {s}
           /\ st.saved[s].version = D.sess[s] + 1
           /\ DOMAIN st.opened = {} /\ DOMAIN st.moved = {}
      <3> HIDE DEF turn
      <3> QED BY <2>13, <2>14
    <2>17. \A other \in st.jobs : IsJob(other.new)
      BY ONLY <2>5, <2>12
    <2>18. JobEnds(D, st, s)
      BY ONLY <2>3, <2>5, <2>7, <2>12, <2>15 DEF JobEnds
    <2>19. SessionLock(s) \in held
      BY <2>7
    <2> HIDE DEF job, done, turn, progress, staged
    <2>20. UnitFits(D, st, held)
      BY ONLY StoreWhole(D), s \in DOMAIN D.sess, <2>9, <2>10, <2>15, <2>16, <2>17, <2>18, <2>19,
         PlayedFits
    <2> QED BY <2>1, <2>11, <2>20 DEF v
  <1> QED BY <1>5, <1>6 DEF v

\* The operations on turns and narrative jobs.
GameOperations == {"turn", "prepare_job", "claim", "propose", "expire", "finish"}

\* Whatever a turn or a worker decides may be staged.
LEMMA GameStaged ==
  ASSUME NEW D, StoreWhole(D), NEW q, NEW t, NEW held, q.op \in GameOperations,
         Missing(D, q, held) = {}
  PROVE  UnitFits(D, Verdict(D, q, t).staged, held)
  <1>1. q.op = "turn" => Verdict(D, q, t) = TurnVerdict(D, q)
    BY DEF Verdict
  <1>2. q.op = "prepare_job" => Verdict(D, q, t) = PrepareJobVerdict(D, q)
    BY DEF Verdict
  <1>3. q.op = "claim" => Verdict(D, q, t) = ClaimVerdict(D, q, t)
    BY DEF Verdict
  <1>4. q.op = "propose" => Verdict(D, q, t) = ProposeVerdict(D, q, t)
    BY DEF Verdict
  <1>5. q.op = "expire" => Verdict(D, q, t) = ExpireVerdict(D, q)
    BY DEF Verdict
  <1>6. q.op = "finish" => Verdict(D, q, t) = FinishVerdict(D, q, t)
    BY DEF Verdict
  <1>7. q.op \in {"turn", "prepare_job", "finish"} => SessionLock(q.session) \in held
    BY HeldSession
  <1>8. q.op = "turn" => UnitFits(D, TurnVerdict(D, q).staged, held)
    BY <1>7, TurnFits
  <1>9. q.op = "prepare_job" => UnitFits(D, PrepareJobVerdict(D, q).staged, held)
    BY <1>7, PrepareJobFits
  <1>10. q.op = "finish" => UnitFits(D, FinishVerdict(D, q, t).staged, held)
    BY <1>7, FinishFits
  <1>11. /\ UnitFits(D, ClaimVerdict(D, q, t).staged, held)
         /\ UnitFits(D, ProposeVerdict(D, q, t).staged, held)
         /\ UnitFits(D, ExpireVerdict(D, q).staged, held)
    BY WorkerFits
  <1> QED BY <1>1, <1>2, <1>3, <1>4, <1>5, <1>6, <1>8, <1>9, <1>10, <1>11 DEF GameOperations

-----------------------------------------------------------------------------
(* What the operations on a native run stage                                *)

\* A native run's current revision, and the session it is in.
LEMMA NativeRunIs ==
  ASSUME NEW D, RowsWhole(D), NEW r \in NativeRuns(D), NEW m, m = Run(D.rows, r),
         NEW left, left = Current(D.rows, r)
  PROVE  /\ m.run = r /\ m.version \in Nat /\ m.version >= 3
         /\ m.char # None => \E mine \in Revisions(D.rows, m.char) : mine.rev = m.rev
         /\ left \in DOMAIN D.sess
         /\ \E a \in Table(D.rows, "admission") : a.run = r
         /\ RunRevisions(D.rows, r) # {}
  <1>1. PICK row \in Table(D.rows, "admission") : row.run = r
    BY DEF NativeRuns
  <1>2. RunRevisions(D.rows, r) # {}
    BY <1>1 DEF RowsWhole, RowsHang, Table, NamesRun
  <1>3. PICK x : Bound(D.rows, r, x)
    BY <1>2 DEF RowsWhole, RowsHang, RunRevisions
  <1>4. m \in RunRevisions(D.rows, r) /\ m.version \in Nat /\ m.version >= 3
    BY <1>3, BoundRun
  <1>5. m \in Table(D.rows, "run") /\ m.run = r
    BY <1>4 DEF RunRevisions
  <1>6. m.char # None => \E mine \in Revisions(D.rows, m.char) : mine.rev = m.rev
    BY <1>5 DEF RowsWhole, HangsIn
  <1>7. left \in DOMAIN D.sess
    <2>1. PICK k \in 1..3 : {p.version : p \in Participations(D.rows, r)} = 3..k + 2
      BY NativeJoins
    <2>2. k + 2 \in {p.version : p \in Participations(D.rows, r)}
      BY <2>1
    <2>3. PICK p \in Participations(D.rows, r) : p.version = k + 2
      BY <2>2
    <2>4. PICK n \in Int : n = k + 2
      BY <2>1
    <2>5. OneHolder(D.rows)
      BY DEF RowsWhole
    <2>6. {o.version : o \in Participations(D.rows, r)} \subseteq 3..n /\ p.version = n
      BY <2>1, <2>3, <2>4
    <2>7. Current(D.rows, r) = p.session
      BY ONLY <2>3, <2>4, <2>5, <2>6, JoinedSessions
    <2>8. p \in Table(D.rows, "participation")
      BY <2>3 DEF Participations
    <2>9. p.session \in DOMAIN D.sess
      BY <2>8 DEF RowsWhole, FamiliesAreWhole, RecordsAreWhole, OpeningsAreWhole
    <2> QED BY <2>7, <2>9
  <1> QED BY <1>1, <1>2, <1>4, <1>5, <1>6, <1>7

\* The last revision of a run, its receipt and its evidence.
LEMMA EndStaged ==
  ASSUME NEW D, RowsWhole(D), NEW q, q.run \in NativeRuns(D), NEW status, NEW kind, NEW sealed,
         status \in {"TERMINATED", "COMPLETED"}, NEW R, R = EndRows(D, q, status, kind, sealed)
  PROVE  RowsStaged(D, R)
  <1>1. PICK m : m = Run(D.rows, q.run)
    OBVIOUS
  <1>2. PICK r \in NativeRuns(D) : r = q.run
    OBVIOUS
  <1>3. PICK left : left = Current(D.rows, r)
    OBVIOUS
  <1>4. m = Run(D.rows, r)
    BY <1>1, <1>2
  <1>5. /\ m.run = r /\ m.version \in Nat /\ m.version >= 3
        /\ m.char # None => \E mine \in Revisions(D.rows, m.char) : mine.rev = m.rev
        /\ RunRevisions(D.rows, r) # {}
    BY ONLY RowsWhole(D), <1>2, <1>3, <1>4, NativeRunIs
  <1>6. PICK a : a = RunRow(m.run, m.version + 1, status, kind, m.op, m.char, m.rev)
    OBVIOUS
  <1>7. PICK b : b = RunReceipt(q.run, m.version + 1, kind, StepOp(q), q.run)
    OBVIOUS
  <1>8. PICK c : c = Evidence(q.run, m.version + 1, sealed, None)
    OBVIOUS
  <1>9. R = {a, b, c}
    BY <1>1, <1>6, <1>7, <1>8 DEF EndRows, NextRun
  <1>10. /\ a.table = "run" /\ a.run = r /\ a.char = m.char /\ a.rev = m.rev /\ a.status = status
         /\ b.table = "run_receipt" /\ b.run = r /\ c.table = "evidence"
    BY <1>2, <1>5, <1>6, <1>7, <1>8 DEF RunRow, RunReceipt, Evidence
  <1>11. IsFiniteSet(R)
    BY ONLY <1>9, FewRows
  <1>12. \A x, y \in R : x.table = y.table => x = y
    BY <1>9, <1>10
  <1>13. OneHolder(R)
    BY ONLY <1>12, OneOfEach
  <1>14. /\ \A row \in R : row.table \in {"run", "run_receipt", "evidence"}
         /\ \A row \in Table(R, "run") : row = a
         /\ \A row \in Table(R, "run_receipt") : row = b
    BY <1>9, <1>10 DEF Table
  <1>15. HangsIn(R, D.rows \cup R)
    <2> DEFINE S == D.rows \cup R
    <2>1. \A row \in Table(R, "run") : row.char # None => \E mine \in Revisions(S, row.char) : mine.rev = row.rev
      <3>1. m.char # None => \E mine \in Revisions(S, m.char) : mine.rev = m.rev
        BY <1>5 DEF Revisions, Table
      <3> QED BY <1>10, <1>14, <3>1
    <2>2. \A row \in Table(R, "run") :
            row.version >= 3 => row.status \in {"ACTIVE", "TERMINATED", "COMPLETED"}
      BY <1>10, <1>14
    <2>3. \A row \in Table(R, "run_receipt") : RunRevisions(S, row.run) # {}
      BY <1>5, <1>10, <1>14 DEF RunRevisions, Table
    <2>4. /\ Table(R, "revision") = {} /\ Table(R, "offer") = {} /\ Table(R, "confirmation") = {}
      BY <1>14 DEF Table
    <2>5. \A row \in R : row.table \notin {"turn", "event", "creation_receipt", "mutation_receipt"} \cup WorldTables
      BY <1>14 DEF WorldTables
    <2> HIDE DEF S
    <2>6. HangsIn(R, S)
      BY ONLY <2>1, <2>2, <2>3, <2>4, <2>5 DEF HangsIn
    <2> QED BY <2>6 DEF S
  <1>16. Table(R, "event") = {} /\ Table(R, "participation") = {}
    BY <1>14 DEF Table
  <1> QED BY <1>11, <1>13, <1>15, <1>16 DEF RowsStaged

\* The rows with which a run joins the session of a new world.
LEMMA JoinStaged ==
  ASSUME NEW D, RowsWhole(D), NEW q, q.run \in NativeRuns(D), NEW kind, NEW s, NEW op, NEW world,
         NEW W, NEW evidence, evidence.table = "evidence",
         IsFiniteSet(W), \A row \in W : row.table \in WorldTables /\ row.run = q.run,
         NEW m, m = Run(D.rows, q.run),
         NEW R, R = JoinRows(m, kind, q, s) \cup {Session(s, op, world), Event(s, 1)} \cup W \cup {evidence},
         ~Taken(D, R) => OneHolder(W)
  PROVE  RowsStaged(D, R)
  <1>2. PICK r \in NativeRuns(D) : r = q.run
    OBVIOUS
  <1>3. PICK left : left = Current(D.rows, r)
    OBVIOUS
  <1>4. m = Run(D.rows, r)
    BY <1>2
  <1>5. /\ m.run = r /\ m.version \in Nat /\ m.version >= 3
        /\ m.char # None => \E mine \in Revisions(D.rows, m.char) : mine.rev = m.rev
        /\ RunRevisions(D.rows, r) # {}
        /\ \E x \in Table(D.rows, "admission") : x.run = r
    BY ONLY RowsWhole(D), <1>2, <1>3, <1>4, NativeRunIs
  <1>6. PICK a : a = RunRow(m.run, m.version + 1, "ACTIVE", kind, m.op, m.char, m.rev)
    OBVIOUS
  <1>7. PICK b : b = RunReceipt(m.run, m.version + 1, kind, StepOp(q), s)
    OBVIOUS
  <1>8. PICK c : c = Participation(s, m.run, m.version + 1)
    OBVIOUS
  <1>9. PICK d : d = Session(s, op, world)
    OBVIOUS
  <1>10. PICK e : e = Event(s, 1)
    OBVIOUS
  <1>11. PICK Z : Z = {a, b, c} \cup {d, e, evidence}
    OBVIOUS
  <1>12. R = Z \cup W
    BY <1>6, <1>7, <1>8, <1>9, <1>10, <1>11 DEF JoinRows, NextRun
  <1>13. /\ a.table = "run" /\ a.run = r /\ a.char = m.char /\ a.rev = m.rev /\ a.status = "ACTIVE"
         /\ b.table = "run_receipt" /\ b.run = r
         /\ c.table = "participation" /\ c.session = s
    BY <1>5, <1>6, <1>7, <1>8 DEF RunRow, RunReceipt, Participation
  <1>14. /\ d.table = "session" /\ d.session = s /\ e.table = "event" /\ e.session = s
    BY <1>9, <1>10 DEF Session, Event
  <1>15. IsFiniteSet(R)
    <2>1. PICK A : A = {a, b, c}
      OBVIOUS
    <2>2. PICK B : B = {d, e, evidence}
      OBVIOUS
    <2>3. IsFiniteSet(A) /\ IsFiniteSet(B)
      BY <2>1, <2>2, FewRows
    <2>4. IsFiniteSet(A \cup B)
      BY <2>3, FS_Union
    <2>5. IsFiniteSet(Z)
      BY <1>11, <2>1, <2>2, <2>4
    <2>6. IsFiniteSet(Z \cup W)
      BY ONLY <2>5, IsFiniteSet(W), FS_Union
    <2> QED BY <1>12, <2>6
  <1>16. \A x, y \in Z : x.table = y.table => x = y
    BY <1>11, <1>13, <1>14
  <1>17. OneHolder(Z)
    BY ONLY <1>16, OneOfEach
  <1>18. \A row \in Z : row.table \in {"run", "run_receipt", "participation", "session", "event", "evidence"}
    BY <1>11, <1>13, <1>14
  <1>19. \A x \in Z, y \in W : x.table # y.table
    BY <1>18 DEF WorldTables
  <1>20. ~Taken(D, R) => OneHolder(R)
    BY <1>12, <1>17, <1>19, HoldersApart
  <1>21. /\ \A row \in Table(R, "run") : row = a
         /\ \A row \in Table(R, "run_receipt") : row = b
         /\ \A row \in Table(R, "participation") : row = c
         /\ \A row \in Table(R, "event") : row = e
    BY <1>11, <1>12, <1>13, <1>14 DEF Table, WorldTables
  <1>22. d \in R
    BY <1>11, <1>12
  <1>23. s \in Opens(R)
    BY <1>14, <1>22 DEF Opens, Table
  <1>24. HangsIn(R, D.rows \cup R)
    <2> DEFINE S == D.rows \cup R
    <2>1. \A row \in Table(R, "run") : row.char # None => \E mine \in Revisions(S, row.char) : mine.rev = row.rev
      <3>1. m.char # None => \E mine \in Revisions(S, m.char) : mine.rev = m.rev
        BY <1>5 DEF Revisions, Table
      <3> QED BY <1>13, <1>21, <3>1
    <2>2. \A row \in Table(R, "run") :
            row.version >= 3 => row.status \in {"ACTIVE", "TERMINATED", "COMPLETED"}
      BY <1>13, <1>21
    <2>3. \A row \in Table(R, "run_receipt") : RunRevisions(S, row.run) # {}
      BY <1>5, <1>13, <1>21 DEF RunRevisions, Table
    <2>4. /\ Table(R, "revision") = {} /\ Table(R, "offer") = {} /\ Table(R, "confirmation") = {}
      BY <1>12, <1>18 DEF Table, WorldTables
    <2>5. \A row \in R : row.table \notin {"creation_receipt", "mutation_receipt"}
      BY <1>12, <1>18 DEF WorldTables
    <2>6. \A row \in R : row.table \in {"turn", "event"} =>
            \E p \in Table(S, "session") : p.session = row.session
      <3>1. d \in Table(S, "session")
        BY <1>14, <1>22 DEF Table
      <3>2. \A row \in R : row.table \in {"turn", "event"} => row = e
        BY <1>12, <1>18, <1>21 DEF Table, WorldTables
      <3> QED BY <1>14, <3>1, <3>2
    <2>7. \A row \in R : row.table \in WorldTables => \E x \in Table(S, "admission") : x.run = row.run
      <3>1. \A row \in R : row.table \in WorldTables => row \in W
        BY <1>12, <1>18 DEF WorldTables
      <3>2. \E x \in Table(S, "admission") : x.run = r
        BY <1>5 DEF Table
      <3> QED BY <1>2, <3>1, <3>2
    <2> HIDE DEF S
    <2>8. HangsIn(R, S)
      BY ONLY <2>1, <2>2, <2>3, <2>4, <2>5, <2>6, <2>7 DEF HangsIn
    <2> QED BY <2>8 DEF S
  <1>25. /\ \A row \in Table(R, "participation") : row.session \in Opens(R)
         /\ \A row \in Table(R, "event") : row = Event(s, 1)
    BY <1>10, <1>13, <1>21, <1>23
  <1> QED BY <1>15, <1>20, <1>23, <1>24, <1>25 DEF RowsStaged

\* A session that is opened is not the one that was left.
LEMMA NewSession ==
  ASSUME NEW D, RowsWhole(D), NEW left \in DOMAIN D.sess, NEW R, ~Taken(D, R),
         NEW s, NEW op, NEW world, Session(s, op, world) \in R
  PROVE  s # left
  <1>1. PICK row \in Table(D.rows, "session") : row.session = left
    BY DEF RowsWhole, Opens
  <1>2. PICK new : new = Session(s, op, world)
    OBVIOUS
  <1>3. new.table = "session" /\ new.session = s /\ new \in R
    BY <1>2 DEF Session
  <1>4. row.table = "session" /\ row \in D.rows
    BY DEF Table
  <1>5. <<"session", s>> \in StoreKeys(new)
    BY ONLY <1>3, OwnKeys
  <1>6. <<"session", row.session>> \in StoreKeys(row)
    BY ONLY <1>4, OwnKeys
  <1>7. StoreKeys(new) \cap StoreKeys(row) = {}
    BY ONLY <1>3, <1>4, ~Taken(D, R), NotTaken
  <1> QED BY <1>1, <1>5, <1>6, <1>7

\* Keys that differ in their tag, or in what they tell.
LEMMA KeysDiffer ==
  ASSUME NEW at, NEW of, at # of, at # "visit", at # "visited", of # "visit", of # "visited",
         NEW r, NEW left, NEW s, s # left
  PROVE  {<<"visit", r, 1>>, <<at, r, 3>>, <<"visited", left>>, <<of, r, left>>}
            \cap {<<"visit", r, 2>>, <<at, r, 4>>, <<"visited", s>>, <<of, r, s>>} = {}
  <1>1. \A x, y, z : <<x, y, z>>[1] = x /\ <<x, y, z>>[3] = z
    OBVIOUS
  <1>2. \A x, y : <<x, y>>[1] = x /\ <<x, y>>[2] = y
    OBVIOUS
  <1>3. "visit" # "visited"
    OBVIOUS
  <1>4. /\ <<"visit", r, 1>> # <<"visit", r, 2>> /\ <<at, r, 3>> # <<at, r, 4>>
        /\ <<of, r, left>> # <<of, r, s>> /\ <<"visited", left>> # <<"visited", s>>
    BY <1>1, <1>2
  <1>5. /\ <<"visit", r, 1>> # <<at, r, 4>> /\ <<"visit", r, 1>> # <<"visited", s>>
        /\ <<"visit", r, 1>> # <<of, r, s>>
    BY <1>1, <1>2, <1>3
  <1>6. /\ <<at, r, 3>> # <<"visit", r, 2>> /\ <<at, r, 3>> # <<"visited", s>>
        /\ <<at, r, 3>> # <<of, r, s>>
    BY <1>1, <1>2, <1>3
  <1>7. /\ <<"visited", left>> # <<"visit", r, 2>> /\ <<"visited", left>> # <<at, r, 4>>
        /\ <<"visited", left>> # <<of, r, s>>
    BY <1>1, <1>2, <1>3
  <1>8. /\ <<of, r, left>> # <<"visit", r, 2>> /\ <<of, r, left>> # <<at, r, 4>>
        /\ <<of, r, left>> # <<"visited", s>>
    BY <1>1, <1>2, <1>3
  <1> QED BY <1>4, <1>5, <1>6, <1>7, <1>8

\* Two visits of a run, to two sessions.
LEMMA TwoVisits ==
  ASSUME NEW r, NEW left, NEW s, s # left
  PROVE  OneHolder({Visit(r, 1, left), Visit(r, 2, s)})
  <1>1. PICK a : a = Visit(r, 1, left)
    OBVIOUS
  <1>2. PICK b : b = Visit(r, 2, s)
    OBVIOUS
  <1>3. a.table = "visit" /\ a.run = r /\ a.ordinal = 1 /\ a.joined = 3 /\ a.session = left
    BY <1>1 DEF Visit
  <1>4. b.table = "visit" /\ b.run = r /\ b.ordinal = 2 /\ b.joined = 4 /\ b.session = s
    BY <1>2 DEF Visit
  <1>5. StoreKeys(a) = {<<"visit", r, 1>>, <<"visit at", r, 3>>, <<"visited", left>>, <<"visit of", r, left>>}
    <2>1. StoreKeys(a) = {<<"visit", a.run, a.ordinal>>, <<"visit at", a.run, a.joined>>,
               <<"visited", a.session>>, <<"visit of", a.run, a.session>>}
      BY ONLY <1>3, RowKeys
    <2> QED BY <1>3, <2>1
  <1>6. StoreKeys(b) = {<<"visit", r, 2>>, <<"visit at", r, 4>>, <<"visited", s>>, <<"visit of", r, s>>}
    <2>1. StoreKeys(b) = {<<"visit", b.run, b.ordinal>>, <<"visit at", b.run, b.joined>>,
               <<"visited", b.session>>, <<"visit of", b.run, b.session>>}
      BY ONLY <1>4, RowKeys
    <2> QED BY <1>4, <2>1
  <1>7. PICK at : at = "visit at"
    OBVIOUS
  <1>8. PICK of : of = "visit of"
    OBVIOUS
  <1>9. at # of /\ at # "visit" /\ at # "visited" /\ of # "visit" /\ of # "visited"
    BY ONLY <1>7, <1>8, Zenon
  <1>10. {<<"visit", r, 1>>, <<at, r, 3>>, <<"visited", left>>, <<of, r, left>>}
            \cap {<<"visit", r, 2>>, <<at, r, 4>>, <<"visited", s>>, <<of, r, s>>} = {}
    BY ONLY <1>9, s # left, KeysDiffer
  <1>11. StoreKeys(a) \cap StoreKeys(b) = {}
    BY ONLY <1>5, <1>6, <1>7, <1>8, <1>10, Zenon
  <1>12. OneHolder({a, b})
    BY <1>11 DEF OneHolder
  <1> QED BY <1>1, <1>2, <1>12

\* A run's two roots.
LEMMA TwoRoots ==
  ASSUME NEW r, NEW left, NEW s, NEW before, NEW image
  PROVE  OneHolder({Root(r, "sealed", left, before), Root(r, "found", s, image)})
  <1>1. PICK a : a = Root(r, "sealed", left, before)
    OBVIOUS
  <1>2. PICK b : b = Root(r, "found", s, image)
    OBVIOUS
  <1>3. a.table = "root" /\ a.run = r /\ a.basis = "sealed"
    BY <1>1 DEF Root
  <1>4. b.table = "root" /\ b.run = r /\ b.basis = "found"
    BY <1>2 DEF Root
  <1>5. StoreKeys(a) = {<<"root", r, "sealed">>}
    <2>1. StoreKeys(a) = {<<"root", a.run, a.basis>>}
      BY ONLY <1>3, RowKeys
    <2> QED BY <1>3, <2>1
  <1>6. StoreKeys(b) = {<<"root", r, "found">>}
    <2>1. StoreKeys(b) = {<<"root", b.run, b.basis>>}
      BY ONLY <1>4, RowKeys
    <2> QED BY <1>4, <2>1
  <1>7. StoreKeys(a) \cap StoreKeys(b) = {}
    BY <1>5, <1>6
  <1>8. OneHolder({a, b})
    BY <1>7 DEF OneHolder
  <1> QED BY <1>1, <1>2, <1>8

\* Into the second world, from the death certificate.
LEMMA ContinueStaged ==
  ASSUME NEW D, RowsWhole(D), NEW q, q.run \in NativeRuns(D), NEW s
  PROVE  RowsStaged(D, ContinueRows(D, q, s))
  <1>1. PICK r \in NativeRuns(D) : r = q.run
    OBVIOUS
  <1>2. PICK m : m = Run(D.rows, q.run)
    OBVIOUS
  <1>3. PICK left : left = Current(D.rows, q.run)
    OBVIOUS
  <1>4. left \in DOMAIN D.sess
    <2>1. m = Run(D.rows, r) /\ left = Current(D.rows, r)
      BY <1>1, <1>2, <1>3
    <2> QED BY ONLY RowsWhole(D), <1>1, <2>1, NativeRunIs
  <1>5. PICK op : op = StepOp(q)
    OBVIOUS
  <1>6. PICK world : world = Onward["death_certificate"]
    OBVIOUS
  <1>7. PICK image : image = Image(0, "open", D.snap[left].player)
    OBVIOUS
  <1>8. PICK before : before = D.snap[left]
    OBVIOUS
  <1>9. PICK evidence : evidence = Evidence(q.run, 4, {SealedNow(D, left)}, s)
    OBVIOUS
  <1>10. PICK A : A = {Root(r, "sealed", left, before), Root(r, "found", s, image)}
    OBVIOUS
  <1>11. PICK B : B = {Visit(r, 1, left), Visit(r, 2, s)}
    OBVIOUS
  <1>12. PICK W : W = A \cup B
    OBVIOUS
  <1>13. PICK R : R = JoinRows(m, "CONTINUE", q, s) \cup {Session(s, op, world), Event(s, 1)}
                         \cup W \cup {evidence}
    OBVIOUS
  <1>14. ContinueRows(D, q, s) = R
    BY <1>1, <1>2, <1>3, <1>5, <1>6, <1>7, <1>8, <1>9, <1>10, <1>11, <1>12, <1>13
       DEF ContinueRows, Opened
  <1>15. evidence.table = "evidence"
    BY <1>9 DEF Evidence
  <1>16. /\ \A row \in A : row.table = "root" /\ row.run = r
         /\ \A row \in B : row.table = "visit" /\ row.run = r
    BY <1>10, <1>11 DEF Root, Visit
  <1>17. IsFiniteSet(W) /\ \A row \in W : row.table \in WorldTables /\ row.run = q.run
    <2>1. IsFiniteSet(A) /\ IsFiniteSet(B)
      BY <1>10, <1>11, FewRows
    <2>2. IsFiniteSet(A \cup B)
      BY <2>1, FS_Union
    <2> QED BY <1>1, <1>12, <1>16, <2>2 DEF WorldTables
  <1>18. ~Taken(D, R) => OneHolder(W)
    <2>1. SUFFICES ASSUME ~Taken(D, R) PROVE OneHolder(W)
      OBVIOUS
    <2>2. Session(s, op, world) \in R
      BY <1>13
    <2>3. s # left
      BY ONLY RowsWhole(D), <1>4, <2>1, <2>2, NewSession
    <2>4. OneHolder(A)
      BY <1>10, TwoRoots
    <2>5. OneHolder(B)
      BY <1>11, <2>3, TwoVisits
    <2>6. \A x \in A, y \in B : x.table # y.table
      BY <1>16
    <2>7. OneHolder(A \cup B)
      BY ONLY <2>4, <2>5, <2>6, HoldersApart
    <2> QED BY <1>12, <2>7
  <1>19. RowsStaged(D, R)
    BY ONLY RowsWhole(D), q.run \in NativeRuns(D), <1>2, <1>13, <1>15, <1>17, <1>18, JoinStaged
  <1> QED BY <1>14, <1>19

\* From the fog station to the patrol.
LEMMA FogStaged ==
  ASSUME NEW D, RowsWhole(D), NEW q, q.run \in NativeRuns(D), NEW s
  PROVE  RowsStaged(D, FogRows(D, q, s))
  <1>1. PICK r \in NativeRuns(D) : r = q.run
    OBVIOUS
  <1>2. PICK m : m = Run(D.rows, q.run)
    OBVIOUS
  <1>3. PICK left : left = Current(D.rows, q.run)
    OBVIOUS
  <1>4. left \in DOMAIN D.sess
    <2>1. m = Run(D.rows, r) /\ left = Current(D.rows, r)
      BY <1>1, <1>2, <1>3
    <2> QED BY ONLY RowsWhole(D), <1>1, <2>1, NativeRunIs
  <1>5. PICK op : op = StepOp(q)
    OBVIOUS
  <1>6. PICK world : world = Onward["fog_station"]
    OBVIOUS
  <1>7. PICK image : image = Image(0, "open", D.snap[left].player)
    OBVIOUS
  <1>8. PICK before : before = D.snap[left]
    OBVIOUS
  <1>9. PICK evidence : evidence = Evidence(q.run, 4, {SealedNow(D, left)}, s)
    OBVIOUS
  <1>10. PICK A : A = {Root(r, "sealed", left, before), Entry(r, s, left, before, image)}
    OBVIOUS
  <1>11. PICK B : B = {Visit(r, 1, left), Visit(r, 2, s)}
    OBVIOUS
  <1>12. PICK W : W = A \cup B
    OBVIOUS
  <1>13. PICK R : R = JoinRows(m, "CONTINUE", q, s) \cup {Session(s, op, world), Event(s, 1)}
                         \cup W \cup {evidence}
    OBVIOUS
  <1>14. FogRows(D, q, s) = R
    BY <1>1, <1>2, <1>3, <1>5, <1>6, <1>7, <1>8, <1>9, <1>10, <1>11, <1>12, <1>13
       DEF FogRows, Opened
  <1>15. evidence.table = "evidence"
    BY <1>9 DEF Evidence
  <1>16. /\ \A row \in A : row.table \in {"root", "entry"} /\ row.run = r
         /\ \A row \in B : row.table = "visit" /\ row.run = r
    BY <1>10, <1>11 DEF Root, Visit, Entry
  <1>17. IsFiniteSet(W) /\ \A row \in W : row.table \in WorldTables /\ row.run = q.run
    <2>1. IsFiniteSet(A) /\ IsFiniteSet(B)
      BY <1>10, <1>11, FewRows
    <2>2. IsFiniteSet(A \cup B)
      BY <2>1, FS_Union
    <2> QED BY <1>1, <1>12, <1>16, <2>2 DEF WorldTables
  <1>18. ~Taken(D, R) => OneHolder(W)
    <2>1. SUFFICES ASSUME ~Taken(D, R) PROVE OneHolder(W)
      OBVIOUS
    <2>2. Session(s, op, world) \in R
      BY <1>13
    <2>3. s # left
      BY ONLY RowsWhole(D), <1>4, <2>1, <2>2, NewSession
    <2>4. OneHolder(A)
      <3>1. \A x, y \in A : x.table = y.table => x = y
        BY <1>10 DEF Root, Entry
      <3> QED BY ONLY <3>1, OneOfEach
    <2>5. OneHolder(B)
      BY <1>11, <2>3, TwoVisits
    <2>6. \A x \in A, y \in B : x.table # y.table
      BY <1>16
    <2>7. OneHolder(A \cup B)
      BY ONLY <2>4, <2>5, <2>6, HoldersApart
    <2> QED BY <1>12, <2>7
  <1>19. RowsStaged(D, R)
    BY ONLY RowsWhole(D), q.run \in NativeRuns(D), <1>2, <1>13, <1>15, <1>17, <1>18, JoinStaged
  <1> QED BY <1>14, <1>19

\* Back into another region of the second world.
LEMMA RevisitStaged ==
  ASSUME NEW D, RowsWhole(D), NEW q, q.run \in NativeRuns(D), NEW s
  PROVE  RowsStaged(D, RevisitRows(D, q, s))
  <1>1. PICK r \in NativeRuns(D) : r = q.run
    OBVIOUS
  <1>2. PICK m : m = Run(D.rows, q.run)
    OBVIOUS
  <1>3. PICK left : left = Current(D.rows, q.run)
    OBVIOUS
  <1>5. PICK op : op = StepOp(q)
    OBVIOUS
  <1>6. PICK world : world = Onward["undelivered_receipt"]
    OBVIOUS
  <1>7. PICK image : image = Image(0, "open", D.snap[left].player)
    OBVIOUS
  <1>8. PICK before : before = D.snap[left]
    OBVIOUS
  <1>9. PICK evidence : evidence = Evidence(q.run, 5, {SealedNow(D, left)}, s)
    OBVIOUS
  <1>12. PICK W : W = {Entry(r, s, left, before, image), Visit(r, 3, s)}
    OBVIOUS
  <1>13. PICK R : R = JoinRows(m, "REVISIT", q, s) \cup {Session(s, op, world), Event(s, 1)}
                         \cup W \cup {evidence}
    OBVIOUS
  <1>14. RevisitRows(D, q, s) = R
    BY <1>1, <1>2, <1>3, <1>5, <1>6, <1>7, <1>8, <1>9, <1>12, <1>13 DEF RevisitRows, Opened
  <1>15. evidence.table = "evidence"
    BY <1>9 DEF Evidence
  <1>16. \A row \in W : row.table \in {"entry", "visit"} /\ row.run = r
    BY <1>12 DEF Visit, Entry
  <1>17. IsFiniteSet(W) /\ \A row \in W : row.table \in WorldTables /\ row.run = q.run
    <2>1. IsFiniteSet(W)
      BY <1>12, FewRows
    <2> QED BY <1>1, <1>16, <2>1 DEF WorldTables
  <1>18. OneHolder(W)
    <2>1. \A x, y \in W : x.table = y.table => x = y
      BY <1>12 DEF Visit, Entry
    <2> QED BY ONLY <2>1, OneOfEach
  <1>19. RowsStaged(D, R)
    BY ONLY RowsWhole(D), q.run \in NativeRuns(D), <1>2, <1>13, <1>15, <1>17, <1>18, JoinStaged
  <1> QED BY <1>14, <1>19

\* What a run stages to join the session of a new world.
LEMMA JoinFits ==
  ASSUME NEW D, NEW r \in NativeRuns(D), NEW R, RowsStaged(D, R), NEW image, image.version = 0,
         NEW found, NEW at, NEW held,
         NEW st, \/ st = [Carried(R, image) EXCEPT !.moved = Only(r, at)]
                 \/ st = [Carried(R, image) EXCEPT !.found = found, !.moved = Only(r, at)]
  PROVE  UnitFits(D, st, held)
  <1>1. PICK e : e = Carried(R, image)
    OBVIOUS
  <1>2. /\ e.rows = R \cup Firsts(R) /\ e.opened = [s \in Opens(R) |-> image]
        /\ e.saved = <<>> /\ e.progress = <<>> /\ e.jobs = {}
        /\ DOMAIN e = {"rows", "opened", "saved", "found", "moved", "progress", "jobs"}
    BY <1>1 DEF Carried, Empty, Firsts
  <1>3. PICK moved : moved = Only(r, at)
    OBVIOUS
  <1>4. st = [e EXCEPT !.moved = moved] \/ st = [e EXCEPT !.found = found, !.moved = moved]
    BY <1>1, <1>3
  <1>5. /\ st.rows = e.rows /\ st.opened = e.opened /\ st.saved = e.saved
        /\ st.progress = e.progress /\ st.jobs = e.jobs /\ st.moved = moved
    BY ONLY <1>2, <1>4
  <1>6. DOMAIN moved = {r}
    BY <1>3 DEF Only
  <1>7. /\ st.rows = R \cup Firsts(R) /\ DOMAIN st.opened = Opens(R)
        /\ \A s \in Opens(R) : st.opened[s].version = 0
        /\ DOMAIN st.saved = {} /\ DOMAIN st.progress = {} /\ st.jobs = {}
        /\ DOMAIN st.moved \subseteq NativeRuns(D)
    BY <1>2, <1>5, <1>6
  <1> QED BY ONLY RowsStaged(D, R), <1>7, CarriedFits

\* What ends a run is staged alone.
LEMMA EndFits ==
  ASSUME NEW D, NEW R, RowsStaged(D, R), Opens(R) = {}, NEW held,
         NEW st, st = [Empty EXCEPT !.rows = R]
  PROVE  UnitFits(D, st, held)
  <1>1. Firsts(R) = {}
    BY DEF Firsts
  <1>2. /\ st.rows = R /\ DOMAIN st.opened = {} /\ DOMAIN st.saved = {} /\ DOMAIN st.progress = {}
        /\ st.jobs = {} /\ DOMAIN st.moved = {}
    BY DEF Empty
  <1>3. /\ st.rows = R \cup Firsts(R) /\ DOMAIN st.opened = Opens(R)
        /\ \A s \in Opens(R) : st.opened[s].version = 0
        /\ DOMAIN st.moved \subseteq NativeRuns(D)
    BY <1>1, <1>2
  <1> QED BY ONLY RowsStaged(D, R), <1>2, <1>3, CarriedFits

\* What ends a run opens no session.
LEMMA EndOpens ==
  ASSUME NEW D, NEW q, NEW status, NEW kind, NEW sealed
  PROVE  Opens(EndRows(D, q, status, kind, sealed)) = {}
  <1>1. \A row \in EndRows(D, q, status, kind, sealed) : row.table \in {"run", "run_receipt", "evidence"}
    BY DEF EndRows, NextRun, RunRow, RunReceipt, Evidence
  <1> QED BY <1>1 DEF Opens, Table

\* The rows that end a run may be staged.
LEMMA LeavesFit ==
  ASSUME NEW D, RowsWhole(D), NEW q, q.run \in NativeRuns(D), NEW held, NEW rows,
         rows \in {LeaveRows(D, q), CompleteRows(D, q)}
  PROVE  UnitFits(D, [Empty EXCEPT !.rows = rows], held)
  <1>1. PICK status, kind, sealed :
          status \in {"TERMINATED", "COMPLETED"} /\ rows = EndRows(D, q, status, kind, sealed)
    BY DEF LeaveRows, CompleteRows
  <1>2. RowsStaged(D, rows)
    BY <1>1, EndStaged
  <1>3. Opens(rows) = {}
    BY <1>1, EndOpens
  <1>4. PICK st : st = [Empty EXCEPT !.rows = rows]
    OBVIOUS
  <1>5. UnitFits(D, st, held)
    BY ONLY <1>2, <1>3, <1>4, EndFits
  <1> QED BY <1>4, <1>5

\* Whatever an operation on a native run stages fits.
LEMMA StepStagedFits ==
  ASSUME NEW D, RowsWhole(D), NEW q, q.op \in DOMAIN StepKind, q.run \in NativeRuns(D), NEW s, NEW held
  PROVE  UnitFits(D, StepStaged(D, q, s), held)
  <1> DEFINE left == Current(D.rows, q.run)
             opened == Image(0, "open", D.snap[left].player)
             at == Run(D.rows, q.run).version + 1
             fog == World(D.rows, left) = "fog_station"
             rows == IF q.op = "revisit" THEN RevisitRows(D, q, s)
                     ELSE IF fog THEN FogRows(D, q, s) ELSE ContinueRows(D, q, s)
             found == Only(q.run, D.position[q.run])
  <1>1. q.op \in {"exit", "continue", "revisit", "complete"}
    BY StepOperations
  <1>2. CASE q.op \in {"exit", "complete"}
    <2>1. PICK R \in {LeaveRows(D, q), CompleteRows(D, q)} : StepStaged(D, q, s) = [Empty EXCEPT !.rows = R]
      <3>1. CASE q.op = "exit"
        BY <3>1 DEF StepStaged
      <3>2. CASE q.op = "complete"
        BY <3>2 DEF StepStaged
      <3> QED BY <1>2, <3>1, <3>2
    <2> QED BY <2>1, LeavesFit
  <1>3. CASE q.op \in {"continue", "revisit"}
    <2>1. PICK st : st = StepStaged(D, q, s)
      OBVIOUS
    <2>2. PICK R : R = rows
      OBVIOUS
    <2>3. PICK image : image = opened
      OBVIOUS
    <2>4. PICK before : before = found
      OBVIOUS
    <2>5. PICK place : place = PositionAt(s, at)
      OBVIOUS
    <2>6. PICK r \in NativeRuns(D) : r = q.run
      OBVIOUS
    <2>7. \/ st = [Carried(R, image) EXCEPT !.moved = Only(r, place)]
          \/ st = [Carried(R, image) EXCEPT !.found = before, !.moved = Only(r, place)]
      <3>1. CASE q.op = "continue"
        BY <2>1, <2>2, <2>3, <2>5, <2>6, <3>1 DEF StepStaged
      <3>2. CASE q.op = "revisit"
        BY <2>1, <2>2, <2>3, <2>4, <2>5, <2>6, <3>2 DEF StepStaged
      <3> QED BY <1>3, <3>1, <3>2
    <2>8. RowsStaged(D, R)
      BY <2>2, RevisitStaged, FogStaged, ContinueStaged
    <2>9. image.version = 0
      BY <2>3 DEF Image
    <2> HIDE DEF left, opened, at, fog, rows, found
    <2>10. UnitFits(D, st, held)
      <3>1. CASE st = [Carried(R, image) EXCEPT !.moved = Only(r, place)]
        BY ONLY r \in NativeRuns(D), <2>8, <2>9, <3>1, JoinFits
      <3>2. CASE st = [Carried(R, image) EXCEPT !.found = before, !.moved = Only(r, place)]
        BY ONLY r \in NativeRuns(D), <2>8, <2>9, <3>2, JoinFits
      <3> QED BY <2>7, <3>1, <3>2
    <2> QED BY <2>1, <2>10
  <1> QED BY <1>1, <1>2, <1>3

\* Whatever a unit of work that holds its locks decides may be staged.
LEMMA VerdictFits ==
  ASSUME NEW D, StoreWhole(D), NEW q, NEW t, NEW held, q.op \in Operations, Missing(D, q, held) = {}
  PROVE  UnitFits(D, Verdict(D, q, t).staged, held)
  <1>1. RowsWhole(D)
    BY DEF StoreWhole
  <1>2. CASE q.op \in LedgerOperations
    BY <1>1, <1>2, LedgerStaged
  <1>3. CASE q.op \in GameOperations
    BY <1>3, GameStaged
  <1>4. CASE q.op \in DOMAIN StepKind
    <2> DEFINE v == Verdict(D, q, t)
    <2>1. v = StepVerdict(D, q, Fresh)
      BY <1>4, StepOperations DEF Verdict
    <2>2. CASE q.run \notin NativeRuns(D)
      <3>1. v = Deny("NATIVE_RUN_REQUIRED")
        BY <2>1, <2>2 DEF StepVerdict
      <3>2. v.staged = Empty
        BY <3>1, StagedRows
      <3> QED BY <3>2, EmptyFits
    <2>3. CASE q.run \in NativeRuns(D)
      <3>1. v.staged = Empty \/ v.staged = StepStaged(D, q, Fresh)
        BY <2>1, StepStages
      <3>2. CASE v.staged = Empty
        BY <3>2, EmptyFits
      <3>3. CASE v.staged = StepStaged(D, q, Fresh)
        BY <1>1, <1>4, <2>3, <3>3, StepStagedFits
      <3> QED BY <3>1, <3>2, <3>3
    <2> QED BY <2>2, <2>3
  <1> QED BY <1>2, <1>3, <1>4 DEF Operations, LedgerOperations, GameOperations

-----------------------------------------------------------------------------
(* The store of a running process                                           *)

\* The store is whole, and whatever is staged fits it and the locks that are held.
StoreInvariant ==
    /\ LockInvariant
    /\ StoreWhole(store)
    /\ \A t \in Tasks : task[t].pc = "staged" => UnitFits(store, task[t].staged, task[t].held)

\* What the schema finds unique has one holder.
LEMMA HoldersUnique ==
  ASSUME NEW S, IsFiniteSet(S), KeysAreUnique(S)
  PROVE  OneHolder(S)
  <1> DEFINE H == KeyHolders(S)
             name == [h \in H |-> h[1]]
  <1>1. \A h \in H : \E row \in S : \E key \in StoreKeys(row) : h = <<key, row>>
    BY HoldersHold
  <1>2. \A row \in S : \A key \in StoreKeys(row) : <<key, row>> \in H
    BY HoldersHold
  <1>3. IsFiniteSet(H)
    BY FewHolders
  <1>4. Cardinality(KeysOf(S)) = Cardinality(H)
    BY DEF KeysAreUnique
  <1> HIDE DEF H
  <1>5. name \in [H -> KeysOf(S)]
    BY <1>1 DEF KeysOf
  <1>6. ASSUME NEW key \in KeysOf(S) PROVE \E h \in H : name[h] = key
    <2>1. PICK row \in S : key \in StoreKeys(row)
      BY DEF KeysOf
    <2> QED BY <1>2, <2>1
  <1>7. \A h \in H : name[h] = h[1]
    OBVIOUS
  <1> HIDE DEF name
  <1>8. name \in Surjection(H, KeysOf(S))
    BY <1>5, <1>6, Fun_IsSurj
  <1>9. name \in Injection(H, KeysOf(S))
    BY <1>3, <1>4, <1>8, FS_Surjection
  <1>10. ASSUME NEW a \in S, NEW b \in S, NEW k \in StoreKeys(a) \cap StoreKeys(b) PROVE a = b
    <2>1. <<k, a>> \in H /\ <<k, b>> \in H
      BY <1>2
    <2>2. name[<<k, a>>] = k /\ name[<<k, b>>] = k
      BY <1>7, <2>1
    <2>3. <<k, a>> = <<k, b>>
      BY <1>9, <2>1, <2>2 DEF Injection, IsInjective
    <2> QED BY <2>3
  <1> QED BY <1>10 DEF OneHolder

\* The process starts with a whole store.
LEMMA SeedIsWhole == StoreWhole(Seed)
  <1> DEFINE S == Seed.rows
  <1>1. /\ IsFiniteSet(S) /\ FamiliesAreWhole(Seed)
        /\ \A row \in S : row.table \in {"binding", "revision", "creation_receipt"}
        /\ KeysAreUnique(S) /\ UNION {ForeignKeys(row) : row \in S} \subseteq KeysOf(S)
    BY SeedAssumption DEF SchemaHolds
  <1>2. /\ DOMAIN Seed.sess = {} /\ DOMAIN Seed.snap = {} /\ DOMAIN Seed.position = {}
        /\ Seed.jobs = {} /\ DOMAIN Seed.progress = {}
    BY SeedAssumption
  <1> HIDE DEF S
  <1>3. RowsHang(S)
    BY <1>1 DEF RowsHang, Table, NamesRun
  <1>4. OneHolder(S)
    BY <1>1, HoldersUnique
  <1>5. \A key \in KeysOf(S) : \E b \in S : key \in StoreKeys(b)
    BY DEF KeysOf
  <1>6. ASSUME NEW row \in S, NEW key \in CharacterReferences(row)
        PROVE  \E b \in S : key \in StoreKeys(b)
    BY <1>1, <1>5 DEF ForeignKeys
  <1>7. ASSUME NEW row \in Table(S, "revision") PROVE \E b \in Table(S, "binding") : b.who = row.who
    <2>1. row \in S /\ <<"binding", row.who>> \in CharacterReferences(row)
      BY DEF Table, CharacterReferences
    <2>2. PICK b \in S : <<"binding", row.who>> \in StoreKeys(b)
      BY <1>6, <2>1
    <2>3. KeyTable(<<"binding", row.who>>[1]) = b.table
      BY <2>2, KeysTellTables
    <2>4. b.table = "binding"
      BY <2>3 DEF KeyTable
    <2>5. StoreKeys(b) = {<<"binding", b.who>>}
      BY ONLY <2>4, RowKeys
    <2> QED BY <2>2, <2>4, <2>5 DEF Table
  <1>8. ASSUME NEW row \in S, row.table = "creation_receipt" PROVE Revisions(S, row.char) # {}
    <2>1. <<"revision", row.char, 1>> \in CharacterReferences(row)
      BY <1>8 DEF CharacterReferences
    <2>2. PICK b \in S : <<"revision", row.char, 1>> \in StoreKeys(b)
      BY <1>6, <2>1
    <2>3. KeyTable(<<"revision", row.char, 1>>[1]) = b.table
      BY <2>2, KeysTellTables
    <2>4. b.table = "revision"
      BY <2>3 DEF KeyTable
    <2>5. StoreKeys(b) = {<<"revision", b.char, b.rev>>}
      BY ONLY <2>4, RowKeys
    <2>6. b.char = row.char
      BY <2>2, <2>5
    <2> QED BY <2>4, <2>6 DEF Table, Revisions
  <1>9. HangsIn(S, S)
    BY <1>1, <1>7, <1>8 DEF HangsIn, Table, WorldTables
  <1>10. Opens(S) = {}
    BY <1>1 DEF Opens, Table
  <1>11. RowsWhole(Seed)
    BY <1>1, <1>2, <1>3, <1>4, <1>9, <1>10 DEF RowsWhole, S
  <1>12. IsFiniteSet(Seed.jobs)
    BY <1>2, FS_EmptySet
  <1>13. MapsWhole(Seed)
    BY <1>2, <1>12 DEF MapsWhole, JobsCheck
  <1> QED BY <1>11, <1>13 DEF StoreWhole

\* The invariant holds at the start.
LEMMA InitStore == Init => StoreInvariant
  <1> SUFFICES ASSUME Init PROVE StoreInvariant
    OBVIOUS
  <1>1. LockInvariant
    BY InitLocks
  <1>2. StoreWhole(store)
    BY SeedIsWhole DEF Init
  <1>3. \A t \in Tasks : task[t].pc = "idle"
    BY DEF Init, Idle
  <1> QED BY <1>1, <1>2, <1>3 DEF StoreInvariant

\* A step of one task that leaves the maps alone and stages nothing that does not fit.
LEMMA OneTaskStore ==
  ASSUME StoreInvariant, LockInvariant', store' = store, NEW t \in Tasks,
         \A u \in Tasks \ {t} : task'[u] = task[u],
         task'[t].pc = "staged" => UnitFits(store, task'[t].staged, task'[t].held)
  PROVE  StoreInvariant'
  <1>1. \A u \in Tasks : task'[u].pc = "staged" => UnitFits(store', task'[u].staged, task'[u].held)
    BY DEF StoreInvariant
  <1> QED BY <1>1 DEF StoreInvariant

\* A task that leaves has nothing staged any more.
LEMMA LeaveStore ==
  ASSUME StoreInvariant, LockInvariant', NEW t \in Tasks, NEW code, NEW result, NEW object,
         Leave(t, code, result, object), store' = store
  PROVE  StoreInvariant'
  <1> DEFINE left == [task[t] EXCEPT !.pc = "idle", !.held = {}, !.staged = Empty, !.code = code,
                                     !.result = result, !.object = object]
  <1>1. Shape(task[t]) /\ DOMAIN task = Tasks
    BY DEF StoreInvariant, LockInvariant, TaskFits
  <1>2. left.pc = "idle"
    BY <1>1 DEF Shape
  <1>3. task' = [task EXCEPT ![t] = left]
    BY DEF Leave
  <1> HIDE DEF left
  <1>4. task'[t] = left /\ \A u \in Tasks \ {t} : task'[u] = task[u]
    BY <1>1, <1>3
  <1> QED BY <1>2, <1>4, OneTaskStore

\* Beginning stages nothing.
LEMMA BeginStore ==
  ASSUME StoreInvariant, LockInvariant', NEW t \in Tasks, Begin(t)
  PROVE  StoreInvariant'
  <1>1. PICK q : task' = [task EXCEPT ![t] = [Idle EXCEPT !.pc = "lock", !.q = q]]
    BY DEF Begin
  <1>2. PICK u : u = [Idle EXCEPT !.pc = "lock", !.q = q]
    OBVIOUS
  <1>3. u.pc = "lock"
    BY <1>2 DEF Idle
  <1>4. task'[t] = u /\ \A v \in Tasks \ {t} : task'[v] = task[v]
    BY <1>1, <1>2 DEF StoreInvariant, LockInvariant
  <1>5. store' = store
    BY DEF Begin
  <1> QED BY <1>3, <1>4, <1>5, OneTaskStore

\* Waiting for a lock stages nothing.
LEMMA AcquireStore ==
  ASSUME StoreInvariant, LockInvariant', NEW t \in Tasks, Acquire(t)
  PROVE  StoreInvariant'
  <1>1. PICK lock : task' = [task EXCEPT ![t].held = @ \cup {lock}]
    BY DEF Acquire
  <1>2. PICK u : u = [task[t] EXCEPT !.held = @ \cup {lock}]
    OBVIOUS
  <1>3. Shape(task[t]) /\ DOMAIN task = Tasks
    BY DEF StoreInvariant, LockInvariant, TaskFits
  <1>4. u.pc = task[t].pc
    BY <1>2, <1>3 DEF Shape
  <1>5. task'[t] = u /\ \A v \in Tasks \ {t} : task'[v] = task[v]
    BY <1>1, <1>2, <1>3
  <1>6. store' = store /\ task[t].pc \in {"lock", "recover"}
    BY DEF Acquire
  <1> QED BY <1>4, <1>5, <1>6, OneTaskStore

\* What is staged under its locks fits the store.
LEMMA WorkStore ==
  ASSUME StoreInvariant, LockInvariant', NEW t \in Tasks, Work(t)
  PROVE  StoreInvariant'
  <1> DEFINE q == task[t].q
             v == Verdict(store, q, t)
             read == ReadVersion(store, q)
             raised == Raised(v, read)
             done == [task[t] EXCEPT !.pc = "idle", !.held = {},
                                     !.code = IF v.staged = Empty THEN v.code ELSE "UNSTAGED",
                                     !.result = v.result, !.read = read, !.object = read]
             staged == [task[t] EXCEPT !.pc = "staged", !.staged = v.staged, !.result = v.result,
                                       !.read = read, !.object = raised]
  <1>1. Shape(task[t]) /\ q.op \in Operations /\ DOMAIN task = Tasks
    BY DEF StoreInvariant, LockInvariant, TaskFits, Work
  <1>2. Missing(store, q, HeldBy(t)) = {}
    BY DEF Work
  <1>3. StoreWhole(store)
    BY DEF StoreInvariant
  <1>4. UnitFits(store, v.staged, HeldBy(t))
    BY <1>1, <1>2, <1>3, VerdictFits
  <1>5. task' = [task EXCEPT ![t] = done] \/ task' = [task EXCEPT ![t] = staged]
    BY DEF Work
  <1>6. store' = store
    BY DEF Work
  <1> HIDE DEF v, q, read, raised
  <1>7. done.pc = "idle"
    BY <1>1 DEF Shape
  <1>8. staged.held = HeldBy(t) /\ staged.staged = v.staged
    BY <1>1 DEF Shape, HeldBy
  <1> HIDE DEF done, staged
  <1>9. /\ task'[t] = done \/ task'[t] = staged
        /\ \A u \in Tasks \ {t} : task'[u] = task[u]
    BY <1>1, <1>5
  <1> QED BY <1>4, <1>6, <1>7, <1>8, <1>9, OneTaskStore

\* What is published keeps the store whole, and what others have staged still fits.
LEMMA PublishStore ==
  ASSUME StoreInvariant, LockInvariant', NEW t \in Tasks, Publish(t)
  PROVE  StoreInvariant'
  <1> DEFINE st == task[t].staged
             why == Objection(store, st)
             again == [task[t] EXCEPT !.pc = "recover", !.held = {}, !.staged = Empty,
                                      !.object = RolledBack(t)]
  <1>1. /\ Shape(task[t]) /\ DOMAIN task = Tasks /\ StoreWhole(store)
        /\ StagedFits(store.rows, st.rows, HeldBy(t)) /\ UnitFits(store, st, HeldBy(t))
    BY DEF StoreInvariant, LockInvariant, TaskFits, Publish, HeldBy
  <1>2. CASE why = "none" /\ store' = Merge(store, st) /\ Leave(t, "ok", task[t].result, task[t].object)
    <2> DEFINE left == [task[t] EXCEPT !.pc = "idle", !.held = {}, !.staged = Empty, !.code = "ok",
                                       !.result = task[t].result, !.object = task[t].object]
    <2>1. left.pc = "idle"
      BY <1>1 DEF Shape
    <2>2. task' = [task EXCEPT ![t] = left]
      BY <1>2 DEF Leave
    <2> HIDE DEF left
    <2>3. task'[t].pc = "idle" /\ \A u \in Tasks \ {t} : task'[u] = task[u]
      BY <1>1, <2>1, <2>2
    <2>4. StoreWhole(store')
      BY <1>1, <1>2, PublishedStore
    <2>5. ASSUME NEW u \in Tasks \ {t}, task[u].pc = "staged"
          PROVE  UnitFits(store', task[u].staged, task[u].held)
      <3>1. UnitFits(store, task[u].staged, task[u].held)
        BY <2>5 DEF StoreInvariant
      <3>2. HeldBy(t) \cap task[u].held = {}
        BY DEF StoreInvariant, LockInvariant, Exclusive, HeldBy
      <3>3. PICK E : E = Merge(store, st)
        OBVIOUS
      <3>4. UnitFits(E, task[u].staged, task[u].held)
        BY <1>1, <1>2, <3>1, <3>2, <3>3, UnitStays
      <3> QED BY <1>2, <3>3, <3>4
    <2>6. \A u \in Tasks : task'[u].pc = "staged" => UnitFits(store', task'[u].staged, task'[u].held)
      BY <2>3, <2>5
    <2> QED BY <2>4, <2>6 DEF StoreInvariant
  <1>3. CASE store' = store /\ Leave(t, why, <<>>, RolledBack(t))
    BY <1>3, LeaveStore
  <1>4. CASE store' = store /\ task' = [task EXCEPT ![t] = again]
    <2>1. again.pc = "recover"
      BY <1>1 DEF Shape
    <2> HIDE DEF again
    <2>2. task'[t] = again /\ \A u \in Tasks \ {t} : task'[u] = task[u]
      BY <1>1, <1>4
    <2> QED BY <1>4, <2>1, <2>2, OneTaskStore
  <1> QED BY <1>2, <1>3, <1>4 DEF Publish

\* Every step keeps the invariant.
LEMMA NextStore == StoreInvariant /\ [Next]_vars => StoreInvariant'
  <1> SUFFICES ASSUME StoreInvariant, [Next]_vars PROVE StoreInvariant'
    OBVIOUS
  <1>1. LockInvariant'
    BY NextLocks DEF StoreInvariant
  <1>2. CASE UNCHANGED vars
    BY <1>1, <1>2 DEF vars, StoreInvariant
  <1>3. CASE Finished
    BY <1>1, <1>2, <1>3 DEF Finished
  <1>4. ASSUME NEW t \in Tasks, Begin(t) PROVE StoreInvariant'
    BY <1>1, <1>4, BeginStore
  <1>5. ASSUME NEW t \in Tasks, Acquire(t) PROVE StoreInvariant'
    BY <1>1, <1>5, AcquireStore
  <1>6. ASSUME NEW t \in Tasks, Work(t) PROVE StoreInvariant'
    BY <1>1, <1>6, WorkStore
  <1>7. ASSUME NEW t \in Tasks, Publish(t) PROVE StoreInvariant'
    BY <1>1, <1>7, PublishStore
  <1>8. ASSUME NEW t \in Tasks, Recover(t) PROVE StoreInvariant'
    BY <1>1, <1>8, LeaveStore DEF Recover
  <1>9. ASSUME NEW t \in Tasks, Cancel(t) PROVE StoreInvariant'
    BY <1>1, <1>9, LeaveStore DEF Cancel
  <1> QED BY <1>2, <1>3, <1>4, <1>5, <1>6, <1>7, <1>8, <1>9 DEF Next

\* Whatever units of work overlap, fail or are cancelled, what the process has published is
\* of one moment: every session's maps agree, and the durable tables would take every row
\* (demo_persistence.py).
THEOREM StoreStaysWhole == Spec => []StoreIsWhole
  <1>1. StoreInvariant => StoreIsWhole
    BY WholeStoreAgrees DEF StoreInvariant
  <1> QED BY InitStore, NextStore, <1>1, PTL DEF Spec
=============================================================================
