------------------------- MODULE StoryDirectorProofs -------------------------
(* For every set of drafts: the committed runtime stays inside its content, *)
(* a story never goes back, and what the static analysis rules out does not *)
(* happen.                                                                  *)
EXTENDS StoryDirector, FiniteSetTheorems, WellFoundedInduction, TLAPS

Fields == {"phase", "beat", "at", "clues", "groups", "bound", "facts", "clocks", "open",
           "decision", "made", "rapid", "status", "ending", "visits", "uses", "applied",
           "outcomes", "answers"}

\* The shape of a runtime of d, before any validator: what the stages of an
\* advancement are functions of.
Shape(d, r) ==
    /\ DOMAIN r = Fields
    /\ r.beat \in Nat
    /\ DOMAIN r.clocks = DOMAIN d.clocks
    /\ \A c \in DOMAIN r.clocks : r.clocks[c].value \in Nat
    /\ r.made \in Seq(DOMAIN d.windows)
    /\ r.visits \in [DOMAIN d.phases -> Nat]

\* b is further on than a.
Onward(a, b) ==
    /\ a.clues \subseteq b.clues
    /\ a.groups \subseteq b.groups
    /\ a.open \subseteq b.open
    /\ a.outcomes \subseteq b.outcomes
    /\ DOMAIN b.bound = DOMAIN a.bound
    /\ \A f \in DOMAIN a.bound : a.bound[f] # None => b.bound[f] = a.bound[f]
    /\ DOMAIN b.clocks = DOMAIN a.clocks
    /\ \A c \in DOMAIN a.clocks :
         /\ a.clocks[c].value <= b.clocks[c].value
         /\ a.clocks[c].fired \subseteq b.clocks[c].fired
    /\ Len(a.made) <= Len(b.made)
    /\ \A k \in 1..Len(a.made) : b.made[k] = a.made[k]

\* What the engine lets through: nothing refused it.
LEMMA Unrefused ==
  ASSUME NEW d, NEW r, NEW ts, NEW e, Refusals(d, r, ts, e) = {}
  PROVE  /\ e # NoEvent => \A why \in EventReasons : ~EventRefused(d, r, ts, e, why)
         /\ \A why \in Turned \cup Checked :
              ~CandidateRefused(d, Candidate(d, r, e), EventTypes(d, r, e), ts, e, why)
  BY DEF Refusals, EarlyRefusals, LateRefusals

LEMMA OpeningDecisions ==
  ASSUME NEW d, NEW r, NEW seen, Shape(d, r)
  PROVE  /\ Shape(d, OpenDecision(d, r, seen))
         /\ Onward(r, OpenDecision(d, r, seen))
         /\ OpenDecision(d, r, seen).phase = r.phase
         /\ OpenDecision(d, r, seen).visits = r.visits
  <1>1. PICK w : OpenDecision(d, r, seen) = r \/ OpenDecision(d, r, seen) = [r EXCEPT !.decision = w]
    BY DEF OpenDecision
  <1> DEFINE s == OpenDecision(d, r, seen)
  <1> HIDE DEF s
  <1>2. /\ DOMAIN s = Fields /\ s.beat = r.beat /\ s.phase = r.phase /\ s.clocks = r.clocks
        /\ s.groups = r.groups /\ s.clues = r.clues /\ s.open = r.open /\ s.bound = r.bound
        /\ s.made = r.made /\ s.outcomes = r.outcomes /\ s.visits = r.visits
    BY <1>1 DEF Shape, Fields, s
  <1>3. Shape(d, s)
    BY <1>2 DEF Shape
  <1>4. Onward(r, r)
    BY DEF Onward, Shape
  <1>5. Onward(r, s)
    BY <1>2, <1>4 DEF Onward
  <1> QED BY <1>2, <1>3, <1>5 DEF s

LEMMA NewStory ==
  ASSUME NEW d, Numbered(d), ContentValid(d)
  PROVE  Shape(d, Started(d))
  <1> DEFINE r == FromDefinition(d)
  <1>1. DOMAIN r = Fields /\ r.beat \in Nat /\ DOMAIN r.clocks = DOMAIN d.clocks
    BY DEF FromDefinition, Fields
  <1>2. \A c \in DOMAIN r.clocks : r.clocks[c].value \in Nat
    <2>1. \A c \in DOMAIN r.clocks : r.clocks[c].value = d.clocks[c].initial
      BY DEF FromDefinition
    <2>2. \A c \in DOMAIN d.clocks : ClockShaped(d.clocks[c])
      BY DEF ContentValid, Shaped
    <2> QED BY <1>1, <2>1, <2>2 DEF ClockShaped, Numbered
  <1>3. r.made \in Seq(DOMAIN d.windows)
    BY DEF FromDefinition
  <1>4. r.visits \in [DOMAIN d.phases -> Nat]
    BY DEF FromDefinition
  <1>5. Shape(d, r)
    BY <1>1, <1>2, <1>3, <1>4 DEF Shape
  <1> HIDE DEF r
  <1> QED BY <1>5, OpeningDecisions DEF Started, r

LEMMA Appending ==
  ASSUME NEW S, NEW q \in Seq(S), NEW x \in S
  PROVE  /\ Append(q, x) \in Seq(S)
         /\ Len(q) <= Len(Append(q, x))
         /\ \A k \in 1..Len(q) : Append(q, x)[k] = q[k]
  OBVIOUS

LEMMA ApplyingEvents ==
  ASSUME NEW d, NEW r, NEW e, Shape(d, r),
         e.resolves => r.decision \in DOMAIN d.windows,
         \A f \in DOMAIN e.binds : r.bound[f] = None
  PROVE  LET s == ApplyEvent(d, r, e) IN
         Shape(d, s) /\ Onward(r, s) /\ s.visits = r.visits
  <1> DEFINE s == ApplyEvent(d, r, e)
  <1>1. DOMAIN s = Fields
    BY DEF ApplyEvent, Shape, Fields
  <1>2. /\ s.clues = r.clues \cup e.clues
        /\ s.open = r.open \cup e.opens
        /\ s.bound = Updated(r.bound, e.binds)
        /\ s.made = IF e.resolves THEN Append(r.made, r.decision) ELSE r.made
        /\ s.outcomes = IF e.rule = None THEN r.outcomes
                        ELSE r.outcomes \cup {[rule |-> e.rule, result |-> e.result]}
    BY DEF ApplyEvent, Shape, Fields
  <1>3. /\ s.groups = r.groups /\ s.clocks = r.clocks /\ s.beat = r.beat
        /\ s.visits = r.visits
    BY DEF ApplyEvent, Shape, Fields
  <1> HIDE DEF s
  <1>4. r.made \in Seq(DOMAIN d.windows)
    BY DEF Shape
  <1>5. /\ s.made \in Seq(DOMAIN d.windows)
        /\ Len(r.made) <= Len(s.made)
        /\ \A k \in 1..Len(r.made) : s.made[k] = r.made[k]
    <2>1. CASE e.resolves
      <3>1. s.made = Append(r.made, r.decision)
        BY <1>2, <2>1
      <3>2. r.decision \in DOMAIN d.windows
        BY <2>1
      <3>3. /\ Append(r.made, r.decision) \in Seq(DOMAIN d.windows)
            /\ Len(r.made) <= Len(Append(r.made, r.decision))
            /\ \A k \in 1..Len(r.made) : Append(r.made, r.decision)[k] = r.made[k]
        BY <1>4, <3>2, Appending, Zenon
      <3> QED BY <3>1, <3>3, Zenon
    <2>2. CASE ~e.resolves
      <3>1. s.made = r.made
        BY <1>2, <2>2
      <3>2. Len(r.made) \in Nat
        BY <1>4
      <3> QED BY <1>4, <3>1, <3>2
    <2> QED BY <2>1, <2>2
  <1>6. /\ DOMAIN s.bound = DOMAIN r.bound
        /\ \A f \in DOMAIN r.bound : r.bound[f] # None => s.bound[f] = r.bound[f]
    BY <1>2 DEF Updated
  <1>7. Shape(d, s)
    BY <1>1, <1>3, <1>5 DEF Shape
  <1>8. Onward(r, s)
    <2>1. \A c \in DOMAIN r.clocks : r.clocks[c].value <= r.clocks[c].value
      BY DEF Shape
    <2> QED BY <1>2, <1>3, <1>5, <1>6, <2>1 DEF Onward
  <1> QED BY <1>3, <1>7, <1>8 DEF s

\* A clock moves forward, and fires what it crosses once.
LEMMA ClockMovesOn ==
  ASSUME NEW clock, NEW state, NEW amount \in Nat, clock.max \in Nat, state.value \in Nat,
         state.value <= clock.max
  PROVE  LET next == AdvanceClock(clock, state, amount) IN
         /\ next.value \in Nat
         /\ state.value <= next.value
         /\ state.fired \subseteq next.fired
  BY DEF AdvanceClock

LEMMA ClocksMoveOn ==
  ASSUME NEW d, NEW clocks, NEW advances, Numbered(d), DOMAIN clocks = DOMAIN d.clocks,
         \A c \in DOMAIN clocks : clocks[c].value \in Nat /\ clocks[c].value <= d.clocks[c].max,
         \A c \in DOMAIN advances : advances[c] \in Nat
  PROVE  LET next == AdvanceClocks(d, clocks, advances) IN
         /\ DOMAIN next = DOMAIN clocks
         /\ \A c \in DOMAIN clocks :
              /\ next[c].value \in Nat
              /\ clocks[c].value <= next[c].value
              /\ clocks[c].fired \subseteq next[c].fired
  <1> DEFINE next == AdvanceClocks(d, clocks, advances)
  <1>1. DOMAIN next = DOMAIN clocks
    BY DEF AdvanceClocks
  <1>2. ASSUME NEW c \in DOMAIN clocks
        PROVE  /\ next[c].value \in Nat
               /\ clocks[c].value <= next[c].value
               /\ clocks[c].fired \subseteq next[c].fired
    <2>1. CASE c \in DOMAIN advances
      <3>1. next[c] = AdvanceClock(d.clocks[c], clocks[c], advances[c])
        BY <2>1 DEF AdvanceClocks
      <3>2. d.clocks[c].max \in Nat
        BY DEF Numbered
      <3> QED BY <2>1, <3>1, <3>2, ClockMovesOn
    <2>2. CASE c \notin DOMAIN advances
      BY <2>2 DEF AdvanceClocks
    <2> QED BY <2>1, <2>2
  <1> QED BY <1>1, <1>2

LEMMA CostIsNatural ==
  ASSUME NEW d, NEW p \in DOMAIN d.phases, NEW e, Numbered(d)
  PROVE  \A c \in DOMAIN Cost(d.phases[p], e) : Cost(d.phases[p], e)[c] \in Nat
  <1>1. CASE e = NoEvent
    BY <1>1 DEF Cost, Numbered
  <1>2. CASE e # NoEvent /\ e.action \in DOMAIN d.phases[p].cost
    BY <1>2 DEF Cost, Numbered
  <1>3. CASE e # NoEvent /\ e.action \notin DOMAIN d.phases[p].cost
    BY <1>3 DEF Cost
  <1> QED BY <1>1, <1>2, <1>3

\* What every committed runtime keeps.
IInv == TypeOK /\ Shape(D, runtime) /\ RuntimeValid(D, runtime)

\* The event, the beat, the clocks and the clue groups.
LEMMA AfterTheBeat ==
  ASSUME NEW d, NEW r, NEW e, Numbered(d), Shape(d, r), r.phase \in DOMAIN d.phases,
         \A c \in DOMAIN d.clocks : r.clocks[c].value <= d.clocks[c].max,
         e # NoEvent => (e.resolves => r.decision \in DOMAIN d.windows),
         e # NoEvent => \A f \in DOMAIN e.binds : r.bound[f] = None
  PROVE  LET s == AfterBeat(d, r, e) IN
         Shape(d, s) /\ Onward(r, s) /\ s.visits = r.visits
  <1> DEFINE told == IF e = NoEvent THEN r ELSE ApplyEvent(d, r, e)
             s == AfterBeat(d, r, e)
  <1>1. Shape(d, told) /\ Onward(r, told) /\ told.visits = r.visits /\ told.clocks = r.clocks
    <2>1. CASE e = NoEvent
      <3>1. Onward(r, r)
        BY DEF Onward, Shape
      <3> QED BY <2>1, <3>1
    <2>2. CASE e # NoEvent
      <3>1. told = ApplyEvent(d, r, e)
        BY <2>2
      <3>2. ApplyEvent(d, r, e).clocks = r.clocks
        BY DEF ApplyEvent, Shape, Fields
      <3> HIDE DEF told
      <3> QED BY <2>2, <3>1, <3>2, ApplyingEvents
    <2> QED BY <2>1, <2>2
  <1>2. s = [told EXCEPT !.beat = @ + 1,
                         !.clocks = AdvanceClocks(d, @, Cost(d.phases[r.phase], e)),
                         !.groups = CompleteGroups(d, told)]
    BY DEF AfterBeat
  <1> HIDE DEF s, told
  <1>3. /\ DOMAIN s = Fields /\ s.beat = told.beat + 1
        /\ s.clocks = AdvanceClocks(d, r.clocks, Cost(d.phases[r.phase], e))
        /\ s.groups = told.groups \cup Complete(d, told.clues)
        /\ s.clues = told.clues /\ s.open = told.open /\ s.bound = told.bound
        /\ s.made = told.made /\ s.outcomes = told.outcomes /\ s.visits = told.visits
    BY <1>1, <1>2 DEF Shape, Fields, CompleteGroups
  <1>4. /\ DOMAIN s.clocks = DOMAIN r.clocks
        /\ \A c \in DOMAIN r.clocks :
             /\ s.clocks[c].value \in Nat
             /\ r.clocks[c].value <= s.clocks[c].value
             /\ r.clocks[c].fired \subseteq s.clocks[c].fired
    <2>1. /\ DOMAIN r.clocks = DOMAIN d.clocks
          /\ \A c \in DOMAIN r.clocks : r.clocks[c].value \in Nat
      BY DEF Shape
    <2> DEFINE advances == Cost(d.phases[r.phase], e)
    <2>2. \A c \in DOMAIN advances : advances[c] \in Nat
      BY CostIsNatural
    <2> HIDE DEF advances
    <2>3. s.clocks = AdvanceClocks(d, r.clocks, advances)
      BY <1>3 DEF advances
    <2> QED BY <2>1, <2>2, <2>3, ClocksMoveOn
  <1>5. Shape(d, s)
    BY <1>1, <1>3, <1>4 DEF Shape
  <1>6. Onward(r, s)
    BY <1>1, <1>3, <1>4 DEF Onward
  <1> QED BY <1>1, <1>3, <1>5, <1>6 DEF s

\* A transition, or none.
LEMMA OneMoreVisit ==
  ASSUME NEW S, NEW f \in [S -> Nat], NEW x
  PROVE  /\ [f EXCEPT ![x] = @ + 1] \in [S -> Nat]
         /\ x \in S => [f EXCEPT ![x] = @ + 1][x] = f[x] + 1
  <1>1. CASE x \in S
    BY <1>1
  <1>2. CASE x \notin S
    <2>1. [f EXCEPT ![x] = @ + 1] = f
      BY <1>2
    <2> QED BY <1>2, <2>1
  <1> QED BY <1>1, <1>2

LEMMA TransitionsMoveOn ==
  ASSUME NEW d, NEW r, NEW seen, NEW resolved, Shape(d, r)
  PROVE  LET s == ApplyTransition(d, r, seen, resolved) IN
         /\ Shape(d, s) /\ Onward(r, s)
         /\ s.phase # r.phase /\ s.phase \in DOMAIN d.phases => s.visits[s.phase] > r.visits[s.phase]
  <1> DEFINE s == ApplyTransition(d, r, seen, resolved)
  <1>0. Onward(r, r)
    BY DEF Onward, Shape
  <1>1. PICK id, target, rapid, at :
          s = r \/ s = [r EXCEPT !.uses[id] = @ + 1, !.phase = target, !.beat = 0,
                                 !.decision = None, !.visits[target] = @ + 1,
                                 !.rapid = rapid, !.at = at]
    BY DEF ApplyTransition
  <1> HIDE DEF s
  <1>2. CASE s = r
    BY <1>0, <1>2 DEF s
  <1>3. CASE s # r
    <2>1. /\ DOMAIN s = Fields /\ s.beat = 0 /\ s.phase = target
          /\ s.clocks = r.clocks /\ s.groups = r.groups /\ s.clues = r.clues
          /\ s.open = r.open /\ s.bound = r.bound /\ s.made = r.made
          /\ s.outcomes = r.outcomes
          /\ s.visits = [r.visits EXCEPT ![target] = @ + 1]
      BY <1>1, <1>3 DEF Shape, Fields
    <2>2. r.visits \in [DOMAIN d.phases -> Nat]
      BY DEF Shape
    <2>3. /\ s.visits \in [DOMAIN d.phases -> Nat]
          /\ target \in DOMAIN d.phases => s.visits[target] = r.visits[target] + 1
      <3>1. s.visits = [r.visits EXCEPT ![target] = @ + 1]
        BY <2>1
      <3> DEFINE visits == [r.visits EXCEPT ![target] = @ + 1]
      <3>2. /\ visits \in [DOMAIN d.phases -> Nat]
            /\ target \in DOMAIN d.phases => visits[target] = r.visits[target] + 1
        BY <2>2, OneMoreVisit
      <3> HIDE DEF visits
      <3>3. s.visits = visits
        BY <3>1 DEF visits
      <3> QED BY <3>2, <3>3
    <2>4. Shape(d, s)
      BY <2>1, <2>3 DEF Shape
    <2>5. Onward(r, s)
      BY <1>0, <2>1 DEF Onward
    <2>6. s.phase \in DOMAIN d.phases => s.visits[s.phase] > r.visits[s.phase]
      BY <2>1, <2>2, <2>3
    <2> QED BY <2>4, <2>5, <2>6 DEF s
  <1> QED BY <1>2, <1>3

LEMMA EndingsKeep ==
  ASSUME NEW d, NEW r, NEW seen, Shape(d, r)
  PROVE  LET s == ApplyEnding(d, r, seen) IN
         Shape(d, s) /\ Onward(r, s) /\ s.phase = r.phase /\ s.visits = r.visits
  <1> DEFINE s == ApplyEnding(d, r, seen)
  <1>0. Onward(r, r)
    BY DEF Onward, Shape
  <1>1. PICK status, ending :
          s = r \/ s = [r EXCEPT !.status = status, !.ending = ending, !.decision = None]
    BY DEF ApplyEnding
  <1> HIDE DEF s
  <1>2. /\ DOMAIN s = Fields /\ s.beat = r.beat /\ s.phase = r.phase /\ s.clocks = r.clocks
        /\ s.groups = r.groups /\ s.clues = r.clues /\ s.open = r.open /\ s.bound = r.bound
        /\ s.made = r.made /\ s.outcomes = r.outcomes /\ s.visits = r.visits
    BY <1>1 DEF Shape, Fields
  <1>3. Shape(d, s)
    BY <1>2 DEF Shape
  <1>4. Onward(r, s)
    BY <1>0, <1>2 DEF Onward
  <1> QED BY <1>2, <1>3, <1>4 DEF s

LEMMA OnwardComposes ==
  ASSUME NEW d, NEW a, NEW b, NEW c, Shape(d, a), Shape(d, b), Shape(d, c), Onward(a, b), Onward(b, c)
  PROVE  Onward(a, c)
  <1>1. /\ DOMAIN c.bound = DOMAIN a.bound
        /\ \A f \in DOMAIN a.bound : a.bound[f] # None => c.bound[f] = a.bound[f]
    BY DEF Onward
  <1>2. /\ Len(a.made) \in Nat /\ Len(b.made) \in Nat /\ Len(c.made) \in Nat
    BY DEF Shape
  <1>3. /\ Len(a.made) <= Len(c.made)
        /\ \A k \in 1..Len(a.made) : c.made[k] = a.made[k]
    BY <1>2 DEF Onward
  <1>4. /\ DOMAIN c.clocks = DOMAIN a.clocks
        /\ \A k \in DOMAIN a.clocks :
             /\ a.clocks[k].value <= c.clocks[k].value
             /\ a.clocks[k].fired \subseteq c.clocks[k].fired
    <2>1. \A k \in DOMAIN a.clocks :
            a.clocks[k].value \in Nat /\ b.clocks[k].value \in Nat /\ c.clocks[k].value \in Nat
      BY DEF Shape, Onward
    <2> QED BY <2>1 DEF Onward
  <1>5. /\ a.clues \subseteq c.clues /\ a.groups \subseteq c.groups /\ a.open \subseteq c.open
        /\ a.outcomes \subseteq c.outcomes
    BY DEF Onward
  <1> QED BY <1>1, <1>3, <1>4, <1>5 DEF Onward

LEMMA ClosedStory ==
  ASSUME NEW d, NEW r, NEW ts, NEW e, Refusals(d, r, ts, e) = {}
  PROVE  RuntimeValid(d, Candidate(d, r, e))
  <1> DEFINE next == Candidate(d, r, e)
             refused(why) == CandidateRefused(d, next, EventTypes(d, r, e), ts, e, why)
  <1>1. \A why \in Checked : ~refused(why)
    BY Unrefused
  <1>2. ~refused("beyond the last beat")
    BY <1>1 DEF Checked
  <1>3. ~refused("invalid runtime")
    BY <1>1 DEF Checked
  <1>4. BeatBounded(d, next)
    BY <1>2 DEF CandidateRefused
  <1>5. StoryValid(d, next) /\ WorldValid(d, next) /\ HistoryValid(d, next)
    BY <1>3 DEF CandidateRefused
  <1> QED BY <1>4, <1>5 DEF RuntimeValid

\* What the engine checks of an event before anything moves.
LEMMA AdmittedEvent ==
  ASSUME NEW d, NEW r, NEW ts, NEW e, Refusals(d, r, ts, e) = {}, e # NoEvent,
         r.decision \in DOMAIN d.windows \cup {None}
  PROVE  /\ e.resolves => r.decision \in DOMAIN d.windows
         /\ \A f \in DOMAIN e.binds : r.bound[f] = None
  <1>1. \A why \in EventReasons : ~EventRefused(d, r, ts, e, why)
    BY Unrefused
  <1>2. ~EventRefused(d, r, ts, e, "wrong decision")
    BY <1>1 DEF EventReasons
  <1>3. ~EventRefused(d, r, ts, e, "binding")
    BY <1>1 DEF EventReasons
  <1>4. e.resolves => r.decision \in DOMAIN d.windows
    BY <1>2 DEF EventRefused
  <1>5. \A f \in DOMAIN e.binds : r.bound[f] = None
    BY <1>3 DEF EventRefused, Bindable
  <1> QED BY <1>4, <1>5

\* One advancement that the engine accepts.
LEMMA Advancement ==
  ASSUME NEW d, NEW r, NEW ts, NEW e, Numbered(d), Shape(d, r), r.phase \in DOMAIN d.phases,
         \A c \in DOMAIN d.clocks : r.clocks[c].value <= d.clocks[c].max,
         r.decision \in DOMAIN d.windows \cup {None},
         Refusals(d, r, ts, e) = {}
  PROVE  LET s == Candidate(d, r, e) IN
         /\ Shape(d, s) /\ Onward(r, s) /\ RuntimeValid(d, s)
         /\ s.phase # r.phase => s.visits[s.phase] > r.visits[s.phase]
  <1> DEFINE seen == EventTypes(d, r, e)
             a == AfterBeat(d, r, e)
             b == ApplyTransition(d, a, seen, Resolves(e))
             c == ApplyEnding(d, b, seen)
             s == OpenDecision(d, c, seen)
  <1>0. s = Candidate(d, r, e)
    BY DEF Candidate
  <1>1. Shape(d, a) /\ Onward(r, a) /\ a.visits = r.visits /\ a.phase = r.phase
    <2>1. a.phase = r.phase
      BY DEF AfterBeat, ApplyEvent, Shape, Fields
    <2> HIDE DEF a
    <2>2. Shape(d, a) /\ Onward(r, a) /\ a.visits = r.visits
      BY AdmittedEvent, AfterTheBeat DEF a
    <2> QED BY <2>1, <2>2
  <1> HIDE DEF a, seen
  <1>2. /\ Shape(d, b) /\ Onward(a, b)
        /\ b.phase # a.phase /\ b.phase \in DOMAIN d.phases => b.visits[b.phase] > a.visits[b.phase]
    BY <1>1, TransitionsMoveOn
  <1> HIDE DEF b
  <1>3. Shape(d, c) /\ Onward(b, c) /\ c.phase = b.phase /\ c.visits = b.visits
    BY <1>2, EndingsKeep
  <1> HIDE DEF c
  <1>4. Shape(d, s) /\ Onward(c, s) /\ s.phase = c.phase /\ s.visits = c.visits
    BY <1>3, OpeningDecisions
  <1> HIDE DEF s
  <1>5. Onward(a, c)
    BY <1>1, <1>2, <1>3, OnwardComposes
  <1>6. Onward(a, s)
    BY <1>1, <1>3, <1>4, <1>5, OnwardComposes
  <1>7. Onward(r, s)
    BY <1>1, <1>4, <1>6, OnwardComposes
  <1>8. RuntimeValid(d, s)
    BY <1>0, ClosedStory
  <1>9. s.phase \in DOMAIN d.phases
    BY <1>8 DEF RuntimeValid, StoryValid
  <1> QED BY <1>0, <1>1, <1>2, <1>3, <1>4, <1>7, <1>8, <1>9

\* TypeOK of one runtime of the content d.
Typed(d, r) ==
    /\ r.phase \in DOMAIN d.phases
    /\ r.beat \in 0..d.phases[r.phase].max
    /\ r.at \in r.open /\ r.open \subseteq DOMAIN d.locations
    /\ r.clues \subseteq DOMAIN d.clues
    /\ r.groups = Complete(d, r.clues)
    /\ DOMAIN r.clocks = DOMAIN d.clocks
    /\ \A c \in DOMAIN d.clocks :
         /\ r.clocks[c].value \in d.clocks[c].min..d.clocks[c].max
         /\ r.clocks[c].fired = FiredAt(d.clocks[c], r.clocks[c].value)
    /\ r.decision \in DOMAIN d.windows \cup {None}
    /\ Span(r.made) \subseteq DOMAIN d.windows
    /\ r.status \in {"ACTIVE", "RESOLVED", "FAILED"}

LEMMA ValidIsTyped ==
  ASSUME NEW d, NEW r, Numbered(d), ContentValid(d), Shape(d, r), RuntimeValid(d, r)
  PROVE  Typed(d, r)
  <1>1. r.phase \in DOMAIN d.phases
    BY DEF RuntimeValid, StoryValid
  <1>2. r.beat \in 0..d.phases[r.phase].max
    BY <1>1 DEF RuntimeValid, BeatBounded, Numbered, Shape
  <1>3. /\ r.at \in r.open /\ r.open \subseteq DOMAIN d.locations
        /\ r.clues \subseteq DOMAIN d.clues
        /\ r.groups = Complete(d, r.clues)
        /\ \A c \in DOMAIN d.clocks :
             /\ r.clocks[c].value \in d.clocks[c].min..d.clocks[c].max
             /\ r.clocks[c].fired = FiredAt(d.clocks[c], r.clocks[c].value)
    BY DEF RuntimeValid, WorldValid
  <1>4. DOMAIN r.clocks = DOMAIN d.clocks
    BY DEF Shape
  <1>5. r.decision \in DOMAIN d.windows \cup {None}
    <2>1. r.decision # None => r.decision \in Span(d.phases[r.phase].windows)
      BY DEF RuntimeValid, HistoryValid
    <2>2. Span(d.phases[r.phase].windows) \subseteq DOMAIN d.windows
      BY <1>1 DEF ContentValid, PhaseRefs
    <2> QED BY <2>1, <2>2
  <1>6. Span(r.made) \subseteq DOMAIN d.windows
    BY DEF RuntimeValid, HistoryValid
  <1>7. r.status \in {"ACTIVE", "RESOLVED", "FAILED"}
    <2>1. /\ (r.status = "ACTIVE") = (r.ending = None)
          /\ r.ending # None => \E k \in DOMAIN d.endings :
                                  d.endings[k].id = r.ending /\ d.endings[k].status = r.status
      BY DEF RuntimeValid, StoryValid
    <2>2. \A k \in DOMAIN d.endings : d.endings[k].status \in {"RESOLVED", "FAILED"}
      BY DEF ContentValid, Shaped, EndingShaped
    <2> QED BY <2>1, <2>2
  <1> QED BY <1>1, <1>2, <1>3, <1>4, <1>5, <1>6, <1>7 DEF Typed

LEMMA CatalogIsValid ==
  ASSUME NEW s \in Catalog
  PROVE  Numbered(Drafts[s]) /\ ContentValid(Drafts[s])
  BY DraftsAreNumbered DEF Catalog

LEMMA Initially == Init => IInv
  <1> SUFFICES ASSUME Init PROVE IInv
    OBVIOUS
  <1>1. Numbered(D) /\ ContentValid(D)
    BY CatalogIsValid DEF Init, D
  <1>2. Shape(D, runtime) /\ RuntimeValid(D, runtime)
    BY <1>1, NewStory DEF Init, D
  <1>3. Typed(D, runtime)
    BY <1>1, <1>2, ValidIsTyped
  <1>4. scenario \in Catalog /\ tags \subseteq D.tags
    BY DEF Init, D
  <1> QED BY <1>2, <1>3, <1>4 DEF IInv, TypeOK, Typed

\* What a step makes of the runtime, whatever was asked: nothing, or an
\* accepted advancement of a story that is not over.
Asked(e) ==
    \/ e = NoEvent
    \/ \E c : e = DecisionEvent(c)
    \/ \E u \in Structural : \E result \in DOMAIN D.rules[u].effects : e = OutcomeEvent(u, result)

Accepted(e) == Asked(e) /\ Refusals(D, runtime, tags, e) = {} /\ runtime' = Candidate(D, runtime, e)

LEMMA Requests ==
  ASSUME Next
  PROVE  /\ UNCHANGED <<scenario, tags>>
         /\ \/ UNCHANGED runtime
            \/ ~Over /\ \E e : Accepted(e)
  <1>1. ASSUME NEW e, ~Over, Asked(e), Advance(e)
        PROVE  \/ UNCHANGED runtime
               \/ ~Over /\ \E x : Accepted(x)
    BY <1>1 DEF Advance, Accepted
  <1>2. CASE Continue
    BY <1>1, <1>2 DEF Continue, ContinueAllowed, Told, Asked
  <1>3. CASE \E c \in Choices(D) : Choose(c)
    BY <1>1, <1>3 DEF Choose, Asked
  <1>4. CASE ChooseStale
    BY <1>4 DEF ChooseStale, Told
  <1>5. ASSUME NEW action, NEW aimed, NEW said, Act(action, aimed, said)
        PROVE  /\ UNCHANGED <<scenario, tags>>
               /\ \/ UNCHANGED runtime
                  \/ ~Over /\ \E x : Accepted(x)
    <2>1. AllowedOutcomes(action, aimed, said) \subseteq Structural
      BY DEF AllowedOutcomes, Matching
    <2>2. ASSUME NEW u \in AllowedOutcomes(action, aimed, said),
                 NEW result \in DOMAIN D.rules[u].effects
          PROVE  Asked(OutcomeEvent(u, result))
      BY <2>1 DEF Asked
    <2> QED BY <1>1, <1>5, <2>2 DEF Act, Told
  <1> QED BY <1>2, <1>3, <1>4, <1>5 DEF Next

LEMMA EachStep == IInv /\ [Next]_vars => IInv' /\ Progress
  <1> SUFFICES ASSUME IInv, [Next]_vars PROVE IInv' /\ Progress
    OBVIOUS
  <1>0. /\ scenario \in Catalog /\ tags \subseteq D.tags
        /\ Numbered(D) /\ ContentValid(D) /\ Shape(D, runtime)
    BY CatalogIsValid DEF IInv, TypeOK, D
  <1>1. CASE UNCHANGED <<scenario, tags, runtime>>
    <2>1. IInv'
      BY <1>1 DEF IInv, TypeOK, Over, D
    <2>2. Onward(runtime, runtime)
      BY <1>0 DEF Onward, Shape
    <2> QED BY <1>1, <2>1, <2>2 DEF Progress, Onward
  <1>2. ASSUME UNCHANGED <<scenario, tags>>, ~Over, NEW e, Accepted(e)
        PROVE  IInv' /\ Progress
    <2>0. Refusals(D, runtime, tags, e) = {} /\ runtime' = Candidate(D, runtime, e)
      BY <1>2 DEF Accepted
    <2>1. /\ runtime.phase \in DOMAIN D.phases
          /\ \A c \in DOMAIN D.clocks : runtime.clocks[c].value <= D.clocks[c].max
          /\ runtime.decision \in DOMAIN D.windows \cup {None}
      BY DEF IInv, TypeOK
    <2>2. /\ Shape(D, runtime') /\ Onward(runtime, runtime') /\ RuntimeValid(D, runtime')
          /\ runtime'.phase # runtime.phase =>
               runtime'.visits[runtime'.phase] > runtime.visits[runtime'.phase]
      BY <1>0, <2>0, <2>1, Advancement
    <2>3. Typed(D, runtime')
      BY <1>0, <2>2, ValidIsTyped
    <2>4. D' = D
      BY <1>2 DEF D
    <2>5. IInv'
      BY <1>0, <1>2, <2>2, <2>3, <2>4 DEF IInv, TypeOK, Typed
    <2>6. Progress
      BY <1>2, <2>2 DEF Progress, Onward
    <2> QED BY <2>5, <2>6
  <1> QED BY <1>1, <1>2, Requests DEF vars

\* The committed runtime stays inside its content, whatever drafts are offered
\* (ScenarioRuntimeState.validate_against at every advancement).
THEOREM StoryIsTyped == Spec => []TypeOK
  <1>1. IInv => TypeOK
    BY DEF IInv
  <1> QED BY Initially, EachStep, <1>1, PTL DEF Spec

\* A story never goes back, whatever drafts are offered (_apply_verified_event,
\* _advance_clocks, _complete_clue_groups and _apply_transition only add).
THEOREM StoryKeepsItsProgress == Spec => ProgressIsKept
  <1>1. IInv /\ [Next]_vars => [Progress]_vars
    BY EachStep
  <1>2. Spec => []IInv
    BY Initially, EachStep, PTL DEF Spec
  <1> QED BY <1>1, <1>2, PTL DEF Spec, ProgressIsKept

-----------------------------------------------------------------------------
(* The transition graph                                                     *)

\* Some number of a set of numbers is the least.
LEMMA LeastNumber ==
  ASSUME NEW S \in SUBSET Nat, S # {}
  PROVE  \E m \in S : \A n \in S : m <= n
  <1> DEFINE below == OpToRel(<, Nat)
  <1>1. \A m, n \in Nat : m < n => <<m, n>> \in below
    BY DEF OpToRel
  <1>2. IsWellFoundedOn(below, Nat)
    BY NatLessThanWellFounded
  <1> HIDE DEF below
  <1>3. PICK m \in S : \A n \in S : <<n, m>> \notin below
    BY <1>2, WFMin
  <1>4. ASSUME NEW n \in S PROVE m <= n
    <2>1. ~(n < m)
      BY <1>1, <1>3
    <2> QED BY <2>1
  <1> QED BY <1>4

\* One more round along the edges.
Round(step, S) == S \cup UNION {step[p] : p \in S}

Rounds(from, step, n, f) ==
    /\ DOMAIN f = 0..n
    /\ f[0] = from
    /\ \A k \in 1..n : f[k] = Round(step, f[k - 1])

LEMMA RoundsExist ==
  ASSUME NEW from, NEW step, NEW n \in Nat
  PROVE  \E f : Rounds(from, step, n, f)
  <1> DEFINE S == {k \in Nat : ~\E f : Rounds(from, step, k, f)}
  <1>1. CASE S = {}
    BY <1>1
  <1>2. CASE S # {}
    <2>1. PICK m \in S : \A k \in S : m <= k
      BY <1>2, LeastNumber
    <2>2. CASE m = 0
      <3> DEFINE f == [k \in 0..0 |-> from]
      <3>1. Rounds(from, step, 0, f)
        BY DEF Rounds
      <3> QED BY <2>1, <2>2, <3>1
    <2>3. CASE m # 0
      <3>0. m \in Nat /\ m - 1 \in Nat /\ m - 1 \notin S
        BY <2>1, <2>3
      <3>1. PICK g : Rounds(from, step, m - 1, g)
        BY <3>0
      <3> DEFINE f == [k \in 0..m |-> IF k < m THEN g[k] ELSE Round(step, g[m - 1])]
      <3>2. DOMAIN f = 0..m /\ f[0] = from
        BY <3>0, <3>1, <2>3 DEF Rounds
      <3>3. ASSUME NEW k \in 1..m PROVE f[k] = Round(step, f[k - 1])
        <4>1. CASE k < m
          BY <3>0, <3>1, <4>1 DEF Rounds
        <4>2. CASE k = m
          BY <3>0, <4>2
        <4> QED BY <3>0, <4>1, <4>2
      <3> HIDE DEF f
      <3>4. Rounds(from, step, m, f)
        BY <3>2, <3>3 DEF Rounds
      <3> QED BY <2>1, <3>4
    <2> QED BY <2>2, <2>3
  <1> QED BY <1>1, <1>2

LEMMA RoundsAgree ==
  ASSUME NEW from, NEW step, NEW m \in Nat, NEW n \in Nat, NEW f, NEW g,
         Rounds(from, step, m, f), Rounds(from, step, n, g)
  PROVE  \A k \in Nat : k <= m /\ k <= n => f[k] = g[k]
  <1> DEFINE S == {k \in Nat : k <= m /\ k <= n /\ f[k] # g[k]}
  <1>1. CASE S = {}
    BY <1>1
  <1>2. CASE S # {}
    <2>1. PICK k \in S : \A j \in S : k <= j
      BY <1>2, LeastNumber
    <2>2. k # 0
      BY <2>1 DEF Rounds
    <2>3. k \in Nat /\ k - 1 \in Nat /\ k - 1 \notin S /\ k <= m /\ k <= n /\ f[k] # g[k]
      BY <2>1, <2>2
    <2>4. f[k - 1] = g[k - 1]
      BY <2>3
    <2>5. f[k] = Round(step, f[k - 1]) /\ g[k] = Round(step, g[k - 1])
      BY <2>2, <2>3 DEF Rounds
    <2> QED BY <2>3, <2>4, <2>5
  <1> QED BY <1>1, <1>2

\* The rounds of Closure are what its recursion says.
LEMMA RoundsOfClosure ==
  ASSUME NEW from, NEW step
  PROVE  \E f : /\ f[0] = from
                /\ \A n \in Nat \ {0} : f[n] = Round(step, f[n - 1])
                /\ Closure(from, step) = f[Cardinality(DOMAIN step)]
  <1> DEFINE upTo(n) == CHOOSE f : Rounds(from, step, n, f)
             g == [n \in Nat |-> upTo(n)[n]]
  <1>1. \A n \in Nat : Rounds(from, step, n, upTo(n))
    BY RoundsExist
  <1> HIDE DEF upTo
  <1>2. g[0] = from
    <2>1. upTo(0)[0] = from
      BY <1>1 DEF Rounds
    <2> QED BY <2>1
  <1>3. ASSUME NEW n \in Nat \ {0} PROVE g[n] = Round(step, g[n - 1])
    <2>1. upTo(n)[n] = Round(step, upTo(n)[n - 1])
      BY <1>1 DEF Rounds
    <2>2. upTo(n)[n - 1] = upTo(n - 1)[n - 1]
      BY <1>1, RoundsAgree
    <2> QED BY <2>1, <2>2
  <1> DEFINE next(f, n) == IF n = 0 THEN from
                           ELSE LET before == f[n - 1] IN before \cup UNION {step[p] : p \in before}
  <1>4. g = [n \in Nat |-> next(g, n)]
    <2>1. \A n \in Nat : g[n] = next(g, n)
      BY <1>2, <1>3 DEF Round
    <2> QED BY <2>1
  <1> HIDE DEF g
  <1> DEFINE f == CHOOSE f : f = [n \in Nat |-> next(f, n)]
  <1>5. f = [n \in Nat |-> next(f, n)]
    BY <1>4
  <1>6. Closure(from, step) = f[Cardinality(DOMAIN step)]
    BY DEF Closure
  <1> HIDE DEF f
  <1>7. f[0] = from /\ \A n \in Nat \ {0} : f[n] = Round(step, f[n - 1])
    BY <1>5 DEF Round
  <1> QED BY <1>6, <1>7

\* The edges out of a set stay in it.
Closed(step, S) == \A p \in S : step[p] \subseteq S

LEMMA ClosureIsClosed ==
  ASSUME NEW from, NEW step, IsFiniteSet(DOMAIN step), from \subseteq DOMAIN step,
         \A p \in DOMAIN step : step[p] \subseteq DOMAIN step
  PROVE  /\ from \subseteq Closure(from, step)
         /\ Closure(from, step) \subseteq DOMAIN step
         /\ Closed(step, Closure(from, step))
  <1> DEFINE P == DOMAIN step
             N == Cardinality(P)
  <1>1. PICK f : /\ f[0] = from
                 /\ \A n \in Nat \ {0} : f[n] = Round(step, f[n - 1])
                 /\ Closure(from, step) = f[N]
    BY RoundsOfClosure
  <1>2. N \in Nat
    BY FS_CardinalityType
  <1> DEFINE good(n) == /\ from \subseteq f[n] /\ f[n] \subseteq P
                        /\ Closed(step, f[n]) \/ Cardinality(f[n]) >= n
             S == {n \in Nat : ~good(n)}
  <1>3. S = {}
    <2> SUFFICES ASSUME S # {} PROVE FALSE
      OBVIOUS
    <2>1. PICK n \in S : \A k \in S : n <= k
      BY LeastNumber
    <2>2. n # 0
      <3>1. Cardinality(from) \in Nat
        BY FS_Subset, FS_CardinalityType
      <3>2. good(0)
        BY <1>1, <3>1
      <3> QED BY <2>1, <3>2
    <2>3. n \in Nat /\ n - 1 \in Nat
      BY <2>1, <2>2
    <2> DEFINE A == f[n - 1]
               B == f[n]
    <2>4. good(n - 1)
      BY <2>1, <2>3
    <2>5. B = Round(step, A)
      BY <1>1, <2>2, <2>3
    <2>6. from \subseteq A /\ A \subseteq P /\ (Closed(step, A) \/ Cardinality(A) >= n - 1)
      BY <2>4
    <2>7. ~good(n)
      BY <2>1
    <2>8. (Closed(step, B) \/ Cardinality(B) >= n) /\ from \subseteq B /\ B \subseteq P => good(n)
      OBVIOUS
    <2> HIDE DEF A, B, good
    <2>9. from \subseteq B /\ B \subseteq P /\ A \subseteq B
      BY <2>5, <2>6 DEF Round
    <2>10. CASE Closed(step, A)
      <3>1. B = A
        BY <2>5, <2>10 DEF Closed, Round
      <3> QED BY <2>7, <2>8, <2>9, <2>10, <3>1
    <2>11. CASE ~Closed(step, A)
      <3>1. A # B
        BY <2>5, <2>11 DEF Closed, Round
      <3>2. IsFiniteSet(B) /\ IsFiniteSet(A)
        BY <2>6, <2>9, FS_Subset
      <3>3. Cardinality(A) <= Cardinality(B) /\ Cardinality(A) # Cardinality(B)
        BY <2>9, <3>1, <3>2, FS_Subset
      <3>4. Cardinality(A) \in Nat /\ Cardinality(B) \in Nat
        BY <3>2, FS_CardinalityType
      <3>5. Cardinality(B) >= n
        BY <2>3, <2>6, <2>11, <3>3, <3>4
      <3> QED BY <2>7, <2>8, <2>9, <3>5
    <2> QED BY <2>10, <2>11
  <1>4. good(N)
    BY <1>2, <1>3
  <1>5. Closed(step, f[N])
    <2>1. CASE Cardinality(f[N]) >= N
      <3>1. IsFiniteSet(f[N]) /\ Cardinality(f[N]) <= N
        BY <1>4, FS_Subset
      <3>2. Cardinality(f[N]) \in Nat
        BY <3>1, FS_CardinalityType
      <3>3. Cardinality(P) = Cardinality(f[N])
        BY <1>2, <2>1, <3>1, <3>2
      <3>4. P = f[N]
        BY <1>4, <3>3, FS_Subset
      <3> QED BY <3>4 DEF Closed
    <2> QED BY <1>4, <2>1
  <1> QED BY <1>1, <1>4, <1>5

-----------------------------------------------------------------------------
(* The static analysis                                                      *)

Edges(d) == [p \in DOMAIN d.phases |-> Targets(d, p)]

LEMMA GraphIsClosed ==
  ASSUME NEW d, Documented(d), ContentValid(d)
  PROVE  /\ d.initialPhase \in Reachable(d) /\ Reachable(d) \subseteq DOMAIN d.phases
         /\ \A p \in Reachable(d) : Targets(d, p) \subseteq Reachable(d)
         /\ \A p \in DOMAIN d.phases :
              LET onward == Closure(Edges(d)[p], Edges(d)) IN
              /\ Targets(d, p) \subseteq onward
              /\ \A q \in onward : q \in DOMAIN d.phases /\ Targets(d, q) \subseteq onward
  <1> DEFINE step == Edges(d)
  <1>1. IsFiniteSet(DOMAIN step) /\ DOMAIN step = DOMAIN d.phases
    BY DEF Documented, Edges
  <1>2. \A p \in DOMAIN step : step[p] = Targets(d, p)
    BY DEF Edges
  <1>3. \A p \in DOMAIN step : step[p] \subseteq DOMAIN step
    BY <1>1, <1>2 DEF ContentValid, PhaseRefs, Targets
  <1>4. d.initialPhase \in DOMAIN step
    BY <1>1 DEF ContentValid, InitialValid
  <1>5. Reachable(d) = Closure({d.initialPhase}, step)
    BY DEF Reachable, Edges
  <1> HIDE DEF step
  <1>6. /\ d.initialPhase \in Reachable(d) /\ Reachable(d) \subseteq DOMAIN step
        /\ Closed(step, Reachable(d))
    BY <1>1, <1>3, <1>4, <1>5, ClosureIsClosed
  <1>7. ASSUME NEW p \in DOMAIN step
        PROVE  LET onward == Closure(step[p], step) IN
               step[p] \subseteq onward /\ onward \subseteq DOMAIN step /\ Closed(step, onward)
    BY <1>1, <1>3, ClosureIsClosed
  <1> QED BY <1>1, <1>2, <1>6, <1>7 DEF Closed, step

\* A clock without a source stands where it began.
ClocksGrounded(d, clocks) ==
    \A c \in DOMAIN d.clocks :
        /\ d.clocks[c].initial <= clocks[c].value
        /\ ~ClockSourced(d, c) => clocks[c].value = d.clocks[c].initial

\* What the analyzer relies on, of a runtime r of d: where the story has been, what
\* has been found, counted and bound had a source in a reachable phase.
Grounded(d, r) ==
    /\ r.phase \in Reachable(d)
    /\ \A p \in DOMAIN d.phases : r.visits[p] >= 1 => p \in Reachable(d)
    /\ r.clues \cap UndiscoverableClues(d) = {} /\ r.clues \subseteq DOMAIN d.clues
    /\ \A g \in r.groups : g \in DOMAIN d.groups /\ GroupSourced(d, d.groups[g])
    /\ r.made # <<>> => WindowsReachable(d)
    /\ DOMAIN r.bound = FactsOf(d, "DEFERRED")
    /\ \A f \in UnbindableFacts(d) : r.bound[f] = None
    /\ ClocksGrounded(d, r.clocks)

\* The claims that are about the way the story took.
Claimed(d, r) ==
    /\ \A p \in DOMAIN d.phases :
         r.visits[p] >= 1 => p = r.phase \/ r.phase \in Closure(Edges(d)[p], Edges(d))
    /\ \A p \in DOMAIN d.phases : r.visits[p] >= 2 => p \in CyclePhases(d)
    /\ \A t \in DOMAIN r.uses : r.uses[t] >= 1 => t \notin UntraversableIds(d) \ PastLast(d)
    /\ r.ending \notin UnreachableEndings(d)

LEMMA ConjunctionIsRefuted ==
  ASSUME NEW proofs, Conjunction(proofs) = No
  PROVE  No \in proofs
  BY DEF Conjunction, No, Yes, Unknown

\* A condition of the content, with the numbers a document gives it.
Fits(d, c) ==
    /\ ConditionValid(d, c)
    /\ c.rule \in {"PHASE_BEAT_AT_LEAST", "DECISIONS_AT_LEAST"} => c.value \in Nat
    /\ c.rule = "PHASE_VISIT_AT_LEAST" => c.value \in Nat \ {0}

\* Numbers of a clock.
LEMMA ClockNumbers ==
  ASSUME NEW d, Numbered(d), ContentValid(d), NEW c \in DOMAIN d.clocks
  PROVE  /\ d.clocks[c].min \in Nat /\ d.clocks[c].max \in Nat /\ d.clocks[c].initial \in Nat
         /\ d.clocks[c].initial <= d.clocks[c].max
         /\ DOMAIN d.clocks[c].thresholds \subseteq Nat
  <1>1. d.clocks[c].min \in Nat /\ d.clocks[c].max \in Nat
    BY DEF Numbered
  <1>2. ClockShaped(d.clocks[c])
    BY DEF ContentValid, Shaped
  <1> QED BY <1>1, <1>2 DEF ClockShaped

\* A condition that the analyzer rules out is met, if at all, by a beat that is
\* more than the phases have.
LEMMA RuledOutConditions ==
  ASSUME NEW d, NEW r, NEW seen, NEW c, NEW within, Numbered(d), ContentValid(d),
         Shape(d, r), Grounded(d, r), Fits(d, c), ConditionProof(d, c, within) = No,
         Matches(d, r, seen, c)
  PROVE  /\ c.rule = "PHASE_BEAT_AT_LEAST" /\ c.value \in Nat /\ r.beat >= c.value
         /\ \A p \in within : c.value > d.phases[p].max
  <1> USE DEF No, Yes, Unknown, PossibleIf, ProvedIf
  <1>1. CASE c.rule = "PHASE_BEAT_AT_LEAST"
    BY <1>1 DEF ConditionProof, Matches, Fits
  <1>2. CASE c.rule = "FACT_EQUALS"
    <2>1. ConditionProof(d, c, within) = FactProof(d.facts[c.on], c.value)
      BY <1>2 DEF ConditionProof
    <2>2. c.on \in DOMAIN d.facts /\ c.value \in PossibleValues(d.facts[c.on])
      BY <1>2 DEF Fits, ConditionValid
    <2> QED BY <2>1, <2>2 DEF FactProof, PossibleValues
  <1>3. CASE c.rule = "CLUE_GROUP_COMPLETE"
    BY <1>3 DEF ConditionProof, Matches, Grounded
  <1>4. CASE c.rule = "CLOCK_AT_LEAST"
    <2>1. c.on \in DOMAIN d.clocks /\ c.value \in d.clocks[c.on].min..d.clocks[c.on].max
      BY <1>4 DEF Fits, ConditionValid
    <2>2. ~(d.clocks[c.on].initial >= c.value) /\ ~ClockSourced(d, c.on)
      BY <1>4 DEF ConditionProof
    <2>3. r.clocks[c.on].value = d.clocks[c.on].initial
      BY <2>1, <2>2 DEF Grounded, ClocksGrounded
    <2>4. r.clocks[c.on].value >= c.value
      BY <1>4 DEF Matches
    <2> QED BY <2>2, <2>3, <2>4
  <1>5. CASE c.rule = "CLOCK_AT_MOST"
    <2>1. c.on \in DOMAIN d.clocks /\ c.value \in d.clocks[c.on].min..d.clocks[c.on].max
      BY <1>5 DEF Fits, ConditionValid
    <2>2. ~(d.clocks[c.on].initial <= c.value)
      BY <1>5 DEF ConditionProof
    <2>3. d.clocks[c.on].initial <= r.clocks[c.on].value
      BY <2>1 DEF Grounded, ClocksGrounded
    <2>4. r.clocks[c.on].value <= c.value
      BY <1>5 DEF Matches
    <2>5. r.clocks[c.on].value \in Nat
      BY <2>1 DEF Shape
    <2> QED BY <2>1, <2>2, <2>3, <2>4, <2>5, ClockNumbers
  <1>6. CASE c.rule = "DECISIONS_AT_LEAST"
    <2>1. c.value \in Nat /\ c.value # 0 /\ ~WindowsReachable(d)
      BY <1>6 DEF ConditionProof, Fits
    <2>2. r.made = <<>>
      BY <2>1 DEF Grounded
    <2>3. Len(r.made) >= c.value
      BY <1>6 DEF Matches
    <2> QED BY <2>1, <2>2, <2>3
  <1>7. CASE c.rule = "PHASE_VISIT_AT_LEAST"
    <2>1. c.on \notin Reachable(d)
      BY <1>7 DEF ConditionProof
    <2>2. c.on \in DOMAIN d.phases /\ c.value \in Nat \ {0}
      BY <1>7 DEF Fits, ConditionValid
    <2>3. r.visits[c.on] >= c.value
      BY <1>7 DEF Matches
    <2>4. r.visits[c.on] \in Nat
      BY <2>2 DEF Shape
    <2>5. r.visits[c.on] >= 1
      BY <2>2, <2>3, <2>4
    <2> QED BY <2>1, <2>2, <2>5 DEF Grounded
  <1>8. CASE c.rule \in {"ALWAYS", "LOCATION_OPENED"}
    BY <1>8 DEF ConditionProof
  <1>9. CASE c.rule \notin {"ALWAYS", "PHASE_BEAT_AT_LEAST", "FACT_EQUALS", "CLUE_GROUP_COMPLETE",
                           "CLOCK_AT_LEAST", "CLOCK_AT_MOST", "LOCATION_OPENED",
                           "DECISIONS_AT_LEAST", "PHASE_VISIT_AT_LEAST"}
    BY <1>9 DEF ConditionProof
  <1> QED BY <1>1, <1>2, <1>3, <1>4, <1>5, <1>6, <1>7, <1>8, <1>9

\* So is a condition that no reachable phase brings about.
LEMMA RuledOutSources ==
  ASSUME NEW d, NEW r, NEW seen, NEW c, Numbered(d), ContentValid(d),
         Shape(d, r), Grounded(d, r), Fits(d, c), SourceProof(d, c) = No, Matches(d, r, seen, c)
  PROVE  /\ c.rule = "PHASE_BEAT_AT_LEAST" /\ r.beat >= c.value
         /\ \A p \in Reachable(d) : ~(d.phases[p].max >= c.value)
  <1> USE DEF No, Yes, Unknown, ProvedIf
  <1>1. CASE c.rule = "PHASE_BEAT_AT_LEAST"
    BY <1>1 DEF SourceProof, Matches
  <1>2. CASE c.rule = "CLUE_GROUP_COMPLETE"
    BY <1>2 DEF SourceProof, Matches, Grounded
  <1>3. CASE c.rule \in {"CLOCK_AT_LEAST", "CLOCK_AT_MOST"}
    <2>1. c.on \in DOMAIN d.clocks
      BY <1>3 DEF Fits, ConditionValid
    <2>2. ~ClockSourced(d, c.on)
      BY <1>3 DEF SourceProof
    <2>3. r.clocks[c.on].value = d.clocks[c.on].initial
      BY <2>1, <2>2 DEF Grounded, ClocksGrounded
    <2> QED BY <1>3, <2>3 DEF SourceProof, Matches
  <1>4. CASE c.rule = "DECISIONS_AT_LEAST"
    <2>1. c.value \in Nat /\ c.value # 0 /\ ~WindowsReachable(d)
      BY <1>4 DEF SourceProof, Fits
    <2>2. r.made = <<>>
      BY <2>1 DEF Grounded
    <2>3. Len(r.made) >= c.value
      BY <1>4 DEF Matches
    <2> QED BY <2>1, <2>2, <2>3
  <1>5. CASE c.rule = "PHASE_VISIT_AT_LEAST"
    <2>1. c.on \notin Reachable(d)
      BY <1>5 DEF SourceProof
    <2>2. c.on \in DOMAIN d.phases /\ c.value \in Nat \ {0}
      BY <1>5 DEF Fits, ConditionValid
    <2>3. r.visits[c.on] >= c.value
      BY <1>5 DEF Matches
    <2>4. r.visits[c.on] \in Nat
      BY <2>2 DEF Shape
    <2>5. r.visits[c.on] >= 1
      BY <2>2, <2>3, <2>4
    <2> QED BY <2>1, <2>2, <2>5 DEF Grounded
  <1>6. CASE c.rule \notin {"PHASE_BEAT_AT_LEAST", "CLUE_GROUP_COMPLETE", "CLOCK_AT_LEAST",
                           "CLOCK_AT_MOST", "DECISIONS_AT_LEAST", "PHASE_VISIT_AT_LEAST"}
    BY <1>6 DEF SourceProof
  <1> QED BY <1>1, <1>2, <1>3, <1>4, <1>5, <1>6

LEMMA JoinedLists ==
  ASSUME NEW s, NEW t, Listed(s), Listed(t), NEW k \in DOMAIN (s \o t)
  PROVE  (s \o t)[k] \in Span(s) \cup Span(t)
  <1> DEFINE S == Span(s) \cup Span(t)
  <1>1. s \in Seq(S) /\ t \in Seq(S)
    BY DEF Listed
  <1> HIDE DEF S
  <1>2. s \o t \in Seq(S)
    BY <1>1
  <1>3. (s \o t)[k] \in S
    BY <1>2
  <1> QED BY <1>3 DEF S

\* The first of some places is one of them.
LEMMA FirstIsThere ==
  ASSUME NEW list, Listed(list), NEW places \in SUBSET DOMAIN list, places # {}
  PROVE  First(places) \in places
  <1>1. places \subseteq Nat
    BY DEF Listed
  <1>2. \E k \in places : \A j \in places : k <= j
    BY <1>1, LeastNumber
  <1> QED BY <1>2 DEF First

LEMMA ContentFits ==
  ASSUME NEW d, Numbered(d), ContentValid(d)
  PROVE  /\ \A p \in DOMAIN d.phases : \A t \in Span(d.phases[p].transitions) :
              \A c \in Span(t.when) \cup Span(d.phases[t.target].entry) : Fits(d, c)
         /\ \A j \in DOMAIN d.endings : \A c \in Span(d.endings[j].when) : Fits(d, c)
  <1>1. ASSUME NEW c \in Conditions(d), ConditionValid(d, c)
        PROVE  Fits(d, c)
    BY <1>1 DEF Numbered, ConditionNumbered, Fits
  <1>2. ASSUME NEW p \in DOMAIN d.phases, NEW t \in Span(d.phases[p].transitions),
               NEW c \in Span(t.when) \cup Span(d.phases[t.target].entry)
        PROVE  Fits(d, c)
    <2>1. PhaseRefs(d, d.phases[p])
      BY DEF ContentValid
    <2>2. t.target \in DOMAIN d.phases /\ ConditionsValid(d, t.when)
      BY <2>1 DEF PhaseRefs
    <2>3. ConditionsValid(d, d.phases[t.target].entry)
      BY <2>2 DEF ContentValid, PhaseRefs
    <2>4. ConditionValid(d, c)
      BY <2>2, <2>3 DEF ConditionsValid, Span
    <2>5. t \in Transitions(d)
      BY DEF Transitions
    <2>6. c \in Conditions(d)
      BY <2>2, <2>5 DEF Conditions
    <2> QED BY <1>1, <2>4, <2>6
  <1>3. ASSUME NEW j \in DOMAIN d.endings, NEW c \in Span(d.endings[j].when)
        PROVE  Fits(d, c)
    <2>1. ConditionsValid(d, d.endings[j].when)
      BY DEF ContentValid
    <2>2. ConditionValid(d, c)
      BY <2>1 DEF ConditionsValid, Span
    <2>3. c \in Conditions(d)
      BY DEF Conditions
    <2> QED BY <1>1, <2>2, <2>3
  <1> QED BY <1>2, <1>3

\* Clues that were found suffice for a group only if it has sources.
LEMMA FoundGroupsAreSourced ==
  ASSUME NEW d, Documented(d), ContentValid(d), NEW clues \in SUBSET DOMAIN d.clues,
         clues \cap UndiscoverableClues(d) = {}, NEW g \in Complete(d, clues)
  PROVE  g \in DOMAIN d.groups /\ GroupSourced(d, d.groups[g])
  <1> DEFINE group == d.groups[g]
             sourced == {c \in group.clues : ClueSourcePhases(d, c) \cap Reachable(d) # {}}
             found == group.clues \cap clues
  <1>1. g \in DOMAIN d.groups /\ Cardinality(found) >= group.need
    BY DEF Complete
  <1>2. found \subseteq sourced
    BY DEF UndiscoverableClues
  <1>3. IsFiniteSet(group.clues)
    BY <1>1 DEF Documented
  <1> HIDE DEF found
  <1>4. IsFiniteSet(sourced)
    BY <1>3, FS_Subset
  <1> DEFINE n == Cardinality(sourced)
  <1>5. n = Cardinality(sourced)
    OBVIOUS
  <1>6. GroupSourced(d, group) <=> n >= group.need
    BY DEF GroupSourced
  <1> HIDE DEF n, sourced
  <1>7. Cardinality(found) <= n /\ Cardinality(found) \in Nat /\ n \in Nat
    BY <1>2, <1>4, <1>5, FS_Subset, FS_CardinalityType
  <1>8. group.need \in Nat
    <2>1. group.need \in 1..Cardinality(group.clues)
      BY <1>1 DEF ContentValid, Shaped, GroupShaped
    <2> QED BY <1>3, <2>1, FS_CardinalityType
  <1> QED BY <1>1, <1>6, <1>7, <1>8

\* What a narrated outcome finds and binds, the analyzer thought possible.
LEMMA OutcomesAreGrounded ==
  ASSUME Numbered(D), Documented(D), ContentValid(D), RuntimeValid(D, runtime),
         Grounded(D, runtime), NEW e, e # NoEvent, Asked(e), Refusals(D, runtime, tags, e) = {}
  PROVE  /\ e.clues \subseteq DOMAIN D.clues /\ e.clues \cap UndiscoverableClues(D) = {}
         /\ DOMAIN e.binds \cap UnbindableFacts(D) = {}
  <1>1. CASE \E c : e = DecisionEvent(c)
    <2>1. PICK c : e = DecisionEvent(c)
      BY <1>1
    <2>2. e.clues = {} /\ e.binds = <<>>
      BY <2>1 DEF DecisionEvent, PlainEvent
    <2> QED BY <2>2
  <1>2. ASSUME NEW u \in Structural, NEW result \in DOMAIN D.rules[u].effects,
               e = OutcomeEvent(u, result)
        PROVE  /\ e.clues \subseteq DOMAIN D.clues /\ e.clues \cap UndiscoverableClues(D) = {}
               /\ DOMAIN e.binds \cap UnbindableFacts(D) = {}
    <2> DEFINE rule == D.rules[u]
               effect == rule.effects[result]
               phase == runtime.phase
    <2>1. /\ u \in DOMAIN D.rules /\ phase \in rule.phases
          /\ rule.decisions # {} => runtime.decision \in rule.decisions
          /\ rule.clues \subseteq runtime.clues
          /\ \A f \in DOMAIN rule.facts : FactValue(D, runtime, f) = rule.facts[f]
          /\ rule.npcs \subseteq D.locations[runtime.at].npcs
      BY DEF Structural
    <2>2. e.clues = effect.clues /\ e.event = effect.event /\ e.binds = effect.binds
      BY <1>2 DEF OutcomeEvent, PlainEvent
    <2>3. effect \in EffectsOf(rule)
      BY DEF EffectsOf
    <2>4. RuleRefs(D, rule) /\ EffectRefs(D, rule, effect)
      BY <2>1, <2>3 DEF ContentValid
    <2>5. phase \in DOMAIN D.phases /\ phase \in Reachable(D)
      BY DEF Grounded, RuntimeValid, StoryValid
    <2>6. \A c \in e.clues : Revealable(D, runtime, tags, c, e.event)
      <3>1. \A why \in EventReasons : ~EventRefused(D, runtime, tags, e, why)
        BY Unrefused
      <3>2. ~EventRefused(D, runtime, tags, e, "reveal")
        BY <3>1 DEF EventReasons
      <3> QED BY <3>2 DEF EventRefused
    <2> HIDE DEF rule, effect, phase
    <2>7. ASSUME NEW c \in e.clues PROVE c \in DOMAIN D.clues /\ c \notin UndiscoverableClues(D)
      <3>1. c \in DOMAIN D.clues
        BY <2>2, <2>4 DEF EffectRefs
      <3>2. phase \in D.clues[c].phases /\ effect.event \in D.clues[c].events
        BY <2>2, <2>6 DEF Revealable, phase
      <3>3. u \in Producers(D, c)
        BY <2>1, <2>2, <2>3, <3>2 DEF Producers, rule
      <3>4. phase \in ClueSourcePhases(D, c)
        BY <2>1, <3>2, <3>3 DEF ClueSourcePhases, rule
      <3> DEFINE within == rule.phases \cap D.clues[c].phases \cap Reachable(D)
                 inSight(p) == UNION {D.locations[l].npcs : l \in Span(D.phases[p].visible)}
      <3>5. phase \in within
        BY <2>1, <2>5, <3>2
      <3>6. rule.decisions # {} => rule.decisions \cap Span(D.phases[phase].windows) # {}
        <4> SUFFICES ASSUME rule.decisions # {} PROVE rule.decisions \cap Span(D.phases[phase].windows) # {}
          OBVIOUS
        <4>1. runtime.decision \in rule.decisions
          BY <2>1
        <4>2. runtime.decision # None
          BY <2>4, <4>1 DEF RuleRefs, Documented
        <4>3. runtime.decision \in Span(D.phases[phase].windows)
          BY <4>2 DEF RuntimeValid, HistoryValid, phase
        <4> QED BY <4>1, <4>3
      <3>7. \A k \in rule.clues : ClueSourcePhases(D, k) \cap Reachable(D) # {}
        BY <2>1 DEF Grounded, UndiscoverableClues
      <3>8. rule.npcs \subseteq inSight(phase)
        <4>1. runtime.at \in Span(D.phases[phase].visible)
          BY DEF RuntimeValid, WorldValid, phase
        <4> QED BY <2>1, <4>1
      <3>9. \A f \in DOMAIN rule.facts :
              D.facts[f].kind = "FIXED" => D.facts[f].value = rule.facts[f]
        BY <2>1 DEF FactValue
      <3>10. MayReveal(D, c, rule)
        <4>1. within # {} /\ (rule.decisions # {} => \E p \in within : rule.decisions \cap Span(D.phases[p].windows) # {})
          BY <3>5, <3>6
        <4>2. rule.npcs # {} => \E p \in within : rule.npcs \subseteq inSight(p)
          BY <3>5, <3>8
        <4> HIDE DEF rule
        <4> QED BY <3>7, <3>9, <4>1, <4>2 DEF MayReveal
      <3> QED BY <2>5, <3>1, <3>3, <3>4, <3>10 DEF UndiscoverableClues, rule
    <2>8. ASSUME NEW f \in DOMAIN e.binds PROVE f \notin UnbindableFacts(D)
      BY <2>1, <2>2, <2>3 DEF UnbindableFacts, rule
    <2> QED BY <2>7, <2>8
  <1> QED BY <1>1, <1>2 DEF Asked

LEMMA GroundedEvent ==
  ASSUME NEW d, NEW r, NEW e, Shape(d, r), Grounded(d, r),
         r.decision # None => r.decision \in Span(d.phases[r.phase].windows),
         e.resolves => r.decision # None,
         e.clues \subseteq DOMAIN d.clues, e.clues \cap UndiscoverableClues(d) = {},
         DOMAIN e.binds \cap UnbindableFacts(d) = {}
  PROVE  LET s == ApplyEvent(d, r, e) IN
         /\ Grounded(d, s)
         /\ s.phase = r.phase /\ s.visits = r.visits /\ s.uses = r.uses /\ s.ending = r.ending
         /\ s.beat = r.beat /\ s.clocks = r.clocks /\ s.groups = r.groups
  <1> DEFINE s == ApplyEvent(d, r, e)
  <1>1. /\ s.phase = r.phase /\ s.visits = r.visits /\ s.uses = r.uses /\ s.ending = r.ending
        /\ s.beat = r.beat /\ s.clocks = r.clocks /\ s.groups = r.groups
        /\ s.clues = r.clues \cup e.clues
        /\ s.bound = Updated(r.bound, e.binds)
        /\ s.made = IF e.resolves THEN Append(r.made, r.decision) ELSE r.made
    BY DEF ApplyEvent, Shape, Fields
  <1> HIDE DEF s
  <1>2. s.clues \subseteq DOMAIN d.clues /\ s.clues \cap UndiscoverableClues(d) = {}
    BY <1>1 DEF Grounded
  <1>3. DOMAIN s.bound = FactsOf(d, "DEFERRED") /\ \A f \in UnbindableFacts(d) : s.bound[f] = None
    <2>1. UnbindableFacts(d) \subseteq FactsOf(d, "DEFERRED")
      BY DEF UnbindableFacts
    <2> QED BY <1>1, <2>1 DEF Grounded, Updated
  <1>4. s.made # <<>> => WindowsReachable(d)
    <2>1. CASE e.resolves
      <3>1. r.decision \in Span(d.phases[r.phase].windows) /\ r.phase \in Reachable(d)
        BY <2>1 DEF Grounded
      <3>2. d.phases[r.phase].windows # <<>>
        BY <3>1 DEF Span
      <3> QED BY <3>1, <3>2 DEF WindowsReachable
    <2>2. CASE ~e.resolves
      BY <1>1, <2>2 DEF Grounded
    <2> QED BY <2>1, <2>2
  <1>5. Grounded(d, s)
    BY <1>1, <1>2, <1>3, <1>4 DEF Grounded
  <1> QED BY <1>1, <1>5 DEF s

LEMMA GroundedClocks ==
  ASSUME NEW d, NEW clocks, NEW p \in DOMAIN d.phases, p \in Reachable(d), NEW e,
         Numbered(d), ContentValid(d), DOMAIN clocks = DOMAIN d.clocks,
         \A c \in DOMAIN clocks : clocks[c].value \in Nat, ClocksGrounded(d, clocks)
  PROVE  ClocksGrounded(d, AdvanceClocks(d, clocks, Cost(d.phases[p], e)))
  <1> DEFINE cost == Cost(d.phases[p], e)
             next == AdvanceClocks(d, clocks, cost)
  <1>1. \A c \in DOMAIN cost : cost[c] \in Nat
    BY CostIsNatural
  <1>2. ASSUME NEW c \in DOMAIN cost, c \in DOMAIN d.clocks PROVE ClockSourced(d, c)
    <2>1. p \in ClockSourcePhases(d, c)
      <3>1. CASE e = NoEvent
        BY <1>2, <3>1 DEF Cost, ClockSourcePhases
      <3>2. CASE e # NoEvent /\ e.action \in DOMAIN d.phases[p].cost
        BY <1>2, <3>2 DEF Cost, ClockSourcePhases
      <3>3. CASE e # NoEvent /\ e.action \notin DOMAIN d.phases[p].cost
        BY <1>2, <3>3 DEF Cost
      <3> QED BY <3>1, <3>2, <3>3
    <2> QED BY <2>1 DEF ClockSourced
  <1> HIDE DEF cost
  <1>3. ASSUME NEW c \in DOMAIN d.clocks
        PROVE  /\ d.clocks[c].initial <= next[c].value
               /\ ~ClockSourced(d, c) => next[c].value = d.clocks[c].initial
    <2>1. CASE c \in DOMAIN cost
      <3>1. next[c].value = IF clocks[c].value + cost[c] > d.clocks[c].max THEN d.clocks[c].max
                            ELSE clocks[c].value + cost[c]
        BY <2>1 DEF AdvanceClocks, AdvanceClock
      <3>2. ClockSourced(d, c)
        BY <1>2, <2>1
      <3>3. clocks[c].value \in Nat /\ d.clocks[c].initial <= clocks[c].value
        BY DEF ClocksGrounded
      <3> QED BY <1>1, <2>1, <3>1, <3>2, <3>3, ClockNumbers
    <2>2. CASE c \notin DOMAIN cost
      <3>1. next[c] = clocks[c]
        BY <2>2 DEF AdvanceClocks
      <3> QED BY <3>1 DEF ClocksGrounded
    <2> QED BY <2>1, <2>2
  <1> QED BY <1>3 DEF ClocksGrounded, cost

\* The event, the beat, the clocks and the groups stay within what has a source.
LEMMA GroundedBeat ==
  ASSUME NEW d, NEW r, NEW e, Numbered(d), Documented(d), ContentValid(d),
         Shape(d, r), Grounded(d, r), r.phase \in DOMAIN d.phases,
         r.decision # None => r.decision \in Span(d.phases[r.phase].windows),
         e # NoEvent =>
            /\ e.resolves => r.decision # None
            /\ e.clues \subseteq DOMAIN d.clues /\ e.clues \cap UndiscoverableClues(d) = {}
            /\ DOMAIN e.binds \cap UnbindableFacts(d) = {}
  PROVE  LET s == AfterBeat(d, r, e) IN
         /\ Grounded(d, s) /\ s.beat = r.beat + 1
         /\ s.phase = r.phase /\ s.visits = r.visits /\ s.uses = r.uses /\ s.ending = r.ending
  <1> DEFINE told == IF e = NoEvent THEN r ELSE ApplyEvent(d, r, e)
             s == AfterBeat(d, r, e)
             clocks == AdvanceClocks(d, r.clocks, Cost(d.phases[r.phase], e))
  <1>1. /\ Grounded(d, told) /\ DOMAIN told = Fields
        /\ told.phase = r.phase /\ told.visits = r.visits /\ told.uses = r.uses
        /\ told.ending = r.ending /\ told.beat = r.beat /\ told.clocks = r.clocks
        /\ told.groups = r.groups
    <2>1. CASE e = NoEvent
      BY <2>1 DEF Shape
    <2>2. CASE e # NoEvent
      <3>1. DOMAIN told = Fields
        BY <2>2 DEF ApplyEvent, Shape, Fields
      <3> QED BY <2>2, <3>1, GroundedEvent
    <2> QED BY <2>1, <2>2
  <1>2. s = [told EXCEPT !.beat = @ + 1,
                         !.clocks = AdvanceClocks(d, @, Cost(d.phases[r.phase], e)),
                         !.groups = CompleteGroups(d, told)]
    BY DEF AfterBeat
  <1> HIDE DEF told, s
  <1>3. /\ s.beat = r.beat + 1 /\ s.clocks = clocks
        /\ s.groups = r.groups \cup Complete(d, told.clues)
        /\ s.phase = r.phase /\ s.visits = r.visits /\ s.uses = r.uses /\ s.ending = r.ending
        /\ s.clues = told.clues /\ s.made = told.made /\ s.bound = told.bound
    BY <1>1, <1>2 DEF Fields, CompleteGroups
  <1>4. ClocksGrounded(d, clocks)
    <2>1. DOMAIN r.clocks = DOMAIN d.clocks /\ \A c \in DOMAIN r.clocks : r.clocks[c].value \in Nat
      BY DEF Shape
    <2>2. r.phase \in Reachable(d) /\ ClocksGrounded(d, r.clocks)
      BY DEF Grounded
    <2> QED BY <2>1, <2>2, GroundedClocks
  <1> HIDE DEF clocks
  <1>5. ASSUME NEW g \in s.groups PROVE g \in DOMAIN d.groups /\ GroupSourced(d, d.groups[g])
    <2>1. CASE g \in r.groups
      BY <2>1 DEF Grounded
    <2>2. CASE g \in Complete(d, told.clues)
      BY <1>1, <2>2, FoundGroupsAreSourced DEF Grounded
    <2> QED BY <1>3, <2>1, <2>2
  <1>6. Grounded(d, s)
    BY <1>1, <1>3, <1>4, <1>5 DEF Grounded
  <1> QED BY <1>3, <1>6 DEF s

\* Only a transition that waits for the beat past the last one is taken against
\* the analyzer's word.
LEMMA TakenTransition ==
  ASSUME NEW d, NEW r, NEW seen, NEW resolved, Numbered(d), Documented(d), ContentValid(d),
         Shape(d, r), Grounded(d, r), r.phase \in DOMAIN d.phases,
         r.beat <= d.phases[r.phase].max + 1,
         NEW k \in Eligible(d, r, seen, resolved)
  PROVE  LET t == d.phases[r.phase].transitions[k] IN
         /\ t \in Span(d.phases[r.phase].transitions)
         /\ t.id \notin UntraversableIds(d) \ PastLast(d)
  <1> DEFINE list == d.phases[r.phase].transitions
             t == list[k]
             when == t.when \o d.phases[t.target].entry
  <1>1. k \in DOMAIN list /\ EligibleAt(d, r, seen, resolved, t)
    BY DEF Eligible
  <1>2. t \in Span(list) /\ t \in Transitions(d)
    BY <1>1 DEF Span, Transitions
  <1>3. t.target \in DOMAIN d.phases
    BY <1>2 DEF ContentValid, PhaseRefs
  <1>4. Listed(t.when) /\ Listed(d.phases[t.target].entry)
    BY <1>2, <1>3 DEF Documented
  <1>5. \A c \in Span(t.when) \cup Span(d.phases[t.target].entry) :
          Fits(d, c) /\ Matches(d, r, seen, c)
    <2>1. AllMatch(d, r, seen, t.when) /\ AllMatch(d, r, seen, d.phases[t.target].entry)
      BY <1>1 DEF EligibleAt
    <2>2. \A c \in Span(t.when) \cup Span(d.phases[t.target].entry) : Matches(d, r, seen, c)
      BY <2>1 DEF AllMatch, Span
    <2>3. \A c \in Span(t.when) \cup Span(d.phases[t.target].entry) : Fits(d, c)
      BY <1>2, ContentFits
    <2> QED BY <2>2, <2>3
  <1>6. \A j \in DOMAIN when : Fits(d, when[j]) /\ Matches(d, r, seen, when[j])
    BY <1>4, <1>5, JoinedLists
  <1>7. ASSUME t.id \in UntraversableIds(d) PROVE t.id \in PastLast(d)
    <2>0. PICK p \in DOMAIN d.phases :
            \E u \in Span(d.phases[p].transitions) : u.id = t.id /\ TransitionProof(d, p, u) = No
      BY <1>7 DEF UntraversableIds
    <2>1. PICK u \in Span(d.phases[p].transitions) : u.id = t.id /\ TransitionProof(d, p, u) = No
      BY <2>0
    <2>2. p = r.phase /\ u = t
      <3>1. PICK j \in DOMAIN d.phases[p].transitions : u = d.phases[p].transitions[j]
        BY DEF Span
      <3>2. OwnedIds(d)
        BY DEF ContentValid
      <3>3. p = r.phase /\ j = k
        BY <1>1, <2>1, <3>1, <3>2 DEF OwnedIds
      <3> QED BY <3>1, <3>3
    <2> DEFINE within == {r.phase}
    <2>3. ConditionsProof(d, when, within) = No
      <3>1. r.phase \in Reachable(d)
        BY DEF Grounded
      <3> QED BY <2>1, <2>2, <3>1 DEF TransitionProof, No, Unknown
    <2> HIDE DEF when, within
    <2>4. PICK j \in DOMAIN when : ConditionProof(d, when[j], within) = No
      BY <2>3, ConjunctionIsRefuted DEF ConditionsProof
    <2>5. /\ when[j].rule = "PHASE_BEAT_AT_LEAST" /\ when[j].value \in Nat
          /\ r.beat >= when[j].value
          /\ \A q \in within : when[j].value > d.phases[q].max
      BY <1>6, <2>4, RuledOutConditions
    <2>6. when[j].value = d.phases[r.phase].max + 1
      <3>1. r.beat \in Nat /\ d.phases[r.phase].max \in Nat
        BY DEF Shape, Numbered
      <3>2. when[j].value > d.phases[r.phase].max
        BY <2>5 DEF within
      <3> QED BY <2>5, <3>1, <3>2
    <2>7. \E i \in DOMAIN when :
            when[i].rule = "PHASE_BEAT_AT_LEAST" /\ when[i].value = d.phases[r.phase].max + 1
      BY <2>5, <2>6
    <2>8. WaitsPastLast(d, r.phase, t)
      BY <2>7 DEF WaitsPastLast, when
    <2> HIDE DEF t
    <2> QED BY <1>2, <2>8 DEF PastLast
  <1> QED BY <1>2, <1>7

\* A transition leads where the graph says, and back only along a cycle.
LEMMA ReportedTransition ==
  ASSUME NEW d, NEW r, NEW seen, NEW resolved, Numbered(d), Documented(d), ContentValid(d),
         Shape(d, r), Grounded(d, r), Claimed(d, r), r.phase \in DOMAIN d.phases,
         r.visits[r.phase] >= 1, r.beat <= d.phases[r.phase].max + 1
  PROVE  LET s == ApplyTransition(d, r, seen, resolved) IN Grounded(d, s) /\ Claimed(d, s)
  <1> DEFINE ready == Eligible(d, r, seen, resolved)
             list == d.phases[r.phase].transitions
             k == First(ready)
             t == list[k]
             place == Relocated(d, r, d.phases[t.target])
             s == ApplyTransition(d, r, seen, resolved)
  <1>1. CASE ready = {}
    <2>1. s = r
      BY <1>1 DEF ApplyTransition
    <2> QED BY <2>1
  <1>2. CASE ready # {}
    <2>1. k \in ready
      BY <1>2, FirstIsThere DEF Documented, Eligible
    <2> HIDE DEF k
    <2>2. t \in Span(list) /\ t.id \notin UntraversableIds(d) \ PastLast(d)
      BY <2>1, TakenTransition
    <2>3. t.target \in Targets(d, r.phase)
      BY <2>2 DEF Targets
    <2>4. s = [r EXCEPT !.uses[t.id] = @ + 1, !.phase = t.target, !.beat = 0,
                        !.decision = None, !.visits[t.target] = @ + 1,
                        !.rapid = d.phases[t.target].rapid, !.at = place]
      BY <1>2 DEF ApplyTransition, k
    <2> HIDE DEF s, ready, place
    <2> DEFINE to == t.target
               id == t.id
    <2> HIDE DEF to, id, t, list
    <2>5. /\ s.phase = to
          /\ s.visits = [r.visits EXCEPT ![to] = @ + 1]
          /\ s.uses = [r.uses EXCEPT ![id] = @ + 1]
          /\ s.clues = r.clues /\ s.groups = r.groups /\ s.made = r.made
          /\ s.bound = r.bound /\ s.clocks = r.clocks /\ s.ending = r.ending
      BY <2>4 DEF Shape, Fields, to, id
    <2>6. to \in Targets(d, r.phase) /\ id \notin UntraversableIds(d) \ PastLast(d)
      BY <2>2, <2>3 DEF to, id
    <2>7. to \in Reachable(d) /\ to \in DOMAIN d.phases
      BY <2>6, GraphIsClosed DEF Grounded
    <2>8. /\ r.visits \in [DOMAIN d.phases -> Nat] /\ DOMAIN s.visits = DOMAIN d.phases
          /\ s.visits[to] = r.visits[to] + 1
          /\ \A p \in DOMAIN d.phases \ {to} : s.visits[p] = r.visits[p]
      BY <2>5, <2>7 DEF Shape
    <2>9. Grounded(d, s)
      BY <2>5, <2>7, <2>8 DEF Grounded
    <2>10. ASSUME NEW p \in DOMAIN d.phases, r.visits[p] >= 1
           PROVE  to \in Closure(Edges(d)[p], Edges(d))
      <3>1. Edges(d)[p] = Targets(d, p)
        BY DEF Edges
      <3> DEFINE onward == Closure(Edges(d)[p], Edges(d))
      <3>2. Targets(d, p) \subseteq onward /\ \A q \in onward : Targets(d, q) \subseteq onward
        BY GraphIsClosed
      <3>3. p = r.phase \/ r.phase \in onward
        BY <2>10 DEF Claimed
      <3> QED BY <2>6, <3>2, <3>3
    <2>11. ASSUME NEW p \in DOMAIN d.phases, s.visits[p] >= 1
           PROVE  p = s.phase \/ s.phase \in Closure(Edges(d)[p], Edges(d))
      BY <2>5, <2>8, <2>10, <2>11
    <2>12. ASSUME NEW p \in DOMAIN d.phases, s.visits[p] >= 2
           PROVE  p \in CyclePhases(d)
      <3>1. CASE p = to
        <4>1. r.visits[p] >= 1
          BY <2>8, <2>12, <3>1
        <4>2. to \in Closure(Edges(d)[to], Edges(d))
          BY <2>10, <3>1, <4>1
        <4> QED BY <2>7, <3>1, <4>2 DEF CyclePhases, Edges
      <3>2. CASE p # to
        BY <2>8, <2>12, <3>2 DEF Claimed
      <3> QED BY <3>1, <3>2
    <2>13. ASSUME NEW x \in DOMAIN s.uses, s.uses[x] >= 1
           PROVE  x \notin UntraversableIds(d) \ PastLast(d)
      <3>1. CASE x = id
        BY <2>6, <3>1
      <3>2. CASE x # id
        BY <2>5, <2>13, <3>2 DEF Claimed
      <3> QED BY <3>1, <3>2
    <2>14. s.ending \notin UnreachableEndings(d)
      BY <2>5 DEF Claimed
    <2>15. Claimed(d, s)
      BY <2>11, <2>12, <2>13, <2>14 DEF Claimed
    <2> QED BY <2>9, <2>15 DEF s
  <1> QED BY <1>1, <1>2

\* An ending that is reached within the last beat of a reachable phase is not one
\* that the analyzer rules out.
LEMMA ReportedEnding ==
  ASSUME NEW d, NEW r, NEW seen, Numbered(d), Documented(d), ContentValid(d),
         Shape(d, r), Grounded(d, r), Claimed(d, r), r.phase \in DOMAIN d.phases,
         r.beat <= d.phases[r.phase].max
  PROVE  LET s == ApplyEnding(d, r, seen) IN Grounded(d, s) /\ Claimed(d, s)
  <1> DEFINE met == {k \in DOMAIN d.endings : AllMatch(d, r, seen, d.endings[k].when)}
             k == First(met)
             s == ApplyEnding(d, r, seen)
  <1>1. CASE met = {}
    <2>1. s = r
      BY <1>1 DEF ApplyEnding
    <2> QED BY <2>1
  <1>2. CASE met # {}
    <2>1. k \in met
      BY <1>2, FirstIsThere DEF Documented
    <2>2. s = [r EXCEPT !.status = d.endings[k].status, !.ending = d.endings[k].id,
                        !.decision = None]
      BY <1>2 DEF ApplyEnding
    <2> HIDE DEF s, k
    <2>3. /\ s.phase = r.phase /\ s.visits = r.visits /\ s.uses = r.uses
          /\ s.clues = r.clues /\ s.groups = r.groups /\ s.made = r.made
          /\ s.bound = r.bound /\ s.clocks = r.clocks /\ s.ending = d.endings[k].id
      BY <2>2 DEF Shape, Fields
    <2> DEFINE ending == d.endings[k]
    <2>4. k \in DOMAIN d.endings
      BY <2>1
    <2>5. \A c \in Span(ending.when) : Fits(d, c) /\ Matches(d, r, seen, c)
      <3>1. AllMatch(d, r, seen, ending.when)
        BY <2>1
      <3>2. \A c \in Span(ending.when) : Matches(d, r, seen, c)
        BY <3>1 DEF AllMatch, Span
      <3>3. \A c \in Span(ending.when) : Fits(d, c)
        BY <2>4, ContentFits
      <3> QED BY <3>2, <3>3
    <2>6. r.phase \in Reachable(d) /\ r.beat \in Nat /\ d.phases[r.phase].max \in Nat
      BY DEF Grounded, Shape, Numbered
    <2>7. ASSUME EndingProof(d, ending) = No PROVE FALSE
      <3>1. \/ Conjunction({SourceProof(d, ending.when[j]) : j \in DOMAIN ending.when}) = No
            \/ ConditionsProof(d, ending.when, Reachable(d)) = No
        BY <2>7 DEF EndingProof, No, Unknown
      <3>2. ASSUME NEW c \in Span(ending.when), SourceProof(d, c) = No PROVE FALSE
        <4>1. /\ c.rule = "PHASE_BEAT_AT_LEAST" /\ r.beat >= c.value
              /\ ~(d.phases[r.phase].max >= c.value)
          BY <2>5, <2>6, <3>2, RuledOutSources
        <4>2. c.value \in Nat
          BY <2>5, <4>1 DEF Fits
        <4> QED BY <2>6, <4>1, <4>2
      <3>3. ASSUME NEW c \in Span(ending.when), ConditionProof(d, c, Reachable(d)) = No PROVE FALSE
        <4>1. c.value \in Nat /\ r.beat >= c.value /\ c.value > d.phases[r.phase].max
          BY <2>5, <2>6, <3>3, RuledOutConditions
        <4> QED BY <2>6, <4>1
      <3>4. CASE Conjunction({SourceProof(d, ending.when[j]) : j \in DOMAIN ending.when}) = No
        <4>1. No \in {SourceProof(d, ending.when[j]) : j \in DOMAIN ending.when}
          BY <3>4, ConjunctionIsRefuted
        <4> QED BY <3>2, <4>1 DEF Span
      <3>5. CASE ConditionsProof(d, ending.when, Reachable(d)) = No
        <4>1. No \in {ConditionProof(d, ending.when[j], Reachable(d)) : j \in DOMAIN ending.when}
          BY <3>5, ConjunctionIsRefuted DEF ConditionsProof
        <4> QED BY <3>3, <4>1 DEF Span
      <3> QED BY <3>1, <3>4, <3>5
    <2>8. ending.id \notin UnreachableEndings(d)
      <3> SUFFICES ASSUME ending.id \in UnreachableEndings(d) PROVE FALSE
        OBVIOUS
      <3>1. PICK j \in DOMAIN d.endings : EndingProof(d, d.endings[j]) = No /\ d.endings[j].id = ending.id
        BY DEF UnreachableEndings
      <3>2. j = k
        BY <2>4, <3>1 DEF ContentValid, OwnedIds
      <3> QED BY <2>7, <3>1, <3>2
    <2>9. Grounded(d, s)
      BY <2>3 DEF Grounded
    <2>10. Claimed(d, s)
      BY <2>3, <2>8 DEF Claimed
    <2> QED BY <2>9, <2>10 DEF s
  <1> QED BY <1>1, <1>2

LEMMA OpeningKeepsReports ==
  ASSUME NEW d, NEW r, NEW seen, Shape(d, r), Grounded(d, r), Claimed(d, r)
  PROVE  LET s == OpenDecision(d, r, seen) IN Grounded(d, s) /\ Claimed(d, s)
  <1>1. PICK w : OpenDecision(d, r, seen) = r \/ OpenDecision(d, r, seen) = [r EXCEPT !.decision = w]
    BY DEF OpenDecision
  <1> DEFINE s == OpenDecision(d, r, seen)
  <1> HIDE DEF s
  <1>2. /\ s.phase = r.phase /\ s.visits = r.visits /\ s.uses = r.uses
        /\ s.clues = r.clues /\ s.groups = r.groups /\ s.made = r.made
        /\ s.bound = r.bound /\ s.clocks = r.clocks /\ s.ending = r.ending
    BY <1>1 DEF Shape, Fields, s
  <1>3. Grounded(d, s)
    BY <1>2 DEF Grounded
  <1>4. Claimed(d, s)
    BY <1>2 DEF Claimed
  <1> QED BY <1>3, <1>4 DEF s

\* A new story is where the analyzer starts.
LEMMA ReportedStart ==
  ASSUME NEW d, Numbered(d), Documented(d), ContentValid(d)
  PROVE  Grounded(d, Started(d)) /\ Claimed(d, Started(d))
  <1> DEFINE r == FromDefinition(d)
  <1>1. /\ r.phase = d.initialPhase /\ r.clues = {} /\ r.groups = {} /\ r.made = <<>>
        /\ r.bound = [f \in FactsOf(d, "DEFERRED") |-> None] /\ r.ending = None
        /\ r.visits = [p \in DOMAIN d.phases |-> IF p = d.initialPhase THEN 1 ELSE 0]
        /\ r.uses = [t \in {u.id : u \in Transitions(d)} |-> 0]
        /\ \A c \in DOMAIN d.clocks : r.clocks[c].value = d.clocks[c].initial
        /\ DOMAIN r = Fields /\ DOMAIN r.clocks = DOMAIN d.clocks /\ r.beat = 0
    BY DEF FromDefinition, Fields
  <1> HIDE DEF r
  <1>2. d.initialPhase \in Reachable(d)
    BY GraphIsClosed
  <1>3. UnbindableFacts(d) \subseteq FactsOf(d, "DEFERRED")
    BY DEF UnbindableFacts
  <1>4. ClocksGrounded(d, r.clocks)
    BY <1>1, ClockNumbers DEF ClocksGrounded
  <1>5. Grounded(d, r)
    BY <1>1, <1>2, <1>3, <1>4 DEF Grounded
  <1>6. Claimed(d, r)
    <2>1. None \notin UnreachableEndings(d)
      BY DEF UnreachableEndings, Documented
    <2> QED BY <1>1, <2>1 DEF Claimed
  <1>7. Shape(d, r)
    BY <1>1, ClockNumbers DEF Shape
  <1> QED BY <1>5, <1>6, <1>7, OpeningKeepsReports DEF Started, r

\* An accepted advancement stays within what the analyzer leaves possible.
LEMMA ReportedAdvancement ==
  ASSUME NEW d, NEW r, NEW ts, NEW e, Numbered(d), Documented(d), ContentValid(d),
         Shape(d, r), RuntimeValid(d, r), Grounded(d, r), Claimed(d, r), Refusals(d, r, ts, e) = {},
         e # NoEvent =>
            /\ e.clues \subseteq DOMAIN d.clues /\ e.clues \cap UndiscoverableClues(d) = {}
            /\ DOMAIN e.binds \cap UnbindableFacts(d) = {}
  PROVE  LET s == Candidate(d, r, e) IN Grounded(d, s) /\ Claimed(d, s)
  <1> DEFINE seen == EventTypes(d, r, e)
             a == AfterBeat(d, r, e)
             b == ApplyTransition(d, a, seen, Resolves(e))
             c == ApplyEnding(d, b, seen)
             s == OpenDecision(d, c, seen)
  <1>0. s = Candidate(d, r, e)
    BY DEF Candidate
  <1>1. Typed(d, r)
    BY ValidIsTyped
  <1>2. /\ r.phase \in DOMAIN d.phases /\ r.visits[r.phase] >= 1
        /\ r.decision # None => r.decision \in Span(d.phases[r.phase].windows)
    BY DEF RuntimeValid, StoryValid, HistoryValid
  <1>3. e # NoEvent =>
          /\ e.resolves => r.decision \in DOMAIN d.windows
          /\ \A f \in DOMAIN e.binds : r.bound[f] = None
    BY <1>1, AdmittedEvent DEF Typed
  <1>4. e # NoEvent => (e.resolves => r.decision # None)
    BY <1>3 DEF Documented
  <1>5. Shape(d, a)
    BY <1>1, <1>3, AfterTheBeat DEF Typed
  <1>6. /\ Grounded(d, a) /\ a.beat = r.beat + 1
        /\ a.phase = r.phase /\ a.visits = r.visits /\ a.uses = r.uses /\ a.ending = r.ending
    BY <1>2, <1>4, GroundedBeat
  <1> HIDE DEF a, seen
  <1>7. Claimed(d, a)
    BY <1>6 DEF Claimed
  <1>8. a.beat <= d.phases[a.phase].max + 1
    <2>1. r.beat \in Nat /\ r.beat <= d.phases[r.phase].max /\ d.phases[r.phase].max \in Nat
      BY <1>1, <1>2 DEF Typed, Numbered, Shape
    <2> QED BY <1>6, <2>1
  <1>9. Shape(d, b)
    BY <1>5, TransitionsMoveOn
  <1>10. Grounded(d, b) /\ Claimed(d, b)
    BY <1>2, <1>5, <1>6, <1>7, <1>8, ReportedTransition
  <1> HIDE DEF b
  <1>11. s.phase = b.phase /\ s.beat = b.beat /\ Shape(d, c)
    <2>1. Shape(d, c)
      BY <1>9, EndingsKeep
    <2>2. c.phase = b.phase /\ c.beat = b.beat
      BY <1>9 DEF ApplyEnding, Shape, Fields
    <2> HIDE DEF c
    <2>3. s.phase = c.phase /\ s.beat = c.beat
      BY <2>1 DEF OpenDecision, Shape, Fields
    <2> QED BY <2>1, <2>2, <2>3
  <1>12. b.phase \in DOMAIN d.phases /\ b.beat <= d.phases[b.phase].max
    <2>1. RuntimeValid(d, s)
      BY <1>0, ClosedStory
    <2> HIDE DEF s
    <2> QED BY <1>11, <2>1 DEF RuntimeValid, StoryValid, BeatBounded
  <1>13. Grounded(d, c) /\ Claimed(d, c)
    BY <1>9, <1>10, <1>12, ReportedEnding
  <1> HIDE DEF c
  <1>14. Grounded(d, s) /\ Claimed(d, s)
    BY <1>11, <1>13, OpeningKeepsReports
  <1> QED BY <1>0, <1>14

\* What every committed runtime keeps of the analyzer's report.
ReportInv == IInv /\ Grounded(D, runtime) /\ Claimed(D, runtime)

LEMMA ReportInitially == Init => ReportInv
  <1> SUFFICES ASSUME Init PROVE ReportInv
    OBVIOUS
  <1>1. scenario \in Catalog /\ runtime = Started(D)
    BY DEF Init, D
  <1>2. Numbered(D) /\ ContentValid(D) /\ Documented(D)
    BY <1>1, CatalogIsValid, DraftsAreDocuments DEF Catalog, D
  <1> QED BY <1>1, <1>2, Initially, ReportedStart DEF ReportInv

LEMMA ReportStep == ReportInv /\ [Next]_vars => ReportInv'
  <1> SUFFICES ASSUME ReportInv, [Next]_vars PROVE ReportInv'
    OBVIOUS
  <1>1. IInv'
    BY EachStep DEF ReportInv
  <1>2. /\ scenario \in Catalog /\ Shape(D, runtime) /\ RuntimeValid(D, runtime)
        /\ Grounded(D, runtime) /\ Claimed(D, runtime)
    BY DEF ReportInv, IInv, TypeOK
  <1>3. Numbered(D) /\ ContentValid(D) /\ Documented(D)
    BY <1>2, CatalogIsValid, DraftsAreDocuments DEF Catalog, D
  <1>4. CASE UNCHANGED <<scenario, tags, runtime>>
    BY <1>1, <1>2, <1>4 DEF ReportInv, D
  <1>5. ASSUME UNCHANGED <<scenario, tags>>, NEW e, Accepted(e) PROVE ReportInv'
    <2>1. Asked(e) /\ Refusals(D, runtime, tags, e) = {} /\ runtime' = Candidate(D, runtime, e)
      BY <1>5 DEF Accepted
    <2>2. e # NoEvent =>
            /\ e.clues \subseteq DOMAIN D.clues /\ e.clues \cap UndiscoverableClues(D) = {}
            /\ DOMAIN e.binds \cap UnbindableFacts(D) = {}
      BY <1>2, <1>3, <2>1, OutcomesAreGrounded
    <2>3. Grounded(D, runtime') /\ Claimed(D, runtime')
      BY <1>2, <1>3, <2>1, <2>2, ReportedAdvancement
    <2>4. D' = D
      BY <1>5 DEF D
    <2> QED BY <1>1, <2>3, <2>4 DEF ReportInv
  <1> QED BY <1>4, <1>5, Requests DEF vars

\* Whatever drafts the loader admits, and however a story is played: what the
\* workbench's analyzer calls impossible (ScenarioAnalyzer.analyze) does not happen.
THEOREM ReportsAreTrue == Spec => []AnalysisIsSound
  <1>1. ReportInv => AnalysisIsSound
    <2> SUFFICES ASSUME ReportInv PROVE AnalysisIsSound
      OBVIOUS
    <2> DEFINE report == Reports[scenario]
    <2>1. scenario \in Catalog /\ Grounded(D, runtime) /\ Claimed(D, runtime) /\ TypeOK
      BY DEF ReportInv, IInv, TypeOK
    <2>2. report = Analyze(D)
      BY <2>1 DEF Reports, D
    <2>3. /\ report.phases = Reachable(D) /\ report.untraversable = UntraversableIds(D)
          /\ report.endings = UnreachableEndings(D) /\ report.cycles = CyclePhases(D)
          /\ report.clues = UndiscoverableClues(D) /\ report.unbindable = UnbindableFacts(D)
          /\ \A c \in DOMAIN D.clocks : report.thresholds[c] = UnreachableThresholds(D, c)
      BY <2>2 DEF Analyze
    <2> HIDE DEF report
    <2>4. ASSUME NEW c \in DOMAIN D.clocks
          PROVE  runtime.clocks[c].fired \cap UnreachableThresholds(D, c) = {}
      <3>1. runtime.clocks[c].fired = FiredAt(D.clocks[c], runtime.clocks[c].value)
        BY <2>1 DEF TypeOK
      <3>2. ~ClockSourced(D, c) => runtime.clocks[c].value = D.clocks[c].initial
        BY <2>1 DEF Grounded, ClocksGrounded
      <3>3. D.clocks[c].initial \in Nat /\ DOMAIN D.clocks[c].thresholds \subseteq Nat
        BY <2>1, CatalogIsValid, ClockNumbers DEF D
      <3> QED BY <3>1, <3>2, <3>3 DEF FiredAt, UnreachableThresholds
    <2> QED BY <2>1, <2>3, <2>4 DEF AnalysisIsSound, Grounded, Claimed, report
  <1> QED BY ReportInitially, ReportStep, <1>1, PTL DEF Spec

=============================================================================
