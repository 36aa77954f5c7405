----------------------------- MODULE StoryEngine -----------------------------
(***************************************************************************)
(* One advancement of a story: what a verified event, or an automatic      *)
(* beat, makes of a scenario runtime r of the content d, and the reasons   *)
(* for which the engine refuses it.  The callers pass at most one event,   *)
(* so the limits on event lists never apply; the histories of 1024 entries *)
(* are taken to suffice; dynamic facts and local queries have no producer. *)
(***************************************************************************)
EXTENDS ScenarioContent

NoEvent == [event |-> None]

\* An event with nothing but its type and the action it stands for.
PlainEvent(event, action) ==
    [event |-> event, action |-> action, clues |-> {}, binds |-> <<>>, facts |-> <<>>,
     opens |-> {}, to |-> None, resolves |-> FALSE, decision |-> None,
     rule |-> None, result |-> None]

Updated(f, g) == [x \in DOMAIN f |-> IF x \in DOMAIN g THEN g[x] ELSE f[x]]

-----------------------------------------------------------------------------
(* Conditions                                                              *)

FactValue(d, r, f) ==
    CASE d.facts[f].kind = "FIXED" -> d.facts[f].value
      [] d.facts[f].kind = "DEFERRED" -> r.bound[f]
      [] OTHER -> r.facts[f]

Acknowledged(d, r) == UNION {d.rules[o.rule].effects[o.result].acks : o \in r.outcomes}

Matches(d, r, seen, c) ==
    CASE c.rule = "ALWAYS" -> TRUE
      [] c.rule = "PHASE_BEAT_AT_LEAST" -> r.beat >= c.value
      [] c.rule = "FACT_EQUALS" -> FactValue(d, r, c.on) = c.value
      [] c.rule = "CLUE_GROUP_COMPLETE" -> c.on \in r.groups
      [] c.rule = "CLOCK_AT_LEAST" -> r.clocks[c.on].value >= c.value
      [] c.rule = "CLOCK_AT_MOST" -> r.clocks[c.on].value <= c.value
      [] c.rule = "LOCATION_OPENED" -> c.on \in r.open
      [] c.rule = "DECISIONS_AT_LEAST" -> Len(r.made) >= c.value
      [] c.rule = "EVENT_OCCURRED" -> c.on \in seen
      [] c.rule = "PHASE_VISIT_AT_LEAST" -> r.visits[c.on] >= c.value
      [] c.rule = "NPC_ALIVE_ACKNOWLEDGED" -> Cardinality(Acknowledged(d, r)) >= c.value

AllMatch(d, r, seen, when) == \A k \in DOMAIN when : Matches(d, r, seen, when[k])

-----------------------------------------------------------------------------
(* A new story                                                             *)

FiredAt(clock, value) == {t \in DOMAIN clock.thresholds : t <= value}

FromDefinition(d) ==
    [phase |-> d.initialPhase, beat |-> 0, at |-> d.initialPlace,
     clues |-> {}, groups |-> {},
     bound |-> [f \in FactsOf(d, "DEFERRED") |-> None],
     facts |-> [f \in FactsOf(d, "MUTABLE") |-> d.facts[f].value],
     clocks |-> [c \in DOMAIN d.clocks |->
                   [value |-> d.clocks[c].initial,
                    fired |-> FiredAt(d.clocks[c], d.clocks[c].initial)]],
     open |-> {l \in DOMAIN d.locations : d.locations[l].open} \cup {d.initialPlace},
     decision |-> None, made |-> <<>>, rapid |-> d.phases[d.initialPhase].rapid,
     status |-> "ACTIVE", ending |-> None,
     visits |-> [p \in DOMAIN d.phases |-> IF p = d.initialPhase THEN 1 ELSE 0],
     uses |-> [t \in {u.id : u \in Transitions(d)} |-> 0],
     applied |-> {}, outcomes |-> {}, answers |-> {}]

-----------------------------------------------------------------------------
(* A verified event                                                        *)

Revealable(d, r, tags, clue, event) ==
    /\ clue \in d.phases[r.phase].clues
    /\ r.phase \in d.clues[clue].phases
    /\ event \in d.clues[clue].events
    /\ d.clues[clue].tags = {} \/ tags \cap d.clues[clue].tags # {}

\* A deferred fact is bound once, to a declared candidate.
Bindable(d, r, f, value) == r.bound[f] = None /\ value \in d.facts[f].candidates

\* A mutable fact moves along a declared transition, on the event it names.
Movable(d, r, f, value, event) ==
    [from |-> r.facts[f], to |-> value, event |-> event] \in d.facts[f].moves

ApplyEvent(d, r, e) ==
    [r EXCEPT
        !.clues = @ \cup e.clues,
        !.bound = Updated(@, e.binds),
        !.facts = Updated(@, e.facts),
        !.open = @ \cup e.opens,
        !.at = IF e.to = None THEN @ ELSE e.to,
        !.made = IF e.resolves THEN Append(@, r.decision) ELSE @,
        !.decision = IF e.resolves THEN None ELSE @,
        !.answers = IF e.rule = None THEN @ \cup {<<e.decision, e.event>>} ELSE @,
        !.outcomes = IF e.rule = None THEN @ ELSE @ \cup {[rule |-> e.rule, result |-> e.result]},
        !.applied = IF e.rule # None /\ d.rules[e.rule].once THEN @ \cup {e.rule} ELSE @]

-----------------------------------------------------------------------------
(* Clocks and clue groups                                                  *)

\* The clocks an event, or an automatic beat, costs in a phase.
Cost(phase, e) ==
    CASE e = NoEvent -> phase.auto
      [] e # NoEvent /\ e.action \in DOMAIN phase.cost -> phase.cost[e.action]
      [] OTHER -> <<>>

\* Mutant: a clock runs past its maximum.
AdvanceClockUnclamped(clock, state, amount) ==
    [value |-> state.value + amount,
     fired |-> state.fired \cup {t \in DOMAIN clock.thresholds :
                                    state.value < t /\ t <= state.value + amount}]

AdvanceClock(clock, state, amount) ==
    LET value == IF state.value + amount > clock.max THEN clock.max ELSE state.value + amount
        crossed == {t \in DOMAIN clock.thresholds : state.value < t /\ t <= value}
    IN [value |-> value, fired |-> state.fired \cup crossed]

AdvanceClocks(d, clocks, advances) ==
    [c \in DOMAIN clocks |->
        IF c \in DOMAIN advances THEN AdvanceClock(d.clocks[c], clocks[c], advances[c])
        ELSE clocks[c]]

ClockEvents(d, before, after) ==
    UNION {{d.clocks[c].thresholds[t] : t \in after[c].fired \ before[c].fired} :
             c \in DOMAIN after}

Complete(d, clues) ==
    {g \in DOMAIN d.groups : Cardinality(d.groups[g].clues \cap clues) >= d.groups[g].need}

CompleteGroups(d, r) == r.groups \cup Complete(d, r.clues)

\* Mutant: the clocks are advanced from their initial values.
AfterBeatAnew(d, r, e) ==
    LET told == IF e = NoEvent THEN r ELSE ApplyEvent(d, r, e) IN
    [told EXCEPT !.beat = @ + 1,
                 !.clocks = AdvanceClocks(d, FromDefinition(d).clocks, Cost(d.phases[r.phase], e)),
                 !.groups = CompleteGroups(d, told)]

\* The runtime after the event, the beat, the clocks and the clue groups.
AfterBeat(d, r, e) ==
    LET told == IF e = NoEvent THEN r ELSE ApplyEvent(d, r, e) IN
    [told EXCEPT !.beat = @ + 1,
                 !.clocks = AdvanceClocks(d, @, Cost(d.phases[r.phase], e)),
                 !.groups = CompleteGroups(d, told)]

\* The types of the events of this advancement.
EventTypes(d, r, e) ==
    LET after == AfterBeat(d, r, e) IN
    ({e.event} \ {None})
        \cup ClockEvents(d, r.clocks, after.clocks)
        \cup {d.groups[g].event : g \in after.groups \ r.groups}

-----------------------------------------------------------------------------
(* Transitions and endings                                                 *)

EligibleAt(d, r, seen, resolved, t) ==
    /\ t.maxUses # Unlimited => r.uses[t.id] < t.maxUses
    /\ t.trigger = "VERIFIED_EVENT" => seen # {}
    /\ t.trigger = "DECISION" => resolved
    /\ t.trigger = "AUTOMATIC" => r.beat >= d.phases[r.phase].min
    /\ AllMatch(d, r, seen, t.when)
    /\ AllMatch(d, r, seen, d.phases[t.target].entry)

Eligible(d, r, seen, resolved) ==
    LET list == d.phases[r.phase].transitions IN
    {k \in DOMAIN list : EligibleAt(d, r, seen, resolved, list[k])}

First(places) == CHOOSE k \in places : \A j \in places : k <= j

\* The player stays where it is if the new phase shows it, or goes to the first open place.
OpenPlaces(d, r, phase) == {k \in DOMAIN phase.visible : phase.visible[k] \in r.open}
Relocated(d, r, phase) ==
    IF r.at \in Span(phase.visible) \/ OpenPlaces(d, r, phase) = {} THEN r.at
    ELSE phase.visible[First(OpenPlaces(d, r, phase))]

ApplyTransition(d, r, seen, resolved) ==
    LET ready == Eligible(d, r, seen, resolved)
        t == d.phases[r.phase].transitions[First(ready)]
        phase == d.phases[t.target]
    IN
    IF ready = {} THEN r
    ELSE [r EXCEPT !.uses[t.id] = @ + 1,
                   !.phase = t.target,
                   !.beat = 0,
                   !.decision = None,
                   !.visits[t.target] = @ + 1,
                   !.rapid = phase.rapid,
                   !.at = Relocated(d, r, phase)]

ApplyEnding(d, r, seen) ==
    LET met == {k \in DOMAIN d.endings : AllMatch(d, r, seen, d.endings[k].when)} IN
    IF met = {} THEN r
    ELSE [r EXCEPT !.status = d.endings[First(met)].status,
                   !.ending = d.endings[First(met)].id,
                   !.decision = None]

-----------------------------------------------------------------------------
(* Decisions                                                               *)

\* The window to open now, or None.
SelectWindow(d, r, seen) ==
    LET phase == d.phases[r.phase]
        opens(w) ==
            /\ d.windows[w].once => w \notin Span(r.made)
            /\ r.beat \in d.windows[w].earliest..d.windows[w].latest
            /\ AllMatch(d, r, seen, d.windows[w].when)
        ready == {k \in DOMAIN phase.windows : opens(phase.windows[k])}
    IN
    IF r.decision # None THEN r.decision
    ELSE IF r.beat < phase.min \/ ready = {} THEN None
    ELSE phase.windows[First(ready)]

\* Mutant: a phase just entered opens no window.
OpenDecisionLater(d, r, seen) ==
    IF r.status = "ACTIVE" /\ (r.beat > 0 \/ r.made = <<>>)
    THEN [r EXCEPT !.decision = SelectWindow(d, r, seen)]
    ELSE r

OpenDecision(d, r, seen) ==
    IF r.status = "ACTIVE" THEN [r EXCEPT !.decision = SelectWindow(d, r, seen)] ELSE r

\* The choices the frame offers: by profession, and with every NPC target in sight.
Offered(d, r, tags) ==
    IF r.decision = None THEN {}
    ELSE {c \in DOMAIN d.windows[r.decision].choices :
            LET choice == d.windows[r.decision].choices[c] IN
            /\ choice.tags = {} \/ tags \cap choice.tags # {}
            /\ choice.targets \cap d.npcs \subseteq d.locations[r.at].npcs}

\* The frame of a committed state can be planned.
Plannable(d, r, tags) ==
    /\ r.status = "ACTIVE" /\ r.decision = None => SelectWindow(d, r, {}) = None
    /\ r.decision # None => Offered(d, r, tags) # {}

-----------------------------------------------------------------------------
(* The validator                                                           *)

\* Mutant: the validator does not look at the beat.
BeatUnbounded(d, r) == TRUE

BeatBounded(d, r) == r.beat <= d.phases[r.phase].max

\* The values a mutable fact can be moved to.
Attainable(fact) ==
    LET after[n \in Nat] ==
            IF n = 0 THEN {fact.value}
            ELSE LET before == after[n - 1] IN
                 before \cup {m.to : m \in {k \in fact.moves : k.from \in before}}
    IN after[Cardinality(fact.moves)]

StoryValid(d, r) ==
    /\ r.phase \in DOMAIN d.phases
    /\ (r.status = "ACTIVE") = (r.ending = None)
    /\ r.ending # None => \E k \in DOMAIN d.endings :
                            d.endings[k].id = r.ending /\ d.endings[k].status = r.status
    /\ r.status = "ACTIVE" => ~d.phases[r.phase].terminal
    /\ r.visits[r.phase] >= 1
    /\ \A p \in DOMAIN d.phases :
         d.phases[p].maxVisits # Unlimited => r.visits[p] <= d.phases[p].maxVisits
    /\ \A t \in Transitions(d) : t.maxUses # Unlimited => r.uses[t.id] <= t.maxUses
    /\ r.rapid => d.phases[r.phase].rapid

WorldValid(d, r) ==
    /\ r.open \subseteq DOMAIN d.locations
    /\ r.clues \subseteq DOMAIN d.clues
    /\ r.at \in r.open \cap Span(d.phases[r.phase].visible)
    /\ r.groups = Complete(d, r.clues)
    /\ \A f \in DOMAIN r.bound : r.bound[f] \in d.facts[f].candidates \cup {None}
    /\ \A f \in DOMAIN r.facts : r.facts[f] \in Attainable(d.facts[f])
    /\ \A c \in DOMAIN d.clocks :
         /\ r.clocks[c].value \in d.clocks[c].min..d.clocks[c].max
         /\ r.clocks[c].fired = FiredAt(d.clocks[c], r.clocks[c].value)

HistoryValid(d, r) ==
    /\ Span(r.made) \subseteq DOMAIN d.windows
    /\ r.decision # None => r.decision \in Span(d.phases[r.phase].windows)
    /\ \A j, k \in DOMAIN r.made : r.made[j] = r.made[k] /\ d.windows[r.made[j]].once => j = k
    /\ r.decision # None /\ d.windows[r.decision].once => r.decision \notin Span(r.made)
    /\ \A o, q \in r.outcomes : o.rule = q.rule /\ d.rules[o.rule].once => o = q
    /\ \A a \in r.answers :
         /\ a[1] \in Span(r.made)
         /\ \E c \in DOMAIN d.windows[a[1]].choices :
              LET event == d.windows[a[1]].choices[c].event IN
              a[2] = IF event = None THEN Selected ELSE event

RuntimeValid(d, r) == BeatBounded(d, r) /\ StoryValid(d, r) /\ WorldValid(d, r) /\ HistoryValid(d, r)

-----------------------------------------------------------------------------
(* One advancement                                                         *)

Resolves(e) == e # NoEvent /\ e.resolves

\* The runtime an advancement computes.
Candidate(d, r, e) ==
    LET seen == EventTypes(d, r, e)
        turned == ApplyTransition(d, AfterBeat(d, r, e), seen, Resolves(e))
    IN OpenDecision(d, ApplyEnding(d, turned, seen), seen)

\* Found while the story is moved on, and by the validator after that.
Turned == {"visit limit", "no open place", "stuck", "terminal without ending"}
Checked == {"beyond the last beat", "invalid runtime"}

\* The story cannot go on from the candidate.
DeadEnds == {"stuck", "terminal without ending", "beyond the last beat", "visit limit"}

EventReasons ==
    {"replayed", "decision pending", "wrong decision", "reveal", "binding", "fact", "closed place",
     "hidden place", "action"}

\* Whether the engine refuses the event for a reason it finds before the clocks move.
EventRefused(d, r, tags, e, why) ==
    CASE why = "replayed" -> e.rule \in r.applied
      [] why = "wrong decision" -> e.resolves /\ (r.decision = None \/ e.decision # r.decision)
      [] why = "reveal" -> \E c \in e.clues : ~Revealable(d, r, tags, c, e.event)
      [] why = "binding" -> \E f \in DOMAIN e.binds : ~Bindable(d, r, f, e.binds[f])
      [] why = "fact" -> \E f \in DOMAIN e.facts : ~Movable(d, r, f, e.facts[f], e.event)
      [] why = "closed place" -> e.to # None /\ e.to \notin r.open \cup e.opens
      [] why = "hidden place" -> e.to # None /\ e.to \notin Span(d.phases[r.phase].visible)
      [] why = "action" -> e.action \notin d.phases[r.phase].actions
      [] OTHER -> FALSE

\* Whether it refuses the runtime next, which the event and what it saw have led to.
CandidateRefused(d, next, seen, tags, e, why) ==
    LET phase == d.phases[next.phase]
        waits == next.status = "ACTIVE" /\ next.decision = None
    IN
    CASE why = "visit limit" ->
            phase.maxVisits # Unlimited /\ next.visits[next.phase] > phase.maxVisits
      [] why = "no open place" -> next.at \notin Span(phase.visible)
      [] why = "stuck" -> /\ waits
                          /\ next.beat >= phase.max
                          /\ Eligible(d, next, seen, Resolves(e)) = {}
      [] why = "terminal without ending" -> next.status = "ACTIVE" /\ phase.terminal
      [] why = "beyond the last beat" -> ~BeatBounded(d, next)
      [] why = "invalid runtime" -> ~(StoryValid(d, next) /\ WorldValid(d, next) /\ HistoryValid(d, next))
      [] why = "unplannable" -> next.decision # None /\ Offered(d, next, tags) = {}
      [] OTHER -> FALSE

EarlyRefusals(d, r, tags, e) ==
    {why \in EventReasons :
       \/ e # NoEvent /\ EventRefused(d, r, tags, e, why)
       \/ why = "decision pending" /\ r.decision # None /\ ~Resolves(e)}

LateRefusals(d, next, seen, tags, e) ==
    LET of(reasons) == {why \in reasons : CandidateRefused(d, next, seen, tags, e, why)} IN
    CASE of(Turned) # {} -> of(Turned)
      [] of(Turned) = {} /\ of(Checked) # {} -> of(Checked)
      [] OTHER -> of({"unplannable"})

\* All the reasons for which the engine refuses; none, and the candidate is committed.
Refusals(d, r, tags, e) ==
    IF EarlyRefusals(d, r, tags, e) # {} THEN EarlyRefusals(d, r, tags, e)
    ELSE LateRefusals(d, Candidate(d, r, e), EventTypes(d, r, e), tags, e)

=============================================================================
