--------------------------- MODULE ScenarioContent ---------------------------
(***************************************************************************)
(* What a scenario draft is and which drafts the loader admits.  A draft   *)
(* is a record of functions from identifiers to definitions; transitions,  *)
(* endings and windows are sequences in the order the engine tries them    *)
(* (transitions and endings by priority and then identifier).  Texts,      *)
(* titles, tone hints, fact visibility, memory rules and the public client *)
(* block are left out: nothing the story does depends on them.             *)
(***************************************************************************)
EXTENDS Naturals, FiniteSets, Sequences

None == "none"          \* no place, decision, ending or bound value
Unlimited == 0          \* max_uses and max_visits are absent, or at least one
Selected == "player.decision.selected"   \* the event of a choice that names none

Span(s) == {s[k] : k \in DOMAIN s}

\* One condition: the rule, the identifier it is about, and the value it compares.
Cond(rule, on, value) == [rule |-> rule, on |-> on, value |-> value]

Transitions(d) == UNION {Span(d.phases[p].transitions) : p \in DOMAIN d.phases}
Choices(d) == UNION {DOMAIN d.windows[w].choices : w \in DOMAIN d.windows}
ChoicesOf(d) ==
    UNION {{d.windows[w].choices[c] : c \in DOMAIN d.windows[w].choices} : w \in DOMAIN d.windows}
EffectsOf(rule) == {rule.effects[x] : x \in DOMAIN rule.effects}
FactsOf(d, kind) == {f \in DOMAIN d.facts : d.facts[f].kind = kind}

-----------------------------------------------------------------------------
(* One definition at a time                                                *)

FactShaped(fact) ==
    CASE fact.kind = "FIXED" -> fact.value # None /\ fact.candidates = {} /\ fact.moves = {}
      [] fact.kind = "DEFERRED" -> fact.value = None /\ fact.candidates # {} /\ fact.moves = {}
      [] fact.kind = "MUTABLE" -> fact.value # None /\ fact.candidates = {} /\ fact.moves # {}
      [] OTHER -> FALSE

ClueShaped(clue) == clue.events # {} /\ clue.phases # {}

GroupShaped(group) == group.need \in 1..Cardinality(group.clues)

ClockShaped(clock) ==
    /\ clock.min < clock.max
    /\ clock.initial \in clock.min..clock.max
    /\ DOMAIN clock.thresholds \subseteq clock.min..clock.max

ChoiceShaped(choice) ==
    DOMAIN choice.facts # {} \/ choice.opens # {} \/ choice.to # None => choice.event # None

WindowShaped(window) ==
    /\ window.earliest <= window.latest
    /\ \E c \in DOMAIN window.choices : window.choices[c].tags = {}
    /\ \A c \in DOMAIN window.choices : ChoiceShaped(window.choices[c])

PhaseShaped(phase) ==
    /\ phase.min <= phase.max
    /\ phase.terminal = (phase.transitions = <<>>)
    /\ phase.terminal => /\ phase.windows = <<>>
                         /\ phase.cost = <<>>
                         /\ phase.auto = <<>>
                         /\ ~phase.rapid
                         /\ phase.max = 0
    /\ phase.visible # <<>>
    /\ phase.actions # {}

EndingShaped(ending) == ending.status \in {"RESOLVED", "FAILED"} /\ ending.when # <<>>

RuleShaped(rule) == rule.phases # {} /\ rule.actions # {} /\ DOMAIN rule.effects # {}

Shaped(d) ==
    /\ \A f \in DOMAIN d.facts : FactShaped(d.facts[f])
    /\ \A c \in DOMAIN d.clues : ClueShaped(d.clues[c])
    /\ \A g \in DOMAIN d.groups : GroupShaped(d.groups[g])
    /\ \A c \in DOMAIN d.clocks : ClockShaped(d.clocks[c])
    /\ \A w \in DOMAIN d.windows : WindowShaped(d.windows[w])
    /\ \A p \in DOMAIN d.phases : PhaseShaped(d.phases[p])
    /\ \A k \in DOMAIN d.endings : EndingShaped(d.endings[k])
    /\ \A u \in DOMAIN d.rules : RuleShaped(d.rules[u])

\* Every condition of a draft.
Conditions(d) ==
    UNION {UNION {Span(d.phases[p].entry) : p \in DOMAIN d.phases},
           UNION {Span(t.when) : t \in Transitions(d)},
           UNION {Span(d.endings[k].when) : k \in DOMAIN d.endings},
           UNION {Span(d.windows[w].when) : w \in DOMAIN d.windows}}

\* What a condition compares a count with is a number.
ConditionNumbered(c) ==
    /\ c.rule \in {"PHASE_BEAT_AT_LEAST", "DECISIONS_AT_LEAST"} => c.value \in Nat
    /\ c.rule = "PHASE_VISIT_AT_LEAST" => c.value \in Nat \ {0}

\* The numbers of a draft: beats, bounds of clocks and what moves them, counts.
Numbered(d) ==
    /\ \A c \in Conditions(d) : ConditionNumbered(c)
    /\ \A c \in DOMAIN d.clocks : d.clocks[c].min \in Nat /\ d.clocks[c].max \in Nat
    /\ \A p \in DOMAIN d.phases :
         LET phase == d.phases[p] IN
         /\ phase.min \in Nat /\ phase.max \in Nat
         /\ \A c \in DOMAIN phase.auto : phase.auto[c] \in Nat \ {0}
         /\ \A a \in DOMAIN phase.cost :
              \A c \in DOMAIN phase.cost[a] : phase.cost[a][c] \in Nat \ {0}

\* What is tried in order is a list.
Listed(s) == s \in Seq(Span(s))

\* What any document gives: finitely many definitions, lists where the order counts,
\* and no identifier that means an absence.
Documented(d) ==
    /\ IsFiniteSet(DOMAIN d.phases)
    /\ \A g \in DOMAIN d.groups : IsFiniteSet(d.groups[g].clues)
    /\ \A p \in DOMAIN d.phases : Listed(d.phases[p].transitions) /\ Listed(d.phases[p].entry)
    /\ \A t \in Transitions(d) : Listed(t.when)
    /\ Listed(d.endings)
    /\ None \notin DOMAIN d.windows
    /\ \A k \in DOMAIN d.endings : d.endings[k].id # None

-----------------------------------------------------------------------------
(* Definitions against each other                                          *)

\* No two definitions of a scenario share an identifier.
OwnedIds(d) ==
    LET families == <<DOMAIN d.phases, DOMAIN d.locations, DOMAIN d.facts, DOMAIN d.clues,
                      DOMAIN d.groups, DOMAIN d.clocks, DOMAIN d.windows, DOMAIN d.rules,
                      {t.id : t \in Transitions(d)}, {d.endings[k].id : k \in DOMAIN d.endings},
                      Choices(d)>>
    IN /\ \A j, k \in DOMAIN families : j # k => families[j] \cap families[k] = {}
       /\ \A p, q \in DOMAIN d.phases :
            \A j \in DOMAIN d.phases[p].transitions, k \in DOMAIN d.phases[q].transitions :
              d.phases[p].transitions[j].id = d.phases[q].transitions[k].id => p = q /\ j = k
       /\ \A j, k \in DOMAIN d.endings : d.endings[j].id = d.endings[k].id => j = k
       /\ \A v, w \in DOMAIN d.windows :
            v # w => DOMAIN d.windows[v].choices \cap DOMAIN d.windows[w].choices = {}

\* The values a fact condition may compare with.
PossibleValues(fact) ==
    CASE fact.kind = "FIXED" -> {fact.value}
      [] fact.kind = "DEFERRED" -> fact.candidates
      [] OTHER -> {fact.value} \cup {m.to : m \in fact.moves}

ConditionValid(d, c) ==
    CASE c.rule = "FACT_EQUALS" ->
            c.on \in DOMAIN d.facts /\ c.value \in PossibleValues(d.facts[c.on])
      [] c.rule = "CLUE_GROUP_COMPLETE" -> c.on \in DOMAIN d.groups
      [] c.rule \in {"CLOCK_AT_LEAST", "CLOCK_AT_MOST"} ->
            c.on \in DOMAIN d.clocks /\ c.value \in d.clocks[c.on].min..d.clocks[c.on].max
      [] c.rule = "LOCATION_OPENED" -> c.on \in DOMAIN d.locations
      [] c.rule = "PHASE_VISIT_AT_LEAST" ->
            /\ c.on \in DOMAIN d.phases
            /\ d.phases[c.on].maxVisits # Unlimited => c.value <= d.phases[c.on].maxVisits
      [] OTHER -> TRUE

ConditionsValid(d, when) == \A k \in DOMAIN when : ConditionValid(d, when[k])

\* Advances name declared clocks; a clock twice is impossible in a function.
AdvancesValid(d, advances) == DOMAIN advances \subseteq DOMAIN d.clocks

InitialValid(d) == d.initialPhase \in DOMAIN d.phases /\ d.initialPlace \in DOMAIN d.locations

PhaseRefs(d, phase) ==
    /\ Span(phase.visible) \subseteq DOMAIN d.locations
    /\ phase.clues \subseteq DOMAIN d.clues
    /\ Span(phase.windows) \subseteq DOMAIN d.windows
    /\ \A t \in Span(phase.transitions) :
         t.target \in DOMAIN d.phases /\ ConditionsValid(d, t.when)
    /\ DOMAIN phase.cost \subseteq phase.actions
    /\ \A a \in DOMAIN phase.cost : AdvancesValid(d, phase.cost[a])
    /\ AdvancesValid(d, phase.auto)
    /\ ConditionsValid(d, phase.entry)

ClueRefs(d, clue) == clue.phases \subseteq DOMAIN d.phases /\ clue.tags \subseteq d.tags

\* A clue group can be completed by every character.
GroupRefs(d, group) ==
    /\ group.clues \subseteq DOMAIN d.clues
    /\ group.need <= Cardinality({c \in group.clues : d.clues[c].tags = {}})

ChoiceRefs(d, choice) ==
    /\ choice.tags \subseteq d.tags
    /\ choice.targets \subseteq DOMAIN d.locations \cup d.npcs \cup d.items
    /\ \A f \in DOMAIN choice.facts :
         /\ f \in FactsOf(d, "MUTABLE")
         /\ \E m \in d.facts[f].moves : m.event = choice.event /\ m.to = choice.facts[f]

WindowRefs(d, window) ==
    /\ ConditionsValid(d, window.when)
    /\ (\A w \in DOMAIN d.windows : d.windows[w].once) =>
         \A k \in DOMAIN window.when :
           window.when[k].rule = "DECISIONS_AT_LEAST" =>
             window.when[k].value <= Cardinality(DOMAIN d.windows)
    /\ \A c \in DOMAIN window.choices : ChoiceRefs(d, window.choices[c])

\* A window listed by a phase can open there, and its choices are allowed there.
WindowFits(d, phase, window) ==
    /\ phase.rapid => window.once
    /\ window.latest >= phase.min /\ window.earliest <= phase.max
    /\ \A k \in DOMAIN window.when :
         window.when[k].rule = "PHASE_BEAT_AT_LEAST" => window.when[k].value <= window.latest
    /\ \A c \in DOMAIN window.choices :
         LET choice == window.choices[c] IN
         /\ choice.action \in phase.actions
         /\ choice.opens \subseteq DOMAIN d.locations
         /\ choice.to # None => choice.to \in Span(phase.visible)

RuleRefs(d, rule) ==
    /\ rule.phases \subseteq DOMAIN d.phases
    /\ rule.npcs \subseteq d.npcs
    /\ rule.clues \subseteq DOMAIN d.clues
    /\ rule.decisions \subseteq DOMAIN d.windows
    /\ rule.places \subseteq DOMAIN d.locations
    /\ DOMAIN rule.facts \subseteq DOMAIN d.facts
    /\ \A p \in rule.phases : rule.places \subseteq Span(d.phases[p].visible)
    /\ \A w \in rule.decisions : \E p \in rule.phases : w \in Span(d.phases[p].windows)

EffectRefs(d, rule, effect) ==
    /\ effect.acks \subseteq rule.npcs
    /\ effect.clues \subseteq DOMAIN d.clues
    /\ effect.opens \subseteq DOMAIN d.locations
    /\ \A f \in DOMAIN effect.binds :
         f \in FactsOf(d, "DEFERRED") /\ effect.binds[f] \in d.facts[f].candidates
    /\ \A f \in DOMAIN effect.facts :
         /\ f \in FactsOf(d, "MUTABLE")
         /\ \E m \in d.facts[f].moves : m.to = effect.facts[f]
    /\ \A p \in rule.phases :
         /\ effect.to # None => effect.to \in Span(d.phases[p].visible)
         /\ effect.action \in d.phases[p].actions

\* Two rules of a mutex group never tie.
MutexUnambiguous(d) ==
    \A u, v \in DOMAIN d.rules :
        d.rules[u].group = d.rules[v].group /\ d.rules[u].priority = d.rules[v].priority => u = v

-----------------------------------------------------------------------------
(* The transition graph                                                    *)

\* What is reached from some phases along the edges step, after as many rounds as there
\* are phases.
Closure(from, step) ==
    LET reach[n \in Nat] ==
            IF n = 0 THEN from
            ELSE LET before == reach[n - 1] IN before \cup UNION {step[p] : p \in before}
    IN reach[Cardinality(DOMAIN step)]

Targets(d, p) == {t.target : t \in Span(d.phases[p].transitions)}

\* The phases a path of transitions leads to, whatever their conditions.
Reachable(d) == Closure({d.initialPhase}, [p \in DOMAIN d.phases |-> Targets(d, p)])

\* Automatic transitions without a use limit, between phases without a visit limit.
UnboundedTargets(d, p) ==
    {t.target : t \in {u \in Span(d.phases[p].transitions) :
                         /\ u.trigger = "AUTOMATIC"
                         /\ u.maxUses = Unlimited
                         /\ d.phases[p].maxVisits = Unlimited
                         /\ d.phases[u.target].maxVisits = Unlimited}}

AutomaticCyclesBounded(d) ==
    LET step == [p \in DOMAIN d.phases |-> UnboundedTargets(d, p)] IN
    \A p \in DOMAIN d.phases : p \notin Closure(step[p], step)

RequiredPhasesReachable(d) == \A p \in DOMAIN d.phases : d.phases[p].required => p \in Reachable(d)

\* The loader admits the draft.
ContentValid(d) ==
    /\ Shaped(d)
    /\ InitialValid(d)
    /\ OwnedIds(d)
    /\ \A p \in DOMAIN d.phases :
         /\ PhaseRefs(d, d.phases[p])
         /\ \A w \in Span(d.phases[p].windows) : WindowFits(d, d.phases[p], d.windows[w])
    /\ \A c \in DOMAIN d.clues : ClueRefs(d, d.clues[c])
    /\ \A g \in DOMAIN d.groups : GroupRefs(d, d.groups[g])
    /\ \A w \in DOMAIN d.windows : WindowRefs(d, d.windows[w])
    /\ \A k \in DOMAIN d.endings : ConditionsValid(d, d.endings[k].when)
    /\ \A u \in DOMAIN d.rules :
         /\ RuleRefs(d, d.rules[u])
         /\ \A effect \in EffectsOf(d.rules[u]) : EffectRefs(d, d.rules[u], effect)
    /\ MutexUnambiguous(d)
    /\ RequiredPhasesReachable(d)
    /\ AutomaticCyclesBounded(d)

=============================================================================
