--------------------------- MODULE ScenarioAnalysis ---------------------------
(***************************************************************************)
(* The workbench's static analysis of an admitted scenario: what it can    *)
(* prove of the transition graph, the clues, the facts, the clocks and the *)
(* endings without running the story.  A verdict is a proof state; "no"    *)
(* claims that no play of the story can ever get there.                    *)
(***************************************************************************)
EXTENDS ScenarioContent

Yes == "yes"
No == "no"
Unknown == "unknown"

\* A conjunction is refuted by one of its parts and proved by all of them.
Conjunction(proofs) == IF No \in proofs THEN No ELSE IF Unknown \in proofs THEN Unknown ELSE Yes

PossibleIf(claim) == IF claim THEN Unknown ELSE No
ProvedIf(claim) == IF claim THEN Yes ELSE No

-----------------------------------------------------------------------------
(* Sources                                                                 *)

Producers(d, clue) ==
    {u \in DOMAIN d.rules :
        \E effect \in EffectsOf(d.rules[u]) :
            clue \in effect.clues /\ effect.event \in d.clues[clue].events}

ClueSourcePhases(d, clue) ==
    {p \in d.clues[clue].phases : \E u \in Producers(d, clue) : p \in d.rules[u].phases}

\* Enough clues of the group have a producer in a reachable phase.
GroupSourced(d, group) ==
    Cardinality({c \in group.clues : ClueSourcePhases(d, c) \cap Reachable(d) # {}}) >= group.need

\* Mutant: what an action costs moves no clock.
ClockAutoPhases(d, clock) == {p \in DOMAIN d.phases : clock \in DOMAIN d.phases[p].auto}

\* The phases where time moves a clock.
ClockSourcePhases(d, clock) ==
    {p \in DOMAIN d.phases :
        \/ clock \in DOMAIN d.phases[p].auto
        \/ \E a \in DOMAIN d.phases[p].cost : clock \in DOMAIN d.phases[p].cost[a]}

ClockSourced(d, clock) == ClockSourcePhases(d, clock) \cap Reachable(d) # {}

WindowsReachable(d) == \E p \in Reachable(d) : d.phases[p].windows # <<>>

InitiallyOpen(d, place) == d.locations[place].open \/ place = d.initialPlace

-----------------------------------------------------------------------------
(* Conditions                                                              *)

FactProof(fact, value) ==
    CASE fact.kind = "FIXED" -> ProvedIf(fact.value = value)
      [] fact.kind = "DEFERRED" -> PossibleIf(value \in fact.candidates)
      [] OTHER -> IF fact.value = value THEN Yes ELSE Unknown

\* A condition tried in one of the phases "within".
ConditionProof(d, c, within) ==
    CASE c.rule = "ALWAYS" -> Yes
      [] c.rule = "PHASE_BEAT_AT_LEAST" ->
            IF \A p \in within : c.value > d.phases[p].max THEN No
            ELSE IF c.value = 0 THEN Yes ELSE Unknown
      [] c.rule = "FACT_EQUALS" -> FactProof(d.facts[c.on], c.value)
      [] c.rule = "CLUE_GROUP_COMPLETE" -> PossibleIf(GroupSourced(d, d.groups[c.on]))
      [] c.rule = "CLOCK_AT_LEAST" ->
            IF d.clocks[c.on].initial >= c.value THEN Yes ELSE PossibleIf(ClockSourced(d, c.on))
      [] c.rule = "CLOCK_AT_MOST" -> ProvedIf(d.clocks[c.on].initial <= c.value)
      [] c.rule = "LOCATION_OPENED" -> IF InitiallyOpen(d, c.on) THEN Yes ELSE Unknown
      [] c.rule = "DECISIONS_AT_LEAST" ->
            IF c.value = 0 THEN Yes ELSE PossibleIf(WindowsReachable(d))
      [] c.rule = "PHASE_VISIT_AT_LEAST" ->
            IF c.on \in Reachable(d) /\ c.on = d.initialPhase /\ c.value = 1 THEN Yes
            ELSE PossibleIf(c.on \in Reachable(d))
      [] OTHER -> Unknown

ConditionsProof(d, when, within) ==
    Conjunction({ConditionProof(d, when[k], within) : k \in DOMAIN when})

\* Whether some reachable phase could bring the condition about.
SourceProof(d, c) ==
    CASE c.rule = "PHASE_VISIT_AT_LEAST" -> ProvedIf(c.on \in Reachable(d))
      [] c.rule = "PHASE_BEAT_AT_LEAST" ->
            ProvedIf(\E p \in Reachable(d) : d.phases[p].max >= c.value)
      [] c.rule = "CLUE_GROUP_COMPLETE" -> ProvedIf(GroupSourced(d, d.groups[c.on]))
      [] c.rule = "CLOCK_AT_LEAST" ->
            ProvedIf(d.clocks[c.on].initial >= c.value \/ ClockSourced(d, c.on))
      [] c.rule = "CLOCK_AT_MOST" ->
            ProvedIf(d.clocks[c.on].initial <= c.value \/ ClockSourced(d, c.on))
      [] c.rule = "DECISIONS_AT_LEAST" -> ProvedIf(c.value = 0 \/ WindowsReachable(d))
      [] c.rule = "EVENT_OCCURRED" -> Unknown
      [] c.rule = "LOCATION_OPENED" -> IF InitiallyOpen(d, c.on) THEN Yes ELSE Unknown
      [] OTHER -> Yes

-----------------------------------------------------------------------------
(* The report                                                              *)

TransitionProof(d, p, t) ==
    IF p \notin Reachable(d) \/ ConditionsProof(d, t.when \o d.phases[t.target].entry, {p}) = No
    THEN No
    ELSE Unknown

UntraversableIds(d) ==
    UNION {{t.id : t \in {u \in Span(d.phases[p].transitions) : TransitionProof(d, p, u) = No}} :
             p \in DOMAIN d.phases}

EndingProof(d, ending) ==
    IF \/ Conjunction({SourceProof(d, ending.when[k]) : k \in DOMAIN ending.when}) = No
       \/ ConditionsProof(d, ending.when, Reachable(d)) = No
    THEN No
    ELSE Unknown

UnreachableEndings(d) ==
    {d.endings[k].id : k \in {j \in DOMAIN d.endings : EndingProof(d, d.endings[j]) = No}}

\* The phases of a strongly connected component with an edge inside it.
CyclePhases(d) ==
    LET step == [p \in DOMAIN d.phases |-> Targets(d, p)] IN
    {p \in DOMAIN d.phases : p \in Closure(step[p], step)}

\* Nothing declared rules out that this rule reveals the clue.
MayReveal(d, clue, rule) ==
    LET within == rule.phases \cap d.clues[clue].phases \cap Reachable(d)
        inSight(p) == UNION {d.locations[l].npcs : l \in Span(d.phases[p].visible)}
    IN
    /\ within # {}
    /\ rule.decisions # {} => \E p \in within : rule.decisions \cap Span(d.phases[p].windows) # {}
    /\ \A c \in rule.clues : ClueSourcePhases(d, c) \cap Reachable(d) # {}
    /\ rule.npcs # {} => \E p \in within : rule.npcs \subseteq inSight(p)
    /\ \A f \in DOMAIN rule.facts :
         d.facts[f].kind = "FIXED" => d.facts[f].value = rule.facts[f]

UndiscoverableClues(d) ==
    {c \in DOMAIN d.clues :
        \/ ClueSourcePhases(d, c) \cap Reachable(d) = {}
        \/ \A u \in Producers(d, c) : ~MayReveal(d, c, d.rules[u])}

UnbindableFacts(d) ==
    {f \in FactsOf(d, "DEFERRED") :
        \A u \in DOMAIN d.rules : \A effect \in EffectsOf(d.rules[u]) : f \notin DOMAIN effect.binds}

\* The facts no declared outcome updates. The report calls them unchangeable and leaves the
\* choices of decision windows out of account, which move facts too: it bounds no play.
UnchangeableFacts(d) ==
    {f \in FactsOf(d, "MUTABLE") :
        \A u \in DOMAIN d.rules : \A effect \in EffectsOf(d.rules[u]) : f \notin DOMAIN effect.facts}

UnreachableThresholds(d, clock) ==
    {t \in DOMAIN d.clocks[clock].thresholds :
        t > d.clocks[clock].initial /\ ~ClockSourced(d, clock)}

Analyze(d) ==
    [phases |-> Reachable(d),
     untraversable |-> UntraversableIds(d),
     endings |-> UnreachableEndings(d),
     cycles |-> CyclePhases(d),
     clues |-> UndiscoverableClues(d),
     unbindable |-> UnbindableFacts(d),
     unchangeable |-> UnchangeableFacts(d),
     thresholds |-> [c \in DOMAIN d.clocks |-> UnreachableThresholds(d, c)]]

=============================================================================
