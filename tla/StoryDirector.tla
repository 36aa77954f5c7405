---------------------------- MODULE StoryDirector ----------------------------
(***************************************************************************)
(* A session's story, from its first frame to its ending: the player lets  *)
(* it go on, answers the open decision, or acts freely and has the outcome *)
(* narrated.  A request that the policies admit becomes one advancement of *)
(* the engine, committed whole or refused whole.  The provider's choice    *)
(* among the allowed outcomes, the player's words and the profession are   *)
(* free; an active narrative job pins the version it was prepared from     *)
(* (NarrativeTurn), so its outcome meets the runtime it was authorized on. *)
(***************************************************************************)
EXTENDS StoryEngine, ScenarioAnalysis

CONSTANT Drafts     \* the scenario drafts offered to the loader, by identifier

ASSUME DraftsAreNumbered == \A s \in DOMAIN Drafts : Numbered(Drafts[s])
ASSUME DraftsAreDocuments == \A s \in DOMAIN Drafts : Documented(Drafts[s])

VARIABLES
    scenario,   \* the scenario of the session
    tags,       \* the profession tags of its character
    runtime,    \* the committed scenario runtime
    answer      \* what the last request was told

vars == <<scenario, tags, runtime, answer>>

\* The catalog holds the drafts that the loader admits.
Catalog == {s \in DOMAIN Drafts : ContentValid(Drafts[s])}
Reports == [s \in Catalog |-> Analyze(Drafts[s])]

D == Drafts[scenario]

Started(d) == OpenDecision(d, FromDefinition(d), {})

\* Creating the session: the first runtime is valid and its frame can be planned.
Init ==
    /\ scenario \in Catalog
    /\ tags \in SUBSET Drafts[scenario].tags
    /\ runtime = Started(Drafts[scenario])
    /\ RuntimeValid(Drafts[scenario], runtime)
    /\ Plannable(Drafts[scenario], runtime, tags)
    /\ answer = {}

-----------------------------------------------------------------------------
(* What a request may become                                               *)

Over == runtime.status # "ACTIVE"

ContinueAllowed == ~Over /\ runtime.decision = None

DecisionEvent(c) ==
    LET choice == D.windows[runtime.decision].choices[c]
        event == IF choice.event = None THEN Selected ELSE choice.event
    IN [PlainEvent(event, choice.action) EXCEPT
            !.facts = choice.facts, !.opens = choice.opens, !.to = choice.to,
            !.resolves = TRUE, !.decision = runtime.decision]

OutcomeEvent(u, result) ==
    LET effect == D.rules[u].effects[result] IN
    [PlainEvent(effect.event, effect.action) EXCEPT
        !.clues = effect.clues, !.binds = effect.binds, !.facts = effect.facts,
        !.opens = effect.opens, !.to = effect.to, !.resolves = effect.resolves,
        !.decision = IF effect.resolves THEN runtime.decision ELSE None,
        !.rule = u, !.result = result]

\* The rules the runtime and the frame leave open, whatever the player says.
Structural ==
    {u \in DOMAIN D.rules :
        LET rule == D.rules[u] IN
        /\ runtime.phase \in rule.phases
        /\ rule.decisions # {} => runtime.decision \in rule.decisions
        /\ rule.places # {} => runtime.at \in rule.places
        /\ runtime.decision # None =>
             /\ runtime.decision \in rule.decisions
             /\ \A effect \in EffectsOf(rule) : effect.resolves
        /\ rule.clues \subseteq runtime.clues
        /\ \A f \in DOMAIN rule.facts : FactValue(D, runtime, f) = rule.facts[f]
        /\ rule.npcs \subseteq D.locations[runtime.at].npcs
        /\ rule.once => u \notin {o.rule : o \in runtime.outcomes}}

\* What a submission can match: its action type, whether it has a target, and
\* any choice of the rules whose terms its words meet.
Matching(action, aimed, said) ==
    {u \in Structural :
        /\ action \in D.rules[u].actions
        /\ D.rules[u].words => u \in said
        /\ D.rules[u].target => aimed}

\* A mutex group exposes its matching rule of the highest priority.
AllowedOutcomes(action, aimed, said) ==
    LET matching == Matching(action, aimed, said) IN
    {u \in matching :
        \A v \in matching :
            D.rules[v].group = D.rules[u].group => D.rules[v].priority <= D.rules[u].priority}

ActionTypes == UNION {D.rules[u].actions : u \in DOMAIN D.rules}
Worded == {u \in Structural : D.rules[u].words}

-----------------------------------------------------------------------------
(* Requests                                                                *)

Told(why) == answer' = {why} /\ UNCHANGED runtime

Advance(e) ==
    LET refusals == Refusals(D, runtime, tags, e) IN
    IF refusals = {}
    THEN /\ runtime' = Candidate(D, runtime, e)
         /\ answer' = {"accepted"}
    ELSE /\ answer' = refusals
         /\ UNCHANGED runtime

Continue ==
    /\ \/ ContinueAllowed /\ Advance(NoEvent)
       \/ Over /\ Told("SCENARIO_ENDED")
       \/ ~Over /\ ~ContinueAllowed /\ Told("DECISION_RESPONSE_REQUIRED")
    /\ UNCHANGED <<scenario, tags>>

Choose(c) ==
    /\ ~Over
    /\ c \in Offered(D, runtime, tags)
    /\ Advance(DecisionEvent(c))
    /\ UNCHANGED <<scenario, tags>>

\* A public decision identifier is bound to the session, its version, the
\* content and the decision: one from an earlier frame names nothing now.
ChooseStale ==
    /\ Told(IF Over THEN "SCENARIO_ENDED" ELSE "STALE_DECISION")
    /\ UNCHANGED <<scenario, tags>>

Act(action, aimed, said) ==
    /\ \/ Over /\ Told("SCENARIO_ENDED")
       \/ ~Over /\ AllowedOutcomes(action, aimed, said) = {} /\ Told("NARRATIVE_OUTCOME_UNAVAILABLE")
       \/ ~Over /\ \E u \in AllowedOutcomes(action, aimed, said) :
                     \E result \in DOMAIN D.rules[u].effects : Advance(OutcomeEvent(u, result))
    /\ UNCHANGED <<scenario, tags>>

Next ==
    \/ Continue
    \/ \E c \in Choices(D) : Choose(c)
    \/ ChooseStale
    \/ \E action \in ActionTypes, aimed \in BOOLEAN, said \in SUBSET Worded : Act(action, aimed, said)

Spec == Init /\ [][Next]_vars

-----------------------------------------------------------------------------
(* Properties                                                              *)

\* The committed runtime has its shape and stays inside its content: the beat
\* within the phase, every clock within its bounds with exactly the thresholds
\* up to its value fired, exactly the groups with enough clues complete
\* (ScenarioRuntimeState.validate_against and the fields of the runtime).
TypeOK ==
    /\ scenario \in Catalog /\ tags \subseteq D.tags
    /\ runtime.phase \in DOMAIN D.phases
    /\ runtime.beat \in 0..D.phases[runtime.phase].max
    /\ runtime.at \in runtime.open /\ runtime.open \subseteq DOMAIN D.locations
    /\ runtime.clues \subseteq DOMAIN D.clues
    /\ runtime.groups = Complete(D, runtime.clues)
    /\ DOMAIN runtime.clocks = DOMAIN D.clocks
    /\ \A c \in DOMAIN D.clocks :
         /\ runtime.clocks[c].value \in D.clocks[c].min..D.clocks[c].max
         /\ runtime.clocks[c].fired = FiredAt(D.clocks[c], runtime.clocks[c].value)
    /\ runtime.decision \in DOMAIN D.windows \cup {None}
    /\ Span(runtime.made) \subseteq DOMAIN D.windows
    /\ runtime.status \in {"ACTIVE", "RESOLVED", "FAILED"}

\* What the engine, rather than a policy, says no with.
EngineReasons == EventReasons \cup Turned \cup Checked \cup {"unplannable"}

\* The content, the policies and the engine agree: an event that the policies
\* let through is refused, if at all, because the story has no way on from
\* there, never because the engine finds the event unauthorized, its destination
\* closed, its fact immovable, its own candidate invalid, or no frame for it.
RefusalsAreDeadEnds == answer \cap EngineReasons \subseteq DeadEnds

\* Every committed state can be shown again: no eligible decision is missing
\* from it, although windows open with the events of a turn and are looked for
\* without them, and an open decision always has a choice for this character.
ShownStateIsPlannable == Plannable(D, runtime, tags)

\* What the authors wrote keeps what the engine takes for granted: neither does it refuse
\* an admitted event where the story has a way on, nor commit what it cannot show.
ContentIsPlayable == RefusalsAreDeadEnds /\ ShownStateIsPlannable

\* The transitions that wait for the beat after the last one of their phase.
WaitsPastLast(d, p, t) ==
    LET when == t.when \o d.phases[t.target].entry IN
    \E k \in DOMAIN when :
        when[k].rule = "PHASE_BEAT_AT_LEAST" /\ when[k].value = d.phases[p].max + 1

PastLast(d) ==
    UNION {{t.id : t \in {u \in Span(d.phases[p].transitions) : WaitsPastLast(d, p, u)}} :
             p \in DOMAIN d.phases}

\* What the static analysis rules out never happens: no unreachable phase is
\* visited, no untraversable transition taken, no unreachable ending, clue or
\* threshold got, no unbindable fact bound, and a phase is only visited twice
\* if it lies on a reported cycle.  A transition that waits for a beat beyond
\* the last one of its phase is left out: the engine counts the beat before it
\* tries the transitions, so that it does take it.
AnalysisIsSound ==
    LET report == Reports[scenario] IN
    /\ \A p \in DOMAIN D.phases : runtime.visits[p] >= 1 => p \in report.phases
    /\ \A p \in DOMAIN D.phases : runtime.visits[p] >= 2 => p \in report.cycles
    /\ \A t \in DOMAIN runtime.uses :
         runtime.uses[t] >= 1 => t \notin report.untraversable \ PastLast(D)
    /\ runtime.ending \notin report.endings
    /\ runtime.clues \cap report.clues = {}
    /\ \A f \in report.unbindable : runtime.bound[f] = None
    /\ \A c \in DOMAIN D.clocks : runtime.clocks[c].fired \cap report.thresholds[c] = {}

\* What is known, open, bound, completed, narrated or decided stays so, no clock runs
\* backwards or forgets a threshold, a phase is left only for another visit, and an ended
\* story is not moved again.
Progress ==
    /\ Over => UNCHANGED runtime
    /\ runtime.clues \subseteq runtime'.clues
    /\ runtime.groups \subseteq runtime'.groups
    /\ runtime.open \subseteq runtime'.open
    /\ runtime.outcomes \subseteq runtime'.outcomes
    /\ \A f \in DOMAIN runtime.bound :
         runtime.bound[f] # None => runtime'.bound[f] = runtime.bound[f]
    /\ \A c \in DOMAIN runtime.clocks :
         /\ runtime.clocks[c].value <= runtime'.clocks[c].value
         /\ runtime.clocks[c].fired \subseteq runtime'.clocks[c].fired
    /\ Len(runtime.made) <= Len(runtime'.made)
    /\ \A k \in 1..Len(runtime.made) : runtime'.made[k] = runtime.made[k]
    /\ runtime'.phase # runtime.phase => runtime'.visits[runtime'.phase] > runtime.visits[runtime'.phase]

\* A story never goes back.
ProgressIsKept == [][Progress]_vars

\* An open decision has an answer that the engine accepts (the affordance
\* "Submit one displayed choice" of the public client contract).
DecisionIsAnswerable ==
    runtime.decision # None =>
        \E c \in Offered(D, runtime, tags) : Refusals(D, runtime, tags, DecisionEvent(c)) = {}

=============================================================================
