---------------------------- MODULE ScenarioDrafts ----------------------------
(* The scenarios of config/scenarios/ as drafts, texts left out, and a few drafts *)
(* of the same form that hold what those do not use.                              *)
EXTENDS ScenarioContent, TLC

S == INSTANCE SequencesExt

Phase(visible, actions, min, max) ==
    [visible |-> visible, actions |-> actions, min |-> min, max |-> max, terminal |-> FALSE,
     rapid |-> FALSE, required |-> TRUE, windows |-> <<>>, auto |-> <<>>, cost |-> <<>>,
     transitions |-> <<>>, entry |-> <<>>, maxVisits |-> Unlimited, clues |-> {}]
Terminal(visible, actions) == [Phase(visible, actions, 0, 0) EXCEPT !.terminal = TRUE]
Every(actions, cost) == [a \in actions |-> cost]

To(id, target, trigger, when) ==
    [id |-> id, target |-> target, trigger |-> trigger, when |-> when, maxUses |-> Unlimited]
Ending(id, status, when) == [id |-> id, status |-> status, when |-> when]
Place(open, npcs) == [open |-> open, npcs |-> npcs]
Fixed(value) == [kind |-> "FIXED", value |-> value, candidates |-> {}, moves |-> {}]
Deferred(candidates) ==
    [kind |-> "DEFERRED", value |-> None, candidates |-> candidates, moves |-> {}]
Mutable(value, moves) == [kind |-> "MUTABLE", value |-> value, candidates |-> {}, moves |-> moves]
Move(from, to, event) == [from |-> from, to |-> to, event |-> event]
Clue(events, phases) == [events |-> events, phases |-> phases, tags |-> {}]
Group(clues, need, event) == [clues |-> clues, need |-> need, event |-> event]
Clock(max, thresholds) == [min |-> 0, max |-> max, initial |-> 0, thresholds |-> thresholds]

Choice(action) ==
    [action |-> action, event |-> None, facts |-> <<>>, opens |-> {}, to |-> None,
     targets |-> {}, tags |-> {}]
Window(earliest, latest, choices) ==
    [earliest |-> earliest, latest |-> latest, once |-> TRUE, when |-> <<>>, choices |-> choices]

Effect(event, action) ==
    [event |-> event, action |-> action, clues |-> {}, binds |-> <<>>, facts |-> <<>>,
     opens |-> {}, to |-> None, resolves |-> FALSE, acks |-> {}]
Rule(phase, actions, priority, effects) ==
    [phases |-> {phase}, actions |-> actions, words |-> FALSE, target |-> FALSE, npcs |-> {},
     facts |-> <<>>, clues |-> {}, decisions |-> {}, places |-> {}, once |-> TRUE,
     priority |-> priority, group |-> phase, effects |-> effects]
NoEffect(phase, actions, event, action) ==
    [Rule(phase, actions, 0, "NO_EFFECT" :> Effect(event, action)) EXCEPT !.once = FALSE]

Grouped(g) == Cond("CLUE_GROUP_COMPLETE", g, None)
Event(e) == Cond("EVENT_OCCURRED", e, None)
Fact(f, value) == Cond("FACT_EQUALS", f, value)
Clocked(c, value) == Cond("CLOCK_AT_LEAST", c, value)
Count(rule, value) == Cond(rule, None, value)

-----------------------------------------------------------------------------
(* death_certificate_v1.json.  Its four professions are one here: the clues *)
(* that ask for them have no producer.                                      *)

DeathPhases ==
    LET elapsed == "deadline" :> 1 IN
    "arrival_locked" :>
        [Phase(<<"intake_room">>, {"respond", "physical_response", "observe"}, 0, 0) EXCEPT
            !.windows = <<"immediate_survival">>,
            !.cost = Every({"respond", "physical_response", "observe"}, "security_alert" :> 1),
            !.transitions = <<To("arrival_to_dispute", "life_disputed", "DECISION",
                                 <<Count("DECISIONS_AT_LEAST", 1)>>)>>,
            !.clues = {"vital_response"}]
    @@ "life_disputed" :>
        [Phase(<<"intake_room", "service_corridor">>,
               {"observe", "talk", "investigate", "move"}, 3, 4) EXCEPT
            !.windows = <<"early_strategy">>,
            !.auto = elapsed @@ "disposal_protocol" :> 1,
            !.cost = "investigate" :> ("disposal_protocol" :> 1),
            !.transitions = <<To("dispute_to_escape", "disposal_escape", "DECISION",
                                 <<Count("DECISIONS_AT_LEAST", 2)>>)>>,
            !.clues = {"vital_response", "coherent_response", "clinical_contradiction"}]
    @@ "disposal_escape" :>
        [Phase(<<"service_corridor">>, {"move", "observe"}, 2, 2) EXCEPT
            !.auto = elapsed, !.cost = Every({"move", "observe"}, elapsed),
            !.transitions = <<To("escape_to_investigation", "investigation", "AUTOMATIC",
                                 <<Count("PHASE_BEAT_AT_LEAST", 2)>>)>>]
    @@ "investigation" :>
        [Phase(<<"service_corridor", "records_room", "observation_level">>,
               {"observe", "talk", "investigate", "move", "present_evidence"}, 1, 9) EXCEPT
            !.windows = <<"route_one", "route_two", "route_three">>,
            !.auto = elapsed,
            !.cost = "investigate" :> (elapsed @@ "patient_stability" :> 1) @@ "move" :> elapsed,
            !.transitions = <<To("investigation_to_truth", "self_fulfilling_truth", "VERIFIED_EVENT",
                                 <<Grouped("record_predates"), Grouped("prediction_causes"),
                                   Grouped("patient_alive")>>)>>,
            !.clues = {"record_timestamp", "audit_sequence", "system_ordering", "protocol_feedback",
                       "comparison_case", "evidence_chain", "patient_vitals", "monitor_history",
                       "deescalated_contact"}]
    @@ "self_fulfilling_truth" :>
        [Phase(<<"records_room", "observation_level">>,
               {"observe", "present_evidence", "talk"}, 2, 2) EXCEPT
            !.auto = elapsed, !.cost = Every({"observe", "present_evidence", "talk"}, elapsed),
            !.transitions = <<To("truth_to_core", "core_conflict", "AUTOMATIC",
                                 <<Grouped("prediction_causes")>>)>>]
    @@ "core_conflict" :>
        [Phase(<<"control_room">>,
               {"commit", "talk", "present_evidence", "physical_response"}, 0, 4) EXCEPT
            !.windows = <<"core_one", "core_two", "core_three", "core_four">>, !.rapid = TRUE,
            !.transitions = <<To("core_to_resolution", "resolution", "VERIFIED_EVENT",
                                 <<Event("core.conflict.resolved")>>)>>]
    @@ "resolution" :> Terminal(<<"control_room">>, {"observe"})

DeathClues ==
    LET lead(events) == Clue(events, {"investigation"})
        professional(clue) == [clue EXCEPT !.tags = {"PROFESSION"}]
    IN
    "vital_response" :> Clue({"vitals.verified", "clinical.reviewed"},
                             {"arrival_locked", "life_disputed"})
    @@ "coherent_response" :> Clue({"response.verified", "clinical.reviewed"}, {"life_disputed"})
    @@ "clinical_contradiction" :> professional(Clue({"clinical.reviewed"}, {"life_disputed"}))
    @@ "record_timestamp" :> lead({"record.timestamp_verified", "record.route.verified"})
    @@ "audit_sequence" :> lead({"record.audit_verified", "audit.route.verified"})
    @@ "system_ordering" :> professional(lead({"record.system_analyzed"}))
    @@ "protocol_feedback" :> lead({"protocol.feedback_verified", "record.route.verified"})
    @@ "comparison_case" :> lead({"case.compared", "audit.route.verified"})
    @@ "evidence_chain" :> professional(lead({"evidence.chain_verified"}))
    @@ "patient_vitals" :> lead({"patient.vitals_verified", "patient.route.verified"})
    @@ "monitor_history" :> lead({"patient.history_verified", "patient.route.verified"})
    @@ "deescalated_contact" :> professional(lead({"patient.contact_verified"}))

DeathWindows ==
    LET both(action, a, b) == [c \in {a, b} |-> Choice(action)]
        accessed == [Choice("investigate") EXCEPT
                        !.event = "investigation.records.accessed",
                        !.opens = {"records_room"}, !.to = "records_room"]
        final == [Choice("commit") EXCEPT !.event = "core.conflict.resolved"]
    IN
    "immediate_survival" :>
        Window(0, 0, both("physical_response", "move_fingers", "interfere_oximeter")
                     @@ "adjust_breathing" :> Choice("respond")
                     @@ "observe_quietly" :> Choice("observe"))
    @@ "early_strategy" :>
        Window(3, 4, "prove_vitals" :> Choice("investigate") @@ "seek_records" :> Choice("move"))
    @@ "route_one" :> Window(1, 2, "inspect_archive" :> accessed @@ "trace_protocol" :> accessed)
    @@ "route_two" :> Window(4, 5, both("investigate", "open_observation", "secure_audit"))
    @@ "route_three" :>
        [Window(8, 9, "present_causation" :> Choice("present_evidence")
                      @@ "test_feedback" :> Choice("investigate")) EXCEPT
            !.when = <<Grouped("prediction_causes")>>]
    @@ "core_one" :> Window(0, 0, both("commit", "pause_protocol", "protect_patient"))
    @@ "core_two" :> Window(1, 1, both("talk", "ask_coordinator", "ask_custodian"))
    @@ "core_three" :> Window(2, 2, both("commit", "public_override", "controlled_audit"))
    @@ "core_four" :>
        Window(3, 3, "final_suspend" :> [final EXCEPT !.facts = "disposal_active" :> "no"]
                     @@ "final_disclose" :> final)

DeathRules ==
    LET anyone == {"TALK", "CUSTOM", "OBSERVE", "EXPLORE"}
        looking == {"OBSERVE", "EXPLORE"}
        resolving(effect) == [effect EXCEPT !.resolves = TRUE]
        opening(rule) == [rule EXCEPT !.decisions = {"immediate_survival"}]
        vitals == [resolving(Effect("vitals.verified", "physical_response")) EXCEPT
                      !.clues = {"vital_response"}, !.acks = {"coordinator"}]
        reviewed == [Effect("clinical.reviewed", "investigate") EXCEPT
                        !.clues = {"vital_response", "coherent_response"}, !.acks = {"coordinator"}]
        route(event, clues) == [Effect(event, "investigate") EXCEPT !.clues = clues]
        audit == [route("audit.route.verified", {"audit_sequence", "comparison_case"}) EXCEPT
                     !.opens = {"observation_level"}, !.to = "observation_level"]
        patient == [route("patient.route.verified", {"patient_vitals", "monitor_history"}) EXCEPT
                       !.opens = {"control_room"}]
        lead(place, npc, priority, effect) ==
            [Rule("investigation", looking, priority, "SUCCESS" :> effect) EXCEPT
                !.places = {place}, !.npcs = {npc}]
    IN
    "purposeful_life_signal" :>
        opening([Rule("arrival_locked", {"CUSTOM"}, 300,
                     "SUCCESS" :> vitals
                     @@ "AMBIGUOUS" :> resolving(Effect("vitals.ambiguous", "physical_response"))
                     @@ "FAILURE" :> resolving(Effect("vitals.failed", "physical_response"))) EXCEPT
                    !.words = TRUE, !.npcs = {"coordinator"}, !.facts = "player_conscious" :> "yes"])
    @@ "quiet_observation" :>
        opening(Rule("arrival_locked", {"OBSERVE"}, 200,
                     "AMBIGUOUS" :> resolving(Effect("observation.completed", "observe"))
                     @@ "NO_EFFECT" :> resolving(Effect("observation.no_effect", "observe"))))
    @@ "constrained_custom" :>
        opening([Rule("arrival_locked", {"CUSTOM"}, 100,
                     "NO_EFFECT" :> resolving(Effect("custom.no_effect", "respond"))) EXCEPT
                    !.once = FALSE])
    @@ "clinical_recheck" :>
        [Rule("life_disputed", anyone, 290, "SUCCESS" :> reviewed) EXCEPT
            !.words = TRUE, !.npcs = {"coordinator"}]
    @@ "dispute_no_effect" :> NoEffect("life_disputed", anyone, "dispute.no_effect", "observe")
    @@ "escape_no_effect" :>
        NoEffect("disposal_escape", {"MOVE", "OBSERVE", "CUSTOM", "EXPLORE"},
                 "escape.no_effect", "observe")
    @@ "records_route" :> lead("records_room", "custodian", 280,
           route("record.route.verified", {"record_timestamp", "protocol_feedback"}))
    @@ "audit_route" :> lead("records_room", "custodian", 270, audit)
    @@ "patient_route" :> lead("observation_level", "patient", 260, patient)
    @@ "investigation_no_effect" :>
        NoEffect("investigation", anyone, "investigation.no_effect", "investigate")
    @@ "truth_no_effect" :> NoEffect("self_fulfilling_truth", anyone, "truth.no_effect", "observe")

DeathCertificate ==
    LET alive == <<Grouped("player_is_alive"), Count("NPC_ALIVE_ACKNOWLEDGED", 1)>> IN
    [initialPhase |-> "arrival_locked", initialPlace |-> "intake_room",
     tags |-> {"PROFESSION"}, npcs |-> {"coordinator", "custodian", "patient"},
     items |-> {"signed_record", "audit_token"},
     phases |-> DeathPhases,
     locations |-> "intake_room" :> Place(TRUE, {"coordinator"})
                   @@ "service_corridor" :> Place(TRUE, {"coordinator"})
                   @@ "records_room" :> Place(FALSE, {"custodian"})
                   @@ "observation_level" :> Place(FALSE, {"patient"})
                   @@ "control_room" :> Place(FALSE, {"coordinator", "custodian"}),
     facts |-> "player_conscious" :> Fixed("yes")
               @@ "audit_way" :> Deferred({"terminal", "paper", "token"})
               @@ "disposal_active" :> Mutable("yes", {Move("yes", "no", "protocol.suspended"),
                                                       Move("yes", "no", "core.conflict.resolved")})
               @@ "security_posture" :>
                     Mutable("routine", {Move("routine", "alert", "security.escalated"),
                                         Move("alert", "contained", "security.deescalated")}),
     clues |-> DeathClues,
     groups |-> "player_is_alive" :>
                    Group({"vital_response", "coherent_response", "clinical_contradiction"}, 2,
                          "player_alive.completed")
                @@ "record_predates" :>
                    Group({"record_timestamp", "audit_sequence", "system_ordering"}, 2,
                          "record_order.completed")
                @@ "prediction_causes" :>
                    Group({"protocol_feedback", "comparison_case", "evidence_chain"}, 2,
                          "causation.completed")
                @@ "patient_alive" :>
                    Group({"patient_vitals", "monitor_history", "deescalated_contact"}, 2,
                          "patient_alive.completed"),
     clocks |-> "disposal_protocol" :> Clock(6, 3 :> "disposal.accelerated" @@ 6 :> "disposal.completed")
                @@ "deadline" :> Clock(13, 8 :> "deadline.critical" @@ 13 :> "deadline.reached")
                @@ "security_alert" :> Clock(5, 3 :> "security.high" @@ 5 :> "security.lockdown")
                @@ "patient_stability" :> Clock(6, 4 :> "stability.critical" @@ 6 :> "stability.failed"),
     windows |-> DeathWindows,
     endings |-> <<Ending("deadline_reached", "FAILED", <<Clocked("deadline", 13)>>),
                   Ending("protocol_broken", "RESOLVED", <<Fact("disposal_active", "no")>> \o alive),
                   Ending("record_challenged", "RESOLVED", <<Event("core.conflict.resolved")>> \o alive)>>,
     rules |-> DeathRules]

-----------------------------------------------------------------------------
(* receipt_archive_v1.json and undelivered_receipt_v1.json                  *)

ReceiptArchive ==
    LET looking == {"observe", "custom"}
        sealed == "record.sealed"
        deferred == "review.deferred"
        seen == [Effect("entry.observed", "observe") EXCEPT !.clues = {"unresolved_entry"}]
    IN
    [initialPhase |-> "arrival", initialPlace |-> "audit_desk",
     tags |-> {}, npcs |-> {}, items |-> {},
     phases |->
        "arrival" :> [Phase(<<"audit_desk">>, looking, 0, 40) EXCEPT
            !.clues = {"unresolved_entry"},
            !.transitions = <<To("observed", "decision", "VERIFIED_EVENT", <<Grouped("evidence")>>)>>]
        @@ "decision" :> [Phase(<<"audit_desk">>, looking \cup {"commit"}, 0, 40) EXCEPT
            !.windows = <<"record">>,
            !.transitions = <<To("0", "resolution", "VERIFIED_EVENT", <<Event(sealed)>>),
                              To("1", "resolution", "VERIFIED_EVENT", <<Event(deferred)>>)>>]
        @@ "resolution" :> Terminal(<<"audit_desk">>, looking),
     locations |-> "audit_desk" :> Place(TRUE, {}),
     facts |-> "hold_effective" :> Fixed("yes")
               @@ "unresolved_sealed" :> Mutable("no", {Move("no", "yes", sealed)}),
     clues |-> "unresolved_entry" :> Clue({"entry.observed"}, {"arrival"}),
     groups |-> "evidence" :> Group({"unresolved_entry"}, 1, "evidence.complete"),
     clocks |-> <<>>,
     windows |-> "record" :> [Window(0, 0,
            "seal" :> [Choice("commit") EXCEPT !.event = sealed,
                                               !.facts = "unresolved_sealed" :> "yes"]
            @@ "defer" :> [Choice("commit") EXCEPT !.event = deferred]) EXCEPT
        !.when = <<Grouped("evidence")>>],
     endings |-> <<Ending("sealed", "RESOLVED", <<Event(sealed), Fact("unresolved_sealed", "yes")>>),
                   Ending("deferred", "FAILED", <<Event(deferred)>>)>>,
     rules |-> "observe" :> [Rule("arrival", {"OBSERVE"}, 10, "SUCCESS" :> seen) EXCEPT
                                !.places = {"audit_desk"}, !.group = "action"]
               @@ "no_effect" :> [NoEffect("arrival", {"OBSERVE", "CUSTOM"}, "no_effect", "custom") EXCEPT
                                    !.phases = {"arrival", "decision"}, !.group = "action"]]

UndeliveredReceipt ==
    LET acting == {"observe", "talk", "custom"}
        working == {"arrival", "verification", "dispatch_decision"}
        timed(phase) == [phase EXCEPT !.cost = Every(acting, "dispatch_deadline" :> 1)]
        counter == <<"counter">>
        held == "dispatch.held"
        released == "dispatch.released"
        gap == [Effect("gap.verified", "observe") EXCEPT
                   !.clues = {"receipt_gap"}, !.opens = {"counter"}, !.to = "counter"]
        schedule == [Effect("schedule.verified", "talk") EXCEPT !.clues = {"dispatch_schedule"}]
    IN
    [initialPhase |-> "arrival", initialPlace |-> "desk",
     tags |-> {}, npcs |-> {"clerk"}, items |-> {},
     phases |->
        "arrival" :> [timed(Phase(<<"desk", "counter">>, acting, 0, 40)) EXCEPT
            !.clues = {"receipt_gap"},
            !.transitions = <<To("arrived", "verification", "VERIFIED_EVENT",
                                 <<Event("gap.verified")>>)>>]
        @@ "verification" :> [timed(Phase(counter, acting, 0, 40)) EXCEPT
            !.clues = {"dispatch_schedule"},
            !.transitions = <<To("verified", "dispatch_decision", "VERIFIED_EVENT",
                                 <<Grouped("dispatch_evidence")>>)>>]
        @@ "dispatch_decision" :> [timed(Phase(counter, acting \cup {"commit"}, 0, 40)) EXCEPT
            !.windows = <<"dispatch">>,
            !.transitions = <<To("held", "resolution", "VERIFIED_EVENT", <<Event(held)>>),
                              To("released", "resolution", "VERIFIED_EVENT", <<Event(released)>>)>>]
        @@ "resolution" :> Terminal(counter, acting),
     locations |-> "desk" :> Place(TRUE, {}) @@ "counter" :> Place(FALSE, {"clerk"}),
     facts |-> "dispatch_held" :> Mutable("no", {Move("no", "yes", held)}),
     clues |-> "receipt_gap" :> Clue({"gap.verified"}, {"arrival"})
               @@ "dispatch_schedule" :> Clue({"schedule.verified"}, {"verification"}),
     groups |-> "dispatch_evidence" :>
                    Group({"receipt_gap", "dispatch_schedule"}, 2, "evidence.complete"),
     clocks |-> "dispatch_deadline" :> Clock(40, 40 :> "deadline.reached"),
     windows |-> "dispatch" :> [Window(0, 0,
            "hold" :> [Choice("commit") EXCEPT !.event = held, !.facts = "dispatch_held" :> "yes"]
            @@ "release" :> [Choice("commit") EXCEPT !.event = released]) EXCEPT
        !.when = <<Grouped("dispatch_evidence")>>],
     endings |-> <<Ending("deadline", "FAILED", <<Clocked("dispatch_deadline", 40)>>),
                   Ending("receipt_held", "RESOLVED", <<Event(held), Fact("dispatch_held", "yes")>>),
                   Ending("dispatch_closed", "FAILED", <<Event(released)>>)>>,
     rules |-> "gap" :> [Rule("arrival", {"OBSERVE"}, 10, "SUCCESS" :> gap) EXCEPT
                            !.places = {"desk"}, !.group = "action"]
               @@ "schedule" :> [Rule("verification", {"TALK"}, 20, "SUCCESS" :> schedule) EXCEPT
                                    !.target = TRUE, !.npcs = {"clerk"}, !.places = {"counter"},
                                    !.group = "action"]
               @@ "no_effect" :> [NoEffect("arrival", {"OBSERVE", "CUSTOM"}, "no_effect", "custom") EXCEPT
                                    !.phases = working, !.group = "action"]]

-----------------------------------------------------------------------------
(* fog_patrol_v1.json, fog_station_v1.json and wind_gate_v1.json: one fact  *)
(* tells how far the encounter is, each of its values but the last has a    *)
(* window, each choice moves it, and each transition waits for a value.     *)

Step(from, to, place) == [from |-> from, to |-> to, place |-> place]

Encounter(places, npc, steps, at(_), leads, endings) ==
    LET values == UNION {{steps[c].from, steps[c].to} : c \in DOMAIN steps}
        lasting == {steps[c].from : c \in DOMAIN steps}
        phases == {at(v) : v \in values}
        event(c) == "event." \o c
        named(v) == "window." \o v
        choice(c) == [Choice("choose") EXCEPT
            !.event = event(c), !.facts = "progress" :> steps[c].to,
            !.to = steps[c].place, !.targets = {npc}]
        window(v) == [Window(0, 3, [c \in {x \in DOMAIN steps : steps[x].from = v} |-> choice(c)])
                        EXCEPT !.when = <<Fact("progress", v)>>]
        transition(p, v) == [To(p \o ".to." \o v, at(v), "DECISION", <<Fact("progress", v)>>)
                                EXCEPT !.maxUses = 1]
        live(p) == [Phase(places, {"choose"}, 0, 3) EXCEPT
            !.required = FALSE, !.rapid = TRUE, !.cost = Every({"choose"}, <<>>),
            !.windows = S!SetToSeq({named(v) : v \in {x \in lasting : at(x) = p}}),
            !.transitions = S!SetToSeq({transition(p, v) : v \in leads[p]})]
    IN
    [initialPhase |-> at("arrival"), initialPlace |-> places[1],
     tags |-> {}, npcs |-> {npc}, items |-> {},
     phases |-> [p \in phases |-> IF p \in DOMAIN leads THEN live(p)
                                  ELSE Terminal(places, {"choose"})],
     locations |-> [l \in Span(places) |-> Place(TRUE, {npc})],
     facts |-> "progress" :> Mutable("arrival",
                  {Move(steps[c].from, steps[c].to, event(c)) : c \in DOMAIN steps}),
     clues |-> <<>>, groups |-> <<>>, clocks |-> <<>>,
     windows |-> [w \in {named(v) : v \in lasting} |-> window(CHOOSE v \in lasting : named(v) = w)],
     endings |-> S!SetToSeq({Ending("ending." \o v, endings[v], <<Fact("progress", v)>>) : v \in DOMAIN endings}),
     rules |-> <<>>]

\* Without a phase of its own for a value, the encounter's phase is the value.
EachValue(v) == v
LeadsOf(steps) ==
    [v \in {steps[c].from : c \in DOMAIN steps} |->
        {steps[c].to : c \in {x \in DOMAIN steps : steps[x].from = v}}]

FogPatrol ==
    LET steps == [meet |-> Step("arrival", "met", "path"),
                  help |-> Step("met", "secured", "path"),
                  bypass |-> Step("met", "passed", "path"),
                  farewell_help |-> Step("secured", "helped", "path"),
                  farewell_bypass |-> Step("passed", "bypassed", "path")]
    IN Encounter(<<"path">>, "cen_zhou", steps, EachValue, LeadsOf(steps),
                 [helped |-> "RESOLVED", bypassed |-> "RESOLVED"])

\* What is done during the stay, in any order, before departing: review, story
\* and records are the bits 1, 2 and 4 of the number of the stay.
FogStation ==
    LET stay(n) == "stay" \o ToString(n)
        bits == {1, 2, 4}
        numbered(c, n) == c \o ToString(n)
        first == [meet |-> Step("arrival", "met", "interior"),
                  cooperate |-> Step("met", "cooperated", "interior"),
                  leave_now |-> Step("cooperated", "immediate", "platform"),
                  delay |-> Step("cooperated", "work", "interior"),
                  finish_work |-> Step("work", "invitation", "interior"),
                  decline |-> Step("invitation", "declined", "platform"),
                  enter |-> Step("invitation", stay(0), "interior"),
                  outside |-> Step("departed", "gone", "platform"),
                  finish |-> Step("gone", "finished", "platform"),
                  farewell |-> Step("gone", "reunited", "platform")]
        during == {<<n, b>> \in (0..7) \X bits : (n \div b) % 2 = 0}
        doing(s) == numbered(numbered("do", s[2]) \o "_", s[1])
        leaving(n) == numbered("depart_", n)
        done(c) == CHOOSE s \in during : doing(s) = c
        left(c) == CHOOSE n \in 0..7 : leaving(n) = c
        steps == first
                  @@ [c \in {doing(s) : s \in during} |->
                        Step(stay(done(c)[1]), stay(done(c)[1] + done(c)[2]), "interior")]
                  @@ [c \in {leaving(n) : n \in 0..7} |-> Step(stay(left(c)), "departed", "platform")]
    IN Encounter(<<"platform", "interior">>, "cen_zhou", steps, EachValue, LeadsOf(steps),
                 [immediate |-> "RESOLVED", declined |-> "RESOLVED", finished |-> "RESOLVED",
                  reunited |-> "RESOLVED"])

PhaseOfValue(v) ==
    CASE v = "arrival" -> "reception"
      [] v \in {"steady", "unsteady"} -> "transfer"
      [] v = "door" -> "exit"
      [] OTHER -> "resolution"

WindGate ==
    LET steps == [initial_steady |-> Step("arrival", "steady", "platform"),
                  initial_unsteady |-> Step("arrival", "unsteady", "midpoint"),
                  initial_withdrawn |-> Step("arrival", "withdrawn", "refuge"),
                  steady_door |-> Step("steady", "door", "door_place"),
                  steady_withdrawn |-> Step("steady", "withdrawn", "refuge"),
                  unsteady_door |-> Step("unsteady", "door", "door_place"),
                  unsteady_rush |-> Step("unsteady", "withdrawn", "refuge"),
                  unsteady_withdrawn |-> Step("unsteady", "withdrawn", "refuge"),
                  door_success |-> Step("door", "success", "waiting"),
                  door_withdrawn |-> Step("door", "withdrawn", "refuge")]
    IN Encounter(<<"platform", "midpoint", "door_place", "refuge", "waiting">>, "companion", steps,
                 PhaseOfValue,
                 [reception |-> {"steady", "unsteady", "success", "withdrawn"},
                  transfer |-> {"door", "success", "withdrawn"},
                  exit |-> {"success", "withdrawn"}],
                 [success |-> "RESOLVED", withdrawn |-> "FAILED"])

-----------------------------------------------------------------------------
(* Drafts of our own                                                        *)

\* A loop of two phases, left with a bound fact; a phase, a clock, a clue and an
\* ending beyond reach; a window that comes back; a choice for one profession.
Annex ==
    LET bind == [Effect("route.found", "look") EXCEPT !.binds = "route" :> "north",
                                                     !.resolves = TRUE]
        note == [Effect("hidden.found", "look") EXCEPT !.clues = {"hidden"}]
        alarm == [Effect("alarm.raised", "look") EXCEPT !.facts = "mood" :> "tense"]
    IN
    [initialPhase |-> "lobby", initialPlace |-> "hall",
     tags |-> {"MEDIC"}, npcs |-> {"guide"}, items |-> {},
     phases |->
        "lobby" :> [Phase(<<"hall">>, {"look", "choose"}, 0, 2) EXCEPT
            !.windows = <<"entrance">>, !.maxVisits = 2,
            !.transitions = <<To("leave", "end", "VERIFIED_EVENT", <<Fact("route", "north")>>),
                              To("enter", "archive", "DECISION", <<Event(Selected)>>)>>]
        @@ "archive" :> [Phase(<<"vault", "hall">>, {"look", "choose"}, 1, 2) EXCEPT
            !.windows = <<"again">>, !.auto = "dust" :> 2,
            !.transitions = <<To("never", "end", "AUTOMATIC", <<Count("PHASE_BEAT_AT_LEAST", 9)>>),
                              [To("back", "lobby", "AUTOMATIC", <<Count("PHASE_BEAT_AT_LEAST", 3)>>)
                                  EXCEPT !.maxUses = 2]>>]
        @@ "sealed" :> [Phase(<<"vault">>, {"look"}, 0, 1) EXCEPT
            !.required = FALSE, !.auto = "flood" :> 1, !.clues = {"hidden"},
            !.transitions = <<To("drown", "end", "AUTOMATIC", <<Clocked("flood", 1)>>)>>]
        @@ "end" :> Terminal(<<"hall">>, {"look"}),
     locations |-> "hall" :> Place(TRUE, {"guide"}) @@ "vault" :> Place(FALSE, {}),
     facts |-> "route" :> Deferred({"north", "south"}) @@ "heir" :> Deferred({"ann"})
               @@ "mood" :> Mutable("calm", {Move("calm", "tense", "alarm.raised")}),
     clues |-> "hidden" :> Clue({"hidden.found"}, {"sealed"}),
     groups |-> "secret" :> Group({"hidden"}, 1, "secret.known"),
     clocks |-> "dust" :> Clock(3, 3 :> "dust.settled") @@ "flood" :> Clock(2, 1 :> "flood.rising"),
     windows |->
        "entrance" :> [Window(0, 1, "open" :> [Choice("choose") EXCEPT !.targets = {"guide"}]
                                    @@ "heal" :> [Choice("look") EXCEPT !.tags = {"MEDIC"}]) EXCEPT
                        !.once = FALSE]
        @@ "again" :> [Window(1, 2, "wait" :> Choice("look")
                                    @@ "unlock" :> [Choice("choose") EXCEPT
                                          !.event = "vault.opened", !.opens = {"vault"}, !.to = "vault"]) EXCEPT
                        !.once = FALSE, !.when = <<Cond("CLOCK_AT_MOST", "dust", 2)>>],
     endings |-> <<Ending("buried", "FAILED", <<Clocked("flood", 1)>>),
                   Ending("known", "RESOLVED", <<Grouped("secret")>>),
                   Ending("home", "RESOLVED", <<Cond("PHASE_VISIT_AT_LEAST", "end", 1)>>)>>,
     rules |-> "find" :> [Rule("lobby", {"OBSERVE"}, 9, "SUCCESS" :> bind) EXCEPT
                            !.words = TRUE, !.decisions = {"entrance"}]
               @@ "dig" :> Rule("sealed", {"OBSERVE"}, 9, "SUCCESS" :> note)
               @@ "alarm" :> [Rule("archive", {"CUSTOM"}, 9, "SUCCESS" :> alarm) EXCEPT
                                !.facts = "mood" :> "calm"]
               @@ "pass" :> NoEffect("archive", {"OBSERVE"}, "nothing", "look")]

\* Drafts the loader refuses: two phases that would turn into each other for ever,
\* a required phase nothing leads to, and a group that asks for a professional clue.
Spinning ==
    [Annex EXCEPT
        !.phases["lobby"].maxVisits = Unlimited,
        !.phases["lobby"].transitions = <<To("spin", "archive", "AUTOMATIC", <<>>)>>,
        !.phases["archive"].transitions = <<To("again", "lobby", "AUTOMATIC", <<>>),
                                            To("out", "end", "AUTOMATIC", <<>>)>>]
Stranded == [Annex EXCEPT !.phases["sealed"].required = TRUE]
Gated == [Annex EXCEPT !.clues["hidden"].tags = {"MEDIC"}]

=============================================================================
