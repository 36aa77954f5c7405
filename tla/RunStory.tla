------------------------------ MODULE RunStory ------------------------------
(***************************************************************************)
(* What the run services promise a player, with no handler, transaction or *)
(* lock in sight: a character is on one journey at a time; a journey goes  *)
(* through at most three visits, each played to its end before the next    *)
(* one begins; what was played is never rewritten; a journey ends by being *)
(* left or completed, and ended journeys stay ended.                       *)
(***************************************************************************)
EXTENDS Naturals

CONSTANT Runs

VARIABLES
    visits,   \* how many visits each run has had
    status,   \* where each run stands
    turns,    \* how many turns each visit of a run took
    over,     \* the story of the run's last visit has ended
    retired   \* the character will not enter another run

storyVars == <<visits, status, turns, over, retired>>

OnJourney == {r \in Runs : status[r] = "open"}

Init ==
    /\ visits = [r \in Runs |-> 0]
    /\ status = [r \in Runs |-> "unentered"]
    /\ turns = [r \in Runs |-> [v \in 1..0 |-> 0]]
    /\ over = [r \in Runs |-> FALSE]
    /\ retired = FALSE

\* A new visit begins with no turn taken.
BeginVisit(r) ==
    /\ visits' = [visits EXCEPT ![r] = @ + 1]
    /\ turns' = [turns EXCEPT ![r] = [v \in 1..(visits[r] + 1) |->
                                        IF v <= visits[r] THEN turns[r][v] ELSE 0]]
    /\ over' = [over EXCEPT ![r] = FALSE]

Enter(r) ==
    /\ OnJourney = {} /\ ~retired
    /\ status[r] = "unentered"
    /\ status' = [status EXCEPT ![r] = "open"]
    /\ BeginVisit(r)
    /\ UNCHANGED retired

Turn(r) ==
    /\ r \in OnJourney /\ ~over[r]
    /\ turns' = [turns EXCEPT ![r][visits[r]] = @ + 1]
    /\ over' \in {over, [over EXCEPT ![r] = TRUE]}
    /\ UNCHANGED <<visits, status, retired>>

GoOn(r) ==
    /\ r \in OnJourney /\ over[r] /\ ~retired
    /\ visits[r] < 3
    /\ BeginVisit(r)
    /\ UNCHANGED <<status, retired>>

Leave(r) ==
    /\ r \in OnJourney /\ over[r] /\ ~retired
    /\ status' = [status EXCEPT ![r] = "left"]
    /\ UNCHANGED <<visits, turns, over, retired>>

Complete(r) ==
    /\ r \in OnJourney /\ over[r] /\ ~retired
    /\ visits[r] = 3
    /\ status' = [status EXCEPT ![r] = "completed"]
    /\ UNCHANGED <<visits, turns, over, retired>>

Retire ==
    /\ OnJourney = {} /\ ~retired
    /\ retired' = TRUE
    /\ UNCHANGED <<visits, status, turns, over>>

Next ==
    \/ \E r \in Runs : Enter(r) \/ Turn(r) \/ GoOn(r) \/ Leave(r) \/ Complete(r)
    \/ Retire

Spec == Init /\ [][Next]_storyVars
=============================================================================
