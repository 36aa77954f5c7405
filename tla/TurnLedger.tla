------------------------------ MODULE TurnLedger ------------------------------
(***************************************************************************)
(* What a game session promises about the requests a client sends it, with *)
(* no workers, locks, leases or provider: a ledger in which every request  *)
(* gets at most one outcome, ever, and at most one undecided request at a  *)
(* time holds the session.  NarrativeTurn implements it.                   *)
(***************************************************************************)
EXTENDS Naturals, Sequences

CONSTANT Requests

VARIABLES
    history,   \* the requests that changed the game, in order
    outcome    \* what became of each request

Outcome == {"open", "pending", "applied", "noted", "refused"}

NothingPendingBut(r) == \A q \in Requests : outcome[q] = "pending" => q = r

Init ==
    /\ history = <<>>
    /\ outcome = [r \in Requests |-> "open"]

\* The request needs the provider and takes the session's one undecided slot.
Accept(r) ==
    /\ outcome[r] = "open"
    /\ NothingPendingBut(r)
    /\ outcome' = [outcome EXCEPT ![r] = "pending"]
    /\ UNCHANGED history

\* The request changes the game, once.
Apply(r) ==
    /\ outcome[r] \in {"open", "pending"}
    /\ NothingPendingBut(r)
    /\ outcome' = [outcome EXCEPT ![r] = "applied"]
    /\ history' = Append(history, r)

\* The request is answered without changing the game.
Note(r) ==
    /\ outcome[r] = "open"
    /\ outcome' = [outcome EXCEPT ![r] = "noted"]
    /\ UNCHANGED history

\* An undecided request is given up for good.
Refuse(r) ==
    /\ outcome[r] = "pending"
    /\ outcome' = [outcome EXCEPT ![r] = "refused"]
    /\ UNCHANGED history

Next == \E r \in Requests : Accept(r) \/ Apply(r) \/ Note(r) \/ Refuse(r)

Spec == Init /\ [][Next]_<<history, outcome>>

=============================================================================
