----------------------------- MODULE TurnPromise -----------------------------
(***************************************************************************)
(* What the turn boundary of the dynamic Demo promises its callers, for    *)
(* any number of submissions of a request: the request is applied at most  *)
(* once, or closed without being applied, never both; a committed answer   *)
(* names the turn that was applied and the content it was submitted with;  *)
(* any other final answer is given for a closed request.  Only an unknown  *)
(* outcome may be told of a turn that was applied, and only where the      *)
(* store's commits may leave their caller without an answer (MayHide).     *)
(***************************************************************************)
EXTENDS Naturals, Sequences

CONSTANTS Requests, Forms, MayHide

VARIABLES
    turns,    \* the applied requests in order, with their content
    closed,   \* the requests that will never be applied
    told      \* the final answers given

Turn == [request : Requests, form : Forms]
Refusals == {"failed", "stale", "unknown", "rejected"}

Applied(r) == \E i \in 1..Len(turns) : turns[i].request = r

Init == turns = <<>> /\ closed = {} /\ told = {}

Apply(t) ==
    /\ ~Applied(t.request)
    /\ t.request \notin closed
    /\ turns' = Append(turns, t)

\* A committed answer names the number of a turn, and its content.
AnswersCommitted(a) ==
    /\ a.said = "committed"
    /\ a.version \in 1..Len(turns')
    /\ turns'[a.version] = [request |-> a.request, form |-> a.form]

AnswersRefused(a) ==
    /\ a.said \in Refusals
    /\ a.request \in closed' \/ (MayHide /\ a.said = "unknown")

\* A step may apply a turn, close requests, and answer about the result.
Step ==
    /\ turns' = turns \/ \E t \in Turn : Apply(t)
    /\ closed \subseteq closed' /\ closed' \subseteq Requests
    /\ \A i \in 1..Len(turns') : turns'[i].request \notin closed'
    /\ told \subseteq told'
    /\ \A a \in told' \ told : AnswersCommitted(a) \/ AnswersRefused(a)

Spec == Init /\ [][Step]_<<turns, closed, told>>
=============================================================================
