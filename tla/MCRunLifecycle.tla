--------------------------- MODULE MCRunLifecycle ---------------------------
(* Small instances of RunLifecycle for TLC.                                 *)
EXTENDS RunLifecycle, TLC

CONSTANTS r1, r2, k1, k2

Ask(op, run, visit, key, version) ==
    [op |-> op, run |-> run, visit |-> visit, key |-> key,
     runVersion |-> visit + 2, sessionVersion |-> version]

\* One operation of each kind against a rival exit, a key used twice for the
\* operations that look before they lock, and a second run to enter.
JourneyRequests ==
    {Ask("continue", r1, 1, k1, 1), Ask("exit", r1, 1, k1, 1),
     Ask("revisit", r1, 2, k1, 1), Ask("revisit", r1, 2, k1, 0), Ask("exit", r1, 2, k1, 1),
     Ask("complete", r1, 3, k1, 1), Ask("complete", r1, 3, k1, 0), Ask("exit", r1, 3, k1, 1),
     Ask("exit", r2, 1, k1, 1)}

\* The same operation under two keys, a key used for two requests, and a request
\* for a version the session has yet to reach.
RivalRequests ==
    {Ask("continue", r1, 1, k1, 1), Ask("continue", r1, 1, k2, 1), Ask("continue", r1, 1, k1, 2),
     Ask("exit", r1, 1, k1, 1)}

HandlerSymmetry == Permutations(Handlers)
=============================================================================
