------------------------- MODULE MCDynamicNarrative -------------------------
(* Small instances of DynamicNarrative for TLC.                             *)
EXTENDS DynamicNarrative, TLC

CallerSymmetry == Permutations(Callers)

\* Sound where no request is a suggestion or a leftover.
RivalSymmetry == Permutations(Callers) \cup Permutations(Requests)
=============================================================================
