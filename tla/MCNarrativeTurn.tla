--------------------------- MODULE MCNarrativeTurn ---------------------------
(* Small instances of NarrativeTurn for TLC. *)
EXTENDS NarrativeTurn, TLC

CONSTANTS w1, w2, w3, r1, r2, r3, s1, s2, t1, t2, t3, t4

\* Workers, requests, signatures and tokens are interchangeable.
Symmetry == Permutations(Workers) \cup Permutations(Requests)
            \cup Permutations(Signatures) \cup Permutations(Tokens)

=============================================================================
