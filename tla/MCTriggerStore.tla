--------------------------- MODULE MCTriggerStore ---------------------------
(* Values of the constants of TriggerStore for TLC. *)
EXTENDS TriggerStore, TLC

CONSTANTS c1, c2, n1, n2, k1, k2, s1, s2

\* Clients, names, keys and sets are interchangeable: only invariants and steps,
\* which tell none of them apart, are checked with this reduction.
MCSymmetry ==
    Permutations({c1, c2}) \cup Permutations({n1, n2})
        \cup Permutations({k1, k2}) \cup Permutations({s1, s2})
=============================================================================
