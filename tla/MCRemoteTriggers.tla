-------------------------- MODULE MCRemoteTriggers --------------------------
(* Values of the constants of RemoteTriggers for TLC. *)
EXTENDS RemoteTriggers, TLC

CONSTANTS w1, w2, p1, p2, n1, n2, k1, k2

\* Workers, callers, names and keys are interchangeable, and only invariants are
\* checked.
MCSymmetry ==
    Permutations({w1, w2}) \cup Permutations({p1, p2})
    \cup Permutations({n1, n2}) \cup Permutations({k1, k2})

\* The history variables of TriggerStore decide nothing and no property here reads
\* them, so states that differ only in them are taken for one.
MCView == <<tables, calls, answer, remote, seen>>
=============================================================================
