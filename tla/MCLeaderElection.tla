-------------------------- MODULE MCLeaderElection --------------------------
(***************************************************************************)
(* Small instances of LeaderElection for TLC.                              *)
(***************************************************************************)
EXTENDS LeaderElection, TLC

CONSTANTS n1, n2

NodeSymmetry == Permutations(Nodes)

\* How many process starts, timeouts of live processes, failed requests, broken
\* connections and stops there may be.
Bounds(b, e, r, d, s) ==
    [x \in Bounded |-> CASE x = "boot" -> b [] x = "expire" -> e
                         [] x = "error" -> r [] x = "drop" -> d
                         [] x = "stop" -> s]

SafetyLimit == Bounds(3, 0, 1, 0, 1)
LivenessLimit == Bounds(2, 0, 1, 1, 1)
=============================================================================
