--------------------------- MODULE MCAgentServer ---------------------------
(***************************************************************************)
(* A small instance of AgentServer for TLC.                                *)
(***************************************************************************)
EXTENDS AgentServer, TLC

\* How many connections, broadcasts, changes of a peer and shutdowns.
Bounds(c, b, p, s) ==
    [x \in Bounded |-> CASE x = "conn" -> c [] x = "broadcast" -> b
                         [] x = "peer" -> p [] x = "stop" -> s]

\* Each interplay with a budget of its own: broadcasts; a broadcast and a peer
\* that fails; two failures; shutdown with several clients, with a broadcast,
\* with a failure.
ServerBudgets ==
    {Bounds(2, 2, 0, 0), Bounds(2, 1, 1, 0), Bounds(2, 0, 2, 0),
     Bounds(2, 0, 0, 1), Bounds(1, 1, 0, 1), Bounds(1, 0, 1, 1)}
=============================================================================
