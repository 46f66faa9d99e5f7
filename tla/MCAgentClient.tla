--------------------------- MODULE MCAgentClient ---------------------------
(***************************************************************************)
(* A small instance of AgentClient for TLC.                                *)
(***************************************************************************)
EXTENDS AgentClient, TLC

CONSTANTS k1, k2

\* How many dials, broken connections, calls of Disconnect, requests and answers.
Bounds(d, b, c, r, a) ==
    [x \in Bounded |-> CASE x = "dial" -> d [] x = "break" -> b
                         [] x = "disconnect" -> c [] x = "request" -> r
                         [] x = "answer" -> a]

\* Three answers to two requests; a request while the connection breaks and is
\* made again; Connect and Disconnect against each other.
ClientBudgets == {Bounds(1, 0, 0, 2, 3), Bounds(2, 1, 0, 1, 1), Bounds(2, 1, 1, 0, 0),
                  Bounds(2, 0, 1, 1, 1)}
=============================================================================
