-------------------------- MODULE MCServiceWatch --------------------------
(***************************************************************************)
(* A small instance of ServiceWatch for TLC.                               *)
(***************************************************************************)
EXTENDS ServiceWatch, TLC

CONSTANTS s1, s2

\* How many starts, stops, expired checks, failed calls and looks.
Bounds(t, p, e, f, l) ==
    [x \in Bounded |-> CASE x = "start" -> t [] x = "stop" -> p [] x = "expire" -> e
                         [] x = "error" -> f [] x = "look" -> l]

\* A server starts and one stops, or the same again, while the client starts and
\* looks for a server; a slow server that stops, with calls that fail; one whose
\* registration fails.
WatchBudgets == {Bounds(1, 1, 0, 0, 1), Bounds(0, 1, 1, 1, 0), Bounds(1, 0, 0, 1, 0)}
=============================================================================
