--------------------------- MODULE MCSubscribers ---------------------------
(***************************************************************************)
(* Small instances of Subscribers for TLC.                                 *)
(***************************************************************************)
EXTENDS Subscribers, TLC

CONSTANTS n1, n2

\* One topic, which matches the first event only.
FirstOnly == {{1}}

\* How many events, control messages, topics chosen, leaving clients and stops.
Bounds(e, c, f, l, t) ==
    [x \in Bounded |-> CASE x = "event" -> e [] x = "control" -> c
                         [] x = "topic" -> f [] x = "leave" -> l
                         [] x = "stop" -> t]

\* Each interplay with a budget of its own: two events with a topic, with a
\* control message and with a client that leaves; an event that waits for the
\* queue of a client that leaves; both clients leaving during shutdown; an event
\* during shutdown.
ServiceBudgets ==
    {Bounds(2, 0, 1, 0, 0), Bounds(2, 1, 0, 0, 0), Bounds(2, 0, 0, 1, 0),
     Bounds(1, 1, 0, 1, 0), Bounds(0, 0, 0, 2, 1),
     Bounds(1, 0, 0, 0, 1)}
=============================================================================
