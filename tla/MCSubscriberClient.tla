------------------------ MODULE MCSubscriberClient ------------------------
(***************************************************************************)
(* A small instance of SubscriberClient for TLC.                           *)
(***************************************************************************)
EXTENDS SubscriberClient, TLC

CONSTANTS s1, s2, t1, t2

\* How many broken connections, servers that stop or come up, events of the
\* watcher, topics and calls of Close.
Bounds(b, s, w, t, c) ==
    [x \in Bounded |-> CASE x = "break" -> b [] x = "server" -> s [] x = "watch" -> w
                         [] x = "subscribe" -> t [] x = "close" -> c]

\* Topics while connections break; Close against the watcher; servers that come
\* and go while the client turns from one to the other.
ClientBudgets == {Bounds(1, 1, 0, 2, 0), Bounds(1, 0, 2, 0, 1), Bounds(2, 1, 1, 1, 0)}
=============================================================================
