------------------------------ MODULE MCBinlog ------------------------------
(***************************************************************************)
(* Small instances of Binlog for TLC.                                      *)
(***************************************************************************)
EXTENDS Binlog, TLC

CONSTANTS r1, r2

\* The event a binlog begins with and two transactions: an event of two rows and
\* one of one row, each followed by the event that ends the transaction.
TwoTransactions == <<0, 2, 0, 1, 0>>

\* The same with one transaction of one row.
OneTransaction == <<0, 1, 0>>

NoBadRows == {}
OneBadRow == {<<2, 2>>}

NoPeers == {}
SomePeers == {[pos |-> 3, index |-> 5]}

\* Bounds: how many boots, leader signals, stream errors, termination signals.
Bounds(b, s, e, t) ==
    [x \in Bounded |-> CASE x = "boot" -> b [] x = "signal" -> s
                         [] x = "error" -> e [] x = "term" -> t]

StandaloneLimit == Bounds(3, 0, 1, 1)
SignalLimit == Bounds(1, 2, 0, 0)
NothingSpent == {Bounds(0, 0, 0, 0)}

\* The cluster's bounds are shared out to four kinds of behaviours: one boot with all
\* signals; a restart with two signals, or with one and a shutdown; and one boot with
\* two signals, a failure and a shutdown.
ClusterLimit == Bounds(2, 3, 1, 1)
ClusterSpent == {Bounds(1, 0, 1, 1), Bounds(0, 1, 1, 1), Bounds(0, 2, 1, 0), Bounds(1, 1, 0, 0)}
=============================================================================
