------------------------------- MODULE MCWire -------------------------------
(***************************************************************************)
(* A small instance of Wire for TLC.                                       *)
(***************************************************************************)
EXTENDS Wire, TLC

Of(cmd, data) == [cmd |-> cmd, data |-> data]
PosOf(name, pos, index) ==
    Of(CMD_POS, packPos([file |-> name, pos |-> pos, index |-> index]))

\* To agents: a position in a file with a longer name, then one with a shorter;
\* an event, a keepalive package and an event that is too long.
\* To the service: topics and a tick.  To a subscriber: events and a tick.
SmallTraffic ==
    {[proto |-> "agent", messages |-> <<PosOf(<<1, 2>>, 300, 1), PosOf(<<3>>, 20, 2)>>],
     [proto |-> "agent", messages |-> <<Of(CMD_EVENT, <<5>>), Of(CMD_TICK, <<>>),
                                        Of(CMD_EVENT, [i \in 1..36 |-> 1]),
                                        Of(CMD_EVENT, <<6>>)>>],
     [proto |-> "node", messages |-> <<Of(CMD_SET_PRO, <<0, 1, 2>>), Of(CMD_TICK, <<>>),
                                       Of(CMD_SET_PRO, <<0>>)>>],
     [proto |-> "client", messages |-> <<Of(CMD_EVENT, <<1, 2>>), Of(CMD_SET_PRO, <<1, 0>>),
                                         Of(CMD_EVENT, <<>>)>>]}
=============================================================================
