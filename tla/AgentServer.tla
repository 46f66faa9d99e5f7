---------------------------- MODULE AgentServer ----------------------------
(***************************************************************************)
(* The agent's TCP server (agent/server.go, group.go and node.go): the     *)
(* other nodes of the cluster connect to it and get what Sync broadcasts.  *)
(*                                                                         *)
(* Server.clients is a Go slice, a header over an array that remove shifts *)
(* in place.  append and remove hold Server.lock; the loops of Broadcast,  *)
(* keepalive and Close hold nothing and read the array element by element  *)
(* under the header they began with.  A node's status is read without its  *)
(* lock, its queue is closed while others may be sending on it.            *)
(***************************************************************************)
EXTENDS Integers, Sequences, FiniteSets

CONSTANTS
    Conns,       \* how many connections are accepted at most
    Callers,     \* goroutines that call Sync
    QueueCap,    \* tcpMaxSendQueue
    Budgets      \* bounds, of which a behaviour has one

\* What is bounded: connections, broadcasts, peers that fail or stop reading,
\* shutdowns.
Bounded == {"conn", "broadcast", "peer", "stop"}

ASSUME AgentServerAssumption ==
    /\ Conns \in Nat
    /\ {"keepalive", "close"} \cap Callers = {}
    /\ QueueCap \in Nat \ {0}
    /\ Budgets \subseteq [Bounded -> Nat]

Nodes == 1..Conns   \* numbered in the order of Accept

Nil == 0         \* no node: an array element never written

Loops == Callers \cup {"keepalive", "close"}

Keepalive == 0   \* the message keepalivePackage; broadcasts are 1, 2, ...

VARIABLES
    arrays,      \* the arrays made for Server.clients
    clients,     \* Server.clients, a slice header
    node,        \* node[n]: its status, queue, writer and connection
    accept,      \* the node the accept loop has made and not yet appended, or Nil
    loop,        \* loop[l]: a loop over the clients, its header and where it is
    process,     \* "run", "stop" once the context is cancelled, "panic"
    sent,        \* history: sent[b], the clients online when broadcast b began
    clean,       \* history: broadcasts during which no client was removed
    budget       \* how much of each bound is left

slices == <<arrays, clients>>
history == <<sent, clean>>
vars == <<slices, node, accept, loop, process, history, budget>>

\* status: "none" before accept, "online", "closing" until the onclose callback
\* has removed it, "closed".  held: the message asyncSendService writes, if any;
\* writer: it has not returned.  conn: the peer is "up", has "stalled" (reads
\* nothing), has "left" (its end is closed) or the connection is "reset".
Unborn == [status |-> "none", queue |-> <<>>, held |-> <<>>, writer |-> FALSE,
           conn |-> "up", written |-> <<>>]

Idle == [at |-> "idle", arr |-> 1, len |-> 0, i |-> 1, node |-> Nil,
         msg |-> Keepalive]

Init ==
    /\ arrays = << <<>> >> /\ clients = [arr |-> 1, len |-> 0]
    /\ node = [n \in Nodes |-> Unborn]
    /\ accept = Nil
    /\ loop = [l \in Loops |-> Idle]
    /\ process = "run"
    /\ sent = <<>> /\ clean = {}
    /\ budget \in Budgets

Alive == process # "panic"

Spend(x) == /\ budget[x] > 0
            /\ budget' = [budget EXCEPT ![x] = @ - 1]

Elements == [i \in 1..clients.len |-> arrays[clients.arr][i]]

-----------------------------------------------------------------------------
(* Start: the accept loop makes a node, whose writer runs at once, ...     *)

Accept(n) ==
    /\ process = "run" /\ accept = Nil
    /\ node[n].status = "none" /\ \A m \in 1..(n - 1) : node[m].status # "none"
    /\ Spend("conn")
    /\ node' = [node EXCEPT ![n].status = "online", ![n].writer = TRUE]
    /\ accept' = n
    /\ UNCHANGED <<slices, loop, process, history>>

\* ... and appends it under Server.lock, in place while the array has room;
\* only then its reader starts.
append ==
    /\ Alive /\ accept # Nil
    /\ LET room == clients.len < Len(arrays[clients.arr])
           cap == IF clients.len = 0 THEN 1 ELSE 2 * clients.len
       IN  /\ arrays' =
                IF room THEN [arrays EXCEPT ![clients.arr][clients.len + 1] = accept]
                ELSE Append(arrays, [i \in 1..cap |->
                        IF i <= clients.len THEN arrays[clients.arr][i]
                        ELSE IF i = clients.len + 1 THEN accept ELSE Nil])
           /\ clients' = [arr |-> IF room THEN clients.arr ELSE Len(arrays) + 1,
                          len |-> clients.len + 1]
    /\ accept' = Nil
    /\ UNCHANGED <<node, loop, process, history, budget>>

-----------------------------------------------------------------------------
(* ClientNode.close and the onclose callback. *)

\* close, under node.lock: nothing unless the node is online; the connection
\* and the queue are closed.
close(n) ==
    IF node[n].status = "online" THEN [node[n] EXCEPT !.status = "closing"]
    ELSE node[n]

\* The callback takes the node out of the slice, under Server.lock: the elements
\* after it move one place to the left.
remove(n) ==
    /\ Alive /\ node[n].status = "closing"
    /\ node' = [node EXCEPT ![n].status = "closed"]
    /\ LET at == {i \in 1..clients.len : Elements[i] = n}
           k == CHOOSE i \in at : \A j \in at : i <= j
       IN  IF at = {} THEN UNCHANGED slices
           ELSE /\ arrays' = [arrays EXCEPT ![clients.arr] = [i \in DOMAIN @ |->
                                 IF k <= i /\ i < clients.len THEN @[i + 1] ELSE @[i]]]
                /\ clients' = [clients EXCEPT !.len = @ - 1]
    /\ clean' = clean \ {loop[l].msg : l \in {c \in Callers : loop[c].at # "idle"}}
    /\ UNCHANGED <<accept, loop, process, sent, budget>>

-----------------------------------------------------------------------------
(* asyncSendService and the connection. *)

Waits(n) == node[n].writer /\ node[n].held = <<>>
Writes(n) == node[n].writer /\ node[n].held # <<>>

\* The writer takes a message, ...
asyncSendServiceTake(n) ==
    /\ Alive /\ node[n].status = "online" /\ Waits(n)
    /\ node[n].queue # <<>>
    /\ node' = [node EXCEPT ![n].held = <<Head(node[n].queue)>>,
                            ![n].queue = Tail(@)]
    /\ UNCHANGED <<slices, accept, loop, process, history, budget>>

\* Mutant: a writer that cannot write returns and leaves the node online.
asyncSendServiceLeaves(n) ==
    /\ Alive /\ Writes(n)
    /\ \/ /\ node[n].status = "online" /\ node[n].conn = "up"
          /\ node' = [node EXCEPT ![n].held = <<>>]
       \/ /\ node[n].status # "online" \/ node[n].conn \in {"left", "reset"}
          /\ node' = [node EXCEPT ![n].writer = FALSE]
    /\ UNCHANGED <<slices, accept, loop, process, history, budget>>

\* ... and writes it, without a deadline.  A peer that left answers the first
\* write with a reset; after that, or once the node is closed, a write fails
\* and closes the node.
asyncSendServiceWrite(n) ==
    /\ Alive /\ Writes(n)
    /\ \/ /\ node[n].status = "online" /\ node[n].conn = "up"
          /\ node' = [node EXCEPT ![n].held = <<>>,
                ![n].written = IF node[n].held = <<Keepalive>> THEN @
                               ELSE @ \o node[n].held]
       \/ /\ node[n].status = "online" /\ node[n].conn = "left"
          /\ node' = [node EXCEPT ![n].held = <<>>, ![n].conn = "reset"]
       \/ /\ node[n].status # "online" \/ node[n].conn = "reset"
          /\ node' = [node EXCEPT ![n] = [close(n) EXCEPT !.writer = FALSE]]
    /\ UNCHANGED <<slices, accept, loop, process, history, budget>>

\* Mutant: the writer does not look at the context.
asyncSendServiceIgnoresContext(n) ==
    /\ Alive /\ node[n].status \in {"closing", "closed"} /\ Waits(n)
    /\ node' = [node EXCEPT ![n].writer = FALSE]
    /\ UNCHANGED <<slices, accept, loop, process, history, budget>>

\* The writer returns when the node is closed or, after the context is
\* cancelled, when its queue is empty.
asyncSendServiceReturns(n) ==
    /\ Alive /\ Waits(n)
    /\ \/ node[n].status # "online"
       \/ process = "stop" /\ node[n].queue = <<>>
    /\ node' = [node EXCEPT ![n].writer = FALSE]
    /\ UNCHANGED <<slices, accept, loop, process, history, budget>>

\* Mutant: the reader starts before the node is appended.
readMessageEarly(n) ==
    /\ Alive /\ node[n].status = "online" /\ node[n].conn = "reset"
    /\ node' = [node EXCEPT ![n] = close(n)]
    /\ UNCHANGED <<slices, accept, loop, process, history, budget>>

\* readMessage: a reset closes the node, the end of the stream (io.EOF) does not.
readMessage(n) ==
    /\ Alive /\ accept # n
    /\ node[n].status = "online" /\ node[n].conn = "reset"
    /\ node' = [node EXCEPT ![n] = close(n)]
    /\ UNCHANGED <<slices, accept, loop, process, history, budget>>

\* The peer stops reading, reads again, closes its end or resets the connection.
Peer(n, c) ==
    /\ Alive /\ node[n].status = "online"
    /\ <<node[n].conn, c>> \in {<<"up", "stalled">>, <<"up", "left">>,
           <<"up", "reset">>, <<"stalled", "up">>, <<"stalled", "reset">>}
    /\ Spend("peer")
    /\ node' = [node EXCEPT ![n].conn = c]
    /\ UNCHANGED <<slices, accept, loop, process, history>>

-----------------------------------------------------------------------------
(* The loops over the clients. *)

Loop(msg) == [at |-> "next", arr |-> clients.arr, len |-> clients.len, i |-> 1,
              node |-> Nil, msg |-> msg]

\* Sync: Broadcast begins.
Broadcast(c) ==
    /\ Alive /\ loop[c].at = "idle"
    /\ Spend("broadcast")
    /\ loop' = [loop EXCEPT ![c] = Loop(Len(sent) + 1)]
    /\ sent' = Append(sent, {n \in Nodes : n # accept /\ node[n].status = "online"})
    /\ clean' = clean \cup {Len(sent) + 1}
    /\ UNCHANGED <<slices, node, accept, process>>

\* Mutant: keepalive stops once there are clients.
keepaliveStops ==
    /\ process = "run" /\ loop["keepalive"].at = "idle" /\ clients.len < 1
    /\ loop' = [loop EXCEPT !["keepalive"] = Loop(Keepalive)]
    /\ UNCHANGED <<slices, node, accept, process, history, budget>>

\* keepalive, every three seconds until the context is cancelled.
keepalive ==
    /\ process = "run" /\ loop["keepalive"].at = "idle"
    /\ loop' = [loop EXCEPT !["keepalive"] = Loop(Keepalive)]
    /\ UNCHANGED <<slices, node, accept, process, history, budget>>

Current(l) == arrays[loop[l].arr][loop[l].i]

Advance(l) == [loop EXCEPT ![l].at = "next", ![l].i = @ + 1, ![l].node = Nil]

\* Mutant: a loop ends before its last client.
LoopEndsShort(l) ==
    /\ Alive /\ loop[l].at = "next" /\ loop[l].i >= loop[l].len
    /\ loop' = [loop EXCEPT ![l] = IF l = "close" THEN [Idle EXCEPT !.at = "done"]
                                   ELSE Idle]
    /\ UNCHANGED <<slices, node, accept, process, history, budget>>

\* A loop ends, ...
LoopEnds(l) ==
    /\ Alive /\ loop[l].at = "next" /\ loop[l].i > loop[l].len
    /\ loop' = [loop EXCEPT ![l] = IF l = "close" THEN [Idle EXCEPT !.at = "done"]
                                   ELSE Idle]
    /\ UNCHANGED <<slices, node, accept, process, history, budget>>

\* ... or calls AsyncSend of its next node, which returns if it is not online, ...
AsyncSendCheck(l) ==
    /\ Alive /\ l # "close" /\ loop[l].at = "next" /\ loop[l].i <= loop[l].len
    /\ loop' = IF node[Current(l)].status = "online"
               THEN [loop EXCEPT ![l].at = "send", ![l].node = Current(l)] ELSE Advance(l)
    /\ UNCHANGED <<slices, node, accept, process, history, budget>>

\* ... and otherwise sends on its queue, waiting for room; a queue that is closed
\* by then, or while it waits, ends the process.
AsyncSend(l) ==
    /\ Alive /\ loop[l].at = "send"
    /\ LET n == loop[l].node
       IN  \/ /\ node[n].status = "online" /\ Len(node[n].queue) < QueueCap
              /\ node' = [node EXCEPT ![n].queue = Append(@, loop[l].msg)]
              /\ loop' = Advance(l)
              /\ UNCHANGED process
           \/ /\ node[n].status # "online"
              /\ process' = "panic"
              /\ UNCHANGED <<node, loop>>
    /\ UNCHANGED <<slices, accept, history, budget>>

-----------------------------------------------------------------------------
(* Shutdown: the context is cancelled, then Close closes the listener and  *)
(* loops over the clients; each node's close removes it under the loop.    *)

Cancel ==
    /\ process = "run"
    /\ Spend("stop")
    /\ process' = "stop"
    /\ UNCHANGED <<slices, node, accept, loop, history>>

Close ==
    /\ process = "stop" /\ loop["close"].at = "idle"
    /\ loop' = [loop EXCEPT !["close"] = Loop(Keepalive)]
    /\ UNCHANGED <<slices, node, accept, process, history, budget>>

\* The close of the node that clients.close is at returns when it has been
\* removed, or at once if another goroutine closed it.
CloseNext ==
    /\ Alive /\ loop["close"].at = "next" /\ loop["close"].i <= loop["close"].len
    /\ LET n == Current("close")
       IN  /\ node' = [node EXCEPT ![n] = close(n)]
           /\ loop' = IF node[n].status = "online"
                      THEN [loop EXCEPT !["close"].at = "wait", !["close"].node = n]
                      ELSE Advance("close")
    /\ UNCHANGED <<slices, accept, process, history, budget>>

CloseWait ==
    /\ Alive /\ loop["close"].at = "wait"
    /\ node[loop["close"].node].status = "closed"
    /\ loop' = Advance("close")
    /\ UNCHANGED <<slices, node, accept, process, history, budget>>

-----------------------------------------------------------------------------
Writing(n) ==
    \/ asyncSendServiceTake(n) \/ asyncSendServiceWrite(n)
    \/ asyncSendServiceReturns(n)

Looping(l) == LoopEnds(l) \/ AsyncSendCheck(l) \/ AsyncSend(l)

Closing == Close \/ CloseNext \/ CloseWait

Next ==
    \/ append \/ keepalive \/ Cancel \/ Closing
    \/ \E c \in Callers : Broadcast(c)
    \/ \E l \in Loops : Looping(l)
    \/ \E n \in Nodes : Accept(n) \/ remove(n) \/ readMessage(n) \/ Writing(n)
    \/ \E n \in Nodes, c \in {"up", "stalled", "left", "reset"} : Peer(n, c)

Spec == Init /\ [][Next]_vars

\* Go's scheduler runs every goroutine that can run, keepalive's sleep ends, and
\* a channel serves the senders that wait for room in their order, so that none
\* is passed over for ever.  Nothing is assumed of peers, callers and signals.
Fairness ==
    /\ WF_vars(append) /\ WF_vars(keepalive) /\ WF_vars(Closing)
    /\ \A l \in Loops : WF_vars(Looping(l))
    /\ \A c \in Callers : SF_vars(AsyncSend(c))
    /\ \A n \in Nodes :
        WF_vars(remove(n)) /\ WF_vars(readMessage(n)) /\ WF_vars(Writing(n))

FairSpec == Spec /\ Fairness

-----------------------------------------------------------------------------
(* Properties. *)

Message == 0..Len(sent)

\* The slice holds every client that was accepted and is not removed, once, and
\* no other: a node cannot be closed and removed before the accept loop has
\* appended it, whichever of its reader, its writer and Close closes it.
SliceExact ==
    \A n \in Nodes :
        Cardinality({i \in DOMAIN Elements : Elements[i] = n}) =
            IF n # accept /\ node[n].status \in {"online", "closing"} THEN 1 ELSE 0

\* What was broadcast to client n: written, in the hands of its writer, queued.
Got(n) == node[n].written \o node[n].held \o node[n].queue

\* A broadcast that no removal overlaps reaches every client that was online when
\* it began and still is, exactly once, although its loop holds no lock and
\* clients come meanwhile.  (A removal moves the elements under the loop: it
\* may then miss one client and send twice to another.)
BroadcastExact ==
    \A b \in clean \ {loop[c].msg : c \in Callers} : \A n \in sent[b] :
        node[n].status = "online" /\ node[n].conn \in {"up", "stalled"} =>
            Cardinality({i \in DOMAIN Got(n) : Got(n)[i] = b}) = 1

\* A client whose queue is full reads nothing: whoever sends to it waits.
Blocked == \E n \in Nodes : /\ node[n].status = "online"
                            /\ node[n].conn = "stalled"
                            /\ Len(node[n].queue) = QueueCap

\* A client that left or broke is taken out of the slice, although the reader
\* takes the end of the stream for an empty message: keepalive's packages find
\* out, unless a stalled client keeps it waiting or the process ends.
GoneRemoved ==
    \/ []<>Blocked
    \/ \A n \in Nodes :
        node[n].status = "online" /\ node[n].conn \in {"left", "reset"} ~>
            node[n].status = "closed" \/ process # "run"

\* Sync returns to the binlog service, unless a stalled client keeps it waiting
\* or the process ends.
BroadcastReturns ==
    \/ []<>Blocked
    \/ \A c \in Callers :
        loop[c].at # "idle" ~> loop[c].at = "idle" \/ process # "run"

\* On shutdown every writer returns, those of the clients included that Close
\* passes over because each removal shifts the slice under its loop, unless its
\* peer reads nothing.
WritersEnd ==
    process = "stop" ~>
        \/ process = "panic"
        \/ \A n \in Nodes : node[n].writer => Writes(n) /\ node[n].conn = "stalled"

=============================================================================
