---------------------------- MODULE Subscribers ----------------------------
(***************************************************************************)
(* The subscription service (services/service_tcp.go, service_tcpgroups.go *)
(* and service_tcpnode.go): TCP clients connect, choose topics and receive *)
(* the events of SendAll through one send queue each.                      *)
(*                                                                         *)
(* groups.g is a Go slice: a header (array and length) over an array that  *)
(* remove shifts in place, that append writes to in place while it has     *)
(* room, and that every loop over the groups reads element by element      *)
(* under the header it had at its start.  Only onConnect and asyncSend     *)
(* take groups.lock; sendAll, remove and close do not.                     *)
(***************************************************************************)
EXTENDS Integers, Sequences, FiniteSets

CONSTANTS
    Nodes,         \* clients, each of which connects at most once
    LastEvent,     \* events are 1..LastEvent, sent in this order
    Filters,       \* topics, each the set of events whose table it matches
    QueueCap,      \* capacity of a send queue (tcpMaxSendQueue)
    Nil,           \* an array element that was never written
    Budgets        \* bounds, of which a behaviour has one

Event == 1..LastEvent

\* What is bounded: events, control messages, topics chosen, clients that leave,
\* and stops.
Bounded == {"event", "control", "topic", "leave", "stop"}

ASSUME SubscribersAssumption ==
    /\ IsFiniteSet(Nodes)
    /\ LastEvent \in Nat
    /\ Filters \subseteq SUBSET Event
    /\ QueueCap \in Nat \ {0}
    /\ Nil \notin Nodes /\ "event" \notin Nodes /\ "tick" \notin Nodes
    /\ Budgets \subseteq {b \in [Bounded -> Nat] : b["event"] <= LastEvent}

\* The goroutines that send: the caller of SendAll, the keepalive loop and, to
\* answer its own client, each node's reader.
Senders == {"event", "tick"} \cup Nodes

VARIABLES
    arrays,        \* the arrays made for groups.g, each as long as its capacity
    g,             \* groups.g, a slice header
    status,        \* status[n]: "none" before it connects, "online", "offline"
    topics,        \* topics[n]: node.topics
    sendQueue,     \* sendQueue[n], closed when the node is offline
    writer,        \* writer[n]: asyncSendService runs
    closing,       \* closing[n]: where node.close is; node.lock is held meanwhile
    found,         \* found[n]: the index at which remove found the node
    header,        \* header[n]: the header remove is about to store
    accept,        \* the accept loop: its step, node and header
    send,          \* send[s]: the step of a sender, its loop, the node it is at
    shut,          \* groups.close: its step and its loop
    ctxDone,       \* the context is cancelled
    connects,      \* the service's connection counter
    gone           \* how the process ended: "no", "panic" or "exit"

VARIABLES
    event,         \* history: the last event given to SendAll
    written,       \* history: events written to the client
    owed,          \* history: events whose SendAll found the node subscribed
    budget         \* how much of each bound is left

slices == <<arrays, g>>
closers == <<closing, found, header>>
queues == <<sendQueue, writer, written>>
vars == <<slices, status, topics, queues, closers, accept, send, shut, ctxDone,
          connects, gone, event, owed, budget>>

Control == 0       \* a tick or another answer in a queue

Empty == [arr |-> 1, len |-> 0]

Idle == [at |-> "idle", arr |-> 1, len |-> 0, i |-> 1, node |-> Nil]

\* A loop over groups.g, begun now.
Loop == [at |-> "next", arr |-> g.arr, len |-> g.len, i |-> 1, node |-> Nil]

Spend(x) == /\ budget[x] > 0
            /\ budget' = [budget EXCEPT ![x] = @ - 1]

Init ==
    /\ arrays = << <<>> >>
    /\ g = Empty
    /\ status = [n \in Nodes |-> "none"]
    /\ topics = [n \in Nodes |-> {}]
    /\ sendQueue = [n \in Nodes |-> <<>>]
    /\ writer = [n \in Nodes |-> FALSE]
    /\ written = [n \in Nodes |-> <<>>]
    /\ closing = [n \in Nodes |-> "no"]
    /\ found = [n \in Nodes |-> 0]
    /\ header = [n \in Nodes |-> g]
    /\ accept = [at |-> "idle", node |-> Nil, header |-> g]
    /\ send = [s \in Senders |-> Idle]
    /\ shut = Idle
    /\ ctxDone = FALSE
    /\ connects = 0
    /\ gone = "no"
    /\ event = 0
    /\ owed = [n \in Nodes |-> {}]
    /\ budget \in Budgets

Running == gone = "no"

\* The process ends, and nothing is left of it.
Halt(how) ==
    /\ gone' = how
    /\ arrays' = << <<>> >>
    /\ g' = Empty
    /\ status' = [n \in Nodes |-> "none"]
    /\ topics' = [n \in Nodes |-> {}]
    /\ sendQueue' = [n \in Nodes |-> <<>>]
    /\ writer' = [n \in Nodes |-> FALSE]
    /\ written' = [n \in Nodes |-> <<>>]
    /\ closing' = [n \in Nodes |-> "no"]
    /\ found' = [n \in Nodes |-> 0]
    /\ header' = [n \in Nodes |-> Empty]
    /\ accept' = [at |-> "idle", node |-> Nil, header |-> Empty]
    /\ send' = [s \in Senders |-> Idle]
    /\ shut' = Idle
    /\ ctxDone' = FALSE
    /\ connects' = 0
    /\ event' = 0
    /\ owed' = [n \in Nodes |-> {}]
    /\ budget' = [x \in Bounded |-> 0]

\* SIGTERM: main cancels the context, then closes the service.
Cancel ==
    /\ Running /\ ~ctxDone
    /\ Spend("stop")
    /\ ctxDone' = TRUE
    /\ UNCHANGED <<slices, status, topics, queues, closers, accept, send, shut,
                   connects, gone, event, owed>>

-----------------------------------------------------------------------------
(* A client connects. *)

\* Whether groups.lock and node.lock are held.
GroupsLocked == accept.at = "store" \/ send["tick"].at # "idle"
\* Mutant: close returns with the lock held.
NodeLockedForever(n) == closing[n] # "no"
NodeLocked(n) == closing[n] \notin {"no", "done"}

\* append(g, n): in place while the array has room, otherwise in a new one of
\* twice the size.
Room == g.len < Len(arrays[g.arr])
AppendArrays(n) ==
    IF Room THEN [arrays EXCEPT ![g.arr][g.len + 1] = n]
    ELSE LET cap == IF g.len = 0 THEN 1 ELSE 2 * g.len
             new == [i \in 1..cap |-> IF i <= g.len THEN arrays[g.arr][i]
                                      ELSE IF i = g.len + 1 THEN n ELSE Nil]
         IN  Append(arrays, new)
AppendHeader ==
    [arr |-> IF Room THEN g.arr ELSE Len(arrays) + 1, len |-> g.len + 1]

\* The accept loop calls groups.onConnect, which under groups.lock makes the
\* node, appends it ...
OnConnect(n) ==
    /\ Running /\ accept.at = "idle" /\ status[n] = "none"
    /\ ~ctxDone /\ ~GroupsLocked
    /\ status' = [status EXCEPT ![n] = "online"]
    /\ writer' = [writer EXCEPT ![n] = TRUE]
    /\ arrays' = AppendArrays(n)
    /\ accept' = [at |-> "store", node |-> n, header |-> AppendHeader]
    /\ UNCHANGED <<g, topics, sendQueue, written, closers, send, shut, ctxDone,
                   connects, gone, event, owed, budget>>

\* ... and stores the slice; the node's reader starts.
OnConnectStore ==
    /\ Running /\ accept.at = "store"
    /\ g' = accept.header
    /\ accept' = [accept EXCEPT !.at = "count"]
    /\ UNCHANGED <<arrays, status, topics, queues, closers, send, shut, ctxDone,
                   connects, gone, event, owed, budget>>

\* Then the accept loop calls the service's newConnect.
newConnect ==
    /\ Running /\ accept.at = "count"
    /\ connects' = connects + 1
    /\ accept' = [at |-> "idle", node |-> Nil, header |-> Empty]
    /\ UNCHANGED <<slices, status, topics, queues, closers, send, shut, ctxDone,
                   gone, event, owed, budget>>

-----------------------------------------------------------------------------
(* node.close, by the node's reader, its writer or groups.close: it holds  *)
(* node.lock and calls groups.remove and the service's disconnect.         *)

\* Mutant: the node is not looked at again before it is closed.
closeAgain(n) ==
    /\ status[n] # "none" /\ ~NodeLocked(n)
    /\ status' = [status EXCEPT ![n] = "offline"]
    /\ closing' = [closing EXCEPT ![n] = "find"]

\* The node goes offline and its queue is closed; only once.
close(n) ==
    /\ status[n] = "online" /\ ~NodeLocked(n)
    /\ status' = [status EXCEPT ![n] = "offline"]
    /\ closing' = [closing EXCEPT ![n] = "find"]

\* remove looks for the node ...
removeFind(n) ==
    /\ Running /\ closing[n] = "find"
    /\ LET at == {i \in 1..g.len : arrays[g.arr][i] = n}
           first == CHOOSE i \in at : \A j \in at : i <= j
       IN  /\ found' = [found EXCEPT ![n] = IF at = {} THEN 0 ELSE first]
           /\ closing' = [closing EXCEPT ![n] = IF at = {} THEN "count" ELSE "shift"]
    /\ UNCHANGED <<slices, status, topics, queues, header, accept, send, shut,
                   ctxDone, connects, gone, event, owed, budget>>

\* ... shifts the elements after it in the array that groups.g has by now (a
\* panic if the slice has become too short) ...
removeShift(n) ==
    /\ Running /\ closing[n] = "shift" /\ found[n] <= g.len
    /\ LET k == found[n]
       IN  arrays' = [arrays EXCEPT ![g.arr] = [i \in DOMAIN @ |->
                         IF k <= i /\ i < g.len THEN @[i + 1] ELSE @[i]]]
    /\ header' = [header EXCEPT ![n] = [arr |-> g.arr, len |-> g.len - 1]]
    /\ found' = [found EXCEPT ![n] = 0]
    /\ closing' = [closing EXCEPT ![n] = "store"]
    /\ UNCHANGED <<g, status, topics, queues, accept, send, shut, ctxDone,
                   connects, gone, event, owed, budget>>

removePanics(n) ==
    /\ Running /\ closing[n] = "shift" /\ found[n] > g.len
    /\ Halt("panic")

\* ... and stores the shorter slice.
removeStore(n) ==
    /\ Running /\ closing[n] = "store"
    /\ g' = header[n]
    /\ header' = [header EXCEPT ![n] = Empty]
    /\ closing' = [closing EXCEPT ![n] = "count"]
    /\ UNCHANGED <<arrays, status, topics, queues, found, accept, send,
                   shut, ctxDone, connects, gone, event, owed, budget>>

\* onRemove: disconnect counts the client out, and node.lock is released.
disconnect(n) ==
    /\ Running /\ closing[n] = "count"
    /\ connects' = connects - 1
    /\ closing' = [closing EXCEPT ![n] = "done"]
    /\ UNCHANGED <<slices, status, topics, queues, found, header, accept, send,
                   shut, ctxDone, gone, event, owed, budget>>

-----------------------------------------------------------------------------
(* Sending. *)

MatchFilters(filters, e) == filters = {} \/ \E f \in filters : e \in f

\* A client that is connected, in a service that is not shutting down.
Connected(n) == ~ctxDone /\ status[n] = "online" /\ accept.node # n

\* SendAll begins its loop over the groups with the next event.
SendAll ==
    /\ Running /\ send["event"].at = "idle"
    /\ Spend("event")
    /\ event' = event + 1
    /\ send' = [send EXCEPT !["event"] = Loop]
    /\ owed' = [n \in Nodes |-> IF Connected(n) /\ MatchFilters(topics[n], event')
                                THEN owed[n] \cup {event'} ELSE owed[n]]
    /\ UNCHANGED <<slices, status, topics, queues, closers, accept, shut,
                   ctxDone, connects, gone>>

\* keepalive begins its loop, with groups.lock held until it ends.
keepalive ==
    /\ Running /\ ~ctxDone
    /\ ~GroupsLocked
    /\ Spend("control")
    /\ send' = [send EXCEPT !["tick"] = Loop]
    /\ UNCHANGED <<slices, status, topics, queues, closers, accept, shut,
                   ctxDone, connects, gone, event, owed>>

\* The node's reader runs and is not busy with an answer.
Reads(n) ==
    /\ status[n] = "online" /\ send[n].at = "idle"
    /\ ~(accept.at = "store" /\ accept.node = n)

\* onMessage: a tick or a command it does not support is answered through the queue, ...
onMessage(n) ==
    /\ Running /\ Reads(n)
    /\ Spend("control")
    /\ send' = [send EXCEPT ![n] = [Idle EXCEPT !.at = "check", !.node = n]]
    /\ UNCHANGED <<slices, status, topics, queues, closers, accept, shut,
                   ctxDone, connects, gone, event, owed>>

\* ... and onSetPro adds a topic.
onSetPro(n, f) ==
    /\ Running /\ Reads(n)
    /\ Spend("topic")
    /\ topics' = [topics EXCEPT ![n] = @ \cup {f}]
    /\ owed' = IF send["event"].at = "idle" THEN owed
               ELSE [owed EXCEPT ![n] = @ \ {event}]
    /\ UNCHANGED <<slices, status, queues, closers, accept, send, shut, ctxDone,
                   connects, gone, event>>

\* The sender is done with its node.
Advance(s) ==
    IF s \in Nodes THEN Idle
    ELSE [send[s] EXCEPT !.at = "next", !.i = @ + 1, !.node = Nil]

\* Mutant: the loop ends before its last node.
sendAllNextShort(s) ==
    /\ Running /\ send[s].at = "next"
    /\ LET n == arrays[send[s].arr][send[s].i]
       IN  send' = [send EXCEPT ![s] =
               IF @.i >= @.len THEN Idle
               ELSE IF s = "event" /\ ~MatchFilters(topics[n], event) THEN Advance(s)
               ELSE [@ EXCEPT !.at = "check", !.node = n]]
    /\ UNCHANGED <<slices, status, topics, queues, closers, accept, shut,
                   ctxDone, connects, gone, event, owed, budget>>

\* The loops of sendAll and asyncSend of the groups: the next node, or the end.
sendAllNext(s) ==
    /\ Running /\ send[s].at = "next"
    /\ LET n == arrays[send[s].arr][send[s].i]
       IN  send' = [send EXCEPT ![s] =
               IF @.i > @.len THEN Idle
               ELSE IF s = "event" /\ ~MatchFilters(topics[n], event) THEN Advance(s)
               ELSE [@ EXCEPT !.at = "check", !.node = n]]
    /\ UNCHANGED <<slices, status, topics, queues, closers, accept, shut,
                   ctxDone, connects, gone, event, owed, budget>>

\* asyncSend of the node: its status is looked at under node.lock, ...
asyncSendCheck(s) ==
    /\ Running /\ send[s].at = "check" /\ ~NodeLocked(send[s].node)
    /\ send' = [send EXCEPT ![s] = IF status[@.node] = "offline" THEN Advance(s)
                                   ELSE [@ EXCEPT !.at = "spin"]]
    /\ UNCHANGED <<slices, status, topics, queues, closers, accept, shut,
                   ctxDone, connects, gone, event, owed, budget>>

\* Mutant: an event that finds the queue full is written past it.
asyncSendSpinPast(s) ==
    /\ Running /\ send[s].at = "spin"
    /\ LET n == send[s].node
           past == s = "event" /\ Len(sendQueue[n]) = QueueCap
       IN  /\ past \/ Len(sendQueue[n]) < QueueCap
           /\ send' = [send EXCEPT ![s] = IF past THEN Advance(s)
                                          ELSE [@ EXCEPT !.at = "push"]]
           /\ written' = [written EXCEPT ![n] = IF past THEN Append(@, event) ELSE @]
    /\ UNCHANGED <<slices, status, topics, sendQueue, writer, closers, accept,
                   shut, ctxDone, connects, gone, event, owed, budget>>

\* ... then, without the lock, it spins while the queue is full, ...
asyncSendSpin(s) ==
    /\ Running /\ send[s].at = "spin" /\ Len(sendQueue[send[s].node]) < QueueCap
    /\ send' = [send EXCEPT ![s].at = "push"]
    /\ UNCHANGED <<slices, status, topics, queues, closers, accept, shut,
                   ctxDone, connects, gone, event, owed, budget>>

\* Mutant: the queue has no limit.
asyncSendUnbounded(s) ==
    /\ Running /\ send[s].at = "push"
    /\ LET n == send[s].node
       IN  /\ status[n] = "online"
           /\ sendQueue' = [sendQueue EXCEPT ![n] =
                  Append(@, IF s = "event" THEN event ELSE Control)]
    /\ send' = [send EXCEPT ![s] = Advance(s)]
    /\ UNCHANGED <<slices, status, topics, writer, written, closers, accept,
                   shut, ctxDone, connects, gone, event, owed, budget>>

\* ... and sends, which is a panic on a closed channel.
asyncSend(s) ==
    /\ Running /\ send[s].at = "push"
    /\ LET n == send[s].node
       IN  /\ status[n] = "online" /\ Len(sendQueue[n]) < QueueCap
           /\ sendQueue' = [sendQueue EXCEPT ![n] =
                  Append(@, IF s = "event" THEN event ELSE Control)]
    /\ send' = [send EXCEPT ![s] = Advance(s)]
    /\ UNCHANGED <<slices, status, topics, writer, written, closers, accept,
                   shut, ctxDone, connects, gone, event, owed, budget>>

asyncSendPanics(s) ==
    /\ Running /\ send[s].at = "push" /\ status[send[s].node] = "offline"
    /\ Halt("panic")

-----------------------------------------------------------------------------
(* The goroutines of a node. *)

\* asyncSendService writes the next message to the connection, ...
asyncSendService(n) ==
    /\ Running /\ writer[n] /\ status[n] = "online" /\ sendQueue[n] # <<>>
    /\ LET m == Head(sendQueue[n])
       IN  written' = [written EXCEPT ![n] = IF m = Control THEN @ ELSE Append(@, m)]
    /\ sendQueue' = [sendQueue EXCEPT ![n] = Tail(@)]
    /\ UNCHANGED <<slices, status, topics, writer, closers, accept, send, shut,
                   ctxDone, connects, gone, event, owed, budget>>

\* ... closes the node when that fails, ...
asyncSendServiceFails(n) ==
    /\ Running /\ writer[n] /\ sendQueue[n] # <<>>
    /\ Spend("leave")
    /\ close(n)
    /\ writer' = [writer EXCEPT ![n] = FALSE]
    /\ sendQueue' = [sendQueue EXCEPT ![n] = Tail(@)]
    /\ UNCHANGED <<slices, topics, written, found, header, accept, send, shut,
                   ctxDone, connects, gone, event, owed>>

\* ... and returns on shutdown when its queue is empty.  (It also returns when
\* the node is offline; it is not enabled then.)
asyncSendServiceReturns(n) ==
    /\ Running /\ writer[n] /\ status[n] = "online"
    /\ ctxDone /\ sendQueue[n] = <<>>
    /\ writer' = [writer EXCEPT ![n] = FALSE]
    /\ UNCHANGED <<slices, status, topics, sendQueue, written, closers, accept,
                   send, shut, ctxDone, connects, gone, event, owed, budget>>

\* The reader closes the node: the client is gone, or sent a ping or a wrong flag.
onConnectReturns(n) ==
    /\ Running /\ Reads(n)
    /\ Spend("leave")
    /\ close(n)
    /\ UNCHANGED <<slices, topics, queues, found, header, accept, send, shut,
                   ctxDone, connects, gone, event, owed>>

-----------------------------------------------------------------------------
(* TCPService.Close: groups.close. *)

Close ==
    /\ Running /\ ctxDone /\ shut.at = "idle"
    /\ shut' = Loop
    /\ UNCHANGED <<slices, status, topics, queues, closers, accept, send,
                   ctxDone, connects, gone, event, owed, budget>>

\* The loop closes the node it is at, ...
CloseNext ==
    /\ Running /\ shut.at = "next" /\ shut.i <= shut.len
    /\ LET n == arrays[shut.arr][shut.i]
       IN  /\ ~NodeLocked(n)
           /\ \/ /\ close(n)
                 /\ shut' = [shut EXCEPT !.at = "wait", !.node = n]
              \/ /\ status[n] = "offline"
                 /\ shut' = [shut EXCEPT !.i = @ + 1]
                 /\ UNCHANGED <<status, closing>>
    /\ UNCHANGED <<slices, topics, queues, found, header, accept, send, ctxDone,
                   connects, gone, event, owed, budget>>

\* ... which returns when the node has been removed; ...
CloseWait ==
    /\ Running /\ shut.at = "wait" /\ closing[shut.node] = "done"
    /\ shut' = [shut EXCEPT !.at = "next", !.i = @ + 1, !.node = Nil]
    /\ UNCHANGED <<slices, status, topics, queues, closers, accept, send,
                   ctxDone, connects, gone, event, owed, budget>>

\* ... in the end groups.g is a new slice.
CloseReturns ==
    /\ Running /\ shut.at = "next" /\ shut.i > shut.len
    /\ arrays' = Append(arrays, <<>>)
    /\ g' = [arr |-> Len(arrays) + 1, len |-> 0]
    /\ shut' = [Idle EXCEPT !.at = "done"]
    /\ UNCHANGED <<status, topics, queues, closers, accept, send, ctxDone,
                   connects, gone, event, owed, budget>>

\* main returns when the binlog service has closed.
Exit == Running /\ shut.at = "done" /\ Halt("exit")

-----------------------------------------------------------------------------
Sending(s) ==
    \/ sendAllNext(s) \/ asyncSendCheck(s) \/ asyncSendSpin(s)
    \/ asyncSend(s) \/ asyncSendPanics(s)

Closing(n) ==
    \/ removeFind(n) \/ removeShift(n) \/ removePanics(n) \/ removeStore(n)
    \/ disconnect(n)

Writing(n) ==
    \/ asyncSendService(n) \/ asyncSendServiceFails(n)
    \/ asyncSendServiceReturns(n)

Accepting == OnConnectStore \/ newConnect

Shutdown == Close \/ CloseNext \/ CloseWait \/ CloseReturns \/ Exit

Client(n) ==
    \/ OnConnect(n) \/ onMessage(n) \/ onConnectReturns(n)
    \/ \E f \in Filters : onSetPro(n, f)

Next ==
    \/ Cancel \/ SendAll \/ keepalive
    \/ Accepting \/ Shutdown
    \/ \E s \in Senders : Sending(s)
    \/ \E n \in Nodes : Client(n) \/ Closing(n) \/ Writing(n)

Spec == Init /\ [][Next]_vars

\* Go's scheduler runs every goroutine that can run; a write ends, with an error
\* after its deadline.  Nothing is assumed of clients and events.
Fairness ==
    /\ WF_vars(Accepting) /\ WF_vars(Shutdown)
    /\ \A s \in Senders : WF_vars(Sending(s))
    /\ \A n \in Nodes : WF_vars(Closing(n)) /\ WF_vars(Writing(n))

FairSpec == Spec /\ Fairness

-----------------------------------------------------------------------------
(* Properties. *)

Header == [arr : 1..Len(arrays), len : Nat]
LoopState == [at : {"idle", "next", "check", "spin", "push", "wait", "done"},
              arr : 1..Len(arrays), len : Nat, i : Nat \ {0}, node : Nodes \cup {Nil}]

\* Every variable keeps its type; a queue holds no more than its capacity, and
\* the slice of the groups, whatever races store it, shows only nodes.
TypeOK ==
    /\ arrays \in Seq(Seq(Nodes \cup {Nil})) /\ g \in Header
    /\ g.len <= Len(arrays[g.arr])
    /\ \A i \in 1..g.len : arrays[g.arr][i] \in Nodes
    /\ status \in [Nodes -> {"none", "online", "offline"}]
    /\ topics \in [Nodes -> SUBSET Filters]
    /\ sendQueue \in [Nodes -> Seq(Event \cup {Control})]
    /\ \A n \in Nodes : Len(sendQueue[n]) <= QueueCap
    /\ writer \in [Nodes -> BOOLEAN]
    /\ written \in [Nodes -> Seq(Event)]
    /\ closing \in [Nodes -> {"no", "find", "shift", "store", "count", "done"}]
    /\ found \in [Nodes -> Nat] /\ header \in [Nodes -> Header]
    /\ accept \in [at : {"idle", "store", "count"}, node : Nodes \cup {Nil},
                   header : Header]
    /\ send \in [Senders -> LoopState] /\ shut \in LoopState
    /\ ctxDone \in BOOLEAN /\ gone \in {"no", "panic", "exit"}
    /\ connects \in Int /\ budget \in [Bounded -> Nat]
    /\ event \in 0..LastEvent /\ owed \in [Nodes -> SUBSET Event]

\* What the client has got and what waits for it.
Got(n) == written[n] \o sendQueue[n]

\* A client gets events in the order of SendAll, however the loops and the
\* slices race; an event may come twice, but no older one after a newer one.
InOrder ==
    \A n \in Nodes : \A i, j \in DOMAIN Got(n) :
        i < j /\ Got(n)[j] # Control => Got(n)[i] <= Got(n)[j]

\* The connection counter is the number of clients online whenever no client is
\* being counted in or out: reader, writer and groups.close may all try to
\* close a node, and it is counted out once.
ConnectsAccurate ==
    accept.at = "idle" /\ (\A n \in Nodes : ~NodeLocked(n)) =>
        connects = Cardinality({n \in Nodes : status[n] = "online"})

\* The event of the loop that is under way.
InFlight == IF send["event"].at = "idle" THEN {} ELSE {event}

\* The events owed to client n, and not just being sent, that it has not got.
Missing(n) == (owed[n] \ InFlight) \ {Got(n)[i] : i \in DOMAIN Got(n)}

\* As long as no client leaves, every client that is connected and subscribed
\* when SendAll is called gets the event exactly once.
ExactlyOnce ==
    (\A n \in Nodes : status[n] # "offline") =>
        \A n \in Nodes :
            /\ Missing(n) = {}
            /\ \A i, j \in DOMAIN Got(n) :
                Got(n)[i] = Got(n)[j] /\ Got(n)[i] # Control => i = j

\* A sender waits for room in a queue that nobody empties any more.
Stuck(s) ==
    /\ send[s].at \in {"spin", "push"}
    /\ LET n == send[s].node
       IN  Len(sendQueue[n]) = QueueCap /\ (status[n] = "offline" \/ ~writer[n])

\* SendAll returns to the binlog service, slow, silent and leaving clients
\* notwithstanding, unless the process ends or it waits for a full queue whose
\* writer is gone.
SendAllReturns ==
    send["event"].at # "idle" ~>
        (send["event"].at = "idle" \/ Stuck("event"))

=============================================================================
