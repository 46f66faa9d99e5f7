---------------------------- MODULE AgentClient ----------------------------
(***************************************************************************)
(* The agent's TCP client (agent/client.go): requests that wait for their  *)
(* answer, and a connection that Connect makes and the reader takes down.  *)
(*                                                                         *)
(* Only the map of waiters has a lock.  The status bit and the connection  *)
(* are two words that Connect, Disconnect, the reader and the writers read *)
(* and write one after the other.                                          *)
(***************************************************************************)
EXTENDS Integers, Sequences

CONSTANTS
    LastId,        \* Send numbers its requests 1..LastId
    Connectors,    \* goroutines that call Connect
    Budgets        \* bounds, of which a behaviour has one

\* What is bounded: dials, connections that break, calls of Disconnect, requests
\* and answers.
Bounded == {"dial", "break", "disconnect", "request", "answer"}

ASSUME AgentClientAssumption ==
    /\ LastId \in Nat
    /\ Budgets \subseteq [Bounded -> Nat]

Requests == 1..LastId

VARIABLES
    waiter,        \* waiter[r]: whether Client.waiter holds it, its channel, its caller
    status,        \* the bit statusConnect
    conn,          \* Client.conn, an index of conns, 0 for nil
    conns,         \* connections dialled: state and the answers on their way
    buffer,        \* Client.buffer, the answers in it
    reader,        \* readMessage: its step, the connection or the request it is at
    disconnect,    \* disconnect[d]: where a call of Disconnect is
    connect,       \* connect[k]: where a call of Connect is
    panicked,      \* a nil connection was used: the process is gone
    read,          \* history: requests whose answer was read
    lost,          \* history: onMessage recovered and dropped answers
    overlap,       \* history: a Connect overlapped a Connect or a Disconnect
    budget         \* how much of each bound is left

link == <<status, conn, conns, disconnect, connect, overlap>>
traffic == <<buffer, reader, read, lost>>
vars == <<waiter, link, traffic, panicked, budget>>

Nobody == 0

\* A connection is "open", "broken" by the peer or "closed" by Disconnect.
Open == [state |-> "open", stream |-> <<>>]
Dead(how) == [state |-> how, stream |-> <<>>]

Disconnecters == {"reader", "caller"}

\* status: in Client.waiter ("in"), or not before ("new") or any more ("out").
\* data: the channel, of capacity 1.  caller: the state of Send and Wait.  via:
\* the connection its request was written to.
Init ==
    /\ waiter = [r \in Requests |-> [status |-> "new", data |-> <<>>,
                                     closed |-> 0, caller |-> "idle", via |-> Nobody]]
    /\ status = FALSE /\ conn = Nobody /\ conns = <<>>
    /\ buffer = <<>>
    /\ reader = [at |-> "top", what |-> Nobody]
    /\ disconnect = [d \in Disconnecters |-> "idle"]
    /\ connect = [k \in Connectors |-> [at |-> "idle", conn |-> Nobody]]
    /\ panicked = FALSE
    /\ read = {} /\ lost = FALSE /\ overlap = FALSE
    /\ budget \in Budgets

Spend(x) == /\ budget[x] > 0
            /\ budget' = [budget EXCEPT ![x] = @ - 1]

-----------------------------------------------------------------------------
(* Connect and Disconnect. *)

\* Another call of Connect, or a Disconnect, is under way.
Overlaps(k) == \/ \E j \in Connectors \ {k} : connect[j].at # "idle"
               \/ \E d \in Disconnecters : disconnect[d] # "idle"

ConnectStep(k, at, c) ==
    /\ connect' = [connect EXCEPT ![k] = [at |-> at, conn |-> c]]
    /\ overlap' = (overlap \/ Overlaps(k))

\* Mutant: the status is not looked at.
ConnectAgain(k) ==
    /\ ~panicked /\ connect[k].at = "idle"
    /\ ConnectStep(k, "dial", Nobody)
    /\ UNCHANGED <<waiter, status, conn, conns, disconnect, traffic, panicked, budget>>

\* Connect returns ErrIsConnected while the bit is set; otherwise it dials, ...
Connect(k) ==
    /\ ~panicked /\ connect[k].at = "idle" /\ ~status
    /\ ConnectStep(k, "dial", Nobody)
    /\ UNCHANGED <<waiter, status, conn, conns, disconnect, traffic, panicked, budget>>

\* ... and returns if that fails, ...
ConnectDial(k) ==
    /\ ~panicked /\ connect[k].at = "dial"
    /\ \/ /\ Spend("dial")
          /\ conns' = Append(conns, Open)
          /\ ConnectStep(k, "bit", Len(conns) + 1)
       \/ /\ ConnectStep(k, "idle", Nobody)
          /\ UNCHANGED <<conns, budget>>
    /\ UNCHANGED <<waiter, status, conn, disconnect, traffic, panicked>>

\* ... sets the bit, ...
ConnectBit(k) ==
    /\ ~panicked /\ connect[k].at = "bit"
    /\ status' = TRUE
    /\ ConnectStep(k, "conn", connect[k].conn)
    /\ UNCHANGED <<waiter, conn, conns, disconnect, traffic, panicked, budget>>

\* ... and only then stores the connection.
ConnectConn(k) ==
    /\ ~panicked /\ connect[k].at = "conn"
    /\ conn' = connect[k].conn
    /\ ConnectStep(k, "idle", Nobody)
    /\ UNCHANGED <<waiter, status, conns, disconnect, traffic, panicked, budget>>

DisconnectStep(d, at) ==
    /\ disconnect' = [disconnect EXCEPT ![d] = at]
    /\ overlap' = (overlap \/ \E k \in Connectors : connect[k].at # "idle")

\* Disconnect, which does nothing unless the bit is set, closes the connection, ...
Disconnect(d) ==
    /\ disconnect[d] = "idle" /\ status /\ conn # Nobody
    /\ conns' = [conns EXCEPT ![conn] = Dead("closed")]
    /\ DisconnectStep(d, "clear")

\* Mutant: the bit stays set.
DisconnectKeepsBit(d) ==
    /\ ~panicked /\ disconnect[d] = "clear"
    /\ DisconnectStep(d, "idle")
    /\ UNCHANGED <<waiter, status, conn, conns, connect, traffic, panicked, budget>>

\* ... looks at the bit again, ...
DisconnectClear(d) ==
    /\ ~panicked /\ disconnect[d] = "clear"
    /\ DisconnectStep(d, IF status THEN "xor" ELSE "idle")
    /\ UNCHANGED <<waiter, status, conn, conns, connect, traffic, panicked, budget>>

\* ... and inverts it.
DisconnectXor(d) ==
    /\ ~panicked /\ disconnect[d] = "xor"
    /\ status' = ~status
    /\ DisconnectStep(d, "idle")
    /\ UNCHANGED <<waiter, conn, conns, connect, traffic, panicked, budget>>

CallDisconnect ==
    /\ ~panicked
    /\ Spend("disconnect")
    /\ Disconnect("caller")
    /\ UNCHANGED <<waiter, status, conn, connect, traffic, panicked>>

\* The peer closes the connection, and what it had sent is lost.
Break(c) ==
    /\ ~panicked /\ conns[c].state = "open"
    /\ Spend("break")
    /\ conns' = [conns EXCEPT ![c] = Dead("broken")]
    /\ UNCHANGED <<waiter, status, conn, disconnect, connect, overlap, traffic,
                   panicked>>

\* Write (keepalive every three seconds, AsyncSend) and readMessage use the
\* connection when the bit is set: it may not be there yet.
UseNil ==
    /\ ~panicked /\ status /\ conn = Nobody
    /\ panicked' = TRUE
    /\ UNCHANGED <<waiter, link, traffic, budget>>

-----------------------------------------------------------------------------
(* Send and Wait. *)

\* Send registers a waiter, ...
Send(r) ==
    /\ ~panicked /\ waiter[r].caller = "idle" /\ status
    /\ \A q \in 1..(r - 1) : waiter[q].caller # "idle"
    /\ Spend("request")
    /\ waiter' = [waiter EXCEPT ![r].caller = "write", ![r].status = "in"]
    /\ UNCHANGED <<link, traffic, panicked>>

\* The request goes to the connection there is by then; on a dead one it fails.
Write(r, caller) ==
    IF conns[conn].state = "open"
    THEN [waiter[r] EXCEPT !.caller = caller, !.via = conn]
    ELSE [waiter[r] EXCEPT !.caller = "error"]

\* Mutant: the waiter is registered after the request is written.
SendWriteFirst(r) ==
    /\ ~panicked /\ conn # Nobody
    /\ \/ /\ waiter[r].caller = "idle" /\ status
          /\ waiter' = [waiter EXCEPT ![r] = Write(r, "late")]
       \/ /\ waiter[r].caller = "late"
          /\ waiter' = [waiter EXCEPT ![r].caller = "wait", ![r].status = "in"]
    /\ UNCHANGED <<link, traffic, panicked, budget>>

\* ... then writes the request; after an error it leaves the waiter to keep.
SendWrite(r) ==
    /\ ~panicked /\ conn # Nobody /\ waiter[r].caller = "write"
    /\ waiter' = [waiter EXCEPT ![r] = Write(r, "wait")]
    /\ UNCHANGED <<link, traffic, panicked, budget>>

\* The server answers a request, perhaps late, perhaps twice.
Answer(r) ==
    /\ ~panicked /\ waiter[r].via # Nobody /\ conns[waiter[r].via].state = "open"
    /\ Spend("answer")
    /\ conns' = [conns EXCEPT ![waiter[r].via].stream = Append(@, r)]
    /\ UNCHANGED <<waiter, status, conn, disconnect, connect, overlap, traffic,
                   panicked>>

\* Wait takes the answer, or finds the channel closed, ...
Wait(r) ==
    /\ ~panicked /\ waiter[r].caller = "wait"
    /\ \/ /\ waiter[r].data # <<>>
          /\ waiter' = [waiter EXCEPT ![r].caller = "del", ![r].data = <<>>]
       \/ /\ waiter[r].data = <<>> /\ waiter[r].closed > 0
          /\ waiter' = [waiter EXCEPT ![r].caller = "done"]
    /\ UNCHANGED <<link, traffic, panicked, budget>>

\* ... or times out, and leaves the waiter to keep.
WaitTimeout(r) ==
    /\ ~panicked /\ waiter[r].caller = "wait"
    /\ waiter' = [waiter EXCEPT ![r].caller = "timeout"]
    /\ UNCHANGED <<link, traffic, panicked, budget>>

Closed(w) == [w EXCEPT !.status = "out", !.closed = @ + 1]

\* Mutant: the waiter that has its answer is closed without being looked up.
delWaiterBlind(r) ==
    /\ ~panicked /\ waiter[r].caller = "del"
    /\ waiter' = [waiter EXCEPT ![r] = [Closed(@) EXCEPT !.caller = "done"]]
    /\ UNCHANGED <<link, traffic, panicked, budget>>

\* After an answer Wait calls delWaiter: under the lock, if the map still has the
\* waiter, its channel is closed and it leaves the map.
delWaiter(r) ==
    /\ ~panicked /\ waiter[r].caller = "del"
    /\ waiter' = [waiter EXCEPT ![r] =
            [(IF @.status = "in" THEN Closed(@) ELSE @) EXCEPT !.caller = "done"]]
    /\ UNCHANGED <<link, traffic, panicked, budget>>

\* Mutant: keep deletes the waiter and leaves its channel open.
keepForgets(r) ==
    /\ ~panicked /\ waiter[r].status = "in"
    /\ waiter' = [waiter EXCEPT ![r].status = "out"]
    /\ UNCHANGED <<link, traffic, panicked, budget>>

\* Mutant: keep only looks at waiters whose caller still waits.
keepWaiting(r) ==
    /\ ~panicked /\ waiter[r].status = "in" /\ waiter[r].caller = "wait"
    /\ waiter' = [waiter EXCEPT ![r] = Closed(@)]
    /\ UNCHANGED <<link, traffic, panicked, budget>>

\* keep, under the lock, closes and deletes a waiter that is past its time.
keep(r) ==
    /\ ~panicked /\ waiter[r].status = "in"
    /\ waiter' = [waiter EXCEPT ![r] = Closed(@)]
    /\ UNCHANGED <<link, traffic, panicked, budget>>

-----------------------------------------------------------------------------
(* readMessage and onMessage. *)

\* With the bit set the reader waits in Read, of the connection there is by then.
readMessage ==
    /\ ~panicked /\ reader.at = "top" /\ status /\ conn # Nobody
    /\ reader' = [at |-> "read", what |-> conn]
    /\ UNCHANGED <<waiter, link, buffer, read, lost, panicked, budget>>

\* Read returns some of the answers, ...
Read ==
    /\ ~panicked /\ reader.at = "read"
    /\ LET stream == conns[reader.what].stream
       IN  \E i \in DOMAIN stream :
            /\ buffer' = buffer \o SubSeq(stream, 1, i)
            /\ conns' = [conns EXCEPT ![reader.what].stream = SubSeq(@, i + 1, Len(@))]
            /\ read' = read \cup {stream[j] : j \in 1..i}
    /\ reader' = [at |-> "next", what |-> Nobody]
    /\ UNCHANGED <<waiter, status, conn, disconnect, connect, overlap, lost,
                   panicked, budget>>

\* ... or an error, upon which the reader calls Disconnect, ...
ReadFails ==
    /\ ~panicked /\ reader.at = "read" /\ conns[reader.what].state # "open"
    /\ \/ Disconnect("reader")
       \/ ~status /\ UNCHANGED <<conns, disconnect, overlap>>
    /\ reader' = [at |-> "down", what |-> Nobody]
    /\ UNCHANGED <<waiter, status, conn, connect, buffer, read, lost,
                   panicked, budget>>

\* ... and goes on when it has returned.
ReadAgain ==
    /\ ~panicked /\ reader.at = "down" /\ disconnect["reader"] = "idle"
    /\ reader' = [at |-> "top", what |-> Nobody]
    /\ UNCHANGED <<waiter, link, buffer, read, lost, panicked, budget>>

\* onMessage takes the next answer from the buffer and looks its waiter up,
\* under the lock, ...
onMessage ==
    /\ ~panicked /\ reader.at = "next"
    /\ \/ /\ buffer = <<>>
          /\ reader' = [at |-> "top", what |-> Nobody]
          /\ UNCHANGED buffer
       \/ /\ buffer # <<>>
          /\ buffer' = Tail(buffer)
          /\ reader' = IF waiter[Head(buffer)].status = "in"
                       THEN [at |-> "send", what |-> Head(buffer)] ELSE reader
    /\ UNCHANGED <<waiter, link, read, lost, panicked, budget>>

\* ... then, without it, sends the answer on the waiter's channel, waiting for
\* room.  If that channel is closed by then, or while it waits, onMessage
\* recovers, drops the rest of the buffer and returns.
onMessageSend ==
    /\ ~panicked /\ reader.at = "send"
    /\ LET r == reader.what
       IN  \/ /\ waiter[r].closed = 0 /\ waiter[r].data = <<>>
              /\ waiter' = [waiter EXCEPT ![r].data = <<r>>]
              /\ reader' = [at |-> "next", what |-> Nobody]
              /\ UNCHANGED <<buffer, lost>>
           \/ /\ waiter[r].closed > 0
              /\ buffer' = <<>>
              /\ lost' = (lost \/ buffer # <<>>)
              /\ reader' = [at |-> "top", what |-> Nobody]
              /\ UNCHANGED waiter
    /\ UNCHANGED <<link, read, panicked, budget>>

-----------------------------------------------------------------------------
Connecting(k) == ConnectDial(k) \/ ConnectBit(k) \/ ConnectConn(k)

Disconnecting(d) == DisconnectClear(d) \/ DisconnectXor(d)

Reading ==
    \/ readMessage \/ Read \/ ReadFails \/ ReadAgain \/ onMessage \/ onMessageSend

Waiting(r) == SendWrite(r) \/ Wait(r) \/ delWaiter(r)

Next ==
    \/ Reading \/ UseNil \/ CallDisconnect
    \/ \E k \in Connectors : Connect(k) \/ Connecting(k)
    \/ \E d \in Disconnecters : Disconnecting(d)
    \/ \E c \in DOMAIN conns : Break(c)
    \/ \E r \in Requests :
        Send(r) \/ Waiting(r) \/ WaitTimeout(r) \/ Answer(r) \/ keep(r)

Spec == Init /\ [][Next]_vars

\* Go's scheduler runs every goroutine that can run, and keep comes round when a
\* waiter is past its time.  Nothing is assumed of the server and the callers.
Fairness ==
    /\ WF_vars(Reading)
    /\ \A k \in Connectors : WF_vars(Connecting(k))
    /\ \A d \in Disconnecters : WF_vars(Disconnecting(d))
    /\ \A r \in Requests : WF_vars(Waiting(r)) /\ WF_vars(keep(r))

FairSpec == Spec /\ Fairness

-----------------------------------------------------------------------------
(* Properties. *)

\* No channel is closed twice (a panic in the goroutine that does), although
\* Wait and keep both close it when they are done with a waiter.
ClosedOnce == \A r \in Requests : waiter[r].closed <= 1

\* An answer that was read while its waiter is in the map is on its way to the
\* caller: in the buffer, in the reader's hand, in the channel or taken.  It
\* can be lost only when an answer that came too late made onMessage drop its
\* buffer.
AnswersArrive ==
    \A r \in read :
        waiter[r].status = "in" /\ ~lost =>
            \/ \E i \in DOMAIN buffer : buffer[i] = r
            \/ reader.at = "send" /\ reader.what = r
            \/ waiter[r].data # <<>> \/ waiter[r].caller = "del"

\* Unless a Connect ran into another one or into a Disconnect, the client leaves
\* no connection open that it does not use.
NoLeak ==
    ~overlap => \A c \in DOMAIN conns : conns[c].state = "open" =>
        (status /\ conn = c) \/ \E k \in Connectors : connect[k].conn = c

\* Every waiter leaves the map, answered or not: timed out callers and requests
\* that failed leave theirs there, keep takes them out.
WaitersLeave ==
    \A r \in Requests :
        waiter[r].status = "in" ~> waiter[r].status = "out" \/ panicked

\* The reader does not wait for ever on a channel nobody receives from, such as
\* that of a second answer: keep closes it.
ReaderFree == reader.at = "send" ~> reader.at # "send" \/ panicked

OnDead == status /\ conn # Nobody /\ conns[conn].state # "open"

\* The reader waits for another connection, one of two overlapping Connects.
ReadsOther == /\ reader.at = "read" /\ reader.what # conn
              /\ conns[reader.what].state = "open"

\* A connection that is dead does not keep the bit set for good, whatever the
\* races of Connect and Disconnect made of the bit: the reader clears it, and
\* Connect can dial again, unless the reader is left with another connection.
DeadNoticed == OnDead ~> ~OnDead \/ ReadsOther \/ panicked

=============================================================================
