------------------------- MODULE AgentServerProofs -------------------------
(***************************************************************************)
(* What holds of the agent's TCP server for every number of connections    *)
(* and callers: the slice of the clients is exact, and a broadcast that no *)
(* removal overlaps reaches every client once.                             *)
(***************************************************************************)
EXTENDS AgentServer, SliceFacts, FiniteSetTheorems

-----------------------------------------------------------------------------
(* The inductive invariant. *)

Status == {"none", "online", "closing", "closed"}
Conn == {"up", "stalled", "left", "reset"}

NodeType == [status : Status, queue : Seq(Nat), held : Seq(Nat), writer : BOOLEAN,
             conn : Conn, written : Seq(Nat)]

LoopType == [at : {"idle", "next", "send", "wait", "done"}, arr : Nat, len : Nat,
             i : Nat \ {0}, node : 0..Conns, msg : Nat]

ArraysType == arrays \in Seq(Seq(0..Conns)) /\ clients \in [arr : Nat, len : Nat]
NodesType == node \in [Nodes -> NodeType] /\ accept \in 0..Conns
LoopsType == loop \in [Loops -> LoopType]
HistoryType == sent \in Seq(SUBSET Nodes) /\ clean \subseteq 1..Len(sent)

\* A header lies within its array and shows nodes, no nil.
Shows(A, h) == Within(A, h) /\ \A i \in 1..h.len : A[h.arr][i] # Nil

HeadersShow == Shows(arrays, clients) /\ \A l \in Loops : Shows(arrays, loop[l])

\* A node the accept loop has appended.
Joined(n) == n \in Nodes /\ n # accept /\ node[n].status # "none"

\* Whatever an array holds, in places no header shows any more too, and whatever
\* a loop is at has been appended.
ElementsJoined ==
    \A a \in 1..Len(arrays) : \A i \in 1..Len(arrays[a]) :
        arrays[a][i] # Nil => Joined(arrays[a][i])

LoopsJoined ==
    \A l \in Loops :
        /\ loop[l].at \in {"send", "wait"} => Joined(loop[l].node)
        /\ l \in Callers => loop[l].at \in {"idle", "next", "send"}

\* Nothing has been sent to a node that is not appended yet.
Fresh(n) == node[n].queue = <<>> /\ node[n].held = <<>>

NewcomersFresh ==
    /\ \A n \in Nodes : node[n].status = "none" => Fresh(n)
    /\ accept \in Nodes => node[accept].status = "online" /\ Fresh(accept)

\* The slice shows the clients that were accepted and are not removed, once.
Listed(n) == n \in Nodes /\ n # accept /\ node[n].status \in {"online", "closing"}

SliceLists ==
    /\ Distinct(arrays, clients)
    /\ \A n \in Nodes : n \in View(arrays, clients) <=> Listed(n)

ServerInv ==
    /\ ArraysType /\ NodesType /\ LoopsType /\ HistoryType
    /\ HeadersShow /\ ElementsJoined /\ LoopsJoined /\ NewcomersFresh /\ SliceLists

\* What a broadcast has sent.
HasNone(n, b) == Never(node[n].written, b) /\ Never(node[n].held, b) /\ Never(node[n].queue, b)
HasOne(n, b) ==
    \/ Once(node[n].written, b) /\ Never(node[n].held, b) /\ Never(node[n].queue, b)
    \/ Never(node[n].written, b) /\ Once(node[n].held, b) /\ Never(node[n].queue, b)
    \/ Never(node[n].written, b) /\ Never(node[n].held, b) /\ Once(node[n].queue, b)

\* A client that is connected.
Up(n) == node[n].status = "online" /\ node[n].conn \in {"up", "stalled"}

Active(c) == c \in Callers /\ loop[c].at # "idle"

\* Every broadcast has a number of its own, and a message in a queue has begun.
BroadcastsDiffer ==
    /\ \A l \in Loops : loop[l].msg <= Len(sent)
    /\ \A c \in Callers : Active(c) => loop[c].msg # Keepalive
    /\ \A l \in Loops \ Callers : loop[l].msg = Keepalive
    /\ \A c, d \in Callers : Active(c) /\ Active(d) /\ loop[c].msg = loop[d].msg => c = d
    /\ \A n \in Nodes, b \in Nat : b > Len(sent) => HasNone(n, b)
    /\ \A b \in 1..Len(sent) : \A n \in sent[b] : Joined(n)

\* A broadcast that no removal has overlapped yet: every client it is for is at a
\* place of its header, and has the message if the loop has been there.
Reached(c, n) ==
    \E p \in 1..loop[c].len :
        /\ arrays[loop[c].arr][p] = n
        /\ p < loop[c].i => HasOne(n, loop[c].msg)
        /\ p >= loop[c].i => HasNone(n, loop[c].msg)

Underway(c) ==
    /\ Earlier(loop[c], clients) /\ Distinct(arrays, loop[c])
    /\ loop[c].at = "send" =>
         loop[c].i <= loop[c].len /\ loop[c].node = arrays[loop[c].arr][loop[c].i]
    /\ \A n \in sent[loop[c].msg] : Up(n) => Reached(c, n)

CallersUnderway == \A c \in Callers : Active(c) /\ loop[c].msg \in clean => Underway(c)

\* A broadcast that ended has reached everyone it was for.
Over(b) == \A c \in Callers : Active(c) => loop[c].msg # b
EndedReached == \A b \in clean : Over(b) => \A n \in sent[b] : Up(n) => HasOne(n, b)

BroadcastInv ==
    ServerInv /\ BroadcastsDiffer /\ CallersUnderway /\ EndedReached

-----------------------------------------------------------------------------
(* The initial states. *)

LEMMA InitialArrays ==
    ASSUME Init
    PROVE  /\ arrays = << <<>> >> /\ Len(arrays) = 1 /\ arrays[1] = <<>> /\ Len(arrays[1]) = 0
           /\ arrays \in Seq(Seq(0..Conns))
<1>1. arrays = << <<>> >>
  BY DEF Init
<1>2. <<>> \in Seq(0..Conns) /\ Len(<<>>) = 0
  OBVIOUS
<1> QED
  BY <1>1, <1>2

LEMMA InitialServer ==
    ASSUME Init PROVE ServerInv
<1> USE AgentServerAssumption
<1>1. clients.arr = 1 /\ clients.len = 0 /\ ArraysType
  BY InitialArrays DEF Init, ArraysType
<1>2. NodesType
  <2>1. Unborn \in NodeType
    BY DEF Unborn, NodeType, Status, Conn
  <2> QED
    BY <2>1 DEF Init, NodesType, Nil
<1>3. LoopsType
  BY DEF Init, LoopsType, LoopType, Idle, Nil, Keepalive
<1>4. HistoryType
  BY DEF Init, HistoryType
<1>5. HeadersShow
  <2>1. \A h : h.arr = 1 /\ h.len = 0 => Shows(arrays, h)
    <3>1. Len(arrays) = 1 /\ Len(arrays[1]) = 0
      BY InitialArrays
    <3> QED
      BY <3>1 DEF Shows, Within
  <2>2. \A l \in Loops : loop[l].arr = 1 /\ loop[l].len = 0
    BY DEF Init, Idle
  <2> QED
    BY <1>1, <2>1, <2>2 DEF HeadersShow
<1>6. ElementsJoined
  <2>1. \A a \in 1..Len(arrays) : a = 1 /\ 1..Len(arrays[a]) = {}
    <3>1. Len(arrays) = 1 /\ Len(arrays[1]) = 0
      BY InitialArrays
    <3> QED
      BY <3>1
  <2> QED
    BY <2>1 DEF ElementsJoined
<1>7. LoopsJoined
  BY DEF Init, LoopsJoined, Idle
<1>8. NewcomersFresh
  BY DEF Init, NewcomersFresh, Fresh, Unborn, Nil, Nodes
<1>9. SliceLists
  <2>1. 1..clients.len = {}
    BY <1>1
  <2>2. Distinct(arrays, clients) /\ View(arrays, clients) = {}
    BY <2>1 DEF Distinct, View
  <2>3. \A n \in Nodes : ~Listed(n)
    BY DEF Init, Listed, Unborn
  <2> QED
    BY <2>2, <2>3 DEF SliceLists
<1> QED
  BY <1>1, <1>2, <1>3, <1>4, <1>5, <1>6, <1>7, <1>8, <1>9 DEF ServerInv

-----------------------------------------------------------------------------
(* What a step does to a node. *)

\* Node n may change, no other does.
Only(n) ==
    node' \in [Nodes -> NodeType] /\ \A m \in Nodes \ {n} : node'[m] = node[m]

Same(n, f) == node'[n][f] = node[n][f]
SameQueues(n) == Same(n, "queue") /\ Same(n, "held") /\ Same(n, "written")

LEMMA OneNode ==
    ASSUME NodesType, NEW n \in Nodes, NEW r \in NodeType, node' = [node EXCEPT ![n] = r]
    PROVE  Only(n) /\ node'[n] = r
BY DEF NodesType, Only

LEMMA NodeFields ==
    ASSUME NodesType, NEW n \in Nodes
    PROVE  /\ node[n].status \in Status /\ node[n].queue \in Seq(Nat)
           /\ node[n].held \in Seq(Nat) /\ node[n].writer \in BOOLEAN
           /\ node[n].conn \in Conn /\ node[n].written \in Seq(Nat) /\ node[n] \in NodeType
BY DEF NodesType, NodeType

LEMMA LoopFields ==
    ASSUME LoopsType, NEW l \in Loops
    PROVE  /\ loop[l] \in LoopType /\ loop[l].arr \in Nat /\ loop[l].len \in Nat
           /\ loop[l].i \in Nat \ {0} /\ loop[l].node \in 0..Conns /\ loop[l].msg \in Nat
           /\ loop[l].at \in {"idle", "next", "send", "wait", "done"}
BY DEF LoopsType, LoopType

LEMMA AcceptNode ==
    ASSUME NodesType, NEW n \in Nodes, Accept(n)
    PROVE  /\ Only(n) /\ SameQueues(n) /\ Same(n, "conn") /\ node'[n].status = "online"
           /\ node[n].status = "none" /\ accept = Nil /\ accept' = n
           /\ UNCHANGED <<slices, loop, process, history>>
<1> DEFINE r == [node[n] EXCEPT !.status = "online", !.writer = TRUE]
<1>1. node' = [node EXCEPT ![n] = r] /\ r \in NodeType
  BY NodeFields DEF Accept, NodeType, Status
<1>2. Only(n) /\ node'[n] = r
  BY <1>1, OneNode
<1>3. SameQueues(n) /\ Same(n, "conn") /\ node'[n].status = "online"
  BY <1>2, NodeFields DEF SameQueues, Same, NodeType
<1> QED
  BY <1>2, <1>3 DEF Accept

LEMMA RemoveNode ==
    ASSUME NodesType, NEW n \in Nodes, remove(n)
    PROVE  /\ Only(n) /\ SameQueues(n) /\ Same(n, "conn")
           /\ node[n].status = "closing" /\ node'[n].status = "closed"
           /\ UNCHANGED <<accept, loop, process, sent>>
           /\ clean' = clean \ {loop[l].msg : l \in {c \in Callers : loop[c].at # "idle"}}
<1> DEFINE r == [node[n] EXCEPT !.status = "closed"]
<1>1. node' = [node EXCEPT ![n] = r] /\ r \in NodeType
  BY NodeFields DEF remove, NodeType, Status
<1>2. Only(n) /\ node'[n] = r
  BY <1>1, OneNode
<1> QED
  BY <1>2, NodeFields DEF remove, SameQueues, Same, NodeType

LEMMA TakeNode ==
    ASSUME NodesType, NEW n \in Nodes, asyncSendServiceTake(n)
    PROVE  /\ Only(n) /\ Same(n, "status") /\ Same(n, "conn") /\ Same(n, "written")
           /\ node[n].held = <<>> /\ node[n].queue # <<>>
           /\ node'[n].held = <<Head(node[n].queue)>> /\ node'[n].queue = Tail(node[n].queue)
           /\ UNCHANGED <<slices, accept, loop, process, history>>
<1> DEFINE h == <<Head(node[n].queue)>>
           q == Tail(node[n].queue)
           r == [node[n] EXCEPT !.held = h, !.queue = q]
<1>1. node[n].queue \in Seq(Nat) /\ node[n].queue # <<>>
  BY NodeFields DEF asyncSendServiceTake
<1>2. h \in Seq(Nat) /\ q \in Seq(Nat)
  <2>1. Head(node[n].queue) \in Nat /\ Tail(node[n].queue) \in Seq(Nat)
    BY <1>1, HeadTailProperties
  <2> QED
    BY <2>1
<1>3. node' = [node EXCEPT ![n] = r]
  BY NodeFields DEF asyncSendServiceTake, NodeType
<1> HIDE DEF h, q
<1>4. r \in NodeType
  BY <1>2, NodeFields DEF NodeType
<1>5. Only(n) /\ node'[n] = r
  BY <1>3, <1>4, OneNode
<1>6. /\ Same(n, "status") /\ Same(n, "conn") /\ Same(n, "written")
      /\ node'[n].held = h /\ node'[n].queue = q
  BY <1>5, NodeFields DEF Same, NodeType
<1>7. node[n].held = <<>> /\ UNCHANGED <<slices, accept, loop, process, history>>
  BY DEF asyncSendServiceTake, Waits
<1> QED
  BY <1>1, <1>5, <1>6, <1>7 DEF h, q

LEMMA WriteNode ==
    ASSUME NodesType, NEW n \in Nodes, asyncSendServiceWrite(n)
    PROVE  /\ Only(n) /\ node[n].held # <<>> /\ Same(n, "queue")
           /\ UNCHANGED <<slices, accept, loop, process, history>>
           /\ \/ /\ Same(n, "status") /\ Same(n, "conn") /\ node'[n].held = <<>>
                 /\ \/ node[n].held = <<Keepalive>> /\ Same(n, "written")
                    \/ node'[n].written = node[n].written \o node[n].held
              \/ Same(n, "status") /\ node'[n].conn = "reset" /\ Same(n, "written")
                 /\ node'[n].held = <<>>
              \/ /\ SameQueues(n) /\ Same(n, "conn")
                 /\ Same(n, "status") \/ (node[n].status = "online" /\ node'[n].status = "closing")
<1>0. /\ node[n].held # <<>> /\ UNCHANGED <<slices, accept, loop, process, history>>
      /\ node[n].status \in Status /\ node[n].queue \in Seq(Nat)
      /\ node[n].held \in Seq(Nat) /\ node[n].writer \in BOOLEAN
      /\ node[n].conn \in Conn /\ node[n].written \in Seq(Nat) /\ node[n] \in NodeType
  BY NodeFields DEF asyncSendServiceWrite, Writes
<1>1. CASE /\ node[n].status = "online" /\ node[n].conn = "up"
           /\ node' = [node EXCEPT ![n].held = <<>>,
                 ![n].written = IF node[n].held = <<Keepalive>> THEN @
                                ELSE @ \o node[n].held]
  <2> DEFINE w == IF node[n].held = <<Keepalive>> THEN node[n].written
                  ELSE node[n].written \o node[n].held
             e == <<>>
             r == [node[n] EXCEPT !.held = e, !.written = w]
  <2>1. w \in Seq(Nat) /\ e \in Seq(Nat)
    BY <1>0, ConcatProperties
  <2>2. \/ w = node[n].written /\ node[n].held = <<Keepalive>>
        \/ w = node[n].written \o node[n].held
    OBVIOUS
  <2>3. node' = [node EXCEPT ![n] = r]
    BY <1>0, <1>1 DEF NodeType
  <2> HIDE DEF w, e
  <2>4. r \in NodeType
    BY <1>0, <2>1 DEF NodeType
  <2>5. Only(n) /\ node'[n] = r
    BY <2>3, <2>4, OneNode
  <2> QED
    <3>1. /\ Same(n, "status") /\ Same(n, "conn") /\ Same(n, "queue")
          /\ node'[n].held = e /\ node'[n].written = w
      BY <1>0, <2>5 DEF Same, NodeType
    <3> QED
      BY <1>0, <2>2, <2>5, <3>1 DEF Same, e
<1>2. CASE /\ node[n].status = "online" /\ node[n].conn = "left"
           /\ node' = [node EXCEPT ![n].held = <<>>, ![n].conn = "reset"]
  <2> DEFINE e == <<>>
             r == [node[n] EXCEPT !.held = e, !.conn = "reset"]
  <2>1. node' = [node EXCEPT ![n] = r] /\ e \in Seq(Nat)
    <3>1. node' = [node EXCEPT ![n] = r]
      BY <1>0, <1>2 DEF NodeType
    <3>2. e \in Seq(Nat)
      OBVIOUS
    <3> QED
      BY <3>1, <3>2
  <2> HIDE DEF e
  <2>2. r \in NodeType
    BY <1>0, <2>1 DEF NodeType, Conn
  <2>3. Only(n) /\ node'[n] = r
    BY <2>1, <2>2, OneNode
  <2>4. /\ Same(n, "status") /\ node'[n].conn = "reset" /\ Same(n, "written")
        /\ Same(n, "queue") /\ node'[n].held = e
    BY <1>0, <2>3 DEF Same, NodeType
  <2> QED
    BY <1>0, <2>3, <2>4 DEF e
<1>3. CASE node' = [node EXCEPT ![n] = [close(n) EXCEPT !.writer = FALSE]]
  <2> DEFINE r == [close(n) EXCEPT !.writer = FALSE]
  <2>1. /\ close(n) \in NodeType /\ close(n).queue = node[n].queue
        /\ close(n).held = node[n].held /\ close(n).written = node[n].written
        /\ close(n).conn = node[n].conn
        /\ close(n).status = node[n].status
           \/ (node[n].status = "online" /\ close(n).status = "closing")
    BY <1>0 DEF close, NodeType, Status
  <2>2. r \in NodeType
    BY <2>1 DEF NodeType
  <2>3. Only(n) /\ node'[n] = r
    BY <1>3, <2>2, OneNode
  <2> QED
    BY <1>0, <2>1, <2>3 DEF Same, SameQueues, NodeType
<1> QED
  BY <1>1, <1>2, <1>3 DEF asyncSendServiceWrite

LEMMA ReturnsNode ==
    ASSUME NodesType, NEW n \in Nodes, asyncSendServiceReturns(n)
    PROVE  /\ Only(n) /\ SameQueues(n) /\ Same(n, "conn") /\ Same(n, "status")
           /\ UNCHANGED <<slices, accept, loop, process, history>>
<1> DEFINE r == [node[n] EXCEPT !.writer = FALSE]
<1>1. node' = [node EXCEPT ![n] = r] /\ r \in NodeType
  BY NodeFields DEF asyncSendServiceReturns, NodeType
<1>2. Only(n) /\ node'[n] = r
  BY <1>1, OneNode
<1> QED
  BY <1>2, NodeFields DEF asyncSendServiceReturns, SameQueues, Same, NodeType

LEMMA CloseNode ==
    ASSUME NodesType, NEW n \in Nodes, node' = [node EXCEPT ![n] = close(n)]
    PROVE  /\ Only(n) /\ SameQueues(n) /\ Same(n, "conn")
           /\ Same(n, "status") \/ (node[n].status = "online" /\ node'[n].status = "closing")
<1>1. /\ close(n) \in NodeType /\ close(n).queue = node[n].queue
      /\ close(n).held = node[n].held /\ close(n).written = node[n].written
      /\ close(n).conn = node[n].conn
      /\ close(n).status = node[n].status
         \/ (node[n].status = "online" /\ close(n).status = "closing")
  BY NodeFields DEF close, NodeType, Status
<1>2. Only(n) /\ node'[n] = close(n)
  BY <1>1, OneNode
<1> QED
  BY <1>1, <1>2 DEF Same, SameQueues

LEMMA PeerNode ==
    ASSUME NodesType, NEW n \in Nodes, NEW c \in Conn, Peer(n, c)
    PROVE  /\ Only(n) /\ SameQueues(n) /\ Same(n, "status")
           /\ node'[n].conn \in {"up", "stalled"} => node[n].conn \in {"up", "stalled"}
           /\ UNCHANGED <<slices, accept, loop, process, history>>
<1> DEFINE r == [node[n] EXCEPT !.conn = c]
<1>1. node' = [node EXCEPT ![n] = r] /\ r \in NodeType
  BY NodeFields DEF Peer, NodeType
<1>2. Only(n) /\ node'[n] = r
  BY <1>1, OneNode
<1>3. c \in {"up", "stalled"} => node[n].conn \in {"up", "stalled"}
  BY DEF Peer
<1> QED
  BY <1>2, <1>3, NodeFields DEF Peer, SameQueues, Same, NodeType

\* AsyncSend puts its message on the queue of its node, or the process ends.
LEMMA SendNode ==
    ASSUME NodesType, LoopsType, NEW l \in Loops, loop[l].node \in Nodes, AsyncSend(l)
    PROVE  /\ UNCHANGED <<slices, accept, history>> /\ loop[l].at = "send"
           /\ \/ UNCHANGED <<node, loop>>
              \/ /\ Only(loop[l].node) /\ Same(loop[l].node, "status")
                 /\ Same(loop[l].node, "conn") /\ Same(loop[l].node, "held")
                 /\ Same(loop[l].node, "written") /\ node[loop[l].node].status = "online"
                 /\ node'[loop[l].node].queue = Append(node[loop[l].node].queue, loop[l].msg)
                 /\ loop' = Advance(l)
<1> DEFINE n == loop[l].node
           q == Append(node[n].queue, loop[l].msg)
           r == [node[n] EXCEPT !.queue = q]
<1>0. UNCHANGED <<slices, accept, history>> /\ loop[l].at = "send"
  BY DEF AsyncSend
<1>1. CASE UNCHANGED <<node, loop>>
  BY <1>0, <1>1
<1>2. CASE /\ node[n].status = "online" /\ loop' = Advance(l)
           /\ node' = [node EXCEPT ![n].queue = Append(@, loop[l].msg)]
  <2>1. node[n].queue \in Seq(Nat) /\ loop[l].msg \in Nat /\ n \in Nodes
    BY NodeFields, LoopFields
  <2>2. q \in Seq(Nat)
    BY <2>1, AppendProperties
  <2>3. node' = [node EXCEPT ![n] = r]
    BY <1>2, NodeFields DEF NodeType
  <2> HIDE DEF q, n
  <2>4. r \in NodeType
    BY <2>1, <2>2, NodeFields DEF NodeType
  <2>5. Only(n) /\ node'[n] = r
    BY <2>1, <2>3, <2>4, OneNode
  <2>6. /\ Same(n, "status") /\ Same(n, "conn") /\ Same(n, "held") /\ Same(n, "written")
        /\ node'[n].queue = q
    BY <2>1, <2>5, NodeFields DEF Same, NodeType
  <2> QED
    BY <1>0, <1>2, <2>5, <2>6 DEF n, q
<1> QED
  BY <1>1, <1>2 DEF AsyncSend

-----------------------------------------------------------------------------
(* What a step does to the slice. *)

LEMMA ClientFields ==
    ASSUME ArraysType, HeadersShow
    PROVE  /\ arrays \in Seq(Seq(0..Conns)) /\ clients \in [arr : Nat, len : Nat]
           /\ clients.arr \in Nat /\ clients.len \in Nat
           /\ Within(arrays, clients) /\ clients.arr \in 1..Len(arrays)
           /\ \A i \in 1..clients.len : arrays[clients.arr][i] # Nil
BY DEF ArraysType, HeadersShow, Shows, Within

LEMMA AppendSlice ==
    ASSUME ArraysType, NodesType, HeadersShow, append
    PROVE  /\ Grown(0..Conns, arrays, arrays', clients, clients'.arr, accept, Nil)
           /\ clients' \in [arr : Nat, len : Nat] /\ clients'.len = clients.len + 1
           /\ accept \in Nodes /\ accept' = Nil
           /\ UNCHANGED <<node, loop, process, history>>
<1> USE AgentServerAssumption
<1>1. /\ arrays' = Appended(arrays, clients, accept, Nil)
      /\ clients' = [arr |-> AppendedArr(arrays, clients), len |-> clients.len + 1]
  BY DEF append, Appended, AppendedArr, HasRoom
<1>2. accept \in Nodes /\ accept \in 0..Conns /\ Nil \in 0..Conns
  BY DEF append, NodesType, Nodes, Nil
<1>3. Grown(0..Conns, arrays, Appended(arrays, clients, accept, Nil), clients,
            AppendedArr(arrays, clients), accept, Nil)
  <2> DEFINE S == 0..Conns
  <2>1. /\ arrays \in Seq(Seq(S)) /\ clients.arr \in Nat /\ clients.len \in Nat
        /\ Within(arrays, clients) /\ accept \in S /\ Nil \in S
    BY <1>2, ClientFields
  <2> HIDE DEF S
  <2>2. Grown(S, arrays, Appended(arrays, clients, accept, Nil), clients,
              AppendedArr(arrays, clients), accept, Nil)
    BY <2>1, AppendedEffect
  <2> QED
    BY <2>2 DEF S
<1>4. clients'.arr = AppendedArr(arrays, clients) /\ clients'.len = clients.len + 1
  BY <1>1
<1>5. AppendedArr(arrays, clients) \in Nat
  <2>1. Len(arrays) \in Nat
    BY ClientFields
  <2> QED
    BY <2>1, ClientFields DEF AppendedArr
<1>6. clients' \in [arr : Nat, len : Nat]
  BY <1>1, <1>5, ClientFields
<1>7. Grown(0..Conns, arrays, arrays', clients, clients'.arr, accept, Nil)
  BY <1>1, <1>3, <1>4
<1>8. accept' = Nil /\ UNCHANGED <<node, loop, process, history>>
  BY DEF append
<1> QED
  BY <1>2, <1>4, <1>6, <1>7, <1>8

\* A node that is being removed is in the slice.
LEMMA RemoveSlice ==
    ASSUME ServerInv, NEW n \in Nodes, remove(n)
    PROVE  \E k \in 1..clients.len :
             /\ arrays[clients.arr][k] = n
             /\ Shrunk(0..Conns, arrays, arrays', clients, k)
             /\ clients' \in [arr : Nat, len : Nat]
             /\ clients'.arr = clients.arr /\ clients'.len = clients.len - 1
<1> DEFINE at == {i \in 1..clients.len : Elements[i] = n}
           k == CHOOSE i \in at : \A j \in at : i <= j
<1>0. ArraysType /\ HeadersShow /\ NodesType /\ NewcomersFresh /\ SliceLists
  BY DEF ServerInv
<1>1. at = {i \in 1..clients.len : arrays[clients.arr][i] = n}
  BY DEF Elements
<1>2. at # {}
  <2>1. node[n].status = "closing"
    BY DEF remove
  <2>2. n # accept
    BY <1>0, <2>1 DEF NewcomersFresh
  <2>3. n \in View(arrays, clients)
    BY <1>0, <2>1, <2>2 DEF SliceLists, Listed
  <2> QED
    BY <1>1, <2>3 DEF View
<1>3. at \in SUBSET Nat
  BY <1>0, ClientFields
<1>4. /\ arrays' = [arrays EXCEPT ![clients.arr] = [i \in DOMAIN @ |->
                       IF k <= i /\ i < clients.len THEN @[i + 1] ELSE @[i]]]
      /\ clients' = [clients EXCEPT !.len = @ - 1]
  BY <1>2 DEF remove
<1>5. k \in at
  <2> HIDE DEF at
  <2>1. \E i \in at : \A j \in at : i <= j
    BY <1>2, <1>3, MinExists
  <2> QED
    BY <2>1
<1>6. k \in 1..clients.len /\ arrays[clients.arr][k] = n
  BY <1>1, <1>5
<1> HIDE DEF at, k
<1>7. arrays' = Removed(arrays, clients, k)
  BY <1>4 DEF Removed
<1>8. Shrunk(0..Conns, arrays, arrays', clients, k)
  <2> DEFINE S == 0..Conns
  <2>1. /\ arrays \in Seq(Seq(S)) /\ clients.arr \in Nat /\ clients.len \in Nat
        /\ Within(arrays, clients) /\ k \in 1..clients.len
    BY <1>0, <1>6, ClientFields
  <2> HIDE DEF S
  <2>2. Shrunk(S, arrays, Removed(arrays, clients, k), clients, k)
    BY <2>1, RemovedEffect
  <2> QED
    BY <1>7, <2>2 DEF S
<1>9. clients' \in [arr : Nat, len : Nat] /\ clients'.arr = clients.arr
      /\ clients'.len = clients.len - 1
  <2>1. clients \in [arr : Nat, len : Nat] /\ clients.len - 1 \in Nat
    BY <1>0, <1>6, ClientFields
  <2> QED
    BY <1>4, <2>1
<1> QED
  BY <1>6, <1>8, <1>9

\* Every other step leaves the arrays and the slice alone.
LEMMA SliceMoves ==
    ASSUME Next
    PROVE  append \/ (\E n \in Nodes : remove(n)) \/ UNCHANGED slices
<1> DEFINE F == append \/ (\E n \in Nodes : remove(n)) \/ UNCHANGED slices
<1>1. append \/ keepalive \/ Cancel \/ Closing => F
  BY DEF keepalive, Cancel, Closing, Close, CloseNext, CloseWait
<1>2. \A c \in Callers : Broadcast(c) => F
  BY DEF Broadcast
<1>3. \A l \in Loops : Looping(l) => F
  BY DEF Looping, LoopEnds, AsyncSendCheck, AsyncSend
<1>4. \A n \in Nodes : Accept(n) \/ remove(n) \/ readMessage(n) \/ Writing(n) => F
  BY DEF Accept, readMessage, Writing, asyncSendServiceTake, asyncSendServiceWrite,
     asyncSendServiceReturns
<1>5. \A n \in Nodes, c \in {"up", "stalled", "left", "reset"} : Peer(n, c) => F
  BY DEF Peer
<1> HIDE DEF F
<1>6. F
  BY <1>1, <1>2, <1>3, <1>4, <1>5 DEF Next
<1> QED
  BY <1>6 DEF F

\* What an element of the arrays of the next state was.
LEMMA ElementsCome ==
    ASSUME ServerInv, Next
    PROVE  /\ arrays' \in Seq(Seq(0..Conns)) /\ Len(arrays) <= Len(arrays') /\ Len(arrays) \in Nat
           /\ \A a \in 1..Len(arrays) :
                /\ Len(arrays'[a]) = Len(arrays[a]) /\ Len(arrays[a]) \in Nat
                /\ \A i \in 1..Len(arrays[a]) : arrays[a][i] # Nil => arrays'[a][i] # Nil
           /\ \A a \in 1..Len(arrays') : \A i \in 1..Len(arrays'[a]) :
                \/ arrays'[a][i] = Nil
                \/ append /\ arrays'[a][i] = accept
                \/ \E b \in 1..Len(arrays) : \E j \in 1..Len(arrays[b]) :
                        arrays'[a][i] = arrays[b][j]
<1>0. /\ arrays \in Seq(Seq(0..Conns)) /\ clients.arr \in Nat /\ clients.len \in Nat
      /\ clients.arr \in 1..Len(arrays) /\ clients.len <= Len(arrays[clients.arr])
      /\ \A i \in 1..clients.len : arrays[clients.arr][i] # Nil
      /\ ArraysType /\ NodesType /\ HeadersShow
  BY ClientFields DEF ServerInv, Within
<1>1. Len(arrays) \in Nat /\ \A a \in 1..Len(arrays) : Len(arrays[a]) \in Nat
  <2>1. \A a \in 1..Len(arrays) : arrays[a] \in Seq(0..Conns)
    BY <1>0
  <2> QED
    BY <1>0, <2>1
<1>2. \A i \in 1..clients.len : i \in 1..Len(arrays[clients.arr])
  BY <1>0, <1>1
<1>3. CASE UNCHANGED slices
  BY <1>0, <1>1, <1>3 DEF slices
<1>4. CASE append
  <2>1. /\ Grown(0..Conns, arrays, arrays', clients, clients'.arr, accept, Nil)
        /\ accept \in Nodes
    BY <1>0, <1>4, AppendSlice
  <2>2. accept # Nil
    BY <2>1 DEF Nodes, Nil
  <2>3. arrays' \in Seq(Seq(0..Conns)) /\ Len(arrays) <= Len(arrays')
    BY <2>1 DEF Grown
  <2>4. \A a \in 1..Len(arrays) :
          /\ Len(arrays'[a]) = Len(arrays[a])
          /\ \A i \in 1..Len(arrays[a]) :
               arrays'[a][i] = arrays[a][i] \/ arrays'[a][i] = accept
    BY <2>1 DEF Grown
  <2>5. ASSUME NEW a \in 1..Len(arrays'), NEW i \in 1..Len(arrays'[a])
        PROVE  \/ arrays'[a][i] = Nil
               \/ arrays'[a][i] = accept
               \/ \E b \in 1..Len(arrays) : \E j \in 1..Len(arrays[b]) :
                        arrays'[a][i] = arrays[b][j]
    <3>1. CASE a \in 1..Len(arrays)
      BY <2>4, <2>5, <3>1
    <3>2. CASE a \notin 1..Len(arrays)
      <4>1. a = clients'.arr /\ (i <= clients.len \/ arrays'[a][i] \in {accept, Nil})
        BY <2>1, <2>5, <3>2 DEF Grown
      <4>2. ASSUME i <= clients.len PROVE arrays'[a][i] = arrays[clients.arr][i]
                                          /\ i \in 1..clients.len
        <5>1. i \in 1..clients.len
          BY <1>0, <2>5, <4>2
        <5> QED
          BY <2>1, <4>1, <5>1 DEF Grown
      <4> QED
        BY <1>0, <1>2, <4>1, <4>2
    <3> QED
      BY <3>1, <3>2
  <2> QED
    BY <1>1, <1>4, <2>2, <2>3, <2>4, <2>5
<1>5. ASSUME NEW n \in Nodes, remove(n) PROVE
           /\ arrays' \in Seq(Seq(0..Conns)) /\ Len(arrays) = Len(arrays')
           /\ \A a \in 1..Len(arrays) :
                /\ Len(arrays'[a]) = Len(arrays[a])
                /\ \A i \in 1..Len(arrays[a]) :
                    \/ arrays'[a][i] = arrays[a][i]
                    \/ \E j \in 1..Len(arrays[a]) :
                            arrays'[a][i] = arrays[a][j] /\ arrays[a][j] # Nil
  <2>1. PICK k \in 1..clients.len : Shrunk(0..Conns, arrays, arrays', clients, k)
    BY <1>5, RemoveSlice
  <2>2. arrays' \in Seq(Seq(0..Conns)) /\ Len(arrays) = Len(arrays')
    BY <2>1 DEF Shrunk
  <2>3. \A a \in 1..Len(arrays) :
          Len(arrays'[a]) = Len(arrays[a]) /\ (a # clients.arr => arrays'[a] = arrays[a])
    BY <2>1 DEF Shrunk
  <2>4. \A i \in 1..Len(arrays[clients.arr]) :
          \/ arrays'[clients.arr][i] = arrays[clients.arr][i]
          \/ i + 1 \in 1..Len(arrays[clients.arr]) /\ i + 1 \in 1..clients.len
             /\ arrays'[clients.arr][i] = arrays[clients.arr][i + 1]
    BY <2>1 DEF Shrunk
  <2>5. \A i \in 1..Len(arrays[clients.arr]) :
          \/ arrays'[clients.arr][i] = arrays[clients.arr][i]
          \/ \E j \in 1..Len(arrays[clients.arr]) :
                arrays'[clients.arr][i] = arrays[clients.arr][j] /\ arrays[clients.arr][j] # Nil
    BY <1>0, <2>4
  <2>6. ASSUME NEW a \in 1..Len(arrays), NEW i \in 1..Len(arrays[a])
        PROVE  \/ arrays'[a][i] = arrays[a][i]
               \/ \E j \in 1..Len(arrays[a]) :
                        arrays'[a][i] = arrays[a][j] /\ arrays[a][j] # Nil
    <3>1. CASE a = clients.arr
      BY <2>5, <2>6, <3>1
    <3>2. CASE a # clients.arr
      BY <2>3, <2>6, <3>2
    <3> QED
      BY <3>1, <3>2
  <2> QED
    BY <2>2, <2>3, <2>6
<1>6. CASE \E n \in Nodes : remove(n)
  <2>1. PICK n \in Nodes : remove(n)
    BY <1>6
  <2>2. /\ arrays' \in Seq(Seq(0..Conns)) /\ Len(arrays) = Len(arrays')
        /\ \A a \in 1..Len(arrays) : Len(arrays'[a]) = Len(arrays[a])
    BY <1>5, <2>1
  <2>3. \A a \in 1..Len(arrays) : \A i \in 1..Len(arrays[a]) :
          \/ arrays'[a][i] = arrays[a][i]
          \/ \E j \in 1..Len(arrays[a]) :
                arrays'[a][i] = arrays[a][j] /\ arrays[a][j] # Nil
    BY <1>5, <2>1
  <2>4. \A a \in 1..Len(arrays) : \A i \in 1..Len(arrays[a]) :
          arrays[a][i] # Nil => arrays'[a][i] # Nil
    BY <2>3
  <2>5. \A a \in 1..Len(arrays') : \A i \in 1..Len(arrays'[a]) :
          \E b \in 1..Len(arrays) : \E j \in 1..Len(arrays[b]) :
                arrays'[a][i] = arrays[b][j]
    <3>1. ASSUME NEW a \in 1..Len(arrays'), NEW i \in 1..Len(arrays'[a])
          PROVE  \E j \in 1..Len(arrays[a]) : arrays'[a][i] = arrays[a][j]
      <4>1. a \in 1..Len(arrays) /\ i \in 1..Len(arrays[a])
        BY <2>2, <3>1
      <4> QED
        BY <2>3, <4>1
    <3>2. 1..Len(arrays') = 1..Len(arrays)
      BY <2>2
    <3> QED
      BY <3>1, <3>2
  <2>6. Len(arrays) <= Len(arrays')
    BY <1>1, <2>2
  <2> QED
    BY <1>1, <2>2, <2>4, <2>5, <2>6
<1> QED
  BY <1>3, <1>4, <1>6, SliceMoves

-----------------------------------------------------------------------------
(* How the nodes move. *)

LEMMA CurrentJoined ==
    ASSUME ServerInv, NEW l \in Loops, loop[l].i <= loop[l].len
    PROVE  Joined(Current(l)) /\ Current(l) \in Nodes
<1>1. /\ loop[l].arr \in 1..Len(arrays) /\ loop[l].len <= Len(arrays[loop[l].arr])
      /\ \A i \in 1..loop[l].len : arrays[loop[l].arr][i] # Nil
  BY DEF ServerInv, HeadersShow, Shows, Within
<1>2. loop[l].i \in Nat \ {0} /\ loop[l].len \in Nat
  BY LoopFields DEF ServerInv
<1>3. Len(arrays[loop[l].arr]) \in Nat
  <2>1. arrays[loop[l].arr] \in Seq(0..Conns)
    BY <1>1 DEF ServerInv, ArraysType
  <2> QED
    BY <2>1
<1>4. loop[l].i \in 1..loop[l].len /\ loop[l].i \in 1..Len(arrays[loop[l].arr])
  BY <1>1, <1>2, <1>3
<1>5. Joined(Current(l))
  BY <1>1, <1>4 DEF Current, ServerInv, ElementsJoined
<1> QED
  BY <1>5 DEF Joined

\* How the status of a node moves.
Moves(n) ==
    \/ Same(n, "status")
    \/ node[n].status = "none" /\ node'[n].status = "online" /\ accept = Nil /\ accept' = n
    \/ node[n].status = "online" /\ node'[n].status = "closing" /\ n # accept
       /\ UNCHANGED <<arrays, clients, accept>>
    \/ remove(n)

\* A node that is not appended yet stays without messages.
StaysFresh(n) ==
    Fresh(n) /\ ~Joined(n) => node'[n].queue = <<>> /\ node'[n].held = <<>>

AcceptMoves ==
    \/ UNCHANGED accept
    \/ append
    \/ \E n \in Nodes : accept = Nil /\ accept' = n /\ node[n].status = "none"
                        /\ node'[n].status = "online" /\ UNCHANGED <<arrays, clients>>

NodesMove == NodesType' /\ AcceptMoves /\ \A n \in Nodes : Moves(n) /\ StaysFresh(n)

LEMMA OnlyMoves ==
    ASSUME NodesType, NEW n \in Nodes, Only(n), UNCHANGED accept, Moves(n), StaysFresh(n)
    PROVE  NodesMove
<1>1. \A m \in Nodes \ {n} : Moves(m) /\ StaysFresh(m)
  BY DEF Only, Moves, StaysFresh, Same, Fresh
<1>2. NodesType'
  BY DEF Only, NodesType
<1> QED
  BY <1>1, <1>2 DEF NodesMove, AcceptMoves

LEMMA IdleMoves ==
    ASSUME NodesType, UNCHANGED node, UNCHANGED accept \/ append, accept' \in 0..Conns
    PROVE  NodesMove
BY DEF NodesType, NodesMove, AcceptMoves, Moves, StaysFresh, Same, Fresh

LEMMA NodeActions ==
    ASSUME ServerInv, NEW n \in Nodes, Accept(n) \/ remove(n) \/ readMessage(n) \/ Writing(n)
    PROVE  NodesMove
<1> USE AgentServerAssumption
<1>0. NodesType /\ NewcomersFresh
  BY DEF ServerInv
<1>1. CASE Accept(n)
  <2>1. /\ Only(n) /\ SameQueues(n) /\ node'[n].status = "online"
        /\ node[n].status = "none" /\ accept = Nil /\ accept' = n
        /\ UNCHANGED <<arrays, clients>>
    BY <1>0, <1>1, AcceptNode DEF slices
  <2>2. NodesType'
    BY <2>1 DEF Only, NodesType, Nodes
  <2>3. \A m \in Nodes \ {n} : Moves(m) /\ StaysFresh(m)
    BY <2>1 DEF Only, Moves, StaysFresh, Same, Fresh
  <2>4. Moves(n) /\ StaysFresh(n)
    BY <2>1 DEF Moves, StaysFresh, SameQueues, Same, Fresh
  <2>5. AcceptMoves
    BY <2>1 DEF AcceptMoves
  <2> QED
    BY <2>2, <2>3, <2>4, <2>5 DEF NodesMove
<1>2. CASE remove(n)
  <2>1. Only(n) /\ SameQueues(n) /\ UNCHANGED accept
    BY <1>0, <1>2, RemoveNode
  <2>2. Moves(n) /\ StaysFresh(n)
    BY <1>2, <2>1 DEF Moves, StaysFresh, SameQueues, Same, Fresh
  <2> QED
    BY <1>0, <2>1, <2>2, OnlyMoves
<1>3. CASE readMessage(n)
  <2>1. node' = [node EXCEPT ![n] = close(n)] /\ accept # n /\ UNCHANGED <<arrays, clients, accept>>
    BY <1>3 DEF readMessage, slices
  <2>2. /\ Only(n) /\ SameQueues(n)
        /\ Same(n, "status") \/ (node[n].status = "online" /\ node'[n].status = "closing")
    BY <1>0, <2>1, CloseNode
  <2>3. Moves(n) /\ StaysFresh(n)
    BY <2>1, <2>2 DEF Moves, StaysFresh, SameQueues, Same, Fresh
  <2> QED
    BY <1>0, <2>1, <2>2, <2>3, OnlyMoves
<1>4. CASE asyncSendServiceTake(n)
  <2>1. Only(n) /\ Same(n, "status") /\ node[n].queue # <<>> /\ UNCHANGED accept
    BY <1>0, <1>4, TakeNode
  <2>2. Moves(n) /\ StaysFresh(n)
    BY <2>1 DEF Moves, StaysFresh, Fresh
  <2> QED
    BY <1>0, <2>1, <2>2, OnlyMoves
<1>5. CASE asyncSendServiceWrite(n)
  <2>1. /\ Only(n) /\ node[n].held # <<>> /\ UNCHANGED <<arrays, clients, accept>>
        /\ Same(n, "status") \/ (node[n].status = "online" /\ node'[n].status = "closing")
    BY <1>0, <1>5, WriteNode DEF slices
  <2>2. n # accept
    BY <1>0, <2>1 DEF NewcomersFresh, Fresh
  <2>3. Moves(n) /\ StaysFresh(n)
    BY <2>1, <2>2 DEF Moves, StaysFresh, Fresh
  <2> QED
    BY <1>0, <2>1, <2>3, OnlyMoves
<1>6. CASE asyncSendServiceReturns(n)
  <2>1. Only(n) /\ SameQueues(n) /\ Same(n, "status") /\ UNCHANGED accept
    BY <1>0, <1>6, ReturnsNode
  <2>2. Moves(n) /\ StaysFresh(n)
    BY <2>1 DEF Moves, StaysFresh, SameQueues, Same, Fresh
  <2> QED
    BY <1>0, <2>1, <2>2, OnlyMoves
<1> QED
  BY <1>1, <1>2, <1>3, <1>4, <1>5, <1>6 DEF Writing

LEMMA PeerMoves ==
    ASSUME ServerInv, NEW n \in Nodes, NEW c \in Conn, Peer(n, c)
    PROVE  NodesMove
<1>0. NodesType
  BY DEF ServerInv
<1>1. Only(n) /\ SameQueues(n) /\ Same(n, "status") /\ UNCHANGED accept
  BY <1>0, PeerNode
<1>2. Moves(n) /\ StaysFresh(n)
  BY <1>1 DEF Moves, StaysFresh, SameQueues, Same, Fresh
<1> QED
  BY <1>0, <1>1, <1>2, OnlyMoves

LEMMA SendMoves ==
    ASSUME ServerInv, NEW l \in Loops, AsyncSend(l)
    PROVE  NodesMove
<1> DEFINE n == loop[l].node
<1>0. NodesType /\ LoopsType /\ accept \in 0..Conns
  BY DEF ServerInv, NodesType
<1>1. Joined(n) /\ n \in Nodes
  BY DEF ServerInv, LoopsJoined, AsyncSend, Joined
<1>2. /\ UNCHANGED accept
      /\ UNCHANGED node \/ (Only(n) /\ Same(n, "status"))
  BY <1>0, <1>1, SendNode
<1> HIDE DEF n
<1>3. CASE UNCHANGED node
  BY <1>0, <1>2, <1>3, IdleMoves
<1>4. CASE Only(n) /\ Same(n, "status")
  <2>1. Moves(n) /\ StaysFresh(n)
    BY <1>1, <1>4 DEF Moves, StaysFresh
  <2> QED
    BY <1>0, <1>1, <1>2, <1>4, <2>1, OnlyMoves
<1> QED
  BY <1>2, <1>3, <1>4

LEMMA CloseNextMoves ==
    ASSUME ServerInv, CloseNext
    PROVE  NodesMove
<1> DEFINE n == Current("close")
<1>0. NodesType /\ "close" \in Loops
  BY DEF ServerInv, Loops
<1>1. /\ loop["close"].i <= loop["close"].len /\ node' = [node EXCEPT ![n] = close(n)]
      /\ UNCHANGED <<arrays, clients, accept>>
  BY DEF CloseNext, slices
<1>2. Joined(n) /\ n \in Nodes
  BY <1>0, <1>1, CurrentJoined
<1> HIDE DEF n
<1>3. /\ Only(n) /\ SameQueues(n)
      /\ Same(n, "status") \/ (node[n].status = "online" /\ node'[n].status = "closing")
  BY <1>0, <1>1, <1>2, CloseNode
<1>4. Moves(n) /\ StaysFresh(n)
  BY <1>1, <1>2, <1>3 DEF Moves, StaysFresh, Joined
<1> QED
  BY <1>0, <1>1, <1>2, <1>3, <1>4, OnlyMoves

LEMMA NodesMoveNext ==
    ASSUME ServerInv, Next
    PROVE  NodesMove
<1> USE AgentServerAssumption
<1>0. NodesType /\ accept \in 0..Conns
  BY DEF ServerInv, NodesType
<1>1. CASE append
  <2>1. UNCHANGED node /\ accept' = Nil
    BY <1>1 DEF append
  <2>2. accept' \in 0..Conns
    BY <2>1 DEF Nil
  <2> QED
    BY <1>0, <1>1, <2>1, <2>2, IdleMoves
<1>2. CASE keepalive \/ Cancel \/ Close \/ CloseWait
  <2>1. UNCHANGED <<node, accept>>
    BY <1>2 DEF keepalive, Cancel, Close, CloseWait
  <2> QED
    BY <1>0, <2>1, IdleMoves
<1>3. ASSUME NEW c \in Callers, Broadcast(c) PROVE NodesMove
  <2>1. UNCHANGED <<node, accept>>
    BY <1>3 DEF Broadcast
  <2> QED
    BY <1>0, <2>1, IdleMoves
<1>4. ASSUME NEW l \in Loops, LoopEnds(l) \/ AsyncSendCheck(l) PROVE NodesMove
  <2>1. UNCHANGED <<node, accept>>
    BY <1>4 DEF LoopEnds, AsyncSendCheck
  <2> QED
    BY <1>0, <2>1, IdleMoves
<1>5. ASSUME NEW l \in Loops, AsyncSend(l) PROVE NodesMove
  BY <1>5, SendMoves
<1>6. CASE CloseNext
  BY <1>6, CloseNextMoves
<1>7. ASSUME NEW n \in Nodes, Accept(n) \/ remove(n) \/ readMessage(n) \/ Writing(n)
      PROVE  NodesMove
  BY <1>7, NodeActions
<1>8. ASSUME NEW n \in Nodes, NEW c \in {"up", "stalled", "left", "reset"}, Peer(n, c)
      PROVE  NodesMove
  BY <1>8, PeerMoves DEF Conn
<1> QED
  BY <1>1, <1>2, <1>3, <1>4, <1>5, <1>6, <1>7, <1>8 DEF Next, Closing, Looping

LEMMA JoinedStays ==
    ASSUME ServerInv, Next, NEW n, Joined(n)
    PROVE  Joined(n)'
<1>1. n \in Nodes /\ n # accept /\ node[n].status # "none" /\ n # Nil
  BY DEF Joined, Nodes, Nil
<1>2. AcceptMoves /\ Moves(n)
  BY <1>1, NodesMoveNext DEF NodesMove
<1>3. accept' # n
  BY <1>1, <1>2 DEF AcceptMoves, append
<1>4. node'[n].status # "none"
  <2>1. remove(n) => node'[n].status = "closed"
    BY <1>1, RemoveNode DEF ServerInv
  <2> QED
    BY <1>1, <1>2, <2>1 DEF Moves, Same
<1> QED
  BY <1>1, <1>3, <1>4 DEF Joined

-----------------------------------------------------------------------------
(* How the loops move. *)

\* Loop l may change, no other does.
OnlyLoop(l) ==
    loop' \in [Loops -> LoopType] /\ \A k \in Loops \ {l} : loop'[k] = loop[k]

SameHeader(l) ==
    /\ loop'[l].arr = loop[l].arr /\ loop'[l].len = loop[l].len
    /\ loop'[l].msg = loop[l].msg

LEMMA OneLoop ==
    ASSUME LoopsType, NEW l \in Loops, NEW r \in LoopType, loop' = [loop EXCEPT ![l] = r]
    PROVE  OnlyLoop(l) /\ loop'[l] = r
BY DEF LoopsType, OnlyLoop

\* A loop begins, ends, comes to a client it will send to or wait for, or goes on.
Begins(l, m) ==
    /\ OnlyLoop(l) /\ loop'[l].at = "next" /\ loop'[l].arr = clients.arr
    /\ loop'[l].len = clients.len /\ loop'[l].i = 1 /\ loop'[l].msg = m

Ends(l) ==
    /\ OnlyLoop(l) /\ loop'[l].arr = 1 /\ loop'[l].len = 0 /\ loop'[l].msg = Keepalive
    /\ loop'[l].at = IF l = "close" THEN "done" ELSE "idle"

Comes(l, at) ==
    /\ OnlyLoop(l) /\ SameHeader(l) /\ loop'[l].i = loop[l].i /\ loop'[l].at = at
    /\ loop[l].i <= loop[l].len /\ loop'[l].node = Current(l) /\ loop[l].at = "next"

Advances(l) ==
    /\ OnlyLoop(l) /\ SameHeader(l) /\ loop'[l].i = loop[l].i + 1 /\ loop'[l].at = "next"

LEMMA LoopBegins ==
    ASSUME ServerInv, NEW l \in Loops, NEW m \in Nat, loop' = [loop EXCEPT ![l] = Loop(m)]
    PROVE  Begins(l, m)
<1> USE AgentServerAssumption
<1>1. Loop(m) \in LoopType
  BY ClientFields DEF ServerInv, Loop, LoopType, Nil
<1>2. OnlyLoop(l) /\ loop'[l] = Loop(m)
  BY <1>1, OneLoop DEF ServerInv
<1> QED
  BY <1>2 DEF Begins, Loop

LEMMA LoopEnding ==
    ASSUME ServerInv, NEW l \in Loops, LoopEnds(l)
    PROVE  Ends(l)
<1> USE AgentServerAssumption
<1> DEFINE r == IF l = "close" THEN [Idle EXCEPT !.at = "done"] ELSE Idle
<1>1. loop' = [loop EXCEPT ![l] = r]
  BY DEF LoopEnds
<1>2. /\ r \in LoopType /\ r.arr = 1 /\ r.len = 0 /\ r.msg = Keepalive
      /\ r.at = IF l = "close" THEN "done" ELSE "idle"
  BY DEF Idle, LoopType, Nil, Keepalive
<1> HIDE DEF r
<1>3. OnlyLoop(l) /\ loop'[l] = r
  BY <1>1, <1>2, OneLoop DEF ServerInv
<1> QED
  BY <1>2, <1>3 DEF Ends

LEMMA LoopAdvances ==
    ASSUME ServerInv, NEW l \in Loops, loop' = Advance(l)
    PROVE  Advances(l)
<1> USE AgentServerAssumption
<1> DEFINE j == loop[l].i + 1
           r == [loop[l] EXCEPT !.at = "next", !.i = j, !.node = Nil]
<1>0. /\ loop[l] \in LoopType /\ loop[l].i \in Nat \ {0}
  BY LoopFields DEF ServerInv
<1>1. loop' = [loop EXCEPT ![l] = r]
  BY <1>0 DEF Advance, LoopType
<1>2. j \in Nat \ {0} /\ Nil \in 0..Conns
  BY <1>0 DEF Nil
<1> HIDE DEF j
<1>3. r \in LoopType
  BY <1>0, <1>2 DEF LoopType
<1>4. OnlyLoop(l) /\ loop'[l] = r
  BY <1>1, <1>3, OneLoop DEF ServerInv
<1>5. SameHeader(l) /\ loop'[l].i = j /\ loop'[l].at = "next"
  BY <1>0, <1>4 DEF SameHeader, LoopType
<1> QED
  BY <1>4, <1>5 DEF Advances, j

LEMMA LoopComes ==
    ASSUME ServerInv, NEW l \in Loops, NEW at \in {"send", "wait"},
           loop[l].at = "next", loop[l].i <= loop[l].len,
           loop' = [loop EXCEPT ![l].at = at, ![l].node = Current(l)]
    PROVE  Comes(l, at)
<1> DEFINE c == Current(l)
           r == [loop[l] EXCEPT !.at = at, !.node = c]
<1>0. loop[l] \in LoopType
  BY LoopFields DEF ServerInv
<1>1. loop' = [loop EXCEPT ![l] = r]
  BY <1>0 DEF LoopType
<1>2. c \in 0..Conns
  BY CurrentJoined, AgentServerAssumption DEF Nodes
<1> HIDE DEF c
<1>3. r \in LoopType
  BY <1>0, <1>2 DEF LoopType
<1>4. OnlyLoop(l) /\ loop'[l] = r
  BY <1>1, <1>3, OneLoop DEF ServerInv
<1>5. /\ r.arr = loop[l].arr /\ r.len = loop[l].len /\ r.msg = loop[l].msg
      /\ r.i = loop[l].i /\ r.at = at /\ r.node = c
  BY <1>0 DEF LoopType
<1> HIDE DEF r
<1>6. SameHeader(l) /\ loop'[l].i = loop[l].i /\ loop'[l].at = at /\ loop'[l].node = c
  BY <1>4, <1>5 DEF SameHeader
<1> QED
  BY <1>4, <1>6 DEF Comes, c

\* What each loop's step leaves alone.
Still == UNCHANGED <<arrays, clients, node, accept, sent, clean>>

LoopMove(l) ==
    \/ \E c \in Callers : c = l /\ Broadcast(c) /\ Begins(c, Len(sent) + 1)
    \/ l \notin Callers /\ Begins(l, Keepalive) /\ Still
    \/ LoopEnds(l) /\ Ends(l) /\ Still
    \/ l # "close" /\ Comes(l, "send") /\ Still
    \/ AsyncSendCheck(l) /\ node[Current(l)].status # "online" /\ Advances(l) /\ Still
    \/ AsyncSend(l) /\ Advances(l)
    \/ l = "close" /\ (Comes(l, "wait") \/ Advances(l))
       /\ UNCHANGED <<arrays, clients, accept, sent, clean>>

LEMMA LoopingMove ==
    ASSUME ServerInv, NEW l \in Loops, Looping(l)
    PROVE  UNCHANGED loop \/ LoopMove(l)
<1>1. CASE LoopEnds(l)
  <2>1. Still
    BY <1>1 DEF LoopEnds, Still, slices, history
  <2> QED
    BY <1>1, <2>1, LoopEnding DEF LoopMove
<1>2. CASE AsyncSendCheck(l)
  <2>1. Still /\ l # "close" /\ loop[l].at = "next" /\ loop[l].i <= loop[l].len
    BY <1>2 DEF AsyncSendCheck, Still, slices, history
  <2>2. CASE node[Current(l)].status = "online"
    <3>1. loop' = [loop EXCEPT ![l].at = "send", ![l].node = Current(l)]
      BY <1>2, <2>2 DEF AsyncSendCheck
    <3>2. Comes(l, "send")
      BY <2>1, <3>1, LoopComes
    <3> QED
      BY <2>1, <3>2 DEF LoopMove
  <2>3. CASE node[Current(l)].status # "online"
    <3>1. loop' = Advance(l)
      BY <1>2, <2>3 DEF AsyncSendCheck
    <3> QED
      BY <1>2, <2>1, <2>3, <3>1, LoopAdvances DEF LoopMove
  <2> QED
    BY <2>2, <2>3
<1>3. CASE AsyncSend(l)
  <2>1. loop' = Advance(l) \/ UNCHANGED loop
    BY <1>3 DEF AsyncSend
  <2> QED
    BY <1>3, <2>1, LoopAdvances DEF LoopMove
<1> QED
  BY <1>1, <1>2, <1>3 DEF Looping

LEMMA BeginningMove ==
    ASSUME ServerInv
    PROVE  /\ \A c \in Callers : Broadcast(c) => LoopMove(c)
           /\ keepalive => LoopMove("keepalive")
           /\ Close => LoopMove("close")
<1> USE AgentServerAssumption
<1>0. /\ "keepalive" \in Loops \ Callers /\ "close" \in Loops \ Callers
      /\ Callers \subseteq Loops /\ Keepalive \in Nat
  BY DEF Loops, Keepalive
<1>1. ASSUME NEW c \in Callers, Broadcast(c) PROVE LoopMove(c)
  <2>1. Len(sent) \in Nat
    BY DEF ServerInv, HistoryType
  <2>2. Len(sent) + 1 \in Nat
    BY <2>1
  <2>3. loop' = [loop EXCEPT ![c] = Loop(Len(sent) + 1)] /\ c \in Loops
    BY <1>0, <1>1 DEF Broadcast
  <2>4. Begins(c, Len(sent) + 1)
    BY <2>2, <2>3, LoopBegins
  <2> QED
    BY <1>1, <2>4 DEF LoopMove
<1>2. ASSUME keepalive PROVE LoopMove("keepalive")
  <2>1. loop' = [loop EXCEPT !["keepalive"] = Loop(Keepalive)] /\ Still
    BY <1>2 DEF keepalive, Still, slices, history
  <2>2. Begins("keepalive", Keepalive)
    BY <1>0, <2>1, LoopBegins
  <2> QED
    BY <1>0, <2>1, <2>2 DEF LoopMove
<1>3. ASSUME Close PROVE LoopMove("close")
  <2>1. loop' = [loop EXCEPT !["close"] = Loop(Keepalive)] /\ Still
    BY <1>3 DEF Close, Still, slices, history
  <2>2. Begins("close", Keepalive)
    BY <1>0, <2>1, LoopBegins
  <2> QED
    BY <1>0, <2>1, <2>2 DEF LoopMove
<1> QED
  BY <1>1, <1>2, <1>3

LEMMA ClosingMove ==
    ASSUME ServerInv, CloseNext \/ CloseWait
    PROVE  LoopMove("close")
<1>0. "close" \in Loops
  BY DEF Loops
<1>1. UNCHANGED <<arrays, clients, accept, sent, clean>>
  BY DEF CloseNext, CloseWait, slices, history
<1>2. CASE CloseWait
  <2>1. loop' = Advance("close")
    BY <1>2 DEF CloseWait
  <2> QED
    BY <1>0, <1>1, <2>1, LoopAdvances DEF LoopMove
<1>3. CASE CloseNext
  <2>1. /\ loop["close"].at = "next" /\ loop["close"].i <= loop["close"].len
        /\ \/ loop' = [loop EXCEPT !["close"].at = "wait", !["close"].node = Current("close")]
           \/ loop' = Advance("close")
    BY <1>3 DEF CloseNext
  <2>2. CASE loop' = Advance("close")
    BY <1>0, <1>1, <2>2, LoopAdvances DEF LoopMove
  <2>3. CASE loop' = [loop EXCEPT !["close"].at = "wait", !["close"].node = Current("close")]
    <3>1. Comes("close", "wait")
      BY <1>0, <2>1, <2>3, LoopComes
    <3> QED
      BY <1>1, <3>1 DEF LoopMove
  <2> QED
    BY <2>1, <2>2, <2>3
<1> QED
  BY <1>2, <1>3

LEMMA LoopMoves ==
    ASSUME ServerInv, Next
    PROVE  UNCHANGED loop \/ \E l \in Loops : LoopMove(l)
<1> USE AgentServerAssumption
<1>0. "keepalive" \in Loops /\ "close" \in Loops /\ Callers \subseteq Loops
  BY DEF Loops
<1>1. CASE append \/ Cancel
  BY <1>1 DEF append, Cancel
<1>2. CASE keepalive \/ Close
  BY <1>0, <1>2, BeginningMove
<1>3. CASE \E c \in Callers : Broadcast(c)
  BY <1>0, <1>3, BeginningMove
<1>4. CASE \E l \in Loops : Looping(l)
  BY <1>4, LoopingMove
<1>5. CASE CloseNext \/ CloseWait
  BY <1>0, <1>5, ClosingMove
<1>6. ASSUME NEW n \in Nodes, Accept(n) \/ remove(n) \/ readMessage(n) \/ Writing(n)
      PROVE  UNCHANGED loop
  BY <1>6 DEF Accept, remove, readMessage, Writing, asyncSendServiceTake,
     asyncSendServiceWrite, asyncSendServiceReturns
<1>7. ASSUME NEW n \in Nodes, NEW c \in {"up", "stalled", "left", "reset"}, Peer(n, c)
      PROVE  UNCHANGED loop
  BY <1>7 DEF Peer
<1> QED
  BY <1>1, <1>2, <1>3, <1>4, <1>5, <1>6, <1>7 DEF Next, Closing

-----------------------------------------------------------------------------
(* The slice is exact. *)

LEMMA HistoryStep ==
    ASSUME ServerInv, Next
    PROVE  HistoryType'
<1>0. sent \in Seq(SUBSET Nodes) /\ clean \subseteq 1..Len(sent) /\ Len(sent) \in Nat
  BY DEF ServerInv, HistoryType
<1>1. ASSUME NEW c \in Callers, Broadcast(c) PROVE HistoryType'
  <2> DEFINE s == {n \in Nodes : n # accept /\ node[n].status = "online"}
  <2>1. sent' = Append(sent, s) /\ clean' = clean \cup {Len(sent) + 1} /\ s \in SUBSET Nodes
    BY <1>1 DEF Broadcast
  <2> HIDE DEF s
  <2>2. sent' \in Seq(SUBSET Nodes) /\ Len(sent') = Len(sent) + 1
    BY <1>0, <2>1
  <2>3. clean' \subseteq 1..(Len(sent) + 1)
    <3>1. ASSUME NEW b \in clean' PROVE b \in 1..(Len(sent) + 1)
      <4>1. CASE b \in clean
        <5>1. b \in 1..Len(sent)
          BY <1>0, <4>1
        <5> QED
          BY <1>0, <5>1
      <4>2. CASE b = Len(sent) + 1
        BY <1>0, <4>2
      <4> QED
        BY <2>1, <3>1, <4>1, <4>2
    <3> QED
      BY <3>1
  <2> QED
    BY <2>2, <2>3 DEF HistoryType
<1>2. ASSUME NEW n \in Nodes, remove(n) PROVE HistoryType'
  BY <1>0, <1>2 DEF remove, HistoryType
<1>3. CASE UNCHANGED <<sent, clean>>
  BY <1>0, <1>3 DEF HistoryType
<1>4. \/ \E c \in Callers : Broadcast(c)
      \/ \E n \in Nodes : remove(n)
      \/ UNCHANGED <<sent, clean>>
  <2> DEFINE F == \/ \E c \in Callers : Broadcast(c)
                  \/ \E n \in Nodes : remove(n)
                  \/ UNCHANGED <<sent, clean>>
  <2>1. append \/ keepalive \/ Cancel \/ Closing => F
    BY DEF append, keepalive, Cancel, Closing, Close, CloseNext, CloseWait, history
  <2>2. \A c \in Callers : Broadcast(c) => F
    OBVIOUS
  <2>3. \A l \in Loops : Looping(l) => F
    BY DEF Looping, LoopEnds, AsyncSendCheck, AsyncSend, history
  <2>4. \A n \in Nodes : Accept(n) \/ remove(n) \/ readMessage(n) \/ Writing(n) => F
    BY DEF Accept, readMessage, Writing, asyncSendServiceTake, asyncSendServiceWrite,
       asyncSendServiceReturns, history
  <2>5. \A n \in Nodes, c \in {"up", "stalled", "left", "reset"} : Peer(n, c) => F
    BY DEF Peer, history
  <2> HIDE DEF F
  <2>6. F
    BY <2>1, <2>2, <2>3, <2>4, <2>5 DEF Next
  <2> QED
    BY <2>6 DEF F
<1> QED
  BY <1>1, <1>2, <1>3, <1>4

LEMMA LoopsTypeStep ==
    ASSUME ServerInv, Next
    PROVE  LoopsType'
<1>1. CASE UNCHANGED loop
  BY <1>1 DEF ServerInv, LoopsType
<1>2. ASSUME NEW l \in Loops, LoopMove(l) PROVE LoopsType'
  BY <1>2 DEF LoopMove, Begins, Ends, Comes, Advances, OnlyLoop, LoopsType
<1> QED
  BY <1>1, <1>2, LoopMoves

\* What a header of this state shows, it shows in the next one.
LEMMA ShowsStays ==
    ASSUME ServerInv, Next, NEW h, h.arr \in Nat, h.len \in Nat, Shows(arrays, h)
    PROVE  Shows(arrays', h)
<1>1. /\ h.arr \in 1..Len(arrays) /\ h.len <= Len(arrays[h.arr])
      /\ \A i \in 1..h.len : arrays[h.arr][i] # Nil
  BY DEF Shows, Within
<1>2. /\ Len(arrays) <= Len(arrays') /\ Len(arrays) \in Nat /\ Len(arrays') \in Nat
      /\ Len(arrays'[h.arr]) = Len(arrays[h.arr]) /\ Len(arrays[h.arr]) \in Nat
      /\ \A i \in 1..Len(arrays[h.arr]) : arrays[h.arr][i] # Nil => arrays'[h.arr][i] # Nil
  <2>1. arrays' \in Seq(Seq(0..Conns)) /\ Len(arrays) <= Len(arrays') /\ Len(arrays) \in Nat
    BY ElementsCome
  <2>2. Len(arrays') \in Nat
    BY <2>1
  <2>3. \A a \in 1..Len(arrays) :
          /\ Len(arrays'[a]) = Len(arrays[a]) /\ Len(arrays[a]) \in Nat
          /\ \A i \in 1..Len(arrays[a]) : arrays[a][i] # Nil => arrays'[a][i] # Nil
    BY ElementsCome
  <2> QED
    BY <1>1, <2>1, <2>2, <2>3
<1>3. h.arr \in 1..Len(arrays') /\ \A i \in 1..h.len : i \in 1..Len(arrays[h.arr])
  BY <1>1, <1>2
<1> QED
  BY <1>1, <1>2, <1>3 DEF Shows, Within

LEMMA ClientsStep ==
    ASSUME ServerInv, Next
    PROVE  ArraysType' /\ Shows(arrays', clients')
<1>0. /\ ArraysType /\ NodesType /\ HeadersShow /\ arrays' \in Seq(Seq(0..Conns))
      /\ clients \in [arr : Nat, len : Nat]
      /\ clients.arr \in Nat /\ clients.len \in Nat /\ Shows(arrays', clients)
  <2>1. ArraysType /\ NodesType /\ HeadersShow
    BY DEF ServerInv
  <2>2. clients \in [arr : Nat, len : Nat] /\ Shows(arrays, clients)
    BY <2>1 DEF ArraysType, HeadersShow
  <2>3. clients.arr \in Nat /\ clients.len \in Nat
    BY <2>2
  <2> QED
    BY <2>1, <2>2, <2>3, ShowsStays, ElementsCome
<1>1. CASE UNCHANGED slices
  BY <1>0, <1>1 DEF slices, ArraysType
<1>2. CASE append
  <2>1. /\ Grown(0..Conns, arrays, arrays', clients, clients'.arr, accept, Nil)
        /\ clients' \in [arr : Nat, len : Nat] /\ clients'.len = clients.len + 1
        /\ accept \in Nodes
    BY <1>0, <1>2, AppendSlice
  <2>2. /\ clients'.arr \in 1..Len(arrays') /\ clients.len + 1 <= Len(arrays'[clients'.arr])
        /\ arrays'[clients'.arr][clients.len + 1] = accept
        /\ \A i \in 1..clients.len : arrays'[clients'.arr][i] = arrays[clients.arr][i]
    BY <2>1 DEF Grown
  <2>3. \A i \in 1..clients.len : arrays[clients.arr][i] # Nil
    BY <1>0, ClientFields
  <2>4. accept # Nil
    BY <2>1 DEF Nodes, Nil
  <2>5. \A i \in 1..(clients.len + 1) : i \in 1..clients.len \/ i = clients.len + 1
    BY <1>0
  <2>6. \A i \in 1..(clients.len + 1) : arrays'[clients'.arr][i] # Nil
    BY <2>2, <2>3, <2>4, <2>5
  <2> QED
    BY <1>0, <2>1, <2>2, <2>6 DEF ArraysType, Shows, Within
<1>3. ASSUME NEW n \in Nodes, remove(n) PROVE ArraysType' /\ Shows(arrays', clients')
  <2>1. /\ clients' \in [arr : Nat, len : Nat] /\ clients'.arr = clients.arr
        /\ clients'.len = clients.len - 1
    BY <1>3, RemoveSlice
  <2>2. clients'.arr \in 1..Len(arrays') /\ clients.len <= Len(arrays'[clients'.arr])
        /\ \A i \in 1..clients.len : arrays'[clients'.arr][i] # Nil
    BY <1>0, <2>1 DEF Shows, Within
  <2>3. Len(arrays'[clients'.arr]) \in Nat
    <3>1. arrays'[clients'.arr] \in Seq(0..Conns)
      BY <1>0, <2>2
    <3> QED
      BY <3>1
  <2>4. clients'.len <= Len(arrays'[clients'.arr])
        /\ \A i \in 1..clients'.len : i \in 1..clients.len
    BY <1>0, <2>1, <2>2, <2>3
  <2> QED
    BY <1>0, <2>1, <2>2, <2>4 DEF ArraysType, Shows, Within
<1> QED
  BY <1>1, <1>2, <1>3, SliceMoves

LEMMA HeadersStep ==
    ASSUME ServerInv, Next
    PROVE  HeadersShow'
<1>0. \A l \in Loops : Shows(arrays', loop[l])
  <2>1. TAKE l \in Loops
  <2>2. Shows(arrays, loop[l]) /\ loop[l].arr \in Nat /\ loop[l].len \in Nat
    BY LoopFields DEF ServerInv, HeadersShow
  <2> QED
    BY <2>2, ShowsStays
<1>1. Shows(arrays', clients)
  <2>1. Shows(arrays, clients) /\ clients.arr \in Nat /\ clients.len \in Nat
    BY ClientFields DEF ServerInv, HeadersShow
  <2> QED
    BY <2>1, ShowsStays
<1>2. ASSUME NEW h, h.arr = 1, h.len = 0 PROVE Shows(arrays', h)
  <2>1. arrays' \in Seq(Seq(0..Conns)) /\ clients.arr \in 1..Len(arrays')
    BY <1>1, ElementsCome DEF Shows, Within
  <2>2. Len(arrays') \in Nat
    BY <2>1
  <2>3. 1 \in 1..Len(arrays')
    BY <2>1, <2>2
  <2>4. arrays'[1] \in Seq(0..Conns)
    BY <2>1, <2>3
  <2>5. Len(arrays'[1]) \in Nat
    BY <2>4
  <2> QED
    BY <1>2, <2>3, <2>5 DEF Shows, Within
<1>3. ASSUME NEW l \in Loops, LoopMove(l) PROVE \A k \in Loops : Shows(arrays', loop'[k])
  <2>1. OnlyLoop(l)
    BY <1>3 DEF LoopMove, Begins, Ends, Comes, Advances
  <2>2. \/ loop'[l].arr = loop[l].arr /\ loop'[l].len = loop[l].len
        \/ loop'[l].arr = clients.arr /\ loop'[l].len = clients.len
        \/ loop'[l].arr = 1 /\ loop'[l].len = 0
    BY <1>3 DEF LoopMove, Begins, Ends, Comes, Advances, SameHeader
  <2>3. Shows(arrays', loop'[l])
    <3>1. CASE loop'[l].arr = loop[l].arr /\ loop'[l].len = loop[l].len
      BY <1>0, <3>1 DEF Shows, Within
    <3>2. CASE loop'[l].arr = clients.arr /\ loop'[l].len = clients.len
      BY <1>1, <3>2 DEF Shows, Within
    <3>3. CASE loop'[l].arr = 1 /\ loop'[l].len = 0
      BY <1>2, <3>3
    <3> QED
      BY <2>2, <3>1, <3>2, <3>3
  <2> QED
    BY <1>0, <2>1, <2>3 DEF OnlyLoop
<1>4. \A k \in Loops : Shows(arrays', loop'[k])
  <2>1. CASE UNCHANGED loop
    BY <1>0, <2>1
  <2> QED
    BY <1>3, <2>1, LoopMoves
<1> QED
  BY <1>4, ClientsStep DEF HeadersShow

LEMMA ElementsStep ==
    ASSUME ServerInv, Next
    PROVE  ElementsJoined'
<1>1. ASSUME NEW a \in 1..Len(arrays'), NEW i \in 1..Len(arrays'[a]), arrays'[a][i] # Nil,
             NEW x, x = arrays'[a][i]
      PROVE  Joined(x)'
  <2>1. \/ append /\ x = accept
        \/ \E b \in 1..Len(arrays) : \E j \in 1..Len(arrays[b]) : x = arrays[b][j]
    BY <1>1, ElementsCome
  <2>2. CASE append /\ x = accept
    <3>1. accept \in Nodes /\ accept' = Nil /\ UNCHANGED node
      BY <2>2, AppendSlice DEF ServerInv
    <3>2. node[accept].status = "online" /\ accept # Nil
      BY <3>1 DEF ServerInv, NewcomersFresh, Nodes, Nil
    <3> QED
      BY <2>2, <3>1, <3>2 DEF Joined
  <2>3. CASE \E b \in 1..Len(arrays) : \E j \in 1..Len(arrays[b]) : x = arrays[b][j]
    <3>1. Joined(x)
      BY <1>1, <2>3 DEF ServerInv, ElementsJoined
    <3> QED
      BY <3>1, JoinedStays
  <2> QED
    BY <2>1, <2>2, <2>3
<1>2. \A a \in 1..Len(arrays') : \A i \in 1..Len(arrays'[a]) :
        arrays'[a][i] # Nil =>
            arrays'[a][i] \in Nodes /\ arrays'[a][i] # accept'
            /\ node'[arrays'[a][i]].status # "none"
  BY <1>1 DEF Joined
<1> QED
  BY <1>2 DEF ElementsJoined, Joined

LEMMA LoopsStep ==
    ASSUME ServerInv, Next
    PROVE  LoopsJoined'
<1> USE AgentServerAssumption
<1>0. /\ \A k \in Loops : loop[k].at \in {"send", "wait"} =>
            loop[k].node \in Nodes /\ loop[k].node # accept'
            /\ node'[loop[k].node].status # "none"
      /\ \A k \in Loops : k \in Callers => loop[k].at \in {"idle", "next", "send"}
  <2>1. ASSUME NEW k \in Loops, loop[k].at \in {"send", "wait"}, NEW n, n = loop[k].node
        PROVE  n \in Nodes /\ n # accept' /\ node'[n].status # "none"
    <3>1. Joined(n)
      BY <2>1 DEF ServerInv, LoopsJoined
    <3> QED
      BY <3>1, JoinedStays DEF Joined
  <2>2. \A k \in Loops : k \in Callers => loop[k].at \in {"idle", "next", "send"}
    BY DEF ServerInv, LoopsJoined
  <2> QED
    BY <2>1, <2>2
<1>1. ASSUME NEW l \in Loops, LoopMove(l), NEW n, n = loop'[l].node
      PROVE  /\ loop'[l].at \in {"send", "wait"} => Joined(n)'
             /\ l \in Callers => loop'[l].at \in {"idle", "next", "send"}
  <2>1. CASE Comes(l, "send") \/ (l = "close" /\ Comes(l, "wait"))
    <3>1. Joined(n)
      BY <1>1, <2>1, CurrentJoined DEF Comes
    <3> QED
      BY <2>1, <3>1, JoinedStays DEF Comes
  <2>2. CASE Advances(l) \/ Ends(l) \/ \E m : Begins(l, m)
    BY <2>2 DEF Advances, Ends, Begins
  <2> QED
    BY <1>1, <2>1, <2>2 DEF LoopMove
<1>2. CASE UNCHANGED loop
  BY <1>0, <1>2 DEF LoopsJoined, Joined
<1>3. ASSUME NEW l \in Loops, LoopMove(l) PROVE LoopsJoined'
  <2>1. OnlyLoop(l)
    BY <1>3 DEF LoopMove, Begins, Ends, Comes, Advances
  <2>2. /\ loop'[l].at \in {"send", "wait"} =>
            loop'[l].node \in Nodes /\ loop'[l].node # accept'
            /\ node'[loop'[l].node].status # "none"
        /\ l \in Callers => loop'[l].at \in {"idle", "next", "send"}
    BY <1>1, <1>3 DEF Joined
  <2>3. \A k \in Loops \ {l} :
          /\ loop'[k].at \in {"send", "wait"} =>
                loop'[k].node \in Nodes /\ loop'[k].node # accept'
                /\ node'[loop'[k].node].status # "none"
          /\ k \in Callers => loop'[k].at \in {"idle", "next", "send"}
    BY <1>0, <2>1 DEF OnlyLoop, Joined
  <2> QED
    BY <2>2, <2>3 DEF LoopsJoined, Joined
<1> QED
  BY <1>2, <1>3, LoopMoves

LEMMA NewcomersStep ==
    ASSUME ServerInv, Next
    PROVE  NewcomersFresh'
<1>0. NodesType /\ NewcomersFresh /\ NodesMove
  BY NodesMoveNext DEF ServerInv
<1>1. ASSUME NEW n \in Nodes, node'[n].status = "none"
      PROVE  node'[n].queue = <<>> /\ node'[n].held = <<>>
  <2>1. remove(n) => node'[n].status = "closed"
    BY <1>0, RemoveNode
  <2>2. node[n].status = "none" /\ StaysFresh(n)
    BY <1>0, <1>1, <2>1 DEF NodesMove, Moves, Same
  <2>3. Fresh(n) /\ ~Joined(n)
    BY <1>0, <2>2 DEF NewcomersFresh, Joined
  <2> QED
    BY <2>2, <2>3 DEF StaysFresh
<1>2. ASSUME NEW n \in Nodes, n = accept'
      PROVE  node'[n].status = "online" /\ node'[n].queue = <<>> /\ node'[n].held = <<>>
  <2>0. n # Nil
    BY DEF Nodes, Nil
  <2>1. CASE UNCHANGED accept
    <3>1. node[n].status = "online" /\ Fresh(n) /\ ~Joined(n)
      BY <1>0, <1>2, <2>1 DEF NewcomersFresh, Joined
    <3>2. node'[n].queue = <<>> /\ node'[n].held = <<>>
      BY <1>0, <3>1 DEF NodesMove, StaysFresh
    <3>3. ~remove(n)
      BY <3>1 DEF remove
    <3>4. node'[n].status = "online"
      BY <1>0, <1>2, <2>1, <3>1, <3>3 DEF NodesMove, Moves, Same
    <3> QED
      BY <3>2, <3>4
  <2>2. CASE append
    BY <1>2, <2>0, <2>2 DEF append
  <2>3. CASE node[n].status = "none" /\ node'[n].status = "online"
    <3>1. Fresh(n) /\ ~Joined(n)
      BY <1>0, <2>3 DEF NewcomersFresh, Joined
    <3> QED
      BY <1>0, <2>3, <3>1 DEF NodesMove, StaysFresh
  <2> QED
    BY <1>0, <1>2, <2>1, <2>2, <2>3 DEF NodesMove, AcceptMoves
<1>3. accept' \in Nodes => node'[accept'].status = "online" /\ node'[accept'].queue = <<>>
                           /\ node'[accept'].held = <<>>
  BY <1>2
<1> QED
  BY <1>1, <1>3 DEF NewcomersFresh, Fresh

LEMMA SliceStep ==
    ASSUME ServerInv, Next
    PROVE  SliceLists'
<1>0. /\ ArraysType /\ NodesType /\ HeadersShow /\ NewcomersFresh /\ NodesMove
      /\ Distinct(arrays, clients)
      /\ \A n \in Nodes : n \in View(arrays, clients) <=> Listed(n)
      /\ clients.len \in Nat /\ Within(arrays, clients) /\ arrays \in Seq(Seq(0..Conns))
  BY NodesMoveNext, ClientFields DEF ServerInv, SliceLists
<1>1. CASE append
  <2>1. /\ Grown(0..Conns, arrays, arrays', clients, clients'.arr, accept, Nil)
        /\ clients'.len = clients.len + 1
        /\ accept \in Nodes /\ accept' = Nil /\ UNCHANGED node
    BY <1>0, <1>1, AppendSlice
  <2>2. accept \notin View(arrays, clients) /\ node[accept].status = "online"
    BY <1>0, <2>1 DEF Listed, NewcomersFresh
  <2>3. Distinct(arrays', clients') /\ View(arrays', clients') = View(arrays, clients) \cup {accept}
    BY <1>0, <2>1, <2>2, GrownView
  <2>4. ASSUME NEW n \in Nodes PROVE n \in View(arrays', clients') <=> Listed(n)'
    <3>1. n # Nil
      BY DEF Nodes, Nil
    <3> QED
      BY <1>0, <2>1, <2>2, <2>3, <3>1 DEF Listed
  <2> QED
    BY <2>3, <2>4 DEF SliceLists
<1>2. ASSUME NEW n \in Nodes, remove(n) PROVE SliceLists'
  <2>1. PICK k \in 1..clients.len :
             /\ arrays[clients.arr][k] = n
             /\ Shrunk(0..Conns, arrays, arrays', clients, k)
             /\ clients'.arr = clients.arr /\ clients'.len = clients.len - 1
    BY <1>2, RemoveSlice
  <2>2. Distinct(arrays', clients') /\ View(arrays', clients') = View(arrays, clients) \ {n}
    <3> DEFINE S == 0..Conns
               A == arrays
               B == arrays'
               h == clients
               c == clients'
    <3>1. /\ A \in Seq(Seq(S)) /\ Shrunk(S, A, B, h, k) /\ h.len \in Nat
          /\ Within(A, h) /\ Distinct(A, h) /\ c.arr = h.arr /\ c.len = h.len - 1
          /\ k \in 1..h.len /\ A[h.arr][k] = n
      BY <1>0, <2>1
    <3> HIDE DEF S, A, B, h, c
    <3>2. Distinct(B, c) /\ View(B, c) = View(A, h) \ {A[h.arr][k]}
      BY <3>1, ShrunkView
    <3> QED
      BY <3>1, <3>2 DEF A, B, h, c
  <2>3. /\ Only(n) /\ node'[n].status = "closed" /\ UNCHANGED accept
    BY <1>0, <1>2, RemoveNode
  <2>4. \A m \in Nodes : m \in View(arrays', clients') <=> Listed(m)'
    BY <1>0, <2>2, <2>3 DEF Listed, Only
  <2> QED
    BY <2>2, <2>4 DEF SliceLists
<1>3. CASE UNCHANGED slices /\ ~append /\ ~(\E n \in Nodes : remove(n))
  <2>1. Distinct(arrays', clients') /\ View(arrays', clients') = View(arrays, clients)
    BY <1>0, <1>3 DEF slices
  <2>2. ASSUME NEW n \in Nodes PROVE Listed(n)' <=> Listed(n)
    <3>0. n # Nil
      BY DEF Nodes, Nil
    <3>1. Moves(n) /\ AcceptMoves /\ ~remove(n)
      BY <1>0, <1>3 DEF NodesMove
    <3>2. CASE UNCHANGED accept
      <4>1. node'[n].status \in {"online", "closing"} <=> node[n].status \in {"online", "closing"}
        BY <3>0, <3>1, <3>2 DEF Moves, Same
      <4> QED
        BY <3>2, <4>1 DEF Listed
    <3>3. ASSUME NEW m \in Nodes, accept = Nil, accept' = m, node[m].status = "none",
                 node'[m].status = "online"
          PROVE  Listed(n)' <=> Listed(n)
      <4>1. CASE n = m
        BY <3>0, <3>3, <4>1 DEF Listed
      <4>2. CASE n # m
        <5>1. m # Nil
          BY DEF Nodes, Nil
        <5>2. Same(n, "status")
          BY <3>1, <3>3, <4>2, <5>1 DEF Moves
        <5> QED
          BY <3>0, <3>3, <4>2, <5>2 DEF Listed, Same
      <4> QED
        BY <4>1, <4>2
    <3> QED
      BY <1>3, <3>1, <3>2, <3>3 DEF AcceptMoves
  <2> QED
    BY <1>0, <2>1, <2>2 DEF SliceLists
<1> QED
  BY <1>1, <1>2, <1>3, SliceMoves

LEMMA ServerStep ==
    ASSUME ServerInv, Next
    PROVE  ServerInv'
<1>1. NodesType'
  BY NodesMoveNext DEF NodesMove
<1> QED
  BY <1>1, ClientsStep, LoopsTypeStep, HistoryStep, HeadersStep, ElementsStep, LoopsStep,
     NewcomersStep, SliceStep DEF ServerInv

LEMMA ServerStutters ==
    ASSUME ServerInv, UNCHANGED vars
    PROVE  ServerInv'
<1>1. UNCHANGED <<arrays, clients, node, accept, loop, sent, clean>>
  BY DEF vars, slices, history
<1>2. ArraysType' /\ NodesType' /\ LoopsType' /\ HistoryType'
  BY <1>1 DEF ServerInv, ArraysType, NodesType, LoopsType, HistoryType
<1>3. HeadersShow' /\ ElementsJoined' /\ LoopsJoined'
  BY <1>1 DEF ServerInv, HeadersShow, ElementsJoined, LoopsJoined, Joined
<1>4. NewcomersFresh' /\ SliceLists'
  BY <1>1 DEF ServerInv, NewcomersFresh, Fresh, SliceLists, Listed
<1> QED
  BY <1>2, <1>3, <1>4 DEF ServerInv

\* The arrays of the clients, the slice over them, the loops that read it without a
\* lock and the nodes fit together in every reachable state.
THEOREM ServerInvariant == Spec => []ServerInv
<1>1. Init => ServerInv
  BY InitialServer
<1>2. ServerInv /\ [Next]_vars => ServerInv'
  BY ServerStep, ServerStutters
<1> QED
  BY <1>1, <1>2, PTL DEF Spec

\* No element is shown twice: a node is at one place of a slice, or at none.
LEMMA PlaceCount ==
    ASSUME NEW h, h.len \in Nat, Distinct(arrays, h), NEW n,
           NEW P, P = {i \in 1..h.len : arrays[h.arr][i] = n}
    PROVE  Cardinality(P) = IF n \in View(arrays, h) THEN 1 ELSE 0
<1>2. CASE n \in View(arrays, h)
  <2>1. PICK i \in 1..h.len : n = arrays[h.arr][i]
    BY <1>2 DEF View
  <2>2. P = {i}
    BY <2>1 DEF Distinct
  <2> QED
    BY <1>2, <2>2, FS_Singleton
<1>3. CASE n \notin View(arrays, h)
  <2>1. P = {}
    BY <1>3 DEF View
  <2> QED
    BY <1>3, <2>1, FS_EmptySet
<1> QED
  BY <1>2, <1>3

\* The slice holds every client that was accepted and is not removed, once, and no
\* other, whichever of its reader, its writer and Close closes it.
THEOREM SliceIsExact == Spec => []SliceExact
<1>1. ASSUME ServerInv PROVE SliceExact
  <2>1. /\ clients.len \in Nat /\ Distinct(arrays, clients)
        /\ \A n \in Nodes : n \in View(arrays, clients) <=> Listed(n)
    BY <1>1, ClientFields DEF ServerInv, SliceLists
  <2>2. ASSUME NEW n \in Nodes
        PROVE  Cardinality({i \in DOMAIN Elements : Elements[i] = n}) =
                 IF n # accept /\ node[n].status \in {"online", "closing"} THEN 1 ELSE 0
    <3> DEFINE P == {i \in DOMAIN Elements : Elements[i] = n}
    <3>1. P = {i \in 1..clients.len : arrays[clients.arr][i] = n}
      BY DEF Elements
    <3> HIDE DEF P
    <3>2. Cardinality(P) = IF n \in View(arrays, clients) THEN 1 ELSE 0
      BY <2>1, <3>1, PlaceCount
    <3> QED
      BY <2>1, <3>2 DEF Listed, P
  <2> QED
    BY <2>2 DEF SliceExact
<1> QED
  BY <1>1, ServerInvariant, PTL

-----------------------------------------------------------------------------
(* How the queues move. *)

ConnStays(n) == node'[n].conn \in {"up", "stalled"} => node[n].conn \in {"up", "stalled"}

\* A loop sends message b to node n.
Sends(n, b) ==
    \E l \in Loops : /\ AsyncSend(l) /\ loop' = Advance(l)
                     /\ loop[l].node = n /\ loop[l].msg = b

QueueMove(n, b) ==
    /\ HasNone(n, b) => HasNone(n, b)' \/ Sends(n, b)
    /\ HasOne(n, b) /\ node'[n].conn # "reset" => HasOne(n, b)' \/ Sends(n, b)

QueuesMove == \A n \in Nodes : ConnStays(n) /\ \A b \in Nat \ {Keepalive} : QueueMove(n, b)

LEMMA QueueSame ==
    ASSUME NEW n \in Nodes, SameQueues(n)
    PROVE  \A b \in Nat \ {Keepalive} : QueueMove(n, b)
BY DEF SameQueues, Same, QueueMove, HasNone, HasOne

LEMMA OnlyQueue ==
    ASSUME NEW n \in Nodes, Only(n), ConnStays(n),
           \A b \in Nat \ {Keepalive} : QueueMove(n, b)
    PROVE  QueuesMove
<1>1. ASSUME NEW m \in Nodes \ {n}
      PROVE  ConnStays(m) /\ \A b \in Nat \ {Keepalive} : QueueMove(m, b)
  <2>1. node'[m] = node[m]
    BY <1>1 DEF Only
  <2>2. SameQueues(m) /\ ConnStays(m)
    BY <2>1 DEF SameQueues, Same, ConnStays
  <2> QED
    BY <2>2, QueueSame
<1> QED
  BY <1>1 DEF QueuesMove

LEMMA SameNodesQueues ==
    ASSUME UNCHANGED node
    PROVE  QueuesMove
<1>1. \A n \in Nodes : SameQueues(n) /\ ConnStays(n)
  BY DEF SameQueues, Same, ConnStays
<1> QED
  BY <1>1, QueueSame DEF QueuesMove

LEMMA TakeQueue ==
    ASSUME NodesType, NEW n \in Nodes, asyncSendServiceTake(n), NEW b \in Nat \ {Keepalive}
    PROVE  QueueMove(n, b)
<1> DEFINE q == node[n].queue
           h == <<Head(q)>>
           t == Tail(q)
<1>1. /\ node'[n].written = node[n].written /\ node[n].held = <<>> /\ q # <<>>
      /\ node'[n].held = h /\ node'[n].queue = t /\ q \in Seq(Nat)
  BY TakeNode, NodeFields DEF Same
<1>2. Never(node[n].held, b) /\ ~Once(node[n].held, b)
  BY <1>1, SmallCounts
<1>3. /\ Never(q, b) <=> Never(h, b) /\ Never(t, b)
      /\ Once(q, b) <=> (Once(h, b) /\ Never(t, b)) \/ (Never(h, b) /\ Once(t, b))
  <2> HIDE DEF q
  <2> QED
    BY <1>1, TakeCounts
<1> HIDE DEF h, t
<1>4. ASSUME HasNone(n, b) PROVE HasNone(n, b)'
  BY <1>1, <1>3, <1>4 DEF HasNone
<1>5. ASSUME HasOne(n, b) PROVE HasOne(n, b)'
  BY <1>1, <1>2, <1>3, <1>5 DEF HasOne
<1> QED
  BY <1>4, <1>5 DEF QueueMove

LEMMA WriteQueue ==
    ASSUME NodesType, NEW n \in Nodes, asyncSendServiceWrite(n), NEW b \in Nat \ {Keepalive}
    PROVE  QueueMove(n, b)
<1> DEFINE w == node[n].written
           h == node[n].held
           wh == w \o h
           e == <<>>
<1>0. w \in Seq(Nat) /\ h \in Seq(Nat) /\ node'[n].queue = node[n].queue
  BY WriteNode, NodeFields DEF Same
<1>1. /\ Never(wh, b) <=> Never(w, b) /\ Never(h, b)
      /\ Once(wh, b) <=> (Once(w, b) /\ Never(h, b)) \/ (Never(w, b) /\ Once(h, b))
  <2> HIDE DEF w, h
  <2> QED
    BY <1>0, CatCounts
<1>2. Never(e, b) /\ ~Once(e, b)
  BY SmallCounts
<1>3. CASE node'[n].held = e /\ node'[n].written = wh
  <2>1. ASSUME HasNone(n, b) PROVE HasNone(n, b)'
    BY <1>0, <1>1, <1>2, <1>3, <2>1 DEF HasNone
  <2>2. ASSUME HasOne(n, b) PROVE HasOne(n, b)'
    BY <1>0, <1>1, <1>2, <1>3, <2>2 DEF HasOne
  <2> QED
    BY <2>1, <2>2 DEF QueueMove
<1>4. CASE node'[n].held = e /\ h = <<Keepalive>> /\ node'[n].written = w
  <2>0. Never(h, b) /\ ~Once(h, b)
    BY <1>4, SmallCounts
  <2>1. ASSUME HasNone(n, b) PROVE HasNone(n, b)'
    BY <1>0, <1>2, <1>4, <2>0, <2>1 DEF HasNone
  <2>2. ASSUME HasOne(n, b) PROVE HasOne(n, b)'
    BY <1>0, <1>2, <1>4, <2>0, <2>2 DEF HasOne
  <2> QED
    BY <2>1, <2>2 DEF QueueMove
<1>5. CASE node'[n].conn = "reset" /\ node'[n].written = w /\ node'[n].held = e
  <2>1. ASSUME HasNone(n, b) PROVE HasNone(n, b)'
    BY <1>0, <1>2, <1>5, <2>1 DEF HasNone
  <2> QED
    BY <1>5, <2>1 DEF QueueMove
<1>6. CASE SameQueues(n)
  BY <1>6, QueueSame
<1> QED
  BY <1>3, <1>4, <1>5, <1>6, WriteNode DEF Same

LEMMA SendCounts ==
    ASSUME ServerInv, NEW l \in Loops, AsyncSend(l), NEW b \in Nat, NEW n, n = loop[l].node
    PROVE  /\ n \in Nodes
           /\ \/ UNCHANGED <<node, loop>>
              \/ /\ loop' = Advance(l) /\ Only(n) /\ ConnStays(n)
                 /\ loop[l].msg # b => (HasNone(n, b) => HasNone(n, b)')
                                       /\ (HasOne(n, b) => HasOne(n, b)')
                 /\ loop[l].msg = b => (HasNone(n, b) => HasOne(n, b)')
<1> DEFINE q == node[n].queue
           m == loop[l].msg
           p == Append(q, m)
<1>0. NodesType /\ LoopsType /\ m \in Nat
  BY LoopFields DEF ServerInv
<1>1. n \in Nodes
  BY DEF ServerInv, LoopsJoined, AsyncSend, Joined
<1>2. \/ UNCHANGED <<node, loop>>
      \/ /\ Only(n) /\ Same(n, "conn") /\ Same(n, "held") /\ Same(n, "written")
         /\ node'[n].queue = p /\ loop' = Advance(l)
  BY <1>0, <1>1, SendNode
<1>3. q \in Seq(Nat)
  BY <1>0, <1>1, NodeFields
<1>4. /\ Never(p, b) <=> Never(q, b) /\ m # b
      /\ Once(p, b) <=> (Once(q, b) /\ m # b) \/ (Never(q, b) /\ m = b)
  <2> HIDE DEF q, m
  <2> QED
    BY <1>0, <1>3, AppendCounts
<1> HIDE DEF p
<1>5. CASE /\ Only(n) /\ Same(n, "conn") /\ Same(n, "held") /\ Same(n, "written")
           /\ node'[n].queue = p /\ loop' = Advance(l)
  <2>1. ASSUME m # b PROVE (HasNone(n, b) => HasNone(n, b)') /\ (HasOne(n, b) => HasOne(n, b)')
    <3>1. HasNone(n, b) => HasNone(n, b)'
      BY <1>4, <1>5, <2>1 DEF HasNone, Same
    <3>2. HasOne(n, b) => HasOne(n, b)'
      BY <1>4, <1>5, <2>1 DEF HasOne, Same
    <3> QED
      BY <3>1, <3>2
  <2>2. ASSUME m = b PROVE HasNone(n, b) => HasOne(n, b)'
    BY <1>4, <1>5, <2>2 DEF HasNone, HasOne, Same
  <2>3. ConnStays(n)
    BY <1>5 DEF ConnStays, Same
  <2> QED
    BY <1>1, <1>5, <2>1, <2>2, <2>3
<1> QED
  BY <1>1, <1>2, <1>5

LEMMA SendQueues ==
    ASSUME ServerInv, NEW l \in Loops, AsyncSend(l)
    PROVE  QueuesMove
<1>1. PICK n : n = loop[l].node
  OBVIOUS
<1>2. n \in Nodes
  BY <1>1, SendCounts DEF Keepalive
<1>3. CASE UNCHANGED <<node, loop>>
  BY <1>3, SameNodesQueues
<1>4. CASE loop' = Advance(l) /\ Only(n) /\ ConnStays(n)
  <2>1. ASSUME NEW b \in Nat \ {Keepalive} PROVE QueueMove(n, b)
    <3>1. CASE loop[l].msg = b
      <4>1. Sends(n, b)
        BY <1>1, <1>4, <3>1 DEF Sends
      <4> QED
        BY <4>1 DEF QueueMove
    <3>2. CASE loop[l].msg # b
      <4>1. \/ UNCHANGED <<node, loop>>
            \/ (HasNone(n, b) => HasNone(n, b)') /\ (HasOne(n, b) => HasOne(n, b)')
        BY <1>1, <3>2, SendCounts
      <4>2. CASE UNCHANGED node
        BY <1>2, <4>2, SameNodesQueues DEF QueuesMove
      <4> QED
        BY <4>1, <4>2 DEF QueueMove
    <3> QED
      BY <3>1, <3>2
  <2> QED
    BY <1>2, <1>4, <2>1, OnlyQueue
<1> QED
  BY <1>1, <1>3, <1>4, SendCounts DEF Keepalive

LEMMA QueueActions ==
    ASSUME ServerInv, NEW n \in Nodes, Accept(n) \/ remove(n) \/ readMessage(n) \/ Writing(n)
    PROVE  QueuesMove
<1>0. NodesType
  BY DEF ServerInv
<1>1. CASE Accept(n) \/ remove(n) \/ readMessage(n) \/ asyncSendServiceReturns(n)
  <2>1. Only(n) /\ SameQueues(n) /\ Same(n, "conn")
    <3>1. CASE readMessage(n)
      <4>1. node' = [node EXCEPT ![n] = close(n)]
        BY <3>1 DEF readMessage
      <4> QED
        BY <1>0, <4>1, CloseNode
    <3> QED
      BY <1>0, <1>1, <3>1, AcceptNode, RemoveNode, ReturnsNode
  <2>2. ConnStays(n)
    BY <2>1 DEF ConnStays, Same
  <2> QED
    BY <2>1, <2>2, QueueSame, OnlyQueue
<1>2. CASE asyncSendServiceTake(n)
  <2>1. Only(n) /\ Same(n, "conn")
    BY <1>0, <1>2, TakeNode
  <2>2. ConnStays(n)
    BY <2>1 DEF ConnStays, Same
  <2>3. \A b \in Nat \ {Keepalive} : QueueMove(n, b)
    BY <1>0, <1>2, TakeQueue
  <2> QED
    BY <2>1, <2>2, <2>3, OnlyQueue
<1>3. CASE asyncSendServiceWrite(n)
  <2>1. Only(n) /\ (Same(n, "conn") \/ node'[n].conn = "reset")
    BY <1>0, <1>3, WriteNode
  <2>2. ConnStays(n)
    BY <2>1 DEF ConnStays, Same
  <2>3. \A b \in Nat \ {Keepalive} : QueueMove(n, b)
    BY <1>0, <1>3, WriteQueue
  <2> QED
    BY <2>1, <2>2, <2>3, OnlyQueue
<1> QED
  BY <1>1, <1>2, <1>3 DEF Writing

LEMMA QueuesMoveNext ==
    ASSUME ServerInv, Next
    PROVE  QueuesMove
<1>0. NodesType
  BY DEF ServerInv
<1>1. CASE append \/ keepalive \/ Cancel \/ Close \/ CloseWait
  <2>1. UNCHANGED node
    BY <1>1 DEF append, keepalive, Cancel, Close, CloseWait
  <2> QED
    BY <2>1, SameNodesQueues
<1>2. ASSUME NEW c \in Callers, Broadcast(c) PROVE QueuesMove
  <2>1. UNCHANGED node
    BY <1>2 DEF Broadcast
  <2> QED
    BY <2>1, SameNodesQueues
<1>3. ASSUME NEW l \in Loops, LoopEnds(l) \/ AsyncSendCheck(l) PROVE QueuesMove
  <2>1. UNCHANGED node
    BY <1>3 DEF LoopEnds, AsyncSendCheck
  <2> QED
    BY <2>1, SameNodesQueues
<1>4. ASSUME NEW l \in Loops, AsyncSend(l) PROVE QueuesMove
  BY <1>4, SendQueues
<1>5. CASE CloseNext
  <2> DEFINE n == Current("close")
  <2>1. loop["close"].i <= loop["close"].len /\ node' = [node EXCEPT ![n] = close(n)]
    BY <1>5 DEF CloseNext
  <2>2. n \in Nodes
    BY <2>1, CurrentJoined DEF Loops
  <2> HIDE DEF n
  <2>3. Only(n) /\ SameQueues(n) /\ Same(n, "conn")
    BY <1>0, <2>1, <2>2, CloseNode
  <2>4. ConnStays(n)
    BY <2>3 DEF ConnStays, Same
  <2> QED
    BY <2>2, <2>3, <2>4, QueueSame, OnlyQueue
<1>6. ASSUME NEW n \in Nodes, Accept(n) \/ remove(n) \/ readMessage(n) \/ Writing(n)
      PROVE  QueuesMove
  BY <1>6, QueueActions
<1>7. ASSUME NEW n \in Nodes, NEW c \in {"up", "stalled", "left", "reset"}, Peer(n, c)
      PROVE  QueuesMove
  <2>1. Only(n) /\ SameQueues(n) /\ ConnStays(n)
    BY <1>0, <1>7, PeerNode DEF Conn, ConnStays
  <2> QED
    BY <2>1, QueueSame, OnlyQueue
<1> QED
  BY <1>1, <1>2, <1>3, <1>4, <1>5, <1>6, <1>7 DEF Next, Closing, Looping

\* A client that was appended and is connected was so before.
LEMMA UpBefore ==
    ASSUME ServerInv, Next, NEW n, Joined(n), Up(n)'
    PROVE  Up(n) /\ node'[n].conn # "reset"
<1>1. n \in Nodes /\ n # accept /\ node[n].status # "none"
  BY DEF Joined
<1>2. Moves(n) /\ ConnStays(n)
  BY <1>1, NodesMoveNext, QueuesMoveNext DEF NodesMove, QueuesMove
<1>3. remove(n) => node'[n].status = "closed"
  BY <1>1, RemoveNode DEF ServerInv
<1>4. node[n].status = "online"
  BY <1>1, <1>2, <1>3 DEF Moves, Same, Up
<1> QED
  BY <1>2, <1>4 DEF ConnStays, Up

-----------------------------------------------------------------------------
(* A broadcast that no removal overlaps reaches every client once. *)

LEMMA InitialBroadcasts ==
    ASSUME Init PROVE BroadcastInv
<1> USE AgentServerAssumption
<1>1. /\ \A l \in Loops : loop[l].msg = Keepalive /\ loop[l].at = "idle"
      /\ Len(sent) = 0 /\ clean = {} /\ \A c \in Callers : ~Active(c)
      /\ \A n \in Nodes : /\ node[n].written = <<>> /\ node[n].held = <<>>
                          /\ node[n].queue = <<>>
  BY DEF Init, Idle, Unborn, Active, Loops
<1>2. BroadcastsDiffer
  <2>1. \A b \in Nat : Never(<<>>, b)
    BY SmallCounts
  <2>2. \A n \in Nodes, b \in Nat : HasNone(n, b)
    BY <1>1, <2>1 DEF HasNone
  <2>3. 1..Len(sent) = {}
    BY <1>1
  <2>4. \A l \in Loops : loop[l].msg <= Len(sent)
    BY <1>1 DEF Keepalive
  <2> QED
    BY <1>1, <2>2, <2>3, <2>4 DEF BroadcastsDiffer
<1>3. CallersUnderway /\ EndedReached
  BY <1>1 DEF CallersUnderway, EndedReached
<1> QED
  BY <1>2, <1>3, InitialServer DEF BroadcastInv

\* The history of broadcasts grows at its end.
LEMMA HistoryMoves ==
    ASSUME ServerInv, Next
    PROVE  /\ Len(sent) \in Nat /\ Len(sent') \in Nat /\ Len(sent) <= Len(sent')
           /\ \A b \in 1..Len(sent) : sent'[b] = sent[b] /\ b \in 1..Len(sent')
           /\ \/ \E c \in Callers : Broadcast(c)
              \/ sent' = sent /\ clean' \subseteq clean
<1>0. sent \in Seq(SUBSET Nodes) /\ Len(sent) \in Nat
  BY DEF ServerInv, HistoryType
<1>1. ASSUME sent' = sent
      PROVE  /\ Len(sent') \in Nat /\ Len(sent) <= Len(sent')
             /\ \A b \in 1..Len(sent) : sent'[b] = sent[b] /\ b \in 1..Len(sent')
  BY <1>0, <1>1
<1>2. ASSUME NEW c \in Callers, Broadcast(c)
      PROVE  /\ Len(sent') \in Nat /\ Len(sent) <= Len(sent')
             /\ \A b \in 1..Len(sent) : sent'[b] = sent[b] /\ b \in 1..Len(sent')
  <2> DEFINE s == {n \in Nodes : n # accept /\ node[n].status = "online"}
  <2>1. sent' = Append(sent, s) /\ s \in SUBSET Nodes
    BY <1>2 DEF Broadcast
  <2> HIDE DEF s
  <2>2. Len(sent') = Len(sent) + 1 /\ \A b \in 1..Len(sent) : sent'[b] = sent[b]
    BY <1>0, <2>1
  <2> QED
    BY <1>0, <2>2
<1>3. \/ \E c \in Callers : Broadcast(c)
      \/ sent' = sent /\ clean' \subseteq clean
  <2> DEFINE F == \/ \E c \in Callers : Broadcast(c)
                  \/ sent' = sent /\ clean' \subseteq clean
  <2>1. append \/ keepalive \/ Cancel \/ Closing => F
    BY DEF append, keepalive, Cancel, Closing, Close, CloseNext, CloseWait, history
  <2>2. \A c \in Callers : Broadcast(c) => F
    OBVIOUS
  <2>3. \A l \in Loops : Looping(l) => F
    BY DEF Looping, LoopEnds, AsyncSendCheck, AsyncSend, history
  <2>4. \A n \in Nodes : Accept(n) \/ remove(n) \/ readMessage(n) \/ Writing(n) => F
    BY DEF Accept, remove, readMessage, Writing, asyncSendServiceTake, asyncSendServiceWrite,
       asyncSendServiceReturns, history
  <2>5. \A n \in Nodes, c \in {"up", "stalled", "left", "reset"} : Peer(n, c) => F
    BY DEF Peer, history
  <2> HIDE DEF F
  <2>6. F
    BY <2>1, <2>2, <2>3, <2>4, <2>5 DEF Next
  <2> QED
    BY <2>6 DEF F
<1> QED
  BY <1>0, <1>1, <1>2, <1>3

LEMMA BroadcastHistory ==
    ASSUME ServerInv, NEW c \in Callers, Broadcast(c)
    PROVE  /\ Len(sent') = Len(sent) + 1 /\ Len(sent) \in Nat
           /\ sent'[Len(sent) + 1] = {n \in Nodes : n # accept /\ node[n].status = "online"}
           /\ clean' = clean \cup {Len(sent) + 1}
           /\ UNCHANGED <<arrays, clients, node, accept>> /\ loop[c].at = "idle"
<1> DEFINE s == {n \in Nodes : n # accept /\ node[n].status = "online"}
<1>0. sent \in Seq(SUBSET Nodes) /\ Len(sent) \in Nat
  BY DEF ServerInv, HistoryType
<1>1. /\ sent' = Append(sent, s) /\ s \in SUBSET Nodes /\ clean' = clean \cup {Len(sent) + 1}
      /\ UNCHANGED <<arrays, clients, node, accept>> /\ loop[c].at = "idle"
  BY DEF Broadcast, slices
<1> HIDE DEF s
<1>2. Len(sent') = Len(sent) + 1 /\ sent'[Len(sent) + 1] = s
  BY <1>0, <1>1
<1> QED
  BY <1>0, <1>1, <1>2 DEF s

\* What the step of a loop does to its message.
MsgMove(l) ==
    \/ /\ loop'[l].msg = loop[l].msg
       /\ l \in Callers => loop[l].at # "idle" /\ loop'[l].at # "idle"
    \/ loop'[l].msg = Keepalive /\ (l \in Callers => loop'[l].at = "idle")
    \/ \E c \in Callers : c = l /\ Broadcast(c) /\ loop'[l].msg = Len(sent) + 1

LEMMA MsgMoves ==
    ASSUME ServerInv, NEW l \in Loops, LoopMove(l)
    PROVE  MsgMove(l) /\ OnlyLoop(l)
<1> USE AgentServerAssumption
<1>1. OnlyLoop(l)
  BY DEF LoopMove, Begins, Ends, Comes, Advances
<1>2. CASE \E c \in Callers : c = l /\ Broadcast(c) /\ Begins(c, Len(sent) + 1)
  BY <1>2 DEF Begins, MsgMove
<1>3. CASE l \notin Callers /\ Begins(l, Keepalive)
  BY <1>3 DEF Begins, MsgMove
<1>4. CASE LoopEnds(l) /\ Ends(l)
  BY <1>4 DEF Ends, MsgMove
<1>5. CASE Comes(l, "send") \/ Comes(l, "wait")
  BY <1>5 DEF Comes, SameHeader, MsgMove
<1>6. CASE AsyncSendCheck(l) /\ Advances(l)
  BY <1>6 DEF AsyncSendCheck, Advances, SameHeader, MsgMove
<1>7. CASE AsyncSend(l) /\ Advances(l)
  BY <1>7 DEF AsyncSend, Advances, SameHeader, MsgMove
<1>8. CASE l = "close" /\ Advances(l)
  BY <1>8 DEF Advances, SameHeader, MsgMove
<1> QED
  BY <1>1, <1>2, <1>3, <1>4, <1>5, <1>6, <1>7, <1>8 DEF LoopMove

LEMMA SendersDiffer ==
    ASSUME ServerInv, BroadcastsDiffer, NEW n, NEW b, b # Keepalive, Sends(n, b)
    PROVE  \E c \in Callers :
             /\ Active(c) /\ loop[c].msg = b /\ loop[c].at = "send"
             /\ AsyncSend(c) /\ loop' = Advance(c) /\ loop[c].node = n
             /\ \A d \in Callers : Active(d) /\ loop[d].msg = b => d = c
<1>1. PICK l \in Loops : /\ AsyncSend(l) /\ loop' = Advance(l)
                         /\ loop[l].node = n /\ loop[l].msg = b
  BY DEF Sends
<1>2. l \in Callers
  BY <1>1 DEF BroadcastsDiffer
<1>3. loop[l].at = "send"
  BY <1>1 DEF AsyncSend
<1>4. Active(l)
  BY <1>2, <1>3 DEF Active
<1>5. \A d \in Callers : Active(d) /\ loop[d].msg = b => d = l
  BY <1>1, <1>2, <1>4 DEF BroadcastsDiffer
<1> QED
  BY <1>1, <1>2, <1>3, <1>4, <1>5

LEMMA DifferStep ==
    ASSUME ServerInv, BroadcastsDiffer, Next
    PROVE  BroadcastsDiffer'
<1> USE AgentServerAssumption
<1>0. /\ Len(sent) \in Nat /\ Len(sent') \in Nat /\ Len(sent) <= Len(sent')
      /\ \A b \in 1..Len(sent) : sent'[b] = sent[b] /\ b \in 1..Len(sent')
      /\ \A l \in Loops : loop[l].msg \in Nat /\ loop[l].msg <= Len(sent)
      /\ Callers \subseteq Loops /\ "close" \notin Callers
  BY HistoryMoves, LoopFields DEF ServerInv, BroadcastsDiffer, Loops
<1>1. ASSUME NEW n \in Nodes, NEW b \in Nat, b > Len(sent') PROVE HasNone(n, b)'
  <2>1. b > Len(sent) /\ b # Keepalive
    BY <1>0, <1>1 DEF Keepalive
  <2>2. HasNone(n, b)
    BY <2>1 DEF BroadcastsDiffer
  <2>3. QueueMove(n, b)
    BY <2>1, QueuesMoveNext DEF QueuesMove
  <2>4. ~Sends(n, b)
    BY <1>0, <2>1 DEF Sends
  <2> QED
    BY <2>2, <2>3, <2>4 DEF QueueMove
<1>2. ASSUME NEW b \in 1..Len(sent'), NEW n \in sent'[b] PROVE Joined(n)'
  <2>1. CASE b \in 1..Len(sent)
    <3>1. Joined(n)
      BY <1>0, <1>2, <2>1 DEF BroadcastsDiffer
    <3> QED
      BY <3>1, JoinedStays
  <2>2. CASE b \notin 1..Len(sent)
    <3>1. PICK c \in Callers : Broadcast(c)
      <4>1. sent' # sent
        BY <1>2, <2>2
      <4> QED
        BY <4>1, HistoryMoves
    <3>2. b = Len(sent) + 1
      BY <1>0, <1>2, <2>2, <3>1, BroadcastHistory
    <3>3. n \in Nodes /\ n # accept /\ node[n].status = "online"
      BY <1>2, <3>1, <3>2, BroadcastHistory
    <3>4. Joined(n)
      BY <3>3 DEF Joined
    <3> QED
      BY <3>4, JoinedStays
  <2> QED
    BY <2>1, <2>2
<1>3. CASE UNCHANGED loop
  <2>1. \A l \in Loops : loop'[l].msg <= Len(sent')
    BY <1>0, <1>3
  <2>2. /\ \A c \in Callers : Active(c)' => loop'[c].msg # Keepalive
        /\ \A l \in Loops \ Callers : loop'[l].msg = Keepalive
        /\ \A c, d \in Callers :
             Active(c)' /\ Active(d)' /\ loop'[c].msg = loop'[d].msg => c = d
    BY <1>3 DEF BroadcastsDiffer, Active
  <2> QED
    BY <1>1, <1>2, <2>1, <2>2 DEF BroadcastsDiffer
<1>4. ASSUME NEW l \in Loops, LoopMove(l) PROVE BroadcastsDiffer'
  <2>0. MsgMove(l) /\ \A k \in Loops \ {l} : loop'[k] = loop[k]
    BY <1>4, MsgMoves DEF OnlyLoop
  <2>1. CASE /\ loop'[l].msg = loop[l].msg
             /\ l \in Callers => loop[l].at # "idle" /\ loop'[l].at # "idle"
    <3>1. \A k \in Loops : loop'[k].msg = loop[k].msg
      BY <2>0, <2>1
    <3>2. \A k \in Callers : Active(k)' <=> Active(k)
      BY <1>0, <2>0, <2>1 DEF Active
    <3>3. \A k \in Loops : loop'[k].msg <= Len(sent')
      BY <1>0, <3>1
    <3>4. /\ \A c \in Callers : Active(c)' => loop'[c].msg # Keepalive
          /\ \A k \in Loops \ Callers : loop'[k].msg = Keepalive
          /\ \A c, d \in Callers :
               Active(c)' /\ Active(d)' /\ loop'[c].msg = loop'[d].msg => c = d
      BY <1>0, <3>1, <3>2 DEF BroadcastsDiffer
    <3> QED
      BY <1>1, <1>2, <3>3, <3>4 DEF BroadcastsDiffer
  <2>2. CASE loop'[l].msg = Keepalive /\ (l \in Callers => loop'[l].at = "idle")
    <3>2. \A k \in Callers : Active(k)' => Active(k) /\ k # l
      BY <1>0, <2>0, <2>2 DEF Active
    <3>3. \A k \in Loops : loop'[k].msg <= Len(sent')
      BY <1>0, <2>0, <2>2 DEF Keepalive
    <3>4. /\ \A c \in Callers : Active(c)' => loop'[c].msg # Keepalive
          /\ \A k \in Loops \ Callers : loop'[k].msg = Keepalive
          /\ \A c, d \in Callers :
               Active(c)' /\ Active(d)' /\ loop'[c].msg = loop'[d].msg => c = d
      BY <1>0, <2>0, <2>2, <3>2 DEF BroadcastsDiffer
    <3> QED
      BY <1>1, <1>2, <3>3, <3>4 DEF BroadcastsDiffer
  <2>3. CASE \E c \in Callers : c = l /\ Broadcast(c) /\ loop'[l].msg = Len(sent) + 1
    <3>1. l \in Callers /\ Len(sent') = Len(sent) + 1 /\ loop'[l].msg = Len(sent) + 1
      BY <2>3, BroadcastHistory
    <3>2. \A k \in Callers \ {l} : /\ loop'[k].msg = loop[k].msg
                                   /\ Active(k)' <=> Active(k)
                                   /\ loop'[k].msg # Len(sent) + 1
      BY <1>0, <2>0 DEF Active
    <3>3. \A k \in Loops : loop'[k].msg <= Len(sent')
      BY <1>0, <2>0, <3>1
    <3>5. Len(sent) + 1 # Keepalive
      BY <1>0 DEF Keepalive
    <3>4. /\ \A c \in Callers : Active(c)' => loop'[c].msg # Keepalive
          /\ \A k \in Loops \ Callers : loop'[k].msg = Keepalive
          /\ \A c, d \in Callers :
               Active(c)' /\ Active(d)' /\ loop'[c].msg = loop'[d].msg => c = d
      <4>1. \A c \in Callers : Active(c)' => loop'[c].msg # Keepalive
        BY <3>1, <3>2, <3>5 DEF BroadcastsDiffer
      <4>2. \A k \in Loops \ Callers : loop'[k].msg = Keepalive
        BY <2>0, <3>1 DEF BroadcastsDiffer
      <4>3. \A c, d \in Callers :
               Active(c)' /\ Active(d)' /\ loop'[c].msg = loop'[d].msg => c = d
        BY <3>1, <3>2 DEF BroadcastsDiffer
      <4> QED
        BY <4>1, <4>2, <4>3
    <3> QED
      BY <1>1, <1>2, <3>3, <3>4 DEF BroadcastsDiffer
  <2> QED
    BY <2>0, <2>1, <2>2, <2>3 DEF MsgMove
<1> QED
  BY <1>3, <1>4, LoopMoves

\* append does not touch what a header of an earlier slice shows.
LEMMA LoopKeeps ==
    ASSUME ServerInv, NEW h, Earlier(h, clients), Shows(arrays, h),
           h.arr \in Nat, h.len \in Nat, append \/ UNCHANGED slices
    PROVE  Keeps(arrays, arrays', h) /\ Earlier(h, clients')
<1>0. /\ ArraysType /\ NodesType /\ HeadersShow /\ clients.arr \in Nat /\ clients.len \in Nat
      /\ arrays \in Seq(Seq(0..Conns)) /\ clients.arr \in 1..Len(arrays)
      /\ h.arr \in 1..Len(arrays) /\ h.len <= Len(arrays[h.arr])
  BY ClientFields DEF ServerInv, Shows, Within
<1>1. CASE UNCHANGED slices
  BY <1>1 DEF slices, Keeps
<1>2. CASE append
  <2>1. /\ Grown(0..Conns, arrays, arrays', clients, clients'.arr, accept, Nil)
        /\ clients'.len = clients.len + 1
    BY <1>0, <1>2, AppendSlice
  <2>2. /\ \A i \in 1..Len(arrays[h.arr]) :
             \/ arrays'[h.arr][i] = arrays[h.arr][i]
             \/ h.arr = clients.arr /\ i = clients.len + 1
        /\ clients'.arr = clients.arr \/ clients'.arr = Len(arrays) + 1
    BY <1>0, <2>1 DEF Grown
  <2>3. Len(arrays[h.arr]) \in Nat /\ Len(arrays) \in Nat
    <3>1. arrays[h.arr] \in Seq(0..Conns)
      BY <1>0
    <3> QED
      BY <1>0, <3>1
  <2>4. \A i \in 1..h.len : i \in 1..Len(arrays[h.arr])
                            /\ ~(h.arr = clients.arr /\ i = clients.len + 1)
    BY <1>0, <2>3 DEF Earlier
  <2>5. Keeps(arrays, arrays', h)
    BY <2>2, <2>4 DEF Keeps
  <2>6. Earlier(h, clients')
    BY <1>0, <2>1, <2>2, <2>3 DEF Earlier
  <2> QED
    BY <2>5, <2>6
<1> QED
  BY <1>1, <1>2

\* A caller that is at work after a step and does not begin was at it before.
LEMMA CallerMoves ==
    ASSUME BroadcastInv, Next, NEW c \in Callers, Active(c)', ~Broadcast(c)
    PROVE  /\ Active(c) /\ SameHeader(c)
           /\ \/ loop'[c] = loop[c]
              \/ Comes(c, "send") /\ Still
              \/ AsyncSendCheck(c) /\ node[Current(c)].status # "online" /\ Advances(c) /\ Still
              \/ AsyncSend(c) /\ Advances(c)
<1> USE AgentServerAssumption
<1>0. ServerInv /\ c \in Loops /\ c # "close" /\ c # "keepalive"
  BY DEF BroadcastInv, Loops
<1>1. CASE loop'[c] = loop[c]
  BY <1>1 DEF Active, SameHeader
<1>2. CASE LoopMove(c)
  <2>1. MsgMove(c) /\ OnlyLoop(c)
    BY <1>0, <1>2, MsgMoves
  <2>2. Active(c)
    BY <2>1 DEF MsgMove, Active
  <2>3. ~Ends(c)
    BY <1>0 DEF Ends, Active
  <2>4. \/ Comes(c, "send") /\ Still
        \/ AsyncSendCheck(c) /\ node[Current(c)].status # "online" /\ Advances(c) /\ Still
        \/ AsyncSend(c) /\ Advances(c)
    BY <1>0, <1>2, <2>3 DEF LoopMove
  <2>5. SameHeader(c)
    BY <2>4 DEF Comes, Advances
  <2> QED
    BY <2>2, <2>4, <2>5
<1>3. ASSUME NEW l \in Loops, LoopMove(l), l # c PROVE loop'[c] = loop[c]
  BY <1>0, <1>3, MsgMoves DEF OnlyLoop
<1> QED
  BY <1>0, <1>1, <1>2, <1>3, LoopMoves

LEMMA ReachStep ==
    ASSUME BroadcastInv, Next, NEW c \in Callers, Active(c)', ~Broadcast(c), Underway(c),
           loop[c].msg \in clean, Keeps(arrays, arrays', loop[c]),
           NEW b, b = loop[c].msg, NEW n \in sent[b], Up(n)'
    PROVE  Reached(c, n)'
<1> DEFINE i == loop[c].i
           A == arrays[loop[c].arr]
<1>0. ServerInv /\ BroadcastsDiffer /\ c \in Loops
  BY DEF BroadcastInv, Loops
<1>1. /\ Active(c) /\ SameHeader(c)
      /\ \/ loop'[c] = loop[c]
         \/ Comes(c, "send") /\ Still
         \/ AsyncSendCheck(c) /\ node[Current(c)].status # "online" /\ Advances(c) /\ Still
         \/ AsyncSend(c) /\ Advances(c)
  BY CallerMoves
<1>2. b \in Nat \ {Keepalive} /\ i \in Nat \ {0} /\ b \in 1..Len(sent)
  BY <1>0, <1>1, LoopFields DEF ServerInv, BroadcastsDiffer, HistoryType
<1>3. Joined(n) /\ n \in Nodes
  BY <1>0, <1>2 DEF BroadcastsDiffer, Joined
<1>4. Up(n) /\ node'[n].conn # "reset" /\ QueueMove(n, b)
  BY <1>0, <1>2, <1>3, UpBefore, QueuesMoveNext DEF QueuesMove
<1>5. PICK p \in 1..loop[c].len :
        A[p] = n /\ (p < i => HasOne(n, b)) /\ (p >= i => HasNone(n, b))
  BY <1>4 DEF Underway, Reached
<1>6. p \in Int /\ i \in Int
  BY <1>2
<1>7. Sends(n, b) => AsyncSend(c) /\ Advances(c) /\ loop[c].node = n
  <2>1. ASSUME Sends(n, b) PROVE AsyncSend(c) /\ loop' = Advance(c) /\ loop[c].node = n
    <3>1. PICK d \in Callers :
             /\ AsyncSend(d) /\ loop' = Advance(d) /\ loop[d].node = n
             /\ \A e \in Callers : Active(e) /\ loop[e].msg = b => e = d
      BY <1>0, <1>2, <2>1, SendersDiffer
    <3> QED
      BY <1>1, <3>1
  <2> QED
    BY <1>0, <2>1, LoopAdvances
<1>8. ASSUME loop'[c].i = i, ~Sends(n, b)
      PROVE  (p < loop'[c].i => HasOne(n, b)') /\ (p >= loop'[c].i => HasNone(n, b)')
  BY <1>4, <1>5, <1>8 DEF QueueMove
<1>9. (p < loop'[c].i => HasOne(n, b)') /\ (p >= loop'[c].i => HasNone(n, b)')
  <2>1. CASE loop'[c] = loop[c]
    <3>1. loop'[c].i = i /\ ~Advances(c)
      BY <1>6, <2>1 DEF Advances
    <3> QED
      BY <1>7, <1>8, <3>1
  <2>2. CASE Comes(c, "send") /\ Still
    <3>1. loop'[c].i = i /\ ~Advances(c)
      BY <1>6, <2>2 DEF Advances, Comes
    <3> QED
      BY <1>7, <1>8, <3>1
  <2>3. CASE /\ AsyncSendCheck(c) /\ node[Current(c)].status # "online"
             /\ Advances(c) /\ Still
    <3>1. loop'[c].i = i + 1 /\ UNCHANGED node
      BY <2>3 DEF Advances, Still
    <3>2. p # i
      BY <1>4, <1>5, <2>3 DEF Up, Current
    <3>3. (HasOne(n, b) => HasOne(n, b)') /\ (HasNone(n, b) => HasNone(n, b)')
      BY <3>1 DEF HasOne, HasNone
    <3>4. (p < i + 1 => p < i) /\ (p >= i + 1 => p >= i)
      BY <1>6, <3>2
    <3> QED
      BY <1>5, <3>1, <3>3, <3>4
  <2>4. CASE AsyncSend(c) /\ Advances(c)
    <3>1. loop'[c].i = i + 1 /\ loop[c].at = "send"
      BY <2>4 DEF Advances, AsyncSend
    <3>2. i <= loop[c].len /\ loop[c].node = A[i]
      BY <3>1 DEF Underway
    <3>3. i \in 1..loop[c].len
      BY <1>0, <1>2, <3>2, LoopFields DEF ServerInv
    <3>4. loop[c].node = n <=> p = i
      BY <1>5, <3>2, <3>3 DEF Underway, Distinct
    <3>5. CASE p = i
      <4>1. HasNone(n, b) /\ loop[c].node = n
        BY <1>5, <1>6, <3>4, <3>5
      <4>2. ~(UNCHANGED loop)
        BY <1>6, <3>1
      <4>3. HasOne(n, b)'
        BY <1>0, <1>2, <2>4, <4>1, <4>2, SendCounts
      <4>4. ~(p >= i + 1)
        BY <1>6, <3>5
      <4> QED
        BY <3>1, <4>3, <4>4
    <3>6. CASE p # i
      <4>1. ~Sends(n, b)
        BY <1>7, <3>4, <3>6
      <4>2. (p < i + 1 => p < i) /\ (p >= i + 1 => p >= i)
        BY <1>6, <3>6
      <4> QED
        BY <1>4, <1>5, <3>1, <4>1, <4>2 DEF QueueMove
    <3> QED
      BY <3>5, <3>6
  <2> QED
    BY <1>1, <2>1, <2>2, <2>3, <2>4
<1>10. arrays'[loop'[c].arr][p] = n /\ p \in 1..loop'[c].len /\ loop'[c].msg = b
  BY <1>1, <1>5 DEF SameHeader, Keeps
<1> QED
  BY <1>9, <1>10 DEF Reached, HasOne, HasNone


LEMMA UnderwayStep ==
    ASSUME BroadcastInv, Next, NEW c \in Callers, Active(c)', loop'[c].msg \in clean'
    PROVE  Underway(c)'
<1> USE AgentServerAssumption
<1>0. ServerInv /\ BroadcastsDiffer /\ CallersUnderway /\ c \in Loops
  BY DEF BroadcastInv, Loops
<1>1. CASE Broadcast(c)
  <2>1. /\ Len(sent) \in Nat
        /\ sent'[Len(sent) + 1] = {n \in Nodes : n # accept /\ node[n].status = "online"}
        /\ UNCHANGED <<arrays, clients, node, accept>> /\ loop[c].at = "idle"
    BY <1>0, <1>1, BroadcastHistory
  <2>2. Begins(c, Len(sent) + 1)
    <3>1. loop' = [loop EXCEPT ![c] = Loop(Len(sent) + 1)] /\ Len(sent) + 1 \in Nat
      BY <1>1, <2>1 DEF Broadcast
    <3> QED
      BY <1>0, <3>1, LoopBegins
  <2>3. /\ loop'[c].at = "next" /\ loop'[c].arr = clients.arr /\ loop'[c].len = clients.len
        /\ loop'[c].i = 1 /\ loop'[c].msg = Len(sent) + 1
    BY <2>2 DEF Begins
  <2>4. /\ clients.arr \in Nat /\ clients.len \in Nat /\ Distinct(arrays, clients)
        /\ \A n \in Nodes : n \in View(arrays, clients) <=> Listed(n)
    BY <1>0, ClientFields DEF ServerInv, SliceLists
  <2>5. Earlier(loop'[c], clients') /\ Distinct(arrays', loop'[c])
    BY <2>1, <2>3, <2>4 DEF Earlier, Distinct
  <2>6. ASSUME NEW n \in sent'[loop'[c].msg] PROVE Reached(c, n)'
    <3>1. n \in Nodes /\ Listed(n)
      BY <2>1, <2>3, <2>6 DEF Listed
    <3>2. PICK p \in 1..clients.len : n = arrays[clients.arr][p]
      BY <2>4, <3>1 DEF View
    <3>3. HasNone(n, Len(sent) + 1)
      BY <1>0, <2>1, <3>1 DEF BroadcastsDiffer
    <3>4. p >= 1 /\ ~(p < 1)
      BY <2>4
    <3>5. /\ Never(node'[n].written, loop'[c].msg) /\ Never(node'[n].held, loop'[c].msg)
          /\ Never(node'[n].queue, loop'[c].msg)
      BY <2>1, <2>3, <3>3 DEF HasNone
    <3> QED
      BY <2>1, <2>3, <3>2, <3>4, <3>5 DEF Reached, HasNone
  <2> QED
    BY <2>3, <2>5, <2>6 DEF Underway
<1>2. CASE ~Broadcast(c)
  <2>1. /\ Active(c) /\ SameHeader(c)
        /\ \/ loop'[c] = loop[c]
           \/ Comes(c, "send") /\ Still
           \/ AsyncSendCheck(c) /\ node[Current(c)].status # "online" /\ Advances(c) /\ Still
           \/ AsyncSend(c) /\ Advances(c)
    BY <1>2, CallerMoves
  <2>2. PICK b : b = loop[c].msg
    OBVIOUS
  <2>3. loop'[c].msg = b /\ b \in clean'
    BY <2>1, <2>2 DEF SameHeader
  <2>4. b \in clean
    <3>1. b <= Len(sent) /\ b \in Nat /\ Len(sent) \in Nat
      BY <1>0, <2>2, LoopFields, HistoryMoves DEF ServerInv, BroadcastsDiffer
    <3>2. ASSUME NEW d \in Callers, Broadcast(d) PROVE b \in clean
      BY <1>0, <2>3, <3>1, <3>2, BroadcastHistory
    <3> QED
      BY <1>0, <2>3, <3>2, HistoryMoves
  <2>5. Underway(c)
    BY <1>0, <2>1, <2>2, <2>4 DEF CallersUnderway
  <2>6. ASSUME NEW n \in Nodes, remove(n) PROVE FALSE
    <3>1. clean' = clean \ {loop[l].msg : l \in {k \in Callers : loop[k].at # "idle"}}
      BY <2>6 DEF remove
    <3> QED
      BY <2>1, <2>2, <2>3, <3>1 DEF Active
  <2>7. append \/ UNCHANGED slices
    BY <2>6, SliceMoves
  <2>8. /\ Earlier(loop[c], clients) /\ Distinct(arrays, loop[c]) /\ Shows(arrays, loop[c])
        /\ loop[c].arr \in Nat /\ loop[c].len \in Nat
    BY <1>0, <2>5, LoopFields DEF ServerInv, HeadersShow, Underway
  <2>9. Keeps(arrays, arrays', loop[c]) /\ Earlier(loop[c], clients')
    BY <1>0, <2>7, <2>8, LoopKeeps
  <2>10. Distinct(arrays', loop[c])
    BY <2>8, <2>9, KeptView
  <2>11. Earlier(loop'[c], clients') /\ Distinct(arrays', loop'[c])
    BY <2>1, <2>9, <2>10 DEF Earlier, Distinct, SameHeader
  <2>12. ASSUME loop'[c].at = "send"
         PROVE  /\ loop'[c].i <= loop'[c].len
                /\ loop'[c].node = arrays'[loop'[c].arr][loop'[c].i]
    <3>1. CASE loop'[c] = loop[c]
      <4>1. loop[c].i <= loop[c].len /\ loop[c].node = arrays[loop[c].arr][loop[c].i]
        BY <2>5, <2>12, <3>1 DEF Underway
      <4>2. loop[c].i \in 1..loop[c].len
        BY <1>0, <4>1, LoopFields DEF ServerInv
      <4> QED
        BY <2>9, <3>1, <4>1, <4>2 DEF Keeps
    <3>2. CASE Comes(c, "send") /\ Still
      BY <3>2 DEF Comes, Still, SameHeader, Current
    <3> QED
      BY <2>1, <2>12, <3>1, <3>2 DEF Advances
  <2>13. ASSUME NEW n \in sent'[b], Up(n)' PROVE Reached(c, n)'
    <3>1. n \in sent[b]
      <4>1. b \in 1..Len(sent)
        BY <1>0, <2>4 DEF ServerInv, HistoryType
      <4> QED
        BY <1>0, <2>13, <4>1, HistoryMoves
    <3> QED
      BY <1>2, <2>2, <2>4, <2>5, <2>9, <2>13, <3>1, ReachStep
  <2> QED
    BY <2>3, <2>11, <2>12, <2>13 DEF Underway
<1> QED
  BY <1>1, <1>2

LEMMA EndedStep ==
    ASSUME BroadcastInv, Next, NEW b \in clean', Over(b)', NEW n \in sent'[b], Up(n)'
    PROVE  HasOne(n, b)'
<1> USE AgentServerAssumption
<1>0. /\ ServerInv /\ BroadcastsDiffer /\ CallersUnderway /\ EndedReached
      /\ Callers \subseteq Loops /\ "close" \notin Callers /\ "keepalive" \notin Callers
  BY DEF BroadcastInv, Loops
<1>1. b \in clean
  <2>1. ASSUME NEW c \in Callers, Broadcast(c) PROVE b \in clean
    <3>1. clean' = clean \cup {Len(sent) + 1} /\ Len(sent) \in Nat
      BY <1>0, <2>1, BroadcastHistory
    <3>2. loop' = [loop EXCEPT ![c] = Loop(Len(sent) + 1)] /\ Len(sent) + 1 \in Nat
      BY <2>1, <3>1 DEF Broadcast
    <3>3. Begins(c, Len(sent) + 1)
      BY <1>0, <3>2, LoopBegins
    <3>4. loop'[c].msg = Len(sent) + 1 /\ loop'[c].at # "idle"
      BY <3>3 DEF Begins
    <3>5. b # Len(sent) + 1
      BY <3>4 DEF Over, Active
    <3> QED
      BY <3>1, <3>5
  <2> QED
    BY <1>0, <2>1, HistoryMoves
<1>2. b \in 1..Len(sent) /\ b \in Nat \ {Keepalive}
  BY <1>0, <1>1 DEF ServerInv, HistoryType, Keepalive
<1>3. n \in sent[b] /\ Joined(n) /\ n \in Nodes
  BY <1>0, <1>2, HistoryMoves DEF BroadcastsDiffer, Joined
<1>4. Up(n) /\ node'[n].conn # "reset" /\ QueueMove(n, b)
  BY <1>0, <1>2, <1>3, UpBefore, QueuesMoveNext DEF QueuesMove
<1>5. CASE Over(b)
  <2>1. HasOne(n, b)
    BY <1>0, <1>1, <1>3, <1>4, <1>5 DEF EndedReached
  <2>2. ~Sends(n, b)
    BY <1>0, <1>2, <1>5, SendersDiffer DEF Over
  <2> QED
    BY <1>4, <2>1, <2>2 DEF QueueMove
<1>6. CASE ~Over(b)
  <2>1. PICK c \in Callers : Active(c) /\ loop[c].msg = b
    BY <1>6 DEF Over
  <2>2. ~(Active(c)' /\ loop'[c].msg = b)
    BY DEF Over
  <2>3. LoopMove(c)
    <3>1. loop'[c] # loop[c]
      BY <2>1, <2>2 DEF Active
    <3>2. ASSUME NEW l \in Loops, LoopMove(l), l # c PROVE loop'[c] = loop[c]
      BY <1>0, <3>2, MsgMoves DEF OnlyLoop
    <3> QED
      BY <1>0, <3>1, <3>2, LoopMoves
  <2>4. LoopEnds(c) /\ UNCHANGED node
    <3>1. ~Broadcast(c)
      BY <2>1 DEF Broadcast, Active
    <3>2. ~Comes(c, "send") /\ ~Advances(c)
      BY <2>1, <2>2 DEF Comes, Advances, SameHeader, Active
    <3> QED
      BY <1>0, <2>3, <3>1, <3>2 DEF LoopMove, Still
  <2>5. Reached(c, n)
    BY <1>0, <1>1, <1>3, <1>4, <2>1 DEF CallersUnderway, Underway
  <2>6. loop[c].i > loop[c].len /\ loop[c].i \in Nat /\ loop[c].len \in Nat
    BY <1>0, <2>4, LoopFields DEF LoopEnds, ServerInv
  <2>7. HasOne(n, b)
    <3>1. PICK p \in 1..loop[c].len : p < loop[c].i => HasOne(n, loop[c].msg)
      BY <2>5 DEF Reached
    <3>2. p < loop[c].i
      BY <2>6
    <3> QED
      BY <2>1, <3>1, <3>2
  <2> QED
    BY <2>4, <2>7 DEF HasOne
<1> QED
  BY <1>5, <1>6

LEMMA BroadcastStep ==
    ASSUME BroadcastInv, Next
    PROVE  BroadcastInv'
<1>0. ServerInv /\ BroadcastsDiffer
  BY DEF BroadcastInv
<1>1. ServerInv' /\ BroadcastsDiffer'
  BY <1>0, ServerStep, DifferStep
<1>2. CallersUnderway'
  <2>1. \A c \in Callers : Active(c)' /\ loop'[c].msg \in clean' => Underway(c)'
    BY UnderwayStep
  <2> QED
    BY <2>1 DEF CallersUnderway
<1>3. EndedReached'
  <2>1. \A b \in clean' : Over(b)' => \A n \in sent'[b] : Up(n)' => HasOne(n, b)'
    BY EndedStep
  <2> QED
    BY <2>1 DEF EndedReached
<1> QED
  BY <1>1, <1>2, <1>3 DEF BroadcastInv

LEMMA BroadcastStutters ==
    ASSUME BroadcastInv, UNCHANGED vars
    PROVE  BroadcastInv'
<1>0. UNCHANGED <<arrays, clients, node, accept, loop, sent, clean>>
  BY DEF vars, slices, history
<1>1. ServerInv'
  BY ServerStutters DEF BroadcastInv
<1>2. BroadcastsDiffer'
  BY <1>0 DEF BroadcastInv, BroadcastsDiffer, Active, HasNone, Joined
<1>3. CallersUnderway'
  BY <1>0 DEF BroadcastInv, CallersUnderway, Active, Underway, Reached, Up, HasNone, HasOne
<1>4. EndedReached'
  BY <1>0 DEF BroadcastInv, EndedReached, Over, Active, Up, HasOne
<1> QED
  BY <1>1, <1>2, <1>3, <1>4 DEF BroadcastInv

\* Where each broadcast that no removal has overlapped stands: whom its loop has
\* passed has its message, whom it has not passed has not.
THEOREM BroadcastInvariant == Spec => []BroadcastInv
<1>1. Init => BroadcastInv
  BY InitialBroadcasts
<1>2. BroadcastInv /\ [Next]_vars => BroadcastInv'
  BY BroadcastStep, BroadcastStutters
<1> QED
  BY <1>1, <1>2, PTL DEF Spec

\* A broadcast that no removal overlaps reaches every client that was online when it
\* began and still is, exactly once.
THEOREM BroadcastIsExact == Spec => []BroadcastExact
<1>1. ASSUME BroadcastInv PROVE BroadcastExact
  <2>1. ASSUME NEW b \in clean \ {loop[c].msg : c \in Callers}, NEW n \in sent[b],
               node[n].status = "online", node[n].conn \in {"up", "stalled"}
        PROVE  Cardinality({i \in DOMAIN Got(n) : Got(n)[i] = b}) = 1
    <3>0. ServerInv /\ BroadcastsDiffer /\ EndedReached
      BY <1>1 DEF BroadcastInv
    <3>1. Over(b) /\ Up(n)
      BY <2>1 DEF Over, Up
    <3>2. HasOne(n, b)
      BY <2>1, <3>0, <3>1 DEF EndedReached
    <3>3. n \in Nodes
      BY <2>1, <3>0 DEF ServerInv, HistoryType
    <3> DEFINE w == node[n].written
               h == node[n].held
               q == node[n].queue
               wh == w \o h
               g == wh \o q
    <3>4. w \in Seq(Nat) /\ h \in Seq(Nat) /\ q \in Seq(Nat)
      BY <3>0, <3>3, NodeFields DEF ServerInv
    <3>5. Got(n) = g
      BY DEF Got
    <3>6. \/ Once(w, b) /\ Never(h, b) /\ Never(q, b)
          \/ Never(w, b) /\ Once(h, b) /\ Never(q, b)
          \/ Never(w, b) /\ Never(h, b) /\ Once(q, b)
      BY <3>2 DEF HasOne
    <3> HIDE DEF w, h, q
    <3>7. wh \in Seq(Nat) /\ (Never(wh, b) <=> Never(w, b) /\ Never(h, b))
          /\ (Once(wh, b) <=> (Once(w, b) /\ Never(h, b)) \/ (Never(w, b) /\ Once(h, b)))
      BY <3>4, CatCounts, CatDef
    <3> HIDE DEF wh
    <3>8. g \in Seq(Nat)
          /\ (Once(g, b) <=> (Once(wh, b) /\ Never(q, b)) \/ (Never(wh, b) /\ Once(q, b)))
      BY <3>4, <3>7, CatCounts, CatDef
    <3> HIDE DEF g
    <3>9. Once(g, b) /\ DOMAIN g = 1..Len(g)
      BY <3>6, <3>7, <3>8
    <3> DEFINE P == {i \in DOMAIN g : g[i] = b}
    <3>10. \E i : P = {i}
      BY <3>9 DEF Once
    <3> HIDE DEF P
    <3>11. Cardinality(P) = 1
      BY <3>10, FS_Singleton
    <3> QED
      BY <3>5, <3>11 DEF P
  <2> QED
    BY <2>1 DEF BroadcastExact
<1> QED
  BY <1>1, BroadcastInvariant, PTL
=============================================================================
