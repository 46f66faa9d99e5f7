------------------------- MODULE SubscribersProofs -------------------------
(***************************************************************************)
(* Proofs about Subscribers, for any set of clients, any topics and queue  *)
(* capacity and any number of events: its four invariants.                 *)
(***************************************************************************)
EXTENDS Subscribers, SliceFacts, FiniteSetTheorems

SliceHeader == [arr : Nat, len : Nat]

LoopType == [at : {"idle", "next", "check", "spin", "push", "wait", "done"},
             arr : Nat, len : Nat, i : Nat \ {0}, node : Nodes \cup {Nil}]

\* The header h, of a slice or of a loop, lies within the array it is of, and shows
\* only nodes.
Shows(A, h) ==
    /\ h.arr \in 1..Len(A) /\ h.len <= Len(A[h.arr])
    /\ \A i \in 1..h.len : A[h.arr][i] \in Nodes

ArraysType == arrays \in Seq(Seq(Nodes \cup {Nil})) /\ Len(arrays) > 0

SlicesType ==
    /\ g \in SliceHeader /\ header \in [Nodes -> SliceHeader]
    /\ accept \in [at : {"idle", "store", "count"}, node : Nodes \cup {Nil},
                   header : SliceHeader]

LoopsType == send \in [Senders -> LoopType] /\ shut \in LoopType

QueuesType ==
    /\ sendQueue \in [Nodes -> Seq(Event \cup {Control})]
    /\ \A n \in Nodes : Len(sendQueue[n]) <= QueueCap
    /\ written \in [Nodes -> Seq(Event)]

NodesType ==
    /\ status \in [Nodes -> {"none", "online", "offline"}]
    /\ topics \in [Nodes -> SUBSET Filters]
    /\ writer \in [Nodes -> BOOLEAN]
    /\ closing \in [Nodes -> {"no", "find", "shift", "store", "count", "done"}]
    /\ found \in [Nodes -> Nat]

CountsType ==
    /\ ctxDone \in BOOLEAN /\ gone \in {"no", "panic", "exit"}
    /\ connects \in Int /\ budget \in [Bounded -> Nat]
    /\ event \in Nat /\ owed \in [Nodes -> SUBSET Event]

Types == ArraysType /\ SlicesType /\ LoopsType /\ QueuesType /\ NodesType /\ CountsType

\* Every header anybody holds shows only nodes.
HeadersShow ==
    /\ Shows(arrays, g) /\ Shows(arrays, accept.header) /\ Shows(arrays, shut)
    /\ \A n \in Nodes : Shows(arrays, header[n])
    /\ \A s \in Senders : Shows(arrays, send[s])

\* A sender that is past its loop's head is at a node, and remove has found its
\* node before it shifts.
AtNodes ==
    /\ \A s \in Senders : send[s].at \in {"check", "spin", "push"} => send[s].node \in Nodes
    /\ \A s \in Senders : send[s].at \notin {"wait", "done"}
    /\ shut.at \in {"idle", "next", "wait", "done"}
    /\ shut.at = "wait" => shut.node \in Nodes
    /\ \A n \in Nodes : closing[n] = "shift" => found[n] # 0

\* The loop of SendAll.
loop == send["event"]

\* SendAll has begun as many events as it has spent, and one that is under way is
\* an event.
EventsCounted ==
    /\ event + budget["event"] <= LastEvent
    /\ loop.at # "idle" => event > 0

\* A node is closed once it is offline, and only nodes that connected are in an
\* array.
NodesKnown ==
    /\ \A n \in Nodes : closing[n] # "no" => status[n] = "offline"
    /\ accept.at # "idle" => accept.node \in Nodes /\ status[accept.node] # "none"
    /\ \A a \in 1..Len(arrays) : \A i \in 1..Len(arrays[a]) :
            arrays[a][i] \in Nodes => status[arrays[a][i]] # "none"

\* The clients counted in and not yet out, but for one that is being accepted.
Active == {n \in Nodes : status[n] = "online" \/ NodeLocked(n)}

Counted == connects = Cardinality(Active) - (IF accept.at = "idle" THEN 0 ELSE 1)

\* No event is in a queue before SendAll has begun it.
NotAhead == \A n \in Nodes : \A i \in DOMAIN Got(n) : Got(n)[i] <= event

\* The inductive invariant of the first three.
SInv ==
    Types /\ HeadersShow /\ AtNodes /\ EventsCounted /\ NodesKnown /\ Counted
          /\ NotAhead /\ InOrder

-----------------------------------------------------------------------------
(* ExactlyOnce is about the service as long as no client has left, and needs  *)
(* more: nodes are only added to the slice then, and SendAll's loop goes over *)
(* distinct nodes which nobody moves under it.                                *)

Calm == \A n \in Nodes : status[n] # "offline"

\* The slice shows every client that is connected, until the context is cancelled
\* and groups.close replaces it, and the one about to be stored adds one client.
SliceGrows ==
    /\ Distinct(arrays, g)
    /\ ~ctxDone => \A n \in Nodes :
            status[n] = "online" /\ ~(accept.at = "store" /\ accept.node = n) =>
                n \in View(arrays, g)
    /\ accept.at = "store" =>
        /\ Distinct(arrays, accept.header)
        /\ ~ctxDone =>
            /\ accept.header.arr >= g.arr /\ accept.header.len = g.len + 1
            /\ View(arrays, g) \subseteq View(arrays, accept.header)
            /\ accept.node \in View(arrays, accept.header)

Sent(n) == {Got(n)[i] : i \in DOMAIN Got(n)}

\* The loop has the event's clients before it or behind it, and those behind it,
\* and only those, have got the event.
LoopOwes ==
    \A n \in Nodes : event \in owed[n] =>
        n \in View(arrays, loop) /\ MatchFilters(topics[n], event)
LoopBehind ==
    \A n \in Nodes : event \in Sent(n) =>
        \E p \in 1..loop.len : p < loop.i /\ arrays[loop.arr][p] = n
LoopServed ==
    \A n \in Nodes : \A p \in 1..loop.len :
        p < loop.i /\ arrays[loop.arr][p] = n /\ event \in owed[n] => event \in Sent(n)

LoopExact ==
    /\ ~ctxDone => Earlier(loop, g)
    /\ Distinct(arrays, loop)
    /\ loop.at # "idle" => LoopOwes /\ LoopBehind /\ LoopServed
    /\ loop.at \in {"check", "spin", "push"} =>
            loop.i <= loop.len /\ loop.node = arrays[loop.arr][loop.i]

\* groups.close runs after the cancellation, and no event is owed before SendAll
\* has begun it.
Begun ==
    /\ shut.at # "idle" => ctxDone
    /\ \A n \in Nodes : \A e \in owed[n] : e <= event

EInv == SInv /\ Begun /\ (Calm => SliceGrows /\ LoopExact) /\ ExactlyOnce

-----------------------------------------------------------------------------
\* The steps that do not end the process.
Shutting == Close \/ CloseNext \/ CloseWait \/ CloseReturns
Sends(s) == sendAllNext(s) \/ asyncSendCheck(s) \/ asyncSendSpin(s) \/ asyncSend(s)
Closes(n) == removeFind(n) \/ removeShift(n) \/ removeStore(n) \/ disconnect(n)

Step ==
    \/ Cancel \/ SendAll \/ keepalive
    \/ Accepting \/ Shutting
    \/ \E s \in Senders : Sends(s)
    \/ \E n \in Nodes : Client(n) \/ Closes(n) \/ Writing(n)

LEMMA StepOrHalt == Next => Step \/ \E how \in {"panic", "exit"} : Halt(how)
BY DEF Next, Step, Shutdown, Shutting, Sending, Sends, Closing, Closes, Exit,
   asyncSendPanics, removePanics

-----------------------------------------------------------------------------
(* Arrays and headers. *)

\* From A to B elements may move, but one that is a node stays one.
Grows(A, B) ==
    /\ Len(A) <= Len(B)
    /\ \A a \in 1..Len(A) :
        /\ Len(B[a]) = Len(A[a])
        /\ \A i \in 1..Len(A[a]) : A[a][i] \in Nodes => B[a][i] \in Nodes

LEMMA ShowsGrows ==
    ASSUME NEW A \in Seq(Seq(Nodes \cup {Nil})), NEW B \in Seq(Seq(Nodes \cup {Nil})),
           NEW h, h.len \in Nat, Grows(A, B), Shows(A, h)
    PROVE  Shows(B, h)
<1>1. h.arr \in 1..Len(A) /\ h.arr \in 1..Len(B) /\ Len(A[h.arr]) = Len(B[h.arr])
  BY DEF Grows, Shows
<1>2. \A i \in 1..h.len : i \in 1..Len(A[h.arr])
  <2>1. A[h.arr] \in Seq(Nodes \cup {Nil})
    BY <1>1
  <2>2. Len(A[h.arr]) \in Nat /\ h.len <= Len(A[h.arr])
    BY <2>1 DEF Shows
  <2> QED
    BY <2>2
<1> QED
  BY <1>1, <1>2 DEF Grows, Shows

\* The first index of an empty header is shown by any array.
LEMMA EmptyShows ==
    ASSUME NEW A \in Seq(Seq(Nodes \cup {Nil})), Len(A) > 0, NEW h, h.arr = 1, h.len = 0
    PROVE  Shows(A, h)
<1>1. 1 \in 1..Len(A) /\ A[1] \in Seq(Nodes \cup {Nil})
  OBVIOUS
<1>2. Len(A[1]) \in Nat
  BY <1>1
<1> QED
  BY <1>1, <1>2 DEF Shows

\* append: in place, or in a new array.
LEMMA AppendEffect ==
    ASSUME ArraysType, SlicesType, HeadersShow, NEW n \in Nodes
    PROVE  /\ AppendArrays(n) \in Seq(Seq(Nodes \cup {Nil}))
           /\ AppendHeader.arr \in 1..Len(AppendArrays(n)) /\ AppendHeader.len = g.len + 1
           /\ g.len + 1 <= Len(AppendArrays(n)[AppendHeader.arr])
           /\ AppendArrays(n)[AppendHeader.arr][g.len + 1] = n
           /\ \A i \in 1..g.len : AppendArrays(n)[AppendHeader.arr][i] = arrays[g.arr][i]
           /\ Len(arrays) <= Len(AppendArrays(n))
           /\ \A a \in 1..Len(arrays) :
                /\ Len(AppendArrays(n)[a]) = Len(arrays[a])
                /\ \A i \in 1..Len(arrays[a]) :
                    \/ AppendArrays(n)[a][i] = arrays[a][i]
                    \/ a = g.arr /\ i = g.len + 1 /\ AppendArrays(n)[a][i] = n
           /\ \A a \in 1..Len(AppendArrays(n)) : a \notin 1..Len(arrays) =>
                /\ a = AppendHeader.arr
                /\ \A i \in 1..Len(AppendArrays(n)[a]) :
                    i <= g.len \/ AppendArrays(n)[a][i] \in {n, Nil}
           /\ AppendHeader.arr = g.arr \/ AppendHeader.arr = Len(arrays) + 1
<1>1. /\ arrays \in Seq(Seq(Nodes \cup {Nil})) /\ Within(arrays, g)
      /\ g.arr \in Nat /\ g.len \in Nat
  BY DEF ArraysType, HeadersShow, Shows, Within, SlicesType, SliceHeader
<1>2. /\ AppendArrays(n) = Appended(arrays, g, n, Nil)
      /\ AppendHeader.arr = AppendedArr(arrays, g) /\ AppendHeader.len = g.len + 1
  BY DEF AppendArrays, AppendHeader, Room, Appended, AppendedArr, HasRoom
<1> DEFINE S == Nodes \cup {Nil}
<1>3. arrays \in Seq(Seq(S)) /\ n \in S /\ Nil \in S
  BY <1>1
<1> HIDE DEF S
<1>4. Grown(S, arrays, Appended(arrays, g, n, Nil), g, AppendedArr(arrays, g), n, Nil)
  BY <1>1, <1>3, AppendedEffect
<1>5. Grown(S, arrays, AppendArrays(n), g, AppendHeader.arr, n, Nil)
  BY <1>2, <1>4
<1> QED
  BY <1>2, <1>5 DEF S, Grown

\* remove's shift moves nodes of the slice towards its beginning.
Shifted(k) ==
    [arrays EXCEPT ![g.arr] = [i \in DOMAIN @ |->
        IF k <= i /\ i < g.len THEN @[i + 1] ELSE @[i]]]

LEMMA ShiftEffect ==
    ASSUME ArraysType, SlicesType, HeadersShow, NEW k \in Nat, k # 0, k <= g.len
    PROVE  /\ Shifted(k) \in Seq(Seq(Nodes \cup {Nil})) /\ Len(Shifted(k)) = Len(arrays)
           /\ \A a \in 1..Len(arrays) :
                /\ Len(Shifted(k)[a]) = Len(arrays[a])
                /\ \A i \in 1..Len(arrays[a]) :
                    \/ Shifted(k)[a][i] = arrays[a][i]
                    \/ /\ i + 1 \in 1..Len(arrays[a])
                       /\ Shifted(k)[a][i] = arrays[a][i + 1]
                       /\ Shifted(k)[a][i] \in Nodes
           /\ g.len - 1 \in Nat
<1> DEFINE S == Nodes \cup {Nil}
           A == arrays
           B == Shifted(k)
<1>1. A \in Seq(Seq(S)) /\ Within(A, g) /\ g.arr \in Nat /\ g.len \in Nat
  BY DEF ArraysType, HeadersShow, Shows, Within, SlicesType, SliceHeader
<1>2. /\ B = Removed(A, g, k) /\ k \in 1..g.len
      /\ \A i \in 1..g.len : A[g.arr][i] \in Nodes
  BY <1>1 DEF Shifted, Removed, HeadersShow, Shows
<1> HIDE DEF A, B, S
<1>3. /\ B \in Seq(Seq(S)) /\ Len(B) = Len(A)
      /\ \A a \in 1..Len(A) :
            Len(B[a]) = Len(A[a]) /\ (a # g.arr => B[a] = A[a])
      /\ \A i \in 1..Len(A[g.arr]) :
            B[g.arr][i] = IF k <= i /\ i < g.len THEN A[g.arr][i + 1] ELSE A[g.arr][i]
      /\ \A i \in 1..Len(A[g.arr]) :
            k <= i /\ i < g.len => i + 1 \in 1..Len(A[g.arr]) /\ i + 1 \in 1..g.len
  <2>1. k \in 1..g.len
    BY <1>2
  <2>2. Shrunk(S, A, Removed(A, g, k), g, k)
    BY <1>1, <2>1, RemovedEffect
  <2>3. Shrunk(S, A, B, g, k)
    BY <1>2, <2>2
  <2> QED
    BY <2>3 DEF Shrunk
<1>4. \A i \in 1..Len(A[g.arr]) :
            \/ B[g.arr][i] = A[g.arr][i]
            \/ /\ i + 1 \in 1..Len(A[g.arr])
               /\ B[g.arr][i] = A[g.arr][i + 1] /\ B[g.arr][i] \in Nodes
  BY <1>2, <1>3
<1>5. \A a \in 1..Len(A) : \A i \in 1..Len(A[a]) :
            \/ B[a][i] = A[a][i]
            \/ i + 1 \in 1..Len(A[a]) /\ B[a][i] = A[a][i + 1] /\ B[a][i] \in Nodes
  BY <1>3, <1>4
<1>6. g.len - 1 \in Nat
  BY <1>1, <1>2
<1> QED
  BY <1>3, <1>5, <1>6 DEF A, B, S

\* A step's arrays keep the nodes of the headers there are.
LEMMA ArraysStep ==
    ASSUME Types, HeadersShow, AtNodes, Step
    PROVE  ArraysType' /\ Grows(arrays, arrays')
<1>1. ASSUME UNCHANGED arrays PROVE ArraysType' /\ Grows(arrays, arrays')
  BY <1>1 DEF Types, ArraysType, Grows
<1>2. ASSUME NEW n \in Nodes, OnConnect(n) PROVE ArraysType' /\ Grows(arrays, arrays')
  <2>1. arrays' = AppendArrays(n) /\ ArraysType /\ SlicesType
    BY <1>2 DEF OnConnect, Types
  <2>2. Len(arrays) > 0 /\ Len(arrays) \in Nat
    BY DEF Types, ArraysType
  <2>3. /\ arrays' \in Seq(Seq(Nodes \cup {Nil})) /\ Len(arrays) <= Len(arrays')
        /\ \A a \in 1..Len(arrays) :
            /\ Len(arrays'[a]) = Len(arrays[a])
            /\ \A i \in 1..Len(arrays[a]) :
                arrays'[a][i] = arrays[a][i] \/ arrays'[a][i] = n
    BY <2>1, AppendEffect
  <2>4. Len(arrays') > 0
    BY <2>2, <2>3
  <2> QED
    BY <2>3, <2>4 DEF ArraysType, Grows
<1>3. ASSUME NEW n \in Nodes, removeShift(n) PROVE ArraysType' /\ Grows(arrays, arrays')
  <2>1. /\ found[n] \in Nat /\ found[n] # 0 /\ found[n] <= g.len
        /\ ArraysType /\ SlicesType
    BY <1>3 DEF removeShift, AtNodes, Types, NodesType
  <2>2. arrays' = Shifted(found[n])
    BY <1>3 DEF removeShift, Shifted
  <2>3. /\ arrays' \in Seq(Seq(Nodes \cup {Nil})) /\ Len(arrays') = Len(arrays)
        /\ \A a \in 1..Len(arrays) :
            /\ Len(arrays'[a]) = Len(arrays[a])
            /\ \A i \in 1..Len(arrays[a]) :
                arrays'[a][i] = arrays[a][i] \/ arrays'[a][i] \in Nodes
    BY <2>1, <2>2, ShiftEffect
  <2> QED
    BY <2>1, <2>3 DEF ArraysType, Grows
<1>4. CASE CloseReturns
  <2>1. /\ arrays \in Seq(Seq(Nodes \cup {Nil})) /\ Len(arrays) > 0
        /\ arrays' = Append(arrays, <<>>) /\ <<>> \in Seq(Nodes \cup {Nil})
    BY <1>4, EmptySeq DEF Types, ArraysType, CloseReturns
  <2>2. /\ arrays' \in Seq(Seq(Nodes \cup {Nil})) /\ Len(arrays') = Len(arrays) + 1
        /\ \A a \in 1..Len(arrays) : arrays'[a] = arrays[a]
    BY <2>1, AppendProperties
  <2>3. Len(arrays) \in Nat
    BY <2>1
  <2> QED
    BY <2>1, <2>2, <2>3 DEF ArraysType, Grows
<1>5. \/ UNCHANGED arrays \/ CloseReturns
      \/ \E n \in Nodes : OnConnect(n) \/ removeShift(n)
  BY DEF Step, Accepting, Shutting, Sends, Client, Closes, Writing, slices, Cancel, SendAll,
     keepalive, OnConnectStore, newConnect, Close, CloseNext, CloseWait, sendAllNext,
     asyncSendCheck, asyncSendSpin, asyncSend, onMessage, onConnectReturns, onSetPro,
     removeFind, removeStore, disconnect, asyncSendService, asyncSendServiceFails,
     asyncSendServiceReturns
<1> QED
  BY <1>1, <1>2, <1>3, <1>4, <1>5

\* The headers there are show only nodes in the arrays of the next state too.
LEMMA OldHeadersShow ==
    ASSUME Types, HeadersShow, AtNodes, Step
    PROVE  /\ Shows(arrays', g) /\ Shows(arrays', accept.header) /\ Shows(arrays', shut)
           /\ \A n \in Nodes : Shows(arrays', header[n])
           /\ \A s \in Senders : Shows(arrays', send[s])
           /\ Shows(arrays', Empty) /\ Shows(arrays', Idle)
<1>1. /\ arrays \in Seq(Seq(Nodes \cup {Nil})) /\ arrays' \in Seq(Seq(Nodes \cup {Nil}))
      /\ Len(arrays') > 0 /\ Grows(arrays, arrays')
  BY ArraysStep DEF ArraysType, Types
<1>2. /\ g.len \in Nat /\ accept.header.len \in Nat /\ shut.len \in Nat
      /\ \A n \in Nodes : header[n].len \in Nat
      /\ \A s \in Senders : send[s].len \in Nat
  BY DEF Types, SlicesType, LoopsType, SliceHeader, LoopType
<1>3. /\ Shows(arrays', g) /\ Shows(arrays', accept.header) /\ Shows(arrays', shut)
  BY <1>1, <1>2, ShowsGrows DEF HeadersShow
<1>4. \A n \in Nodes : Shows(arrays', header[n])
  BY <1>1, <1>2, ShowsGrows DEF HeadersShow
<1>5. \A s \in Senders : Shows(arrays', send[s])
  BY <1>1, <1>2, ShowsGrows DEF HeadersShow
<1>6. Empty.arr = 1 /\ Empty.len = 0 /\ Idle.arr = 1 /\ Idle.len = 0
  BY DEF Empty, Idle
<1>7. Shows(arrays', Empty) /\ Shows(arrays', Idle)
  BY <1>1, <1>6, EmptyShows
<1> QED
  BY <1>3, <1>4, <1>5, <1>7

LEMMA SlicesStep ==
    ASSUME Types, HeadersShow, AtNodes, Step
    PROVE  /\ SlicesType'
           /\ Shows(arrays', g') /\ Shows(arrays', accept'.header)
           /\ \A n \in Nodes : Shows(arrays', header'[n])
<1> DEFINE P == /\ SlicesType'
                /\ Shows(arrays', g') /\ Shows(arrays', accept'.header)
                /\ \A n \in Nodes : Shows(arrays', header'[n])
<1>0. /\ g \in SliceHeader /\ header \in [Nodes -> SliceHeader] /\ Empty \in SliceHeader
      /\ accept \in [at : {"idle", "store", "count"}, node : Nodes \cup {Nil},
                     header : SliceHeader]
  BY DEF Types, SlicesType, Empty, SliceHeader
<1>1. ASSUME UNCHANGED <<g, header, accept>> PROVE P
  BY <1>1, <1>0, OldHeadersShow DEF SlicesType
<1>2. ASSUME NEW n \in Nodes, OnConnect(n) PROVE P
  <2>1. /\ UNCHANGED <<g, header>> /\ arrays' = AppendArrays(n)
        /\ accept' = [at |-> "store", node |-> n, header |-> AppendHeader]
    BY <1>2 DEF OnConnect, closers
  <2>2. /\ AppendHeader.arr \in 1..Len(arrays') /\ AppendHeader.len = g.len + 1
        /\ g.len + 1 <= Len(arrays'[AppendHeader.arr])
        /\ arrays'[AppendHeader.arr][g.len + 1] = n
        /\ \A i \in 1..g.len : arrays'[AppendHeader.arr][i] = arrays[g.arr][i]
    BY <2>1, AppendEffect DEF Types
  <2>3. g.len \in Nat /\ g.arr \in Nat /\ \A i \in 1..g.len : arrays[g.arr][i] \in Nodes
    BY <1>0 DEF SliceHeader, HeadersShow, Shows
  <2>4. \A i \in 1..(g.len + 1) : i = g.len + 1 \/ i \in 1..g.len
    BY <2>3
  <2>5. Shows(arrays', AppendHeader)
    BY <2>2, <2>3, <2>4 DEF Shows
  <2>6. AppendHeader \in SliceHeader
    <3>1. Len(arrays) \in Nat
      BY DEF Types, ArraysType
    <3> QED
      BY <2>3, <3>1 DEF AppendHeader, SliceHeader
  <2>7. accept' \in [at : {"idle", "store", "count"}, node : Nodes \cup {Nil},
                     header : SliceHeader] /\ accept'.header = AppendHeader
    BY <2>1, <2>6
  <2> QED
    BY <1>0, <2>1, <2>5, <2>7, OldHeadersShow DEF SlicesType
<1>3. CASE OnConnectStore
  <2>1. g' = accept.header /\ accept' = [accept EXCEPT !.at = "count"] /\ UNCHANGED header
    BY <1>3 DEF OnConnectStore, closers
  <2>2. /\ accept' \in [at : {"idle", "store", "count"}, node : Nodes \cup {Nil},
                        header : SliceHeader]
        /\ accept'.header = accept.header /\ accept.header \in SliceHeader
    BY <1>0, <2>1
  <2> QED
    BY <1>0, <2>1, <2>2, OldHeadersShow DEF SlicesType
<1>4. CASE newConnect
  <2>1. UNCHANGED <<g, header>> /\ accept' = [at |-> "idle", node |-> Nil, header |-> Empty]
    BY <1>4 DEF newConnect, closers, slices
  <2> QED
    BY <1>0, <2>1, OldHeadersShow DEF SlicesType
<1>5. ASSUME NEW n \in Nodes, removeShift(n) PROVE P
  <2> DEFINE h == [arr |-> g.arr, len |-> g.len - 1]
  <2>1. header' = [header EXCEPT ![n] = h] /\ UNCHANGED <<g, accept>>
    BY <1>5 DEF removeShift
  <2>2. g.len \in Nat /\ g.arr \in Nat /\ g.len - 1 \in Nat
    <3>1. found[n] \in Nat /\ found[n] # 0 /\ found[n] <= g.len
      BY <1>5 DEF removeShift, AtNodes, Types, NodesType
    <3> QED
      BY <1>0, <3>1 DEF SliceHeader
  <2>3. h \in SliceHeader /\ h.arr = g.arr /\ h.len = g.len - 1
    BY <2>2 DEF SliceHeader
  <2>4. Shows(arrays', h)
    <3>1. Shows(arrays', g) /\ arrays' \in Seq(Seq(Nodes \cup {Nil}))
      BY OldHeadersShow, ArraysStep DEF ArraysType
    <3>2. arrays'[g.arr] \in Seq(Nodes \cup {Nil})
      BY <3>1 DEF Shows
    <3>3. Len(arrays'[g.arr]) \in Nat
      BY <3>2
    <3> QED
      BY <2>2, <2>3, <3>1, <3>3 DEF Shows
  <2> HIDE DEF h
  <2> QED
    BY <1>0, <2>1, <2>3, <2>4, OldHeadersShow DEF SlicesType
<1>6. ASSUME NEW n \in Nodes, removeStore(n) PROVE P
  <2>1. g' = header[n] /\ header' = [header EXCEPT ![n] = Empty] /\ UNCHANGED accept
    BY <1>6 DEF removeStore
  <2> QED
    BY <1>0, <2>1, OldHeadersShow DEF SlicesType
<1>7. CASE CloseReturns
  <2>1. /\ arrays' = Append(arrays, <<>>) /\ g' = [arr |-> Len(arrays) + 1, len |-> 0]
        /\ UNCHANGED <<header, accept>>
    BY <1>7 DEF CloseReturns, closers
  <2>2. arrays \in Seq(Seq(Nodes \cup {Nil})) /\ Len(arrays) \in Nat
    BY DEF Types, ArraysType
  <2>3. Len(arrays') = Len(arrays) + 1 /\ arrays'[Len(arrays) + 1] = <<>>
    BY <2>1, <2>2
  <2>4. Shows(arrays', g') /\ g' \in SliceHeader
    BY <2>1, <2>2, <2>3 DEF Shows, SliceHeader
  <2> QED
    BY <1>0, <2>1, <2>4, OldHeadersShow DEF SlicesType
<1>8. \/ UNCHANGED <<g, header, accept>> \/ OnConnectStore \/ newConnect \/ CloseReturns
      \/ \E n \in Nodes : OnConnect(n) \/ removeShift(n) \/ removeStore(n)
  <2> DEFINE F == \/ UNCHANGED <<g, header, accept>> \/ OnConnectStore \/ newConnect
                  \/ CloseReturns
                  \/ \E n \in Nodes : OnConnect(n) \/ removeShift(n) \/ removeStore(n)
  <2>1. Cancel \/ SendAll \/ keepalive \/ Accepting \/ Shutting => F
    BY DEF Cancel, SendAll, keepalive, Accepting, Shutting, Close, CloseNext,
       CloseWait, slices, closers
  <2>2. \A s \in Senders : Sends(s) => F
    BY DEF Sends, sendAllNext, asyncSendCheck, asyncSendSpin, asyncSend, slices, closers
  <2>3. \A n \in Nodes : Client(n) \/ Writing(n) => F
    BY DEF Client, onMessage, onConnectReturns, onSetPro, Writing,
       asyncSendService, asyncSendServiceFails, asyncSendServiceReturns, slices, closers
  <2>4. \A n \in Nodes : Closes(n) => F
    BY DEF Closes, removeFind, disconnect, slices, closers
  <2> HIDE DEF F
  <2>5. F
    BY <2>1, <2>2, <2>3, <2>4 DEF Step
  <2> QED
    BY <2>5 DEF F
<1> QED
  BY <1>1, <1>2, <1>3, <1>4, <1>5, <1>6, <1>7, <1>8

-----------------------------------------------------------------------------
(* Loops. *)

\* A loop at one of its steps, over the arrays of the next state.
GoodLoop(l) ==
    /\ l \in LoopType /\ Shows(arrays', l)
    /\ l.at \in {"check", "spin", "push"} => l.node \in Nodes
    /\ l.at \notin {"wait", "done"}

LEMMA OldLoopsGood ==
    ASSUME Types, HeadersShow, AtNodes, Step
    PROVE  GoodLoop(Idle) /\ GoodLoop(Loop) /\ \A s \in Senders : GoodLoop(send[s])
<1>1. GoodLoop(Idle)
  BY OldHeadersShow DEF GoodLoop, Idle, LoopType
<1>2. \A s \in Senders : GoodLoop(send[s])
  BY OldHeadersShow DEF GoodLoop, Types, LoopsType, AtNodes
<1>3. g.arr \in Nat /\ g.len \in Nat
  BY DEF Types, SlicesType, SliceHeader
<1>4. Loop \in LoopType /\ Loop.arr = g.arr /\ Loop.len = g.len /\ Loop.at = "next"
  BY <1>3 DEF Loop, LoopType
<1>5. Shows(arrays', Loop)
  BY <1>4, OldHeadersShow DEF Shows
<1> QED
  BY <1>1, <1>2, <1>4, <1>5 DEF GoodLoop

LEMMA MovedLoop ==
    ASSUME NEW l, GoodLoop(l), NEW m \in LoopType, m.arr = l.arr, m.len = l.len,
           m.at \in {"check", "spin", "push"} => m.node \in Nodes,
           m.at \notin {"wait", "done"}
    PROVE  GoodLoop(m)
BY DEF GoodLoop, Shows

LEMMA AdvanceGood ==
    ASSUME Types, HeadersShow, AtNodes, Step, NEW s \in Senders
    PROVE  GoodLoop(Advance(s))
<1>1. CASE s \in Nodes
  BY <1>1, OldLoopsGood DEF Advance
<1>2. CASE s \notin Nodes
  <2> DEFINE j == send[s].i + 1
             m == [send[s] EXCEPT !.at = "next", !.i = j, !.node = Nil]
  <2>1. Advance(s) = m
    BY <1>2 DEF Advance
  <2>2. send[s] \in LoopType /\ j \in Nat \ {0}
    BY DEF Types, LoopsType, LoopType
  <2> HIDE DEF j
  <2>3. m \in LoopType /\ m.arr = send[s].arr /\ m.len = send[s].len /\ m.at = "next"
    BY <2>2 DEF LoopType
  <2> HIDE DEF m
  <2> QED
    BY <2>1, <2>3, OldLoopsGood, MovedLoop
<1> QED
  BY <1>1, <1>2

LEMMA SendStep ==
    ASSUME Types, HeadersShow, AtNodes, Step
    PROVE  /\ send' \in [Senders -> LoopType]
           /\ \A s \in Senders : GoodLoop(send'[s])
<1> DEFINE P == send' \in [Senders -> LoopType] /\ \A s \in Senders : GoodLoop(send'[s])
<1>0. send \in [Senders -> LoopType] /\ "event" \in Senders /\ "tick" \in Senders
  BY DEF Types, LoopsType, Senders
<1>1. ASSUME UNCHANGED send PROVE P
  BY <1>0, <1>1, OldLoopsGood
<1>2. ASSUME NEW s \in Senders, NEW m, send' = [send EXCEPT ![s] = m], GoodLoop(m) PROVE P
  BY <1>0, <1>2, OldLoopsGood DEF GoodLoop
<1>3. CASE SendAll
  <2>1. send' = [send EXCEPT !["event"] = Loop]
    BY <1>3 DEF SendAll
  <2> QED
    BY <1>0, <1>2, <2>1, OldLoopsGood
<1>4. CASE keepalive
  <2>1. send' = [send EXCEPT !["tick"] = Loop]
    BY <1>4 DEF keepalive
  <2> QED
    BY <1>0, <1>2, <2>1, OldLoopsGood
<1>5. ASSUME NEW n \in Nodes, onMessage(n) PROVE P
  <2> DEFINE m == [Idle EXCEPT !.at = "check", !.node = n]
  <2>1. send' = [send EXCEPT ![n] = m] /\ n \in Senders
    BY <1>5 DEF onMessage, Senders
  <2>2. m \in LoopType /\ m.arr = Idle.arr /\ m.len = Idle.len /\ m.node = n /\ m.at = "check"
    <3>1. Idle \in LoopType
      BY OldLoopsGood DEF GoodLoop
    <3> QED
      BY <3>1 DEF LoopType
  <2>3. GoodLoop(m)
    <3> HIDE DEF m
    <3> QED
      BY <2>2, OldLoopsGood, MovedLoop
  <2> QED
    BY <1>2, <2>1, <2>3
<1>6. ASSUME NEW s \in Senders, sendAllNext(s) PROVE P
  <2> DEFINE l == send[s]
             n == arrays[l.arr][l.i]
             m == [l EXCEPT !.at = "check", !.node = n]
  <2>1. \/ send' = [send EXCEPT ![s] = Idle] \/ send' = [send EXCEPT ![s] = Advance(s)]
        \/ l.i <= l.len /\ send' = [send EXCEPT ![s] = m]
    <3>1. l.i \in Nat /\ l.len \in Nat
      BY DEF Types, LoopsType, LoopType
    <3>2. CASE l.i > l.len
      BY <1>6, <3>2 DEF sendAllNext
    <3>3. CASE ~(l.i > l.len) /\ s = "event" /\ ~MatchFilters(topics[n], event)
      BY <1>6, <3>3 DEF sendAllNext
    <3>4. CASE ~(l.i > l.len) /\ ~(s = "event" /\ ~MatchFilters(topics[n], event))
      <4>1. l.i <= l.len
        BY <3>1, <3>4
      <4>2. send' = [send EXCEPT ![s] = m]
        BY <1>6, <3>4 DEF sendAllNext
      <4> QED
        BY <4>1, <4>2
    <3> QED
      BY <3>2, <3>3, <3>4
  <2>2. ASSUME l.i <= l.len PROVE GoodLoop(m)
    <3>1. l \in LoopType /\ Shows(arrays, l) /\ l.i \in Nat \ {0} /\ l.len \in Nat
      BY DEF Types, LoopsType, LoopType, HeadersShow
    <3>2. n \in Nodes
      BY <2>2, <3>1 DEF Shows
    <3> HIDE DEF n
    <3>3. m \in LoopType /\ m.arr = l.arr /\ m.len = l.len /\ m.node = n /\ m.at = "check"
      BY <3>1, <3>2 DEF LoopType
    <3> HIDE DEF m, l
    <3>4. GoodLoop(l)
      BY OldLoopsGood DEF l
    <3> QED
      BY <3>2, <3>3, <3>4, MovedLoop
  <2> HIDE DEF m
  <2> QED
    BY <1>2, <2>1, <2>2, OldLoopsGood, AdvanceGood
<1>7. ASSUME NEW s \in Senders, NEW to \in {"spin", "push"},
             send[s].at \in {"check", "spin"},
             send' = [send EXCEPT ![s] = [send[s] EXCEPT !.at = to]]
      PROVE  P
  <2> DEFINE m == [send[s] EXCEPT !.at = to]
  <2>1. send[s] \in LoopType /\ send[s].node \in Nodes
    BY <1>7 DEF Types, LoopsType, AtNodes
  <2>2. /\ m \in LoopType /\ m.arr = send[s].arr /\ m.len = send[s].len
        /\ m.node = send[s].node /\ m.at = to
    BY <2>1 DEF LoopType
  <2>3. send' = [send EXCEPT ![s] = m]
    BY <1>7
  <2> HIDE DEF m
  <2>4. GoodLoop(m)
    BY <2>1, <2>2, OldLoopsGood, MovedLoop
  <2> QED
    BY <1>2, <2>3, <2>4
<1>8. ASSUME NEW s \in Senders, asyncSendCheck(s) PROVE P
  <2>1. \/ send' = [send EXCEPT ![s] = Advance(s)]
        \/ send' = [send EXCEPT ![s] = [send[s] EXCEPT !.at = "spin"]]
    BY <1>8 DEF asyncSendCheck
  <2>2. send[s].at = "check"
    BY <1>8 DEF asyncSendCheck
  <2> QED
    BY <1>2, <1>7, <2>1, <2>2, AdvanceGood
<1>9. ASSUME NEW s \in Senders, asyncSendSpin(s) PROVE P
  <2>1. send' = [send EXCEPT ![s] = [send[s] EXCEPT !.at = "push"]] /\ send[s].at = "spin"
    BY <1>0, <1>9 DEF asyncSendSpin
  <2> QED
    BY <1>7, <2>1
<1>10. ASSUME NEW s \in Senders, asyncSend(s) PROVE P
  <2>1. send' = [send EXCEPT ![s] = Advance(s)]
    BY <1>10 DEF asyncSend
  <2> QED
    BY <1>2, <2>1, AdvanceGood
<1>11. \/ UNCHANGED send \/ SendAll \/ keepalive
       \/ \E n \in Nodes : onMessage(n)
       \/ \E s \in Senders :
            sendAllNext(s) \/ asyncSendCheck(s) \/ asyncSendSpin(s) \/ asyncSend(s)
  BY DEF Step, Accepting, Shutting, Sends, Client, Closes, Writing, slices, Cancel, OnConnect,
     OnConnectStore, newConnect, Close, CloseNext, CloseWait, CloseReturns,
     onConnectReturns, onSetPro, removeFind, removeShift, removeStore, disconnect,
     asyncSendService, asyncSendServiceFails, asyncSendServiceReturns
<1> QED
  BY <1>1, <1>3, <1>4, <1>5, <1>6, <1>8, <1>9, <1>10, <1>11

LEMMA ShutStep ==
    ASSUME Types, HeadersShow, AtNodes, Step
    PROVE  /\ shut' \in LoopType /\ Shows(arrays', shut')
           /\ shut'.at \in {"idle", "next", "wait", "done"}
           /\ shut'.at = "wait" => shut'.node \in Nodes
<1> DEFINE P == /\ shut' \in LoopType /\ Shows(arrays', shut')
                /\ shut'.at \in {"idle", "next", "wait", "done"}
                /\ shut'.at = "wait" => shut'.node \in Nodes
<1>0. /\ shut \in LoopType /\ Shows(arrays', shut) /\ Shows(arrays, shut)
      /\ shut.at \in {"idle", "next", "wait", "done"}
      /\ shut.at = "wait" => shut.node \in Nodes
  BY OldHeadersShow DEF Types, LoopsType, AtNodes, HeadersShow
<1>1. ASSUME UNCHANGED shut PROVE P
  BY <1>0, <1>1
<1>2. ASSUME NEW m \in LoopType, shut' = m, m.arr = shut.arr, m.len = shut.len,
             m.at \in {"next", "wait"}, m.at = "wait" => m.node \in Nodes
      PROVE  P
  BY <1>0, <1>2 DEF Shows
<1>3. CASE Close
  BY <1>3, OldLoopsGood DEF Close, GoodLoop, Loop
<1>4. CASE CloseNext
  <2> DEFINE n == arrays[shut.arr][shut.i]
             j == shut.i + 1
             v == [shut EXCEPT !.at = "wait", !.node = n]
             w == [shut EXCEPT !.i = j]
  <2>1. shut.at = "next" /\ shut.i <= shut.len /\ (shut' = v \/ shut' = w)
    BY <1>4 DEF CloseNext
  <2>2. shut.i \in Nat \ {0} /\ shut.len \in Nat /\ j \in Nat \ {0}
    BY <1>0 DEF LoopType
  <2>3. n \in Nodes
    BY <1>0, <2>1, <2>2 DEF Shows
  <2> HIDE DEF n, j
  <2>4. /\ v \in LoopType /\ v.arr = shut.arr /\ v.len = shut.len /\ v.at = "wait"
        /\ v.node = n
    BY <1>0, <2>3 DEF LoopType
  <2>5. w \in LoopType /\ w.arr = shut.arr /\ w.len = shut.len /\ w.at = shut.at
    BY <1>0, <2>2 DEF LoopType
  <2> HIDE DEF v, w
  <2> QED
    BY <1>2, <2>1, <2>3, <2>4, <2>5
<1>5. CASE CloseWait
  <2> DEFINE j == shut.i + 1
             w == [shut EXCEPT !.at = "next", !.i = j, !.node = Nil]
  <2>1. shut' = w /\ j \in Nat \ {0}
    BY <1>0, <1>5 DEF CloseWait, LoopType
  <2> HIDE DEF j
  <2>2. w \in LoopType /\ w.arr = shut.arr /\ w.len = shut.len /\ w.at = "next"
    BY <1>0, <2>1 DEF LoopType
  <2> HIDE DEF w
  <2> QED
    BY <1>2, <2>1, <2>2
<1>6. CASE CloseReturns
  <2> DEFINE w == [Idle EXCEPT !.at = "done"]
  <2>1. shut' = w /\ Idle \in LoopType /\ Shows(arrays', Idle)
    BY <1>6, OldLoopsGood DEF CloseReturns, GoodLoop
  <2>2. w \in LoopType /\ w.arr = Idle.arr /\ w.len = Idle.len /\ w.at = "done"
    BY <2>1 DEF LoopType
  <2> HIDE DEF w
  <2> QED
    BY <2>1, <2>2 DEF Shows
<1>7. UNCHANGED shut \/ Close \/ CloseNext \/ CloseWait \/ CloseReturns
  BY DEF Step, Accepting, Shutting, Sends, Client, Closes, Writing, Cancel, SendAll, keepalive,
     OnConnect, OnConnectStore, newConnect, sendAllNext, asyncSendCheck,
     asyncSendSpin, asyncSend, onMessage, onConnectReturns, onSetPro, removeFind,
     removeShift, removeStore, disconnect, asyncSendService, asyncSendServiceFails,
     asyncSendServiceReturns
<1> QED
  BY <1>1, <1>3, <1>4, <1>5, <1>6, <1>7

-----------------------------------------------------------------------------
(* Queues. *)

\* What asyncSend appends is an event, or a control message.
LEMMA SentType ==
    ASSUME Types, EventsCounted, NEW s \in Senders, asyncSend(s)
    PROVE  (IF s = "event" THEN event ELSE Control) \in Event \cup {Control}
<1>1. CASE s = "event"
  <2>1. event > 0 /\ event \in Nat /\ budget["event"] \in Nat
    BY <1>1 DEF asyncSend, EventsCounted, loop, Types, CountsType, Bounded
  <2>2. event <= LastEvent
    BY <2>1, SubscribersAssumption DEF EventsCounted
  <2> QED
    BY <1>1, <2>1, <2>2, SubscribersAssumption DEF Event
<1>2. CASE s # "event"
  BY <1>2
<1> QED
  BY <1>1, <1>2

\* A queue changes at one node: a message is appended or its head is taken, and
\* then perhaps written.
QueuesMove ==
    \/ UNCHANGED <<sendQueue, written>>
    \/ \E n \in Nodes : \E m \in Event \cup {Control} :
        /\ Len(sendQueue[n]) < QueueCap /\ status[n] = "online"
        /\ sendQueue' = [sendQueue EXCEPT ![n] = Append(@, m)]
        /\ \/ m = event /\ asyncSend("event") /\ loop.node = n
           \/ m = Control
        /\ UNCHANGED written
    \/ \E n \in Nodes :
        /\ sendQueue[n] # <<>>
        /\ sendQueue' = [sendQueue EXCEPT ![n] = Tail(@)]
        /\ \/ UNCHANGED written /\ (Head(sendQueue[n]) = Control \/ status'[n] = "offline")
           \/ /\ Head(sendQueue[n]) # Control
              /\ written' = [written EXCEPT ![n] = Append(@, Head(sendQueue[n]))]

LEMMA QueuesMoves ==
    ASSUME Types, AtNodes, EventsCounted, Step PROVE QueuesMove
<1>1. ASSUME NEW s \in Senders, asyncSend(s) PROVE QueuesMove
  <2> DEFINE n == send[s].node
             m == IF s = "event" THEN event ELSE Control
  <2>1. m \in Event \cup {Control}
    BY <1>1, SentType
  <2>2. n \in Nodes /\ send[s].at = "push"
    BY <1>1 DEF asyncSend, AtNodes
  <2>3. /\ Len(sendQueue[n]) < QueueCap /\ status[n] = "online"
        /\ sendQueue' = [sendQueue EXCEPT ![n] = Append(@, m)] /\ UNCHANGED written
    BY <1>1 DEF asyncSend
  <2>4. (m = event /\ asyncSend("event") /\ loop.node = n) \/ m = Control
    BY <1>1, <2>2 DEF loop
  <2> HIDE DEF m, n
  <2> QED
    BY <2>1, <2>2, <2>3, <2>4 DEF QueuesMove
<1>2. ASSUME NEW n \in Nodes, asyncSendService(n) PROVE QueuesMove
  <2>1. /\ sendQueue[n] # <<>> /\ sendQueue' = [sendQueue EXCEPT ![n] = Tail(@)]
        /\ written' = [written EXCEPT ![n] = IF Head(sendQueue[n]) = Control THEN @
                                             ELSE Append(@, Head(sendQueue[n]))]
        /\ written \in [Nodes -> Seq(Event)]
    BY <1>2 DEF asyncSendService, Types, QueuesType
  <2>2. CASE Head(sendQueue[n]) = Control
    <3>1. written' = written
      BY <2>1, <2>2
    <3> QED
      BY <2>1, <2>2, <3>1 DEF QueuesMove
  <2>3. CASE Head(sendQueue[n]) # Control
    BY <2>1, <2>3 DEF QueuesMove
  <2> QED
    BY <2>2, <2>3
<1>3. ASSUME NEW n \in Nodes, asyncSendServiceFails(n) PROVE QueuesMove
  <2>1. /\ sendQueue[n] # <<>> /\ sendQueue' = [sendQueue EXCEPT ![n] = Tail(@)]
        /\ UNCHANGED written /\ status'[n] = "offline"
    BY <1>3 DEF asyncSendServiceFails, close, Types, NodesType
  <2> QED
    BY <2>1 DEF QueuesMove
<1>4. \/ UNCHANGED <<sendQueue, written>>
      \/ \E s \in Senders : asyncSend(s)
      \/ \E n \in Nodes : asyncSendService(n) \/ asyncSendServiceFails(n)
  BY DEF Step, Accepting, Shutting, Sends, Client, Closes, Writing, queues, Cancel, SendAll,
     keepalive, OnConnect, OnConnectStore, newConnect, Close, CloseNext, CloseWait,
     CloseReturns, sendAllNext, asyncSendCheck, asyncSendSpin, onMessage,
     onConnectReturns, onSetPro, removeFind, removeShift, removeStore, disconnect,
     asyncSendServiceReturns
<1>5. CASE UNCHANGED <<sendQueue, written>>
  BY <1>5 DEF QueuesMove
<1> QED
  BY <1>1, <1>2, <1>3, <1>4, <1>5

LEMMA QueuesStep ==
    ASSUME Types, QueuesMove PROVE QueuesType'
<1> DEFINE M == Event \cup {Control}
<1>0. /\ sendQueue \in [Nodes -> Seq(M)] /\ written \in [Nodes -> Seq(Event)]
      /\ \A n \in Nodes : Len(sendQueue[n]) <= QueueCap
  BY DEF Types, QueuesType
<1>1. CASE UNCHANGED <<sendQueue, written>>
  BY <1>0, <1>1 DEF QueuesType
<1>2. ASSUME NEW n \in Nodes, NEW m \in M, Len(sendQueue[n]) < QueueCap,
             sendQueue' = [sendQueue EXCEPT ![n] = Append(@, m)], UNCHANGED written
      PROVE  QueuesType'
  <2> HIDE DEF M
  <2>1. Append(sendQueue[n], m) \in Seq(M) /\ Len(Append(sendQueue[n], m)) <= QueueCap
    <3>1. sendQueue[n] \in Seq(M)
      BY <1>0
    <3>2. Append(sendQueue[n], m) \in Seq(M)
      BY <3>1
    <3>3. Len(Append(sendQueue[n], m)) = Len(sendQueue[n]) + 1 /\ Len(sendQueue[n]) \in Nat
      BY <3>1
    <3> QED
      BY <1>2, <3>2, <3>3, SubscribersAssumption
  <2>2. sendQueue' \in [Nodes -> Seq(M)] /\ \A k \in Nodes : Len(sendQueue'[k]) <= QueueCap
    BY <1>0, <1>2, <2>1
  <2> QED
    BY <1>0, <1>2, <2>2 DEF QueuesType, M
<1>3. ASSUME NEW n \in Nodes, sendQueue[n] # <<>>,
             sendQueue' = [sendQueue EXCEPT ![n] = Tail(@)],
             \/ UNCHANGED written
             \/ /\ Head(sendQueue[n]) # Control
                /\ written' = [written EXCEPT ![n] = Append(@, Head(sendQueue[n]))]
      PROVE  QueuesType'
  <2> HIDE DEF M
  <2>1. sendQueue[n] \in Seq(M)
    BY <1>0
  <2>2. /\ Tail(sendQueue[n]) \in Seq(M) /\ Head(sendQueue[n]) \in M
        /\ Len(Tail(sendQueue[n])) = Len(sendQueue[n]) - 1 /\ Len(sendQueue[n]) \in Nat
    BY <1>3, <2>1
  <2>3. sendQueue' \in [Nodes -> Seq(M)]
    BY <1>0, <1>3, <2>2
  <2>4. \A k \in Nodes : Len(sendQueue'[k]) <= QueueCap
    <3>1. Len(Tail(sendQueue[n])) <= QueueCap
      BY <1>0, <2>2, SubscribersAssumption
    <3> QED
      BY <1>0, <1>3, <3>1
  <2>5. written' \in [Nodes -> Seq(Event)]
    <3>1. CASE UNCHANGED written
      BY <1>0, <3>1
    <3>2. CASE /\ Head(sendQueue[n]) # Control
               /\ written' = [written EXCEPT ![n] = Append(@, Head(sendQueue[n]))]
      <4>1. Head(sendQueue[n]) \in Event
        BY <2>2, <3>2 DEF M
      <4>2. Append(written[n], Head(sendQueue[n])) \in Seq(Event)
        BY <1>0, <4>1
      <4> QED
        BY <1>0, <3>2, <4>2
    <3> QED
      BY <1>3, <3>1, <3>2
  <2> QED
    BY <2>3, <2>4, <2>5 DEF QueuesType, M
<1> QED
  BY <1>1, <1>2, <1>3 DEF QueuesMove

-----------------------------------------------------------------------------
(* Nodes and counters. *)

\* What happens to the status of nodes and to node.close: a node connects, begins
\* to close, goes on closing, or is counted out.
NodesMove ==
    \/ UNCHANGED <<status, closing, found>>
    \/ \E n \in Nodes :
        /\ OnConnect(n) /\ UNCHANGED <<closing, found>>
        /\ status[n] = "none" /\ status' = [status EXCEPT ![n] = "online"]
    \/ \E n \in Nodes :
        /\ status[n] = "online" /\ ~NodeLocked(n) /\ UNCHANGED found
        /\ status' = [status EXCEPT ![n] = "offline"]
        /\ closing' = [closing EXCEPT ![n] = "find"]
    \/ \E n \in Nodes : \E to \in {"shift", "store", "count"}, k \in Nat :
        /\ closing[n] \in {"find", "shift", "store"} /\ UNCHANGED status
        /\ closing' = [closing EXCEPT ![n] = to] /\ found' = [found EXCEPT ![n] = k]
        /\ to = "shift" => k # 0
    \/ \E n \in Nodes :
        /\ disconnect(n) /\ closing[n] = "count" /\ UNCHANGED <<status, found>>
        /\ closing' = [closing EXCEPT ![n] = "done"]

LEMMA NodesMoves ==
    ASSUME Types, HeadersShow, Step PROVE NodesMove
<1>0. closing \in [Nodes -> {"no", "find", "shift", "store", "count", "done"}]
      /\ found \in [Nodes -> Nat]
  BY DEF Types, NodesType
<1>1. CASE UNCHANGED <<status, closing, found>>
  BY <1>1 DEF NodesMove
<1>2. ASSUME NEW n \in Nodes, OnConnect(n) PROVE NodesMove
  BY <1>2 DEF NodesMove, OnConnect, closers
<1>3. ASSUME NEW n \in Nodes, close(n), UNCHANGED found PROVE NodesMove
  BY <1>3 DEF NodesMove, close
<1>4. CASE CloseNext
  <2>1. shut.i \in Nat \ {0} /\ shut.len \in Nat /\ Shows(arrays, shut)
    BY DEF Types, LoopsType, LoopType, HeadersShow
  <2>2. arrays[shut.arr][shut.i] \in Nodes
    BY <1>4, <2>1 DEF CloseNext, Shows
  <2> QED
    BY <1>1, <1>3, <1>4, <2>2 DEF CloseNext
<1>5. ASSUME NEW n \in Nodes, removeFind(n) PROVE NodesMove
  <2> DEFINE at == {i \in 1..g.len : arrays[g.arr][i] = n}
             first == CHOOSE i \in at : \A j \in at : i <= j
  <2>1. /\ closing[n] = "find" /\ UNCHANGED status
        /\ found' = [found EXCEPT ![n] = IF at = {} THEN 0 ELSE first]
        /\ closing' = [closing EXCEPT ![n] = IF at = {} THEN "count" ELSE "shift"]
    BY <1>5 DEF removeFind
  <2>2. ASSUME at # {} PROVE first \in Nat /\ first # 0
    <3>1. at \in SUBSET Nat /\ \A i \in at : i \in Nat /\ i # 0
      BY DEF Types, SlicesType, SliceHeader
    <3>2. \E i \in at : \A j \in at : i <= j
      BY <2>2, <3>1, MinExists
    <3>3. first \in at
      BY <3>2
    <3> QED
      BY <3>1, <3>3
  <2> HIDE DEF at, first
  <2>3. CASE at = {}
    <3>1. closing' = [closing EXCEPT ![n] = "count"] /\ found' = [found EXCEPT ![n] = 0]
      BY <2>1, <2>3
    <3> QED
      BY <2>1, <3>1 DEF NodesMove
  <2>4. CASE at # {}
    <3>1. closing' = [closing EXCEPT ![n] = "shift"] /\ found' = [found EXCEPT ![n] = first]
      BY <2>1, <2>4
    <3>2. \E to \in {"shift", "store", "count"}, k \in Nat :
            /\ closing' = [closing EXCEPT ![n] = to] /\ found' = [found EXCEPT ![n] = k]
            /\ to = "shift" => k # 0
      BY <2>2, <2>4, <3>1
    <3> QED
      BY <2>1, <3>2 DEF NodesMove
  <2> QED
    BY <2>3, <2>4
<1>6. ASSUME NEW n \in Nodes, removeShift(n) PROVE NodesMove
  <2>1. /\ closing[n] = "shift" /\ UNCHANGED status
        /\ found' = [found EXCEPT ![n] = 0] /\ closing' = [closing EXCEPT ![n] = "store"]
    BY <1>6 DEF removeShift
  <2> QED
    BY <2>1 DEF NodesMove
<1>7. ASSUME NEW n \in Nodes, removeStore(n) PROVE NodesMove
  <2>1. /\ closing[n] = "store" /\ UNCHANGED status
        /\ found' = found /\ closing' = [closing EXCEPT ![n] = "count"]
    BY <1>7 DEF removeStore
  <2>2. found' = [found EXCEPT ![n] = found[n]] /\ found[n] \in Nat
    BY <1>0, <2>1
  <2> QED
    BY <2>1, <2>2 DEF NodesMove
<1>8. ASSUME NEW n \in Nodes, disconnect(n) PROVE NodesMove
  BY <1>8 DEF NodesMove, disconnect
<1>9. \/ UNCHANGED <<status, closing, found>> \/ CloseNext
      \/ \E n \in Nodes :
            \/ OnConnect(n) \/ (close(n) /\ UNCHANGED found)
            \/ removeFind(n) \/ removeShift(n) \/ removeStore(n) \/ disconnect(n)
  BY DEF Step, Accepting, Shutting, Sends, Client, Closes, Writing, closers, Cancel, SendAll,
     keepalive, OnConnectStore, newConnect, Close, CloseWait, CloseReturns, sendAllNext,
     asyncSendCheck, asyncSendSpin, asyncSend, onMessage, onConnectReturns, onSetPro,
     asyncSendService, asyncSendServiceFails, asyncSendServiceReturns
<1> QED
  BY <1>1, <1>2, <1>3, <1>4, <1>5, <1>6, <1>7, <1>8, <1>9

LEMMA NodesStep ==
    ASSUME Types, HeadersShow, AtNodes, Step
    PROVE  NodesType' /\ \A n \in Nodes : closing'[n] = "shift" => found'[n] # 0
<1>0. /\ status \in [Nodes -> {"none", "online", "offline"}]
      /\ closing \in [Nodes -> {"no", "find", "shift", "store", "count", "done"}]
      /\ found \in [Nodes -> Nat]
      /\ \A n \in Nodes : closing[n] = "shift" => found[n] # 0
  BY DEF Types, NodesType, AtNodes
<1>1. /\ status' \in [Nodes -> {"none", "online", "offline"}]
      /\ closing' \in [Nodes -> {"no", "find", "shift", "store", "count", "done"}]
      /\ found' \in [Nodes -> Nat]
      /\ \A n \in Nodes : closing'[n] = "shift" => found'[n] # 0
  BY <1>0, NodesMoves DEF NodesMove
<1>2. topics' \in [Nodes -> SUBSET Filters]
  <2>1. topics \in [Nodes -> SUBSET Filters]
    BY DEF Types, NodesType
  <2>2. \/ UNCHANGED topics
        \/ \E n \in Nodes : \E f \in Filters : topics' = [topics EXCEPT ![n] = @ \cup {f}]
    BY DEF Step, Accepting, Shutting, Sends, Client, Closes, Writing, Cancel, SendAll,
       keepalive, OnConnect, OnConnectStore, newConnect, Close, CloseNext, CloseWait,
       CloseReturns, sendAllNext, asyncSendCheck, asyncSendSpin, asyncSend, onMessage,
       onConnectReturns, onSetPro, removeFind, removeShift, removeStore, disconnect,
       asyncSendService, asyncSendServiceFails, asyncSendServiceReturns
  <2> QED
    BY <2>1, <2>2
<1>3. writer' \in [Nodes -> BOOLEAN]
  <2>1. writer \in [Nodes -> BOOLEAN]
    BY DEF Types, NodesType
  <2>2. \/ UNCHANGED writer
        \/ \E n \in Nodes : \E b \in BOOLEAN : writer' = [writer EXCEPT ![n] = b]
    BY DEF Step, Accepting, Shutting, Sends, Client, Closes, Writing, queues, Cancel, SendAll,
       keepalive, OnConnect, OnConnectStore, newConnect, Close, CloseNext, CloseWait,
       CloseReturns, sendAllNext, asyncSendCheck, asyncSendSpin, asyncSend, onMessage,
       onConnectReturns, onSetPro, removeFind, removeShift, removeStore, disconnect,
       asyncSendService, asyncSendServiceFails, asyncSendServiceReturns
  <2> QED
    BY <2>1, <2>2
<1> QED
  BY <1>1, <1>2, <1>3 DEF NodesType

\* The bounds, the events counted against theirs, and what is owed.
BudgetsMove ==
    \/ UNCHANGED <<budget, event>>
    \/ /\ Spend("event") /\ event' = event + 1
    \/ \E x \in Bounded \ {"event"} : Spend(x) /\ UNCHANGED event

LEMMA BudgetsMoves == Step => BudgetsMove
BY DEF BudgetsMove, Bounded, Step, Accepting, Shutting, Sends, Client, Closes, Writing,
   Cancel, SendAll, keepalive, OnConnect, OnConnectStore, newConnect, Close, CloseNext,
   CloseWait, CloseReturns, sendAllNext, asyncSendCheck, asyncSendSpin, asyncSend,
   onMessage, onConnectReturns, onSetPro, removeFind, removeShift, removeStore,
   disconnect, asyncSendService, asyncSendServiceFails, asyncSendServiceReturns

LEMMA SpendType ==
    ASSUME Types, NEW x \in Bounded, Spend(x)
    PROVE  /\ budget' \in [Bounded -> Nat] /\ budget'[x] = budget[x] - 1
           /\ \A y \in Bounded : y # x => budget'[y] = budget[y]
<1> DEFINE n == budget[x] - 1
<1>1. n \in Nat /\ budget \in [Bounded -> Nat] /\ budget' = [budget EXCEPT ![x] = n]
  BY DEF Types, CountsType, Spend
<1> HIDE DEF n
<1>2. /\ budget' \in [Bounded -> Nat] /\ budget'[x] = n
      /\ \A y \in Bounded : y # x => budget'[y] = budget[y]
  BY <1>1
<1> QED
  BY <1>2 DEF n

LEMMA BudgetsStep ==
    ASSUME Types, EventsCounted, Step
    PROVE  /\ budget' \in [Bounded -> Nat] /\ event' \in Nat
           /\ event' + budget'["event"] <= LastEvent
           /\ event' = event \/ (event' = event + 1 /\ event' \in Event)
<1>0. /\ budget \in [Bounded -> Nat] /\ event \in Nat /\ "event" \in Bounded
      /\ event + budget["event"] <= LastEvent /\ LastEvent \in Nat
  BY SubscribersAssumption DEF Types, CountsType, EventsCounted, Bounded
<1>1. CASE UNCHANGED <<budget, event>>
  BY <1>0, <1>1
<1>2. CASE Spend("event") /\ event' = event + 1
  <2>1. /\ budget' \in [Bounded -> Nat] /\ budget'["event"] = budget["event"] - 1
        /\ budget["event"] > 0 /\ budget["event"] \in Nat
    BY <1>0, <1>2, SpendType DEF Spend
  <2> QED
    BY <1>0, <1>2, <2>1 DEF Event
<1>3. ASSUME NEW x \in Bounded \ {"event"}, Spend(x), UNCHANGED event
      PROVE  /\ budget' \in [Bounded -> Nat] /\ event' \in Nat
             /\ event' + budget'["event"] <= LastEvent
             /\ event' = event \/ (event' = event + 1 /\ event' \in Event)
  <2>1. budget' \in [Bounded -> Nat] /\ budget'["event"] = budget["event"]
    BY <1>0, <1>3, SpendType
  <2> QED
    BY <1>0, <1>3, <2>1
<1> QED
  BY <1>1, <1>2, <1>3, BudgetsMoves DEF BudgetsMove

\* SendAll's loop begins with SendAll.
LEMMA LoopBegins ==
    ASSUME Types, Step, loop'.at # "idle", loop.at = "idle" PROVE SendAll
<1>0. send \in [Senders -> LoopType] /\ "event" \in Senders
  BY DEF Types, LoopsType, Senders
<1>1. CASE UNCHANGED send
  BY <1>1 DEF loop
<1>2. ASSUME NEW s \in Senders, NEW m, s # "event", send' = [send EXCEPT ![s] = m]
      PROVE  FALSE
  BY <1>0, <1>2 DEF loop
<1>3. CASE keepalive
  <2>1. send' = [send EXCEPT !["tick"] = Loop] /\ "tick" \in Senders /\ "tick" # "event"
    BY <1>3 DEF keepalive, Senders
  <2> QED
    BY <1>2, <2>1
<1>4. ASSUME NEW n \in Nodes, onMessage(n) PROVE FALSE
  <2>1. /\ send' = [send EXCEPT ![n] = [Idle EXCEPT !.at = "check", !.node = n]]
        /\ n \in Senders /\ n # "event"
    BY <1>4, SubscribersAssumption DEF onMessage, Senders
  <2> QED
    BY <1>2, <2>1
<1>5. ASSUME NEW s \in Senders, send[s].at # "idle", \E m : send' = [send EXCEPT ![s] = m]
      PROVE  FALSE
  BY <1>2, <1>5 DEF loop
<1>6. \/ UNCHANGED send \/ SendAll \/ keepalive
      \/ \E n \in Nodes : onMessage(n)
      \/ \E s \in Senders : send[s].at # "idle" /\ \E m : send' = [send EXCEPT ![s] = m]
  <2>1. \A s \in Senders :
            sendAllNext(s) \/ asyncSendCheck(s) \/ asyncSend(s) =>
                send[s].at # "idle" /\ \E m : send' = [send EXCEPT ![s] = m]
    BY DEF sendAllNext, asyncSendCheck, asyncSend
  <2>2. \A s \in Senders : asyncSendSpin(s) =>
                send[s].at # "idle" /\ \E m : send' = [send EXCEPT ![s] = m]
    BY DEF asyncSendSpin
  <2> QED
    BY <2>1, <2>2 DEF Step, Accepting, Shutting, Sends, Client, Closes, Writing, Cancel,
       OnConnect, OnConnectStore, newConnect, Close, CloseNext, CloseWait, CloseReturns,
       onConnectReturns, onSetPro, removeFind, removeShift, removeStore, disconnect,
       asyncSendService, asyncSendServiceFails, asyncSendServiceReturns
<1> QED
  BY <1>1, <1>3, <1>4, <1>5, <1>6

LEMMA CountsStep ==
    ASSUME Types, EventsCounted, Step
    PROVE  CountsType' /\ EventsCounted'
<1>1. /\ budget' \in [Bounded -> Nat] /\ event' \in Nat /\ event \in Nat
      /\ event' + budget'["event"] <= LastEvent
      /\ event' = event \/ (event' = event + 1 /\ event' \in Event)
  BY BudgetsStep DEF Types, CountsType
<1>2. owed' \in [Nodes -> SUBSET Event]
  <2>1. owed \in [Nodes -> SUBSET Event]
    BY DEF Types, CountsType
  <2>2. CASE SendAll
    <3>1. event' = event + 1
      BY <2>2 DEF SendAll
    <3>2. event' \in Event
      BY <1>1, <3>1
    <3>3. owed' = [n \in Nodes |-> IF Connected(n) /\ MatchFilters(topics[n], event')
                                   THEN owed[n] \cup {event'} ELSE owed[n]]
      BY <2>2 DEF SendAll
    <3> QED
      BY <2>1, <3>2, <3>3
  <2>3. ASSUME NEW n \in Nodes, NEW f \in Filters, onSetPro(n, f)
        PROVE  owed' \in [Nodes -> SUBSET Event]
    BY <2>1, <2>3 DEF onSetPro
  <2>4. UNCHANGED owed \/ SendAll \/ \E n \in Nodes : \E f \in Filters : onSetPro(n, f)
    BY DEF Step, Accepting, Shutting, Sends, Client, Closes, Writing, Cancel,
       keepalive, OnConnect, OnConnectStore, newConnect, Close, CloseNext, CloseWait,
       CloseReturns, sendAllNext, asyncSendCheck, asyncSendSpin, asyncSend, onMessage,
       onConnectReturns, removeFind, removeShift, removeStore, disconnect,
       asyncSendService, asyncSendServiceFails, asyncSendServiceReturns
  <2> QED
    BY <2>1, <2>2, <2>3, <2>4
<1>3. ctxDone' \in BOOLEAN /\ gone' \in {"no", "panic", "exit"}
  <2>1. ctxDone \in BOOLEAN /\ gone \in {"no", "panic", "exit"}
    BY DEF Types, CountsType
  <2>2. UNCHANGED gone /\ (UNCHANGED ctxDone \/ ctxDone' = TRUE)
    BY DEF Step, Accepting, Shutting, Sends, Client, Closes, Writing, Cancel, SendAll,
       keepalive, OnConnect, OnConnectStore, newConnect, Close, CloseNext, CloseWait,
       CloseReturns, sendAllNext, asyncSendCheck, asyncSendSpin, asyncSend, onMessage,
       onConnectReturns, onSetPro, removeFind, removeShift, removeStore, disconnect,
       asyncSendService, asyncSendServiceFails, asyncSendServiceReturns
  <2> QED
    BY <2>1, <2>2
<1>4. connects' \in Int
  <2>1. connects \in Int
    BY DEF Types, CountsType
  <2>2. UNCHANGED connects \/ connects' = connects + 1 \/ connects' = connects - 1
    BY DEF Step, Accepting, Shutting, Sends, Client, Closes, Writing, Cancel, SendAll,
       keepalive, OnConnect, OnConnectStore, newConnect, Close, CloseNext, CloseWait,
       CloseReturns, sendAllNext, asyncSendCheck, asyncSendSpin, asyncSend, onMessage,
       onConnectReturns, onSetPro, removeFind, removeShift, removeStore, disconnect,
       asyncSendService, asyncSendServiceFails, asyncSendServiceReturns
  <2> QED
    BY <2>1, <2>2
<1>5. loop'.at # "idle" => event' > 0
  <2>1. CASE loop.at # "idle"
    BY <1>1, <2>1 DEF EventsCounted
  <2>2. CASE loop.at = "idle" /\ loop'.at # "idle"
    <3>1. event' = event + 1
      BY <2>2, LoopBegins DEF SendAll
    <3> QED
      BY <1>1, <3>1
  <2> QED
    BY <2>1, <2>2
<1> QED
  BY <1>1, <1>2, <1>3, <1>4, <1>5 DEF CountsType, EventsCounted, loop

LEMMA TypesStep ==
    ASSUME Types, HeadersShow, AtNodes, EventsCounted, Step
    PROVE  Types' /\ HeadersShow' /\ AtNodes' /\ EventsCounted'
<1>1. ArraysType' /\ SlicesType'
  BY ArraysStep, SlicesStep
<1>2. LoopsType'
  BY SendStep, ShutStep DEF LoopsType
<1>3. QueuesType' /\ NodesType' /\ CountsType' /\ EventsCounted'
  BY QueuesMoves, QueuesStep, NodesStep, CountsStep
<1>4. HeadersShow'
  BY SlicesStep, SendStep, ShutStep DEF HeadersShow, GoodLoop
<1>5. AtNodes'
  BY SendStep, ShutStep, NodesStep DEF AtNodes, GoodLoop
<1> QED
  BY <1>1, <1>2, <1>3, <1>4, <1>5 DEF Types

-----------------------------------------------------------------------------
(* Clients known, and counted. *)

LEMMA KnownStay ==
    ASSUME Types, HeadersShow, Step
    PROVE  \A n \in Nodes : status[n] # "none" => status'[n] # "none"
BY NodesMoves DEF NodesMove, Types, NodesType

LEMMA KnownStep ==
    ASSUME Types, HeadersShow, AtNodes, NodesKnown, Step
    PROVE  NodesKnown'
<1>0. \A n \in Nodes : status[n] # "none" => status'[n] # "none"
  BY KnownStay
<1>1. \A n \in Nodes : closing'[n] # "no" => status'[n] = "offline"
  BY NodesMoves DEF NodesMove, Types, NodesType, NodesKnown
<1>2. accept'.at # "idle" => accept'.node \in Nodes /\ status'[accept'.node] # "none"
  <2>1. CASE UNCHANGED accept
    BY <1>0, <2>1 DEF NodesKnown
  <2>2. ASSUME NEW n \in Nodes, OnConnect(n)
        PROVE  accept'.node \in Nodes /\ status'[accept'.node] # "none"
    BY <2>2 DEF OnConnect, Types, NodesType
  <2>3. CASE OnConnectStore
    <3>1. accept'.node = accept.node /\ accept.at # "idle"
      BY <2>3 DEF OnConnectStore, Types, SlicesType
    <3> QED
      BY <1>0, <3>1 DEF NodesKnown
  <2>4. CASE newConnect
    BY <2>4 DEF newConnect
  <2>5. UNCHANGED accept \/ OnConnectStore \/ newConnect \/ \E n \in Nodes : OnConnect(n)
    BY DEF Step, Accepting, Shutting, Sends, Client, Closes, Writing, Cancel, SendAll,
       keepalive, Close, CloseNext, CloseWait, CloseReturns, sendAllNext, asyncSendCheck,
       asyncSendSpin, asyncSend, onMessage, onConnectReturns, onSetPro, removeFind,
       removeShift, removeStore, disconnect, asyncSendService, asyncSendServiceFails,
       asyncSendServiceReturns
  <2> QED
    BY <2>1, <2>2, <2>3, <2>4, <2>5
<1>3. \A a \in 1..Len(arrays') : \A i \in 1..Len(arrays'[a]) :
            arrays'[a][i] \in Nodes => status'[arrays'[a][i]] # "none"
  <2> DEFINE Q == \A a \in 1..Len(arrays') : \A i \in 1..Len(arrays'[a]) :
                    arrays'[a][i] \in Nodes => status'[arrays'[a][i]] # "none"
  <2>1. CASE UNCHANGED arrays
    BY <1>0, <2>1 DEF NodesKnown
  <2>2. ASSUME NEW n \in Nodes, OnConnect(n) PROVE Q
    <3>1. arrays' = AppendArrays(n) /\ status'[n] = "online"
      BY <2>2 DEF OnConnect, Types, NodesType
    <3>2. \A a \in 1..Len(arrays) : \A i \in 1..Len(arrays'[a]) :
            arrays'[a][i] = n \/ (i \in 1..Len(arrays[a]) /\ arrays'[a][i] = arrays[a][i])
      BY <3>1, AppendEffect DEF Types
    <3>3. \A a \in 1..Len(arrays') : a \notin 1..Len(arrays) =>
            \A i \in 1..Len(arrays'[a]) :
                \/ i \in 1..g.len /\ arrays'[a][i] = arrays[g.arr][i]
                \/ arrays'[a][i] \in {n, Nil}
      <4>1. \A a \in 1..Len(arrays') : a \notin 1..Len(arrays) =>
                /\ a = AppendHeader.arr
                /\ \A i \in 1..Len(arrays'[a]) : i <= g.len \/ arrays'[a][i] \in {n, Nil}
        BY <3>1, AppendEffect DEF Types
      <4>2. \A i \in 1..g.len : arrays'[AppendHeader.arr][i] = arrays[g.arr][i]
        BY <3>1, AppendEffect DEF Types
      <4>3. \A i \in Nat \ {0} : i <= g.len => i \in 1..g.len
        BY DEF Types, SlicesType, SliceHeader
      <4>4. \A a \in 1..Len(arrays') : \A i \in 1..Len(arrays'[a]) : i \in Nat \ {0}
        OBVIOUS
      <4> QED
        BY <4>1, <4>2, <4>3, <4>4
    <3>4. g.arr \in 1..Len(arrays) /\ \A i \in 1..g.len : i \in 1..Len(arrays[g.arr])
      <4>1. g.arr \in 1..Len(arrays) /\ g.len <= Len(arrays[g.arr]) /\ g.len \in Nat
        BY DEF HeadersShow, Shows, Types, SlicesType, SliceHeader
      <4>2. arrays[g.arr] \in Seq(Nodes \cup {Nil})
        BY <4>1 DEF Types, ArraysType
      <4>3. Len(arrays[g.arr]) \in Nat
        BY <4>2
      <4> QED
        BY <4>1, <4>3
    <3>5. \A a \in 1..Len(arrays) : \A i \in 1..Len(arrays[a]) :
            arrays[a][i] \in Nodes => status'[arrays[a][i]] # "none"
      BY <1>0 DEF NodesKnown
    <3>6. Nil \notin Nodes
      BY SubscribersAssumption
    <3>7. ASSUME NEW a \in 1..Len(arrays'), NEW i \in 1..Len(arrays'[a]),
                 arrays'[a][i] \in Nodes
          PROVE  status'[arrays'[a][i]] # "none"
      <4>1. CASE arrays'[a][i] = n
        BY <3>1, <4>1
      <4>2. CASE a \in 1..Len(arrays) /\ arrays'[a][i] # n
        <5>1. i \in 1..Len(arrays[a]) /\ arrays'[a][i] = arrays[a][i]
          BY <3>2, <4>2
        <5> QED
          BY <3>5, <3>7, <4>2, <5>1
      <4>3. CASE a \notin 1..Len(arrays) /\ arrays'[a][i] # n
        <5>1. i \in 1..g.len /\ arrays'[a][i] = arrays[g.arr][i]
          BY <3>3, <3>6, <3>7, <4>3
        <5> QED
          BY <3>4, <3>5, <3>7, <5>1
      <4> QED
        BY <4>1, <4>2, <4>3
    <3> QED
      BY <3>7
  <2>3. ASSUME NEW n \in Nodes, removeShift(n) PROVE Q
    <3>1. /\ found[n] \in Nat /\ found[n] # 0 /\ found[n] <= g.len
          /\ arrays' = Shifted(found[n])
      BY <2>3 DEF removeShift, AtNodes, Types, NodesType, Shifted
    <3>2. /\ Len(arrays') = Len(arrays)
          /\ \A a \in 1..Len(arrays) : Len(arrays'[a]) = Len(arrays[a]) /\
                \A i \in 1..Len(arrays[a]) : \E j \in 1..Len(arrays[a]) :
                    arrays'[a][i] = arrays[a][j]
      BY <3>1, ShiftEffect DEF Types
    <3>3. \A a \in 1..Len(arrays) : \A i \in 1..Len(arrays[a]) :
            arrays[a][i] \in Nodes => status'[arrays[a][i]] # "none"
      BY <1>0 DEF NodesKnown
    <3>4. ASSUME NEW a \in 1..Len(arrays'), NEW i \in 1..Len(arrays'[a]),
                 arrays'[a][i] \in Nodes
          PROVE  status'[arrays'[a][i]] # "none"
      <4>1. a \in 1..Len(arrays) /\ i \in 1..Len(arrays[a])
        BY <3>2, <3>4
      <4>2. PICK j \in 1..Len(arrays[a]) : arrays'[a][i] = arrays[a][j]
        BY <3>2, <4>1
      <4> QED
        BY <3>3, <3>4, <4>1, <4>2
    <3> QED
      BY <3>4
  <2>4. CASE CloseReturns
    <3>1. arrays' = Append(arrays, <<>>) /\ arrays \in Seq(Seq(Nodes \cup {Nil}))
      BY <2>4 DEF CloseReturns, Types, ArraysType
    <3>2. /\ \A a \in 1..Len(arrays') : a \in 1..Len(arrays) \/ Len(arrays'[a]) = 0
          /\ \A a \in 1..Len(arrays) : arrays'[a] = arrays[a]
      BY <3>1
    <3>3. \A a \in 1..Len(arrays) : \A i \in 1..Len(arrays[a]) :
            arrays[a][i] \in Nodes => status'[arrays[a][i]] # "none"
      BY <1>0 DEF NodesKnown
    <3> QED
      BY <3>2, <3>3
  <2>5. \/ UNCHANGED arrays \/ CloseReturns
        \/ \E n \in Nodes : OnConnect(n) \/ removeShift(n)
    BY DEF Step, Accepting, Shutting, Sends, Client, Closes, Writing, slices, Cancel,
       SendAll, keepalive, OnConnectStore, newConnect, Close, CloseNext, CloseWait,
       sendAllNext, asyncSendCheck, asyncSendSpin, asyncSend, onMessage, onConnectReturns,
       onSetPro, removeFind, removeStore, disconnect, asyncSendService,
       asyncSendServiceFails, asyncSendServiceReturns
  <2> QED
    BY <2>1, <2>2, <2>3, <2>4, <2>5
<1> QED
  BY <1>1, <1>2, <1>3 DEF NodesKnown

LEMMA CountedStep ==
    ASSUME Types, HeadersShow, NodesKnown, Counted, Step
    PROVE  Counted'
<1>0. /\ IsFiniteSet(Active) /\ Cardinality(Active) \in Nat /\ connects \in Int
      /\ closing \in [Nodes -> {"no", "find", "shift", "store", "count", "done"}]
      /\ status \in [Nodes -> {"none", "online", "offline"}]
  <2>1. Active \subseteq Nodes
    BY DEF Active
  <2> QED
    BY <2>1, FS_Subset, FS_CardinalityType, SubscribersAssumption
       DEF Types, NodesType, CountsType
<1>1. ASSUME Active' = Active, UNCHANGED connects, accept'.at = "idle" <=> accept.at = "idle"
      PROVE  Counted'
  BY <1>1 DEF Counted
<1>2. CASE newConnect
  <2>1. UNCHANGED <<status, closing>> /\ connects' = connects + 1
        /\ accept.at # "idle" /\ accept'.at = "idle"
    BY <1>2 DEF newConnect, closers
  <2>2. Active' = Active
    BY <2>1 DEF Active, NodeLocked
  <2>3. connects = Cardinality(Active) - 1
    BY <2>1 DEF Counted
  <2>4. connects' = Cardinality(Active)
    BY <1>0, <2>1, <2>3
  <2> QED
    BY <2>1, <2>2, <2>4, <1>0 DEF Counted
<1>3. ASSUME NEW n \in Nodes, OnConnect(n) PROVE Counted'
  <2>1. /\ status[n] = "none" /\ status' = [status EXCEPT ![n] = "online"]
        /\ UNCHANGED <<closing, connects>> /\ accept.at = "idle" /\ accept'.at = "store"
    BY <1>3 DEF OnConnect, closers
  <2>2. n \notin Active
    BY <2>1 DEF Active, NodeLocked, NodesKnown
  <2>3. Active' = Active \cup {n}
    BY <1>0, <2>1 DEF Active, NodeLocked
  <2>4. Cardinality(Active') = Cardinality(Active) + 1
    BY <1>0, <2>2, <2>3, FS_AddElement
  <2>5. connects = Cardinality(Active)
    BY <1>0, <2>1 DEF Counted
  <2> QED
    BY <1>0, <2>1, <2>4, <2>5 DEF Counted
<1>4. ASSUME NEW n \in Nodes, disconnect(n) PROVE Counted'
  <2>1. /\ closing[n] = "count" /\ closing' = [closing EXCEPT ![n] = "done"]
        /\ UNCHANGED <<status, accept>> /\ connects' = connects - 1
    BY <1>4 DEF disconnect
  <2>2. n \in Active /\ status[n] = "offline"
    BY <2>1 DEF Active, NodeLocked, NodesKnown
  <2>3. Active' = Active \ {n}
    BY <1>0, <2>1, <2>2 DEF Active, NodeLocked
  <2>4. Cardinality(Active') = Cardinality(Active) - 1
    BY <1>0, <2>2, <2>3, FS_RemoveElement
  <2> QED
    BY <1>0, <2>1, <2>4 DEF Counted
<1>5. CASE UNCHANGED connects /\ (accept'.at = "idle" <=> accept.at = "idle")
           /\ ~(\E n \in Nodes : OnConnect(n) \/ disconnect(n))
  <2>1. Active' = Active
    <3>1. CASE UNCHANGED <<status, closing, found>>
      BY <3>1 DEF Active, NodeLocked
    <3>2. ASSUME NEW n \in Nodes, status[n] = "online", ~NodeLocked(n),
                 status' = [status EXCEPT ![n] = "offline"],
                 closing' = [closing EXCEPT ![n] = "find"]
          PROVE  Active' = Active
      BY <1>0, <3>2 DEF Active, NodeLocked
    <3>3. ASSUME NEW n \in Nodes, NEW to \in {"shift", "store", "count"},
                 closing[n] \in {"find", "shift", "store"}, UNCHANGED status,
                 closing' = [closing EXCEPT ![n] = to]
          PROVE  Active' = Active
      BY <1>0, <3>3 DEF Active, NodeLocked
    <3> QED
      BY <1>5, <3>1, <3>2, <3>3, NodesMoves DEF NodesMove
  <2> QED
    BY <1>1, <1>5, <2>1
<1>6. \/ newConnect \/ \E n \in Nodes : OnConnect(n) \/ disconnect(n)
      \/ UNCHANGED connects /\ (accept'.at = "idle" <=> accept.at = "idle")
  <2>1. OnConnectStore => accept'.at # "idle" /\ accept.at # "idle" /\ UNCHANGED connects
    BY DEF OnConnectStore, Types, SlicesType
  <2> DEFINE F == \/ newConnect \/ (\E n \in Nodes : OnConnect(n) \/ disconnect(n))
                  \/ UNCHANGED connects /\ (accept'.at = "idle" <=> accept.at = "idle")
  <2>2. Cancel \/ SendAll \/ keepalive \/ Accepting \/ Shutting => F
    BY <2>1 DEF Cancel, SendAll, keepalive, Accepting, Shutting, Close, CloseNext,
       CloseWait, CloseReturns
  <2>3. \A s \in Senders : Sends(s) => F
    BY <2>1 DEF Sends, sendAllNext, asyncSendCheck, asyncSendSpin, asyncSend
  <2>4. \A n \in Nodes : Client(n) \/ Writing(n) => F
    BY <2>1 DEF Client, onMessage, onConnectReturns, onSetPro, Writing,
       asyncSendService, asyncSendServiceFails, asyncSendServiceReturns
  <2>5. \A n \in Nodes : Closes(n) => F
    BY <2>1 DEF Closes, removeFind, removeShift, removeStore
  <2> HIDE DEF F
  <2>6. F
    BY <2>2, <2>3, <2>4, <2>5 DEF Step
  <2> QED
    BY <2>6 DEF F
<1> QED
  BY <1>2, <1>3, <1>4, <1>5, <1>6

-----------------------------------------------------------------------------
(* What a client has got and what waits for it. *)

Message == Event \cup {Control}

\* What a step does to what a client has got.
GotMove(n) ==
    \/ Got(n)' = Got(n)
    \/ \E m \in Message :
        /\ Added(Got(n), Got(n)', m)
        /\ \/ m = event /\ asyncSend("event") /\ loop.node = n
           \/ m = Control
    \/ \E k \in DOMAIN Got(n) :
        /\ Dropped(Got(n), Got(n)', k)
        /\ Got(n)[k] = Control \/ status'[n] = "offline"

LEMMA GotType ==
    ASSUME Types, NEW n \in Nodes
    PROVE  /\ Got(n) \in Seq(Message) /\ DOMAIN Got(n) = 1..Len(Got(n))
           /\ Len(Got(n)) \in Nat /\ \A i \in DOMAIN Got(n) : Got(n)[i] \in Nat
<1>1. written[n] \in Seq(Message) /\ sendQueue[n] \in Seq(Message)
  <2>1. written[n] \in Seq(Event) /\ sendQueue[n] \in Seq(Message)
    BY DEF Types, QueuesType, Message
  <2>2. \A i \in 1..Len(written[n]) : written[n][i] \in Message
    BY <2>1 DEF Message
  <2> QED
    BY <2>1, <2>2
<1>2. /\ Got(n) \in Seq(Message) /\ DOMAIN Got(n) = 1..Len(Got(n))
      /\ Len(Got(n)) \in Nat
  <2>1. Got(n) \in Seq(Message)
    BY <1>1, ConcatProperties DEF Got
  <2> QED
    BY <2>1, LenProperties
<1>3. Message \subseteq Nat
  BY SubscribersAssumption DEF Message, Event, Control
<1>4. \A i \in DOMAIN Got(n) : Got(n)[i] \in Message
  BY <1>2, ElementOfSeq
<1> QED
  BY <1>2, <1>3, <1>4

LEMMA GotMoves ==
    ASSUME Types, QueuesMove, NEW n \in Nodes
    PROVE  GotMove(n)
<1>0. /\ written[n] \in Seq(Message) /\ sendQueue[n] \in Seq(Message)
      /\ sendQueue \in [Nodes -> Seq(Message)] /\ written \in [Nodes -> Seq(Event)]
  <2>1. /\ written[n] \in Seq(Event) /\ sendQueue[n] \in Seq(Message)
        /\ sendQueue \in [Nodes -> Seq(Message)] /\ written \in [Nodes -> Seq(Event)]
    BY DEF Types, QueuesType, Message
  <2>2. \A i \in 1..Len(written[n]) : written[n][i] \in Message
    BY <2>1 DEF Message
  <2> QED
    BY <2>1, <2>2
<1>1. CASE sendQueue'[n] = sendQueue[n] /\ written'[n] = written[n]
  BY <1>1 DEF GotMove, Got
<1>2. ASSUME NEW m \in Message, sendQueue' = [sendQueue EXCEPT ![n] = Append(@, m)],
             (m = event /\ asyncSend("event") /\ loop.node = n) \/ m = Control,
             UNCHANGED written
      PROVE  GotMove(n)
  <2>1. sendQueue'[n] = Append(sendQueue[n], m) /\ written'[n] = written[n]
    BY <1>0, <1>2
  <2>2. Added(Got(n), Got(n)', m)
    BY <1>0, <2>1, CatAdd DEF Got
  <2> QED
    BY <1>2, <2>2 DEF GotMove
<1>3. ASSUME sendQueue[n] # <<>>, sendQueue' = [sendQueue EXCEPT ![n] = Tail(@)],
             UNCHANGED written, Head(sendQueue[n]) = Control \/ status'[n] = "offline"
      PROVE  GotMove(n)
  <2> DEFINE k == Len(written[n]) + 1
  <2>1. sendQueue'[n] = Tail(sendQueue[n]) /\ written'[n] = written[n]
    BY <1>0, <1>3
  <2>2. Dropped(Got(n), Got(n)', k) /\ Got(n)[k] = Head(sendQueue[n])
    BY <1>0, <1>3, <2>1, CatDrop DEF Got
  <2>3. k \in DOMAIN Got(n)
    BY <2>2, GotType DEF Dropped
  <2> HIDE DEF k
  <2> QED
    BY <1>3, <2>2, <2>3 DEF GotMove
<1>4. ASSUME sendQueue[n] # <<>>, sendQueue' = [sendQueue EXCEPT ![n] = Tail(@)],
             written' = [written EXCEPT ![n] = Append(@, Head(sendQueue[n]))]
      PROVE  GotMove(n)
  <2>1. sendQueue'[n] = Tail(sendQueue[n])
        /\ written'[n] = Append(written[n], Head(sendQueue[n]))
    BY <1>0, <1>4
  <2>2. Got(n)' = Got(n)
    BY <1>0, <1>4, <2>1, CatShift DEF Got
  <2> QED
    BY <2>2 DEF GotMove
<1>5. ASSUME NEW k \in Nodes, k # n, NEW x, sendQueue' = [sendQueue EXCEPT ![k] = x],
             UNCHANGED written \/ \E y : written' = [written EXCEPT ![k] = y]
      PROVE  GotMove(n)
  BY <1>0, <1>1, <1>5
<1> QED
  BY <1>1, <1>2, <1>3, <1>4, <1>5 DEF QueuesMove, Message

LEMMA AheadStep ==
    ASSUME Types, EventsCounted, NotAhead, InOrder, QueuesMove, Step
    PROVE  NotAhead' /\ InOrder'
<1>1. /\ event \in Nat /\ event' \in Nat /\ event <= event'
  <2>1. event' \in Nat /\ (event' = event \/ event' = event + 1) /\ event \in Nat
    BY BudgetsStep DEF Types, CountsType
  <2> QED
    BY <2>1
<1>2. ASSUME NEW n \in Nodes
      PROVE  /\ \A i \in DOMAIN Got(n)' : Got(n)'[i] <= event'
             /\ \A i, j \in DOMAIN Got(n)' :
                    i < j /\ Got(n)'[j] # Control => Got(n)'[i] <= Got(n)'[j]
  <2> DEFINE a == Got(n)
             b == Got(n)'
             G == /\ \A i \in DOMAIN b : b[i] <= event'
                  /\ \A i, j \in DOMAIN b : i < j /\ b[j] # Control => b[i] <= b[j]
  <2>1. /\ DOMAIN a = 1..Len(a) /\ Len(a) \in Nat /\ \A i \in 1..Len(a) : a[i] \in Nat
        /\ \A i \in 1..Len(a) : a[i] <= event
        /\ \A i, j \in 1..Len(a) : i < j /\ a[j] # Control => a[i] <= a[j]
    BY GotType DEF NotAhead, InOrder
  <2>2. DOMAIN b = 1..Len(b) /\ Len(b) \in Nat
    <3>1. b \in Seq(Message)
      <4>1. written'[n] \in Seq(Message) /\ sendQueue'[n] \in Seq(Message)
        <5>1. written'[n] \in Seq(Event) /\ sendQueue'[n] \in Seq(Message)
          BY QueuesStep DEF QueuesType, Message
        <5>2. \A i \in 1..Len(written'[n]) : written'[n][i] \in Message
          BY <5>1 DEF Message
        <5> QED
          BY <5>1, <5>2
      <4> QED
        BY <4>1, ConcatProperties DEF Got
    <3> QED
      BY <3>1, LenProperties
  <2>3. GotMove(n)
    BY GotMoves
  <2>4. ASSUME NEW m \in Message, Added(a, b, m), m = event \/ m = Control
        PROVE  G
    <3> HIDE DEF a, b
    <3>1. /\ Len(b) = Len(a) + 1 /\ b[Len(a) + 1] = m
          /\ \A i \in 1..Len(a) : b[i] = a[i]
      BY <2>4 DEF Added
    <3>2. \A i \in 1..Len(b) : i = Len(a) + 1 \/ i \in 1..Len(a)
      BY <2>1, <3>1
    <3>3. m <= event /\ Control <= event'
      BY <1>1, <2>4 DEF Control
    <3>4. \A i \in 1..Len(b) : b[i] <= event'
      BY <1>1, <2>1, <2>4, <3>1, <3>2 DEF Control
    <3>5. ASSUME NEW i \in 1..Len(b), NEW j \in 1..Len(b), i < j, b[j] # Control
          PROVE  b[i] <= b[j]
      <4>1. i \in 1..Len(a)
        BY <2>1, <3>1, <3>5
      <4>2. CASE j = Len(a) + 1
        BY <2>1, <2>4, <3>1, <3>5, <4>1, <4>2
      <4>3. CASE j \in 1..Len(a)
        BY <2>1, <3>1, <3>5, <4>1, <4>3
      <4> QED
        BY <3>2, <4>2, <4>3
    <3> QED
      BY <2>2, <3>4, <3>5
  <2>5. ASSUME NEW k, Dropped(a, b, k) PROVE G
    <3> HIDE DEF a, b
    <3> DEFINE f(i) == IF i < k THEN i ELSE i + 1
    <3>1. /\ k \in 1..Len(a) /\ Len(b) = Len(a) - 1
          /\ \A i \in 1..Len(b) : b[i] = a[f(i)]
      BY <2>5 DEF Dropped
    <3>2. \A i \in 1..Len(b) : f(i) \in 1..Len(a)
      BY <2>1, <3>1
    <3>3. \A i, j \in 1..Len(b) : i < j => f(i) < f(j)
      BY <2>1, <3>1
    <3> HIDE DEF f
    <3>4. \A i \in 1..Len(b) : b[i] <= event'
      <4>1. \A i \in 1..Len(b) : b[i] \in Nat /\ b[i] <= event
        BY <2>1, <3>1, <3>2
      <4> QED
        BY <1>1, <4>1
    <3>5. \A i, j \in 1..Len(b) : i < j /\ b[j] # Control => b[i] <= b[j]
      BY <2>1, <3>1, <3>2, <3>3
    <3> QED
      BY <2>2, <3>4, <3>5
  <2>6. ASSUME b = a PROVE G
    <3> HIDE DEF a, b
    <3>1. \A i \in 1..Len(a) : a[i] <= event'
      BY <1>1, <2>1
    <3> QED
      BY <2>1, <2>6, <3>1
  <2> HIDE DEF G
  <2>7. G
    BY <2>3, <2>4, <2>5, <2>6 DEF GotMove
  <2> QED
    BY <2>7 DEF G
<1>3. NotAhead'
  BY <1>2 DEF NotAhead
<1>4. InOrder'
  BY <1>2 DEF InOrder
<1> QED
  BY <1>3, <1>4

-----------------------------------------------------------------------------
\* The end of the process leaves the initial state, but for what is counted.
Fresh ==
    /\ arrays = << <<>> >> /\ g = Empty
    /\ status = [n \in Nodes |-> "none"] /\ topics = [n \in Nodes |-> {}]
    /\ sendQueue = [n \in Nodes |-> <<>>] /\ written = [n \in Nodes |-> <<>>]
    /\ writer = [n \in Nodes |-> FALSE] /\ closing = [n \in Nodes |-> "no"]
    /\ found = [n \in Nodes |-> 0] /\ header = [n \in Nodes |-> Empty]
    /\ accept = [at |-> "idle", node |-> Nil, header |-> Empty]
    /\ send = [s \in Senders |-> Idle] /\ shut = Idle /\ ctxDone = FALSE
    /\ connects = 0 /\ gone \in {"no", "panic", "exit"} /\ event = 0
    /\ owed = [n \in Nodes |-> {}]
    /\ budget \in [Bounded -> Nat] /\ budget["event"] <= LastEvent

LEMMA InitFresh == Init => Fresh
BY SubscribersAssumption DEF Init, Fresh

LEMMA HaltFresh ==
    ASSUME NEW how \in {"panic", "exit"}, Halt(how) PROVE Fresh'
<1>1. budget' \in [Bounded -> Nat] /\ budget'["event"] = 0
  BY DEF Halt, Bounded
<1>2. budget'["event"] <= LastEvent
  BY <1>1, SubscribersAssumption
<1> QED
  BY <1>1, <1>2 DEF Halt, Fresh

LEMMA FreshGot ==
    ASSUME Fresh, NEW n \in Nodes PROVE Got(n) = <<>> /\ DOMAIN Got(n) = {}
<1>1. written[n] = <<>> /\ sendQueue[n] = <<>>
  BY DEF Fresh
<1>2. Got(n) = <<>>
  BY <1>1 DEF Got
<1> QED
  BY <1>2

LEMMA FreshInv == ASSUME Fresh PROVE SInv
<1>1. ArraysType /\ Len(arrays) > 0 /\ arrays \in Seq(Seq(Nodes \cup {Nil}))
  <2>1. <<>> \in Seq(Nodes \cup {Nil})
    BY EmptySeq
  <2>2. << <<>> >> \in Seq(Seq(Nodes \cup {Nil})) /\ Len(<< <<>> >>) = 1
    BY <2>1
  <2> QED
    BY <2>2 DEF Fresh, ArraysType
<1>2. SlicesType
  BY DEF Fresh, SlicesType, SliceHeader, Empty
<1>3. Idle \in LoopType
  BY DEF Idle, LoopType
<1>4. LoopsType
  BY <1>3 DEF Fresh, LoopsType
<1>5. QueuesType
  <2>1. <<>> \in Seq(Event \cup {Control}) /\ <<>> \in Seq(Event) /\ Len(<<>>) <= QueueCap
    BY EmptySeq, SubscribersAssumption
  <2> QED
    BY <2>1 DEF Fresh, QueuesType
<1>6. NodesType
  BY DEF Fresh, NodesType
<1>7. CountsType
  <2>1. ctxDone \in BOOLEAN /\ gone \in {"no", "panic", "exit"}
    BY DEF Fresh
  <2>2. connects \in Int /\ event \in Nat /\ budget \in [Bounded -> Nat]
    BY DEF Fresh
  <2>3. owed \in [Nodes -> SUBSET Event]
    BY DEF Fresh
  <2> QED
    BY <2>1, <2>2, <2>3 DEF CountsType
<1>8. HeadersShow
  <2>1. Empty.arr = 1 /\ Empty.len = 0 /\ Idle.arr = 1 /\ Idle.len = 0
    BY DEF Empty, Idle
  <2>2. Shows(arrays, Empty) /\ Shows(arrays, Idle)
    BY <1>1, <2>1, EmptyShows
  <2> QED
    BY <2>2 DEF Fresh, HeadersShow
<1>9. AtNodes
  BY DEF Fresh, AtNodes, Idle
<1>10. EventsCounted
  <2>1. /\ event = 0 /\ budget["event"] \in Nat /\ budget["event"] <= LastEvent
        /\ loop.at = "idle"
    BY DEF Fresh, Bounded, loop, Senders, Idle
  <2> QED
    BY <2>1, SubscribersAssumption DEF EventsCounted
<1>11. NodesKnown
  <2>1. \A a \in 1..Len(arrays) : Len(arrays[a]) = 0
    BY DEF Fresh
  <2> QED
    BY <2>1 DEF Fresh, NodesKnown
<1>12. Counted
  <2>1. Active = {} /\ connects = 0 /\ accept.at = "idle"
    BY DEF Fresh, Active, NodeLocked
  <2> QED
    BY <2>1, FS_EmptySet DEF Counted
<1>13. NotAhead /\ InOrder
  BY FreshGot DEF NotAhead, InOrder
<1> QED
  BY <1>1, <1>2, <1>4, <1>5, <1>6, <1>7, <1>8, <1>9, <1>10, <1>11, <1>12, <1>13 DEF SInv, Types

LEMMA SStep ==
    ASSUME SInv, [Next]_vars PROVE SInv'
<1>1. CASE Step
  <2>1. Types' /\ HeadersShow' /\ AtNodes' /\ EventsCounted'
    BY <1>1, TypesStep DEF SInv
  <2>2. NodesKnown' /\ Counted'
    BY <1>1, KnownStep, CountedStep DEF SInv
  <2>3. NotAhead' /\ InOrder'
    BY <1>1, QueuesMoves, AheadStep DEF SInv
  <2> QED
    BY <2>1, <2>2, <2>3 DEF SInv
<1>2. ASSUME NEW how \in {"panic", "exit"}, Halt(how) PROVE SInv'
  <2>1. Fresh'
    BY <1>2, HaltFresh
  <2> QED
    BY <2>1, FreshInv, PTL
<1>3. CASE UNCHANGED vars
  <2> USE <1>3 DEF vars, slices, queues, closers
  <2>1. Types'
    BY DEF SInv, Types, ArraysType, SlicesType, LoopsType, QueuesType, NodesType, CountsType
  <2>2. HeadersShow' /\ AtNodes'
    BY DEF SInv, HeadersShow, AtNodes
  <2>3. EventsCounted'
    BY DEF SInv, EventsCounted, loop
  <2>4. NodesKnown'
    BY DEF SInv, NodesKnown
  <2>5. Counted'
    BY DEF SInv, Counted, Active, NodeLocked
  <2>6. NotAhead' /\ InOrder'
    BY DEF SInv, NotAhead, InOrder, Got
  <2> QED
    BY <2>1, <2>2, <2>3, <2>4, <2>5, <2>6 DEF SInv
<1> QED
  BY <1>1, <1>2, <1>3, StepOrHalt

-----------------------------------------------------------------------------
\* The invariant holds of the service, whatever its clients and goroutines do.
THEOREM SubscribersInvariant == Spec => []SInv
<1>1. Init => SInv
  BY InitFresh, FreshInv
<1>2. SInv /\ [Next]_vars => SInv'
  BY SStep
<1> QED
  BY <1>1, <1>2, PTL DEF Spec

LEMMA InvTypeOK == ASSUME SInv PROVE TypeOK
<1>1. Types /\ HeadersShow /\ EventsCounted
  BY DEF SInv
<1>2. event \in 0..LastEvent
  BY <1>1, SubscribersAssumption DEF EventsCounted, Types, CountsType, Bounded
<1>3. /\ g \in Header /\ header \in [Nodes -> Header]
      /\ accept \in [at : {"idle", "store", "count"}, node : Nodes \cup {Nil},
                     header : Header]
  BY <1>1 DEF HeadersShow, Shows, Types, SlicesType, SliceHeader, Header
<1>4. send \in [Senders -> LoopState] /\ shut \in LoopState
  BY <1>1 DEF HeadersShow, Shows, Types, LoopsType, LoopType, LoopState
<1>5. g.len <= Len(arrays[g.arr]) /\ \A i \in 1..g.len : arrays[g.arr][i] \in Nodes
  BY <1>1 DEF HeadersShow, Shows
<1> QED
  BY <1>1, <1>2, <1>3, <1>4, <1>5 DEF TypeOK, Types, ArraysType, QueuesType, NodesType,
     CountsType

\* Whatever races store it, groups.g shows only nodes, no index a loop or a shift
\* uses is out of its array, and no queue holds more than its capacity.
THEOREM SubscribersTypes == Spec => []TypeOK
BY SubscribersInvariant, InvTypeOK, PTL

\* A client gets events in the order of SendAll, however loops, removals and
\* connections race over the slice.
THEOREM EventsInOrder == Spec => []InOrder
<1>1. SInv => InOrder
  BY DEF SInv
<1> QED
  BY <1>1, SubscribersInvariant, PTL

\* Each client is counted in once and out once, whichever of reader, writer and
\* groups.close closes it: the counter is the number of clients online.
THEOREM ConnectionsCounted == Spec => []ConnectsAccurate
<1>1. SInv => ConnectsAccurate
  <2> SUFFICES ASSUME SInv, accept.at = "idle", \A n \in Nodes : ~NodeLocked(n)
               PROVE  connects = Cardinality({n \in Nodes : status[n] = "online"})
    BY DEF ConnectsAccurate
  <2>1. Active = {n \in Nodes : status[n] = "online"}
    BY DEF Active
  <2>2. IsFiniteSet(Active)
    BY FS_Subset, SubscribersAssumption DEF Active
  <2>3. connects = Cardinality(Active)
    BY <2>2, FS_CardinalityType DEF SInv, Counted
  <2> QED
    BY <2>1, <2>3
<1> QED
  BY <1>1, SubscribersInvariant, PTL

-----------------------------------------------------------------------------
(* While no client has left. *)

\* Nobody is being closed, and nobody was before.
LEMMA CalmBefore ==
    ASSUME SInv, Step, Calm'
    PROVE  /\ Calm /\ UNCHANGED closing /\ \A n \in Nodes : closing[n] = "no"
           /\ UNCHANGED status \/ \E n \in Nodes : OnConnect(n)
<1>0. /\ status \in [Nodes -> {"none", "online", "offline"}]
      /\ \A n \in Nodes : closing[n] # "no" => status[n] = "offline"
      /\ NodesMove
  BY NodesMoves DEF SInv, Types, NodesType, NodesKnown
<1>1. Calm
  BY <1>0 DEF NodesMove, Calm
<1>2. \A n \in Nodes : closing[n] = "no"
  BY <1>0, <1>1 DEF Calm
<1>3. UNCHANGED closing /\ (UNCHANGED status \/ \E n \in Nodes : OnConnect(n))
  <2>1. ~\E n \in Nodes : status' = [status EXCEPT ![n] = "offline"]
    BY <1>0 DEF Calm
  <2> QED
    BY <1>0, <1>2, <2>1 DEF NodesMove
<1> QED
  BY <1>1, <1>2, <1>3

\* What can happen to the slice.
SliceMove ==
    \/ UNCHANGED <<arrays, g, accept, status>>
    \/ \E n \in Nodes : OnConnect(n)
    \/ OnConnectStore /\ UNCHANGED <<arrays, status, ctxDone>>
    \/ newConnect /\ UNCHANGED <<arrays, g, status, ctxDone>>
    \/ CloseReturns /\ ctxDone /\ ctxDone' /\ UNCHANGED <<accept, status>>

LEMMA SliceMoves ==
    ASSUME SInv, Begun, Step, Calm' PROVE SliceMove
<1>0. \A n \in Nodes : closing[n] = "no"
  BY CalmBefore
<1>1. CASE CloseReturns
  <2>1. shut.at # "idle" /\ UNCHANGED <<accept, status, ctxDone>>
    BY <1>1 DEF CloseReturns
  <2> QED
    BY <1>1, <2>1 DEF SliceMove, Begun
<1>2. CASE OnConnectStore
  BY <1>2 DEF OnConnectStore, SliceMove
<1>3. CASE newConnect
  BY <1>3 DEF newConnect, SliceMove, slices
<1>4. CASE UNCHANGED <<arrays, g, accept>>
  BY <1>4, CalmBefore DEF SliceMove
<1>5. \/ UNCHANGED <<arrays, g, accept>> \/ CloseReturns \/ OnConnectStore \/ newConnect
      \/ \E n \in Nodes : OnConnect(n)
  <2> DEFINE F == \/ UNCHANGED <<arrays, g, accept>> \/ CloseReturns \/ OnConnectStore
                  \/ newConnect \/ \E n \in Nodes : OnConnect(n)
  <2>1. Cancel \/ SendAll \/ keepalive \/ Accepting \/ Shutting => F
    BY <1>0 DEF Cancel, SendAll, keepalive, Accepting, Shutting, Close, CloseNext,
       CloseWait, slices
  <2>2. \A s \in Senders : Sends(s) => F
    BY <1>0 DEF Sends, sendAllNext, asyncSendCheck, asyncSendSpin, asyncSend, slices
  <2>3. \A n \in Nodes : Client(n) \/ Writing(n) => F
    BY <1>0 DEF Client, onMessage, onConnectReturns, onSetPro, Writing,
       asyncSendService, asyncSendServiceFails, asyncSendServiceReturns, slices
  <2>4. \A n \in Nodes : Closes(n) => F
    BY <1>0 DEF Closes, removeFind, removeShift, removeStore, disconnect, slices
  <2> HIDE DEF F
  <2>5. F
    BY <2>1, <2>2, <2>3, <2>4 DEF Step
  <2> QED
    BY <2>5 DEF F
<1>6. CASE \E n \in Nodes : OnConnect(n)
  BY <1>6 DEF SliceMove
<1> QED
  BY <1>1, <1>2, <1>3, <1>4, <1>5, <1>6

\* append does not touch what an earlier header shows, and nobody else touches
\* the arrays there are.
LEMMA ArraysKeep ==
    ASSUME SInv, SliceMove, NEW h, Shows(arrays, h), h.arr \in Nat, h.len \in Nat,
           (\E n \in Nodes : OnConnect(n)) => Earlier(h, g)
    PROVE  Keeps(arrays, arrays', h)
<1>0. /\ arrays \in Seq(Seq(Nodes \cup {Nil})) /\ h.arr \in 1..Len(arrays)
      /\ \A i \in 1..h.len : i \in 1..Len(arrays[h.arr])
  <2>1. /\ arrays \in Seq(Seq(Nodes \cup {Nil})) /\ h.arr \in 1..Len(arrays)
        /\ h.len <= Len(arrays[h.arr])
    BY DEF SInv, Types, ArraysType, Shows
  <2>2. arrays[h.arr] \in Seq(Nodes \cup {Nil})
    BY <2>1
  <2>3. Len(arrays[h.arr]) \in Nat
    BY <2>2
  <2> QED
    BY <2>1, <2>3
<1>1. CASE UNCHANGED arrays
  BY <1>1 DEF Keeps
<1>2. ASSUME NEW n \in Nodes, OnConnect(n) PROVE Keeps(arrays, arrays', h)
  <2>1. arrays' = AppendArrays(n)
    BY <1>2 DEF OnConnect
  <2>2. \A a \in 1..Len(arrays) : \A i \in 1..Len(arrays[a]) :
            arrays'[a][i] = arrays[a][i] \/ (a = g.arr /\ i = g.len + 1)
    <3>1. ArraysType /\ SlicesType /\ HeadersShow
      BY DEF SInv, Types
    <3>2. \A a \in 1..Len(arrays) :
            /\ Len(AppendArrays(n)[a]) = Len(arrays[a])
            /\ \A i \in 1..Len(arrays[a]) :
                \/ AppendArrays(n)[a][i] = arrays[a][i]
                \/ a = g.arr /\ i = g.len + 1 /\ AppendArrays(n)[a][i] = n
      BY <3>1, AppendEffect
    <3> QED
      BY <2>1, <3>2
  <2>3. \A i \in 1..h.len : ~(h.arr = g.arr /\ i = g.len + 1)
    <3>1. g.len \in Nat /\ (h.arr = g.arr => h.len <= g.len)
      BY <1>2 DEF Earlier, SInv, Types, SlicesType, SliceHeader
    <3> QED
      BY <3>1
  <2> QED
    BY <1>0, <2>2, <2>3 DEF Keeps
<1>3. CASE CloseReturns
  <2>1. arrays' = Append(arrays, <<>>)
    BY <1>3 DEF CloseReturns
  <2>2. \A a \in 1..Len(arrays) : arrays'[a] = arrays[a]
    BY <1>0, <2>1
  <2> QED
    BY <1>0, <2>2 DEF Keeps
<1> QED
  BY <1>1, <1>2, <1>3 DEF SliceMove

\* What is appended to the slice is a node that it did not show.
LEMMA ConnectGrows ==
    ASSUME SInv, NEW n \in Nodes, OnConnect(n), Distinct(arrays, g)
    PROVE  /\ Distinct(arrays', accept'.header)
           /\ accept'.header.arr >= g.arr /\ accept'.header.len = g.len + 1
           /\ View(arrays', g) = View(arrays, g)
           /\ View(arrays', g) \subseteq View(arrays', accept'.header)
           /\ n \in View(arrays', accept'.header)
<1> DEFINE h == accept'.header
<1>0. /\ arrays' = AppendArrays(n) /\ h = AppendHeader /\ status[n] = "none"
      /\ g.arr \in Nat /\ g.len \in Nat /\ g.arr \in 1..Len(arrays) /\ Len(arrays) \in Nat
  BY DEF OnConnect, SInv, Types, SlicesType, SliceHeader, HeadersShow, Shows, ArraysType
<1>1. /\ h.len = g.len + 1 /\ arrays'[h.arr][g.len + 1] = n
      /\ \A i \in 1..g.len : arrays'[h.arr][i] = arrays[g.arr][i]
      /\ h.arr = g.arr \/ h.arr = Len(arrays) + 1
  BY <1>0, AppendEffect DEF SInv, Types
<1>2. h.arr >= g.arr
  BY <1>0, <1>1
<1>3. \A i \in 1..g.len : arrays[g.arr][i] # n
  <2>1. \A i \in 1..g.len : i \in 1..Len(arrays[g.arr]) /\ arrays[g.arr][i] \in Nodes
    <3>1. arrays \in Seq(Seq(Nodes \cup {Nil})) /\ g.len <= Len(arrays[g.arr])
      BY DEF SInv, Types, ArraysType, HeadersShow, Shows
    <3>2. arrays[g.arr] \in Seq(Nodes \cup {Nil})
      BY <1>0, <3>1
    <3>3. Len(arrays[g.arr]) \in Nat
      BY <3>2
    <3>4. \A i \in 1..g.len : arrays[g.arr][i] \in Nodes
      BY DEF SInv, HeadersShow, Shows
    <3> QED
      BY <1>0, <3>1, <3>3, <3>4
  <2>2. \A i \in 1..g.len : status[arrays[g.arr][i]] # "none"
    BY <1>0, <2>1 DEF SInv, NodesKnown
  <2> QED
    BY <1>0, <2>2
<1> HIDE DEF h
<1>4. \A i \in 1..(g.len + 1) : i \in 1..g.len \/ i = g.len + 1
  BY <1>0
<1>5. Distinct(arrays', h)
  <2> SUFFICES ASSUME NEW i \in 1..(g.len + 1), NEW j \in 1..(g.len + 1),
                      arrays'[h.arr][i] = arrays'[h.arr][j]
               PROVE  i = j
    BY <1>1 DEF Distinct
  <2>1. CASE i \in 1..g.len /\ j \in 1..g.len
    BY <1>1, <2>1 DEF Distinct
  <2>2. CASE i = g.len + 1 /\ j \in 1..g.len
    BY <1>1, <1>3, <2>2
  <2>3. CASE j = g.len + 1 /\ i \in 1..g.len
    BY <1>1, <1>3, <2>3
  <2> QED
    BY <1>4, <2>1, <2>2, <2>3
<1>6. View(arrays', g) = View(arrays, g)
  <2>1. Keeps(arrays, arrays', g)
    <3>1. SliceMove /\ Shows(arrays, g) /\ Earlier(g, g)
      BY <1>0 DEF SliceMove, SInv, HeadersShow, Earlier
    <3> QED
      BY <1>0, <3>1, ArraysKeep
  <2> QED
    BY <2>1, KeptView
<1>7. View(arrays, g) \subseteq View(arrays', h)
  <2>1. \A i \in 1..g.len : i \in 1..h.len /\ arrays[g.arr][i] = arrays'[h.arr][i]
    BY <1>0, <1>1
  <2> QED
    BY <2>1 DEF View
<1>8. n \in View(arrays', h)
  <2>1. g.len + 1 \in 1..h.len
    BY <1>0, <1>1
  <2> QED
    BY <1>1, <2>1 DEF View
<1> QED
  BY <1>1, <1>2, <1>5, <1>6, <1>7, <1>8 DEF h

LEMMA SliceStep ==
    ASSUME SInv, Begun, SliceGrows, Step, Calm' PROVE SliceGrows'
<1>0. /\ SliceMove /\ g.arr \in Nat /\ g.len \in Nat /\ Shows(arrays, g)
      /\ ctxDone => ctxDone'
  <2>1. ctxDone => ctxDone'
    BY DEF Step, Accepting, Shutting, Sends, Client, Closes, Writing, Cancel, SendAll,
       keepalive, OnConnect, OnConnectStore, newConnect, Close, CloseNext, CloseWait,
       CloseReturns, sendAllNext, asyncSendCheck, asyncSendSpin, asyncSend, onMessage,
       onConnectReturns, onSetPro, removeFind, removeShift, removeStore, disconnect,
       asyncSendService, asyncSendServiceFails, asyncSendServiceReturns
  <2> QED
    BY <2>1, SliceMoves DEF SInv, Types, SlicesType, SliceHeader, HeadersShow
<1>1. CASE UNCHANGED <<arrays, g, accept, status>>
  BY <1>0, <1>1 DEF SliceGrows
<1>2. ASSUME NEW n \in Nodes, OnConnect(n) PROVE SliceGrows'
  <2>1. /\ Distinct(arrays', accept'.header)
        /\ accept'.header.arr >= g.arr /\ accept'.header.len = g.len + 1
        /\ View(arrays', g) = View(arrays, g)
        /\ View(arrays', g) \subseteq View(arrays', accept'.header)
        /\ n \in View(arrays', accept'.header)
    BY <1>2, ConnectGrows DEF SliceGrows
  <2>2. /\ accept.at = "idle" /\ accept'.at = "store" /\ accept'.node = n
        /\ status' = [status EXCEPT ![n] = "online"] /\ UNCHANGED <<g, ctxDone>>
    BY <1>2 DEF OnConnect
  <2>3. Distinct(arrays', g)
    <3>1. Earlier(g, g)
      BY <1>0 DEF Earlier
    <3>2. Keeps(arrays, arrays', g)
      BY <1>0, <3>1, ArraysKeep
    <3> QED
      BY <3>2, KeptView DEF SliceGrows
  <2>4. ~ctxDone' => \A k \in Nodes : status'[k] = "online" /\ k # n => k \in View(arrays', g)
    <3>1. status \in [Nodes -> {"none", "online", "offline"}]
      BY DEF SInv, Types, NodesType
    <3> QED
      BY <2>1, <2>2, <3>1 DEF SliceGrows
  <2> QED
    BY <2>1, <2>2, <2>3, <2>4 DEF SliceGrows
<1>3. CASE OnConnectStore /\ UNCHANGED <<arrays, status, ctxDone>>
  <2>1. accept.at = "store" /\ g' = accept.header /\ accept'.at = "count"
    BY <1>3 DEF OnConnectStore, SInv, Types, SlicesType
  <2>2. Distinct(arrays', g')
    BY <1>3, <2>1 DEF SliceGrows
  <2>3. ASSUME ~ctxDone, NEW n \in Nodes, status[n] = "online" PROVE n \in View(arrays', g')
    <3>1. n \in View(arrays, g) \/ accept.node = n
      BY <2>3 DEF SliceGrows
    <3> QED
      BY <1>3, <2>1, <2>3, <3>1 DEF SliceGrows
  <2> QED
    BY <1>3, <2>1, <2>2, <2>3 DEF SliceGrows
<1>4. CASE newConnect /\ UNCHANGED <<arrays, g, status, ctxDone>>
  <2>1. accept.at = "count" /\ accept'.at = "idle"
    BY <1>4 DEF newConnect
  <2> QED
    BY <1>4, <2>1 DEF SliceGrows
<1>5. CASE CloseReturns /\ ctxDone /\ ctxDone' /\ UNCHANGED <<accept, status>>
  <2>1. g'.len = 0
    BY <1>5 DEF CloseReturns
  <2>2. Distinct(arrays', g')
    BY <2>1 DEF Distinct
  <2>3. accept.at = "store" => Distinct(arrays', accept.header)
    <3>1. Shows(arrays, accept.header) /\ accept.header.arr \in Nat
          /\ accept.header.len \in Nat
      BY DEF SInv, HeadersShow, Types, SlicesType, SliceHeader
    <3>2. ~\E n \in Nodes : OnConnect(n)
      BY <1>5 DEF OnConnect
    <3>3. Keeps(arrays, arrays', accept.header)
      BY <1>0, <3>1, <3>2, ArraysKeep
    <3> QED
      BY <3>3, KeptView DEF SliceGrows
  <2> QED
    BY <1>5, <2>2, <2>3 DEF SliceGrows
<1> QED
  BY <1>0, <1>1, <1>2, <1>3, <1>4, <1>5 DEF SliceMove

-----------------------------------------------------------------------------
(* Events sent. *)

SendsTo(n) == asyncSend("event") /\ loop.node = n

Unique(n) ==
    \A i, j \in DOMAIN Got(n) : Got(n)[i] = Got(n)[j] /\ Got(n)[i] # Control => i = j

\* As long as nobody leaves, only SendAll's loop changes the events a client has got.
LEMMA SentMoves ==
    ASSUME SInv, Step, Calm', NEW n \in Nodes
    PROVE  /\ \A e \in Event : e \in Sent(n) => e \in Sent(n)'
           /\ \A e \in Event : e \in Sent(n)' => e \in Sent(n) \/ (SendsTo(n) /\ e = event)
           /\ Unique(n) /\ (SendsTo(n) => event \notin Sent(n)) => Unique(n)'
<1> DEFINE a == Got(n)
           b == Got(n)'
           P == /\ \A e \in Event : e \in {a[i] : i \in DOMAIN a} =>
                        e \in {b[i] : i \in DOMAIN b}
                /\ \A e \in Event : e \in {b[i] : i \in DOMAIN b} =>
                        \/ e \in {a[i] : i \in DOMAIN a}
                        \/ SendsTo(n) /\ e = event
           U == \A i, j \in DOMAIN a : a[i] = a[j] /\ a[i] # Control => i = j
           V == \A i, j \in DOMAIN b : b[i] = b[j] /\ b[i] # Control => i = j
           N == SendsTo(n) => event \notin {a[i] : i \in DOMAIN a}
<1>1. DOMAIN a = 1..Len(a) /\ Len(a) \in Nat
  BY GotType DEF SInv
<1>2. DOMAIN b = 1..Len(b) /\ Len(b) \in Nat
  <2>1. QueuesType'
    BY QueuesMoves, QueuesStep DEF SInv
  <2>2. written'[n] \in Seq(Event) /\ sendQueue'[n] \in Seq(Message)
    BY <2>1 DEF QueuesType, Message
  <2>3. \A i \in 1..Len(written'[n]) : written'[n][i] \in Message
    BY <2>2 DEF Message
  <2>4. written'[n] \in Seq(Message)
    BY <2>2, <2>3
  <2>5. b \in Seq(Message)
    BY <2>2, <2>4, ConcatProperties DEF Got
  <2> QED
    BY <2>5, LenProperties
<1>3. Control \notin Event
  BY SubscribersAssumption DEF Control, Event
<1>4. ASSUME b = a PROVE P /\ (U => V)
  <2> HIDE DEF a, b
  <2> QED
    BY <1>4
<1>5. ASSUME NEW m, Added(a, b, m), (SendsTo(n) /\ m = event) \/ m = Control
      PROVE  P /\ (U /\ N => V)
  <2> HIDE DEF a, b
  <2>1. /\ Len(b) = Len(a) + 1 /\ b[Len(a) + 1] = m
        /\ \A i \in 1..Len(a) : b[i] = a[i]
    BY <1>5 DEF Added
  <2>2. /\ \A i \in 1..Len(b) : i = Len(a) + 1 \/ i \in 1..Len(a)
        /\ \A i \in 1..Len(a) : i \in 1..Len(b)
    BY <1>1, <2>1
  <2>3. P
    BY <1>1, <1>2, <1>3, <1>5, <2>1, <2>2
  <2>4. ASSUME U, N PROVE V
    <3> SUFFICES ASSUME NEW i \in 1..Len(b), NEW j \in 1..Len(b), b[i] = b[j],
                        b[i] # Control
                 PROVE  i = j
      BY <1>2
    <3>1. CASE i \in 1..Len(a) /\ j \in 1..Len(a)
      BY <1>1, <2>1, <2>4, <3>1
    <3>2. CASE i = Len(a) + 1 /\ j \in 1..Len(a)
      BY <1>1, <1>5, <2>1, <2>4, <3>2
    <3>3. CASE j = Len(a) + 1 /\ i \in 1..Len(a)
      BY <1>1, <1>5, <2>1, <2>4, <3>3
    <3> QED
      BY <2>2, <3>1, <3>2, <3>3
  <2> QED
    BY <2>3, <2>4
<1>6. ASSUME NEW k, Dropped(a, b, k), a[k] = Control
      PROVE  P /\ (U => V)
  <2> HIDE DEF a, b
  <2> DEFINE f(i) == IF i < k THEN i ELSE i + 1
             h(i) == IF i < k THEN i ELSE i - 1
  <2>1. /\ k \in 1..Len(a) /\ Len(b) = Len(a) - 1
        /\ \A i \in 1..Len(b) : b[i] = a[f(i)]
    BY <1>6 DEF Dropped
  <2>2. /\ \A i \in 1..Len(b) : f(i) \in 1..Len(a)
        /\ \A i, j \in 1..Len(b) : f(i) = f(j) => i = j
    BY <1>1, <2>1
  <2>3. \A i \in 1..Len(a) : i # k => h(i) \in 1..Len(b) /\ f(h(i)) = i
    BY <1>1, <2>1
  <2> HIDE DEF f, h
  <2>4. \A i \in 1..Len(a) : i # k => b[h(i)] = a[i]
    BY <2>1, <2>3
  <2>5. ASSUME NEW e \in Event, NEW i \in DOMAIN a, e = a[i]
        PROVE  e \in {b[j] : j \in DOMAIN b}
    <3>1. i # k /\ i \in 1..Len(a)
      BY <1>1, <1>3, <1>6, <2>5
    <3>2. h(i) \in 1..Len(b) /\ b[h(i)] = e
      BY <2>3, <2>4, <2>5, <3>1
    <3> QED
      BY <1>2, <3>2
  <2>6. ASSUME NEW e \in Event, NEW i \in DOMAIN b, e = b[i]
        PROVE  e \in {a[j] : j \in DOMAIN a}
    BY <1>1, <1>2, <2>1, <2>2, <2>6
  <2>7. P
    BY <2>5, <2>6
  <2>8. U => V
    BY <1>1, <1>2, <2>1, <2>2
  <2> QED
    BY <2>7, <2>8
<1>7. P /\ (U /\ N => V)
  <2>1. GotMove(n) /\ status'[n] # "offline"
    BY QueuesMoves, GotMoves DEF SInv, Calm
  <2> HIDE DEF P, U, V, N
  <2> QED
    BY <1>4, <1>5, <1>6, <2>1 DEF GotMove, SendsTo, P, U, V
<1> QED
  BY <1>7 DEF Sent, Unique

\* asyncSend gives the event to the node the loop is at.
LEMMA EventSent ==
    ASSUME SInv, NEW n \in Nodes, SendsTo(n) PROVE event \in Sent(n)'
<1>1. /\ sendQueue \in [Nodes -> Seq(Message)] /\ written[n] \in Seq(Event)
      /\ event \in Message
  <2>1. "event" \in Senders
    BY DEF Senders
  <2>2. event \in Event \cup {Control}
    BY <2>1, SentType DEF SendsTo, SInv
  <2> QED
    BY <2>2 DEF SInv, Types, QueuesType, Message
<1>2. sendQueue'[n] = Append(sendQueue[n], event) /\ written'[n] = written[n]
  BY <1>1 DEF SendsTo, asyncSend, loop
<1>3. written[n] \in Seq(Message)
  <2>1. written[n] \in Seq(Event)
    BY <1>1
  <2>2. \A i \in 1..Len(written[n]) : written[n][i] \in Message
    BY <2>1 DEF Message
  <2> QED
    BY <2>1, <2>2
<1> DEFINE q == Append(sendQueue[n], event)
           w == written[n]
<1>4. q \in Seq(Message) /\ Len(q) \in Nat \ {0} /\ q[Len(q)] = event
  <2>1. sendQueue[n] \in Seq(Message)
    BY <1>1
  <2>2. q \in Seq(Message) /\ Len(q) = Len(sendQueue[n]) + 1 /\ Len(sendQueue[n]) \in Nat
        /\ q[Len(sendQueue[n]) + 1] = event
    BY <1>1, <2>1, AppendProperties, LenProperties
  <2> QED
    BY <2>2
<1>5. Got(n)' = w \o q
  BY <1>2 DEF Got
<1> HIDE DEF q, w
<1>6. /\ Len(w) \in Nat /\ DOMAIN (w \o q) = 1..(Len(w) + Len(q))
      /\ \A i \in 1..Len(q) : (w \o q)[Len(w) + i] = q[i]
  BY <1>3, <1>4, CatDef DEF w
<1>7. /\ Len(w) + Len(q) \in DOMAIN (w \o q) /\ Len(q) \in 1..Len(q)
  BY <1>4, <1>6
<1> QED
  BY <1>4, <1>5, <1>6, <1>7 DEF Sent

-----------------------------------------------------------------------------
(* SendAll's loop. *)

\* What can happen to it.
LoopMove ==
    \/ UNCHANGED <<loop, event, owed, topics>> /\ ~asyncSend("event")
    \/ SendAll
    \/ \E n \in Nodes : \E f \in Filters : onSetPro(n, f)
    \/ /\ UNCHANGED <<arrays, g, event, owed, topics>>
       /\ \/ sendAllNext("event") \/ asyncSendCheck("event") \/ asyncSendSpin("event")
          \/ asyncSend("event")

LEMMA LoopMoves ==
    ASSUME SInv, Step PROVE LoopMove
<1>0. send \in [Senders -> LoopType] /\ "event" \in Senders
  BY DEF SInv, Types, LoopsType, Senders
<1>1. CASE UNCHANGED <<send, event, owed, topics>> /\ ~asyncSend("event")
  BY <1>1 DEF LoopMove, loop
<1>2. ASSUME NEW s \in Senders, s # "event", NEW m, send' = [send EXCEPT ![s] = m],
             UNCHANGED <<event, owed, topics>>, ~asyncSend("event")
      PROVE  LoopMove
  BY <1>0, <1>2 DEF LoopMove, loop
<1>3. CASE keepalive /\ ~asyncSend("event")
  <2>1. /\ send' = [send EXCEPT !["tick"] = Loop] /\ "tick" \in Senders /\ "tick" # "event"
        /\ UNCHANGED <<event, owed, topics>>
    BY <1>3 DEF keepalive, Senders
  <2> QED
    BY <1>2, <1>3, <2>1
<1>4. ASSUME NEW n \in Nodes, onMessage(n), ~asyncSend("event") PROVE LoopMove
  <2>1. /\ send' = [send EXCEPT ![n] = [Idle EXCEPT !.at = "check", !.node = n]]
        /\ n \in Senders /\ n # "event" /\ UNCHANGED <<event, owed, topics>>
    BY <1>4, SubscribersAssumption DEF onMessage, Senders
  <2> QED
    BY <1>2, <1>4, <2>1
<1>5. ASSUME NEW s \in Senders, Sends(s)
      PROVE  /\ UNCHANGED <<arrays, g, event, owed, topics>>
             /\ \E m : send' = [send EXCEPT ![s] = m]
  <2>1. UNCHANGED <<arrays, g, event, owed, topics>>
    BY <1>5 DEF Sends, sendAllNext, asyncSendCheck, asyncSendSpin, asyncSend, slices
  <2>2. sendAllNext(s) \/ asyncSendCheck(s) \/ asyncSend(s) =>
            \E m : send' = [send EXCEPT ![s] = m]
    BY DEF sendAllNext, asyncSendCheck, asyncSend
  <2>3. asyncSendSpin(s) => \E m : send' = [send EXCEPT ![s] = m]
    BY DEF asyncSendSpin
  <2> QED
    BY <1>5, <2>1, <2>2, <2>3 DEF Sends
<1>6. CASE Sends("event")
  BY <1>0, <1>5, <1>6 DEF LoopMove, Sends
<1>7. ASSUME NEW s \in Senders, Sends(s), ~Sends("event") PROVE LoopMove
  <2>1. s # "event" /\ ~asyncSend("event")
    BY <1>7 DEF Sends
  <2>2. PICK m : send' = [send EXCEPT ![s] = m]
    BY <1>5, <1>7
  <2> QED
    BY <1>2, <1>5, <1>7, <2>1, <2>2
<1>8. CASE SendAll \/ \E n \in Nodes : \E f \in Filters : onSetPro(n, f)
  BY <1>8 DEF LoopMove
<1>9. \/ UNCHANGED <<send, event, owed, topics>>
      \/ SendAll \/ (\E n \in Nodes : \E f \in Filters : onSetPro(n, f))
      \/ keepalive \/ (\E n \in Nodes : onMessage(n)) \/ \E s \in Senders : Sends(s)
  <2> DEFINE F == \/ UNCHANGED <<send, event, owed, topics>>
                  \/ SendAll \/ (\E n \in Nodes : \E f \in Filters : onSetPro(n, f))
                  \/ keepalive \/ (\E n \in Nodes : onMessage(n)) \/ \E s \in Senders : Sends(s)
  <2>1. Cancel \/ SendAll \/ keepalive \/ Accepting \/ Shutting => F
    BY DEF Cancel, Accepting, OnConnectStore, newConnect, Shutting, Close, CloseNext,
       CloseWait, CloseReturns
  <2>2. \A s \in Senders : Sends(s) => F
    OBVIOUS
  <2>3. \A n \in Nodes : Client(n) \/ Writing(n) => F
    BY DEF Client, OnConnect, onConnectReturns, Writing, asyncSendService,
       asyncSendServiceFails, asyncSendServiceReturns
  <2>4. \A n \in Nodes : Closes(n) => F
    BY DEF Closes, removeFind, removeShift, removeStore, disconnect
  <2> HIDE DEF F
  <2>5. F
    BY <2>1, <2>2, <2>3, <2>4 DEF Step
  <2> QED
    BY <2>5 DEF F
<1>10. asyncSend("event") => Sends("event")
  BY DEF Sends
<1> QED
  BY <1>1, <1>3, <1>4, <1>6, <1>7, <1>8, <1>9, <1>10

\* A loop that advances over one more node, which has the event if it is owed to it.
LEMMA LoopAdvances ==
    ASSUME SInv, Step, Calm', LoopExact, loop.at # "idle",
           UNCHANGED <<arrays, g, event, owed, topics>>, ctxDone => ctxDone',
           loop' = [loop EXCEPT !.at = "next", !.i = loop.i + 1, !.node = Nil],
           loop.i <= loop.len,
           \A n \in Nodes : SendsTo(n) => n = arrays[loop.arr][loop.i],
           \A n \in Nodes : n = arrays[loop.arr][loop.i] /\ event \in owed[n] =>
                event \in Sent(n)'
    PROVE  LoopExact'
<1> DEFINE l == loop
           m == loop'
           A == arrays
<1>0. /\ l \in LoopType /\ l.i \in Nat \ {0} /\ l.len \in Nat /\ Shows(A, l)
      /\ event \in Event
  <2>1. l \in LoopType /\ Shows(A, l)
    BY DEF SInv, Types, LoopsType, HeadersShow, loop, Senders
  <2>2. event \in Nat /\ event > 0 /\ event + budget["event"] <= LastEvent
        /\ budget["event"] \in Nat
    BY DEF SInv, EventsCounted, Types, CountsType, Bounded
  <2>3. event \in Event
    BY <2>2, SubscribersAssumption DEF Event
  <2> QED
    BY <2>1, <2>3 DEF LoopType
<1>1. /\ m.at = "next" /\ m.i = l.i + 1 /\ m.arr = l.arr /\ m.len = l.len
  BY <1>0 DEF LoopType
<1>2. /\ ~ctxDone => Earlier(l, g)
      /\ Distinct(A, l) /\ LoopOwes /\ LoopBehind /\ LoopServed
  BY DEF LoopExact
<1>3. \A n \in Nodes : /\ event \in Sent(n) => event \in Sent(n)'
                       /\ event \in Sent(n)' => event \in Sent(n) \/ SendsTo(n)
  BY <1>0, SentMoves
<1>4. \A p \in 1..l.len : A[l.arr][p] \in Nodes
  BY <1>0 DEF Shows
<1>5. \A p \in 1..l.len : p < m.i <=> p < l.i \/ p = l.i
  BY <1>0, <1>1
<1>6. l.i \in 1..l.len
  BY <1>0
<1> HIDE DEF l, m, A
<1>7. (~ctxDone => Earlier(loop, g))' /\ Distinct(A, m)
  BY <1>1, <1>2 DEF Earlier, Distinct, l, m
<1>8. LoopOwes'
  BY <1>1, <1>2 DEF LoopOwes, View, l, m
<1>9. LoopBehind'
  <2> SUFFICES ASSUME NEW n \in Nodes, event \in Sent(n)'
               PROVE  \E p \in 1..m.len : p < m.i /\ A[m.arr][p] = n
    BY DEF LoopBehind, A, m
  <2>1. CASE event \in Sent(n)
    <3>1. PICK p \in 1..l.len : p < l.i /\ A[l.arr][p] = n
      BY <1>2, <2>1 DEF LoopBehind, A, l
    <3> QED
      BY <1>1, <1>5, <3>1
  <2>2. CASE SendsTo(n)
    <3>1. n = A[l.arr][l.i]
      BY <2>2 DEF A, l
    <3> QED
      BY <1>1, <1>5, <1>6, <3>1
  <2> QED
    BY <1>3, <2>1, <2>2
<1>10. LoopServed'
  <2> SUFFICES ASSUME NEW n \in Nodes, NEW p \in 1..m.len, p < m.i, A[m.arr][p] = n,
                      event \in owed[n]
               PROVE  event \in Sent(n)'
    BY DEF LoopServed, A, m
  <2>1. CASE p < l.i
    <3>1. event \in Sent(n)
      BY <1>1, <1>2, <2>1 DEF LoopServed, A, l
    <3> QED
      BY <1>3, <3>1
  <2>2. CASE p = l.i
    BY <1>1, <2>2 DEF A, l
  <2> QED
    BY <1>1, <1>5, <2>1, <2>2
<1> QED
  BY <1>1, <1>7, <1>8, <1>9, <1>10 DEF LoopExact, A, m

\* A step that leaves the loop at the node it is at.
LEMMA LoopStays ==
    ASSUME SInv, Step, Calm', LoopExact,
           Keeps(arrays, arrays', loop), ~ctxDone' => Earlier(loop, g)',
           UNCHANGED event, \A n \in Nodes : ~SendsTo(n),
           loop'.arr = loop.arr, loop'.len = loop.len, loop'.i = loop.i,
           loop'.at # "idle" => loop.at # "idle",
           loop'.at \in {"check", "spin", "push"} =>
                loop.i <= loop.len /\ loop'.node = arrays[loop.arr][loop.i],
           \A n \in Nodes : owed'[n] \subseteq owed[n],
           loop.at # "idle" =>
                \A n \in Nodes : event \in owed'[n] => topics'[n] = topics[n]
    PROVE  LoopExact'
<1> DEFINE l == loop
           m == loop'
           A == arrays
           B == arrays'
<1>0. l.i \in Nat \ {0} /\ l.len \in Nat
  BY DEF SInv, Types, LoopsType, loop, Senders, LoopType
<1>1. View(B, l) = View(A, l) /\ Distinct(B, l)
  BY KeptView DEF LoopExact
<1>2. View(B, m) = View(B, l) /\ Distinct(B, m)
  <2> HIDE DEF l, m, A, B
  <2> QED
    BY <1>1 DEF View, Distinct, l, m
<1>3. ASSUME l.at # "idle" PROVE LoopOwes' /\ LoopBehind' /\ LoopServed'
  <2>1. LoopOwes /\ LoopBehind /\ LoopServed /\ event \in Event
    <3>1. LoopOwes /\ LoopBehind /\ LoopServed
      BY <1>3 DEF LoopExact
    <3>2. event \in Nat /\ event > 0 /\ event + budget["event"] <= LastEvent
          /\ budget["event"] \in Nat
      BY <1>3 DEF SInv, EventsCounted, Types, CountsType, Bounded
    <3>3. event \in Event
      BY <3>2, SubscribersAssumption DEF Event
    <3> QED
      BY <3>1, <3>3
  <2>2. \A n \in Nodes : event \in Sent(n)' <=> event \in Sent(n)
    BY <2>1, SentMoves
  <2>3. \A p \in 1..l.len : B[l.arr][p] = A[l.arr][p]
    BY DEF Keeps
  <2> HIDE DEF l, m, A, B
  <2>4. LoopOwes'
    <3> SUFFICES ASSUME NEW n \in Nodes, event \in owed'[n]
                 PROVE  n \in View(B, m) /\ MatchFilters(topics'[n], event)
      BY DEF LoopOwes, B, m, MatchFilters
    <3>1. event \in owed[n] /\ topics'[n] = topics[n]
      BY <1>3 DEF l
    <3>2. n \in View(A, l) /\ MatchFilters(topics[n], event)
      BY <2>1, <3>1 DEF LoopOwes, A, l
    <3> QED
      BY <1>1, <1>2, <3>1, <3>2
  <2>5. LoopBehind'
    <3> SUFFICES ASSUME NEW n \in Nodes, event \in Sent(n)
                 PROVE  \E p \in 1..m.len : p < m.i /\ B[m.arr][p] = n
      BY <2>2 DEF LoopBehind, B, m
    <3>1. PICK p \in 1..l.len : p < l.i /\ A[l.arr][p] = n
      BY <2>1 DEF LoopBehind, A, l
    <3> QED
      BY <2>3, <3>1 DEF l, m
  <2>6. LoopServed'
    <3> SUFFICES ASSUME NEW n \in Nodes, NEW p \in 1..m.len, p < m.i, B[m.arr][p] = n,
                        event \in owed'[n]
                 PROVE  event \in Sent(n)
      BY <2>2 DEF LoopServed, B, m
    <3>1. p \in 1..l.len /\ p < l.i /\ A[l.arr][p] = n /\ event \in owed[n]
      BY <2>3 DEF l, m
    <3> QED
      BY <2>1, <3>1 DEF LoopServed, A, l
  <2> QED
    BY <2>4, <2>5, <2>6
<1>4. m.at \in {"check", "spin", "push"} => m.i <= m.len /\ m.node = B[m.arr][m.i]
  <2>1. l.i <= l.len => B[l.arr][l.i] = A[l.arr][l.i]
    BY <1>0 DEF Keeps
  <2> QED
    BY <2>1
<1> HIDE DEF l, A
<1> QED
  BY <1>2, <1>3, <1>4 DEF LoopExact, l

LEMMA LoopStep ==
    ASSUME SInv, Begun, SliceGrows, LoopExact, Step, Calm' PROVE LoopExact'
<1> DEFINE l == send["event"]
<1>0. /\ SliceMove /\ LoopMove /\ Calm
      /\ send \in [Senders -> LoopType] /\ "event" \in Senders /\ "event" \notin Nodes
      /\ l \in LoopType /\ l.arr \in Nat /\ l.len \in Nat /\ l.i \in Nat \ {0}
      /\ Shows(arrays, l) /\ l = loop /\ l.at \notin {"wait", "done"}
  BY SliceMoves, LoopMoves, CalmBefore, SubscribersAssumption
     DEF SInv, Types, LoopsType, HeadersShow, AtNodes, LoopType, loop, Senders
<1>1. ctxDone => ctxDone'
  BY DEF Step, Accepting, Shutting, Sends, Client, Closes, Writing, Cancel, SendAll,
     keepalive, OnConnect, OnConnectStore, newConnect, Close, CloseNext, CloseWait,
     CloseReturns, sendAllNext, asyncSendCheck, asyncSendSpin, asyncSend, onMessage,
     onConnectReturns, onSetPro, removeFind, removeShift, removeStore, disconnect,
     asyncSendService, asyncSendServiceFails, asyncSendServiceReturns
<1>2. /\ g.arr \in Nat \ {0} /\ g.len \in Nat /\ g'.arr \in Nat \ {0} /\ g'.len \in Nat
  <2>1. SlicesType /\ SlicesType' /\ Shows(arrays, g) /\ Shows(arrays', g')
    BY SlicesStep DEF SInv, Types, HeadersShow
  <2>2. g.arr \in Nat /\ g.len \in Nat /\ g'.arr \in Nat /\ g'.len \in Nat
    BY <2>1 DEF SlicesType, SliceHeader
  <2>3. g.arr # 0 /\ g'.arr # 0
    BY <2>1 DEF Shows
  <2> QED
    BY <2>2, <2>3
<1>3. ASSUME loop'.arr = loop.arr, loop'.len = loop.len, ~ctxDone' PROVE Earlier(loop, g)'
  <2>1. Earlier(loop, g) /\ ~ctxDone
    BY <1>1, <1>3 DEF LoopExact
  <2>2. CASE UNCHANGED g
    BY <1>3, <2>1, <2>2 DEF Earlier
  <2>3. CASE OnConnectStore
    <3>1. g' = accept.header /\ accept.at = "store"
      BY <2>3 DEF OnConnectStore
    <3>2. g'.arr >= g.arr /\ g'.len = g.len + 1
      BY <2>1, <3>1 DEF SliceGrows
    <3>3. loop.arr \in Nat /\ loop.len \in Nat
      BY <1>0
    <3>4. loop.arr <= g'.arr /\ (loop.arr = g'.arr => loop.len <= g'.len)
      BY <1>2, <2>1, <3>2, <3>3 DEF Earlier
    <3> QED
      BY <1>3, <3>4 DEF Earlier
  <2>4. UNCHANGED g \/ OnConnectStore
    BY <1>0, <1>3 DEF SliceMove, OnConnect
  <2> QED
    BY <2>2, <2>3, <2>4
<1>4. Keeps(arrays, arrays', loop)
  <2>1. (\E n \in Nodes : OnConnect(n)) => Earlier(loop, g)
    BY DEF OnConnect, LoopExact
  <2> QED
    BY <1>0, <2>1, ArraysKeep
<1>5. ASSUME UNCHANGED <<loop, event, owed, topics>>, ~asyncSend("event") PROVE LoopExact'
  <2>1. \A n \in Nodes : ~SendsTo(n)
    BY <1>5 DEF SendsTo
  <2>2. loop.at \in {"check", "spin", "push"} =>
                loop.i <= loop.len /\ loop.node = arrays[loop.arr][loop.i]
    BY DEF LoopExact
  <2> QED
    BY <1>3, <1>4, <1>5, <2>1, <2>2, LoopStays
<1>6. ASSUME NEW n \in Nodes, NEW f \in Filters, onSetPro(n, f) PROVE LoopExact'
  <2>1. /\ UNCHANGED <<loop, event, send>> /\ topics' = [topics EXCEPT ![n] = @ \cup {f}]
        /\ owed' = IF l.at = "idle" THEN owed ELSE [owed EXCEPT ![n] = @ \ {event}]
    BY <1>6 DEF onSetPro, loop
  <2>2. /\ topics \in [Nodes -> SUBSET Filters] /\ owed \in [Nodes -> SUBSET Event]
    BY DEF SInv, Types, NodesType, CountsType
  <2>3. \A k \in Nodes : owed'[k] \subseteq owed[k]
    BY <2>1, <2>2
  <2>4. loop.at # "idle" =>
            \A k \in Nodes : event \in owed'[k] => topics'[k] = topics[k]
    BY <1>0, <2>1, <2>2
  <2>5. \A k \in Nodes : ~SendsTo(k)
    <3>1. ~(asyncSend("event"))
      <4>1. asyncSend("event") => UNCHANGED topics /\ UNCHANGED sendQueue
        BY <1>6 DEF asyncSend, onSetPro, queues
      <4>2. asyncSend("event") => FALSE
        <5> SUFFICES ASSUME asyncSend("event") PROVE FALSE
          OBVIOUS
        <5> DEFINE k == loop.node
        <5>1. k \in Nodes /\ sendQueue' = [sendQueue EXCEPT ![k] = Append(@, event)]
          BY DEF asyncSend, SInv, AtNodes, loop, Senders
        <5>2. sendQueue \in [Nodes -> Seq(Message)] /\ sendQueue' = sendQueue
          BY <4>1 DEF SInv, Types, QueuesType, Message
        <5>3. sendQueue[k] \in Seq(Message) /\ sendQueue[k] = Append(sendQueue[k], event)
          BY <5>1, <5>2
        <5>4. event \in Message
          BY <1>0, SentType DEF SInv, Message
        <5>5. Len(sendQueue[k]) = Len(sendQueue[k]) + 1 /\ Len(sendQueue[k]) \in Nat
          BY <5>3, <5>4, AppendProperties, LenProperties
        <5> QED
          BY <5>5
      <4> QED
        BY <4>2
    <3> QED
      BY <3>1 DEF SendsTo
  <2>6. loop.at \in {"check", "spin", "push"} =>
                loop.i <= loop.len /\ loop.node = arrays[loop.arr][loop.i]
    BY DEF LoopExact
  <2> QED
    BY <1>3, <1>4, <2>1, <2>3, <2>4, <2>5, <2>6, LoopStays
<1>7. CASE SendAll
  <2>1. /\ loop' = Loop /\ event' = event + 1 /\ UNCHANGED <<arrays, g, sendQueue, written>>
        /\ owed' = [n \in Nodes |-> IF Connected(n) /\ MatchFilters(topics[n], event')
                                    THEN owed[n] \cup {event'} ELSE owed[n]]
        /\ UNCHANGED <<topics, ctxDone>>
    BY <1>0, <1>7 DEF SendAll, slices, queues, loop
  <2>2. loop'.arr = g.arr /\ loop'.len = g.len /\ loop'.i = 1 /\ loop'.at = "next"
    BY <2>1 DEF Loop
  <2>3. (~ctxDone => Earlier(loop, g))' /\ Distinct(arrays', loop')
        /\ View(arrays', loop') = View(arrays, g)
    <3>1. Earlier(loop, g)'
      BY <1>2, <2>1, <2>2 DEF Earlier
    <3>2. Distinct(arrays', loop')
      BY <2>1, <2>2 DEF Distinct, SliceGrows
    <3>3. View(arrays', loop') = View(arrays, g)
      BY <2>1, <2>2 DEF View
    <3> QED
      BY <3>1, <3>2, <3>3
  <2>4. \A n \in Nodes : event' \notin owed[n] /\ event' \notin Sent(n)'
    <3>1. event \in Nat /\ event' > event
      BY <2>1 DEF SInv, Types, CountsType
    <3>2. \A n \in Nodes : event' \notin owed[n]
      BY <2>1, <3>1 DEF Begun
    <3>3. \A n \in Nodes : event' \notin Sent(n)'
      <4> SUFFICES ASSUME NEW n \in Nodes, NEW i \in DOMAIN Got(n), Got(n)[i] = event'
                   PROVE  FALSE
        BY <2>1 DEF Sent, Got
      <4>1. Got(n)[i] <= event
        BY DEF SInv, NotAhead
      <4> QED
        BY <2>1, <3>1, <4>1
    <3> QED
      BY <3>2, <3>3
  <2>5. LoopOwes'
    <3> SUFFICES ASSUME NEW n \in Nodes, event' \in owed'[n]
                 PROVE  n \in View(arrays', loop') /\ MatchFilters(topics[n], event')
      BY <2>1 DEF LoopOwes, MatchFilters
    <3>1. Connected(n) /\ MatchFilters(topics[n], event')
      BY <2>1, <2>4
    <3>2. n \in View(arrays, g)
      BY <3>1 DEF Connected, SliceGrows
    <3> QED
      BY <2>3, <3>1, <3>2
  <2>6. LoopBehind'
    BY <2>4 DEF LoopBehind
  <2>7. LoopServed'
    <3>1. \A p \in 1..loop'.len : ~(p < loop'.i)
      BY <1>2, <2>2
    <3> QED
      BY <3>1 DEF LoopServed
  <2> QED
    BY <2>2, <2>3, <2>5, <2>6, <2>7 DEF LoopExact
<1>8. ASSUME UNCHANGED <<arrays, g, event, owed, topics>>, sendAllNext("event")
      PROVE  LoopExact'
  <2> DEFINE n == arrays[l.arr][l.i]
             v == [l EXCEPT !.at = "check", !.node = n]
  <2>1. \A k \in Nodes : ~SendsTo(k)
    BY <1>8 DEF sendAllNext, SendsTo, asyncSend
  <2>2. l.at = "next"
    BY <1>8 DEF sendAllNext
  <2>3. CASE l.i > l.len
    <3>1. loop' = Idle
      BY <1>0, <1>8, <2>3 DEF sendAllNext, loop
    <3>2. loop'.arr = 1 /\ loop'.len = 0 /\ loop'.at = "idle"
      BY <3>1 DEF Idle
    <3>3. Earlier(loop, g)' /\ Distinct(arrays', loop')
      BY <1>2, <3>2 DEF Earlier, Distinct
    <3> QED
      BY <3>2, <3>3 DEF LoopExact
  <2>4. CASE ~(l.i > l.len) /\ ~MatchFilters(topics[n], event)
    <3>1. loop' = Advance("event")
      BY <1>0, <1>8, <2>4 DEF sendAllNext, loop
    <3>2. loop' = [loop EXCEPT !.at = "next", !.i = loop.i + 1, !.node = Nil]
      BY <1>0, <3>1 DEF Advance, loop
    <3>3. loop.i <= loop.len
      BY <1>0, <2>4
    <3>4. \A k \in Nodes : k = arrays[loop.arr][loop.i] => event \notin owed[k]
      BY <1>0, <2>2, <2>4 DEF LoopExact, LoopOwes
    <3> QED
      BY <1>0, <1>1, <1>8, <2>1, <2>2, <3>2, <3>3, <3>4, LoopAdvances
  <2>5. CASE ~(l.i > l.len) /\ MatchFilters(topics[n], event)
    <3>1. loop' = v
      BY <1>0, <1>8, <2>5 DEF sendAllNext, loop
    <3>2. /\ loop'.arr = loop.arr /\ loop'.len = loop.len /\ loop'.i = loop.i
          /\ loop'.node = arrays[loop.arr][loop.i] /\ loop'.at = "check"
      BY <1>0, <3>1 DEF LoopType
    <3>3. loop.i <= loop.len
      BY <1>0, <2>5
    <3> QED
      BY <1>0, <1>3, <1>4, <1>8, <2>1, <2>2, <3>2, <3>3, LoopStays
  <2> QED
    BY <2>3, <2>4, <2>5
<1>9. ASSUME UNCHANGED <<arrays, g, event, owed, topics>>, NEW to \in {"spin", "push"},
             l.at \in {"check", "spin"}, send' = [send EXCEPT !["event"] = [l EXCEPT !.at = to]]
      PROVE  LoopExact'
  <2>1. loop' = [l EXCEPT !.at = to]
    BY <1>0, <1>9 DEF loop
  <2>2. /\ loop'.arr = loop.arr /\ loop'.len = loop.len /\ loop'.i = loop.i
        /\ loop'.node = loop.node /\ loop'.at = to
    BY <1>0, <2>1 DEF LoopType
  <2>3. loop.i <= loop.len /\ loop.node = arrays[loop.arr][loop.i]
    BY <1>0, <1>9 DEF LoopExact
  <2>4. \A k \in Nodes : ~SendsTo(k)
    BY <1>9 DEF SendsTo, asyncSend
  <2> QED
    BY <1>0, <1>3, <1>4, <1>9, <2>2, <2>3, <2>4, LoopStays
<1>10. ASSUME UNCHANGED <<arrays, g, event, owed, topics>>, asyncSendCheck("event")
       PROVE  LoopExact'
  <2>1. l.at = "check" /\ l.node \in Nodes
    BY <1>10 DEF asyncSendCheck, SInv, AtNodes, Senders
  <2>2. send' = [send EXCEPT !["event"] = [l EXCEPT !.at = "spin"]]
    BY <1>0, <1>10, <2>1 DEF asyncSendCheck, Calm
  <2> QED
    BY <1>9, <1>10, <2>1, <2>2
<1>11. ASSUME UNCHANGED <<arrays, g, event, owed, topics>>, asyncSendSpin("event")
       PROVE  LoopExact'
  <2>1. l.at = "spin" /\ send' = [send EXCEPT !["event"] = [l EXCEPT !.at = "push"]]
    BY <1>0, <1>11 DEF asyncSendSpin
  <2> QED
    BY <1>9, <1>11, <2>1
<1>12. ASSUME UNCHANGED <<arrays, g, event, owed, topics>>, asyncSend("event")
       PROVE  LoopExact'
  <2>1. loop' = Advance("event") /\ l.at = "push"
    BY <1>0, <1>12 DEF asyncSend, loop
  <2>2. loop' = [loop EXCEPT !.at = "next", !.i = loop.i + 1, !.node = Nil]
    BY <1>0, <2>1 DEF Advance, loop
  <2>3. loop.i <= loop.len /\ loop.node = arrays[loop.arr][loop.i]
    BY <1>0, <2>1 DEF LoopExact
  <2>4. \A n \in Nodes : SendsTo(n) => n = arrays[loop.arr][loop.i]
    BY <2>3 DEF SendsTo
  <2>5. \A n \in Nodes : n = arrays[loop.arr][loop.i] => event \in Sent(n)'
    BY <1>12, <2>3, EventSent DEF SendsTo
  <2> QED
    BY <1>0, <1>1, <1>12, <2>1, <2>2, <2>3, <2>4, <2>5, LoopAdvances
<1> QED
  BY <1>0, <1>5, <1>6, <1>7, <1>8, <1>10, <1>11, <1>12 DEF LoopMove

\* SendAll's loop is not at a node that has the event already.
LEMMA NotAgain ==
    ASSUME SInv, LoopExact, NEW n \in Nodes, SendsTo(n) PROVE event \notin Sent(n)
<1>1. loop.at = "push" /\ loop.node = n
  BY DEF SendsTo, asyncSend, loop
<1>2. /\ loop.i <= loop.len /\ n = arrays[loop.arr][loop.i]
      /\ Distinct(arrays, loop) /\ LoopBehind
  BY <1>1 DEF LoopExact
<1>3. loop.i \in Nat \ {0} /\ loop.len \in Nat
  BY DEF SInv, Types, LoopsType, LoopType, loop, Senders
<1>4. loop.i \in 1..loop.len
  BY <1>2, <1>3
<1>5. ASSUME event \in Sent(n) PROVE FALSE
  <2>1. PICK p \in 1..loop.len : p < loop.i /\ arrays[loop.arr][p] = n
    BY <1>2, <1>5 DEF LoopBehind
  <2>2. p = loop.i
    BY <1>2, <1>4, <2>1 DEF Distinct
  <2> QED
    BY <1>3, <2>1, <2>2
<1> QED
  BY <1>5

\* SendAll's loop ends when it has been at all its nodes.
LEMMA LoopEnds ==
    ASSUME SInv, LoopExact, loop.at # "idle", loop'.at = "idle",
           \/ sendAllNext("event") \/ asyncSendCheck("event") \/ asyncSendSpin("event")
           \/ asyncSend("event")
    PROVE  \A n \in Nodes : event \in owed[n] => event \in Sent(n)
<1> DEFINE l == send["event"]
<1>0. /\ send \in [Senders -> LoopType] /\ "event" \in Senders /\ "event" \notin Nodes
      /\ l \in LoopType /\ l.len \in Nat /\ l.i \in Nat
  BY SubscribersAssumption DEF SInv, Types, LoopsType, LoopType, Senders
<1>1. Advance("event").at = "next"
  BY <1>0 DEF Advance, LoopType
<1>2. ~asyncSend("event")
  BY <1>0, <1>1 DEF asyncSend, loop
<1>3. ~asyncSendSpin("event")
  <2>1. ASSUME asyncSendSpin("event") PROVE FALSE
    <3>1. loop' = [l EXCEPT !.at = "push"]
      BY <1>0, <2>1 DEF asyncSendSpin, loop
    <3> QED
      BY <1>0, <3>1 DEF LoopType
  <2> QED
    BY <2>1
<1>4. ~asyncSendCheck("event")
  <2>1. ASSUME asyncSendCheck("event") PROVE FALSE
    <3>1. loop' = Advance("event") \/ loop' = [l EXCEPT !.at = "spin"]
      BY <1>0, <2>1 DEF asyncSendCheck, loop
    <3>2. [l EXCEPT !.at = "spin"].at = "spin"
      BY <1>0 DEF LoopType
    <3> QED
      BY <1>1, <3>1, <3>2
  <2> QED
    BY <2>1
<1>5. l.i > l.len
  <2> DEFINE k == arrays[l.arr][l.i]
             v == [l EXCEPT !.at = "check", !.node = k]
  <2>1. ASSUME ~(l.i > l.len) PROVE FALSE
    <3>1. loop' = Advance("event") \/ loop' = v
      BY <1>0, <1>2, <1>3, <1>4, <2>1 DEF sendAllNext, loop
    <3>2. v.at = "check"
      BY <1>0 DEF LoopType
    <3> QED
      BY <1>1, <3>1, <3>2
  <2> QED
    BY <2>1
<1>6. LoopOwes /\ LoopServed /\ \A p \in 1..loop.len : p < loop.i
  <2>1. \A p \in 1..loop.len : p < loop.i
    BY <1>0, <1>5 DEF loop
  <2> QED
    BY <2>1 DEF LoopExact
<1> QED
  BY <1>6 DEF LoopOwes, LoopServed, View

LEMMA ExactStep ==
    ASSUME EInv, Step PROVE ExactlyOnce'
<1> SUFFICES ASSUME Calm', NEW n \in Nodes
             PROVE  Missing(n)' = {} /\ Unique(n)'
  BY DEF ExactlyOnce, Calm, Unique
<1>1. Calm /\ LoopMove
  BY CalmBefore, LoopMoves DEF EInv
<1>2. SInv /\ Begun /\ SliceGrows /\ LoopExact /\ Missing(n) = {} /\ Unique(n)
  BY <1>1 DEF EInv, ExactlyOnce, Calm, Unique
<1>3. Unique(n)'
  BY <1>2, SentMoves, NotAgain
<1>4. /\ \A e \in owed[n] : e \in InFlight \/ e \in Sent(n)
      /\ \A e \in Event : e \in Sent(n) => e \in Sent(n)'
      /\ owed \in [Nodes -> SUBSET Event] /\ owed' \in [Nodes -> SUBSET Event]
  <2>1. \A e \in owed[n] : e \in InFlight \/ e \in Sent(n)
    BY <1>2 DEF Missing, Sent
  <2>2. \A e \in Event : e \in Sent(n) => e \in Sent(n)'
    BY <1>2, SentMoves
  <2>3. owed \in [Nodes -> SUBSET Event] /\ owed' \in [Nodes -> SUBSET Event]
    BY <1>2, CountsStep DEF SInv, Types, CountsType
  <2> QED
    BY <2>1, <2>2, <2>3
<1>5. \A e \in owed'[n] : e \in InFlight' \/ e \in Sent(n)'
  <2>1. CASE UNCHANGED <<loop, event, owed, topics>>
    <3>1. InFlight' = InFlight
      BY <2>1 DEF InFlight, loop
    <3> QED
      BY <1>4, <2>1, <3>1
  <2>2. CASE SendAll
    <3>1. /\ send["event"].at = "idle" /\ send'["event"] = Loop
          /\ \A e \in owed'[n] : e \in owed[n] \/ e = event'
      BY <1>2, <2>2 DEF SendAll, SInv, Types, LoopsType, Senders
    <3>2. InFlight = {} /\ InFlight' = {event'}
      BY <3>1 DEF InFlight, Loop
    <3> QED
      BY <1>4, <3>1, <3>2
  <2>3. ASSUME NEW k \in Nodes, NEW f \in Filters, onSetPro(k, f)
        PROVE  \A e \in owed'[n] : e \in InFlight' \/ e \in Sent(n)'
    <3>1. UNCHANGED <<send, event>>
      BY <2>3 DEF onSetPro
    <3>2. owed'[n] \subseteq owed[n]
      BY <1>4, <2>3 DEF onSetPro
    <3>3. InFlight' = InFlight
      BY <3>1 DEF InFlight
    <3> QED
      BY <1>4, <3>2, <3>3
  <2>4. ASSUME UNCHANGED <<arrays, g, event, owed, topics>>,
               \/ sendAllNext("event") \/ asyncSendCheck("event")
               \/ asyncSendSpin("event") \/ asyncSend("event")
        PROVE  \A e \in owed'[n] : e \in InFlight' \/ e \in Sent(n)'
    <3>1. loop.at # "idle"
      BY <2>4 DEF sendAllNext, asyncSendCheck, asyncSendSpin, asyncSend, loop
    <3>2. InFlight = {event}
      BY <3>1 DEF InFlight, loop
    <3>3. CASE loop'.at = "idle"
      <4>1. event \in owed[n] => event \in Sent(n)
        BY <1>2, <2>4, <3>1, <3>3, LoopEnds
      <4> QED
        BY <1>4, <2>4, <3>2, <4>1
    <3>4. CASE loop'.at # "idle"
      <4>1. InFlight' = {event}
        BY <2>4, <3>4 DEF InFlight, loop
      <4> QED
        BY <1>4, <2>4, <3>2, <4>1
    <3> QED
      BY <3>3, <3>4
  <2> QED
    BY <1>1, <2>1, <2>2, <2>3, <2>4 DEF LoopMove
<1>6. Missing(n)' = {}
  BY <1>5 DEF Missing, Sent
<1> QED
  BY <1>3, <1>6

LEMMA BegunStep ==
    ASSUME SInv, Begun, Step PROVE Begun'
<1>1. shut'.at # "idle" => ctxDone'
  <2>1. \/ UNCHANGED <<shut, ctxDone>> \/ (ctxDone' /\ UNCHANGED shut)
        \/ (UNCHANGED ctxDone /\ (ctxDone \/ shut.at # "idle"))
    <3> DEFINE F == \/ UNCHANGED <<shut, ctxDone>> \/ (ctxDone' /\ UNCHANGED shut)
                    \/ (UNCHANGED ctxDone /\ (ctxDone \/ shut.at # "idle"))
    <3>1. Cancel \/ SendAll \/ keepalive \/ Accepting \/ Shutting => F
      BY DEF Cancel, SendAll, keepalive, Accepting, OnConnectStore, newConnect,
         Shutting, Close, CloseNext, CloseWait, CloseReturns
    <3>2. \A s \in Senders : Sends(s) => F
      BY DEF Sends, sendAllNext, asyncSendCheck, asyncSendSpin, asyncSend
    <3>3. \A n \in Nodes : Client(n) \/ Writing(n) => F
      BY DEF Client, OnConnect, onMessage, onConnectReturns, onSetPro, Writing,
         asyncSendService, asyncSendServiceFails, asyncSendServiceReturns
    <3>4. \A n \in Nodes : Closes(n) => F
      BY DEF Closes, removeFind, removeShift, removeStore, disconnect
    <3> HIDE DEF F
    <3>5. F
      BY <3>1, <3>2, <3>3, <3>4 DEF Step
    <3> QED
      BY <3>5 DEF F
  <2> QED
    BY <2>1 DEF Begun
<1>2. /\ event \in Nat /\ event' \in Nat /\ event <= event'
      /\ owed \in [Nodes -> SUBSET Event] /\ Event \subseteq Nat
  <2>1. event' \in Nat /\ (event' = event \/ event' = event + 1) /\ event \in Nat
    BY BudgetsStep DEF SInv, Types, CountsType
  <2> QED
    BY <2>1, SubscribersAssumption DEF SInv, Types, CountsType, Event
<1>3. \A n \in Nodes : \A e \in owed'[n] : e \in owed[n] \/ e = event'
  <2>1. CASE SendAll
    BY <2>1 DEF SendAll
  <2>2. ASSUME NEW k \in Nodes, NEW f \in Filters, onSetPro(k, f)
        PROVE  \A n \in Nodes : owed'[n] \subseteq owed[n]
    BY <1>2, <2>2 DEF onSetPro
  <2> QED
    BY <2>1, <2>2, LoopMoves DEF LoopMove
<1>4. \A n \in Nodes : \A e \in owed[n] : e \in Nat /\ e <= event
  BY <1>2 DEF Begun
<1>5. ASSUME NEW n \in Nodes, NEW e \in owed'[n] PROVE e <= event'
  <2>1. event \in Nat /\ event' \in Nat /\ event <= event'
    BY <1>2
  <2>2. CASE e = event'
    BY <2>1, <2>2
  <2>3. CASE e \in owed[n]
    <3>1. e \in Nat /\ e <= event
      BY <1>4, <2>3
    <3> QED
      BY <2>1, <3>1
  <2> QED
    BY <1>3, <2>2, <2>3
<1> QED
  BY <1>1, <1>5 DEF Begun

LEMMA FreshExact == ASSUME Fresh PROVE EInv
<1>1. SInv
  BY FreshInv
<1>2. Begun
  BY DEF Fresh, Begun, Idle
<1>3. g.len = 0 /\ g.arr = 1 /\ loop.len = 0 /\ loop.arr = 1 /\ loop.at = "idle"
  BY DEF Fresh, Empty, Idle, loop, Senders
<1>4. SliceGrows
  <2>1. \A n \in Nodes : status[n] = "none"
    BY DEF Fresh
  <2>2. accept.at = "idle"
    BY DEF Fresh
  <2>3. Distinct(arrays, g)
    BY <1>3 DEF Distinct
  <2> QED
    BY <2>1, <2>2, <2>3 DEF SliceGrows
<1>5. LoopExact
  BY <1>3 DEF LoopExact, Earlier, Distinct
<1>6. ExactlyOnce
  <2>1. \A n \in Nodes : owed[n] = {} /\ DOMAIN Got(n) = {}
    BY FreshGot DEF Fresh
  <2> QED
    BY <2>1 DEF ExactlyOnce, Missing
<1> QED
  BY <1>1, <1>2, <1>4, <1>5, <1>6 DEF EInv

LEMMA EStep ==
    ASSUME EInv, [Next]_vars PROVE EInv'
<1>0. SInv'
  BY SStep DEF EInv
<1>1. CASE Step
  <2>1. Begun' /\ ExactlyOnce'
    BY <1>1, BegunStep, ExactStep DEF EInv
  <2>2. Calm' => SliceGrows' /\ LoopExact'
    BY <1>1, CalmBefore, SliceStep, LoopStep DEF EInv
  <2> QED
    BY <1>0, <2>1, <2>2 DEF EInv
<1>2. ASSUME NEW how \in {"panic", "exit"}, Halt(how) PROVE EInv'
  <2>1. Fresh'
    BY <1>2, HaltFresh
  <2> QED
    BY <2>1, FreshExact, PTL
<1>3. CASE UNCHANGED vars
  <2> USE <1>3 DEF vars, slices, queues, closers
  <2>1. Begun' /\ (Calm' <=> Calm)
    BY DEF EInv, Begun, Calm
  <2>2. SliceGrows' <=> SliceGrows
    BY DEF SliceGrows, View, Distinct
  <2>3. LoopExact' <=> LoopExact
    <3>1. /\ (Earlier(loop, g)' <=> Earlier(loop, g))
          /\ (Distinct(arrays, loop)' <=> Distinct(arrays, loop))
      BY DEF Earlier, Distinct, loop
    <3>2. /\ (LoopOwes' <=> LoopOwes) /\ (LoopBehind' <=> LoopBehind)
          /\ (LoopServed' <=> LoopServed)
      BY DEF LoopOwes, LoopBehind, LoopServed, View, loop, Sent, Got, MatchFilters
    <3> QED
      BY <3>1, <3>2 DEF LoopExact, loop
  <2>4. ExactlyOnce'
    <3>1. \A n \in Nodes : Got(n)' = Got(n) /\ Missing(n)' = Missing(n)
      BY DEF Missing, InFlight, Got
    <3> QED
      BY <3>1 DEF EInv, ExactlyOnce
  <2> QED
    BY <1>0, <2>1, <2>2, <2>3, <2>4 DEF EInv
<1> QED
  BY <1>1, <1>2, <1>3, StepOrHalt

\* As long as no client leaves, however its connections, topics, queues and slices
\* race with SendAll, a client that is connected and subscribed when SendAll is
\* called gets the event, and no client gets an event twice.
THEOREM EventsExactlyOnce == Spec => []ExactlyOnce
<1>1. Init => EInv
  BY InitFresh, FreshExact
<1>2. EInv /\ [Next]_vars => EInv'
  BY EStep
<1>3. EInv => ExactlyOnce
  BY DEF EInv
<1> QED
  BY <1>1, <1>2, <1>3, PTL DEF Spec
=============================================================================
