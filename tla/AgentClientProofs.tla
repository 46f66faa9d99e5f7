------------------------ MODULE AgentClientProofs ------------------------
(***************************************************************************)
(* Proofs about AgentClient, for any number of requests, of callers of     *)
(* Connect and of connections.                                             *)
(***************************************************************************)
EXTENDS AgentClient, SequenceTheorems, TLAPS

WaiterType == [status : {"new", "in", "out"}, data : Seq(Requests), closed : Nat,
               caller : {"idle", "write", "wait", "error", "del", "timeout", "done"},
               via : Nat]

ConnType == [state : {"open", "broken", "closed"}, stream : Seq(Requests)]

ConnectType == [at : {"idle", "dial", "bit", "conn"}, conn : Nat]

ReaderType == [at : {"top", "read", "down", "next", "send"}, what : Nat]

\* Every variable has its type.
LinkTypes ==
    /\ status \in BOOLEAN /\ overlap \in BOOLEAN
    /\ conns \in Seq(ConnType) /\ conn \in Nat
    /\ disconnect \in [Disconnecters -> {"idle", "clear", "xor"}]
    /\ connect \in [Connectors -> ConnectType]

TrafficTypes ==
    /\ buffer \in Seq(Requests) /\ read \subseteq Requests /\ lost \in BOOLEAN
    /\ reader \in ReaderType

TypeOK ==
    /\ waiter \in [Requests -> WaiterType]
    /\ LinkTypes /\ TrafficTypes
    /\ panicked \in BOOLEAN /\ budget \in [Bounded -> Nat]

\* What points at a connection points at one that was dialled, and the reader has
\* an answer to a request there is.
PointersOK ==
    /\ conn <= Len(conns)
    /\ \A r \in Requests : waiter[r].via <= Len(conns)
    /\ \A k \in Connectors : connect[k].conn <= Len(conns)
    /\ reader.at = "read" => reader.what \in 1..Len(conns)
    /\ reader.at = "send" => reader.what \in Requests

\* A waiter's channel is closed exactly when it has left the map, and it is in the
\* map, or was, once Send has begun.
WaiterOK(w) ==
    /\ w.closed = IF w.status = "out" THEN 1 ELSE 0
    /\ w.caller = "idle" <=> w.status = "new"
    /\ w.status = "new" => w.via = Nobody

WaitersOK == \A r \in Requests : WaiterOK(waiter[r])

\* Answers, on their way or read, are to requests that were written.
AnswersOK ==
    /\ \A c \in 1..Len(conns) : \A i \in 1..Len(conns[c].stream) :
            waiter[conns[c].stream[i]].status # "new"
    /\ \A r \in read : waiter[r].status # "new"

\* As long as no Connect overlapped: one that is under way is alone, and no
\* connection is open but the one it dialled; otherwise only the client's own
\* is, and that is not while a Disconnect is under way.
LinkOK ==
    ~overlap =>
        /\ \A k \in Connectors : connect[k].at # "idle" =>
            /\ \A j \in Connectors \ {k} : connect[j].at = "idle"
            /\ \A d \in Disconnecters : disconnect[d] = "idle"
            /\ \A c \in 1..Len(conns) : conns[c].state = "open" => c = connect[k].conn
            /\ connect[k].at = "dial" => connect[k].conn = Nobody
            /\ connect[k].at = "conn" => status
        /\ (\A k \in Connectors : connect[k].at = "idle") =>
            \A c \in 1..Len(conns) : conns[c].state = "open" => status /\ conn = c
        /\ (\E d \in Disconnecters : disconnect[d] # "idle") =>
            conn # Nobody /\ conns[conn].state # "open"

\* The inductive invariant.
AInv == TypeOK /\ PointersOK /\ WaitersOK /\ AnswersOK /\ AnswersArrive /\ LinkOK

-----------------------------------------------------------------------------
LEMMA AInit == Init => AInv
<1> SUFFICES ASSUME Init PROVE AInv
  OBVIOUS
<1> USE AgentClientAssumption DEF Init, Nobody
<1>0. <<>> \in Seq(Requests) /\ <<>> \in Seq(ConnType)
  BY EmptySeq
<1>1. waiter \in [Requests -> WaiterType]
  BY <1>0 DEF WaiterType
<1>2. LinkTypes /\ TrafficTypes
  BY <1>0 DEF LinkTypes, TrafficTypes, ConnectType, ReaderType
<1>3. TypeOK
  BY <1>1, <1>2 DEF TypeOK
<1>4. PointersOK
  BY DEF PointersOK
<1>5. WaitersOK /\ AnswersOK /\ AnswersArrive /\ LinkOK
  BY DEF WaitersOK, WaiterOK, AnswersOK, AnswersArrive, LinkOK
<1> QED
  BY <1>3, <1>4, <1>5 DEF AInv

-----------------------------------------------------------------------------
(* What the steps do to a waiter and to a connection. *)

\* The step changes the waiter of r alone, to one with these fields.
Becomes(r, st, da, cl, ca, vi) ==
    /\ waiter' \in [Requests -> WaiterType]
    /\ \A q \in Requests : q # r => waiter'[q] = waiter[q]
    /\ waiter'[r].status = st /\ waiter'[r].data = da /\ waiter'[r].closed = cl
    /\ waiter'[r].caller = ca /\ waiter'[r].via = vi

LEMMA WaiterSet ==
    ASSUME waiter \in [Requests -> WaiterType],
           NEW r \in Requests, NEW w \in WaiterType,
           waiter' = [waiter EXCEPT ![r] = w]
    PROVE  Becomes(r, w.status, w.data, w.closed, w.caller, w.via)
BY DEF Becomes

LEMMA WaiterFields ==
    ASSUME NEW w \in WaiterType
    PROVE  /\ w.status \in {"new", "in", "out"} /\ w.data \in Seq(Requests)
           /\ w.closed \in Nat /\ w.via \in Nat
           /\ w.caller \in {"idle", "write", "wait", "error", "del", "timeout", "done"}
BY DEF WaiterType

LEMMA SendEffect ==
    ASSUME TypeOK, NEW r \in Requests, Send(r)
    PROVE  Becomes(r, "in", waiter[r].data, waiter[r].closed, "write", waiter[r].via)
<1> DEFINE w == [waiter[r] EXCEPT !.caller = "write", !.status = "in"]
<1>1. waiter \in [Requests -> WaiterType] /\ waiter[r] \in WaiterType
  BY DEF TypeOK
<1>2. w \in WaiterType
  BY <1>1 DEF WaiterType
<1>3. waiter' = [waiter EXCEPT ![r] = w]
  BY <1>1 DEF Send, WaiterType
<1>4. Becomes(r, w.status, w.data, w.closed, w.caller, w.via)
  BY <1>1, <1>2, <1>3, WaiterSet
<1> QED
  BY <1>1, <1>4 DEF WaiterType

LEMMA WaitTimeoutEffect ==
    ASSUME TypeOK, NEW r \in Requests, WaitTimeout(r)
    PROVE  Becomes(r, waiter[r].status, waiter[r].data, waiter[r].closed,
                   "timeout", waiter[r].via)
<1> DEFINE w == [waiter[r] EXCEPT !.caller = "timeout"]
<1>1. waiter \in [Requests -> WaiterType] /\ waiter[r] \in WaiterType
  BY DEF TypeOK
<1>2. w \in WaiterType
  BY <1>1 DEF WaiterType
<1>3. waiter' = [waiter EXCEPT ![r] = w]
  BY <1>1 DEF WaitTimeout, WaiterType
<1>4. Becomes(r, w.status, w.data, w.closed, w.caller, w.via)
  BY <1>1, <1>2, <1>3, WaiterSet
<1> QED
  BY <1>1, <1>4 DEF WaiterType

LEMMA SendWriteEffect ==
    ASSUME TypeOK, NEW r \in Requests, SendWrite(r)
    PROVE  \/ Becomes(r, waiter[r].status, waiter[r].data, waiter[r].closed, "wait", conn)
           \/ Becomes(r, waiter[r].status, waiter[r].data, waiter[r].closed,
                      "error", waiter[r].via)
<1> DEFINE w == [waiter[r] EXCEPT !.caller = "wait", !.via = conn]
           e == [waiter[r] EXCEPT !.caller = "error"]
<1>1. waiter \in [Requests -> WaiterType] /\ waiter[r] \in WaiterType /\ conn \in Nat
  BY DEF TypeOK, LinkTypes
<1>2. w \in WaiterType /\ e \in WaiterType
  BY <1>1 DEF WaiterType
<1>3. waiter' = [waiter EXCEPT ![r] = w] \/ waiter' = [waiter EXCEPT ![r] = e]
  BY DEF SendWrite, Write
<1>4. \/ Becomes(r, w.status, w.data, w.closed, w.caller, w.via)
      \/ Becomes(r, e.status, e.data, e.closed, e.caller, e.via)
  BY <1>1, <1>2, <1>3, WaiterSet
<1> QED
  BY <1>1, <1>4 DEF WaiterType

LEMMA WaitEffect ==
    ASSUME TypeOK, NEW r \in Requests, Wait(r)
    PROVE  \/ /\ waiter[r].data # <<>>
              /\ Becomes(r, waiter[r].status, <<>>, waiter[r].closed, "del", waiter[r].via)
           \/ /\ waiter[r].data = <<>> /\ waiter[r].closed > 0
              /\ Becomes(r, waiter[r].status, waiter[r].data, waiter[r].closed,
                         "done", waiter[r].via)
<1> DEFINE w == [waiter[r] EXCEPT !.caller = "del", !.data = <<>>]
           e == [waiter[r] EXCEPT !.caller = "done"]
<1>1. waiter \in [Requests -> WaiterType] /\ waiter[r] \in WaiterType
  BY DEF TypeOK
<1>2. w \in WaiterType /\ e \in WaiterType
  BY <1>1, EmptySeq DEF WaiterType
<1>3. \/ waiter[r].data # <<>> /\ waiter' = [waiter EXCEPT ![r] = w]
      \/ /\ waiter[r].data = <<>> /\ waiter[r].closed > 0
         /\ waiter' = [waiter EXCEPT ![r] = e]
  BY <1>1 DEF Wait, WaiterType
<1>4. \/ waiter[r].data # <<>> /\ Becomes(r, w.status, w.data, w.closed, w.caller, w.via)
      \/ /\ waiter[r].data = <<>> /\ waiter[r].closed > 0
         /\ Becomes(r, e.status, e.data, e.closed, e.caller, e.via)
  BY <1>1, <1>2, <1>3, WaiterSet
<1> QED
  BY <1>1, <1>4 DEF WaiterType

\* keep closes a waiter that is in the map, and takes it out.
LEMMA keepEffect ==
    ASSUME TypeOK, NEW r \in Requests, keep(r)
    PROVE  /\ waiter[r].status = "in"
           /\ Becomes(r, "out", waiter[r].data, waiter[r].closed + 1,
                      waiter[r].caller, waiter[r].via)
<1> DEFINE n == waiter[r].closed + 1
           w == [waiter[r] EXCEPT !.status = "out", !.closed = n]
<1>1. waiter \in [Requests -> WaiterType] /\ waiter[r] \in WaiterType
  BY DEF TypeOK
<1>2. n \in Nat /\ waiter' = [waiter EXCEPT ![r] = w] /\ waiter[r].status = "in"
  BY <1>1, WaiterFields DEF keep, Closed
<1> HIDE DEF n
<1>3. w \in WaiterType
  BY <1>1, <1>2 DEF WaiterType
<1>4. Becomes(r, w.status, w.data, w.closed, w.caller, w.via)
  BY <1>1, <1>2, <1>3, WaiterSet
<1>5. Becomes(r, "out", waiter[r].data, n, waiter[r].caller, waiter[r].via)
  BY <1>1, <1>4 DEF WaiterType
<1> QED
  BY <1>2, <1>5 DEF n

\* So does delWaiter, unless keep did already.
LEMMA delWaiterEffect ==
    ASSUME TypeOK, NEW r \in Requests, delWaiter(r)
    PROVE  \/ /\ waiter[r].status = "in"
              /\ Becomes(r, "out", waiter[r].data, waiter[r].closed + 1,
                         "done", waiter[r].via)
           \/ /\ waiter[r].status # "in"
              /\ Becomes(r, waiter[r].status, waiter[r].data, waiter[r].closed,
                         "done", waiter[r].via)
<1> DEFINE n == waiter[r].closed + 1
           w == [[waiter[r] EXCEPT !.status = "out", !.closed = n] EXCEPT !.caller = "done"]
           e == [waiter[r] EXCEPT !.caller = "done"]
<1>1. waiter \in [Requests -> WaiterType] /\ waiter[r] \in WaiterType
  BY DEF TypeOK
<1>2. /\ n \in Nat
      /\ \/ waiter[r].status = "in" /\ waiter' = [waiter EXCEPT ![r] = w]
         \/ waiter[r].status # "in" /\ waiter' = [waiter EXCEPT ![r] = e]
  <2>1. n \in Nat
    BY <1>1, WaiterFields
  <2>2. CASE waiter[r].status = "in"
    BY <2>1, <2>2 DEF delWaiter, Closed
  <2>3. CASE waiter[r].status # "in"
    BY <2>1, <2>3 DEF delWaiter
  <2> QED
    BY <2>2, <2>3
<1> HIDE DEF n
<1>3. w \in WaiterType /\ e \in WaiterType
  BY <1>1, <1>2 DEF WaiterType
<1>4. \/ waiter[r].status = "in" /\ Becomes(r, w.status, w.data, w.closed, w.caller, w.via)
      \/ waiter[r].status # "in" /\ Becomes(r, e.status, e.data, e.closed, e.caller, e.via)
  BY <1>1, <1>2, <1>3, WaiterSet
<1>5. \/ /\ waiter[r].status = "in"
         /\ Becomes(r, "out", waiter[r].data, n, "done", waiter[r].via)
      \/ /\ waiter[r].status # "in"
         /\ Becomes(r, waiter[r].status, waiter[r].data, waiter[r].closed,
                    "done", waiter[r].via)
  BY <1>1, <1>4 DEF WaiterType
<1> QED
  BY <1>5 DEF n

\* onMessage hands the answer over, or drops the buffer if the channel is closed.
LEMMA onMessageSendEffect ==
    ASSUME TypeOK, PointersOK, onMessageSend
    PROVE  /\ reader.at = "send" /\ reader.what \in Requests
           /\ \/ /\ Becomes(reader.what, waiter[reader.what].status, <<reader.what>>,
                            waiter[reader.what].closed, waiter[reader.what].caller,
                            waiter[reader.what].via)
                 /\ UNCHANGED <<buffer, lost>>
                 /\ reader' = [at |-> "next", what |-> Nobody]
              \/ /\ waiter[reader.what].closed > 0
                 /\ buffer' = <<>> /\ lost' = (lost \/ buffer # <<>>)
                 /\ reader' = [at |-> "top", what |-> Nobody]
                 /\ UNCHANGED waiter
<1> DEFINE r == reader.what
           w == [waiter[r] EXCEPT !.data = <<r>>]
<1>1. reader.at = "send" /\ r \in Requests
  BY DEF onMessageSend, PointersOK
<1>2. waiter \in [Requests -> WaiterType] /\ waiter[r] \in WaiterType
  BY <1>1 DEF TypeOK
<1>3. \/ /\ waiter' = [waiter EXCEPT ![r] = w]
         /\ UNCHANGED <<buffer, lost>>
         /\ reader' = [at |-> "next", what |-> Nobody]
      \/ /\ waiter[r].closed > 0
         /\ buffer' = <<>> /\ lost' = (lost \/ buffer # <<>>)
         /\ reader' = [at |-> "top", what |-> Nobody]
         /\ UNCHANGED waiter
  BY <1>1, <1>2 DEF onMessageSend, WaiterType
<1> HIDE DEF r
<1>4. <<r>> \in Seq(Requests)
  BY <1>1
<1>5. w \in WaiterType
  BY <1>2, <1>4 DEF WaiterType
<1>6. ASSUME waiter' = [waiter EXCEPT ![r] = w]
      PROVE  Becomes(r, waiter[r].status, <<r>>, waiter[r].closed,
                     waiter[r].caller, waiter[r].via)
  <2>1. Becomes(r, w.status, w.data, w.closed, w.caller, w.via)
    BY <1>1, <1>2, <1>5, <1>6, WaiterSet
  <2> QED
    BY <1>2, <2>1 DEF WaiterType
<1> QED
  BY <1>1, <1>3, <1>6 DEF r

LEMMA ConnSet ==
    ASSUME conns \in Seq(ConnType), NEW c \in 1..Len(conns), NEW x \in ConnType,
           conns' = [conns EXCEPT ![c] = x]
    PROVE  /\ conns' \in Seq(ConnType) /\ Len(conns') = Len(conns)
           /\ conns'[c] = x
           /\ \A b \in 1..Len(conns) : b # c => conns'[b] = conns[b]
BY ExceptSeq

\* Disconnect closes the client's connection and ends in its next step.
LEMMA DisconnectEffect ==
    ASSUME TypeOK, PointersOK, NEW d \in Disconnecters, Disconnect(d)
    PROVE  /\ conn \in 1..Len(conns)
           /\ conns' = [conns EXCEPT ![conn] = Dead("closed")]
           /\ conns' \in Seq(ConnType) /\ Len(conns') = Len(conns)
           /\ disconnect' \in [Disconnecters -> {"idle", "clear", "xor"}]
           /\ overlap' \in BOOLEAN
<1>1. conn \in 1..Len(conns) /\ conns \in Seq(ConnType)
  BY DEF TypeOK, LinkTypes, PointersOK, Disconnect, Nobody
<1>2. Dead("closed") \in ConnType
  BY DEF Dead, ConnType
<1>3. conns' = [conns EXCEPT ![conn] = Dead("closed")]
  BY DEF Disconnect
<1>4. conns' \in Seq(ConnType) /\ Len(conns') = Len(conns)
  BY <1>1, <1>2, <1>3, ConnSet
<1>5. disconnect' \in [Disconnecters -> {"idle", "clear", "xor"}] /\ overlap' \in BOOLEAN
  BY DEF Disconnect, DisconnectStep, TypeOK, LinkTypes
<1> QED
  BY <1>1, <1>3, <1>4, <1>5

LEMMA ConnectDialEffect ==
    ASSUME TypeOK, NEW k \in Connectors, ConnectDial(k)
    PROVE  /\ \/ /\ conns' = Append(conns, Open) /\ Len(conns') = Len(conns) + 1
                 /\ ConnectStep(k, "bit", Len(conns) + 1)
              \/ ConnectStep(k, "idle", Nobody) /\ UNCHANGED conns
           /\ conns' \in Seq(ConnType)
           /\ connect' \in [Connectors -> ConnectType] /\ overlap' \in BOOLEAN
           /\ budget' \in [Bounded -> Nat]
<1>1. /\ conns \in Seq(ConnType) /\ budget \in [Bounded -> Nat]
      /\ connect \in [Connectors -> ConnectType] /\ overlap \in BOOLEAN
  BY DEF TypeOK, LinkTypes
<1>2. Open \in ConnType
  BY DEF Open, ConnType
<1>3. CASE Spend("dial") /\ conns' = Append(conns, Open)
           /\ ConnectStep(k, "bit", Len(conns) + 1)
  <2>1. conns' \in Seq(ConnType) /\ Len(conns') = Len(conns) + 1
    BY <1>1, <1>2, <1>3
  <2>2. connect' \in [Connectors -> ConnectType] /\ overlap' \in BOOLEAN
    BY <1>1, <1>3 DEF ConnectStep, ConnectType, Overlaps
  <2>3. budget' \in [Bounded -> Nat]
    BY <1>1, <1>3 DEF Spend, Bounded
  <2> QED
    BY <1>3, <2>1, <2>2, <2>3
<1>4. CASE ConnectStep(k, "idle", Nobody) /\ UNCHANGED <<conns, budget>>
  BY <1>1, <1>4 DEF ConnectStep, ConnectType, Overlaps, Nobody
<1> QED
  BY <1>3, <1>4 DEF ConnectDial

LEMMA BreakEffect ==
    ASSUME TypeOK, NEW c \in DOMAIN conns, Break(c)
    PROVE  /\ c \in 1..Len(conns)
           /\ conns' = [conns EXCEPT ![c] = Dead("broken")]
           /\ conns' \in Seq(ConnType) /\ Len(conns') = Len(conns)
<1>1. c \in 1..Len(conns) /\ conns \in Seq(ConnType)
  BY DEF TypeOK, LinkTypes
<1>2. Dead("broken") \in ConnType
  BY DEF Dead, ConnType
<1>3. conns' = [conns EXCEPT ![c] = Dead("broken")]
  BY DEF Break
<1> QED
  BY <1>1, <1>2, <1>3, ConnSet

LEMMA AnswerEffect ==
    ASSUME TypeOK, PointersOK, NEW r \in Requests, Answer(r)
    PROVE  LET c == waiter[r].via
               s == conns[c].stream
           IN  /\ c \in 1..Len(conns) /\ s \in Seq(Requests)
               /\ conns' = [conns EXCEPT ![c] =
                                [conns[c] EXCEPT !.stream = Append(s, r)]]
               /\ conns' \in Seq(ConnType) /\ Len(conns') = Len(conns)
<1> DEFINE c == waiter[r].via
           s == conns[c].stream
           x == [conns[c] EXCEPT !.stream = Append(s, r)]
<1>1. c \in 1..Len(conns) /\ conns \in Seq(ConnType)
  BY DEF TypeOK, LinkTypes, WaiterType, PointersOK, Answer, Nobody
<1>2. conns[c] \in ConnType
  BY <1>1
<1>3. s \in Seq(Requests) /\ x \in ConnType
  <2>1. s \in Seq(Requests)
    BY <1>2 DEF ConnType
  <2>2. Append(s, r) \in Seq(Requests)
    BY <2>1
  <2> QED
    BY <1>2, <2>1, <2>2 DEF ConnType
<1>4. conns' = [conns EXCEPT ![c] = x]
  BY DEF Answer
<1> HIDE DEF c, x
<1>5. conns' \in Seq(ConnType) /\ Len(conns') = Len(conns)
  BY <1>1, <1>3, <1>4, ConnSet
<1> QED
  BY <1>1, <1>3, <1>4, <1>5 DEF c, x

\* Read moves a first part of the stream to the buffer.
LEMMA ReadEffect ==
    ASSUME TypeOK, PointersOK, Read
    PROVE  LET c == reader.what
               s == conns[c].stream
           IN  /\ c \in 1..Len(conns) /\ s \in Seq(Requests)
               /\ conns' \in Seq(ConnType) /\ Len(conns') = Len(conns)
               /\ buffer' \in Seq(Requests)
               /\ \E i \in 1..Len(s) :
                    /\ conns' = [conns EXCEPT ![c] =
                        [conns[c] EXCEPT !.stream = SubSeq(s, i + 1, Len(s))]]
                    /\ buffer' = buffer \o SubSeq(s, 1, i)
                    /\ read' = read \cup {s[j] : j \in 1..i}
<1> DEFINE c == reader.what
           s == conns[c].stream
           x(i) == [conns[c] EXCEPT !.stream = SubSeq(s, i + 1, Len(s))]
<1>1. c \in 1..Len(conns) /\ conns \in Seq(ConnType) /\ buffer \in Seq(Requests)
  BY DEF TypeOK, LinkTypes, TrafficTypes, PointersOK, Read
<1>2. conns[c] \in ConnType
  BY <1>1
<1>3. s \in Seq(Requests)
  BY <1>2 DEF ConnType
<1>4. PICK i \in 1..Len(s) :
        /\ buffer' = buffer \o SubSeq(s, 1, i)
        /\ conns' = [conns EXCEPT ![c].stream = SubSeq(@, i + 1, Len(@))]
        /\ read' = read \cup {s[j] : j \in 1..i}
  <2>1. DOMAIN s = 1..Len(s)
    BY <1>3
  <2> QED
    BY <2>1 DEF Read
<1>5. conns' = [conns EXCEPT ![c] = x(i)]
  BY <1>4
<1>6. SubSeq(s, i + 1, Len(s)) \in Seq(Requests) /\ SubSeq(s, 1, i) \in Seq(Requests)
  <2> HIDE DEF s
  <2>1. 1 \in 1..(Len(s) + 1) /\ i + 1 \in 1..(Len(s) + 1) /\ Len(s) \in 0..Len(s)
    BY <1>3, <1>4
  <2> QED
    BY <1>3, <1>4, <2>1, SubSeqProperties
<1>7. x(i) \in ConnType
  BY <1>2, <1>6 DEF ConnType
<1>8. buffer' \in Seq(Requests)
  BY <1>1, <1>4, <1>6, ConcatProperties
<1> HIDE DEF c, x
<1>9. conns' \in Seq(ConnType) /\ Len(conns') = Len(conns)
  BY <1>1, <1>5, <1>7, ConnSet
<1> QED
  BY <1>1, <1>3, <1>4, <1>5, <1>8, <1>9 DEF c, x

-----------------------------------------------------------------------------
(* Every step keeps every part of the invariant. *)

LEMMA SpendType ==
    ASSUME TypeOK, NEW x \in Bounded, Spend(x) PROVE budget' \in [Bounded -> Nat]
<1> DEFINE n == budget[x] - 1
<1>1. n \in Nat /\ budget \in [Bounded -> Nat]
  BY DEF TypeOK, Spend
<1>2. budget' = [budget EXCEPT ![x] = n]
  BY DEF Spend
<1> HIDE DEF n
<1> QED
  BY <1>1, <1>2

LEMMA TypeStep ==
    ASSUME TypeOK, PointersOK, Next
    PROVE  TypeOK'
<1> USE DEF link, traffic, Nobody
<1>1. CASE readMessage
  BY <1>1 DEF readMessage, ReaderType, TypeOK, LinkTypes, TrafficTypes
<1>2. CASE Read
  <2>1. /\ conns' \in Seq(ConnType) /\ buffer' \in Seq(Requests)
        /\ read' \subseteq Requests
    <3> DEFINE str == conns[reader.what].stream
    <3>1. /\ str \in Seq(Requests) /\ conns' \in Seq(ConnType)
          /\ buffer' \in Seq(Requests)
      BY <1>2, ReadEffect
    <3>2. PICK i \in 1..Len(str) : read' = read \cup {str[j] : j \in 1..i}
      BY <1>2, ReadEffect
    <3>3. \A j \in 1..i : str[j] \in Requests
      BY <3>1, <3>2
    <3>4. read \subseteq Requests
      BY DEF TypeOK, TrafficTypes
    <3> HIDE DEF str
    <3> QED
      BY <3>1, <3>2, <3>3, <3>4
  <2>2. reader' \in ReaderType
    BY <1>2 DEF Read, ReaderType
  <2> QED
    BY <1>2, <2>1, <2>2 DEF Read, TypeOK, LinkTypes, TrafficTypes
<1>3. CASE ReadFails
  <2>1. "reader" \in Disconnecters
    BY DEF Disconnecters
  <2>2. /\ conns' \in Seq(ConnType) /\ overlap' \in BOOLEAN
        /\ disconnect' \in [Disconnecters -> {"idle", "clear", "xor"}]
    BY <1>3, <2>1, DisconnectEffect DEF ReadFails, TypeOK, LinkTypes
  <2>3. reader' \in ReaderType
    BY <1>3 DEF ReadFails, ReaderType
  <2> QED
    BY <1>3, <2>2, <2>3 DEF ReadFails, TypeOK, LinkTypes, TrafficTypes
<1>4. CASE ReadAgain
  BY <1>4 DEF ReadAgain, ReaderType, TypeOK, LinkTypes, TrafficTypes
<1>5. CASE onMessage
  <2>1. waiter \in [Requests -> WaiterType] /\ LinkTypes /\ UNCHANGED <<waiter, link>>
    BY <1>5 DEF onMessage, TypeOK
  <2>2. CASE buffer = <<>>
    BY <1>5, <2>2 DEF onMessage, ReaderType, TypeOK, LinkTypes, TrafficTypes
  <2>3. CASE buffer # <<>>
    <3>1. buffer \in Seq(Requests) /\ reader \in ReaderType
      BY DEF TypeOK, TrafficTypes
    <3>2. Head(buffer) \in Requests /\ Tail(buffer) \in Seq(Requests)
      BY <2>3, <3>1, HeadTailProperties
    <3>3. Head(buffer) \in Nat
      BY <3>2 DEF Requests
    <3>4. [at |-> "send", what |-> Head(buffer)] \in ReaderType
      BY <3>3 DEF ReaderType
    <3>5. buffer' \in Seq(Requests) /\ reader' \in ReaderType
      BY <1>5, <2>3, <3>1, <3>2, <3>4 DEF onMessage
    <3> QED
      BY <1>5, <2>1, <3>5 DEF onMessage, TypeOK, LinkTypes, TrafficTypes
  <2> QED
    BY <2>2, <2>3
<1>6. CASE onMessageSend
  <2>1. waiter' \in [Requests -> WaiterType]
    BY <1>6, onMessageSendEffect DEF Becomes, TypeOK
  <2>2. buffer' \in Seq(Requests) /\ reader' \in ReaderType
    <3>1. buffer \in Seq(Requests)
      BY DEF TypeOK, TrafficTypes
    <3>2. buffer' = buffer \/ buffer' = <<>>
      BY <1>6, onMessageSendEffect
    <3>3. reader' \in ReaderType
      BY <1>6, onMessageSendEffect DEF ReaderType
    <3> QED
      BY <3>1, <3>2, <3>3, EmptySeq
  <2>3. lost' \in BOOLEAN
    BY <1>6, onMessageSendEffect DEF TypeOK, TrafficTypes
  <2> QED
    BY <1>6, <2>1, <2>2, <2>3 DEF onMessageSend, TypeOK, LinkTypes, TrafficTypes
<1>7. CASE UseNil
  BY <1>7 DEF UseNil, ReaderType, TypeOK, LinkTypes, TrafficTypes
<1>8. CASE CallDisconnect
  <2>1. "caller" \in Disconnecters /\ "disconnect" \in Bounded
    BY DEF Disconnecters, Bounded
  <2>2. /\ conns' \in Seq(ConnType) /\ overlap' \in BOOLEAN
        /\ disconnect' \in [Disconnecters -> {"idle", "clear", "xor"}]
    BY <1>8, <2>1, DisconnectEffect DEF CallDisconnect
  <2>3. budget' \in [Bounded -> Nat]
    BY <1>8, <2>1, SpendType DEF CallDisconnect
  <2> QED
    BY <1>8, <2>2, <2>3 DEF CallDisconnect, TypeOK, LinkTypes, TrafficTypes
<1>9. ASSUME NEW k \in Connectors, Connect(k) PROVE TypeOK'
  BY <1>9 DEF Connect, ConnectStep, Overlaps, ConnectType, TypeOK, LinkTypes, TrafficTypes
<1>10. ASSUME NEW k \in Connectors, ConnectDial(k) PROVE TypeOK'
  BY <1>10, ConnectDialEffect DEF ConnectDial, TypeOK, LinkTypes, TrafficTypes
<1>11. ASSUME NEW k \in Connectors, ConnectBit(k) PROVE TypeOK'
  BY <1>11
     DEF ConnectBit, ConnectStep, Overlaps, ConnectType, TypeOK, LinkTypes, TrafficTypes
<1>12. ASSUME NEW k \in Connectors, ConnectConn(k) PROVE TypeOK'
  BY <1>12
     DEF ConnectConn, ConnectStep, Overlaps, ConnectType, TypeOK, LinkTypes, TrafficTypes
<1>13. ASSUME NEW d \in Disconnecters, DisconnectClear(d) PROVE TypeOK'
  BY <1>13 DEF DisconnectClear, DisconnectStep, TypeOK, LinkTypes, TrafficTypes
<1>14. ASSUME NEW d \in Disconnecters, DisconnectXor(d) PROVE TypeOK'
  BY <1>14 DEF DisconnectXor, DisconnectStep, TypeOK, LinkTypes, TrafficTypes
<1>15. ASSUME NEW c \in DOMAIN conns, Break(c) PROVE TypeOK'
  BY <1>15, BreakEffect, SpendType DEF Break, TypeOK, LinkTypes, TrafficTypes, Bounded
<1>16. ASSUME NEW r \in Requests, Send(r) PROVE TypeOK'
  BY <1>16, SendEffect, SpendType
     DEF Send, Becomes, TypeOK, LinkTypes, TrafficTypes, Bounded
<1>17. ASSUME NEW r \in Requests, SendWrite(r) PROVE TypeOK'
  BY <1>17, SendWriteEffect DEF SendWrite, Becomes, TypeOK, LinkTypes, TrafficTypes
<1>18. ASSUME NEW r \in Requests, Wait(r) PROVE TypeOK'
  BY <1>18, WaitEffect DEF Wait, Becomes, TypeOK, LinkTypes, TrafficTypes
<1>19. ASSUME NEW r \in Requests, delWaiter(r) PROVE TypeOK'
  BY <1>19, delWaiterEffect DEF delWaiter, Becomes, TypeOK, LinkTypes, TrafficTypes
<1>20. ASSUME NEW r \in Requests, WaitTimeout(r) PROVE TypeOK'
  BY <1>20, WaitTimeoutEffect DEF WaitTimeout, Becomes, TypeOK, LinkTypes, TrafficTypes
<1>21. ASSUME NEW r \in Requests, Answer(r) PROVE TypeOK'
  BY <1>21, AnswerEffect, SpendType DEF Answer, TypeOK, LinkTypes, TrafficTypes, Bounded
<1>22. ASSUME NEW r \in Requests, keep(r) PROVE TypeOK'
  BY <1>22, keepEffect DEF keep, Becomes, TypeOK, LinkTypes, TrafficTypes
<1> QED
  BY <1>1, <1>2, <1>3, <1>4, <1>5, <1>6, <1>7, <1>8, <1>9, <1>10, <1>11, <1>12, <1>13,
         <1>14, <1>15, <1>16, <1>17, <1>18, <1>19, <1>20, <1>21, <1>22
     DEF Next, Reading, Connecting, Disconnecting, Waiting

LEMMA PointersStep ==
    ASSUME TypeOK, PointersOK, Next
    PROVE  PointersOK'
<1> USE DEF link, traffic, Nobody
<1>1. CASE readMessage
  BY <1>1 DEF readMessage, PointersOK, TypeOK, LinkTypes, TrafficTypes
<1>2. CASE Read
  BY <1>2, ReadEffect DEF Read, PointersOK
<1>3. CASE ReadFails
  BY <1>3, DisconnectEffect DEF ReadFails, PointersOK, Disconnecters
<1>4. CASE ReadAgain
  BY <1>4 DEF ReadAgain, PointersOK
<1>5. CASE onMessage
  <2>1. buffer # <<>> => Head(buffer) \in Requests
    BY DEF TypeOK, TrafficTypes
  <2> QED
    BY <1>5, <2>1 DEF onMessage, PointersOK
<1>6. CASE onMessageSend
  <2>1. \A q \in Requests : waiter'[q].via <= Len(conns)
    BY <1>6, onMessageSendEffect DEF PointersOK, Becomes
  <2> QED
    BY <1>6, <2>1, onMessageSendEffect DEF onMessageSend, PointersOK
<1>7. CASE UseNil
  BY <1>7 DEF UseNil, PointersOK
<1>8. CASE CallDisconnect
  BY <1>8, DisconnectEffect DEF CallDisconnect, PointersOK, Disconnecters
<1>9. ASSUME NEW k \in Connectors, Connect(k) PROVE PointersOK'
  BY <1>9
     DEF Connect, ConnectStep, ConnectType, PointersOK, TypeOK, LinkTypes, TrafficTypes
<1>10. ASSUME NEW k \in Connectors, ConnectDial(k) PROVE PointersOK'
  <2>1. /\ conns' \in Seq(ConnType) /\ Len(conns') >= Len(conns)
        /\ \A j \in Connectors : connect'[j].conn <= Len(conns')
    <3>1. /\ conns \in Seq(ConnType) /\ Len(conns) \in Nat
          /\ connect \in [Connectors -> ConnectType]
          /\ \A j \in Connectors : connect[j].conn \in Nat
      BY DEF TypeOK, LinkTypes, ConnectType
    <3>2. CASE /\ conns' = Append(conns, Open) /\ Len(conns') = Len(conns) + 1
               /\ ConnectStep(k, "bit", Len(conns) + 1)
      <4>1. \A j \in Connectors :
                connect'[j].conn = IF j = k THEN Len(conns) + 1 ELSE connect[j].conn
        BY <3>1, <3>2 DEF ConnectStep
      <4>2. \A j \in Connectors : connect[j].conn <= Len(conns)
        BY DEF PointersOK
      <4>3. conns' \in Seq(ConnType)
        BY <1>10, ConnectDialEffect
      <4> QED
        BY <3>1, <3>2, <4>1, <4>2, <4>3
    <3>3. CASE ConnectStep(k, "idle", Nobody) /\ UNCHANGED conns
      <4>1. \A j \in Connectors :
                connect'[j].conn = IF j = k THEN 0 ELSE connect[j].conn
        BY <3>1, <3>3 DEF ConnectStep
      <4> QED
        BY <3>1, <3>3, <4>1 DEF PointersOK
    <3> QED
      BY <1>10, <3>2, <3>3, ConnectDialEffect
  <2>2. /\ \A r \in Requests : waiter[r].via \in Nat
        /\ conns \in Seq(ConnType) /\ conn \in Nat /\ reader.what \in Nat
    BY DEF TypeOK, LinkTypes, TrafficTypes, WaiterType, ReaderType
  <2> QED
    BY <1>10, <2>1, <2>2 DEF ConnectDial, PointersOK
<1>11. ASSUME NEW k \in Connectors, ConnectBit(k) PROVE PointersOK'
  BY <1>11
     DEF ConnectBit, ConnectStep, ConnectType, PointersOK, TypeOK, LinkTypes, TrafficTypes
<1>12. ASSUME NEW k \in Connectors, ConnectConn(k) PROVE PointersOK'
  BY <1>12
     DEF ConnectConn, ConnectStep, ConnectType, PointersOK, TypeOK, LinkTypes, TrafficTypes
<1>13. ASSUME NEW d \in Disconnecters, DisconnectClear(d) PROVE PointersOK'
  BY <1>13 DEF DisconnectClear, PointersOK
<1>14. ASSUME NEW d \in Disconnecters, DisconnectXor(d) PROVE PointersOK'
  BY <1>14 DEF DisconnectXor, PointersOK
<1>15. ASSUME NEW c \in DOMAIN conns, Break(c) PROVE PointersOK'
  BY <1>15, BreakEffect DEF Break, PointersOK
<1>16. ASSUME NEW r \in Requests, Send(r) PROVE PointersOK'
  <2>1. \A q \in Requests : waiter'[q].via <= Len(conns)
    BY <1>16, SendEffect DEF PointersOK, Becomes
  <2> QED
    BY <1>16, <2>1 DEF Send, PointersOK
<1>17. ASSUME NEW r \in Requests, SendWrite(r) PROVE PointersOK'
  <2>1. \A q \in Requests : waiter'[q].via <= Len(conns)
    BY <1>17, SendWriteEffect DEF PointersOK, Becomes
  <2> QED
    BY <1>17, <2>1 DEF SendWrite, PointersOK
<1>18. ASSUME NEW r \in Requests, Wait(r) PROVE PointersOK'
  <2>1. \A q \in Requests : waiter'[q].via <= Len(conns)
    BY <1>18, WaitEffect DEF PointersOK, Becomes
  <2> QED
    BY <1>18, <2>1 DEF Wait, PointersOK
<1>19. ASSUME NEW r \in Requests, delWaiter(r) PROVE PointersOK'
  <2>1. \A q \in Requests : waiter'[q].via <= Len(conns)
    BY <1>19, delWaiterEffect DEF PointersOK, Becomes
  <2> QED
    BY <1>19, <2>1 DEF delWaiter, PointersOK
<1>20. ASSUME NEW r \in Requests, WaitTimeout(r) PROVE PointersOK'
  <2>1. \A q \in Requests : waiter'[q].via <= Len(conns)
    BY <1>20, WaitTimeoutEffect DEF PointersOK, Becomes
  <2> QED
    BY <1>20, <2>1 DEF WaitTimeout, PointersOK
<1>21. ASSUME NEW r \in Requests, Answer(r) PROVE PointersOK'
  BY <1>21, AnswerEffect DEF Answer, PointersOK
<1>22. ASSUME NEW r \in Requests, keep(r) PROVE PointersOK'
  <2>1. \A q \in Requests : waiter'[q].via <= Len(conns)
    BY <1>22, keepEffect DEF PointersOK, Becomes
  <2> QED
    BY <1>22, <2>1 DEF keep, PointersOK
<1> QED
  BY <1>1, <1>2, <1>3, <1>4, <1>5, <1>6, <1>7, <1>8, <1>9, <1>10, <1>11, <1>12, <1>13,
         <1>14, <1>15, <1>16, <1>17, <1>18, <1>19, <1>20, <1>21, <1>22
     DEF Next, Reading, Connecting, Disconnecting, Waiting

LEMMA WaitersStep ==
    ASSUME TypeOK, PointersOK, WaitersOK, Next
    PROVE  WaitersOK'
<1> USE DEF link, traffic, Nobody
<1>1. CASE readMessage
  BY <1>1 DEF readMessage, WaitersOK
<1>2. CASE Read
  BY <1>2 DEF Read, WaitersOK
<1>3. CASE ReadFails
  BY <1>3 DEF ReadFails, WaitersOK
<1>4. CASE ReadAgain
  BY <1>4 DEF ReadAgain, WaitersOK
<1>5. CASE onMessage
  BY <1>5 DEF onMessage, WaitersOK
<1>6. CASE onMessageSend
  BY <1>6, onMessageSendEffect DEF Becomes, WaitersOK, WaiterOK
<1>7. CASE UseNil
  BY <1>7 DEF UseNil, WaitersOK
<1>8. CASE CallDisconnect
  BY <1>8 DEF CallDisconnect, WaitersOK
<1>9. ASSUME NEW k \in Connectors, Connect(k) PROVE WaitersOK'
  BY <1>9 DEF Connect, WaitersOK
<1>10. ASSUME NEW k \in Connectors, ConnectDial(k) PROVE WaitersOK'
  BY <1>10 DEF ConnectDial, WaitersOK
<1>11. ASSUME NEW k \in Connectors, ConnectBit(k) PROVE WaitersOK'
  BY <1>11 DEF ConnectBit, WaitersOK
<1>12. ASSUME NEW k \in Connectors, ConnectConn(k) PROVE WaitersOK'
  BY <1>12 DEF ConnectConn, WaitersOK
<1>13. ASSUME NEW d \in Disconnecters, DisconnectClear(d) PROVE WaitersOK'
  BY <1>13 DEF DisconnectClear, WaitersOK
<1>14. ASSUME NEW d \in Disconnecters, DisconnectXor(d) PROVE WaitersOK'
  BY <1>14 DEF DisconnectXor, WaitersOK
<1>15. ASSUME NEW c \in DOMAIN conns, Break(c) PROVE WaitersOK'
  BY <1>15 DEF Break, WaitersOK
<1>16. ASSUME NEW r \in Requests, Send(r) PROVE WaitersOK'
  <2>1. \A q \in Requests : q # r => waiter'[q] = waiter[q]
    BY <1>16, SendEffect DEF Becomes
  <2>2. WaiterOK(waiter[r])
    BY DEF WaitersOK
  <2>3. WaiterOK(waiter'[r])
    BY <1>16, <2>2, SendEffect DEF Send, Becomes, WaiterOK
  <2> QED
    BY <2>1, <2>3 DEF WaitersOK
<1>17. ASSUME NEW r \in Requests, SendWrite(r) PROVE WaitersOK'
  <2>1. \A q \in Requests : q # r => waiter'[q] = waiter[q]
    BY <1>17, SendWriteEffect DEF Becomes
  <2>2. WaiterOK(waiter[r])
    BY DEF WaitersOK
  <2>3. WaiterOK(waiter'[r])
    BY <1>17, <2>2, SendWriteEffect DEF SendWrite, Becomes, WaiterOK
  <2> QED
    BY <2>1, <2>3 DEF WaitersOK
<1>18. ASSUME NEW r \in Requests, Wait(r) PROVE WaitersOK'
  <2>1. \A q \in Requests : q # r => waiter'[q] = waiter[q]
    BY <1>18, WaitEffect DEF Becomes
  <2>2. WaiterOK(waiter[r])
    BY DEF WaitersOK
  <2>3. WaiterOK(waiter'[r])
    BY <1>18, <2>2, WaitEffect DEF Wait, Becomes, WaiterOK
  <2> QED
    BY <2>1, <2>3 DEF WaitersOK
<1>19. ASSUME NEW r \in Requests, delWaiter(r) PROVE WaitersOK'
  <2>1. \A q \in Requests : q # r => waiter'[q] = waiter[q]
    BY <1>19, delWaiterEffect DEF Becomes
  <2>2. WaiterOK(waiter[r])
    BY DEF WaitersOK
  <2>3. WaiterOK(waiter'[r])
    <3>1. waiter[r].status = "in" => waiter[r].closed = 0 /\ waiter[r].caller # "idle"
      BY <2>2 DEF WaiterOK
    <3>2. waiter[r].status = "in" => waiter'[r].closed = 1
      BY <1>19, <3>1, delWaiterEffect DEF Becomes
    <3>3. waiter[r].status = "in" =>
            waiter'[r].status = "out" /\ waiter'[r].caller # "idle"
      BY <1>19, <3>1, delWaiterEffect DEF Becomes
    <3>4. CASE waiter[r].status = "in"
      BY <3>2, <3>3, <3>4 DEF WaiterOK
    <3>5. CASE waiter[r].status # "in"
      BY <1>19, <2>2, <3>5, delWaiterEffect DEF delWaiter, Becomes, WaiterOK
    <3> QED
      BY <3>4, <3>5
  <2> QED
    BY <2>1, <2>3 DEF WaitersOK
<1>20. ASSUME NEW r \in Requests, WaitTimeout(r) PROVE WaitersOK'
  <2>1. \A q \in Requests : q # r => waiter'[q] = waiter[q]
    BY <1>20, WaitTimeoutEffect DEF Becomes
  <2>2. WaiterOK(waiter[r])
    BY DEF WaitersOK
  <2>3. WaiterOK(waiter'[r])
    BY <1>20, <2>2, WaitTimeoutEffect DEF WaitTimeout, Becomes, WaiterOK
  <2> QED
    BY <2>1, <2>3 DEF WaitersOK
<1>21. ASSUME NEW r \in Requests, Answer(r) PROVE WaitersOK'
  BY <1>21 DEF Answer, WaitersOK
<1>22. ASSUME NEW r \in Requests, keep(r) PROVE WaitersOK'
  <2>1. \A q \in Requests : q # r => waiter'[q] = waiter[q]
    BY <1>22, keepEffect DEF Becomes
  <2>2. WaiterOK(waiter[r])
    BY DEF WaitersOK
  <2>3. WaiterOK(waiter'[r])
    <3>1. waiter[r].status = "in" => waiter[r].closed = 0 /\ waiter[r].caller # "idle"
      BY <2>2 DEF WaiterOK
    <3>2. waiter[r].status = "in" => waiter'[r].closed = 1
      BY <1>22, <3>1, keepEffect DEF Becomes
    <3>3. waiter[r].status = "in" =>
            waiter'[r].status = "out" /\ waiter'[r].caller # "idle"
      BY <1>22, <3>1, keepEffect DEF Becomes
    <3>4. CASE waiter[r].status = "in"
      BY <3>2, <3>3, <3>4 DEF WaiterOK
    <3>5. CASE waiter[r].status # "in"
      BY <1>22, <2>2, <3>5, keepEffect DEF keep, Becomes, WaiterOK
    <3> QED
      BY <3>4, <3>5
  <2> QED
    BY <2>1, <2>3 DEF WaitersOK
<1> QED
  BY <1>1, <1>2, <1>3, <1>4, <1>5, <1>6, <1>7, <1>8, <1>9, <1>10, <1>11, <1>12, <1>13,
         <1>14, <1>15, <1>16, <1>17, <1>18, <1>19, <1>20, <1>21, <1>22
     DEF Next, Reading, Connecting, Disconnecting, Waiting

\* A waiter is never new again.
StayRegistered ==
    \A q \in Requests : waiter[q].status # "new" => waiter'[q].status # "new"

LEMMA WaitersStayRegistered ==
    ASSUME TypeOK, PointersOK, Next
    PROVE  StayRegistered
<1> USE DEF link, traffic, Nobody, StayRegistered
<1>1. CASE readMessage
  BY <1>1 DEF readMessage
<1>2. CASE Read
  BY <1>2 DEF Read
<1>3. CASE ReadFails
  BY <1>3 DEF ReadFails
<1>4. CASE ReadAgain
  BY <1>4 DEF ReadAgain
<1>5. CASE onMessage
  BY <1>5 DEF onMessage
<1>6. CASE onMessageSend
  BY <1>6, onMessageSendEffect DEF Becomes
<1>7. CASE UseNil
  BY <1>7 DEF UseNil
<1>8. CASE CallDisconnect
  BY <1>8 DEF CallDisconnect
<1>9. ASSUME NEW k \in Connectors, Connect(k) PROVE StayRegistered
  BY <1>9 DEF Connect
<1>10. ASSUME NEW k \in Connectors, ConnectDial(k) PROVE StayRegistered
  BY <1>10 DEF ConnectDial
<1>11. ASSUME NEW k \in Connectors, ConnectBit(k) PROVE StayRegistered
  BY <1>11 DEF ConnectBit
<1>12. ASSUME NEW k \in Connectors, ConnectConn(k) PROVE StayRegistered
  BY <1>12 DEF ConnectConn
<1>13. ASSUME NEW d \in Disconnecters, DisconnectClear(d) PROVE StayRegistered
  BY <1>13 DEF DisconnectClear
<1>14. ASSUME NEW d \in Disconnecters, DisconnectXor(d) PROVE StayRegistered
  BY <1>14 DEF DisconnectXor
<1>15. ASSUME NEW c \in DOMAIN conns, Break(c) PROVE StayRegistered
  BY <1>15 DEF Break
<1>16. ASSUME NEW r \in Requests, Send(r) PROVE StayRegistered
  BY <1>16, SendEffect DEF Becomes
<1>17. ASSUME NEW r \in Requests, SendWrite(r) PROVE StayRegistered
  BY <1>17, SendWriteEffect DEF Becomes
<1>18. ASSUME NEW r \in Requests, Wait(r) PROVE StayRegistered
  BY <1>18, WaitEffect DEF Becomes
<1>19. ASSUME NEW r \in Requests, delWaiter(r) PROVE StayRegistered
  BY <1>19, delWaiterEffect DEF Becomes
<1>20. ASSUME NEW r \in Requests, WaitTimeout(r) PROVE StayRegistered
  BY <1>20, WaitTimeoutEffect DEF Becomes
<1>21. ASSUME NEW r \in Requests, Answer(r) PROVE StayRegistered
  BY <1>21 DEF Answer
<1>22. ASSUME NEW r \in Requests, keep(r) PROVE StayRegistered
  BY <1>22, keepEffect DEF Becomes
<1> QED
  BY <1>1, <1>2, <1>3, <1>4, <1>5, <1>6, <1>7, <1>8, <1>9, <1>10, <1>11, <1>12, <1>13,
         <1>14, <1>15, <1>16, <1>17, <1>18, <1>19, <1>20, <1>21, <1>22
     DEF Next, Reading, Connecting, Disconnecting, Waiting

LEMMA StreamsKept ==
    ASSUME AnswersOK, UNCHANGED <<conns, read>>,
           StayRegistered, TypeOK
    PROVE  AnswersOK'
<1>1. read \subseteq Requests /\ conns \in Seq(ConnType)
  BY DEF TypeOK, LinkTypes, TrafficTypes
<1>2. \A c \in 1..Len(conns) : conns[c].stream \in Seq(Requests)
  <2>1. \A c \in 1..Len(conns) : conns[c] \in ConnType
    BY <1>1
  <2> QED
    BY <2>1 DEF ConnType
<1>3. \A c \in 1..Len(conns) : \A i \in 1..Len(conns[c].stream) :
        conns[c].stream[i] \in Requests
  BY <1>2
<1> QED
  BY <1>1, <1>3 DEF AnswersOK, StayRegistered

\* The stream of one connection changes, and none of its answers is to a new request.
LEMMA StreamChanges ==
    ASSUME AnswersOK, TypeOK, NEW c \in 1..Len(conns), NEW x \in ConnType,
           conns' = [conns EXCEPT ![c] = x], UNCHANGED <<waiter, read>>,
           \A i \in 1..Len(x.stream) : waiter[x.stream[i]].status # "new"
    PROVE  AnswersOK'
<1>1. /\ Len(conns') = Len(conns) /\ conns'[c] = x
      /\ \A b \in 1..Len(conns) : b # c => conns'[b] = conns[b]
  BY ConnSet DEF TypeOK, LinkTypes
<1> QED
  BY <1>1 DEF AnswersOK

LEMMA DeadStream ==
    ASSUME NEW how \in {"broken", "closed"}
    PROVE  Dead(how) \in ConnType /\ Len(Dead(how).stream) = 0
BY EmptySeq DEF Dead, ConnType

LEMMA DeadAnswers ==
    ASSUME AnswersOK, TypeOK, NEW c \in 1..Len(conns), NEW how \in {"broken", "closed"},
           conns' = [conns EXCEPT ![c] = Dead(how)], UNCHANGED <<waiter, read>>
    PROVE  AnswersOK'
<1> DEFINE x == Dead(how)
<1>1. x \in ConnType /\ \A i \in 1..Len(x.stream) : waiter[x.stream[i]].status # "new"
  BY DeadStream
<1> HIDE DEF x
<1>2. conns' = [conns EXCEPT ![c] = x]
  BY DEF x
<1> QED
  BY <1>1, <1>2, StreamChanges

LEMMA AnswersStep ==
    ASSUME TypeOK, PointersOK, WaitersOK, AnswersOK, Next
    PROVE  AnswersOK'
<1> USE DEF link, traffic, Nobody
<1>0. StayRegistered
  BY WaitersStayRegistered
<1>1. CASE readMessage
  BY <1>1, <1>0, StreamsKept DEF readMessage
<1>2. CASE Read
  <2> DEFINE c == reader.what
             str == conns[c].stream
             x(i) == [conns[c] EXCEPT !.stream = SubSeq(str, i + 1, Len(str))]
  <2>1. PICK i \in 1..Len(str) :
            /\ conns' = [conns EXCEPT ![c] = x(i)]
            /\ read' = read \cup {str[j] : j \in 1..i}
    BY <1>2, ReadEffect
  <2>2. c \in 1..Len(conns) /\ str \in Seq(Requests) /\ conns[c] \in ConnType
    BY <1>2, ReadEffect DEF TypeOK, LinkTypes
  <2>3. \A j \in 1..Len(str) : waiter[str[j]].status # "new"
    BY <2>2 DEF AnswersOK
  <2>4. SubSeq(str, i + 1, Len(str)) \in Seq(Requests)
    BY <2>2, SubSeqProperties
  <2>5. /\ Len(SubSeq(str, i + 1, Len(str))) = Len(str) - i
        /\ \A j \in 1..(Len(str) - i) : SubSeq(str, i + 1, Len(str))[j] = str[i + j]
    BY <2>2
  <2>6. \A j \in 1..(Len(str) - i) : i + j \in 1..Len(str)
    BY <2>2
  <2>7. \A j \in 1..Len(SubSeq(str, i + 1, Len(str))) :
            waiter[SubSeq(str, i + 1, Len(str))[j]].status # "new"
    BY <2>3, <2>5, <2>6
  <2>8. x(i) \in ConnType /\ x(i).stream = SubSeq(str, i + 1, Len(str))
    BY <2>2, <2>4 DEF ConnType
  <2>9. /\ Len(conns') = Len(conns) /\ conns'[c] = x(i)
        /\ \A b \in 1..Len(conns) : b # c => conns'[b] = conns[b]
    <3> HIDE DEF x, c
    <3> QED
      BY <2>1, <2>2, <2>8, ConnSet DEF TypeOK, LinkTypes
  <2>10. \A r \in read' : waiter[r].status # "new"
    <3>1. \A r \in read : waiter[r].status # "new"
      BY DEF AnswersOK
    <3>2. \A j \in 1..i : j \in 1..Len(str)
      BY <2>1, <2>2
    <3> QED
      BY <2>1, <2>3, <3>1, <3>2
  <2>11. UNCHANGED waiter
    BY <1>2 DEF Read
  <2> HIDE DEF c, x, str
  <2>12. \A b \in 1..Len(conns) : \A j \in 1..Len(conns'[b].stream) :
            waiter[conns'[b].stream[j]].status # "new"
    <3>1. \A j \in 1..Len(conns'[c].stream) : waiter[conns'[c].stream[j]].status # "new"
      BY <2>7, <2>8, <2>9
    <3> QED
      BY <2>9, <3>1 DEF AnswersOK
  <2> QED
    BY <2>9, <2>10, <2>11, <2>12 DEF AnswersOK
<1>3. CASE ReadFails
  <2>1. CASE Disconnect("reader")
    <3>1. /\ conn \in 1..Len(conns)
          /\ conns' = [conns EXCEPT ![conn] = Dead("closed")]
      BY <2>1, DisconnectEffect DEF Disconnecters
    <3>2. UNCHANGED <<waiter, read>>
      BY <1>3 DEF ReadFails
    <3> QED
      BY <3>1, <3>2, DeadAnswers
  <2>2. CASE UNCHANGED conns
    BY <1>3, <2>2, <1>0, StreamsKept DEF ReadFails
  <2> QED
    BY <1>3, <2>1, <2>2 DEF ReadFails
<1>4. CASE ReadAgain
  BY <1>4, <1>0, StreamsKept DEF ReadAgain
<1>5. CASE onMessage
  BY <1>5, <1>0, StreamsKept DEF onMessage
<1>6. CASE onMessageSend
  BY <1>6, <1>0, StreamsKept DEF onMessageSend
<1>7. CASE UseNil
  BY <1>7, <1>0, StreamsKept DEF UseNil
<1>8. CASE CallDisconnect
  <2>1. /\ conn \in 1..Len(conns)
        /\ conns' = [conns EXCEPT ![conn] = Dead("closed")]
    BY <1>8, DisconnectEffect DEF CallDisconnect, Disconnecters
  <2>2. UNCHANGED <<waiter, read>>
    BY <1>8 DEF CallDisconnect
  <2> QED
    BY <2>1, <2>2, DeadAnswers
<1>9. ASSUME NEW k \in Connectors, Connect(k) PROVE AnswersOK'
  BY <1>9, <1>0, StreamsKept DEF Connect
<1>10. ASSUME NEW k \in Connectors, ConnectDial(k) PROVE AnswersOK'
  <2>1. CASE conns' = Append(conns, Open) /\ Len(conns') = Len(conns) + 1
    <3>1. \A c \in 1..Len(conns') : c = Len(conns) + 1 \/ c \in 1..Len(conns)
      BY <2>1 DEF TypeOK, LinkTypes
    <3>2. \A c \in 1..Len(conns) : conns'[c] = conns[c]
      BY <2>1 DEF TypeOK, LinkTypes
    <3>3. conns'[Len(conns) + 1].stream = <<>>
      BY <2>1 DEF TypeOK, LinkTypes, Open
    <3> QED
      BY <1>10, <3>1, <3>2, <3>3 DEF ConnectDial, AnswersOK
  <2>2. CASE UNCHANGED conns
    BY <1>10, <2>2, <1>0, StreamsKept DEF ConnectDial
  <2> QED
    BY <1>10, <2>1, <2>2, ConnectDialEffect
<1>11. ASSUME NEW k \in Connectors, ConnectBit(k) PROVE AnswersOK'
  BY <1>11, <1>0, StreamsKept DEF ConnectBit
<1>12. ASSUME NEW k \in Connectors, ConnectConn(k) PROVE AnswersOK'
  BY <1>12, <1>0, StreamsKept DEF ConnectConn
<1>13. ASSUME NEW d \in Disconnecters, DisconnectClear(d) PROVE AnswersOK'
  BY <1>13, <1>0, StreamsKept DEF DisconnectClear
<1>14. ASSUME NEW d \in Disconnecters, DisconnectXor(d) PROVE AnswersOK'
  BY <1>14, <1>0, StreamsKept DEF DisconnectXor
<1>15. ASSUME NEW c \in DOMAIN conns, Break(c) PROVE AnswersOK'
  <2>1. UNCHANGED <<waiter, read>>
    BY <1>15 DEF Break
  <2> QED
    BY <1>15, <2>1, BreakEffect, DeadAnswers
<1>16. ASSUME NEW r \in Requests, Send(r) PROVE AnswersOK'
  BY <1>16, <1>0, StreamsKept DEF Send
<1>17. ASSUME NEW r \in Requests, SendWrite(r) PROVE AnswersOK'
  BY <1>17, <1>0, StreamsKept DEF SendWrite
<1>18. ASSUME NEW r \in Requests, Wait(r) PROVE AnswersOK'
  BY <1>18, <1>0, StreamsKept DEF Wait
<1>19. ASSUME NEW r \in Requests, delWaiter(r) PROVE AnswersOK'
  BY <1>19, <1>0, StreamsKept DEF delWaiter
<1>20. ASSUME NEW r \in Requests, WaitTimeout(r) PROVE AnswersOK'
  BY <1>20, <1>0, StreamsKept DEF WaitTimeout
<1>21. ASSUME NEW r \in Requests, Answer(r) PROVE AnswersOK'
  <2> DEFINE c == waiter[r].via
             str == conns[c].stream
             x == [conns[c] EXCEPT !.stream = Append(str, r)]
  <2>1. /\ c \in 1..Len(conns) /\ str \in Seq(Requests)
        /\ conns' = [conns EXCEPT ![c] = x]
    BY <1>21, AnswerEffect
  <2>2. conns[c] \in ConnType
    BY <2>1 DEF TypeOK, LinkTypes
  <2>3. Append(str, r) \in Seq(Requests)
    BY <2>1
  <2>4. x \in ConnType /\ x.stream = Append(str, r)
    BY <2>2, <2>3 DEF ConnType
  <2>5. waiter[r].status # "new"
    BY <1>21 DEF Answer, WaitersOK, WaiterOK
  <2>6. \A i \in 1..Len(Append(str, r)) : waiter[Append(str, r)[i]].status # "new"
    <3>1. \A i \in 1..Len(str) : waiter[str[i]].status # "new"
      BY <2>1 DEF AnswersOK
    <3>2. \A i \in 1..Len(Append(str, r)) :
            IF i = Len(str) + 1 THEN Append(str, r)[i] = r
            ELSE i \in 1..Len(str) /\ Append(str, r)[i] = str[i]
      BY <2>1
    <3> QED
      BY <2>5, <3>1, <3>2
  <2>7. UNCHANGED <<waiter, read>>
    BY <1>21 DEF Answer
  <2> HIDE DEF c, x, str
  <2> QED
    BY <2>1, <2>4, <2>6, <2>7, StreamChanges
<1>22. ASSUME NEW r \in Requests, keep(r) PROVE AnswersOK'
  BY <1>22, <1>0, StreamsKept DEF keep
<1> QED
  BY <1>1, <1>2, <1>3, <1>4, <1>5, <1>6, <1>7, <1>8, <1>9, <1>10, <1>11, <1>12, <1>13,
         <1>14, <1>15, <1>16, <1>17, <1>18, <1>19, <1>20, <1>21, <1>22
     DEF Next, Reading, Connecting, Disconnecting, Waiting

\* Where an answer is that was read and has not been lost.
OnItsWay(r) ==
    \/ \E i \in DOMAIN buffer : buffer[i] = r
    \/ reader.at = "send" /\ reader.what = r
    \/ waiter[r].data # <<>> \/ waiter[r].caller = "del"

LEMMA OnItsWayStays ==
    ASSUME NEW q \in Requests, OnItsWay(q), UNCHANGED <<buffer, reader>>,
           waiter'[q].data = waiter[q].data, waiter'[q].caller = waiter[q].caller
    PROVE  OnItsWay(q)'
BY DEF OnItsWay

LEMMA ArriveStep ==
    ASSUME TypeOK, PointersOK, WaitersOK, AnswersOK, AnswersArrive,
           NEW q \in read', waiter'[q].status = "in", ~lost', Next
    PROVE  OnItsWay(q)'
<1> USE DEF link, traffic, Nobody
<1>0. q \in Requests /\ (read' = read => q \in read)
  BY TypeStep DEF TypeOK, TrafficTypes
<1>way. read' = read /\ waiter[q].status = "in" /\ ~lost => OnItsWay(q)
  BY <1>0 DEF AnswersArrive, OnItsWay
<1>1. CASE readMessage
  BY <1>1, <1>0, <1>way DEF readMessage, OnItsWay
<1>2. CASE Read
  <2> DEFINE str == conns[reader.what].stream
  <2>1. PICK i \in 1..Len(str) :
            /\ buffer' = buffer \o SubSeq(str, 1, i)
            /\ read' = read \cup {str[j] : j \in 1..i}
    BY <1>2, ReadEffect
  <2>2. str \in Seq(Requests) /\ buffer \in Seq(Requests) /\ UNCHANGED <<waiter, lost>>
    BY <1>2, ReadEffect DEF Read, TypeOK, TrafficTypes
  <2> HIDE DEF str
  <2>3. SubSeq(str, 1, i) \in Seq(Requests) /\ Len(SubSeq(str, 1, i)) = i
    BY <2>2
  <2>4. \A j \in 1..i : SubSeq(str, 1, i)[j] = str[j]
    BY <2>2
  <2>5. /\ DOMAIN buffer' = 1..(Len(buffer) + i)
        /\ \A j \in 1..Len(buffer) : buffer'[j] = buffer[j]
        /\ \A j \in 1..i : buffer'[Len(buffer) + j] = SubSeq(str, 1, i)[j]
    BY <2>1, <2>2, <2>3
  <2>6. CASE q \in read
    <3>1. \/ \E j \in 1..Len(buffer) : buffer[j] = q
          \/ waiter[q].data # <<>> \/ waiter[q].caller = "del"
      <4>1. /\ waiter[q].status = "in" /\ ~lost /\ reader.at = "read"
            /\ DOMAIN buffer = 1..Len(buffer)
        BY <1>2, <2>2 DEF Read
      <4> QED
        BY <2>6, <4>1 DEF AnswersArrive
    <3> QED
      BY <2>2, <2>5, <3>1 DEF OnItsWay
  <2>7. CASE q \notin read
    <3>1. PICK j \in 1..i : q = str[j]
      BY <2>1, <2>7
    <3>2. buffer'[Len(buffer) + j] = q /\ Len(buffer) + j \in DOMAIN buffer'
      BY <2>2, <2>4, <2>5, <3>1
    <3> QED
      BY <3>2 DEF OnItsWay
  <2> QED
    BY <2>6, <2>7
<1>3. CASE ReadFails
  BY <1>3, <1>0, <1>way DEF ReadFails, OnItsWay
<1>4. CASE ReadAgain
  BY <1>4, <1>0, <1>way DEF ReadAgain, OnItsWay
<1>5. CASE onMessage
  <2>1. /\ buffer \in Seq(Requests) /\ OnItsWay(q)
        /\ reader.at = "next" /\ UNCHANGED waiter /\ waiter[q].status = "in"
    BY <1>5, <1>0, <1>way DEF onMessage, TypeOK, TrafficTypes
  <2>2. CASE waiter[q].data # <<>> \/ waiter[q].caller = "del"
    BY <2>1, <2>2 DEF OnItsWay
  <2>3. CASE \E i \in DOMAIN buffer : buffer[i] = q
    <3>1. PICK i \in 1..Len(buffer) : buffer[i] = q
      BY <2>1, <2>3
    <3>2. /\ buffer # <<>> /\ buffer' = Tail(buffer)
          /\ reader' = IF waiter[Head(buffer)].status = "in"
                       THEN [at |-> "send", what |-> Head(buffer)] ELSE reader
      BY <1>5, <2>1, <3>1 DEF onMessage
    <3>3. CASE i = 1
      <4>1. Head(buffer) = q
        BY <2>1, <3>1, <3>2, <3>3
      <4> QED
        BY <2>1, <3>2, <4>1 DEF OnItsWay
    <3>4. CASE i # 1
      <4>1. i - 1 \in DOMAIN buffer' /\ buffer'[i - 1] = q
        BY <2>1, <3>1, <3>2, <3>4
      <4> QED
        BY <4>1 DEF OnItsWay
    <3> QED
      BY <3>3, <3>4
  <2> QED
    BY <2>1, <2>2, <2>3 DEF OnItsWay
<1>6. CASE onMessageSend
  <2> DEFINE p == reader.what
  <2>1. p \in Requests /\ reader.at = "send" /\ UNCHANGED read
    BY <1>6, onMessageSendEffect DEF onMessageSend
  <2>2. CASE /\ Becomes(p, waiter[p].status, <<p>>, waiter[p].closed,
                       waiter[p].caller, waiter[p].via)
             /\ UNCHANGED <<buffer, lost>>
    <3>1. CASE q = p
      <4>1. waiter'[q].data = <<p>>
        BY <2>2, <3>1 DEF Becomes
      <4>2. waiter'[q].data # <<>>
        BY <4>1
      <4> QED
        BY <4>2 DEF OnItsWay
    <3>2. CASE q # p
      <4>1. waiter'[q] = waiter[q]
        BY <1>0, <2>2, <3>2 DEF Becomes
      <4>2. OnItsWay(q)
        BY <1>0, <1>way, <2>1, <2>2, <4>1
      <4> QED
        BY <2>1, <2>2, <3>2, <4>1, <4>2 DEF OnItsWay
    <3> QED
      BY <3>1, <3>2
  <2>3. CASE /\ waiter[p].closed > 0 /\ buffer' = <<>>
             /\ lost' = (lost \/ buffer # <<>>) /\ UNCHANGED waiter
    <3>1. waiter[p].status # "in"
      BY <2>1, <2>3 DEF WaitersOK, WaiterOK
    <3>2. q # p /\ OnItsWay(q) /\ buffer = <<>>
      BY <1>0, <1>way, <2>1, <2>3, <3>1
    <3>3. waiter[q].data # <<>> \/ waiter[q].caller = "del"
      BY <2>1, <3>2 DEF OnItsWay
    <3> QED
      BY <2>3, <3>3 DEF OnItsWay
  <2> QED
    BY <1>6, <2>2, <2>3, onMessageSendEffect
<1>7. CASE UseNil
  BY <1>7, <1>0, <1>way DEF UseNil, OnItsWay
<1>8. CASE CallDisconnect
  BY <1>8, <1>0, <1>way DEF CallDisconnect, OnItsWay
<1>9. ASSUME NEW k \in Connectors, Connect(k) PROVE OnItsWay(q)'
  BY <1>9, <1>0, <1>way DEF Connect, OnItsWay
<1>10. ASSUME NEW k \in Connectors, ConnectDial(k) PROVE OnItsWay(q)'
  BY <1>10, <1>0, <1>way DEF ConnectDial, OnItsWay
<1>11. ASSUME NEW k \in Connectors, ConnectBit(k) PROVE OnItsWay(q)'
  BY <1>11, <1>0, <1>way DEF ConnectBit, OnItsWay
<1>12. ASSUME NEW k \in Connectors, ConnectConn(k) PROVE OnItsWay(q)'
  BY <1>12, <1>0, <1>way DEF ConnectConn, OnItsWay
<1>13. ASSUME NEW d \in Disconnecters, DisconnectClear(d) PROVE OnItsWay(q)'
  BY <1>13, <1>0, <1>way DEF DisconnectClear, OnItsWay
<1>14. ASSUME NEW d \in Disconnecters, DisconnectXor(d) PROVE OnItsWay(q)'
  BY <1>14, <1>0, <1>way DEF DisconnectXor, OnItsWay
<1>15. ASSUME NEW c \in DOMAIN conns, Break(c) PROVE OnItsWay(q)'
  BY <1>15, <1>0, <1>way DEF Break, OnItsWay
<1>16. ASSUME NEW r \in Requests, Send(r) PROVE OnItsWay(q)'
  <2>1. \A p \in Requests : p # r => waiter'[p] = waiter[p]
    BY <1>16, SendEffect DEF Becomes
  <2>2. CASE q # r
    BY <1>16, <1>0, <2>1, <2>2, <1>way, OnItsWayStays DEF Send
  <2>3. CASE q = r
    BY <1>16, <1>0, <2>3 DEF Send, WaitersOK, WaiterOK, AnswersOK
  <2> QED
    BY <2>2, <2>3
<1>17. ASSUME NEW r \in Requests, SendWrite(r) PROVE OnItsWay(q)'
  <2>1. \A p \in Requests : p # r => waiter'[p] = waiter[p]
    BY <1>17, SendWriteEffect DEF Becomes
  <2>2. CASE q # r
    BY <1>17, <1>0, <2>1, <2>2, <1>way, OnItsWayStays DEF SendWrite
  <2>3. CASE q = r
    <3>1. waiter[q].status = "in" /\ waiter'[q].data = waiter[q].data
      BY <1>17, <2>3, SendWriteEffect DEF Becomes
    <3> QED
      BY <1>17, <1>0, <2>3, <3>1, <1>way DEF SendWrite, OnItsWay
  <2> QED
    BY <2>2, <2>3
<1>18. ASSUME NEW r \in Requests, Wait(r) PROVE OnItsWay(q)'
  <2>1. \A p \in Requests : p # r => waiter'[p] = waiter[p]
    BY <1>18, WaitEffect DEF Becomes
  <2>2. CASE q # r
    BY <1>18, <1>0, <2>1, <2>2, <1>way, OnItsWayStays DEF Wait
  <2>3. CASE q = r
    <3>1. waiter[q].status = "in"
      BY <1>18, <2>3, WaitEffect DEF Becomes
    <3>2. waiter[q].closed = 0
      BY <3>1, <1>0 DEF WaitersOK, WaiterOK
    <3>3. waiter'[q].caller = "del"
      BY <1>18, <2>3, <3>2, WaitEffect DEF Becomes
    <3> QED
      BY <3>3 DEF OnItsWay
  <2> QED
    BY <2>2, <2>3
<1>19. ASSUME NEW r \in Requests, delWaiter(r) PROVE OnItsWay(q)'
  <2>1. \A p \in Requests : p # r => waiter'[p] = waiter[p]
    BY <1>19, delWaiterEffect DEF Becomes
  <2>2. CASE q # r
    BY <1>19, <1>0, <2>1, <2>2, <1>way, OnItsWayStays DEF delWaiter
  <2>3. CASE q = r
    BY <1>19, <2>3, delWaiterEffect DEF Becomes
  <2> QED
    BY <2>2, <2>3
<1>20. ASSUME NEW r \in Requests, WaitTimeout(r) PROVE OnItsWay(q)'
  <2>1. \A p \in Requests : p # r => waiter'[p] = waiter[p]
    BY <1>20, WaitTimeoutEffect DEF Becomes
  <2>2. CASE q # r
    BY <1>20, <1>0, <2>1, <2>2, <1>way, OnItsWayStays DEF WaitTimeout
  <2>3. CASE q = r
    <3>1. waiter[q].status = "in" /\ waiter'[q].data = waiter[q].data
      BY <1>20, <2>3, WaitTimeoutEffect DEF Becomes
    <3> QED
      BY <1>20, <1>0, <2>3, <3>1, <1>way DEF WaitTimeout, OnItsWay
  <2> QED
    BY <2>2, <2>3
<1>21. ASSUME NEW r \in Requests, Answer(r) PROVE OnItsWay(q)'
  BY <1>21, <1>0, <1>way DEF Answer, OnItsWay
<1>22. ASSUME NEW r \in Requests, keep(r) PROVE OnItsWay(q)'
  <2>1. \A p \in Requests : p # r => waiter'[p] = waiter[p]
    BY <1>22, keepEffect DEF Becomes
  <2>2. CASE q # r
    BY <1>22, <1>0, <2>1, <2>2, <1>way, OnItsWayStays DEF keep
  <2>3. CASE q = r
    BY <1>22, <2>3, keepEffect DEF Becomes
  <2> QED
    BY <2>2, <2>3
<1> QED
  BY <1>1, <1>2, <1>3, <1>4, <1>5, <1>6, <1>7, <1>8, <1>9, <1>10, <1>11, <1>12, <1>13,
         <1>14, <1>15, <1>16, <1>17, <1>18, <1>19, <1>20, <1>21, <1>22
     DEF Next, Reading, Connecting, Disconnecting, Waiting

\* Connections may die while no Connect or Disconnect moves.
LEMMA LinkStays ==
    ASSUME TypeOK, PointersOK, LinkOK,
           UNCHANGED <<status, conn, disconnect, connect, overlap>>,
           Len(conns') = Len(conns),
           \A c \in 1..Len(conns) : conns'[c].state = "open" => conns[c].state = "open"
    PROVE  LinkOK'
<1>1. conn # Nobody => conn \in 1..Len(conns)
  BY DEF TypeOK, LinkTypes, PointersOK, Nobody
<1> QED
  BY <1>1 DEF LinkOK

LEMMA ConnDies ==
    ASSUME TypeOK, NEW c \in 1..Len(conns), NEW how \in {"broken", "closed"},
           conns' = [conns EXCEPT ![c] = Dead(how)]
    PROVE  /\ Len(conns') = Len(conns) /\ conns'[c].state # "open"
           /\ \A b \in 1..Len(conns) : conns'[b].state = "open" =>
                conns[b].state = "open" /\ b # c
<1> DEFINE x == Dead(how)
<1>1. x \in ConnType /\ x.state # "open"
  BY DeadStream DEF Dead
<1> HIDE DEF x
<1>2. conns' = [conns EXCEPT ![c] = x]
  BY DEF x
<1>3. /\ Len(conns') = Len(conns) /\ conns'[c] = x
      /\ \A b \in 1..Len(conns) : b # c => conns'[b] = conns[b]
  BY <1>1, <1>2, ConnSet DEF TypeOK, LinkTypes
<1> QED
  BY <1>1, <1>3

\* A call of Disconnect begins: the connection it closes is the client's.
LEMMA DisconnectLink ==
    ASSUME TypeOK, PointersOK, LinkOK, NEW d \in Disconnecters, Disconnect(d),
           UNCHANGED <<status, conn, connect>>
    PROVE  LinkOK'
<1>1. /\ conn \in 1..Len(conns) /\ conns' = [conns EXCEPT ![conn] = Dead("closed")]
      /\ overlap' = (overlap \/ \E k \in Connectors : connect[k].at # "idle")
  BY DisconnectEffect DEF Disconnect, DisconnectStep
<1>2. /\ Len(conns') = Len(conns) /\ conns'[conn].state # "open"
      /\ \A b \in 1..Len(conns) : conns'[b].state = "open" =>
            conns[b].state = "open" /\ b # conn
  BY <1>1, ConnDies
<1> SUFFICES ASSUME ~overlap' PROVE LinkOK'
  BY DEF LinkOK
<1>3. ~overlap /\ \A k \in Connectors : connect[k].at = "idle"
  BY <1>1
<1>4. \A c \in 1..Len(conns) : conns'[c].state # "open"
  BY <1>2, <1>3 DEF LinkOK
<1> QED
  BY <1>1, <1>2, <1>3, <1>4 DEF LinkOK, Nobody

LEMMA LinkStep ==
    ASSUME TypeOK, PointersOK, LinkOK, Next
    PROVE  LinkOK'
<1> USE DEF link, traffic, Nobody
<1>1. CASE readMessage
  BY <1>1 DEF readMessage, LinkOK
<1>2. CASE Read
  <2> DEFINE c == reader.what
             x(i) == [conns[c] EXCEPT !.stream =
                        SubSeq(conns[c].stream, i + 1, Len(conns[c].stream))]
  <2>1. PICK i \in 1..Len(conns[c].stream) : conns' = [conns EXCEPT ![c] = x(i)]
    BY <1>2, ReadEffect
  <2>2. c \in 1..Len(conns) /\ conns[c] \in ConnType
    BY <1>2, ReadEffect DEF TypeOK, LinkTypes
  <2>3. /\ Len(conns') = Len(conns)
        /\ \A b \in 1..Len(conns) : conns'[b].state = conns[b].state
    BY <2>1, <2>2 DEF TypeOK, LinkTypes, ConnType
  <2>4. UNCHANGED <<status, conn, disconnect, connect, overlap>>
    BY <1>2 DEF Read
  <2> QED
    BY <2>3, <2>4, LinkStays
<1>3. CASE ReadFails
  <2>1. CASE Disconnect("reader")
    BY <1>3, <2>1, DisconnectLink DEF ReadFails, Disconnecters
  <2>2. CASE UNCHANGED <<conns, disconnect, overlap>>
    BY <1>3, <2>2 DEF ReadFails, LinkOK
  <2> QED
    BY <1>3, <2>1, <2>2 DEF ReadFails
<1>4. CASE ReadAgain
  BY <1>4 DEF ReadAgain, LinkOK
<1>5. CASE onMessage
  BY <1>5 DEF onMessage, LinkOK
<1>6. CASE onMessageSend
  BY <1>6 DEF onMessageSend, LinkOK
<1>7. CASE UseNil
  BY <1>7 DEF UseNil, LinkOK
<1>8. CASE CallDisconnect
  BY <1>8, DisconnectLink DEF CallDisconnect, Disconnecters
<1>9. ASSUME NEW k \in Connectors, Connect(k) PROVE LinkOK'
  <2> SUFFICES ASSUME ~overlap' PROVE LinkOK'
    BY DEF LinkOK
  <2>1. /\ ~overlap /\ \A j \in Connectors \ {k} : connect[j].at = "idle"
        /\ \A d \in Disconnecters : disconnect[d] = "idle"
    BY <1>9 DEF Connect, ConnectStep, Overlaps
  <2>2. /\ \A j \in Connectors \ {k} : connect'[j] = connect[j]
        /\ connect'[k] = [at |-> "dial", conn |-> Nobody]
    BY <1>9 DEF Connect, ConnectStep, TypeOK, LinkTypes
  <2>3. \A c \in 1..Len(conns) : conns[c].state # "open"
    BY <1>9, <2>1 DEF Connect, LinkOK
  <2> QED
    BY <1>9, <2>1, <2>2, <2>3 DEF Connect, LinkOK
<1>10. ASSUME NEW k \in Connectors, ConnectDial(k) PROVE LinkOK'
  <2> SUFFICES ASSUME ~overlap' PROVE LinkOK'
    BY DEF LinkOK
  <2>1. /\ ~overlap /\ \A j \in Connectors \ {k} : connect[j].at = "idle"
        /\ \A d \in Disconnecters : disconnect[d] = "idle"
    BY <1>10 DEF ConnectDial, ConnectStep, Overlaps
  <2>2. /\ \A c \in 1..Len(conns) : conns[c].state = "open" => c = connect[k].conn
        /\ conns \in Seq(ConnType) /\ connect \in [Connectors -> ConnectType]
    BY <1>10, <2>1 DEF ConnectDial, LinkOK, TypeOK, LinkTypes
  <2>3. \A c \in 1..Len(conns) : conns[c].state # "open"
    <3>1. connect[k].conn = 0
      BY <1>10, <2>1 DEF ConnectDial, LinkOK
    <3> QED
      BY <2>2, <3>1
  <2>4. CASE conns' = Append(conns, Open) /\ ConnectStep(k, "bit", Len(conns) + 1)
    <3>1. /\ \A j \in Connectors \ {k} : connect'[j] = connect[j]
          /\ connect'[k] = [at |-> "bit", conn |-> Len(conns) + 1]
      BY <2>2, <2>4 DEF ConnectStep
    <3>2. \A c \in 1..Len(conns') : conns'[c].state = "open" => c = Len(conns) + 1
      BY <2>2, <2>3, <2>4
    <3> QED
      BY <1>10, <2>1, <3>1, <3>2 DEF ConnectDial, LinkOK
  <2>5. CASE ConnectStep(k, "idle", Nobody) /\ UNCHANGED conns
    <3>1. /\ \A j \in Connectors \ {k} : connect'[j] = connect[j]
          /\ connect'[k] = [at |-> "idle", conn |-> Nobody]
      BY <2>2, <2>5 DEF ConnectStep
    <3> QED
      BY <1>10, <2>1, <2>3, <2>5, <3>1 DEF ConnectDial, LinkOK
  <2> QED
    BY <1>10, <2>4, <2>5, ConnectDialEffect
<1>11. ASSUME NEW k \in Connectors, ConnectBit(k) PROVE LinkOK'
  <2> SUFFICES ASSUME ~overlap' PROVE LinkOK'
    BY DEF LinkOK
  <2>1. /\ ~overlap /\ \A j \in Connectors \ {k} : connect[j].at = "idle"
        /\ \A d \in Disconnecters : disconnect[d] = "idle"
    BY <1>11 DEF ConnectBit, ConnectStep, Overlaps
  <2>2. /\ \A j \in Connectors \ {k} : connect'[j] = connect[j]
        /\ connect'[k] = [at |-> "conn", conn |-> connect[k].conn]
    BY <1>11 DEF ConnectBit, ConnectStep, TypeOK, LinkTypes
  <2>3. \A c \in 1..Len(conns) : conns[c].state = "open" => c = connect[k].conn
    BY <1>11, <2>1 DEF ConnectBit, LinkOK
  <2> QED
    BY <1>11, <2>1, <2>2, <2>3 DEF ConnectBit, LinkOK
<1>12. ASSUME NEW k \in Connectors, ConnectConn(k) PROVE LinkOK'
  <2> SUFFICES ASSUME ~overlap' PROVE LinkOK'
    BY DEF LinkOK
  <2>1. /\ ~overlap /\ \A j \in Connectors \ {k} : connect[j].at = "idle"
        /\ \A d \in Disconnecters : disconnect[d] = "idle"
    BY <1>12 DEF ConnectConn, ConnectStep, Overlaps
  <2>2. /\ \A j \in Connectors \ {k} : connect'[j] = connect[j]
        /\ connect'[k] = [at |-> "idle", conn |-> Nobody]
    BY <1>12 DEF ConnectConn, ConnectStep, TypeOK, LinkTypes
  <2>3. \A c \in 1..Len(conns) : conns[c].state = "open" => status /\ c = connect[k].conn
    BY <1>12, <2>1 DEF ConnectConn, LinkOK
  <2> QED
    BY <1>12, <2>1, <2>2, <2>3 DEF ConnectConn, LinkOK
<1>13. ASSUME NEW d \in Disconnecters, DisconnectClear(d) PROVE LinkOK'
  <2> SUFFICES ASSUME ~overlap' PROVE LinkOK'
    BY DEF LinkOK
  <2>1. ~overlap /\ \A k \in Connectors : connect[k].at = "idle"
    BY <1>13 DEF DisconnectClear, DisconnectStep
  <2>2. conn # Nobody /\ conns[conn].state # "open"
    BY <1>13, <2>1 DEF DisconnectClear, LinkOK
  <2>3. \A c \in 1..Len(conns) : conns[c].state # "open"
    BY <2>1, <2>2 DEF LinkOK
  <2>4. UNCHANGED <<conn, conns, connect>>
    BY <1>13 DEF DisconnectClear
  <2> QED
    BY <2>1, <2>2, <2>3, <2>4 DEF LinkOK
<1>14. ASSUME NEW d \in Disconnecters, DisconnectXor(d) PROVE LinkOK'
  <2> SUFFICES ASSUME ~overlap' PROVE LinkOK'
    BY DEF LinkOK
  <2>1. ~overlap /\ \A k \in Connectors : connect[k].at = "idle"
    BY <1>14 DEF DisconnectXor, DisconnectStep
  <2>2. conn # Nobody /\ conns[conn].state # "open"
    BY <1>14, <2>1 DEF DisconnectXor, LinkOK
  <2>3. \A c \in 1..Len(conns) : conns[c].state # "open"
    BY <2>1, <2>2 DEF LinkOK
  <2>4. UNCHANGED <<conn, conns, connect>>
    BY <1>14 DEF DisconnectXor
  <2> QED
    BY <2>1, <2>2, <2>3, <2>4 DEF LinkOK
<1>15. ASSUME NEW c \in DOMAIN conns, Break(c) PROVE LinkOK'
  <2>1. c \in 1..Len(conns) /\ conns' = [conns EXCEPT ![c] = Dead("broken")]
    BY <1>15, BreakEffect
  <2>2. UNCHANGED <<status, conn, disconnect, connect, overlap>>
    BY <1>15 DEF Break
  <2> QED
    BY <2>1, <2>2, ConnDies, LinkStays
<1>16. ASSUME NEW r \in Requests, Send(r) PROVE LinkOK'
  BY <1>16 DEF Send, LinkOK
<1>17. ASSUME NEW r \in Requests, SendWrite(r) PROVE LinkOK'
  BY <1>17 DEF SendWrite, LinkOK
<1>18. ASSUME NEW r \in Requests, Wait(r) PROVE LinkOK'
  BY <1>18 DEF Wait, LinkOK
<1>19. ASSUME NEW r \in Requests, delWaiter(r) PROVE LinkOK'
  BY <1>19 DEF delWaiter, LinkOK
<1>20. ASSUME NEW r \in Requests, WaitTimeout(r) PROVE LinkOK'
  BY <1>20 DEF WaitTimeout, LinkOK
<1>21. ASSUME NEW r \in Requests, Answer(r) PROVE LinkOK'
  <2> DEFINE c == waiter[r].via
             x == [conns[c] EXCEPT !.stream = Append(conns[c].stream, r)]
  <2>0. c \in 1..Len(conns) /\ conns' = [conns EXCEPT ![c] = x]
    BY <1>21, AnswerEffect
  <2>1. c \in 1..Len(conns) /\ conns' = [conns EXCEPT ![c] = x] /\ conns[c] \in ConnType
    BY <2>0 DEF TypeOK, LinkTypes
  <2>2. /\ Len(conns') = Len(conns)
        /\ \A b \in 1..Len(conns) : conns'[b].state = conns[b].state
    BY <2>1 DEF TypeOK, LinkTypes, ConnType
  <2>3. UNCHANGED <<status, conn, disconnect, connect, overlap>>
    BY <1>21 DEF Answer
  <2> QED
    BY <2>2, <2>3, LinkStays
<1>22. ASSUME NEW r \in Requests, keep(r) PROVE LinkOK'
  BY <1>22 DEF keep, LinkOK
<1> QED
  BY <1>1, <1>2, <1>3, <1>4, <1>5, <1>6, <1>7, <1>8, <1>9, <1>10, <1>11, <1>12, <1>13,
         <1>14, <1>15, <1>16, <1>17, <1>18, <1>19, <1>20, <1>21, <1>22
     DEF Next, Reading, Connecting, Disconnecting, Waiting

LEMMA AStep == AInv /\ [Next]_vars => AInv'
<1> SUFFICES ASSUME AInv, [Next]_vars PROVE AInv'
  OBVIOUS
<1>1. CASE Next
  <2>1. TypeOK' /\ PointersOK' /\ WaitersOK' /\ AnswersOK' /\ LinkOK'
    BY <1>1, TypeStep, PointersStep, WaitersStep, AnswersStep, LinkStep DEF AInv
  <2>2. AnswersArrive'
    BY <1>1, ArriveStep DEF AInv, AnswersArrive, OnItsWay
  <2> QED
    BY <2>1, <2>2 DEF AInv
<1>2. CASE UNCHANGED vars
  BY <1>2 DEF vars, link, traffic, AInv, TypeOK, LinkTypes, TrafficTypes, PointersOK,
     WaitersOK, AnswersOK, AnswersArrive, LinkOK
<1> QED
  BY <1>1, <1>2

-----------------------------------------------------------------------------
\* The invariant holds in every state of every behaviour.
THEOREM AgentClientInvariant == Spec => []AInv
BY AInit, AStep, PTL DEF Spec

\* Wait, keep and the reader share a waiter's channel and its entry in the map;
\* whatever their order, nobody closes the channel a second time (which would
\* panic): it is closed once exactly when the waiter has left the map, and both
\* close it only for a waiter that is still there.
THEOREM ChannelsClosedOnce == Spec => []ClosedOnce
<1>1. AInv => ClosedOnce
  BY DEF AInv, WaitersOK, WaiterOK, ClosedOnce
<1> QED
  BY <1>1, AgentClientInvariant, PTL

\* An answer that was read while its waiter is in the map reaches the caller, or
\* is lost because a late answer made onMessage drop its buffer: no other order
\* of read, lookup, send and clean-up loses one.
THEOREM AnswersReachCallers == Spec => []AnswersArrive
<1>1. AInv => AnswersArrive
  BY DEF AInv
<1> QED
  BY <1>1, AgentClientInvariant, PTL

\* However Connect, Disconnect, the reader and the peer follow each other, no
\* connection stays open that the client does not use, as long as no Connect
\* overlaps another one or a Disconnect.
THEOREM NoConnectionLeak == Spec => []NoLeak
<1>1. AInv => NoLeak
  <2> SUFFICES ASSUME AInv, ~overlap, NEW c \in DOMAIN conns, conns[c].state = "open"
               PROVE  (status /\ conn = c) \/ \E k \in Connectors : connect[k].conn = c
    BY DEF NoLeak
  <2>1. c \in 1..Len(conns) /\ LinkOK
    BY DEF AInv, TypeOK, LinkTypes
  <2> QED
    BY <2>1 DEF LinkOK
<1> QED
  BY <1>1, AgentClientInvariant, PTL
=============================================================================
