------------------------------- MODULE Wire -------------------------------
(***************************************************************************)
(* How messages become bytes and bytes become messages again: the agent's  *)
(* codec (agent/codec.go), the packages of the subscription service        *)
(* (services/service_util.go, client/tcp.go) and the position record       *)
(* (binlog/binlog_util.go), over connections that deliver a stream in      *)
(* pieces of any size and may break anywhere.                              *)
(*                                                                         *)
(* A byte is a digit to the base Base, 256 in the code: every field keeps  *)
(* its width, and byte(x >> 8) is the next digit.                          *)
(***************************************************************************)
EXTENDS Integers, Sequences, FiniteSetsExt, SequencesExt

CONSTANTS
    Base,               \* values of a byte
    PackageMaxLength,   \* limit of the agent's buffer
    ReadSize,           \* size of a reader's buffer
    MinRead,            \* size of the buffer the position record is read into
    Traffic,            \* what is sent: [proto, messages], of which a behaviour has one
    MaxBreaks           \* connections that break

Byte == 0..(Base - 1)

CMD_SET_PRO == 0
CMD_TICK == 3
CMD_EVENT == 4
CMD_POS == 9

hasCmd(cmd) == cmd \in 0..9

\* What a byte counts for, with i bytes below it.
Weight[i \in 0..8] == IF i = 0 THEN 1 ELSE Base * Weight[i - 1]

\* n in w bytes, the lowest first, and back.
Digits(n, w) == [i \in 1..w |-> (n \div Weight[i - 1]) % Base]
Number(bytes) ==
    LET sum[i \in 0..Len(bytes)] ==
            IF i = 0 THEN 0 ELSE sum[i - 1] + bytes[i] * Weight[i - 1]
    IN  sum[Len(bytes)]

-----------------------------------------------------------------------------
(* Messages to bytes. *)

PackageHeader == [i \in 1..4 |-> Base - 1]

\* Header, length of what follows, message id, content.
Encode(msgID, msg) ==
    PackageHeader \o Digits(Len(msg) + 8, 4) \o Digits(msgID, 8) \o msg

\* Length of what follows, command, content.
Pack(cmd, msg) == Digits(Len(msg) + 2, 4) \o Digits(cmd, 2) \o msg

\* The same in the subscriber's library, whose fourth length byte is l >> 32.
LengthOf(l) == SubSeq(Digits(l, 5), 1, 3) \o <<Digits(l, 5)[5]>>
pack(cmd, content) == LengthOf(Len(content) + 2) \o Digits(cmd, 2) \o content
setPro(content) ==
    LengthOf(Len(content) + 3) \o Digits(CMD_SET_PRO, 2) \o <<0>> \o content

\* Length of what follows, position, event index, name of the binlog file.
packPos(p) ==
    Digits(16 + Len(p.file), 2) \o Digits(p.pos, 8) \o Digits(p.index, 8) \o p.file

-----------------------------------------------------------------------------
(* Bytes to messages. *)

NoPos == [file |-> <<>>, pos |-> 0, index |-> 0]

\* Mutant: the name is taken to reach to the first zero.
unpackPosRest(data) ==
    LET zeros == {i \in 19..Len(data) : data[i] = 0}
    IN  [file |-> SubSeq(data, 19, IF zeros = {} THEN Len(data) ELSE Min(zeros) - 1),
         pos |-> Number(SubSeq(data, 3, 10)), index |-> Number(SubSeq(data, 11, 18))]

unpackPos(data) ==
    LET dl == Number(SubSeq(data, 1, 2))
    IN  IF dl + 2 < 18 \/ dl > Len(data) - 2 THEN NoPos
        ELSE [file |-> SubSeq(data, 19, dl + 2), pos |-> Number(SubSeq(data, 3, 10)),
              index |-> Number(SubSeq(data, 11, 18))]

\* What decoding the front of a buffer comes to: wait for more, drop the buffer, a
\* message and the bytes it took, or a panic that nobody recovers from.
Wait == [kind |-> "wait", cmd |-> 0, data |-> <<>>, size |-> 0]
Drop == [Wait EXCEPT !.kind = "drop"]
Panic == [Wait EXCEPT !.kind = "panic"]
Message(cmd, data, size) == [kind |-> "message", cmd |-> cmd, data |-> data, size |-> size]

\* What the agent's callback makes of a content: nothing of a keepalive package;
\* an index out of range panics, and onMessage recovers.
Unpack(content, size) ==
    LET clen == Number(SubSeq(content, 1, 4))
    IN  IF content = <<0>> THEN Message(CMD_TICK, <<>>, size)
        ELSE IF Len(content) < 4 THEN Drop
        ELSE IF Len(content) < clen + 4 THEN Message(-1, <<>>, size)
        ELSE IF Len(content) < 6 \/ clen < 2 THEN Drop
        ELSE Message(Number(SubSeq(content, 5, 6)), SubSeq(content, 7, clen + 4), size)

\* Mutant: the buffer may not reach its limit.
DecodeLimit(data, array) ==
    LET clen == Number(SubSeq(data, 5, 8))
    IN  IF Len(data) >= PackageMaxLength THEN {Drop}
        ELSE IF Len(data) < 16 THEN {Wait}
        ELSE IF Len(data) < clen + 8 THEN {Wait}
        ELSE {Unpack(SubSeq(data, 17, clen + 8), clen + 8)}

\* Mutant: the limit is looked at when the message is there.
DecodeLimitLate(data, array) ==
    LET clen == Number(SubSeq(data, 5, 8))
    IN  IF Len(data) < 16 THEN {Wait}
        ELSE IF Len(data) < clen + 8 THEN {Wait}
        ELSE IF Len(data) > PackageMaxLength THEN {Drop}
        ELSE {Unpack(SubSeq(data, 17, clen + 8), clen + 8)}

\* data[i:j] may reach past the end of data: it shows what the array under data
\* holds there, zero where nothing was written.
Shown(array, i, j) ==
    [k \in 1..(j - i) |-> IF i + k <= Len(array) THEN array[i + k] ELSE 0]

\* Decode looks at data[:4], whatever the length of data; if that is no header it
\* looks for one further on, and then compares lengths as if the header were at
\* the start.  A slice past what was ever written may also be past the array's
\* end: it panics, and onMessage recovers and drops the buffer.
Decode(data, array) ==
    LET headers == {i \in 0..(Len(data) - 4) : SubSeq(data, i + 1, i + 4) = PackageHeader}
        atStart == Shown(array, 0, 4) = PackageHeader
        start == IF atStart THEN 0 ELSE Min(headers)
        clen == Number(Shown(array, start + 4, start + 8))
        msgID == Number(Shown(array, start + 8, start + 16))
        end == start + clen + 8
        past(n) == IF n > Len(array) THEN {Drop} ELSE {}
    IN  IF data = <<>> THEN {Wait}
        ELSE IF ~atStart /\ headers = {} THEN {Drop}
        ELSE IF Len(data) > PackageMaxLength THEN {Drop}
        ELSE IF Len(data) < 16 THEN {Wait}
        ELSE IF clen < 8 THEN {Drop}
        ELSE IF Len(data) < clen + 8 THEN {Wait} \cup past(start + 8)
        ELSE IF msgID = 0 \/ msgID >= Weight[8] \div 2 THEN {Wait} \cup past(end)
        ELSE {Unpack(Shown(array, start + 16, end), end)} \cup past(end)

\* onMessage of the service's node, which knows two commands and reads the first
\* byte of a topic, ...
DecodeNode(data) ==
    LET clen == Number(SubSeq(data, 1, 4))
        cmd == Number(SubSeq(data, 5, 6))
    IN  IF Len(data) < 6 \/ Len(data) < clen + 4 THEN Wait
        ELSE IF ~hasCmd(cmd) THEN Drop
        ELSE IF clen < 2 \/ (cmd = CMD_SET_PRO /\ clen = 2) THEN Panic
        ELSE IF cmd \notin {CMD_SET_PRO, CMD_TICK} THEN Drop
        ELSE Message(cmd, SubSeq(data, 7, clen + 4), clen + 4)

\* ... and that of the subscriber's library, which looks at the command first.
DecodeClient(data) ==
    LET contentLen == Number(SubSeq(data, 1, 4))
        cmd == Number(SubSeq(data, 5, 6))
    IN  IF Len(data) < 6 THEN Wait
        ELSE IF ~hasCmd(cmd) THEN Drop
        ELSE IF Len(data) < contentLen + 4 THEN Wait
        ELSE IF contentLen < 2 THEN Panic
        ELSE Message(cmd, SubSeq(data, 7, contentLen + 4), contentLen + 4)

-----------------------------------------------------------------------------
(* What is sent: any message of a known command, but keepalive packages and     *)
(* ticks are empty, topics start with a zero byte, positions are records that  *)
(* fit their reader, and lengths fit the three or four bytes there are.        *)

IsRecord(data) ==
    Len(data) \in 18..MinRead /\ Number(SubSeq(data, 1, 2)) = Len(data) - 2

Sendable(proto, m) ==
    CASE proto = "agent" -> /\ m.cmd = CMD_TICK => m.data = <<>>
                            /\ m.cmd = CMD_POS => IsRecord(m.data)
                            /\ Len(m.data) + 14 < Weight[4]
      [] proto = "node" -> /\ \/ m.cmd = CMD_TICK /\ m.data = <<>>
                              \/ m.cmd = CMD_SET_PRO /\ m.data # <<>> /\ Head(m.data) = 0
                           /\ Len(m.data) + 2 < Weight[3]
      [] proto = "client" -> Len(m.data) + 2 < Weight[4]

ASSUME WireAssumption ==
    /\ Base \in 4..256     \* every command fits two bytes
    /\ {PackageMaxLength, ReadSize, MinRead, MaxBreaks} \subseteq Nat
    /\ Traffic \subseteq [proto : {"agent", "node", "client"},
                          messages : Seq([cmd : 0..9, data : Seq(Byte)])]
    /\ \A t \in Traffic : \A i \in DOMAIN t.messages : Sendable(t.proto, t.messages[i])

-----------------------------------------------------------------------------
VARIABLES
    sent,       \* what is sent, and in which protocol
    pending,    \* messages not yet received in full on this connection
    stream,     \* bytes not yet read
    buffer,     \* the receiver's buffer
    array,      \* what its array was ever written, zero beyond
    at,         \* the receiver is in "read" or, in onMessage, in "decode", or "halted"
    out,        \* messages handed to the callbacks
    file,       \* the cache file of the position record
    due,        \* history: messages received in full
    split,      \* history: a first read ended inside its first header
    torn,       \* history: a connection broke with part of a message in the buffer
    breaks      \* connections that may still break

vars == <<sent, pending, stream, buffer, array, at, out, file, due, split, torn, breaks>>

\* The bytes of a message: positions and events broadcast to the agents, topics
\* and ticks of a subscriber, events and answers of the service.
Bytes(proto, m) ==
    CASE proto = "agent" -> IF m.cmd = CMD_TICK THEN Encode(1, <<0>>)
                            ELSE Encode(1, Pack(m.cmd, m.data))
      [] proto = "node" -> IF m.cmd = CMD_TICK THEN pack(CMD_TICK, <<>>)
                           ELSE setPro(Tail(m.data))
      [] proto = "client" -> Pack(m.cmd, m.data)

AllBytes(proto, ms) == FlattenSeq([i \in DOMAIN ms |-> Bytes(proto, ms[i])])

Init ==
    /\ sent \in Traffic
    /\ pending = sent.messages /\ stream = AllBytes(sent.proto, sent.messages)
    /\ buffer = <<>> /\ array = <<>> /\ at = "read"
    /\ out = <<>> /\ file = <<>>
    /\ due = <<>> /\ split = FALSE /\ torn = FALSE
    /\ breaks = MaxBreaks

\* The buffer and its array: bytes are written over what the array held.  (When it
\* grows, append copies the buffer, and the new array has nothing else.)
Over(b, a) == b \o SubSeq(a, Len(b) + 1, Len(a))
SetBuffer(b) == buffer' = b /\ array' = Over(b, array)

NewBuffer == buffer' = <<>> /\ array' = <<>>

\* A piece of the stream arrives and is appended to the buffer.
Read(k) ==
    /\ at = "read" /\ k <= Len(stream)
    /\ SetBuffer(buffer \o SubSeq(stream, 1, k))
    /\ stream' = SubSeq(stream, k + 1, Len(stream))
    /\ LET left(j) == Len(AllBytes(sent.proto, SubSeq(pending, j + 1, Len(pending))))
           done == Max({j \in 0..Len(pending) : Len(stream') <= left(j)})
       IN  /\ due' = due \o SubSeq(pending, 1, done)
           /\ pending' = SubSeq(pending, done + 1, Len(pending))
    /\ split' = (split \/ (sent.proto = "agent" /\ array = <<>> /\ Len(buffer') < 4))
    /\ at' = "decode"
    /\ UNCHANGED <<sent, out, file, torn, breaks>>

\* The connection breaks and is made again; the sender goes on with a message it
\* had not begun to write.  The agent's client and the subscriber's keep their
\* buffer, the service makes a new node.
Reconnect(k) ==
    /\ breaks > 0 /\ at = "read"
    /\ Len(stream) = Len(AllBytes(sent.proto, pending)) \/ k > 1
    /\ pending' = SubSeq(pending, k, Len(pending))
    /\ stream' = AllBytes(sent.proto, pending')
    /\ IF sent.proto = "node" THEN NewBuffer /\ UNCHANGED torn
       ELSE torn' = (torn \/ buffer # <<>>) /\ UNCHANGED <<buffer, array>>
    /\ breaks' = breaks - 1
    /\ UNCHANGED <<sent, at, out, file, due, split>>

Results ==
    CASE sent.proto = "agent" -> Decode(buffer, array)
      [] sent.proto = "node" -> {DecodeNode(buffer)}
      [] sent.proto = "client" -> {DecodeClient(buffer)}

\* The cache file is written from its start and not truncated ...
WriteAt(r) == file' = Over(r, file)

\* ... and read into a buffer of zeros.
getBinlogPositionCache ==
    IF file = <<>> THEN NoPos
    ELSE unpackPos([i \in 1..MinRead |-> IF i <= Len(file) THEN file[i] ELSE 0])

\* onMessage waits for more, ...
onMessageWait ==
    /\ at = "decode" /\ Wait \in Results
    /\ at' = "read"
    /\ UNCHANGED <<sent, pending, stream, buffer, array, out, file, due, split,
                   torn, breaks>>

\* ... drops its buffer, ...
onMessageDrop ==
    /\ at = "decode" /\ Drop \in Results
    /\ NewBuffer
    /\ at' = "read"
    /\ UNCHANGED <<sent, pending, stream, out, file, due, split, torn, breaks>>

\* ... ends the process, ...
onMessagePanics ==
    /\ at = "decode" /\ Panic \in Results
    /\ at' = "halted"
    /\ UNCHANGED <<sent, pending, stream, buffer, array, out, file, due, split,
                   torn, breaks>>

\* ... or takes a message from it, calls the callbacks and goes on.  A message that
\* took more than there is, of old bytes, leaves a new buffer and reaches them too.
\* A position is saved, unless unpackPos finds it too short and panics.
onMessage ==
    /\ at = "decode"
    /\ \E r \in Results :
        /\ r.kind = "message"
        /\ LET pos == sent.proto = "agent" /\ r.cmd = CMD_POS
               bad == pos /\ Len(r.data) < 18
           IN  /\ IF bad \/ r.size > Len(buffer) THEN NewBuffer
                  ELSE SetBuffer(SubSeq(buffer, r.size + 1, Len(buffer)))
               /\ at' = IF bad THEN "read" ELSE "decode"
               /\ IF pos /\ ~bad THEN WriteAt(r.data) ELSE UNCHANGED file
               /\ out' = IF bad \/ r.cmd = -1 THEN out
                         ELSE Append(out, [cmd |-> r.cmd, data |-> r.data])
    /\ UNCHANGED <<sent, pending, stream, due, split, torn, breaks>>

Next ==
    \/ \E k \in 1..ReadSize : Read(k)
    \/ \E k \in 1..(Len(pending) + 1) : Reconnect(k)
    \/ onMessageWait \/ onMessageDrop \/ onMessagePanics \/ onMessage

Spec == Init /\ [][Next]_vars

-----------------------------------------------------------------------------
(* Properties. *)

\* Every variable keeps its type: bytes stay bytes, whatever is decoded.
TypeOK ==
    /\ sent \in Traffic
    /\ {stream, buffer, array, file} \subseteq Seq(Byte)
    /\ at \in {"read", "decode", "halted"}
    /\ {split, torn} \subseteq BOOLEAN
    /\ breaks \in 0..MaxBreaks

\* The agent's buffer may hold one message short of a byte and what a read adds.
Short == \A i \in DOMAIN sent.messages :
            Len(Bytes(sent.proto, sent.messages[i])) - 1 + ReadSize <= PackageMaxLength

\* However the stream is cut, what the callbacks get is what was sent, in order
\* and to the last message that has arrived, if no message of the agent is too
\* long, and the first read of the agent gets at least a header, and no
\* connection broke inside a message.  Headers cut later do no harm, only
\* because the array still holds the header of the message before.
Framed ==
    ~torn /\ ~split /\ (sent.proto = "agent" => Short) =>
        IF at = "read" THEN out = due ELSE IsPrefix(out, due)

PositionsOut == {i \in DOMAIN out : out[i].cmd = CMD_POS}

\* After a restart the position is the last one that was received, although the
\* record is written over a longer one and read with what is left of it.  It is
\* said of a receiver in step: one that is not may save what it takes for a record.
PositionKept ==
    ~torn /\ ~split /\ sent.proto = "agent" /\ Short =>
        getBinlogPositionCache = IF PositionsOut = {} THEN NoPos
                                 ELSE unpackPos(out[Max(PositionsOut)].data)

\* A receiver that waits for more keeps little: the agent's no more than its limit,
\* whatever it received; the other two, which have no limit, less than the message
\* that is arriving, unless a connection broke inside one.
BufferBounded ==
    at = "read" =>
        IF sent.proto = "agent" THEN Len(buffer) <= PackageMaxLength
        ELSE torn \/ IF pending = <<>> THEN buffer = <<>>
                     ELSE Len(buffer) < Len(Bytes(sent.proto, Head(pending)))

=============================================================================
