---------------------------- MODULE BinlogProofs ----------------------------
(***************************************************************************)
(* Proofs about Binlog, for every binlog, every number of goroutines and   *)
(* every bound: type correctness, at-least-once delivery, one stream at a  *)
(* time, a standalone node's row numbers and saved positions, and that it  *)
(* implements the durable feed of EventFeed.                               *)
(***************************************************************************)
EXTENDS Binlog, SliceFacts, TLAPS

\* Each goroutine's cursor stays within the server's binlog, and its place in
\* the code agrees with the kind of event under the cursor.
CursorOK ==
    \A k \in Runners :
        /\ pc[k] \in {"run", "fetch"} => cur[k] \in 1..head + 1
        /\ pc[k] \in {"row", "save", "last"} => cur[k] \in 1..head
        /\ pc[k] = "row" => row[k] < RowCount[cur[k]]
        /\ pc[k] # "row" => row[k] = 0
        /\ pc[k] \in {"save", "last"} => RowCount[cur[k]] = 0

\* No goroutine outlives the process.
DownOK ==
    ~up => /\ lookStart = "returned"
           /\ \A k \in Runners : pc[k] = "idle"

\* Until binlogIsExit is raised, a position that may still be saved or be
\* started from has no unsent row before it.
LastPosOK == binlogIsExit \notin status => Covered(Begin, delivered, lastPos)

\* The same of a goroutine's cursor, and of the rows within its event.
RunnerOK(k) ==
    /\ pc[k] \in {"run", "fetch", "row", "save", "last"} =>
          Covered(Begin, delivered, cur[k] - 1)
    /\ pc[k] = "row" => \A r \in 1..row[k] : Done(delivered, cur[k], r)

ProgressOK == binlogIsExit \notin status => \A k \in Runners : RunnerOK(k)

\* A position received from the leader is vouched for by the leader.
InboxOK == inbox.pos <= Begin

\* What is to be shown of the positions.
SInv == InboxOK /\ LastPosOK /\ ProgressOK /\ NoRowSkipped

-----------------------------------------------------------------------------
(* The type part of the invariant, one lemma per action that needs more     *)
(* than a glance; Frame says that a part whose variables stay put holds on. *)
TInv == TypeOK /\ CursorOK /\ DownOK

\* Where the feed begins when nothing moves it.
LEMMA BeginStays == ASSUME UNCHANGED <<base, anew>> PROVE Begin' = Begin
BY DEF Begin

\* The first boot comes before everything else, and from then on every position
\* that is remembered, received or saved is one of the server's.
BootOK ==
    /\ base = 0 => ~up /\ cache.pos = 0 /\ anew = 0
    /\ ~up => lookStop = "returned" /\ inbox.at = "none"
    /\ up => lastPos >= 1
    /\ inbox.at # "none" => inbox.pos >= 1

LEMMA TypeInit == Init => TInv
<1> SUFFICES ASSUME Init PROVE TInv
  OBVIOUS
<1> USE ModelAssumption DEF Init, main, signals
<1>1. ProcessOK
  BY DEF ProcessOK
<1>2. SignalsOK
  BY DEF SignalsOK, Bounded
<1>3. GoroutinesOK
  BY DEF GoroutinesOK, Idle, Zero
<1>4. PositionsOK /\ DeliveredOK
  BY DEF PositionsOK, DeliveredOK, Position, Event, NoCall, NoPos
<1>5. CursorOK /\ DownOK
  BY DEF CursorOK, DownOK, Idle, Zero
<1> QED
  BY <1>1, <1>2, <1>3, <1>4, <1>5 DEF TInv, TypeOK

LEMMA FrameProcess ==
    ASSUME ProcessOK, UNCHANGED <<up, ctxDone, leading, closing, status, statusLock>> PROVE ProcessOK'
BY DEF ProcessOK

LEMMA FrameSignals ==
    ASSUME SignalsOK, UNCHANGED <<startServiceChan, stopServiceChan, lookStart, lookStop, handler, open, used>> PROVE SignalsOK'
BY DEF SignalsOK

LEMMA FrameGoroutines ==
    ASSUME GoroutinesOK, UNCHANGED <<pc, cur, row, idx, canal>> PROVE GoroutinesOK'
BY DEF GoroutinesOK

LEMMA FramePositions ==
    ASSUME PositionsOK, UNCHANGED <<head, EventIndex, lastPos, inbox, cache, base, anew>> PROVE PositionsOK'
BY DEF PositionsOK

LEMMA FrameDelivered ==
    ASSUME DeliveredOK, UNCHANGED <<delivered>> PROVE DeliveredOK'
BY DEF DeliveredOK

LEMMA FrameCursor ==
    ASSUME CursorOK, UNCHANGED <<pc, cur, row, head>> PROVE CursorOK'
BY DEF CursorOK

\* One goroutine moves, to a cursor that is right; the others stay.
LEMMA CursorStep ==
    ASSUME CursorOK, UNCHANGED head, NEW k \in Runners,
           \A j \in Runners \ {k} :
               pc'[j] = pc[j] /\ cur'[j] = cur[j] /\ row'[j] = row[j],
           pc'[k] \in {"run", "fetch"} => cur'[k] \in 1..head + 1,
           pc'[k] \in {"row", "save", "last"} => cur'[k] \in 1..head,
           pc'[k] = "row" => row'[k] < RowCount[cur'[k]],
           pc'[k] # "row" => row'[k] = 0,
           pc'[k] \in {"save", "last"} => RowCount[cur'[k]] = 0
    PROVE  CursorOK'
BY DEF CursorOK

\* A goroutine whose RunFrom returned has no cursor.
LEMMA CursorLeft ==
    ASSUME GoroutinesOK, CursorOK, NEW k \in Runners, pc[k] # "row",
           Leave(k, "idle") \/ Leave(k, "err")
    PROVE  CursorOK'
<1>1. head' = head /\ pc'[k] \in {"idle", "err"} /\ row' = row
  BY DEF Leave, GoroutinesOK
<1>2. \A j \in Runners \ {k} : pc'[j] = pc[j] /\ cur'[j] = cur[j]
  BY DEF Leave, GoroutinesOK
<1>3. row[k] = 0
  BY DEF CursorOK
<1> QED
  BY <1>1, <1>2, <1>3, CursorStep

LEMMA FrameDown ==
    ASSUME DownOK, UNCHANGED <<up, lookStart, pc>> PROVE DownOK'
BY DEF DownOK

\* A signal sent on a channel with room leaves the channel well typed.
LEMMA RoomInChan == \A n \in 0..ChanCap : n < ChanCap => n + 1 \in 0..ChanCap
BY ModelAssumption

LEMMA StopQueued == \A s \in Seq(BOOLEAN) : Append(s, FALSE) \in Seq(BOOLEAN)
OBVIOUS

\* The server's binlog is not empty, and ends at LastEvent.
LEMMA HeadBounds ==
    ASSUME PositionsOK
    PROVE  /\ LastEvent \in Nat /\ head \in Nat /\ 1 <= head /\ head <= LastEvent
           /\ 0 \in 0..LastEvent + 1 /\ head \in Position
           /\ base \in Nat /\ anew \in Nat /\ base <= head /\ anew <= head
BY ModelAssumption DEF PositionsOK, Event, Position

LEMMA TypeStep == TInv /\ [Next]_vars => TInv'
<1> SUFFICES ASSUME TInv, [Next]_vars PROVE TInv'
  OBVIOUS
<1> USE ModelAssumption
<1>0. /\ ProcessOK /\ SignalsOK /\ GoroutinesOK /\ PositionsOK /\ DeliveredOK
      /\ CursorOK /\ DownOK
      /\ LastEvent \in Nat /\ head \in Nat /\ 1 <= head /\ head <= LastEvent
      /\ 0 \in 0..LastEvent + 1
  BY HeadBounds DEF TInv, TypeOK
<1> USE DEF main, goroutines, signals, loops, canals, memory, history,
            binlogIsRunning, binlogIsExit, cacheHandlerIsOpened
<1>1. CASE MasterWrite
  <2>1. PositionsOK'
    BY <1>0, <1>1 DEF MasterWrite, PositionsOK, Position, Event
  <2>2. CursorOK'
    <3>1. head \in Nat /\ head' = head + 1 /\ UNCHANGED <<pc, cur, row>>
      BY <1>0, <1>1 DEF MasterWrite, PositionsOK, Position, Event
    <3>2. 1..head \subseteq 1..head' /\ 1..head + 1 \subseteq 1..head' + 1
      BY <3>1
    <3> QED
      BY <1>0, <3>1, <3>2 DEF CursorOK
  <2> QED
    BY <1>0, <1>1, <2>1, <2>2, FrameProcess, FrameSignals, FrameGoroutines,
       FrameDelivered, FrameDown
       DEF TInv, TypeOK, MasterWrite
<1>2. CASE Boot
  <2>1. ProcessOK'
    BY <1>0, <1>2 DEF Boot, StartFrom, Spend, Bounded, ProcessOK
  <2>2. SignalsOK'
    BY <1>0, <1>2 DEF Boot, StartFrom, Spend, Bounded, SignalsOK
  <2>3. PositionsOK'
    BY <1>0, <1>2 DEF Boot, StartFrom, Spend, Bounded, PositionsOK, Position, Event
  <2>4. DownOK'
    BY <1>0, <1>2 DEF Boot, StartFrom, Spend, Bounded, DownOK, GoroutinesOK
  <2> QED
    BY <1>0, <1>2, <2>1, <2>2, <2>3, <2>4, FrameGoroutines, FrameDelivered,
       FrameCursor
       DEF TInv, TypeOK, Boot, StartFrom, Spend, Bounded
<1>3. CASE Crash
  <2>1. ProcessOK'
    BY <1>0, <1>3 DEF Crash, Halt, Idle, Zero, NoCall, ProcessOK
  <2>2. SignalsOK'
    BY <1>0, <1>3 DEF Crash, Halt, Idle, Zero, NoCall, SignalsOK
  <2>3. GoroutinesOK'
    BY <1>0, <1>3 DEF Crash, Halt, Idle, Zero, NoCall, GoroutinesOK, CursorOK,
       PositionsOK, Position, Event
  <2>4. PositionsOK'
    BY <1>0, <1>3 DEF Crash, Halt, Idle, Zero, NoCall, PositionsOK, Position, Event
  <2>5. CursorOK'
    BY <1>0, <1>3 DEF Crash, Halt, Idle, Zero, NoCall, CursorOK, GoroutinesOK,
       PositionsOK, Position, Event
  <2>6. DownOK'
    BY <1>0, <1>3 DEF Crash, Halt, Idle, Zero, NoCall, DownOK, GoroutinesOK
  <2> QED
    BY <1>0, <1>3, <2>1, <2>2, <2>3, <2>4, <2>5, <2>6, FrameDelivered
       DEF TInv, TypeOK, Crash, Halt, Idle, Zero, NoCall
<1>4. CASE Exit
  <2>1. ProcessOK'
    BY <1>0, <1>4 DEF Exit, Halt, Idle, Zero, NoCall, ProcessOK
  <2>2. SignalsOK'
    BY <1>0, <1>4 DEF Exit, Halt, Idle, Zero, NoCall, SignalsOK
  <2>3. GoroutinesOK'
    BY <1>0, <1>4 DEF Exit, Halt, Idle, Zero, NoCall, GoroutinesOK, CursorOK,
       PositionsOK, Position, Event
  <2>4. PositionsOK'
    BY <1>0, <1>4 DEF Exit, Halt, Idle, Zero, NoCall, PositionsOK, Position, Event
  <2>5. CursorOK'
    BY <1>0, <1>4 DEF Exit, Halt, Idle, Zero, NoCall, CursorOK, GoroutinesOK,
       PositionsOK, Position, Event
  <2>6. DownOK'
    BY <1>0, <1>4 DEF Exit, Halt, Idle, Zero, NoCall, DownOK, GoroutinesOK
  <2> QED
    BY <1>0, <1>4, <2>1, <2>2, <2>3, <2>4, <2>5, <2>6, FrameDelivered
       DEF TInv, TypeOK, Exit, Halt, Idle, Zero, NoCall
<1>5. CASE Cancel
  <2>1. ProcessOK'
    BY <1>0, <1>5 DEF Cancel, Spend, Bounded, ProcessOK
  <2>2. SignalsOK'
    BY <1>0, <1>5 DEF Cancel, Spend, Bounded, SignalsOK
  <2> QED
    BY <1>0, <1>5, <2>1, <2>2, FrameGoroutines, FramePositions,
       FrameDelivered, FrameCursor, FrameDown
       DEF TInv, TypeOK, Cancel, Spend, Bounded
<1>6. CASE Close
  <2>1. ProcessOK'
    BY <1>0, <1>6 DEF Close, ProcessOK
  <2> QED
    BY <1>0, <1>6, <2>1, FrameSignals, FrameGoroutines, FramePositions,
       FrameDelivered, FrameCursor, FrameDown
       DEF TInv, TypeOK, Close
<1>7. CASE CloseStopService
  <2>1. ProcessOK'
    BY <1>0, <1>7 DEF CloseStopService, ProcessOK
  <2>2. SignalsOK'
    BY <1>0, <1>7 DEF CloseStopService, SignalsOK
  <2> QED
    BY <1>0, <1>7, <2>1, <2>2, FrameGoroutines, FramePositions,
       FrameDelivered, FrameCursor, FrameDown
       DEF TInv, TypeOK, CloseStopService
<1>8. ASSUME NEW isLeader \in BOOLEAN, OnLeader(isLeader) PROVE TInv'
  <2>1. ProcessOK'
    BY <1>0, <1>8 DEF OnLeader, Spend, Bounded, ProcessOK
  <2>2. SignalsOK'
    <3>0. \/ /\ startServiceChan < ChanCap
             /\ startServiceChan' = startServiceChan + 1
             /\ UNCHANGED stopServiceChan
          \/ /\ stopServiceChan' = Append(stopServiceChan, FALSE)
             /\ UNCHANGED startServiceChan
      BY <1>8, Zenon DEF OnLeader
    <3>1. startServiceChan' \in 0..ChanCap
      BY <1>0, <3>0, RoomInChan, Zenon DEF SignalsOK
    <3>2. stopServiceChan' \in Seq(BOOLEAN)
      BY <1>0, <3>0, StopQueued, Zenon DEF SignalsOK
    <3>3. used' \in [Bounded -> Nat]
      BY <1>0, <1>8 DEF OnLeader, SignalsOK, Spend, Bounded
    <3> QED
      BY <1>0, <1>8, <3>1, <3>2, <3>3 DEF OnLeader, SignalsOK
  <2> QED
    BY <1>0, <1>8, <2>1, <2>2, FrameGoroutines, FramePositions,
       FrameDelivered, FrameCursor, FrameDown
       DEF TInv, TypeOK, OnLeader, Spend, Bounded
<1>9. CASE LookStartIgnore
  <2>1. SignalsOK'
    BY <1>0, <1>9 DEF LookStartIgnore, SignalsOK
  <2> QED
    BY <1>0, <1>9, <2>1, FrameProcess, FrameGoroutines, FramePositions,
       FrameDelivered, FrameCursor, FrameDown
       DEF TInv, TypeOK, LookStartIgnore
<1>10. CASE LookStartSpawn
  <2>1. ProcessOK'
    BY <1>0, <1>10 DEF LookStartSpawn, ProcessOK
  <2>2. SignalsOK'
    BY <1>0, <1>10 DEF LookStartSpawn, SignalsOK
  <2>3. GoroutinesOK'
    BY <1>0, <1>10 DEF LookStartSpawn, GoroutinesOK
  <2>4. CursorOK'
    BY <1>0, <1>10 DEF LookStartSpawn, CursorOK, GoroutinesOK, PositionsOK,
       Position, Event
  <2>5. DownOK'
    BY <1>0, <1>10 DEF LookStartSpawn, DownOK, GoroutinesOK
  <2> QED
    BY <1>0, <1>10, <2>1, <2>2, <2>3, <2>4, <2>5, FramePositions,
       FrameDelivered
       DEF TInv, TypeOK, LookStartSpawn
<1>11. CASE LookStartDone
  <2>1. SignalsOK'
    BY <1>0, <1>11 DEF LookStartDone, SignalsOK
  <2>2. DownOK'
    BY <1>0, <1>11 DEF LookStartDone, DownOK, GoroutinesOK
  <2> QED
    BY <1>0, <1>11, <2>1, <2>2, FrameProcess, FrameGoroutines, FramePositions,
       FrameDelivered, FrameCursor
       DEF TInv, TypeOK, LookStartDone
<1>12. CASE LookStopSignal
  <2>1. ProcessOK'
    BY <1>0, <1>12 DEF LookStopSignal, ProcessOK
  <2>2. SignalsOK'
    <3>0. stopServiceChan # <<>> /\ stopServiceChan' = Tail(stopServiceChan)
      BY <1>12 DEF LookStopSignal
    <3>1. stopServiceChan' \in Seq(BOOLEAN)
      BY <1>0, <3>0 DEF SignalsOK
    <3>2. lookStop' \in {"reset", "save", "clear"} /\ open' \subseteq open
      BY <1>12 DEF LookStopSignal
    <3> QED
      BY <1>0, <1>12, <3>1, <3>2 DEF LookStopSignal, SignalsOK
  <2> QED
    BY <1>0, <1>12, <2>1, <2>2, FrameGoroutines, FramePositions,
       FrameDelivered, FrameCursor, FrameDown
       DEF TInv, TypeOK, LookStopSignal
<1>13. CASE LookStopReset
  <2>1. ProcessOK'
    BY <1>0, <1>13 DEF LookStopReset, ProcessOK
  <2>2. SignalsOK'
    BY <1>0, <1>13 DEF LookStopReset, SignalsOK
  <2> QED
    BY <1>0, <1>13, <2>1, <2>2, FrameGoroutines, FramePositions,
       FrameDelivered, FrameCursor, FrameDown
       DEF TInv, TypeOK, LookStopReset
<1>14. CASE LookStopSave
  <2>1. SignalsOK'
    BY <1>0, <1>14 DEF LookStopSave, saveBinlogPositionCache, SignalsOK
  <2>2. PositionsOK'
    BY <1>0, <1>14 DEF LookStopSave, saveBinlogPositionCache, PositionsOK,
       Position, Event
  <2> QED
    BY <1>0, <1>14, <2>1, <2>2, FrameProcess, FrameGoroutines, FrameDelivered,
       FrameCursor, FrameDown
       DEF TInv, TypeOK, LookStopSave, saveBinlogPositionCache
<1>15. CASE LookStopClose
  <2>1. ProcessOK'
    BY <1>0, <1>15 DEF LookStopClose, ProcessOK
  <2>2. SignalsOK'
    BY <1>0, <1>15 DEF LookStopClose, SignalsOK
  <2> QED
    BY <1>0, <1>15, <2>1, <2>2, FrameGoroutines, FramePositions,
       FrameDelivered, FrameCursor, FrameDown
       DEF TInv, TypeOK, LookStopClose
<1>16. CASE LookStopClear
  <2>1. ProcessOK'
    BY <1>0, <1>16 DEF LookStopClear, ProcessOK
  <2>2. SignalsOK'
    BY <1>0, <1>16 DEF LookStopClear, SignalsOK
  <2> QED
    BY <1>0, <1>16, <2>1, <2>2, FrameGoroutines, FramePositions,
       FrameDelivered, FrameCursor, FrameDown
       DEF TInv, TypeOK, LookStopClear
<1>17. CASE LookStopDone
  <2>1. SignalsOK'
    BY <1>0, <1>17 DEF LookStopDone, SignalsOK
  <2> QED
    BY <1>0, <1>17, <2>1, FrameProcess, FrameGoroutines, FramePositions,
       FrameDelivered, FrameCursor, FrameDown
       DEF TInv, TypeOK, LookStopDone
<1>18. ASSUME NEW k \in Runners, RunnerStartPos(k) PROVE TInv'
  <2>1. GoroutinesOK'
    <3>1. lastPos + 1 \in 0..LastEvent + 1
      BY <1>0 DEF PositionsOK
    <3> QED
      BY <1>0, <1>18, <3>1 DEF RunnerStartPos, GoroutinesOK
  <2>2. CursorOK'
    BY <1>0, <1>18 DEF RunnerStartPos, CursorOK, GoroutinesOK, PositionsOK,
       Position, Event
  <2>3. DownOK'
    BY <1>0, <1>18 DEF RunnerStartPos, DownOK, GoroutinesOK
  <2> QED
    BY <1>0, <1>18, <2>1, <2>2, <2>3, FrameProcess, FrameSignals,
       FramePositions, FrameDelivered
       DEF TInv, TypeOK, RunnerStartPos
<1>19. ASSUME NEW k \in Runners, RunnerRunFrom(k) PROVE TInv'
  <2>1. GoroutinesOK'
    BY <1>0, <1>19 DEF RunnerRunFrom, GoroutinesOK, SignalsOK
  <2>2. CursorOK'
    BY <1>0, <1>19 DEF RunnerRunFrom, CursorOK, GoroutinesOK, PositionsOK,
       Position, Event
  <2>3. DownOK'
    BY <1>0, <1>19 DEF RunnerRunFrom, DownOK, GoroutinesOK
  <2> QED
    BY <1>0, <1>19, <2>1, <2>2, <2>3, FrameProcess, FrameSignals,
       FramePositions, FrameDelivered
       DEF TInv, TypeOK, RunnerRunFrom
<1>20. ASSUME NEW k \in Runners, RunnerRefused(k) PROVE TInv'
  <2>1. SignalsOK'
    BY <1>0, <1>20 DEF RunnerRefused, Leave, Streaming, SignalsOK
  <2>2. GoroutinesOK'
    BY <1>0, <1>20 DEF RunnerRefused, Leave, Streaming, GoroutinesOK,
       CursorOK
  <2>3. CursorOK'
    BY <1>0, <1>20, CursorLeft DEF RunnerRefused
  <2>4. DownOK'
    BY <1>0, <1>20 DEF RunnerRefused, Leave, Streaming, DownOK, GoroutinesOK
  <2> QED
    BY <1>0, <1>20, <2>1, <2>2, <2>3, <2>4, FrameProcess, FramePositions,
       FrameDelivered
       DEF TInv, TypeOK, RunnerRefused, Leave, Streaming
<1>21. ASSUME NEW k \in Runners, RunnerReturn(k) PROVE TInv'
  <2>1. GoroutinesOK'
    BY <1>0, <1>21 DEF RunnerReturn, Leave, GoroutinesOK, CursorOK
  <2>2. CursorOK'
    BY <1>0, <1>21, CursorLeft DEF RunnerReturn
  <2>3. DownOK'
    BY <1>0, <1>21 DEF RunnerReturn, Leave, DownOK, GoroutinesOK
  <2> QED
    BY <1>0, <1>21, <2>1, <2>2, <2>3, FrameProcess, FrameSignals,
       FramePositions, FrameDelivered
       DEF TInv, TypeOK, RunnerReturn, Leave
<1>22. ASSUME NEW k \in Runners, RunnerErr(k) PROVE TInv'
  <2>1. ProcessOK'
    BY <1>0, <1>22 DEF RunnerErr, Toggle, ProcessOK
  <2>2. GoroutinesOK'
    BY <1>0, <1>22 DEF RunnerErr, Toggle, GoroutinesOK
  <2>3. CursorOK'
    BY <1>0, <1>22 DEF RunnerErr, Toggle, CursorOK, GoroutinesOK, PositionsOK,
       Position, Event
  <2>4. DownOK'
    BY <1>0, <1>22 DEF RunnerErr, Toggle, DownOK, GoroutinesOK
  <2> QED
    BY <1>0, <1>22, <2>1, <2>2, <2>3, <2>4, FrameSignals, FramePositions,
       FrameDelivered
       DEF TInv, TypeOK, RunnerErr, Toggle
<1>23. ASSUME NEW k \in Runners, RunnerFail(k) PROVE TInv'
  <2>1. SignalsOK'
    BY <1>0, <1>23 DEF RunnerFail, Leave, Spend, Bounded, SignalsOK
  <2>2. GoroutinesOK'
    BY <1>0, <1>23 DEF RunnerFail, Leave, Spend, Bounded, GoroutinesOK,
       CursorOK, PositionsOK, Position, Event
  <2>3. CursorOK'
    BY <1>0, <1>23, CursorLeft DEF RunnerFail
  <2>4. DownOK'
    BY <1>0, <1>23 DEF RunnerFail, Leave, Spend, Bounded, DownOK, GoroutinesOK
  <2> QED
    BY <1>0, <1>23, <2>1, <2>2, <2>3, <2>4, FrameProcess, FramePositions,
       FrameDelivered
       DEF TInv, TypeOK, RunnerFail, Leave, Spend, Bounded
<1>24. ASSUME NEW k \in Runners, OnRow(k) PROVE TInv'
  <2>1. GoroutinesOK'
    BY <1>0, <1>24 DEF OnRow, Fetched, GoroutinesOK, CursorOK
  <2>2. CursorOK'
    <3>1. cur[k] \in 1..head /\ row[k] = 0 /\ RowCount[cur[k]] > 0
      BY <1>0, <1>24 DEF OnRow, Fetched, CursorOK, PositionsOK, Position, Event
    <3>2. CASE binlogIsExit \in status
      BY <1>0, <1>24, <3>1, <3>2
         DEF OnRow, Fetched, CursorOK, GoroutinesOK
    <3>3. CASE binlogIsExit \notin status
      BY <1>0, <1>24, <3>1, <3>3
         DEF OnRow, Fetched, CursorOK, GoroutinesOK, PositionsOK, Position, Event
    <3> QED
      BY <3>2, <3>3
  <2>3. DownOK'
    BY <1>0, <1>24 DEF OnRow, Fetched, DownOK, GoroutinesOK
  <2> QED
    BY <1>0, <1>24, <2>1, <2>2, <2>3, FrameProcess, FrameSignals,
       FramePositions, FrameDelivered
       DEF TInv, TypeOK, OnRow, Fetched
<1>25. ASSUME NEW k \in Runners, OnRowNotify(k) PROVE TInv'
  <2>1. GoroutinesOK'
    BY <1>0, <1>25 DEF OnRowNotify, GoroutinesOK, CursorOK
  <2>2. PositionsOK'
    BY <1>0, <1>25 DEF OnRowNotify, PositionsOK, Position, Event
  <2>3. DeliveredOK'
    <3>1. cur[k] \in Event
      BY <1>0, <1>25 DEF OnRowNotify, Event, PositionsOK, CursorOK, Position
    <3>2. row[k] + 1 \in Nat \ {0}
      BY <1>0 DEF GoroutinesOK
    <3>3. EventIndex' \in Nat
      BY <1>0, <1>25 DEF OnRowNotify, PositionsOK
    <3> QED
      BY <1>0, <1>25, <3>1, <3>2, <3>3 DEF OnRowNotify, notify, DeliveredOK
  <2>4. CursorOK'
    <3>1. /\ cur[k] \in 1..head /\ row[k] \in Nat /\ RowCount[cur[k]] \in Nat
          /\ row[k] < RowCount[cur[k]]
      <4>1. pc[k] = "row" /\ row[k] \in Nat
        BY <1>0, <1>25 DEF OnRowNotify, GoroutinesOK
      <4>2. cur[k] \in 1..head /\ row[k] < RowCount[cur[k]]
        BY <1>0, <4>1 DEF CursorOK
      <4>3. cur[k] \in Event
        BY <1>0, <4>2 DEF Event
      <4> QED
        BY <4>1, <4>2, <4>3, ModelAssumption
    <3>2. CASE row[k] + 1 = RowCount[cur[k]]
      BY <1>0, <1>25, <3>1, <3>2
         DEF OnRowNotify, CursorOK, GoroutinesOK
    <3>3. CASE row[k] + 1 # RowCount[cur[k]]
      BY <1>0, <1>25, <3>1, <3>3
         DEF OnRowNotify, CursorOK, GoroutinesOK
    <3> QED
      BY <3>2, <3>3
  <2>5. DownOK'
    BY <1>0, <1>25 DEF OnRowNotify, DownOK, GoroutinesOK
  <2> QED
    BY <1>0, <1>25, <2>1, <2>2, <2>3, <2>4, <2>5, FrameProcess, FrameSignals
       DEF TInv, TypeOK, OnRowNotify
<1>26. ASSUME NEW k \in Runners, OnPosSynced(k) PROVE TInv'
  <2>1. GoroutinesOK'
    BY <1>0, <1>26 DEF OnPosSynced, Fetched, GoroutinesOK, PositionsOK
  <2>2. CursorOK'
    <3>1. cur[k] \in 1..head /\ row[k] = 0 /\ RowCount[cur[k]] = 0
      BY <1>0, <1>26 DEF OnPosSynced, Fetched, CursorOK, PositionsOK, Position, Event
    <3>2. head' = head /\ cur' = cur /\ row' = row /\ pc'[k] = "save"
      BY <1>0, <1>26 DEF OnPosSynced, GoroutinesOK
    <3>3. \A j \in Runners \ {k} : pc'[j] = pc[j]
      BY <1>0, <1>26 DEF OnPosSynced, GoroutinesOK
    <3> QED
      BY <1>0, <3>1, <3>2, <3>3, CursorStep
  <2>3. DownOK'
    BY <1>0, <1>26 DEF OnPosSynced, Fetched, DownOK, GoroutinesOK
  <2> QED
    BY <1>0, <1>26, <2>1, <2>2, <2>3, FrameProcess, FrameSignals,
       FramePositions, FrameDelivered
       DEF TInv, TypeOK, OnPosSynced, Fetched
<1>27. ASSUME NEW k \in Runners, OnPosSyncedSave(k) PROVE TInv'
  <2>1. GoroutinesOK'
    BY <1>0, <1>27 DEF OnPosSyncedSave, saveBinlogPositionCache, GoroutinesOK
  <2>2. PositionsOK'
    BY <1>0, <1>27 DEF OnPosSyncedSave, saveBinlogPositionCache, PositionsOK,
       Position, Event, CursorOK, GoroutinesOK
  <2>3. CursorOK'
    BY <1>0, <1>27 DEF OnPosSyncedSave, saveBinlogPositionCache, CursorOK,
       GoroutinesOK, PositionsOK, Position, Event
  <2>4. DownOK'
    BY <1>0, <1>27 DEF OnPosSyncedSave, saveBinlogPositionCache, DownOK,
       GoroutinesOK
  <2> QED
    BY <1>0, <1>27, <2>1, <2>2, <2>3, <2>4, FrameProcess, FrameSignals,
       FrameDelivered
       DEF TInv, TypeOK, OnPosSyncedSave, saveBinlogPositionCache
<1>28. ASSUME NEW k \in Runners, OnPosSyncedLast(k) PROVE TInv'
  <2>1. GoroutinesOK'
    BY <1>0, <1>28 DEF OnPosSyncedLast, GoroutinesOK, CursorOK
  <2>2. PositionsOK'
    BY <1>0, <1>28 DEF OnPosSyncedLast, PositionsOK, Position, Event, CursorOK,
       GoroutinesOK
  <2>3. CursorOK'
    <3>1. cur[k] + 1 \in 1..head + 1 /\ row[k] = 0
      BY <1>0, <1>28 DEF OnPosSyncedLast, CursorOK
    <3>2. head' = head /\ cur'[k] = cur[k] + 1 /\ row' = row /\ pc'[k] = "fetch"
      BY <1>0, <1>28 DEF OnPosSyncedLast, GoroutinesOK
    <3>3. \A j \in Runners \ {k} : pc'[j] = pc[j] /\ cur'[j] = cur[j]
      BY <1>0, <1>28 DEF OnPosSyncedLast, GoroutinesOK
    <3> QED
      BY <1>0, <3>1, <3>2, <3>3, CursorStep
  <2>4. DownOK'
    BY <1>0, <1>28 DEF OnPosSyncedLast, DownOK, GoroutinesOK
  <2> QED
    BY <1>0, <1>28, <2>1, <2>2, <2>3, <2>4, FrameProcess, FrameSignals,
       FrameDelivered
       DEF TInv, TypeOK, OnPosSyncedLast
<1>29. ASSUME NEW r \in PeerPos, SaveBinlogPosition(r) PROVE TInv'
  <2>1. PositionsOK'
    BY <1>0, <1>29 DEF SaveBinlogPosition, PositionsOK, Position, Event
  <2> QED
    BY <1>0, <1>29, <2>1, FrameProcess, FrameSignals, FrameGoroutines,
       FrameDelivered, FrameCursor, FrameDown
       DEF TInv, TypeOK, SaveBinlogPosition
<1>30. CASE SaveBinlogPositionIndex
  <2>1. PositionsOK'
    BY <1>0, <1>30 DEF SaveBinlogPositionIndex, PositionsOK, Position, Event
  <2> QED
    BY <1>0, <1>30, <2>1, FrameProcess, FrameSignals, FrameGoroutines,
       FrameDelivered, FrameCursor, FrameDown
       DEF TInv, TypeOK, SaveBinlogPositionIndex
<1>31. CASE SaveBinlogPositionFile
  <2>1. PositionsOK'
    BY <1>0, <1>31 DEF SaveBinlogPositionFile, saveBinlogPositionCache,
       NoCall, PositionsOK, Position, Event
  <2> QED
    BY <1>0, <1>31, <2>1, FrameProcess, FrameSignals, FrameGoroutines,
       FrameDelivered, FrameCursor, FrameDown
       DEF TInv, TypeOK, SaveBinlogPositionFile, saveBinlogPositionCache,
       NoCall
<1>32. CASE UNCHANGED vars
  BY <1>0, <1>32, FrameProcess, FrameSignals, FrameGoroutines, FramePositions,
     FrameDelivered, FrameCursor, FrameDown
     DEF TInv, TypeOK, vars
<1> QED
  BY <1>1, <1>2, <1>3, <1>4, <1>5, <1>6, <1>7, <1>8, <1>9, <1>10, <1>11,
       <1>12, <1>13, <1>14, <1>15, <1>16, <1>17, <1>18, <1>19, <1>20, <1>21,
       <1>22, <1>23, <1>24, <1>25, <1>26, <1>27, <1>28, <1>29, <1>30, <1>31,
       <1>32
     DEF Next, Shutdown, LookStart, LookStop, Runner, Receive

\* Type correctness of the binlog service, with the agreement of every
\* goroutine's cursor and its place in the code.
THEOREM TypeCorrect == Spec => []TypeOK
<1>1. TInv => TypeOK
  BY DEF TInv
<1> QED
  BY <1>1, TypeInit, TypeStep, PTL DEF Spec

-----------------------------------------------------------------------------
(* What "covered" means when more rows are sent or the base moves up. *)

LEMMA DoneGrows ==
    ASSUME NEW S, NEW T, S \subseteq T, NEW e, NEW r, Done(S, e, r)
    PROVE  Done(T, e, r)
BY DEF Done

LEMMA CoveredGrows ==
    ASSUME NEW S, NEW T, S \subseteq T, NEW b \in Int, NEW c \in Int, b <= c,
           NEW p \in Int, Covered(b, S, p)
    PROVE  Covered(c, T, p)
<1> SUFFICES ASSUME NEW e \in Event, c < e, e <= p, NEW r \in 1..RowCount[e]
             PROVE  Done(T, e, r)
  BY DEF Covered
<1>1. b < e
  BY ModelAssumption DEF Event
<1>2. Done(S, e, r)
  BY <1>1 DEF Covered
<1> QED
  BY <1>2, DoneGrows

LEMMA CoveredBase ==
    ASSUME NEW S, NEW b \in Int, NEW p \in Int, p <= b
    PROVE  Covered(b, S, p)
BY ModelAssumption DEF Covered, Event

LEMMA CoveredNext ==
    ASSUME NEW S, NEW b \in Int, NEW e \in Event, Covered(b, S, e - 1),
           \A r \in 1..RowCount[e] : Done(S, e, r)
    PROVE  Covered(b, S, e)
<1> SUFFICES ASSUME NEW f \in Event, b < f, f <= e, NEW r \in 1..RowCount[f]
             PROVE  Done(S, f, r)
  BY DEF Covered
<1>1. CASE f = e
  BY <1>1
<1>2. CASE f <= e - 1
  BY <1>2 DEF Covered
<1> QED
  BY <1>1, <1>2, ModelAssumption DEF Event

\* A goroutine that does not move is still right after more rows are sent.
LEMMA FrameRunner ==
    ASSUME TInv, NEW k \in Runners, RunnerOK(k),
           pc'[k] = pc[k], cur'[k] = cur[k], row'[k] = row[k],
           Begin' \in Int, Begin <= Begin', delivered \subseteq delivered'
    PROVE  RunnerOK(k)'
<1>1. Begin \in Int /\ cur[k] - 1 \in Int
  BY HeadBounds DEF TInv, TypeOK, GoroutinesOK, Begin
<1>2. ASSUME pc[k] \in {"run", "fetch", "row", "save", "last"}
      PROVE  Covered(Begin', delivered', cur[k] - 1)
  BY <1>1, <1>2, CoveredGrows DEF RunnerOK
<1>3. ASSUME pc[k] = "row", NEW r \in 1..row[k]
      PROVE  Done(delivered', cur[k], r)
  BY <1>3, DoneGrows DEF RunnerOK
<1> QED
  BY <1>2, <1>3 DEF RunnerOK

\* The facts on types that the steps below need.
LEMMA Numbers ==
    ASSUME TInv
    PROVE  /\ Begin \in Nat /\ head \in Nat /\ lastPos \in Nat /\ Begin <= head
           /\ base \in Nat /\ anew \in Nat /\ base <= Begin /\ anew <= Begin
           /\ base <= head /\ anew <= head
           /\ cache.pos \in Nat /\ inbox.pos \in Nat /\ cache.pos <= head
           /\ \A k \in Runners : cur[k] \in Int
BY ModelAssumption DEF TInv, TypeOK, PositionsOK, GoroutinesOK, Event, Begin

LEMMA BootInit == Init => BootOK
BY DEF Init, BootOK, main, loops, memory, NoCall, NoPos

LEMMA BootStep == TInv /\ BootOK /\ [Next]_vars => BootOK'
<1> SUFFICES ASSUME TInv, BootOK, [Next]_vars PROVE BootOK'
  OBVIOUS
<1> USE DEF main, goroutines, signals, loops, canals, memory, history
<1>0. /\ head \in Nat /\ head >= 1
      /\ ~up => \A k \in Runners : pc[k] = "idle"
  BY ModelAssumption DEF TInv, TypeOK, PositionsOK, Event, DownOK
<1>1. CASE Boot
  BY <1>0, <1>1, Numbers DEF Boot, StartFrom, BootOK
<1>2. CASE Crash \/ Exit
  BY <1>2 DEF Crash, Exit, Halt, NoCall, BootOK
<1>3. CASE MasterWrite \/ Cancel \/ Close \/ CloseStopService \/ LookStartIgnore
           \/ LookStartSpawn \/ LookStartDone \/ UNCHANGED vars
  <2>1. UNCHANGED <<base, anew, up, cache, lookStop, lastPos, inbox>>
    BY <1>3 DEF MasterWrite, Cancel, Close, CloseStopService, LookStartIgnore, LookStartSpawn,
       LookStartDone, vars
  <2> QED
    BY <2>1 DEF BootOK
<1>4. ASSUME NEW isLeader \in BOOLEAN, OnLeader(isLeader) PROVE BootOK'
  <2>1. UNCHANGED <<base, anew, up, cache, lookStop, lastPos, inbox>>
    BY <1>4, Zenon DEF OnLeader
  <2> QED
    BY <2>1 DEF BootOK
<1>5. CASE LookStop
  <2>1. lookStop # "returned" /\ UNCHANGED <<base, anew, up, lastPos, inbox>>
    BY <1>5 DEF LookStop, LookStopSignal, LookStopReset, LookStopSave, LookStopClose,
       LookStopClear, LookStopDone
  <2> QED
    BY <2>1 DEF BootOK
<1>6. ASSUME NEW k \in Runners, Runner(k) \/ RunnerFail(k) PROVE BootOK'
  <2>1. up /\ UNCHANGED <<base, anew, up, lookStop, inbox>>
    <3>1. pc[k] # "idle"
      BY <1>6 DEF Runner, RunnerStartPos, RunnerRunFrom, RunnerRefused, RunnerReturn, RunnerErr,
         RunnerFail, OnRow, OnRowNotify, OnPosSynced, OnPosSyncedSave, OnPosSyncedLast, Fetched
    <3>2. UNCHANGED <<base, anew, up, lookStop, inbox>>
      BY <1>6 DEF Runner, RunnerStartPos, RunnerRunFrom, RunnerRefused, RunnerReturn, RunnerErr,
         RunnerFail, OnRow, OnRowNotify, OnPosSynced, OnPosSyncedSave, OnPosSyncedLast, Leave
    <3> QED
      BY <1>0, <3>1, <3>2
  <2>2. lastPos' >= 1
    <3>1. CASE OnPosSyncedLast(k)
      <4>1. cur[k] \in 1..head
        BY <3>1 DEF OnPosSyncedLast, TInv, CursorOK
      <4> QED
        BY <1>0, <3>1, <4>1 DEF OnPosSyncedLast
    <3>2. CASE ~OnPosSyncedLast(k)
      <4>1. lastPos' = lastPos
        BY <1>6, <3>2 DEF Runner, RunnerStartPos, RunnerRunFrom, RunnerRefused, RunnerReturn,
           RunnerErr, RunnerFail, OnRow, OnRowNotify, OnPosSynced, OnPosSyncedSave, Leave
      <4> QED
        BY <2>1, <4>1 DEF BootOK
    <3> QED
      BY <3>1, <3>2
  <2> QED
    BY <2>1, <2>2 DEF BootOK
<1>7. ASSUME NEW r \in PeerPos, SaveBinlogPosition(r) PROVE BootOK'
  <2>1. r.pos \in Nat /\ r.pos >= 1
    BY ModelAssumption DEF Event
  <2>2. /\ up /\ up' /\ base' # 0 /\ lastPos' = r.pos /\ inbox'.pos = r.pos
    BY <1>7, <2>1, Numbers DEF SaveBinlogPosition, BootOK
  <2> QED
    BY <2>1, <2>2 DEF BootOK
<1>8. CASE Receive
  <2>1. /\ inbox.at # "none" /\ UNCHANGED <<base, anew, up, lastPos, lookStop>>
        /\ inbox'.at = "none" \/ inbox'.pos = inbox.pos
    BY <1>8 DEF Receive, SaveBinlogPositionIndex, SaveBinlogPositionFile, NoCall, TInv, TypeOK,
       PositionsOK
  <2> QED
    BY <2>1 DEF BootOK
<1> QED
  BY <1>1, <1>2, <1>3, <1>4, <1>5, <1>6, <1>7, <1>8 DEF Next, Shutdown, LookStart

\* A step that moves neither a position nor a goroutine, and does not lower
\* binlogIsExit.
LEMMA FrameSafety ==
    ASSUME TInv, SInv, UNCHANGED <<cache, lastPos, pc, cur, row, base, anew, delivered>>,
           inbox'.pos = inbox.pos,
           binlogIsExit \in status => binlogIsExit \in status'
    PROVE  SInv'
<1> USE BeginStays
<1>1. InboxOK' /\ LastPosOK' /\ NoRowSkipped'
  BY DEF SInv, InboxOK, LastPosOK, NoRowSkipped
<1>2. ASSUME binlogIsExit \notin status', NEW k \in Runners PROVE RunnerOK(k)'
  BY <1>2, FrameRunner, Numbers DEF SInv, ProgressOK
<1> QED
  BY <1>1, <1>2 DEF SInv, ProgressOK

\* A step of one goroutine that leaves the positions and the history alone.
LEMMA MoveRunner ==
    ASSUME TInv, SInv, NEW k \in Runners,
           UNCHANGED <<cache, lastPos, base, anew, delivered, inbox>>,
           \A j \in Runners \ {k} :
               pc'[j] = pc[j] /\ cur'[j] = cur[j] /\ row'[j] = row[j],
           binlogIsExit \in status => binlogIsExit \in status',
           binlogIsExit \notin status' => RunnerOK(k)'
    PROVE  SInv'
<1> USE BeginStays
<1>1. InboxOK' /\ LastPosOK' /\ NoRowSkipped'
  BY DEF SInv, InboxOK, LastPosOK, NoRowSkipped
<1>2. ASSUME binlogIsExit \notin status', NEW j \in Runners \ {k} PROVE RunnerOK(j)'
  BY <1>2, FrameRunner, Numbers DEF SInv, ProgressOK
<1> QED
  BY <1>1, <1>2 DEF SInv, ProgressOK

\* The process ends: nothing is left but the cache file.
LEMMA HaltSafe == ASSUME TInv, SInv, Halt PROVE SInv'
<1> USE BeginStays
<1>1. InboxOK'
  BY Numbers DEF Halt, InboxOK, NoCall
<1>2. LastPosOK'
  BY Numbers, CoveredBase DEF Halt, LastPosOK
<1>3. ProgressOK'
  BY DEF Halt, ProgressOK, RunnerOK, Idle
<1>4. NoRowSkipped'
  BY DEF SInv, Halt, NoRowSkipped
<1> QED
  BY <1>1, <1>2, <1>3, <1>4 DEF SInv

\* A boot without a saved position moves the beginning to the server's position.
LEMMA BootBegins ==
    ASSUME TInv, BootOK, Boot PROVE Begin' = IF cache.pos = 0 THEN head ELSE Begin
<1>1. /\ base' = IF base = 0 THEN head ELSE base
      /\ anew' = IF base # 0 /\ cache.pos = 0 THEN head ELSE anew
  BY DEF Boot
<1> QED
  BY <1>1, Numbers DEF BootOK, Begin

\* A boot resumes from a position the cache file vouches for.
LEMMA BootSafe == ASSUME TInv, BootOK, SInv, Boot PROVE SInv'
<1> USE Numbers, BootBegins
<1>1. Begin' \in Nat /\ Begin <= Begin'
  OBVIOUS
<1>2. InboxOK'
  BY <1>1 DEF SInv, InboxOK, Boot
<1>3. NoRowSkipped'
  BY <1>1, CoveredGrows DEF SInv, NoRowSkipped, Boot
<1>4. Covered(Begin', delivered', lastPos')
  <2>1. CASE cache.pos = 0
    BY <2>1, CoveredBase DEF Boot, StartFrom
  <2>2. CASE cache.pos # 0
    BY <2>2, <1>3 DEF Boot, StartFrom, NoRowSkipped
  <2> QED
    BY <2>1, <2>2
<1>5. ProgressOK'
  BY DEF Boot, TInv, DownOK, ProgressOK, RunnerOK, goroutines
<1> QED
  BY <1>2, <1>3, <1>4, <1>5 DEF SInv, LastPosOK

\* A row is sent: the last one of its event moves the cursor on.
LEMMA OnRowNotifySafe ==
    ASSUME TInv, SInv, NEW k \in Runners, OnRowNotify(k) PROVE SInv'
<1> USE BeginStays
<1> USE Numbers
<1> DEFINE r == row[k] + 1
<1>1. /\ delivered \subseteq delivered' /\ Begin' = Begin /\ status' = status
      /\ cache' = cache /\ lastPos' = lastPos /\ inbox' = inbox
  BY DEF OnRowNotify, notify, history, main, signals, loops, canals
<1>2. InboxOK' /\ NoRowSkipped' /\ LastPosOK'
  <2>1. InboxOK'
    BY <1>1 DEF SInv, InboxOK
  <2>2. NoRowSkipped'
    BY <1>1, CoveredGrows DEF SInv, NoRowSkipped
  <2>3. LastPosOK'
    BY <1>1, CoveredGrows DEF SInv, LastPosOK
  <2> QED
    BY <2>1, <2>2, <2>3
<1>3. Done(delivered', cur[k], r)
  <2> DEFINE d == [ev |-> cur[k], row |-> r, index |-> EventIndex']
  <2>1. CASE <<cur[k], r>> \in BadRows
    BY <2>1 DEF Done
  <2>2. CASE d \in delivered'
    <3>1. d.ev = cur[k] /\ d.row = r
      OBVIOUS
    <3> HIDE DEF d, r
    <3> QED
      BY <2>2, <3>1 DEF Done
  <2> QED
    BY <2>1, <2>2 DEF OnRowNotify, notify
<1>4. /\ cur[k] \in Event /\ row[k] \in Nat /\ RowCount[cur[k]] \in Nat
      /\ row[k] < RowCount[cur[k]]
  <2>1. pc[k] = "row"
    BY DEF OnRowNotify
  <2>2. cur[k] \in 1..head /\ row[k] < RowCount[cur[k]] /\ row[k] \in Nat
    BY <2>1 DEF TInv, TypeOK, CursorOK, GoroutinesOK
  <2>3. head \in 0..LastEvent /\ LastEvent \in Nat
    BY ModelAssumption DEF TInv, TypeOK, PositionsOK, Event
  <2>4. cur[k] \in Event
    BY <2>2, <2>3 DEF Event
  <2> QED
    BY <2>2, <2>4, ModelAssumption
<1>5. ASSUME binlogIsExit \notin status', NEW j \in Runners PROVE RunnerOK(j)'
  <2>1. RunnerOK(j) /\ RunnerOK(k)
    BY <1>1, <1>5 DEF SInv, ProgressOK
  <2>2. CASE j # k
    <3>1. pc'[j] = pc[j] /\ cur'[j] = cur[j] /\ row'[j] = row[j]
      BY <2>2 DEF OnRowNotify, TInv, TypeOK, GoroutinesOK
    <3> QED
      BY <1>1, <2>1, <3>1, FrameRunner
  <2>3. CASE j = k
    <3>1. Covered(Begin', delivered', cur[k] - 1)
      BY <1>1, <1>4, <2>1, CoveredGrows DEF RunnerOK, OnRowNotify
    <3>2. ASSUME NEW q \in 1..r PROVE Done(delivered', cur[k], q)
      <4>1. CASE q = r
        BY <4>1, <1>3
      <4>2. CASE q \in 1..row[k]
        BY <4>2, <1>1, <2>1, DoneGrows DEF RunnerOK, OnRowNotify
      <4> QED
        BY <4>1, <4>2, <1>4
    <3>3. CASE r = RowCount[cur[k]]
      <4>1. pc'[k] = "fetch" /\ cur'[k] = cur[k] + 1
        BY <3>3 DEF OnRowNotify, TInv, TypeOK, GoroutinesOK
      <4>2. Covered(Begin', delivered', cur[k])
        BY <3>1, <3>2, <3>3, <1>1, <1>4, CoveredNext
      <4>3. cur'[k] - 1 = cur[k]
        BY <4>1
      <4> QED
        BY <2>3, <4>1, <4>2, <4>3 DEF RunnerOK
    <3>4. CASE r # RowCount[cur[k]]
      <4>1. pc'[k] = "row" /\ cur'[k] = cur[k] /\ row'[k] = r
        BY <3>4 DEF OnRowNotify, TInv, TypeOK, GoroutinesOK
      <4> QED
        BY <2>3, <3>1, <3>2, <4>1 DEF RunnerOK
    <3> QED
      BY <3>3, <3>4
  <2> QED
    BY <2>2, <2>3
<1> QED
  BY <1>2, <1>5 DEF SInv, ProgressOK

\* A synced position: no row is owed between the cursor's event and the one
\* before it, so the position may be saved and remembered.
LEMMA SyncedCovered ==
    ASSUME TInv, SInv, NEW k \in Runners, pc[k] \in {"save", "last"},
           binlogIsExit \notin status
    PROVE  Covered(Begin, delivered, cur[k])
<1>1. cur[k] \in Event /\ RowCount[cur[k]] = 0
  BY ModelAssumption DEF TInv, TypeOK, CursorOK, PositionsOK, Position, Event
<1>2. Covered(Begin, delivered, cur[k] - 1)
  BY DEF SInv, ProgressOK, RunnerOK
<1> QED
  BY <1>1, <1>2, Numbers, CoveredNext

LEMMA OnPosSyncedSaveSafe ==
    ASSUME TInv, SInv, NEW k \in Runners, OnPosSyncedSave(k) PROVE SInv'
<1> USE BeginStays
<1>1. /\ UNCHANGED <<lastPos, base, anew, delivered, inbox, status, cur, row>>
      /\ \A j \in Runners \ {k} : pc'[j] = pc[j]
      /\ pc[k] = "save" /\ pc'[k] = "last"
  BY DEF OnPosSyncedSave, memory, history, TInv, TypeOK, GoroutinesOK
<1>2. NoRowSkipped'
  <2>1. CASE UNCHANGED cache
    BY <2>1, <1>1 DEF SInv, NoRowSkipped
  <2>2. CASE binlogIsExit \notin status /\ cache'.pos = cur[k]
    BY <2>2, <1>1, SyncedCovered DEF NoRowSkipped
  <2> QED
    BY <2>1, <2>2 DEF OnPosSyncedSave, saveBinlogPositionCache,
       binlogIsExit, cacheHandlerIsOpened
<1>3. InboxOK' /\ LastPosOK'
  BY <1>1 DEF SInv, InboxOK, LastPosOK
<1>4. ASSUME binlogIsExit \notin status', NEW j \in Runners PROVE RunnerOK(j)'
  <2>1. CASE j = k
    BY <2>1, <1>1, <1>4 DEF SInv, ProgressOK, RunnerOK
  <2>2. CASE j # k
    BY <2>2, <1>1, <1>4 DEF SInv, ProgressOK, RunnerOK
  <2> QED
    BY <2>1, <2>2
<1> QED
  BY <1>2, <1>3, <1>4 DEF SInv, ProgressOK

LEMMA OnPosSyncedLastSafe ==
    ASSUME TInv, SInv, NEW k \in Runners, OnPosSyncedLast(k) PROVE SInv'
<1> USE BeginStays
<1>1. /\ UNCHANGED <<cache, base, anew, delivered, inbox, status, row>>
      /\ \A j \in Runners \ {k} : pc'[j] = pc[j] /\ cur'[j] = cur[j]
      /\ pc[k] = "last" /\ pc'[k] = "fetch"
      /\ cur'[k] - 1 = cur[k] /\ lastPos' = cur[k]
  BY Numbers DEF OnPosSyncedLast, history, TInv, TypeOK, GoroutinesOK
<1>2. InboxOK' /\ NoRowSkipped'
  BY <1>1 DEF SInv, InboxOK, NoRowSkipped
<1>3. ASSUME binlogIsExit \notin status' PROVE Covered(Begin, delivered, cur[k])
  BY <1>1, <1>3, SyncedCovered
<1>4. LastPosOK'
  BY <1>1, <1>3 DEF LastPosOK
<1>5. ASSUME binlogIsExit \notin status', NEW j \in Runners PROVE RunnerOK(j)'
  <2>1. CASE j = k
    BY <2>1, <1>1, <1>3, <1>5 DEF RunnerOK
  <2>2. CASE j # k
    BY <2>2, <1>1, <1>5 DEF SInv, ProgressOK, RunnerOK
  <2> QED
    BY <2>1, <2>2
<1> QED
  BY <1>2, <1>4, <1>5 DEF SInv, ProgressOK

\* A leader's position is received: the base moves up to it.
LEMMA SaveBinlogPositionSafe ==
    ASSUME TInv, SInv, NEW q \in PeerPos, SaveBinlogPosition(q) PROVE SInv'
<1> USE BeginStays
<1> USE Numbers
<1>1. q.pos \in Nat
  BY ModelAssumption DEF Event
<1>2. /\ Begin' \in Nat /\ Begin <= Begin' /\ q.pos <= Begin'
      /\ lastPos' = q.pos /\ inbox'.pos = q.pos
      /\ UNCHANGED <<cache, delivered, status, pc, cur, row>>
  BY <1>1 DEF SaveBinlogPosition, goroutines, Begin
<1>3. InboxOK'
  BY <1>2 DEF InboxOK
<1>4. LastPosOK'
  BY <1>1, <1>2, CoveredBase DEF LastPosOK
<1>5. NoRowSkipped'
  BY <1>2, CoveredGrows DEF SInv, NoRowSkipped
<1>6. ASSUME binlogIsExit \notin status', NEW j \in Runners PROVE RunnerOK(j)'
  BY <1>2, <1>6, FrameRunner DEF SInv, ProgressOK
<1> QED
  BY <1>3, <1>4, <1>5, <1>6 DEF SInv, ProgressOK

\* The writers of the cache file other than OnPosSynced.
LEMMA OtherSavesSafe ==
    ASSUME TInv, SInv, LookStopSave \/ SaveBinlogPositionFile PROVE SInv'
<1> USE BeginStays
<1>1. /\ UNCHANGED <<lastPos, base, anew, delivered, status, pc, cur, row>>
      /\ inbox'.pos <= Begin
  BY Numbers DEF LookStopSave, SaveBinlogPositionFile, memory, history, goroutines,
     SInv, InboxOK, NoCall
<1>2. NoRowSkipped'
  <2>1. CASE UNCHANGED cache
    BY <2>1, <1>1 DEF SInv, NoRowSkipped
  <2>2. CASE binlogIsExit \notin status /\ cache'.pos = lastPos
    BY <2>2, <1>1 DEF SInv, LastPosOK, NoRowSkipped
  <2>3. CASE cache'.pos = inbox.pos
    BY <2>3, <1>1, Numbers, CoveredBase DEF SInv, InboxOK, NoRowSkipped
  <2> QED
    BY <2>1, <2>2, <2>3 DEF LookStopSave, SaveBinlogPositionFile,
       saveBinlogPositionCache, binlogIsExit, cacheHandlerIsOpened
<1>3. InboxOK' /\ LastPosOK'
  BY <1>1 DEF SInv, InboxOK, LastPosOK
<1>4. ASSUME binlogIsExit \notin status', NEW j \in Runners PROVE RunnerOK(j)'
  BY <1>1, <1>4, FrameRunner, Numbers DEF SInv, ProgressOK
<1> QED
  BY <1>2, <1>3, <1>4 DEF SInv, ProgressOK

LEMMA SafetyInit == Init => SInv
<1> USE BeginStays
<1> SUFFICES ASSUME Init PROVE SInv
  OBVIOUS
<1>1. Covered(0, {}, 0)
  BY CoveredBase
<1>2. InboxOK /\ LastPosOK /\ NoRowSkipped
  BY <1>1 DEF Init, InboxOK, LastPosOK, NoRowSkipped, NoCall, NoPos, memory, Begin
<1>3. ProgressOK
  BY DEF Init, ProgressOK, RunnerOK, Idle
<1> QED
  BY <1>2, <1>3 DEF SInv

LEMMA SafetyStep == TInv /\ BootOK /\ SInv /\ [Next]_vars => SInv'
<1> USE BeginStays
<1> SUFFICES ASSUME TInv, BootOK, SInv, [Next]_vars PROVE SInv'
  OBVIOUS
<1> USE DEF main, goroutines, signals, loops, canals, memory, history
<1>1. CASE MasterWrite
  BY <1>1, FrameSafety DEF MasterWrite
<1>2. CASE Boot
  BY <1>2, BootSafe
<1>3. CASE Crash \/ Exit
  BY <1>3, HaltSafe DEF Crash, Exit
<1>4. CASE Cancel \/ Close \/ CloseStopService
  BY <1>4, FrameSafety DEF Cancel, Close, CloseStopService
<1>5. ASSUME NEW isLeader \in BOOLEAN, OnLeader(isLeader) PROVE SInv'
  BY <1>5, FrameSafety, Zenon DEF OnLeader
<1>6. CASE LookStartIgnore \/ LookStartDone
  BY <1>6, FrameSafety DEF LookStartIgnore, LookStartDone
<1>7. CASE LookStartSpawn
  <2>1. PICK k \in Runners : pc' = [pc EXCEPT ![k] = "pos"]
    BY <1>7 DEF LookStartSpawn
  <2>2. /\ \A j \in Runners \ {k} : pc'[j] = pc[j]
        /\ pc'[k] = "pos"
    BY <2>1 DEF TInv, TypeOK, GoroutinesOK
  <2>3. RunnerOK(k)'
    BY <2>2 DEF RunnerOK
  <2> QED
    BY <1>7, <2>2, <2>3, MoveRunner DEF LookStartSpawn
<1>8. CASE LookStopSignal \/ LookStopReset
  BY <1>8, FrameSafety DEF LookStopSignal, LookStopReset
<1>9. CASE LookStopClose \/ LookStopClear \/ LookStopDone
  BY <1>9, FrameSafety DEF LookStopClose, LookStopClear, LookStopDone,
     binlogIsExit, binlogIsRunning, cacheHandlerIsOpened
<1>10. CASE LookStopSave \/ SaveBinlogPositionFile
  BY <1>10, OtherSavesSafe
<1>11. ASSUME NEW k \in Runners, RunnerStartPos(k) PROVE SInv'
  <2>1. /\ \A j \in Runners \ {k} : pc'[j] = pc[j] /\ cur'[j] = cur[j]
        /\ pc'[k] = "run" /\ cur'[k] - 1 = lastPos
    BY <1>11, Numbers DEF RunnerStartPos, TInv, TypeOK, GoroutinesOK
  <2>2. binlogIsExit \notin status' => RunnerOK(k)'
    BY <1>11, <2>1 DEF RunnerStartPos, RunnerOK, SInv, LastPosOK
  <2> QED
    BY <1>11, <2>1, <2>2, MoveRunner DEF RunnerStartPos
<1>12. ASSUME NEW k \in Runners, RunnerRunFrom(k) \/ OnPosSynced(k) PROVE SInv'
  <2>1. /\ \A j \in Runners \ {k} : pc'[j] = pc[j]
        /\ pc[k] \in {"run", "fetch"} /\ pc'[k] \in {"fetch", "save"}
        /\ UNCHANGED <<cur, row, status, base, anew, delivered, cache, lastPos, inbox>>
    BY <1>12 DEF RunnerRunFrom, OnPosSynced, Fetched, TInv, TypeOK, GoroutinesOK
  <2>2. binlogIsExit \notin status' => RunnerOK(k)'
    BY <2>1 DEF RunnerOK, SInv, ProgressOK
  <2> QED
    BY <2>1, <2>2, MoveRunner
<1>13. ASSUME NEW k \in Runners,
              RunnerRefused(k) \/ RunnerReturn(k) \/ RunnerFail(k) PROVE SInv'
  <2>1. PICK s \in {"idle", "err"} : Leave(k, s)
    BY <1>13 DEF RunnerRefused, RunnerReturn, RunnerFail
  <2>2. /\ \A j \in Runners \ {k} : pc'[j] = pc[j] /\ cur'[j] = cur[j]
        /\ pc'[k] = s
        /\ UNCHANGED <<row, status, base, anew, delivered, cache, lastPos, inbox>>
    BY <2>1 DEF Leave, TInv, TypeOK, GoroutinesOK
  <2>3. RunnerOK(k)'
    BY <2>2 DEF RunnerOK
  <2> QED
    BY <2>2, <2>3, MoveRunner
<1>14. ASSUME NEW k \in Runners, RunnerErr(k) PROVE SInv'
  <2>1. /\ \A j \in Runners \ {k} : pc'[j] = pc[j]
        /\ pc'[k] = "idle"
        /\ binlogIsExit \in status => binlogIsExit \in status'
    BY <1>14 DEF RunnerErr, Toggle, TInv, TypeOK, GoroutinesOK,
       binlogIsExit, binlogIsRunning
  <2>2. RunnerOK(k)'
    BY <2>1 DEF RunnerOK
  <2> QED
    BY <1>14, <2>1, <2>2, MoveRunner DEF RunnerErr
<1>15. ASSUME NEW k \in Runners, OnRow(k) PROVE SInv'
  <2>1. /\ \A j \in Runners \ {k} : pc'[j] = pc[j] /\ cur'[j] = cur[j]
        /\ UNCHANGED <<row, status, base, anew, delivered, cache, lastPos, inbox>>
        /\ pc[k] = "fetch" /\ row[k] = 0
    BY <1>15 DEF OnRow, Fetched, TInv, TypeOK, GoroutinesOK, CursorOK
  <2>2. ASSUME binlogIsExit \notin status' PROVE RunnerOK(k)'
    <3>1. pc'[k] = "row" /\ cur'[k] = cur[k] /\ row'[k] = 0
      BY <1>15, <2>1, <2>2 DEF OnRow, TInv, TypeOK, GoroutinesOK
    <3> QED
      BY <2>1, <2>2, <3>1 DEF RunnerOK, SInv, ProgressOK
  <2> QED
    BY <2>1, <2>2, MoveRunner
<1>16. ASSUME NEW k \in Runners,
              OnRowNotify(k) \/ OnPosSyncedSave(k) \/ OnPosSyncedLast(k)
       PROVE  SInv'
  BY <1>16, OnRowNotifySafe, OnPosSyncedSaveSafe, OnPosSyncedLastSafe
<1>17. ASSUME NEW r \in PeerPos, SaveBinlogPosition(r) PROVE SInv'
  BY <1>17, SaveBinlogPositionSafe
<1>18. CASE SaveBinlogPositionIndex
  <2>1. inbox'.pos = inbox.pos
    BY <1>18 DEF SaveBinlogPositionIndex, TInv, TypeOK, PositionsOK
  <2> QED
    BY <1>18, <2>1, FrameSafety DEF SaveBinlogPositionIndex
<1>19. CASE UNCHANGED vars
  BY <1>19, FrameSafety DEF vars
<1> QED
  BY <1>1, <1>2, <1>3, <1>4, <1>5, <1>6, <1>7, <1>8, <1>9, <1>10, <1>11, <1>12,
     <1>13, <1>14, <1>15, <1>16, <1>17, <1>18, <1>19
     DEF Next, Shutdown, LookStart, LookStop, Runner, Receive

\* At-least-once delivery from the last boot that found nothing saved, for every
\* binlog and any number of crashes, leader changes, stream failures and
\* goroutines: the saved position never lies beyond a row after Begin that was
\* not handed to the services.
THEOREM AtLeastOnce == Spec => []NoRowSkipped
<1>1. Init => TInv /\ BootOK /\ SInv
  BY TypeInit, BootInit, SafetyInit
<1>2. TInv /\ BootOK /\ SInv /\ [Next]_vars => (TInv /\ BootOK /\ SInv)'
  BY TypeStep, BootStep, SafetyStep
<1>3. SInv => NoRowSkipped
  BY DEF SInv
<1> QED
  BY <1>1, <1>2, <1>3, PTL DEF Spec

-----------------------------------------------------------------------------
(* One stream at a time. *)

\* Only the current canal can be open, not even that one while lookStopService
\* replaces it, and no goroutine runs a canal that does not exist yet.
CanalOK ==
    /\ open \subseteq {handler}
    /\ lookStop = "reset" => open = {}
    /\ \A k \in Runners : canal[k] <= handler /\ (Streaming(k) \/ canal[k] = 0)

\* A step that opens no canal and moves no goroutine into a stream.
LEMMA FrameStream ==
    ASSUME CanalOK, OneStream, open' \subseteq open, handler' = handler,
           lookStop' = "reset" => open' = {},
           \A k \in Runners :
               /\ canal'[k] <= handler
               /\ Streaming(k)' => Streaming(k) /\ canal'[k] = canal[k]
               /\ Streaming(k)' \/ canal'[k] = 0
    PROVE  (CanalOK /\ OneStream)'
<1>1. CanalOK'
  BY DEF CanalOK
<1>2. OneStream'
  BY Zenon DEF OneStream
<1> QED
  BY <1>1, <1>2

LEMMA StreamStep ==
    TInv /\ CanalOK /\ OneStream /\ [Next]_vars => (CanalOK /\ OneStream)'
<1> SUFFICES ASSUME TInv, CanalOK, OneStream, [Next]_vars
             PROVE  (CanalOK /\ OneStream)'
  OBVIOUS
<1>0. /\ handler \in Nat /\ canal \in [Runners -> Nat] /\ open \subseteq Nat
      /\ pc \in [Runners -> {"idle", "pos", "run", "fetch", "row", "save", "last", "err"}]
      /\ \A k \in Runners : canal[k] <= handler /\ (Streaming(k) \/ canal[k] = 0)
      /\ lookStop = "reset" => open = {}
  BY DEF TInv, TypeOK, SignalsOK, GoroutinesOK, CanalOK
<1> USE DEF main, goroutines, signals, loops, canals, memory, history
<1>1. CASE MasterWrite \/ Cancel \/ Close \/ CloseStopService \/ LookStartIgnore
           \/ LookStartDone \/ SaveBinlogPositionIndex \/ SaveBinlogPositionFile
           \/ UNCHANGED vars
  BY <1>0, <1>1, FrameStream
     DEF MasterWrite, Cancel, Close, CloseStopService, LookStartIgnore,
         LookStartDone, SaveBinlogPositionIndex, SaveBinlogPositionFile, vars,
         Streaming
<1>2. ASSUME NEW isLeader \in BOOLEAN, OnLeader(isLeader)
      PROVE  (CanalOK /\ OneStream)'
  <2>1. UNCHANGED <<open, handler, lookStop, pc, canal>>
    BY <1>2, Zenon DEF OnLeader
  <2> QED
    BY <1>0, <2>1, FrameStream DEF Streaming
<1>3. ASSUME NEW r \in PeerPos, SaveBinlogPosition(r)
      PROVE  (CanalOK /\ OneStream)'
  BY <1>0, <1>3, FrameStream DEF SaveBinlogPosition, Streaming
<1>4. CASE Boot
  <2>1. \A k \in Runners : ~Streaming(k)'
    BY <1>4 DEF Boot, TInv, DownOK, Streaming
  <2>2. CanalOK'
    <3>1. \A k \in Runners : canal'[k] = 0
      BY <1>0, <1>4 DEF Boot, TInv, DownOK, Streaming
    <3> QED
      BY <1>4, <3>1 DEF Boot, CanalOK
  <2> QED
    BY <2>1, <2>2 DEF OneStream
<1>5. CASE Crash \/ Exit
  BY <1>5 DEF Crash, Exit, Halt, CanalOK, OneStream, Streaming, Idle, Zero
<1>6. CASE LookStartSpawn
  BY <1>0, <1>6, FrameStream DEF LookStartSpawn, Streaming
<1>7. CASE LookStopSignal
  <2>1. open' \subseteq open /\ (lookStop' = "reset" => open' = {})
    BY <1>7 DEF LookStopSignal, CanalOK
  <2> QED
    BY <1>0, <1>7, <2>1, FrameStream DEF LookStopSignal, Streaming
<1>8. CASE LookStopReset
  <2>1. open' = {handler + 1} /\ handler' = handler + 1
    BY <1>0, <1>8 DEF LookStopReset
  <2>2. \A k \in Runners : canal'[k] = canal[k] /\ canal[k] # handler + 1
    BY <1>0, <1>8 DEF LookStopReset
  <2> QED
    BY <1>0, <1>8, <2>1, <2>2 DEF LookStopReset, CanalOK, OneStream, Streaming
<1>9. CASE LookStopSave \/ LookStopClose \/ LookStopClear \/ LookStopDone
  BY <1>0, <1>9, FrameStream
     DEF LookStopSave, LookStopClose, LookStopClear, LookStopDone, Streaming
<1>10. ASSUME NEW k \in Runners, RunnerRunFrom(k) PROVE (CanalOK /\ OneStream)'
  <2>1. /\ canal' = [canal EXCEPT ![k] = handler]
        /\ \A j \in Runners \ {k} : pc'[j] = pc[j] /\ canal'[j] = canal[j]
        /\ \A j \in Runners : Streaming(j) => canal[j] # handler
        /\ UNCHANGED <<open, handler, lookStop>>
    BY <1>0, <1>10 DEF RunnerRunFrom
  <2>2. CanalOK'
    BY <1>0, <1>10, <2>1 DEF RunnerRunFrom, CanalOK, Streaming
  <2>3. \A j \in Runners \ {k} : Streaming(j)' => canal'[j] \notin open'
    BY <2>1 DEF Streaming, CanalOK
  <2>4. OneStream'
    BY <2>3, Zenon DEF OneStream
  <2> QED
    BY <2>2, <2>4
<1>11. ASSUME NEW k \in Runners,
              RunnerRefused(k) \/ RunnerReturn(k) \/ RunnerFail(k)
       PROVE  (CanalOK /\ OneStream)'
  <2>1. PICK s \in {"idle", "err"} : Leave(k, s)
    BY <1>11 DEF RunnerRefused, RunnerReturn, RunnerFail
  <2>2. open' \subseteq open
    BY <1>11 DEF RunnerRefused, RunnerReturn, RunnerFail
  <2>3. handler' = handler /\ lookStop' = lookStop
    BY <2>1 DEF Leave
  <2>4. \A j \in Runners :
            /\ canal'[j] <= handler
            /\ Streaming(j)' => Streaming(j) /\ canal'[j] = canal[j]
            /\ Streaming(j)' \/ canal'[j] = 0
    BY <1>0, <2>1 DEF Leave, Streaming
  <2> QED
    BY <1>0, <2>2, <2>3, <2>4, FrameStream
<1>12. ASSUME NEW k \in Runners, RunnerStartPos(k) \/ RunnerErr(k)
       PROVE  (CanalOK /\ OneStream)'
  BY <1>0, <1>12, FrameStream DEF RunnerStartPos, RunnerErr, Streaming
<1>13. ASSUME NEW k \in Runners,
              \/ OnRow(k) \/ OnRowNotify(k) \/ OnPosSynced(k)
              \/ OnPosSyncedSave(k) \/ OnPosSyncedLast(k)
       PROVE  (CanalOK /\ OneStream)'
  <2>1. /\ UNCHANGED <<open, handler, lookStop, canal>>
        /\ pc[k] \in {"fetch", "row", "save", "last"}
        /\ pc'[k] \in {"fetch", "row", "save", "last"}
        /\ \A j \in Runners \ {k} : pc'[j] = pc[j]
    BY <1>0, <1>13 DEF OnRow, OnRowNotify, OnPosSynced, OnPosSyncedSave,
       OnPosSyncedLast, Fetched
  <2> QED
    BY <1>0, <2>1, FrameStream DEF Streaming
<1> QED
  BY <1>1, <1>2, <1>3, <1>4, <1>5, <1>6, <1>7, <1>8, <1>9, <1>10, <1>11, <1>12,
     <1>13
     DEF Next, Shutdown, LookStart, LookStop, Runner, Receive

\* lookStopService and the canals it replaces never leave two goroutines with
\* an open canal, whatever is queued, failing or being closed.
THEOREM SingleStream == Spec => []OneStream
<1>1. Init => CanalOK /\ OneStream
  BY DEF Init, CanalOK, OneStream, Streaming, Idle, Zero, loops, canals
<1> QED
  BY <1>1, TypeInit, TypeStep, StreamStep, PTL DEF Spec

-----------------------------------------------------------------------------
(* The numbers of the rows a standalone node sends.  Tally[p] is how many   *)
(* rows the server's binlog holds up to position p; EventIndex counts the   *)
(* rows after Begin, so that the row's place in the binlog is its number.    *)

IsTally(t, n) ==
    /\ t \in [0..n -> Nat] /\ t[0] = 0
    /\ \A e \in 1..n : t[e] = t[e - 1] + RowCount[e]

Tally == CHOOSE t : IsTally(t, LastEvent)

\* The counts exist: the least event without one would have one.
LEMMA TallyExists == IsTally(Tally, LastEvent)
<1> DEFINE T == {n \in Position : ~ \E t : IsTally(t, n)}
<1>1. ASSUME T # {} PROVE FALSE
  <2>1. T \in SUBSET Nat
    BY ModelAssumption DEF Position
  <2>2. PICK m \in T : \A y \in T : m <= y
    BY <1>1, <2>1, MinExists
  <2>3. m \in Nat /\ m <= LastEvent /\ LastEvent \in Nat
    BY ModelAssumption DEF Position
  <2>4. CASE m = 0
    <3> DEFINE t == [i \in 0..0 |-> 0]
    <3>1. IsTally(t, 0)
      BY DEF IsTally
    <3> QED
      BY <2>4, <3>1
  <2>5. CASE m # 0
    <3>1. m - 1 \in Position /\ m - 1 \notin T
      BY <2>2, <2>3, <2>5 DEF Position
    <3>2. PICK t : IsTally(t, m - 1)
      BY <3>1
    <3> DEFINE u == [i \in 0..m |-> IF i = m THEN t[m - 1] + RowCount[m] ELSE t[i]]
    <3>3. t \in [0..(m - 1) -> Nat] /\ t[0] = 0
          /\ \A e \in 1..(m - 1) : t[e] = t[e - 1] + RowCount[e]
      BY <3>2 DEF IsTally
    <3>4. RowCount[m] \in Nat
      BY <2>3, <2>5, ModelAssumption DEF Event
    <3>5. u \in [0..m -> Nat] /\ u[0] = 0
      BY <2>3, <2>5, <3>3, <3>4
    <3>6. \A e \in 1..m : u[e] = u[e - 1] + RowCount[e]
      BY <2>3, <2>5, <3>3, <3>4
    <3>7. IsTally(u, m)
      BY <3>5, <3>6 DEF IsTally
    <3> QED
      BY <3>7
  <2> QED
    BY <2>4, <2>5
<1>2. LastEvent \in Position
  BY ModelAssumption DEF Position
<1>3. \E t : IsTally(t, LastEvent)
  BY <1>1, <1>2
<1> QED
  BY <1>3 DEF Tally

LEMMA TallyNext ==
    /\ Tally \in [Position -> Nat]
    /\ \A e \in Event : Tally[e] = Tally[e - 1] + RowCount[e]
BY TallyExists DEF IsTally, Position, Event

\* A later position has no fewer rows before it.
LEMMA TallyGrows ==
    ASSUME NEW p \in Position, NEW q \in Position, p <= q
    PROVE  Tally[p] <= Tally[q]
<1> DEFINE T == {n \in Position : p <= n /\ ~(Tally[p] <= Tally[n])}
<1>1. ASSUME T # {} PROVE FALSE
  <2>1. T \in SUBSET Nat
    BY ModelAssumption DEF Position
  <2>2. PICK m \in T : \A y \in T : m <= y
    BY <1>1, <2>1, MinExists
  <2>3. m \in Position /\ p <= m /\ ~(Tally[p] <= Tally[m]) /\ m \in Nat /\ p \in Nat
    BY ModelAssumption DEF Position
  <2>4. Tally[p] \in Nat /\ Tally[m] \in Nat
    BY <2>3, TallyNext
  <2>5. m # p
    BY <2>3, <2>4
  <2>6. m \in Event /\ m - 1 \in Position /\ p <= m - 1
    BY <2>3, <2>5, ModelAssumption DEF Event, Position
  <2>7. Tally[p] <= Tally[m - 1]
    <3>1. m - 1 \notin T
      BY <2>2, <2>3
    <3> QED
      BY <2>6, <3>1
  <2>8. Tally[m] = Tally[m - 1] + RowCount[m] /\ RowCount[m] \in Nat /\ Tally[m - 1] \in Nat
    BY <2>6, TallyNext, ModelAssumption
  <2> QED
    BY <2>3, <2>4, <2>7, <2>8
<1> QED
  BY <1>1

\* What the index is after the rows up to position p.
Number(p) == Tally[p] - Tally[Begin]

\* Two rows after Begin with one number are one row.
LEMMA NumbersDiffer ==
    ASSUME Begin \in Position,
           NEW e \in Event, NEW f \in Event, NEW r \in 1..RowCount[e], NEW s \in 1..RowCount[f],
           e < f
    PROVE  Number(e - 1) + r < Number(f - 1) + s
<1>1. e \in Position /\ e - 1 \in Position /\ f - 1 \in Position /\ e <= f - 1
  BY ModelAssumption DEF Event, Position
<1>2. Tally[e] <= Tally[f - 1] /\ Tally[e] = Tally[e - 1] + RowCount[e]
  BY <1>1, TallyGrows, TallyNext
<1>3. /\ Tally[e] \in Nat /\ Tally[e - 1] \in Nat /\ Tally[f - 1] \in Nat /\ Tally[Begin] \in Nat
      /\ RowCount[e] \in Nat /\ RowCount[f] \in Nat
  BY <1>1, TallyNext, ModelAssumption
<1>4. r \in Nat /\ r <= RowCount[e] /\ s \in Nat /\ s >= 1
  BY <1>3
<1> QED
  BY <1>2, <1>3, <1>4 DEF Number

-----------------------------------------------------------------------------
(* Why a standalone node numbers a row as before: it starts its stream once *)
(* per boot, at the position its index belongs to.                          *)

Exiting == binlogIsExit \in status

\* Nothing saved or vouched for lies beyond p.
Reached(p) == Begin <= p /\ cache.pos <= p

\* One start signal per boot, and so one goroutine.
OneStart ==
    /\ inbox.at = "none"
    /\ startServiceChan \in {0, 1}
    /\ startServiceChan = 1 =>
          /\ \A k \in Runners : pc[k] = "idle"
          /\ Reached(lastPos) /\ EventIndex = Number(lastPos)
    /\ \A j, k \in Runners : pc[j] # "idle" /\ pc[k] # "idle" => j = k

\* Stop signals come from Close only, so that the last save never happens; a
\* process starts with none of them.
ExitFirst ==
    /\ closing # "no" \/ stopServiceChan # <<>> \/ lookStop = "save" => Exiting
    /\ ~up => ~ctxDone /\ closing = "no" /\ stopServiceChan = <<>>

\* Where the goroutine is, the index is that of its position; OnRow drops rows
\* while the process exits, and then neither is used any more.
StreamOK(k) ==
    /\ pc[k] = "pos" => Reached(lastPos) /\ EventIndex = Number(lastPos)
    /\ pc[k] = "run" => Reached(cur[k] - 1) /\ EventIndex = Number(cur[k] - 1)
    /\ pc[k] \in {"fetch", "save"} =>
          Reached(cur[k] - 1) /\ (Exiting \/ EventIndex = Number(cur[k] - 1))
    /\ pc[k] = "row" => Reached(cur[k] - 1) /\ EventIndex = Number(cur[k] - 1) + row[k]
    /\ pc[k] = "save" => Exiting \/ idx[k] = Number(cur[k])
    /\ pc[k] = "last" => Reached(cur[k]) /\ (Exiting \/ EventIndex = Number(cur[k]))

CacheOK ==
    IF cache.pos = 0 THEN cache.index = 0
    ELSE Begin <= cache.pos /\ cache.index = Number(cache.pos)

SentOK ==
    \A d \in delivered :
        /\ d.ev <= head
        /\ d.ev > Begin => d.row \in 1..RowCount[d.ev] /\ d.index = Number(d.ev - 1) + d.row

NInv == OneStart /\ ExitFirst /\ CacheOK /\ SentOK /\ \A k \in Runners : StreamOK(k)

LEMMA NumbersInit == Init => NInv
BY DEF Init, NInv, OneStart, ExitFirst, CacheOK, SentOK, StreamOK, main, signals, NoCall, NoPos,
   Idle, Zero

\* An invariant of the numbers: what was sent has the number of its place.
LEMMA NumberedStable == ASSUME TInv, SentOK PROVE IndexStable
<1> SUFFICES ASSUME NEW c \in delivered, NEW d \in delivered, c.ev > Begin, d.ev > Begin
             PROVE  c.index = d.index <=> c.ev = d.ev /\ c.row = d.row
  BY DEF IndexStable
<1>1. /\ c.ev \in Event /\ d.ev \in Event /\ c.index \in Nat /\ d.index \in Nat
      /\ c.row \in Nat /\ d.row \in Nat /\ Begin \in Position /\ Begin \in Nat
  <2>1. /\ c.ev \in Event /\ d.ev \in Event /\ c.index \in Nat /\ d.index \in Nat
        /\ c.row \in Nat /\ d.row \in Nat
    BY DEF TInv, TypeOK, DeliveredOK
  <2>2. Begin \in Nat /\ Begin <= LastEvent
    BY HeadBounds DEF TInv, TypeOK, Begin
  <2> QED
    BY <2>1, <2>2, ModelAssumption DEF Position
<1>2. /\ c.row \in 1..RowCount[c.ev] /\ c.index = Number(c.ev - 1) + c.row
      /\ d.row \in 1..RowCount[d.ev] /\ d.index = Number(d.ev - 1) + d.row
  BY DEF SentOK
<1>3. CASE c.ev < d.ev
  <2>1. c.index < d.index
    BY <1>1, <1>2, <1>3, NumbersDiffer
  <2> QED
    BY <1>1, <1>3, <2>1 DEF Event
<1>4. CASE d.ev < c.ev
  <2>1. d.index < c.index
    BY <1>1, <1>2, <1>4, NumbersDiffer
  <2> QED
    BY <1>1, <1>4, <2>1 DEF Event
<1>5. CASE c.ev = d.ev
  <2>1. Number(c.ev - 1) \in Int
    <3>1. c.ev - 1 \in Position
      <4>1. c.ev \in 1..LastEvent
        BY <1>1 DEF Event
      <4>2. LastEvent \in Nat
        BY ModelAssumption
      <4> QED
        BY <4>1, <4>2 DEF Position
    <3>2. Tally[c.ev - 1] \in Nat /\ Tally[Begin] \in Nat
      BY <1>1, <3>1, TallyNext
    <3> QED
      BY <3>2 DEF Number
  <2> QED
    BY <1>1, <1>2, <1>5, <2>1
<1> QED
  BY <1>1, <1>3, <1>4, <1>5, ModelAssumption DEF Event

\* A step that moves no goroutine and no position leaves the numbers be.
LEMMA NumbersFrame ==
    ASSUME TInv, NInv,
           UNCHANGED <<pc, cur, row, idx, EventIndex, lastPos, base, anew, cache, delivered, inbox,
                       startServiceChan>>,
           head' \in {head, head + 1}, Exiting => Exiting', ExitFirst'
    PROVE  NInv'
<1> USE BeginStays
<1>1. OneStart' /\ CacheOK'
  BY DEF NInv, OneStart, CacheOK, Reached, Number
<1>2. SentOK'
  <2>1. \A d \in delivered : d.ev \in Nat
    BY DEF TInv, TypeOK, DeliveredOK, Event
  <2>2. head \in Nat
    BY DEF TInv, TypeOK, PositionsOK, Position, Event
  <2> QED
    BY <2>1, <2>2 DEF NInv, SentOK, Number
<1>3. ASSUME NEW k \in Runners PROVE StreamOK(k)'
  BY <1>3 DEF NInv, StreamOK, Reached, Number
<1> QED
  BY <1>1, <1>2, <1>3 DEF NInv

\* A step of the goroutine there is: only its own part is in question.
LEMMA NumbersMove ==
    ASSUME TInv, NInv, NEW k \in Runners, pc[k] # "idle",
           \A j \in Runners \ {k} : pc'[j] = pc[j],
           UNCHANGED <<main, inbox, startServiceChan, stopServiceChan, lookStop>>,
           Exiting => Exiting', StreamOK(k)', CacheOK', SentOK'
    PROVE  NInv'
<1>1. startServiceChan = 0 /\ inbox.at = "none"
      /\ \A j \in Runners \ {k} : pc[j] = "idle"
  BY DEF NInv, OneStart
<1>2. OneStart'
  BY <1>1 DEF OneStart
<1>3. ExitFirst'
  BY DEF NInv, ExitFirst, main
<1>4. ASSUME NEW j \in Runners PROVE StreamOK(j)'
  <2>1. CASE j = k
    BY <2>1
  <2>2. CASE j # k
    BY <1>1, <2>2 DEF StreamOK
  <2> QED
    BY <2>1, <2>2
<1> QED
  BY <1>2, <1>3, <1>4 DEF NInv

\* What a step needs to know of the goroutine's numbers.
LEMMA NumberTypes ==
    ASSUME TInv
    PROVE  /\ head \in Nat /\ Begin \in Nat /\ Begin <= head /\ head <= LastEvent
           /\ Begin \in Position /\ head \in Position
           /\ lastPos \in Nat /\ lastPos <= head /\ EventIndex \in Nat
           /\ cache.pos \in Nat /\ cache.index \in Nat /\ cache.pos <= head
           /\ Tally[Begin] \in Nat
           /\ LastEvent \in Nat
           /\ \A p \in 0..head : p \in Position /\ Tally[p] \in Nat
<1>1. LastEvent \in Nat /\ Position = 0..LastEvent
  BY ModelAssumption DEF Position
<1>2. /\ head \in 0..LastEvent /\ Begin \in 0..head /\ lastPos \in 0..head /\ EventIndex \in Nat
      /\ cache \in [pos : 0..head, index : Nat]
  BY <1>1, HeadBounds DEF TInv, TypeOK, PositionsOK, Begin
<1>3. cache.pos \in 0..head /\ cache.index \in Nat
  BY <1>2
<1>4. \A p \in 0..head : p \in Position
  BY <1>1, <1>2
<1>5. \A p \in Position : Tally[p] \in Nat
  BY TallyNext
<1> QED
  BY <1>1, <1>2, <1>3, <1>4, <1>5

LEMMA BootNumbers == ASSUME TInv, BootOK, NInv, Boot, Standalone PROVE NInv'
<1>0. /\ EventIndex' = cache.index /\ lastPos' = StartFrom
      /\ Begin' = (IF cache.pos = 0 THEN head ELSE Begin)
      /\ startServiceChan' = 1
      /\ UNCHANGED <<stopServiceChan, closing, pc, cache, head, delivered, inbox>>
      /\ status' = {cacheHandlerIsOpened} /\ lookStop' = "select" /\ ~up
  BY BootBegins DEF Boot, goroutines
<1>1. \A k \in Runners : pc[k] = "idle"
  BY <1>0 DEF TInv, DownOK
<1>2. /\ lastPos' \in 0..head /\ Begin' <= lastPos' /\ cache.pos <= lastPos'
      /\ EventIndex' = Tally[lastPos'] - Tally[Begin']
      /\ Begin <= Begin'
  <2>1. CASE cache.pos = 0
    BY <1>0, <2>1, NumberTypes DEF StartFrom, NInv, CacheOK
  <2>2. CASE cache.pos # 0
    BY <1>0, <2>2, NumberTypes DEF StartFrom, NInv, CacheOK, Number
  <2> QED
    BY <2>1, <2>2
<1>3. OneStart'
  BY <1>0, <1>1, <1>2 DEF NInv, OneStart, Reached, Number
<1>4. ExitFirst'
  BY <1>0 DEF Boot, NInv, ExitFirst
<1>5. CacheOK'
  <2>1. CASE cache.pos = 0
    BY <1>0, <2>1 DEF NInv, CacheOK
  <2>2. CASE cache.pos # 0
    BY <1>0, <2>2 DEF NInv, CacheOK, Number
  <2> QED
    BY <2>1, <2>2
<1>6. SentOK'
  <2>1. CASE cache.pos = 0
    <3>1. \A d \in delivered : d.ev \in Nat /\ d.ev <= head
      BY DEF TInv, TypeOK, DeliveredOK, Event, NInv, SentOK
    <3> QED
      BY <1>0, <2>1, <3>1, NumberTypes DEF SentOK
  <2>2. CASE cache.pos # 0
    BY <1>0, <2>2 DEF NInv, SentOK, Number
  <2> QED
    BY <2>1, <2>2
<1>7. \A k \in Runners : StreamOK(k)'
  BY <1>0, <1>1 DEF StreamOK
<1> QED
  BY <1>3, <1>4, <1>5, <1>6, <1>7 DEF NInv

LEMMA HaltNumbers == ASSUME TInv, NInv, Halt PROVE NInv'
<1> USE BeginStays
<1>1. OneStart' /\ ExitFirst'
  BY DEF Halt, OneStart, ExitFirst, Idle, NoCall
<1>2. CacheOK' /\ SentOK'
  BY DEF Halt, NInv, CacheOK, SentOK, Number
<1>3. \A k \in Runners : StreamOK(k)'
  BY DEF Halt, StreamOK, Idle
<1> QED
  BY <1>1, <1>2, <1>3 DEF NInv

\* The two service loops, Close and the server.
LEMMA LoopNumbers ==
    ASSUME TInv, NInv,
           \/ MasterWrite \/ Cancel \/ Close \/ CloseStopService \/ LookStartDone
           \/ LookStopSignal \/ LookStopReset \/ LookStopClose \/ LookStopClear \/ LookStopDone
           \/ LookStopSave
    PROVE  NInv' /\ cache' = cache
<1>1. cache' = cache
  <2>1. CASE LookStopSave
    <3>1. binlogIsExit \in status
      BY <2>1 DEF LookStopSave, NInv, ExitFirst, Exiting
    <3>2. {binlogIsExit, cacheHandlerIsOpened} \cap status # {cacheHandlerIsOpened}
      BY <3>1 DEF binlogIsExit, cacheHandlerIsOpened
    <3> QED
      BY <2>1, <3>2 DEF LookStopSave, saveBinlogPositionCache
  <2> QED
    BY <2>1 DEF MasterWrite, Cancel, Close, CloseStopService, LookStartDone, LookStopSignal,
       LookStopReset, LookStopClose, LookStopClear, LookStopDone
<1>2. /\ UNCHANGED <<pc, cur, row, idx, EventIndex, lastPos, base, anew, delivered, inbox,
                     startServiceChan>>
      /\ head' \in {head, head + 1}
  BY DEF MasterWrite, Cancel, Close, CloseStopService, LookStartDone, LookStopSignal, memory,
     LookStopReset, LookStopClose, LookStopClear, LookStopDone, LookStopSave, goroutines,
     history, signals
<1>3. status \in SUBSET {binlogIsRunning, binlogIsExit, cacheHandlerIsOpened}
  BY DEF TInv, TypeOK, ProcessOK
<1>4. Exiting => Exiting'
  <2>1. \/ status' = status \/ status' = status \cup {binlogIsExit}
        \/ status' = status \ {cacheHandlerIsOpened} \/ status' = status \ {binlogIsRunning}
    BY DEF MasterWrite, Cancel, Close, CloseStopService, LookStartDone, LookStopSignal,
       LookStopReset, LookStopClose, LookStopClear, LookStopDone, LookStopSave
  <2> QED
    BY <2>1 DEF Exiting, binlogIsExit, binlogIsRunning, cacheHandlerIsOpened
<1>5. ExitFirst'
  <2>1. ExitFirst
    BY DEF NInv
  <2>2. CASE MasterWrite \/ LookStartDone
    BY <2>1, <2>2 DEF MasterWrite, LookStartDone, ExitFirst, Exiting, main, signals, loops
  <2>3. CASE Cancel
    BY <2>1, <2>3 DEF Cancel, ExitFirst, Exiting, signals, loops
  <2>4. CASE Close
    BY <2>1, <2>4 DEF Close, ExitFirst, Exiting, signals, loops
  <2>5. CASE CloseStopService
    <3>1. up' /\ Exiting'
      BY <1>4, <2>1, <2>5 DEF CloseStopService, ExitFirst
    <3> QED
      BY <3>1 DEF ExitFirst
  <2>6. CASE LookStopSignal
    <3>1. Exiting'
      BY <1>4, <2>1, <2>6 DEF LookStopSignal, ExitFirst
    <3>2. up'
      BY <2>1, <2>6 DEF LookStopSignal, ExitFirst, main
    <3> QED
      BY <3>1, <3>2 DEF ExitFirst
  <2>7. CASE LookStopReset \/ LookStopClose \/ LookStopClear \/ LookStopDone \/ LookStopSave
    <3>1. UNCHANGED <<up, ctxDone, closing, stopServiceChan>> /\ lookStop' # "save"
      BY <2>7 DEF LookStopReset, LookStopClose, LookStopClear, LookStopDone, LookStopSave, main,
         signals
    <3> QED
      BY <1>4, <2>1, <3>1 DEF ExitFirst
  <2> QED
    BY <2>2, <2>3, <2>4, <2>5, <2>6, <2>7
<1> QED
  BY <1>1, <1>2, <1>4, <1>5, NumbersFrame

\* A start signal: the first one of the boot, with no goroutine yet.
LEMMA StartNumbers ==
    ASSUME TInv, NInv, LookStartIgnore \/ LookStartSpawn PROVE NInv' /\ cache' = cache
<1> USE BeginStays
<1>1. /\ startServiceChan = 1 /\ startServiceChan' = 0
      /\ UNCHANGED <<main, stopServiceChan, lookStop, cur, row, idx, EventIndex, lastPos, base, anew,
                     cache, delivered, inbox, head>>
      /\ Exiting => Exiting'
  BY DEF LookStartIgnore, LookStartSpawn, NInv, OneStart, signals, loops, memory, history,
     goroutines, Exiting
<1>2. /\ \A k \in Runners : pc[k] = "idle"
      /\ Reached(lastPos) /\ EventIndex = Number(lastPos) /\ inbox.at = "none"
  BY <1>1 DEF NInv, OneStart
<1>3. pc \in [Runners -> {"idle", "pos", "run", "fetch", "row", "save", "last", "err"}]
  BY DEF TInv, TypeOK, GoroutinesOK
<1>4. /\ \A k \in Runners : pc'[k] \in {"idle", "pos"}
      /\ \A j, k \in Runners : pc'[j] # "idle" /\ pc'[k] # "idle" => j = k
  <2>1. CASE LookStartIgnore
    BY <1>2, <2>1 DEF LookStartIgnore, goroutines
  <2>2. CASE LookStartSpawn
    <3>1. PICK k \in Runners : pc' = [pc EXCEPT ![k] = "pos"]
      BY <2>2 DEF LookStartSpawn
    <3> QED
      BY <1>2, <1>3, <3>1
  <2> QED
    BY <2>1, <2>2
<1>5. OneStart'
  BY <1>1, <1>2, <1>4 DEF OneStart
<1>6. ExitFirst' /\ CacheOK' /\ SentOK'
  BY <1>1 DEF NInv, ExitFirst, CacheOK, SentOK, Number, main
<1>7. \A k \in Runners : StreamOK(k)'
  BY <1>1, <1>2, <1>4 DEF StreamOK, Reached, Number
<1> QED
  BY <1>1, <1>5, <1>6, <1>7 DEF NInv

\* The goroutine, without a row or a save.
LEMMA RunnerNumbers ==
    ASSUME TInv, NInv, NEW k \in Runners,
           \/ RunnerStartPos(k) \/ RunnerRunFrom(k) \/ RunnerRefused(k) \/ RunnerReturn(k)
           \/ RunnerErr(k) \/ RunnerFail(k) \/ OnRow(k) \/ OnPosSynced(k)
    PROVE  NInv' /\ cache' = cache
<1> USE BeginStays
<1>0. /\ pc \in [Runners -> {"idle", "pos", "run", "fetch", "row", "save", "last", "err"}]
      /\ cur \in [Runners -> 0..LastEvent + 1] /\ idx \in [Runners -> Nat]
      /\ row \in [Runners -> Nat]
  BY DEF TInv, TypeOK, GoroutinesOK
<1>1. /\ UNCHANGED <<main, inbox, startServiceChan, stopServiceChan, lookStop, EventIndex,
                     lastPos, base, anew, head, cache, delivered>>
      /\ pc[k] # "idle" /\ \A j \in Runners \ {k} : pc'[j] = pc[j]
  BY <1>0 DEF RunnerStartPos, RunnerRunFrom, RunnerRefused, RunnerReturn, RunnerErr, RunnerFail,
     OnRow, OnPosSynced, Fetched, Leave, signals, loops, memory, history
<1>2. Exiting => Exiting'
  <2>1. status' = status \/ status' = Toggle(status, binlogIsRunning)
    BY DEF RunnerStartPos, RunnerRunFrom, RunnerRefused, RunnerReturn, RunnerErr, RunnerFail,
       OnRow, OnPosSynced, Leave
  <2> QED
    BY <2>1 DEF Exiting, Toggle, binlogIsExit, binlogIsRunning
<1>3. CacheOK' /\ SentOK'
  BY <1>1 DEF NInv, CacheOK, SentOK, Number
<1>4. StreamOK(k)
  BY DEF NInv
<1>5. StreamOK(k)'
  <2>1. CASE RunnerStartPos(k)
    <3>1. /\ pc[k] = "pos" /\ pc'[k] = "run" /\ cur'[k] = lastPos + 1 /\ cur'[k] - 1 = lastPos
      BY <1>0, <2>1, NumberTypes DEF RunnerStartPos
    <3> QED
      BY <1>1, <1>4, <3>1 DEF StreamOK, Reached, Number
  <2>2. CASE RunnerRunFrom(k)
    <3>1. /\ pc[k] = "run" /\ pc'[k] = "fetch" /\ cur' = cur
      BY <1>0, <2>2 DEF RunnerRunFrom
    <3> QED
      BY <1>1, <1>4, <3>1 DEF StreamOK, Reached, Number
  <2>3. CASE RunnerRefused(k) \/ RunnerReturn(k) \/ RunnerErr(k) \/ RunnerFail(k)
    <3>1. pc'[k] \in {"idle", "err"}
      BY <1>0, <2>3 DEF RunnerRefused, RunnerReturn, RunnerErr, RunnerFail, Leave
    <3> QED
      BY <3>1 DEF StreamOK
  <2>4. CASE OnRow(k) /\ Exiting
    <3>1. /\ pc[k] = "fetch" /\ pc'[k] = "fetch" /\ cur'[k] = cur[k] + 1 /\ Exiting'
      BY <1>0, <1>2, <2>4 DEF OnRow, Fetched, Exiting
    <3>2. cur[k] \in Nat /\ cur'[k] - 1 = cur[k] /\ Reached(cur[k] - 1)
      BY <1>0, <1>4, <3>1, NumberTypes DEF StreamOK
    <3>3. Begin <= cur[k] /\ cache.pos <= cur[k]
      BY <3>2, NumberTypes DEF Reached
    <3>4. Begin' <= cur'[k] - 1 /\ cache'.pos <= cur'[k] - 1
      BY <1>1, <3>2, <3>3
    <3> QED
      BY <3>1, <3>4 DEF StreamOK, Reached
  <2>5. CASE OnRow(k) /\ ~Exiting
    <3>1. /\ pc[k] = "fetch" /\ pc'[k] = "row" /\ UNCHANGED <<cur, row>>
      BY <1>0, <2>5 DEF OnRow, Fetched, Exiting
    <3>2. row[k] = 0
      BY <3>1 DEF TInv, CursorOK
    <3>3. Reached(cur[k] - 1) /\ EventIndex = Number(cur[k] - 1)
      BY <1>4, <2>5, <3>1 DEF StreamOK
    <3>4. EventIndex' = EventIndex /\ EventIndex + 0 = EventIndex
      BY <1>1, NumberTypes
    <3> QED
      BY <1>1, <3>1, <3>2, <3>3, <3>4 DEF StreamOK, Reached, Number
  <2>6. CASE OnPosSynced(k)
    <3>1. /\ pc[k] = "fetch" /\ pc'[k] = "save" /\ UNCHANGED <<cur, row, status>>
          /\ idx'[k] = EventIndex /\ RowCount[cur[k]] = 0 /\ cur[k] <= head
      BY <1>0, <2>6 DEF OnPosSynced, Fetched
    <3>2. cur[k] \in Event /\ cur[k] - 1 \in 0..head
      BY <3>1, NumberTypes DEF TInv, CursorOK, Event
    <3>3. Tally[cur[k]] = Tally[cur[k] - 1]
      BY <3>1, <3>2, TallyNext, NumberTypes
    <3>4. Exiting' = Exiting
      BY <3>1 DEF Exiting
    <3> QED
      BY <1>1, <1>4, <3>1, <3>3, <3>4 DEF StreamOK, Reached, Number
  <2> QED
    BY <2>1, <2>2, <2>3, <2>4, <2>5, <2>6
<1> QED
  BY <1>1, <1>2, <1>3, <1>5, NumbersMove

\* OnRow, one row: its number is that of its place, whether it can be encoded
\* or not.
LEMMA RowNumbers ==
    ASSUME TInv, NInv, NEW k \in Runners, OnRowNotify(k) PROVE NInv' /\ cache' = cache
<1> USE BeginStays
<1> DEFINE e == cur[k]
           r == row[k] + 1
<1>0. /\ pc \in [Runners -> {"idle", "pos", "run", "fetch", "row", "save", "last", "err"}]
      /\ cur \in [Runners -> 0..LastEvent + 1] /\ row \in [Runners -> Nat]
  BY DEF TInv, TypeOK, GoroutinesOK
<1>1. /\ UNCHANGED <<main, status, inbox, startServiceChan, stopServiceChan, lookStop, lastPos,
                     base, anew, head, cache>>
      /\ pc[k] = "row" /\ \A j \in Runners \ {k} : pc'[j] = pc[j]
      /\ EventIndex' = EventIndex + 1 /\ notify(e, r, EventIndex')
      /\ row'[k] = (IF r = RowCount[e] THEN 0 ELSE r)
      /\ cur'[k] = (IF r = RowCount[e] THEN e + 1 ELSE e)
      /\ pc'[k] = (IF r = RowCount[e] THEN "fetch" ELSE "row")
  BY <1>0 DEF OnRowNotify, signals, loops
<1>2. /\ e \in Event /\ e <= head /\ e - 1 \in 0..head /\ e \in 0..head
      /\ row[k] < RowCount[e] /\ RowCount[e] \in Nat /\ row[k] \in Nat
      /\ r \in 1..RowCount[e] /\ r \in Nat
  <2>1. e \in 1..head /\ row[k] < RowCount[e]
    BY <1>1 DEF TInv, CursorOK
  <2>2. e \in Event
    BY <2>1, NumberTypes DEF Event
  <2>3. RowCount[e] \in Nat /\ row[k] \in Nat
    BY <1>0, <2>2, ModelAssumption
  <2> QED
    BY <2>1, <2>2, <2>3, NumberTypes
<1>3. Reached(e - 1) /\ EventIndex = Number(e - 1) + row[k]
  BY <1>1 DEF NInv, StreamOK
<1>4. /\ Tally[e - 1] \in Nat /\ Tally[Begin] \in Nat /\ Tally[e] = Tally[e - 1] + RowCount[e]
  BY <1>2, NumberTypes, TallyNext
<1>5. Number(e - 1) \in Int /\ EventIndex' = Number(e - 1) + r
  BY <1>1, <1>2, <1>3, <1>4 DEF Number
<1>6. Begin <= e /\ cache.pos <= e
  BY <1>2, <1>3, NumberTypes DEF Reached
<1> HIDE DEF r, e
<1>7. CacheOK'
  BY <1>1 DEF NInv, CacheOK, Number
<1>8. SentOK'
  <2>1. ASSUME NEW d \in delivered'
        PROVE  /\ d.ev <= head
               /\ d.ev > Begin => /\ d.row \in 1..RowCount[d.ev]
                                 /\ d.index = Number(d.ev - 1) + d.row
    <3>1. CASE d \in delivered
      BY <3>1 DEF NInv, SentOK
    <3>2. CASE d = [ev |-> e, row |-> r, index |-> EventIndex']
      BY <1>2, <1>5, <3>2
    <3> QED
      BY <1>1, <2>1, <3>1, <3>2 DEF notify
  <2> QED
    BY <1>1, <2>1 DEF SentOK, Number
<1>9. StreamOK(k)'
  <2>1. CASE r = RowCount[e]
    <3>1. cur'[k] - 1 = e /\ pc'[k] = "fetch"
      BY <1>1, <1>2, <2>1
    <3>2. EventIndex' = Tally[e] - Tally[Begin]
      BY <1>2, <1>4, <1>5, <2>1 DEF Number
    <3>3. Begin' <= cur'[k] - 1 /\ cache'.pos <= cur'[k] - 1
          /\ EventIndex' = Tally[cur'[k] - 1] - Tally[Begin']
      BY <1>1, <1>6, <3>1, <3>2
    <3> QED
      BY <3>1, <3>3 DEF StreamOK, Reached, Number
  <2>2. CASE r # RowCount[e]
    <3>1. cur'[k] = e /\ pc'[k] = "row" /\ row'[k] = r
      BY <1>1, <2>2
    <3> QED
      BY <1>1, <1>3, <1>5, <3>1 DEF StreamOK, Reached, Number
  <2> QED
    BY <2>1, <2>2
<1>10. Exiting => Exiting'
  BY <1>1 DEF Exiting
<1> QED
  BY <1>1, <1>7, <1>8, <1>9, <1>10, NumbersMove

\* OnPosSynced saves a later position than any before, with its number.
LEMMA SaveNumbers ==
    ASSUME TInv, NInv, NEW k \in Runners, OnPosSyncedSave(k)
    PROVE  NInv' /\ cache'.pos >= cache.pos
<1> USE BeginStays
<1>0. /\ pc \in [Runners -> {"idle", "pos", "run", "fetch", "row", "save", "last", "err"}]
      /\ idx \in [Runners -> Nat]
  BY DEF TInv, TypeOK, GoroutinesOK
<1>1. /\ UNCHANGED <<main, status, inbox, startServiceChan, stopServiceChan, lookStop, lastPos,
                     EventIndex, base, anew, head, delivered, cur>>
      /\ pc[k] = "save" /\ pc'[k] = "last" /\ \A j \in Runners \ {k} : pc'[j] = pc[j]
  BY <1>0 DEF OnPosSyncedSave, signals, loops, memory, history
<1>2. \/ cache' = cache
      \/ cache' = [pos |-> cur[k], index |-> idx[k]] /\ ~Exiting
  <2>1. {binlogIsExit, cacheHandlerIsOpened} \cap status = {cacheHandlerIsOpened} => ~Exiting
    BY DEF binlogIsExit, cacheHandlerIsOpened, Exiting
  <2> QED
    BY <2>1 DEF OnPosSyncedSave, saveBinlogPositionCache
<1>3. /\ Reached(cur[k] - 1) /\ (Exiting \/ EventIndex = Number(cur[k] - 1))
      /\ Exiting \/ idx[k] = Number(cur[k])
  BY <1>1 DEF NInv, StreamOK
<1>4. /\ cur[k] \in Event /\ cur[k] \in Nat /\ cur[k] # 0 /\ cur[k] - 1 \in 0..head
      /\ Tally[cur[k]] = Tally[cur[k] - 1]
  <2>1. cur[k] \in 1..head /\ RowCount[cur[k]] = 0
    BY <1>1 DEF TInv, CursorOK
  <2>2. cur[k] \in Event /\ cur[k] - 1 \in 0..head
    BY <2>1, NumberTypes DEF Event
  <2> QED
    BY <2>1, <2>2, TallyNext, NumberTypes
<1>5. Begin <= cur[k] /\ cache.pos < cur[k]
  BY <1>3, <1>4, NumberTypes DEF Reached
<1>6. cache'.pos <= cur[k] /\ cache'.pos >= cache.pos
  <2>1. CASE cache' = cache
    BY <1>4, <1>5, <2>1, NumberTypes
  <2>2. CASE cache' = [pos |-> cur[k], index |-> idx[k]]
    BY <1>4, <1>5, <2>2, NumberTypes
  <2> QED
    BY <1>2, <2>1, <2>2
<1>7. CacheOK'
  <2>1. CASE cache' = cache
    BY <1>1, <2>1 DEF NInv, CacheOK, Number
  <2>2. CASE cache' = [pos |-> cur[k], index |-> idx[k]] /\ ~Exiting
    <3>1. cache'.pos = cur[k] /\ cache'.index = Tally[cur[k]] - Tally[Begin]
      BY <1>3, <2>2 DEF Number
    <3>2. cache'.pos # 0 /\ Begin' <= cache'.pos /\ cache'.index = Tally[cache'.pos] - Tally[Begin']
      BY <1>1, <1>4, <1>5, <3>1
    <3> QED
      BY <3>2 DEF CacheOK, Number
  <2> QED
    BY <1>2, <2>1, <2>2
<1>8. SentOK'
  BY <1>1 DEF NInv, SentOK, Number
<1>9. Exiting' = Exiting
  BY <1>1 DEF Exiting
<1>10. StreamOK(k)'
  BY <1>1, <1>3, <1>4, <1>5, <1>6, <1>9 DEF StreamOK, Reached, Number
<1> QED
  BY <1>1, <1>6, <1>7, <1>8, <1>9, <1>10, NumbersMove

LEMMA LastNumbers ==
    ASSUME TInv, NInv, NEW k \in Runners, OnPosSyncedLast(k)
    PROVE  NInv' /\ cache' = cache
<1> USE BeginStays
<1>0. /\ pc \in [Runners -> {"idle", "pos", "run", "fetch", "row", "save", "last", "err"}]
      /\ cur \in [Runners -> 0..LastEvent + 1]
  BY DEF TInv, TypeOK, GoroutinesOK
<1>1. /\ UNCHANGED <<main, status, inbox, startServiceChan, stopServiceChan, lookStop,
                     EventIndex, base, anew, head, delivered, cache>>
      /\ pc[k] = "last" /\ pc'[k] = "fetch" /\ \A j \in Runners \ {k} : pc'[j] = pc[j]
      /\ cur'[k] = cur[k] + 1
  BY <1>0 DEF OnPosSyncedLast, signals, loops, history
<1>2. cur'[k] - 1 = cur[k]
  BY <1>0, <1>1, NumberTypes
<1>3. Reached(cur[k]) /\ (Exiting \/ EventIndex = Number(cur[k]))
  BY <1>1 DEF NInv, StreamOK
<1>4. CacheOK' /\ SentOK'
  BY <1>1 DEF NInv, CacheOK, SentOK, Number
<1>5. Exiting' = Exiting
  BY <1>1 DEF Exiting
<1>6. StreamOK(k)'
  BY <1>1, <1>2, <1>3, <1>5 DEF StreamOK, Reached, Number
<1> QED
  BY <1>1, <1>4, <1>5, <1>6, NumbersMove

LEMMA NumbersStep ==
    ASSUME Standalone, TInv, BootOK, NInv, [Next]_vars
    PROVE  NInv' /\ cache'.pos >= cache.pos
<1>0. ASSUME cache' = cache PROVE cache'.pos >= cache.pos
  BY <1>0, NumberTypes
<1>1. CASE UNCHANGED vars
  <2>1. ExitFirst' /\ (Exiting => Exiting') /\ cache' = cache
    BY <1>1 DEF vars, main, signals, loops, NInv, ExitFirst, Exiting
  <2> QED
    BY <1>0, <1>1, <2>1, NumbersFrame DEF vars, main, signals, goroutines, memory, history
<1>2. CASE Boot
  BY <1>0, <1>2, BootNumbers DEF Boot
<1>3. CASE Crash \/ Exit
  BY <1>0, <1>3, HaltNumbers DEF Crash, Exit, Halt
<1>4. CASE MasterWrite \/ Cancel \/ Close \/ CloseStopService \/ LookStartDone \/ LookStop
  BY <1>0, <1>4, LoopNumbers DEF LookStop
<1>5. CASE LookStartIgnore \/ LookStartSpawn
  BY <1>0, <1>5, StartNumbers
<1>6. ASSUME NEW k \in Runners, Runner(k) \/ RunnerFail(k)
      PROVE  NInv' /\ cache'.pos >= cache.pos
  BY <1>0, <1>6, RunnerNumbers, RowNumbers, SaveNumbers, LastNumbers DEF Runner
<1>7. ASSUME NEW isLeader \in BOOLEAN, OnLeader(isLeader) PROVE FALSE
  BY <1>7 DEF OnLeader
<1>8. ASSUME NEW r \in PeerPos, SaveBinlogPosition(r) PROVE FALSE
  BY <1>8 DEF SaveBinlogPosition
<1>9. CASE Receive
  BY <1>9 DEF Receive, SaveBinlogPositionIndex, SaveBinlogPositionFile, NInv, OneStart
<1> QED
  BY <1>1, <1>2, <1>3, <1>4, <1>5, <1>6, <1>7, <1>8, <1>9 DEF Next, Shutdown, LookStart

\* A standalone node numbers a row once, from the last boot on that found nothing
\* saved: the EventIndex it restores from the cache file counts exactly the rows
\* between Begin and the position restored with it, wherever the crash fell and
\* whatever rows could not be encoded.
THEOREM NumbersStay == ASSUME Standalone PROVE Spec => []IndexStable
<1>1. Init => TInv /\ BootOK /\ NInv
  BY TypeInit, BootInit, NumbersInit
<1>2. TInv /\ BootOK /\ NInv /\ [Next]_vars => (TInv /\ BootOK /\ NInv)'
  BY TypeStep, BootStep, NumbersStep
<1>3. TInv /\ NInv => IndexStable
  BY NumberedStable DEF NInv
<1> QED
  BY <1>1, <1>2, <1>3, PTL DEF Spec

\* The cache file of a standalone node never goes back to an older position.
THEOREM PositionNeverBack == ASSUME Standalone PROVE Spec => PositionMonotone
<1>1. Init => TInv /\ BootOK /\ NInv
  BY TypeInit, BootInit, NumbersInit
<1>2. TInv /\ BootOK /\ NInv /\ [Next]_vars => (TInv /\ BootOK /\ NInv)'
  BY TypeStep, BootStep, NumbersStep
<1>3. TInv /\ BootOK /\ NInv /\ [Next]_vars => [cache'.pos >= cache.pos]_vars
  BY NumbersStep
<1> QED
  BY <1>1, <1>2, <1>3, PTL DEF Spec, PositionMonotone

-----------------------------------------------------------------------------
(* The service implements the durable feed of EventFeed, for every binlog, *)
(* every number of goroutines and every bound.                             *)

\* A goroutine in the middle of an event has left no gap before the next row,
\* also after binlogIsExit was raised behind its check.
SendingOK ==
    \A k \in Runners :
        pc[k] = "row" => /\ Covered(Begin, delivered, cur[k] - 1)
                         /\ \A r \in 1..row[k] : Done(delivered, cur[k], r)

\* What the feed's steps need.
FInv == TInv /\ BootOK /\ SInv /\ SendingOK

-----------------------------------------------------------------------------
(* The invariant. *)

\* No goroutine enters an event or moves within one.
LEMMA FrameSending ==
    ASSUME TInv, SendingOK,
           Begin' \in Int, Begin <= Begin', delivered \subseteq delivered',
           NEW k \in Runners,
           pc'[k] = "row" => pc[k] = "row" /\ cur'[k] = cur[k] /\ row'[k] = row[k],
           pc'[k] = "row"
    PROVE  /\ Covered(Begin', delivered', cur'[k] - 1)
           /\ \A r \in 1..row'[k] : Done(delivered', cur'[k], r)
<1>1. Begin \in Int /\ cur[k] - 1 \in Int
  BY Numbers
<1>2. Covered(Begin, delivered, cur[k] - 1)
  BY DEF SendingOK
<1>3. Covered(Begin', delivered', cur[k] - 1)
  BY <1>1, <1>2, CoveredGrows
<1>4. ASSUME NEW r \in 1..row[k] PROVE Done(delivered', cur[k], r)
  BY <1>4, DoneGrows DEF SendingOK
<1> QED
  BY <1>3, <1>4

LEMMA KeepsSending ==
    ASSUME TInv, SendingOK,
           Begin' \in Int, Begin <= Begin', delivered \subseteq delivered',
           \A k \in Runners :
               pc'[k] = "row" => pc[k] = "row" /\ cur'[k] = cur[k] /\ row'[k] = row[k]
    PROVE  SendingOK'
<1> SUFFICES ASSUME NEW k \in Runners, pc'[k] = "row"
             PROVE  /\ Covered(Begin', delivered', cur'[k] - 1)
                    /\ \A r \in 1..row'[k] : Done(delivered', cur'[k], r)
  BY DEF SendingOK
<1> QED
  BY FrameSending

\* The row that a turn of OnRow's loop sends.
LEMMA RowSent ==
    ASSUME TInv, NEW k \in Runners, OnRowNotify(k)
    PROVE  /\ pc[k] = "row" /\ cur[k] \in Event /\ cur[k] <= head /\ row[k] \in Nat
           /\ RowCount[cur[k]] \in Nat /\ row[k] < RowCount[cur[k]]
           /\ UNCHANGED <<head, base, anew, cache>> /\ delivered \subseteq delivered'
           /\ Done(delivered', cur[k], row[k] + 1)
<1> DEFINE r == row[k] + 1
           d == [ev |-> cur[k], row |-> r, index |-> EventIndex']
<1>1. /\ pc[k] = "row" /\ cur[k] \in Event /\ cur[k] <= head /\ row[k] \in Nat
      /\ RowCount[cur[k]] \in Nat /\ row[k] < RowCount[cur[k]]
  <2>1. pc[k] = "row" /\ row[k] \in Nat /\ head \in 0..LastEvent
    BY DEF OnRowNotify, TInv, TypeOK, GoroutinesOK, PositionsOK, Position, Event
  <2>2. cur[k] \in 1..head /\ row[k] < RowCount[cur[k]]
    BY <2>1 DEF TInv, CursorOK
  <2>3. cur[k] \in Event /\ cur[k] <= head
    BY <2>1, <2>2, ModelAssumption DEF Event
  <2> QED
    BY <2>1, <2>2, <2>3, ModelAssumption
<1>2. UNCHANGED <<head, base, anew, cache>> /\ delivered \subseteq delivered'
  BY DEF OnRowNotify, notify
<1>3. CASE <<cur[k], r>> \in BadRows
  BY <1>1, <1>2, <1>3 DEF Done
<1>4. CASE d \in delivered'
  <2>1. d.ev = cur[k] /\ d.row = r
    OBVIOUS
  <2> HIDE DEF d
  <2>2. Done(delivered', cur[k], r)
    BY <1>4, <2>1 DEF Done
  <2> QED
    BY <1>1, <1>2, <2>2
<1> QED
  BY <1>3, <1>4 DEF OnRowNotify, notify

LEMMA OnRowNotifySending ==
    ASSUME FInv, NEW k \in Runners, OnRowNotify(k) PROVE SendingOK'
<1> USE BeginStays
<1> USE DEF FInv
<1>1. Begin' = Begin /\ Begin \in Int /\ delivered \subseteq delivered' /\ cur[k] - 1 \in Int
  BY RowSent, Numbers
<1> SUFFICES ASSUME NEW j \in Runners, pc'[j] = "row"
             PROVE  /\ Covered(Begin', delivered', cur'[j] - 1)
                    /\ \A r \in 1..row'[j] : Done(delivered', cur'[j], r)
  BY DEF SendingOK
<1>2. CASE j # k
  <2>1. pc'[j] = pc[j] /\ cur'[j] = cur[j] /\ row'[j] = row[j]
    BY <1>2 DEF OnRowNotify, TInv, TypeOK, GoroutinesOK
  <2> QED
    BY <1>1, <2>1, FrameSending
<1>3. CASE j = k
  <2>1. cur'[k] = cur[k] /\ row'[k] = row[k] + 1
    BY <1>3 DEF OnRowNotify, TInv, TypeOK, GoroutinesOK
  <2>2. Covered(Begin, delivered, cur[k] - 1) /\ \A r \in 1..row[k] : Done(delivered, cur[k], r)
    BY RowSent DEF SendingOK
  <2>3. Covered(Begin', delivered', cur[k] - 1)
    BY <1>1, <2>2, CoveredGrows
  <2>4. ASSUME NEW r \in 1..row[k] + 1 PROVE Done(delivered', cur[k], r)
    <3>1. CASE r = row[k] + 1
      BY <3>1, RowSent
    <3>2. CASE r \in 1..row[k]
      BY <3>2, <1>1, <2>2, DoneGrows
    <3> QED
      BY <3>1, <3>2, RowSent
  <2> QED
    BY <1>3, <2>1, <2>3, <2>4
<1> QED
  BY <1>2, <1>3

LEMMA OnRowSending ==
    ASSUME FInv, NEW k \in Runners, OnRow(k) PROVE SendingOK'
<1> USE BeginStays
<1> USE DEF FInv
<1>1. /\ UNCHANGED <<base, anew, delivered, row>> /\ pc[k] = "fetch" /\ row[k] = 0
      /\ \A j \in Runners \ {k} : pc'[j] = pc[j] /\ cur'[j] = cur[j]
  BY DEF OnRow, Fetched, TInv, TypeOK, GoroutinesOK, CursorOK, history
<1> SUFFICES ASSUME NEW j \in Runners, pc'[j] = "row"
             PROVE  /\ Covered(Begin', delivered', cur'[j] - 1)
                    /\ \A r \in 1..row'[j] : Done(delivered', cur'[j], r)
  BY DEF SendingOK
<1>2. CASE j # k
  BY <1>1, <1>2 DEF SendingOK
<1>3. CASE j = k
  <2>1. binlogIsExit \notin status /\ cur'[k] = cur[k]
    BY <1>1, <1>3 DEF OnRow
  <2>2. Covered(Begin, delivered, cur[k] - 1)
    BY <1>1, <2>1 DEF SInv, ProgressOK, RunnerOK
  <2> QED
    BY <1>1, <1>3, <2>1, <2>2
<1> QED
  BY <1>2, <1>3

-----------------------------------------------------------------------------
(* The two vocabularies. *)

LEMMA DoneIsSent ==
    ASSUME NEW e, NEW r
    PROVE  Done(delivered, e, r)
             <=> <<e, r>> \in {<<d.ev, d.row>> : d \in delivered} \cup BadRows
BY DEF Done

LEMMA CoveredIsSent ==
    ASSUME TInv, NEW p PROVE Covered(Begin, delivered, p) <=> Feed!SentUpTo(p)
<1>1. \A e \in Event : Begin < e <=> base < e /\ anew < e
  BY Numbers, ModelAssumption DEF Event, Begin
<1> QED
  BY <1>1, DoneIsSent DEF Covered, Feed!SentUpTo, Feed!RowsSent, Event
-----------------------------------------------------------------------------
(* The steps. *)

\* A step of the feed, or none.
FeedStep == [Feed!Next]_(Feed!vars)

\* Nothing the feed knows of changes, and no goroutine moves into or in an event.
LEMMA StepAside ==
    ASSUME FInv, UNCHANGED <<head, base, anew, delivered, cache>>,
           \A k \in Runners :
               pc'[k] = "row" => pc[k] = "row" /\ cur'[k] = cur[k] /\ row'[k] = row[k]
    PROVE  SendingOK' /\ FeedStep
<1> USE BeginStays
<1>1. SendingOK'
  BY Numbers, KeepsSending DEF FInv
<1>2. UNCHANGED Feed!vars
  BY DEF Feed!vars
<1> QED
  BY <1>1, <1>2 DEF FeedStep

\* The feed begins, or begins anew, or goes on from the saved position.
LEMMA StepBoot == ASSUME FInv, Boot PROVE SendingOK' /\ FeedStep
<1> USE DEF FInv
<1>1. SendingOK'
  <2>1. Begin' \in Nat /\ Begin <= Begin'
    BY BootBegins, Numbers
  <2> QED
    BY <2>1, KeepsSending DEF Boot, goroutines
<1>2. /\ UNCHANGED <<head, delivered, cache>>
      /\ base' = IF base = 0 THEN head ELSE base
      /\ anew' = IF base # 0 /\ cache.pos = 0 THEN head ELSE anew
  BY DEF Boot
<1>3. CASE base = 0
  <2>1. Feed!Start
    BY <1>2, <1>3 DEF BootOK, Feed!Start
  <2> QED
    BY <1>1, <2>1 DEF FeedStep, Feed!Next
<1>4. CASE base # 0 /\ cache.pos = 0
  <2>1. Feed!StartAnew
    BY <1>2, <1>4 DEF Feed!StartAnew
  <2> QED
    BY <1>1, <2>1 DEF FeedStep, Feed!Next
<1>5. CASE base # 0 /\ cache.pos # 0
  BY <1>1, <1>2, <1>5 DEF FeedStep, Feed!vars
<1> QED
  BY <1>3, <1>4, <1>5

\* A leader vouches for a position, a new one or one that changes nothing.
LEMMA StepVouch ==
    ASSUME FInv, NEW r \in PeerPos, SaveBinlogPosition(r) PROVE SendingOK' /\ FeedStep
<1> USE DEF FInv
<1>1. r.pos \in Nat /\ r.pos >= 1
  BY ModelAssumption DEF Event
<1>2. /\ UNCHANGED <<head, delivered, cache, anew, pc, cur, row>> /\ r.pos <= head
      /\ base' = IF r.pos > base THEN r.pos ELSE base
      /\ base # 0
  BY DEF SaveBinlogPosition, BootOK, goroutines
<1>3. SendingOK'
  <2>1. Begin' \in Nat /\ Begin <= Begin'
    BY <1>1, <1>2, Numbers DEF Begin
  <2> QED
    BY <1>2, <2>1, KeepsSending
<1>4. CASE r.pos > base
  <2>1. PICK p \in (IF Standalone THEN {} ELSE {x.pos : x \in PeerPos}) : p = r.pos
    BY DEF SaveBinlogPosition
  <2>2. Feed!Vouch(p)
    BY <1>1, <1>2, <1>4, <2>1, Numbers DEF Feed!Vouch
  <2> QED
    BY <1>3, <2>2 DEF FeedStep, Feed!Next
<1>5. CASE ~(r.pos > base)
  BY <1>2, <1>3, <1>5 DEF FeedStep, Feed!vars
<1> QED
  BY <1>4, <1>5

\* A position is saved, or the save fails.
LEMMA StepSave ==
    ASSUME FInv, TInv', SInv', UNCHANGED <<head, base, anew, delivered>>, base # 0,
           cache'.pos # 0 \/ cache' = cache,
           \A k \in Runners :
               pc'[k] = "row" => pc[k] = "row" /\ cur'[k] = cur[k] /\ row'[k] = row[k]
    PROVE  SendingOK' /\ FeedStep
<1> USE BeginStays
<1>1. SendingOK'
  BY Numbers, KeepsSending DEF FInv
<1>2. CASE cache' = cache
  BY <1>1, <1>2 DEF FeedStep, Feed!vars
<1>3. CASE cache'.pos # 0
  <2>1. PICK p \in 1..head : p = cache'.pos
    BY <1>3, Numbers DEF FInv, TInv, TypeOK, PositionsOK
  <2>2. Covered(Begin, delivered, p)
    BY <2>1, BeginStays DEF SInv, NoRowSkipped
  <2>3. Feed!SentUpTo(p)
    BY <2>2, CoveredIsSent DEF FInv
  <2>4. Feed!Save(p)
    BY <2>1, <2>3 DEF Feed!Save
  <2> QED
    BY <1>1, <2>4 DEF FeedStep, Feed!Next
<1> QED
  BY <1>2, <1>3

\* A row is sent, or left out.
LEMMA StepSend ==
    ASSUME FInv, NEW k \in Runners, OnRowNotify(k) PROVE SendingOK' /\ FeedStep
<1> USE DEF FInv
<1> DEFINE r == row[k] + 1
           d == [ev |-> cur[k], row |-> r, index |-> EventIndex']
           Sent(D) == {<<x.ev, x.row>> : x \in D}
<1>1. SendingOK'
  BY OnRowNotifySending
<1>2. CASE delivered' = delivered
  BY <1>1, <1>2, RowSent DEF FeedStep, Feed!vars
<1>3. CASE delivered' = delivered \cup {d}
  <2>1. Sent(delivered') = Sent(delivered) \cup {<<cur[k], r>>}
    <3>1. d.ev = cur[k] /\ d.row = r
      OBVIOUS
    <3> HIDE DEF d, r
    <3> QED
      BY <1>3, <3>1
  <2>2. Feed!SentUpTo(cur[k] - 1)
    BY RowSent, CoveredIsSent DEF SendingOK
  <2>3. Feed!RowsSent(cur[k], r - 1)
    <3>1. r - 1 = row[k]
      BY RowSent
    <3> QED
      BY <3>1, RowSent, DoneIsSent DEF SendingOK, Feed!RowsSent
  <2>4. r \in 1..RowCount[cur[k]] /\ cur[k] \in 1..LastEvent /\ cur[k] <= head
    BY RowSent DEF Event
  <2>5. UNCHANGED <<head, base, anew, cache>>
    BY RowSent
  <2>6. PICK e \in 1..LastEvent : e = cur[k]
    BY <2>4
  <2>7. PICK q \in 1..RowCount[e] : q = r
    BY <2>4, <2>6
  <2>0. base # 0
    BY RowSent DEF BootOK, TInv, DownOK
  <2>8. Feed!Send(e, q)
    BY <2>0, <2>1, <2>2, <2>3, <2>4, <2>5, <2>6, <2>7 DEF Feed!Send
  <2>9. Feed!Next
    BY <2>8, Zenon DEF Feed!Next
  <2> QED
    BY <1>1, <2>9 DEF FeedStep
<1> QED
  BY <1>2, <1>3 DEF OnRowNotify, notify

LEMMA FeedNext == FInv /\ [Next]_vars /\ TInv' /\ SInv' => SendingOK' /\ FeedStep
<1> SUFFICES ASSUME FInv, [Next]_vars, TInv', SInv' PROVE SendingOK' /\ FeedStep
  OBVIOUS
<1> USE DEF main, goroutines, signals, loops, canals, memory, history
<1>0. pc \in [Runners -> {"idle", "pos", "run", "fetch", "row", "save", "last", "err"}]
      /\ cur \in [Runners -> 0..LastEvent + 1]
  BY DEF FInv, TInv, TypeOK, GoroutinesOK
<1>1. CASE MasterWrite
  <2>1. SendingOK'
    BY <1>1, Numbers, BeginStays, KeepsSending DEF MasterWrite, FInv
  <2>2. Feed!Publish
    BY <1>1 DEF MasterWrite, Feed!Publish
  <2> QED
    BY <2>1, <2>2 DEF FeedStep, Feed!Next
<1>2. CASE Boot
  BY <1>2, StepBoot
<1>3. CASE Crash \/ Exit
  BY <1>3, StepAside DEF Crash, Exit, Halt, Idle
<1>4. CASE Cancel \/ Close \/ CloseStopService \/ LookStartIgnore \/ LookStartDone
           \/ LookStopSignal \/ LookStopReset \/ LookStopClose \/ LookStopClear
           \/ LookStopDone \/ SaveBinlogPositionIndex \/ UNCHANGED vars
  BY <1>4, StepAside
     DEF Cancel, Close, CloseStopService, LookStartIgnore, LookStartDone,
         LookStopSignal, LookStopReset, LookStopClose, LookStopClear,
         LookStopDone, SaveBinlogPositionIndex, vars
<1>5. ASSUME NEW isLeader \in BOOLEAN, OnLeader(isLeader) PROVE SendingOK' /\ FeedStep
  <2>1. UNCHANGED <<head, base, anew, delivered, cache, pc, cur, row>>
    BY <1>5, Zenon DEF OnLeader
  <2> QED
    BY <2>1, StepAside
<1>6. CASE LookStartSpawn
  BY <1>0, <1>6, StepAside DEF LookStartSpawn
<1>7. CASE LookStopSave \/ SaveBinlogPositionFile
  <2>1. /\ base # 0 /\ UNCHANGED <<head, base, anew, delivered, pc, cur, row>>
        /\ cache'.pos # 0 \/ cache' = cache
    BY <1>7, Numbers DEF LookStopSave, SaveBinlogPositionFile, saveBinlogPositionCache, FInv,
       BootOK
  <2> QED
    BY <2>1, StepSave
<1>8. ASSUME NEW r \in PeerPos, SaveBinlogPosition(r) PROVE SendingOK' /\ FeedStep
  BY <1>8, StepVouch
<1>9. ASSUME NEW k \in Runners,
             \/ RunnerStartPos(k) \/ RunnerRunFrom(k) \/ RunnerErr(k)
             \/ OnPosSynced(k) \/ OnPosSyncedLast(k)
      PROVE  SendingOK' /\ FeedStep
  <2>1. /\ UNCHANGED <<head, base, anew, delivered, cache, row>> /\ pc'[k] # "row"
        /\ \A j \in Runners \ {k} : pc'[j] = pc[j] /\ cur'[j] = cur[j]
    BY <1>0, <1>9 DEF RunnerStartPos, RunnerRunFrom, RunnerErr, OnPosSynced,
       OnPosSyncedLast
  <2> QED
    BY <2>1, StepAside
<1>10. ASSUME NEW k \in Runners,
              RunnerRefused(k) \/ RunnerReturn(k) \/ RunnerFail(k)
       PROVE  SendingOK' /\ FeedStep
  <2>1. PICK s \in {"idle", "err"} : Leave(k, s)
    BY <1>10 DEF RunnerRefused, RunnerReturn, RunnerFail
  <2>2. /\ UNCHANGED <<head, base, anew, delivered, cache, row>> /\ pc'[k] # "row"
        /\ \A j \in Runners \ {k} : pc'[j] = pc[j] /\ cur'[j] = cur[j]
    BY <1>0, <2>1 DEF Leave
  <2> QED
    BY <2>2, StepAside
<1>11. ASSUME NEW k \in Runners, OnPosSyncedSave(k) PROVE SendingOK' /\ FeedStep
  <2>1. /\ UNCHANGED <<head, base, anew, delivered, cur, row>> /\ pc'[k] # "row"
        /\ \A j \in Runners \ {k} : pc'[j] = pc[j]
    BY <1>0, <1>11 DEF OnPosSyncedSave
  <2>2. base # 0 /\ (cache'.pos # 0 \/ cache' = cache)
    <3>1. pc[k] = "save"
      BY <1>11 DEF OnPosSyncedSave
    <3>2. up /\ cur[k] # 0
      BY <3>1 DEF FInv, TInv, DownOK, CursorOK
    <3> QED
      BY <1>11, <3>2 DEF OnPosSyncedSave, saveBinlogPositionCache, FInv, BootOK
  <2> QED
    BY <2>1, <2>2, StepSave
<1>12. ASSUME NEW k \in Runners, OnRow(k) PROVE SendingOK' /\ FeedStep
  <2>1. UNCHANGED Feed!vars
    BY <1>12 DEF OnRow, Feed!vars
  <2> QED
    BY <1>12, <2>1, OnRowSending DEF FeedStep
<1>13. ASSUME NEW k \in Runners, OnRowNotify(k) PROVE SendingOK' /\ FeedStep
  BY <1>13, StepSend
<1> QED
  BY <1>1, <1>2, <1>3, <1>4, <1>5, <1>6, <1>7, <1>8, <1>9, <1>10, <1>11, <1>12,
     <1>13
     DEF Next, Shutdown, LookStart, LookStop, Runner, Receive

\* The service implements the durable feed: no interleaving of start and stop
\* signals, stream failures, shutdown, crashes and received positions makes it
\* hand out a row before those that precede it, save a position whose rows were
\* not all handed out, or give up rows once it has saved a position, unless a
\* leader vouches for them.
THEOREM ImplementsFeed == Spec => DurableFeed
<1>1. Init => SendingOK /\ Feed!Init
  BY DEF Init, SendingOK, Feed!Init, Idle, NoPos
<1>2. Init => FInv
  BY <1>1, TypeInit, BootInit, SafetyInit DEF FInv
<1>3. FInv /\ [Next]_vars => FInv' /\ FeedStep
  BY TypeStep, BootStep, SafetyStep, FeedNext DEF FInv
<1> QED
  BY <1>1, <1>2, <1>3, PTL DEF Spec, DurableFeed, Feed!Spec, FeedStep
=============================================================================
