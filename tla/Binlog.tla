------------------------------- MODULE Binlog -------------------------------
(***************************************************************************)
(* One copycat process: the binlog service (binlog/binlog.go and           *)
(* binlog/binlog_handler.go) from start-up to exit.                        *)
(*                                                                         *)
(* Five kinds of goroutine share the Binlog struct:                        *)
(*   - lookStartService and lookStopService, which serve the two signal    *)
(*     channels filled by the leader callback OnLeader;                    *)
(*   - one goroutine per accepted start signal, which runs the canal       *)
(*     library and receives its callbacks OnRow and OnPosSynced;           *)
(*   - the agent client, which delivers the leader's positions to          *)
(*     SaveBinlogPosition;                                                 *)
(*   - main, which closes the service on a termination signal.             *)
(* The process may crash at any moment and an operator may boot it again;  *)
(* only the position cache file survives.                                  *)
(*                                                                         *)
(* The database server's binlog is a sequence of events 1..LastEvent, the  *)
(* first of which (the format description) is there before anybody asks.   *)
(* Event e carries RowCount[e] changed rows; an event without rows ends a  *)
(* transaction, and canal then reports e as a synced position.  A position *)
(* (file name and offset in the code) is the number of the last event read,*)
(* and 0 is no position, the file name "" of an empty cache file.          *)
(***************************************************************************)
EXTENDS Integers, Sequences

CONSTANTS
    LastEvent,     \* number of events the database server ever writes
    RowCount,      \* RowCount[e]: rows of event e, 0 for a transaction end
    BadRows,       \* rows <<e, r>> that json.Marshal rejects in notify
    PeerPos,       \* positions a remote leader may send, [pos, index]
    Runners,       \* slots for the goroutines spawned by lookStartService
    ChanCap,       \* capacity of both signal channels (100 in the code)
    Standalone,    \* TRUE iff the agent is disabled (agent.enabled = false)
    Limit,         \* bounds: boots, leader signals, canal failures, exits
    Spent          \* what of them is used up at first, of which a behaviour has one

Event == 1..LastEvent
Position == 0..LastEvent
Bounded == {"boot", "signal", "error", "term"}

ASSUME ModelAssumption ==
    /\ LastEvent \in Nat \ {0}
    /\ RowCount \in [Event -> Nat]
    /\ PeerPos \subseteq [pos : Event, index : Nat]
    /\ ChanCap \in Nat \ {0}
    /\ Standalone \in BOOLEAN
    /\ Limit \in [Bounded -> Nat] /\ Spent \subseteq [Bounded -> Nat]

-----------------------------------------------------------------------------
(* State. *)

VARIABLES
    up,                \* the process is running
    status,            \* h.status, the set of its raised bits
    statusLock,        \* TRUE while lookStopService holds h.statusLock
    startServiceChan,  \* number of start signals queued
    stopServiceChan,   \* queued stop signals: TRUE is "exit for good"
    lookStart,         \* lookStartService: "select" or "returned"
    lookStop,          \* lookStopService: where it is in its loop
    handler,           \* h.handler, the current canal (numbered from 1)
    open,              \* canals created and not closed
    EventIndex,        \* h.EventIndex
    lastPos,           \* h.lastBinFile and h.lastPos
    ctxDone,           \* ctx.Ctx is cancelled
    closing,           \* main: how far Close has got
    pc,                \* pc[k]: where runner goroutine k is
    cur,               \* cur[k]: event it handles or will fetch next
    row,               \* row[k]: rows of that event already notified
    idx,               \* idx[k]: event index loaded by OnPosSynced
    canal,             \* canal[k]: the canal it runs
    inbox              \* SaveBinlogPosition: the call being executed

VARIABLES
    cache,             \* the cache file: last saved position and index
    head               \* events written by the database server so far

VARIABLES
    delivered,         \* history: every notification handed to the services
    base,              \* history: where the very first stream began (0 before
                       \* that), or a later position a leader vouched for
    anew,              \* history: where the last later boot that found no saved
                       \* position began, 0 if none did
    leading,           \* history: argument of the last OnLeader call
    used               \* how much of each bound is used up

goroutines == <<pc, cur, row, idx, canal>>
signals == <<startServiceChan, stopServiceChan>>
loops == <<lookStart, lookStop>>
canals == <<handler, open>>
memory == <<EventIndex, lastPos>>
main == <<up, ctxDone, closing>>
history == <<delivered, base, anew, leading>>
vars == <<main, status, statusLock, signals, loops, canals, memory, goroutines,
          inbox, cache, head, history, used>>

binlogIsRunning == "binlogIsRunning"
binlogIsExit == "binlogIsExit"
cacheHandlerIsOpened == "cacheHandlerIsOpened"

NoPos == [pos |-> 0, index |-> 0]    \* what unpackPos yields on an empty file
NoCall == [at |-> "none", pos |-> 0, index |-> 0]
Idle == [k \in Runners |-> "idle"]
Zero == [k \in Runners |-> 0]

\* h.status ^= bit
Toggle(s, bit) == IF bit \in s THEN s \ {bit} ELSE s \cup {bit}

Spend(x) == /\ used[x] < Limit[x]
            /\ used' = [used EXCEPT ![x] = @ + 1]

-----------------------------------------------------------------------------
Init ==
    /\ up = FALSE
    /\ status = {}
    /\ statusLock = FALSE
    /\ startServiceChan = 0
    /\ stopServiceChan = <<>>
    /\ lookStart = "returned"
    /\ lookStop = "returned"
    /\ handler = 0
    /\ open = {}
    /\ EventIndex = 0
    /\ lastPos = 0
    /\ ctxDone = FALSE
    /\ closing = "no"
    /\ pc = Idle
    /\ cur = Zero
    /\ row = Zero
    /\ idx = Zero
    /\ canal = Zero
    /\ inbox = NoCall
    /\ cache = NoPos
    /\ head = 1
    /\ delivered = {}
    /\ base = 0
    /\ anew = 0
    /\ leading = FALSE
    /\ used \in Spent

\* The database server appends an event to its binlog.
MasterWrite ==
    /\ head < LastEvent
    /\ head' = head + 1
    /\ UNCHANGED <<main, status, statusLock, signals, loops, canals, memory,
                   goroutines, inbox, cache, history, used>>

-----------------------------------------------------------------------------
(* Start-up, crash and exit of the process. *)

\* What handlerInit takes as the position to stream from: the cached one, never
\* beyond the server's own, or the server's own when nothing is cached.
StartFrom == IF cache.pos = 0 \/ cache.pos > head THEN head ELSE cache.pos

\* Mutant: EventIndex is not restored from the cache file.
BootForgetsIndex ==
    /\ ~up
    /\ Spend("boot")
    /\ up' = TRUE
    /\ status' = {cacheHandlerIsOpened}
    /\ lookStart' = "select"
    /\ lookStop' = "select"
    /\ handler' = 1
    /\ open' = {1}
    /\ EventIndex' = 0
    /\ lastPos' = StartFrom
    /\ base' = IF base = 0 THEN head ELSE base
    /\ anew' = IF base # 0 /\ cache.pos = 0 THEN head ELSE anew
    /\ startServiceChan' = IF Standalone THEN 1 ELSE 0
    /\ leading' = Standalone
    /\ UNCHANGED <<statusLock, stopServiceChan, ctxDone, closing, goroutines,
                   inbox, cache, head, delivered>>

\* NewBinlog and handlerInit; then main wires OnLeader into the agent, which
\* calls OnLeader(true) at once when it is disabled.  A boot that finds no saved
\* position starts at the server's own, the first boot and every later one that
\* comes before the first save: what was written in between is passed over, and
\* the rows are numbered from 1 again.
Boot ==
    /\ ~up
    /\ Spend("boot")
    /\ up' = TRUE
    /\ status' = {cacheHandlerIsOpened}
    /\ lookStart' = "select"
    /\ lookStop' = "select"
    /\ handler' = 1
    /\ open' = {1}
    /\ EventIndex' = cache.index
    /\ lastPos' = StartFrom
    /\ base' = IF base = 0 THEN head ELSE base
    /\ anew' = IF base # 0 /\ cache.pos = 0 THEN head ELSE anew
    /\ startServiceChan' = IF Standalone THEN 1 ELSE 0
    /\ leading' = Standalone
    /\ UNCHANGED <<statusLock, stopServiceChan, ctxDone, closing, goroutines,
                   inbox, cache, head, delivered>>

\* The process is gone, and with it everything but the cache file.
Halt ==
    /\ up' = FALSE
    /\ ctxDone' = FALSE
    /\ closing' = "no"
    /\ status' = {}
    /\ statusLock' = FALSE
    /\ startServiceChan' = 0
    /\ stopServiceChan' = <<>>
    /\ lookStart' = "returned"
    /\ lookStop' = "returned"
    /\ handler' = 0
    /\ open' = {}
    /\ EventIndex' = 0
    /\ lastPos' = 0
    /\ pc' = Idle
    /\ cur' = Zero
    /\ row' = Zero
    /\ idx' = Zero
    /\ canal' = Zero
    /\ inbox' = NoCall
    /\ leading' = FALSE
    /\ UNCHANGED <<cache, head, delivered, base, anew, used>>

\* A panic or a kill; only crashes that a boot can follow are of interest.
Crash == up /\ used["boot"] < Limit["boot"] /\ Halt

\* SIGTERM and the like: main cancels the context.
Cancel ==
    /\ up /\ ~ctxDone
    /\ Spend("term")
    /\ ctxDone' = TRUE
    /\ UNCHANGED <<up, closing, status, statusLock, signals, loops, canals,
                   memory, goroutines, inbox, cache, head, history>>

\* Mutant: Close does not raise binlogIsExit.
CloseNoExit ==
    /\ ctxDone /\ closing = "no"
    /\ ~statusLock
    /\ closing' = "exit"
    /\ UNCHANGED <<up, ctxDone, status, statusLock, signals, loops, canals,
                   memory, goroutines, inbox, cache, head, history, used>>

\* Close: raise binlogIsExit ...
Close ==
    /\ ctxDone /\ closing = "no"
    /\ ~statusLock
    /\ status' = status \cup {binlogIsExit}
    /\ closing' = "exit"
    /\ UNCHANGED <<up, ctxDone, statusLock, signals, loops, canals, memory,
                   goroutines, inbox, cache, head, history, used>>

\* ... send the last stop signal ...
CloseStopService ==
    /\ closing = "exit"
    /\ Len(stopServiceChan) < ChanCap
    /\ stopServiceChan' = Append(stopServiceChan, TRUE)
    /\ closing' = "wait"
    /\ UNCHANGED <<up, ctxDone, status, statusLock, startServiceChan, loops,
                   canals, memory, goroutines, inbox, cache, head, history,
                   used>>

\* ... and return when both loops have; main then exits, runners or not.
Exit ==
    /\ closing = "wait"
    /\ lookStart = "returned" /\ lookStop = "returned"
    /\ Halt

-----------------------------------------------------------------------------
(* The leader callback and the two service loops. *)

\* OnLeader: StartService or StopService(false), which queue a signal.
OnLeader(isLeader) ==
    /\ up /\ ~Standalone
    /\ Spend("signal")
    /\ leading' = isLeader
    /\ \/ /\ isLeader
          /\ startServiceChan < ChanCap
          /\ startServiceChan' = startServiceChan + 1
          /\ UNCHANGED stopServiceChan
       \/ /\ ~isLeader
          /\ Len(stopServiceChan) < ChanCap
          /\ stopServiceChan' = Append(stopServiceChan, FALSE)
          /\ UNCHANGED startServiceChan
    /\ UNCHANGED <<main, status, statusLock, loops, canals, memory, goroutines,
                   inbox, cache, head, delivered, base, anew>>

\* A start signal is ignored when the status says running ...
LookStartIgnore ==
    /\ lookStart = "select"
    /\ startServiceChan > 0
    /\ ~statusLock
    /\ binlogIsRunning \in status
    /\ startServiceChan' = startServiceChan - 1
    /\ UNCHANGED <<main, status, statusLock, stopServiceChan, loops, canals,
                   memory, goroutines, inbox, cache, head, history, used>>

\* Mutant: any raised bit is taken for binlogIsRunning.
LookStartSpawnAnyBit ==
    /\ lookStart = "select"
    /\ startServiceChan > 0
    /\ ~statusLock
    /\ status = {}
    /\ startServiceChan' = startServiceChan - 1
    /\ status' = status \cup {binlogIsRunning}
    /\ \E k \in Runners :
          /\ pc[k] = "idle"
          /\ pc' = [pc EXCEPT ![k] = "pos"]
    /\ UNCHANGED <<main, statusLock, stopServiceChan, loops, canals, memory,
                   cur, row, idx, canal, inbox, cache, head, history, used>>

\* ... and otherwise spawns a goroutine.
LookStartSpawn ==
    /\ lookStart = "select"
    /\ startServiceChan > 0
    /\ ~statusLock
    /\ binlogIsRunning \notin status
    /\ startServiceChan' = startServiceChan - 1
    /\ status' = status \cup {binlogIsRunning}
    /\ \E k \in Runners :
          /\ pc[k] = "idle"
          /\ pc' = [pc EXCEPT ![k] = "pos"]
    /\ UNCHANGED <<main, statusLock, stopServiceChan, loops, canals, memory,
                   cur, row, idx, canal, inbox, cache, head, history, used>>

LookStartDone ==
    /\ lookStart = "select"
    /\ ctxDone
    /\ lookStart' = "returned"
    /\ UNCHANGED <<main, status, statusLock, signals, lookStop, canals, memory,
                   goroutines, inbox, cache, head, history, used>>

\* Mutant: the canal is replaced without being closed.
LookStopSignalNoClose ==
    /\ lookStop = "select"
    /\ stopServiceChan # <<>>
    /\ ~statusLock
    /\ stopServiceChan' = Tail(stopServiceChan)
    /\ LET exit == Head(stopServiceChan)
           stop == binlogIsRunning \in status /\ ~exit
       IN  /\ lookStop' = IF stop THEN "reset" ELSE IF exit THEN "save" ELSE "clear"
           /\ statusLock' = stop
    /\ UNCHANGED <<main, status, startServiceChan, lookStart, canals, memory,
                   goroutines, inbox, cache, head, history, used>>

\* A stop signal; a plain stop of a running service closes the canal, with
\* statusLock held until LookStopReset has made a new one.
LookStopSignal ==
    /\ lookStop = "select"
    /\ stopServiceChan # <<>>
    /\ ~statusLock
    /\ stopServiceChan' = Tail(stopServiceChan)
    /\ LET exit == Head(stopServiceChan)
           stop == binlogIsRunning \in status /\ ~exit
       IN  /\ lookStop' = IF stop THEN "reset" ELSE IF exit THEN "save" ELSE "clear"
           /\ statusLock' = stop
           /\ open' = IF stop THEN open \ {handler} ELSE open
    /\ UNCHANGED <<main, status, startServiceChan, lookStart, handler, memory,
                   goroutines, inbox, cache, head, history, used>>

\* Mutant: statusLock is not released after setHandler.
LookStopResetNoUnlock ==
    /\ lookStop = "reset"
    /\ handler' = handler + 1
    /\ open' = open \cup {handler + 1}
    /\ lookStop' = "clear"
    /\ UNCHANGED <<main, status, statusLock, signals, lookStart, memory,
                   goroutines, inbox, cache, head, history, used>>

\* setHandler: a fresh canal, and statusLock is released.
LookStopReset ==
    /\ lookStop = "reset"
    /\ handler' = handler + 1
    /\ open' = open \cup {handler + 1}
    /\ statusLock' = FALSE
    /\ lookStop' = "clear"
    /\ UNCHANGED <<main, status, signals, lookStart, memory, goroutines, inbox,
                   cache, head, history, used>>

\* Mutant: the check of binlogIsExit is dropped.
SaveDuringExit(r) ==
    /\ ~statusLock
    /\ \/ /\ cacheHandlerIsOpened \in status
          /\ cache' = r
       \/ UNCHANGED cache

\* saveBinlogPositionCache: nothing once binlogIsExit is raised; otherwise the
\* record goes to the open cache file.  A failed WriteAt is only logged.
saveBinlogPositionCache(r) ==
    /\ ~statusLock
    /\ \/ /\ {binlogIsExit, cacheHandlerIsOpened} \cap status = {cacheHandlerIsOpened}
          /\ cache' = r
       \/ UNCHANGED cache    \* exit, closed file, or a failed write

\* The exit branch: save the position, close the cache file, ...
LookStopSave ==
    /\ lookStop = "save"
    /\ saveBinlogPositionCache([pos |-> lastPos, index |-> EventIndex])
    /\ lookStop' = "close"
    /\ UNCHANGED <<main, status, statusLock, signals, lookStart, canals, memory,
                   goroutines, inbox, head, history, used>>

LookStopClose ==
    /\ lookStop = "close"
    /\ ~statusLock
    /\ status' = status \ {cacheHandlerIsOpened}
    /\ lookStop' = "clear"
    /\ UNCHANGED <<main, statusLock, signals, lookStart, canals, memory,
                   goroutines, inbox, cache, head, history, used>>

\* ... and in every case the running bit is cleared.
LookStopClear ==
    /\ lookStop = "clear"
    /\ ~statusLock
    /\ status' = status \ {binlogIsRunning}
    /\ lookStop' = "select"
    /\ UNCHANGED <<main, statusLock, signals, lookStart, canals, memory,
                   goroutines, inbox, cache, head, history, used>>

LookStopDone ==
    /\ lookStop = "select"
    /\ ctxDone
    /\ lookStop' = "returned"
    /\ UNCHANGED <<main, status, statusLock, signals, lookStart, canals, memory,
                   goroutines, inbox, cache, head, history, used>>

-----------------------------------------------------------------------------
(* The goroutine spawned for a start signal.                               *)
(*    "pos" -> "run" -> "fetch" <-> "row"                                  *)
(*                      "fetch" -> "save" -> "last" -> "fetch"             *)
(* and from "run" or "fetch" back to "idle", through "err" on an error.    *)

Streaming(k) == pc[k] \in {"fetch", "row", "save", "last"}

\* Mutant: the last position read is taken for the next one.
RunnerStartPosSkips(k) ==
    /\ pc[k] = "pos"
    /\ lastPos < head
    /\ cur' = [cur EXCEPT ![k] = lastPos + 2]
    /\ pc' = [pc EXCEPT ![k] = "run"]
    /\ UNCHANGED <<main, status, statusLock, signals, loops, canals, memory,
                   row, idx, canal, inbox, cache, head, history, used>>

\* startPos is read, without a lock.
RunnerStartPos(k) ==
    /\ pc[k] = "pos"
    /\ cur' = [cur EXCEPT ![k] = lastPos + 1]
    /\ pc' = [pc EXCEPT ![k] = "run"]
    /\ UNCHANGED <<main, status, statusLock, signals, loops, canals, memory,
                   row, idx, canal, inbox, cache, head, history, used>>

\* RunFrom on an open canal that nobody runs yet: the stream begins.
RunnerRunFrom(k) ==
    /\ pc[k] = "run"
    /\ handler \in open
    /\ \A j \in Runners : Streaming(j) => canal[j] # handler
    /\ canal' = [canal EXCEPT ![k] = handler]
    /\ pc' = [pc EXCEPT ![k] = "fetch"]
    /\ UNCHANGED <<main, status, statusLock, signals, loops, canals, memory,
                   cur, row, idx, inbox, cache, head, history, used>>

\* The goroutine leaves the canal, with an error or without.
Leave(k, s) ==
    /\ pc' = [pc EXCEPT ![k] = s]
    /\ cur' = [cur EXCEPT ![k] = 0]
    /\ canal' = [canal EXCEPT ![k] = 0]
    /\ UNCHANGED <<main, status, statusLock, signals, loops, handler, memory,
                   row, idx, inbox, cache, head, history>>

\* RunFrom on a closed canal returns at once; on one that is already run it
\* fails, and may take the running stream down with it.
RunnerRefused(k) ==
    /\ pc[k] = "run"
    /\ \/ /\ handler \notin open
          /\ Leave(k, "idle") \/ Leave(k, "err")
          /\ UNCHANGED open
       \/ /\ handler \in open
          /\ \E j \in Runners : Streaming(j) /\ canal[j] = handler
          /\ Leave(k, "err")
          /\ open' \in {open, open \ {handler}}
    /\ UNCHANGED used

\* A canal that was closed makes RunFrom return, with or without an error.
RunnerReturn(k) ==
    /\ pc[k] = "fetch"
    /\ canal[k] \notin open
    /\ Leave(k, "idle") \/ Leave(k, "err")
    /\ UNCHANGED <<open, used>>

\* The stream breaks (connection lost, log purged); the canal may be dead.
RunnerFail(k) ==
    /\ pc[k] = "fetch"
    /\ Spend("error")
    /\ Leave(k, "err")
    /\ open' \in {open, open \ {canal[k]}}

\* The error path of the goroutine: h.status ^= binlogIsRunning.
RunnerErr(k) ==
    /\ pc[k] = "err"
    /\ ~statusLock
    /\ status' = Toggle(status, binlogIsRunning)
    /\ pc' = [pc EXCEPT ![k] = "idle"]
    /\ UNCHANGED <<main, statusLock, signals, loops, canals, memory, cur, row,
                   idx, canal, inbox, cache, head, history, used>>

\* canal hands over the next event.  A canal that was closed may still hold
\* buffered events, so it need not be open.
Fetched(k) == pc[k] = "fetch" /\ cur[k] <= head

\* OnRow, its check of binlogIsExit: the event is dropped during shutdown.
OnRow(k) ==
    /\ Fetched(k)
    /\ RowCount[cur[k]] > 0
    /\ ~statusLock
    /\ \/ /\ binlogIsExit \in status
          /\ cur' = [cur EXCEPT ![k] = @ + 1]
          /\ UNCHANGED pc
       \/ /\ binlogIsExit \notin status
          /\ pc' = [pc EXCEPT ![k] = "row"]
          /\ UNCHANGED cur
    /\ UNCHANGED <<main, status, statusLock, signals, loops, canals, memory,
                   row, idx, canal, inbox, cache, head, history, used>>

\* notify: the row goes to the services, unless json.Marshal fails.
notify(e, r, index) ==
    delivered' = IF <<e, r>> \in BadRows THEN delivered
                 ELSE delivered \cup {[ev |-> e, row |-> r, index |-> index]}

\* OnRow, one turn of its loop: number the row and notify.
OnRowNotify(k) ==
    /\ pc[k] = "row"
    /\ EventIndex' = EventIndex + 1
    /\ LET r == row[k] + 1
           last == r = RowCount[cur[k]]
       IN  /\ notify(cur[k], r, EventIndex')
           /\ row' = [row EXCEPT ![k] = IF last THEN 0 ELSE r]
           /\ cur' = [cur EXCEPT ![k] = IF last THEN @ + 1 ELSE @]
           /\ pc' = [pc EXCEPT ![k] = IF last THEN "fetch" ELSE "row"]
    /\ UNCHANGED <<main, status, statusLock, signals, loops, canals, lastPos,
                   idx, canal, inbox, cache, head, base, anew, leading, used>>

\* OnPosSynced: load the event index, ...
OnPosSynced(k) ==
    /\ Fetched(k)
    /\ RowCount[cur[k]] = 0
    /\ idx' = [idx EXCEPT ![k] = EventIndex]
    /\ pc' = [pc EXCEPT ![k] = "save"]
    /\ UNCHANGED <<main, status, statusLock, signals, loops, canals, memory,
                   cur, row, canal, inbox, cache, head, history, used>>

\* ... save the position, ...
OnPosSyncedSave(k) ==
    /\ pc[k] = "save"
    /\ saveBinlogPositionCache([pos |-> cur[k], index |-> idx[k]])
    /\ idx' = [idx EXCEPT ![k] = 0]
    /\ pc' = [pc EXCEPT ![k] = "last"]
    /\ UNCHANGED <<main, status, statusLock, signals, loops, canals, memory,
                   cur, row, canal, inbox, head, history, used>>

\* Mutant: the next position is remembered instead of the last one.
OnPosSyncedNext(k) ==
    /\ pc[k] = "last"
    /\ lastPos' = cur[k] + 1
    /\ cur' = [cur EXCEPT ![k] = @ + 1]
    /\ pc' = [pc EXCEPT ![k] = "fetch"]
    /\ UNCHANGED <<main, status, statusLock, signals, loops, canals, EventIndex,
                   row, idx, canal, inbox, cache, head, history, used>>

\* ... and only then remember it as the last one.
OnPosSyncedLast(k) ==
    /\ pc[k] = "last"
    /\ lastPos' = cur[k]
    /\ cur' = [cur EXCEPT ![k] = @ + 1]
    /\ pc' = [pc EXCEPT ![k] = "fetch"]
    /\ UNCHANGED <<main, status, statusLock, signals, loops, canals, EventIndex,
                   row, idx, canal, inbox, cache, head, history, used>>

-----------------------------------------------------------------------------
(* Positions of a remote leader, three steps of the agent client's         *)
(* goroutine.  The leader vouches for every row up to the position.        *)

SaveBinlogPosition(r) ==
    /\ up /\ ~Standalone
    /\ inbox.at = "none"
    /\ r.pos <= head
    /\ lastPos' = r.pos
    /\ inbox' = [at |-> "index", pos |-> r.pos, index |-> r.index]
    /\ base' = IF r.pos > base THEN r.pos ELSE base
    /\ UNCHANGED <<main, status, statusLock, signals, loops, canals, EventIndex,
                   goroutines, cache, head, delivered, anew, leading, used>>

SaveBinlogPositionIndex ==
    /\ inbox.at = "index"
    /\ EventIndex' = inbox.index
    /\ inbox' = [inbox EXCEPT !.at = "save"]
    /\ UNCHANGED <<main, status, statusLock, signals, loops, canals, lastPos,
                   goroutines, cache, head, history, used>>

SaveBinlogPositionFile ==
    /\ inbox.at = "save"
    /\ saveBinlogPositionCache([pos |-> inbox.pos, index |-> inbox.index])
    /\ inbox' = NoCall
    /\ UNCHANGED <<main, status, statusLock, signals, loops, canals, memory,
                   goroutines, head, history, used>>

-----------------------------------------------------------------------------
Runner(k) ==
    \/ RunnerStartPos(k) \/ RunnerRunFrom(k) \/ RunnerRefused(k)
    \/ RunnerReturn(k) \/ RunnerErr(k)
    \/ OnRow(k) \/ OnRowNotify(k)
    \/ OnPosSynced(k) \/ OnPosSyncedSave(k) \/ OnPosSyncedLast(k)

LookStart == LookStartIgnore \/ LookStartSpawn \/ LookStartDone

LookStop ==
    \/ LookStopSignal \/ LookStopReset \/ LookStopSave
    \/ LookStopClose \/ LookStopClear \/ LookStopDone

Shutdown == Close \/ CloseStopService \/ Exit

Receive == SaveBinlogPositionIndex \/ SaveBinlogPositionFile

Next ==
    \/ MasterWrite \/ Boot \/ Crash \/ Cancel \/ Shutdown
    \/ \E isLeader \in BOOLEAN : OnLeader(isLeader)
    \/ LookStart \/ LookStop
    \/ \E k \in Runners : Runner(k) \/ RunnerFail(k)
    \/ \E r \in PeerPos : SaveBinlogPosition(r)
    \/ Receive

Spec == Init /\ [][Next]_vars

\* Go's scheduler runs every goroutine that can run, its mutexes do not starve
\* a waiter, and the operator boots a process that is down.
Fairness ==
    /\ WF_vars(Boot)
    /\ WF_vars(LookStart)
    /\ WF_vars(LookStop)
    /\ WF_vars(Shutdown)
    /\ WF_vars(Receive)
    /\ \A k \in Runners : WF_vars(Runner(k))

FairSpec == Spec /\ Fairness

-----------------------------------------------------------------------------
(* Properties. *)

ProcessOK ==
    /\ up \in BOOLEAN /\ ctxDone \in BOOLEAN /\ leading \in BOOLEAN
    /\ closing \in {"no", "exit", "wait"}
    /\ status \subseteq {binlogIsRunning, binlogIsExit, cacheHandlerIsOpened}
    /\ statusLock \in BOOLEAN

SignalsOK ==
    /\ startServiceChan \in 0..ChanCap
    /\ stopServiceChan \in Seq(BOOLEAN)
    /\ lookStart \in {"select", "returned"}
    /\ lookStop \in {"select", "reset", "save", "close", "clear", "returned"}
    /\ handler \in Nat /\ open \subseteq Nat
    /\ used \in [Bounded -> Nat]

GoroutinesOK ==
    /\ pc \in [Runners -> {"idle", "pos", "run", "fetch", "row", "save", "last", "err"}]
    /\ cur \in [Runners -> 0..LastEvent + 1]
    /\ row \in [Runners -> Nat]
    /\ idx \in [Runners -> Nat]
    /\ canal \in [Runners -> Nat]

PositionsOK ==
    /\ head \in Event
    /\ EventIndex \in Nat /\ lastPos \in 0..head
    /\ inbox \in [at : {"none", "index", "save"}, pos : 0..head, index : Nat]
    /\ cache \in [pos : 0..head, index : Nat]
    /\ base \in 0..head /\ anew \in 0..head

DeliveredOK == delivered \subseteq [ev : Event, row : Nat \ {0}, index : Nat]

\* Every variable keeps its type; in particular no position, in memory or in
\* the cache file, lies beyond the server's binlog.
TypeOK == ProcessOK /\ SignalsOK /\ GoroutinesOK /\ PositionsOK /\ DeliveredOK

\* Row r of event e was handed to the services, or notify could not encode it.
Done(sent, e, r) == \/ <<e, r>> \in BadRows
                    \/ \E d \in sent : d.ev = e /\ d.row = r

\* Every row after position from and up to position p is done.
Covered(from, sent, p) ==
    \A e \in Event :
        from < e /\ e <= p => \A r \in 1..RowCount[e] : Done(sent, e, r)

\* Where the feed that is in the cache file begins.  Rows up to base are not this
\* node's to send; rows after base and up to anew may be lost for good, as the
\* process ended before it had ever saved a position.
Begin == IF anew > base THEN anew ELSE base

\* At-least-once from the last boot that found nothing saved: the position a
\* restart resumes from never lies beyond a row after Begin that was not handed
\* to the services, whatever the interleaving of stops, starts, canal failures,
\* shutdown (OnRow drops rows then) and crashes.  Nothing is promised of the rows
\* between the very first boot and a later one that still finds no position.
NoRowSkipped == Covered(Begin, delivered, cache.pos)

\* A crash and a restart number a row as before: EventIndex, restored from the
\* cache file together with the position, identifies the row, from the last boot
\* on that found nothing saved (there the numbers start at 1 again, for other
\* rows).  Holds of a standalone node, which starts its stream once per boot.
IndexStable ==
    \A d1, d2 \in delivered :
        d1.ev > Begin /\ d2.ev > Begin =>
            (d1.index = d2.index <=> d1.ev = d2.ev /\ d1.row = d2.row)

\* The position saved by a standalone node never moves back: what OnPosSynced
\* saved is not saved over by an older position, after a restart either.
PositionMonotone == [][cache'.pos >= cache.pos]_vars

\* At most one goroutine has an open canal under it, so that no row is streamed
\* twice at a time: lookStopService closes a canal before it makes the next,
\* and a second RunFrom on one canal fails.
OneStream ==
    \A j, k \in Runners :
        /\ Streaming(j) /\ canal[j] \in open
        /\ Streaming(k) /\ canal[k] \in open
        => j = k

\* A termination signal ends the process, whatever was queued or running.
ShutdownCompletes == ctxDone ~> ~up

\* Every row the server writes is handed to the services in the end, crashes
\* and shutdowns notwithstanding, once a standalone node stays up and provided
\* its stream did not fail, unless the row precedes the very first stream's start
\* or that of a later boot that still found no saved position.
EventuallyDelivered ==
    \A e \in Event : \A r \in 1..RowCount[e] :
        <>[](up /\ ~ctxDone /\ used["error"] = 0 /\ e <= head)
            => <>(Done(delivered, e, r) \/ e <= base \/ e <= anew)

\* Nothing is under way: no signal queued, both loops idle, no goroutine
\* between its spawning and its stream or on its way out.
Quiet ==
    /\ startServiceChan = 0 /\ stopServiceChan = <<>>
    /\ lookStart = "select" /\ lookStop = "select"
    /\ \A k \in Runners : pc[k] = "idle" \/ (Streaming(k) /\ canal[k] \in open)

\* What main.go says of the leader callback: only the leader works.
OnlyLeaderWorks ==
    Quiet /\ ~leading => \A k \in Runners : ~Streaming(k)

\* The service with its goroutines, canals, restarts and failovers implements
\* the durable feed of EventFeed: every step hands out the next row or an earlier
\* one, saves a position whose rows are all handed out, or leaves both alone; it
\* begins anew only while nothing was ever saved, and a saved position stays one.
Feed == INSTANCE EventFeed WITH sent <- {<<d.ev, d.row>> : d \in delivered},
                                mark <- cache.pos,
                                Vouched <- IF Standalone THEN {}
                                           ELSE {r.pos : r \in PeerPos}
DurableFeed == Feed!Spec

=============================================================================
