# Copycat in TLA+

Copycat follows the binary log of a MySQL server and pushes every changed row to
TCP subscribers. Several copycat nodes may run; a lock in consul elects the one
that works, and it sends its log position to the others, so that one of them can
take over. This directory holds TLA+ models of the program, TLC configurations
that check them on small instances, and TLAPS proofs of their safety properties and of
the refinement of an abstract feed by the binlog service.

## 1. The system

| component | source | state | operations |
|---|---|---|---|
| binlog service | `binlog/` | status bits, two signal channels, the canal, `lastPos`, `EventIndex`, the position cache file | `NewBinlog`, `lookStartService`, `lookStopService`, `OnRow`, `OnPosSynced`, `SaveBinlogPosition`, `OnLeader`, `Close` |
| position record, field decoding | `binlog/binlog_util.go` | none | `packPos`, `unpackPos`, `fieldDecode` |
| leader election | `consul/leader.go`, `lock*.go`, `session*.go`, `service.go` | session, lock key, `leader` flag, registry entry | `NewLeader`, `Select`, `Register`, `UpdateTTL`, `Get`, `Free` |
| agent | `agent/agent.go` | role, server, client | callback of `Start`, `Sync`, `Close`, event handlers |
| agent connections | `agent/client.go`, `codec.go`, `server.go`, `node.go`, `group.go` | receive buffers, waiters, send queues, node list | `Connect`, `Disconnect`, `onMessage`, `keep`, `Send`, `AsyncSend`, `Encode`, `Decode` |
| synchronous agent client | `agent/client_sync.go` | one request at a time | `Send` |
| subscription services | `services/` | groups of client nodes, their queues and topics, the connection counter | `SendAll`, `onConnect`, `remove`, `close`, `onMessage`, registration |
| subscriber client | `client/` | connections, address list | `start`, `Subscribe`, `Close`, `keepalive`, watcher callbacks |
| watchers, key-value wrappers | `consul/watch_*.go`, `kv*.go` | last index, known services | `Watch` |
| process | `main.go`, `g/` | the cancelled context | wiring, termination |

How the parts interact. `main` builds the agent, then the binlog service. The
agent's election callback calls `Binlog.OnLeader`, which queues a start or a stop
signal. A start signal spawns a goroutine that runs the canal library, whose
callbacks `OnRow` and `OnPosSynced` deliver rows to the subscription services and
save positions. Rows and positions are also broadcast through the agent server to
the other nodes, whose agent clients hand positions to `SaveBinlogPosition`. A
termination signal cancels the context; `main` then closes the binlog service and
the agent, which frees the lock.

What is hard in it, and where (the list with lines is `hazards` in
`PROJECT.json`):

- *Interleaving.* Five kinds of goroutine share the `Binlog` struct, some without
  a lock. Start and stop signals have two channels and two readers. Election
  callbacks are unordered goroutines. The groups of the services and of the agent
  server are slices shifted in place.
- *Crash and restart.* Only the cache file survives, and it is written at other
  moments than rows are delivered. Consul keeps the session, lock and service
  entry of a process that is gone.
- *Timeouts.* A session may expire under a live leader; a waiter of the agent
  client may time out while its answer is being handed over; a keep-alive that failed
  on an old connection may take down the new one.
- *Cut streams.* A message may arrive in pieces of any size, and a connection may
  break inside one; the receivers reuse their buffers.
- *Two views of the registry.* A client lists the services and watches them at the
  same time, and a server's entry has two parts that are written one after the other.
- *Ordering at shutdown.* `OnRow` drops rows while canal still reports positions.
- *Liveness.* Shutdown waits for two loops; a follower connects once; a peer that reads
  nothing stops whoever broadcasts to it.

What makes each part correct: the binlog service resumes at a position that skips
no row, streams once at a time, numbers rows consistently, runs exactly on the
leader, and stops when told to; the election yields at most one leader, which
holds the lock, and in the end yields one; followers are connected to the leader;
the services and the agent's server give each client what was sent while it was there,
in order, and survive its disconnection; a request's answer reaches its waiter, and a
waiter nobody needs is dropped; the codec gives back what was encoded however it was cut
up; a subscriber's client is connected while there is a server, announces its topics to
it, and closes what it opened; the list of services follows the registry.

## 2. Modules

| module | what it is |
|---|---|
| `Binlog` | one copycat process: the binlog service from boot to exit |
| `MCBinlog` | its TLC instances |
| `BinlogProofs` | theorems about `Binlog`, and that it implements `EventFeed` |
| `LeaderElection` | all nodes: election through consul, the agent's reaction to it |
| `MCLeaderElection` | its TLC instances |
| `LeaderElectionProofs` | theorems about `LeaderElection` |
| `EventFeed` | what the binlog service promises, without goroutines, signals or crashes |
| `Subscribers` | the subscription service: clients, their queues, the groups slice |
| `SubscribersProofs` | theorems about `Subscribers` |
| `AgentServer` | the agent's server: its clients, their queues, broadcasts |
| `AgentServerProofs` | theorems about `AgentServer` |
| `AgentClient` | the agent's client: its connection, requests and waiters |
| `AgentClientProofs` | theorems about `AgentClient` |
| `SliceFacts` | lemmas about queues, Go slices and least elements that four proof modules share |
| `Wire` | bytes: the codecs, the receive buffers, the position record |
| `WireProofs` | theorems about `Wire` |
| `SubscriberClient` | the subscribers' client library |
| `SubscriberClientProofs` | theorems about `SubscriberClient` |
| `ServiceWatch` | registration of services in consul and the two watchers |
| `MCSubscribers`, `MCAgentServer`, `MCAgentClient`, `MCWire`, `MCSubscriberClient`, `MCServiceWatch` | TLC instances of the modules of those names |

### Binlog

State. `status` is the set of raised bits of `h.status`; `statusLock` is TRUE only
while `lookStopService` holds the mutex across `canal.Close` and `setHandler`, the
one critical section that spans two steps (all others are single actions guarded by
`~statusLock`). `startServiceChan` is a counter, `stopServiceChan` a sequence of the
`exit` flags sent. Canals are numbered; `handler` is the current one and `open` the
ones not closed. Each spawned goroutine has a slot `k` of `Runners` with a program
counter `pc[k]`, the event it is at (`cur[k]`), the rows of it already notified
(`row[k]`), the index it loaded (`idx[k]`) and the canal it runs (`canal[k]`).
`cache` is the position file, `head` the length of the server's log. `delivered`,
`base`, `anew` and `leading` are history variables.

Actions. One step per piece of code between two points where another goroutine can
intervene: a mutex section, an atomic operation, an unlocked assignment, a library
call. `OnRow` is split into its check of `binlogIsExit` and one step per row;
`OnPosSynced` into loading the index, saving, and updating `lastPos`;
`SaveBinlogPosition` into its three assignments and the save; `Close` into raising
the bit, sending the signal, and waiting.

Abstraction. A position (file name and offset) is the number of the last event
read; rows are numbered within their event, their columns are left out; a row that
`json.Marshal` rejects is a member of `BadRows`. `WriteAt` on the `O_SYNC` file is
atomic or fails without effect.

External. The canal library: `RunFrom` streams from a position; a second `RunFrom` on
a canal that runs fails, and may take the canal down; a closed canal makes `RunFrom`
return with or without an error, at any later time, and may hand over buffered
events before; `Close` does not wait for callbacks. The database server only
appends.

`base` and `anew` make at-least-once delivery a statement about one node. `base` is where its
very first stream began, or a later position received from a remote leader (which delivered
the rows up to it itself): rows up to there are not this node's to send. `anew` is where the
last later boot began that still found no saved position. Such a boot resumes at the server's
own position (`binlog_handler.go:49-52`), so that what was written since the boot before it may
be lost for good, and `EventIndex` starts at 0 once more. What is promised of every row is
therefore said of the rows after `Begin`, the later of both places; once a position was saved,
`anew` stays as it is.

### EventFeed

Five variables: the server's log (`head`), where the feed began (`base`) and where it last
began anew (`anew`), the rows handed out (`sent`) and the saved position (`mark`). A row is
handed out after all rows before it, possibly again; a position is saved only when every row
up to it is out, and a saved position stays one. The feed begins once, at the server's
position (`Start`). It may begin anew there and give up what it missed only as long as nothing
was ever saved (`StartAnew`), and it moves on to a position only if another node vouches for
it (`Vouch`). `Binlog!Feed` instantiates it with `sent <- delivered`, `mark` the position in
the cache file and `Vouched` the positions a remote leader may send, none for a standalone
node; `DurableFeed` is its specification.

### LeaderElection

State, per node: the process (`alive`, `session`, `closing`), the `Select` loop
(`select`, `leader`, `member`, `registered`), the agent (`callback`, which counts
the callback goroutines at each stage, `tcpLeader`, `told`, `conn`). Of consul:
`valid` sessions, the session that holds the `lock`, and the `registry`. `lapsed`
records the sessions that expired under a live process.

Actions: the first and the later turns of `Select` (the lock request, then the
registration), the three stages of the callback in `agent.Start`, the connection's
loss, `agent.Close` with the steps of `Leader.Free`, crash, boot, and consul's own
timeouts. Any request may fail, `Acquire` also after it took effect, `Register` also
between the service and its check.

Abstraction. The callback reads the role twice in succession (`agent.go:189-191`), the model
once: a change in between would only tell the binlog service another role, and `Binlog` takes
role changes in any order.

External: consul's sessions have the behaviour `delete`; an acquire succeeds when the
key is free or held by the same session, fails with an error when the session is
gone. The lock delay after a session's expiry is part of the time `Expire` takes.

### Subscribers

State. `groups.g` is modelled as Go has it: `arrays` are the backing arrays ever made
(each as long as its capacity) and `g` is a header, an array and a length. A loop over
the groups (`send["event"]` for `SendAll`, `send["tick"]` for the keep-alive, `shut` for
`groups.close`) keeps the header it began with and reads the array element by element,
so it sees what `remove` shifts under it. Per node: `status`, `topics`, `sendQueue`
(closed when the node is offline), `writer` (whether `asyncSendService` runs), and
`closing`, the step of `node.close`, which holds `node.lock` until it is done. `accept`
is the accept loop, `connects` the counter that `updateTTL` publishes. `event`, `written`
and `owed` (the events whose `SendAll` found the client connected and subscribed) are
history variables.

Actions. `onConnect` is split into the append and the store of the header, `remove` into
search, shift and store, since neither `remove` nor `sendAll` takes `groups.lock`.
`asyncSend` is split into the check under `node.lock`, the spin and the channel send;
a send to a closed channel, like a slice bound in `remove` that is out of range, is a
panic and ends the process (`Halt`).

Abstraction. A topic is the set of events whose table it matches. A header is read and
written in one step, and so are the two reads of `groups.g` in the one statement of
`remove`; the words of a slice torn by a race are not modelled. Taking a message and
writing it is one step; a write is complete or fails. A client that left does not come
back under the same name. A reader that is still busy with buffered messages after its
node was closed changes nothing that matters and is left out. The counter is there
although it is wired up only when consul is enabled.
`SendAll` has one caller at a time, the binlog stream of a leader or the agent client of a
follower; both at once, across a change of role, belong to the cluster composition.

### AgentServer

State. `Server.clients` has the shape of `groups.g` above, `arrays` and a header
`clients`. `node[n]` is a `ClientNode`: its status (`closing` from `close` until the
`onclose` callback has removed it), its queue, the message its writer holds, whether the
writer runs, and the peer's end of the connection. `accept` is a node the accept loop has
made and not yet appended. `loop[l]` is a loop over the clients, of a caller of `Sync`, of
`keepalive` or of `Close`. `sent` and `clean` are history variables: which clients were
online when a broadcast began, and which broadcasts no removal overlapped.

Actions. `append` and `remove` take `Server.lock` and are single steps. The loops take no
lock: they read the array under the header they began with. `AsyncSend` is the status check
and then the channel send, which waits for room and panics on a closed queue. The writer
takes a message, writes it without a deadline, and returns. `readMessage` closes the node
on a reset and not at the end of the stream, as the code has it; a write to a peer that
left provokes the reset.

Abstraction. Messages from clients (pings, which the server answers) are left to `Wire`; a
broadcast is a number. External: TCP, as the states of the peer's end.

### AgentClient

State. `status` and `conn` are the two words of the client that say whether it is
connected, `conns` the connections ever dialled with the answers on their way. `waiter[r]`
is a request's waiter: in the map or not, its channel of capacity one, how often that was
closed, and where its caller is. `reader`, `connect[k]` and `disconnect[d]` are the program
counters of `readMessage`, of the callers of `Connect` and of those of `Disconnect` (the
reader is one).

Actions. Only the map of waiters has a lock, and its sections are single steps
(`onMessage`'s lookup, `delWaiter`, `keep`). `Connect` is split into check, dial, bit and
connection; `Disconnect` into close, check and inversion of the bit; `Send` into
registration and write; `onMessage` into lookup and channel send. A nil connection used
with the bit set ends the process (`UseNil`); `keepalive` and the asynchronous writers
matter here only as its users.

Abstraction. The time-out of a waiter is an action that may be taken at any time; the
reader's end at the cancellation of the context is left out, the process exits there.
An answer is its request's number; what is in it belongs to `Wire`. External: the server,
which answers late, twice or never.

### Wire

Three protocols: `agent` (header, length, id and content; the receive code is there twice,
in `agent/node.go` and `agent/client.go`), `node` (a subscription service that receives
from its subscribers) and `client` (the subscribers' library that receives from a service).
A byte is a digit to the base `Base`, all field widths are those of the code, so that small
lengths, positions and ids need more than one digit. `Encode`, `Decode`, `Pack`, `Unpack`,
`pack`, `setPro`, `packPos`, `unpackPos` are operators on sequences of digits.

State: the bytes under way (`stream`), the receiver's `buffer` and its `array`, all that the
buffer's backing array was ever written; the cache file, written from the start and not
truncated; the messages handed to callbacks (`out`) and, as history, those received in full
(`due`). `Read(k)` brings any number of bytes up to `ReadSize`, `Reconnect` breaks the
connection anywhere, the four `onMessage` actions are one turn of the receive loop each: it
waits for more, drops its buffer, takes a message, or panics.

A Go slice may reach past the end of the data: `Decode` compares `data[:4]` of a shorter buffer
with the header and, when it found a header further on, slices with lengths that count from the
start. `Shown` is what such a slice holds, the bytes the array had before. A message of old
bytes reaches the callbacks as in the code, and is saved if it is a position. Behind what was
ever written the array holds zeros or has ended, as its capacity has it; in the latter case the
slice panics, `onMessage` recovers and drops the buffer, and the model allows both. The other
two receivers do not recover: a length below two, which only a torn stream or a foreign sender
brings, ends the process (`onMessagePanics`, `at = "halted"`).

### SubscriberClient

State. `node` is `Client.node` (its server, connection, status, the topics its server was
told), `online` is `Client.status`, `services[s]` says whether a server is listed and
marked offline, `start`, `keep`, `close` and `subscribe` are the steps of the four
goroutines. `lost`, `alone` and `leaked` are history variables.

Actions. `start` chooses a server in two ranges over the map, connects (holding the lock
from the dial to the last topic announced), reads until an error, disconnects and marks the
server offline through the pointer it has, which may no longer be the entry in the map.
`Subscribe`, `keepalive` and `Close` are each split where they hold no lock. The watcher's
callbacks add and delete services. Connections break, servers stop and come back.

Abstraction. Which of several servers `getServer` prefers by the counters is a choice. A
topic written to a connection that is open arrives or is lost with it. A write to the map
while `getServer` ranges over it may end the process, as the Go runtime does.

### ServiceWatch

State. Of consul: `registry[s]` (absent, without a check, passing, critical), its `index`,
the counter keys. The name services register under and the name the client asks for are the
constants `ServiceName` and `ClientName`, which differ in the program. Of the servers: where `NewService` and `Register` are, and whether
`updateTTL` runs. Of the watcher: its step, `addrs` and `li`. Of the client: the steps of
`NewClient` and its list. A behaviour has either the client with its watcher
(`client/watcher.go`) or a listener of the library's `Watch` (`consul/watch_service.go`).
`heard` is what that listener was told of a server last, "untold" before; `first` is, as
history, the first answer of `Watch`, which it reports to nobody.

Actions. The server's registration is two calls, either of which may fail; `updateTTL`
heals an expired check; `Close` deregisters. The watcher's `process` asks with the last
index, reports what is gone and what is new, one event at a time, and stores the answer;
`NewClient` asks, stores into the same two fields, and fills the same list.

External: consul's blocking query returns when the index has moved or after its longest
wait; a service without a check counts as passing; a check not set for its TTL becomes
critical.

## 3. Runs

| run | checks | instance and why it is enough |
|---|---|---|
| `standalone` | `NoRowSkipped`, `IndexStable`, `PositionMonotone`, `EventuallyDelivered` | the event a binlog begins with and two transactions (2+1 rows, one of which cannot be encoded), 3 boots, 1 stream failure, 1 shutdown: a restart can fall before, inside and after each transaction, and a second restart after the first; two boots may find nothing saved; delivery is claimed of a node that stays up and whose stream did not fail, since nothing in the code restarts a failed stream of a standalone node |
| `cluster` | `TypeOK`, `OneStream`, `DurableFeed`, `ShutdownCompletes` | the first event and one transaction, 2 goroutine slots, a remote position; `ClusterSpent` shares the bounds out to four kinds of behaviours, since all at once is out of TLC's reach: one boot with 3 leader signals (start-stop-start with an old goroutine still alive is the shortest way to two streams), a restart with 2 signals, a restart with a signal and a shutdown, and one boot with 2 signals, a stream failure and a shutdown (signals queued, the canal failing and the lock held when the termination signal comes) |
| `only_leader` | `OnlyLeaderWorks` violated | start and stop in quick succession |
| `election` | `TypeOK`, `NoSplitBrain`, `LeaderHoldsLock` | 2 nodes, 3 process starts, 1 failed request, 1 requested stop (a session that lapses is what the properties exclude); the nodes are interchangeable, so `NodeSymmetry` is used |
| `election_liveness` | `ElectsLeader` | 2 nodes, 2 process starts, 1 failed request, 1 broken connection, 1 stop |
| `subscribers` | `TypeOK`, `InOrder`, `ConnectsAccurate`, `ExactlyOnce`, `SendAllReturns` | 2 clients, queues of one message so that a full queue is common, and one budget per interplay (`ServiceBudgets`): 2 events with a topic, with a control message, with a leaving client; an event, a control message and a leaving client; shutdown with both clients leaving; shutdown with an event |
| `agent_server` | `SliceExact`, `BroadcastExact`, `GoneRemoved`, `BroadcastReturns`, `WritersEnd` | 2 connections, queues of one message, one caller of `Sync` beside `keepalive`; `ServerBudgets`: two broadcasts; a broadcast and a failing peer; two failing peers; shutdown with two clients, with a broadcast, with a failing peer. Two clients are enough for a removal to shift the other under a loop |
| `agent_client` | `ClosedOnce`, `AnswersArrive`, `NoLeak`, `WaitersLeave`, `ReaderFree`, `DeadNoticed` | 2 requests, 2 callers of `Connect`; `ClientBudgets`: three answers to two requests, so that one comes twice; a request while the connection breaks and is made again; `Connect` and `Disconnect` against each other, with and without a request |
| `wire` | `BufferBounded`, `Framed`, `PositionKept` | base 8, a limit of 55 bytes, reads of up to 14 bytes, one break. The four traffics of `SmallTraffic`: a position after one with a longer file name; events and a keep-alive package around an event that exceeds the limit with what a read may add; topics and ticks, some empty; events to a subscriber whose torn stream panics. Every way to cut them is enumerated |
| `subscriber_client` | `TypeOK`, `TopicsReach`, `OfflineCause`, `OneConnection`, `CloseStays`, `Reconnects` | 2 servers, 2 topics; `ClientBudgets`: topics while connections break; `Close` against two events of the watcher; servers that come and go with two broken connections, so that a keep-alive's failure can meet a newer connection |
| `service_watch` | `ServicesFollow`, `HeartbeatHeals`, `ListenerKnows` | 2 servers that register under the name the client asks for, which the program's do not (run `discovery`): the watchers and `NewClient` themselves; `WatchBudgets`: a start and a stop while the client starts; an expired check, a stop and a failed call; a failed registration |
| `discovery` | `ServicesFound` violated | the same with the program's two names |

Bounds are the fields of `Limit` (less what a member of `Spent` says is used up at first) or of
a member of `Budgets`, named in `Bounded` of each module, and the constants `LastEvent`,
`Runners`, `ChanCap`, `QueueCap`. They bound only how often the environment acts (boots,
signals, failures, timeouts); the program's own steps are not bounded. A `ChanCap` of 2 or 4 is
never filled by the signals of the run, as 100 is not in the program. Deadlock checking is off
in all runs: with the environment's budget spent, the system may rest, and a process that is
down stays down.

Two runs contradict comments of the source, quoted in `findings`. `only_leader`: start and stop
signals overtake each other, so that a node that lost the election may go on streaming.
`discovery`: the client asks consul for `wing-binlog-go-subscribe` (`client/watcher.go:109`),
services register as `binlog-go-subscribe` (`services/service_config.go:55`), so that a client
made with a consul address never finds one.

### Where the properties stop

The properties say what holds; several name a condition because without it the code does
otherwise. Seen while modelling, with the place:

- *Binlog.* A boot that finds no saved position resumes at the server's own
  (`binlog_handler.go:49-52`), not only the first boot: after a crash, a shutdown or a failed
  write before the first save, the rows written since are lost, and `EventIndex` gives the
  numbers it gave before to other rows. The error path inverts the running bit without looking at it, so that a stopped
  service may be marked as running and ignore its next start signal (`binlog.go:122`).
  A stop and a start rewind the position and not `EventIndex`, a restart rewinds both, so
  the index of an event is not unique over a process's life.
- *Election.* A leader whose session lapsed does not step down, and there may be two. A
  follower connects once per role change and not again after a broken connection. A leader
  whose `Register` failed holds the lock and is found by nobody, and its role may go unreported.
- *Services and agent server.* A removal shifts the slice under a loop: a client that stays
  may miss an event, or get it twice. A send on a queue closed since the check of the
  status panics. `readMessage` of the agent's server takes the end of a stream for an empty
  message and spins until a write fails.
- *Agent client.* Overlapping calls of `Connect` leave a connection open that nobody reads;
  the bit may be set with a nil connection. The receive buffer outlives the connection.
- *Wire.* `Decode` of fewer than four bytes works only because the array still holds the
  header of the message before; the first read of a new buffer must bring a whole header.
  The limit is compared with the length of the whole buffer, not of the message. A receiver out
  of step may hand bytes its array held before to the callbacks, and save them as a position.
  The subscription service and the subscribers' library panic on a length below two. A message
  with an id below one is never taken from the buffer. `client.pack` computes the fourth
  byte of the length as `l >> 32`.
- *Subscriber client.* After `Close` with another server in the list, `start` connects
  again. A failed keep-alive may close a newer connection, whose server is then offline for
  good. A failed dial leaves a node without a connection. `getServer` ranges over the map
  without the lock, and may compare with a nil server.
- *Registration.* A service that came or left while `NewClient` was at work may stay in the
  list for ever. A missing counter is dereferenced. An entry without a check never expires,
  and a failed registration is not repeated. The client's watcher asks for a name no service
  registers under (run `discovery`). The library's `Watch` reports nothing of its first answer.

### Fairness

`Binlog!Fairness`: weak fairness of each goroutine (Go's scheduler is fair to runnable
goroutines, and its mutexes hand over to a starved waiter), and of `Boot` (an operator
or supervisor starts a process that is down, within the bound). Nothing is assumed of
the database server, of signals or of failures. `LeaderElection!Fairness`: weak
fairness of each goroutine, of consul's expiry of sessions and checks of dead
processes, and of noticing a dead connection; no fairness of boots.
`Subscribers!Fairness`: weak fairness of the accept loop, of each sender, of each
`node.close` under way, of each writer (a write has a deadline of 30 seconds) and of the
shutdown; none of clients, events or signals.
`AgentServer!Fairness`: weak fairness of the accept loop's append, of `keepalive`, of each
loop, reader, writer, removal and of the shutdown, and strong fairness of a broadcast's
channel send, since a Go channel serves waiting senders in order; none of peers, callers
and signals. `AgentClient!Fairness`: weak fairness of each goroutine, `keep` included,
whose ticker comes round; none of the server, of callers or of time-outs.
`SubscriberClient!FairSpec`: weak fairness of `start` (but not of a message's arrival), of
`keepalive`, and of the second steps of `Subscribe` and `Close`. `ServiceWatch!FairSpec`:
weak fairness of the watcher, of `NewClient`, of registration and `updateTTL`, and of
consul's expiry of the checks of dead servers; a query is not assumed to end without
news. `Wire` claims no liveness.

## 4. Proofs

Every safety property that a passing run checks is also proved, for every value of the
constants.

| module | theorem | states |
|---|---|---|
| `BinlogProofs` | `TypeCorrect`, `AtLeastOnce`, `SingleStream` | `Spec => []TypeOK`, `[]NoRowSkipped`, `[]OneStream` |
| | `NumbersStay`, `PositionNeverBack` | `Spec => []IndexStable` and `Spec => PositionMonotone`, of a standalone node |
| | `ImplementsFeed` | `Spec => DurableFeed` |
| `LeaderElectionProofs` | `ElectionTypes`, `FlagBackedByLock`, `OneLeader` | `Spec => []TypeOK`, `[]LeaderHoldsLock`, `[]NoSplitBrain` |
| `SubscribersProofs` | `SubscribersTypes`, `EventsInOrder`, `ConnectionsCounted`, `EventsExactlyOnce` | `Spec => []TypeOK`, `[]InOrder`, `[]ConnectsAccurate`, `[]ExactlyOnce` |
| `AgentServerProofs` | `SliceIsExact`, `BroadcastIsExact` | `Spec => []SliceExact`, `[]BroadcastExact` |
| `AgentClientProofs` | `ChannelsClosedOnce`, `AnswersReachCallers`, `NoConnectionLeak` | `Spec => []ClosedOnce`, `[]AnswersArrive`, `[]NoLeak` |
| `SubscriberClientProofs` | `ClientTypes`, `TopicsReachServer`, `NoConnectionLeaks`, `OfflineForCause`, `ClosedStaysClosed` | `Spec => []TypeOK`, `[]TopicsReach`, `[]OneConnection`, `[]OfflineCause`, `[]CloseStays` |
| `WireProofs` | `FramesArrive`, `LittleIsKept`, `PositionSurvives` | `Spec => []Framed`, `[]BufferBounded`, `[]PositionKept` |
| | `RecordReadBack`, `RecordsSent` | `unpackPos` finds what `packPos` wrote, whatever follows it; what `packPos` writes is a record |

Few of these are inductive as they stand. The inductive invariants, and why they are
needed:

**Binlog, at least once.** Nothing in `NoRowSkipped` says that what will be written to the
cache next is covered. `SInv` adds that every position in memory (`lastPos`, the inbox of a
remote position) is covered, and that a goroutine which is streaming has delivered every row
before its event, and the first `row[k]` rows of it. That fails once `binlogIsExit` is
raised, since `OnRow` then drops rows. So the part about goroutines is claimed only while the
bit is down, and the file is safe because `saveBinlogPositionCache` writes nothing once it is
up: this is what the check in it is for, and the mutant that drops it breaks `NoRowSkipped`.
`OneStream` needs that two goroutines never run the same canal and that every open canal is
the current one (`CanalOK`).

**Binlog, row numbers.** `Tally[p]` is the number of rows in the server's binlog up to
position `p`. `NInv` says that the file, every number sent and the memory of the goroutine
agree with it: the index saved with a position is the tally of that position less that of
`Begin`, a row sent has the tally of its place, and where the goroutine is, `EventIndex` is
the tally of its position plus the rows of the event it has numbered (rows that cannot be
encoded are numbered too). Two more parts make that inductive: a standalone node has one
start signal per boot and so one goroutine, started at the position the index was restored
with (`OneStart`); and stop signals come from `Close` only, after `binlogIsExit`, so that
the last save of `lookStopService`, whose position and index need not belong together once
`OnRow` drops rows, never happens (`ExitFirst`). `IndexStable` follows since the tally
grows. That the tally exists and grows is proved from the least element of a set of
positions (`MinExists`), not by an induction theorem. The same invariant says that no saved
position lies beyond the goroutine's, from which `PositionMonotone` follows for each step.

**Binlog, refinement.** Initial states map to initial states, and each step of `Next` maps to
a step of the feed or to a stutter: the step that notifies a row to `Send`, the steps that
write the file to `Save`, the first boot to `Start`, a later one that finds nothing saved to
`StartAnew`, the receipt of a remote position to `Vouch`, the server's append to `Publish`, all others to nothing. What the guards of `Send`
and `Save` ask for is `SInv` before the step: a goroutine that is streaming has delivered all
rows before the one it notifies, and a position about to be saved is covered.

**Election.** Sessions are numbered below `nextSession` and are not shared, a process that is
down has no state, and, as long as no session lapsed, the session of every live process is
valid and each `leader` flag is backed by the lock, up to the moment in `Free` when the
leader deletes the key. `NoSplitBrain` follows since the lock has one holder. The types are
inductive by themselves.

**Subscription service.** `SInv` first says of every slice header anybody holds (the group's,
a loop's copy, the one `remove` or the accept loop is about to store) that it lies within its
array and shows only nodes (`HeadersShow`): arrays are written in place by goroutines that
hold different headers over them, and this is what keeps every index in bounds. For
`InOrder` it says that no queue holds an event `SendAll` has not begun (`NotAhead`); for
`ConnectsAccurate` that the counter is the number of clients that are online or on their way
out, less the one being accepted (`Counted`). `ExactlyOnce` needs more (`EInv`), claimed only
as long as no client has left: the group's slice shows each connected client once, the one
about to be stored adds one (`SliceGrows`), and the loop of `SendAll` goes over distinct
clients in places nobody overwrites, those it has passed have the event if it was for them,
and those before it have not (`LoopExact`).

**Agent server.** `ServerInv`: headers show nodes that were appended, the slice shows the
clients accepted and not removed, each once, and nothing has been sent to a client that is
not in it yet. `BroadcastInv` adds where each broadcast stands that no removal has overlapped
so far: each client it is for is at a place of its loop's header, has the message if the loop
has passed that place, and has not if it has not (`CallersUnderway`); broadcasts under way
have different numbers, which no queue holds before they begin (`BroadcastsDiffer`); and one
that ended has reached all it was for (`EndedReached`). A removal shifts the array under the
header of a loop, and then nothing of the kind holds: that is why `BroadcastExact` speaks of
the broadcasts in `clean` only.

**Agent client.** `AInv`: a waiter's channel is closed exactly when it has left the map
(`WaitersOK`), answers on their way are to requests that were written (`AnswersOK`), and as
long as no `Connect` overlapped, one under way is alone and only its own connection, or
otherwise only the client's, can be open (`LinkOK`). `AnswersArrive` is a part of it, and
inductive with these.

**Subscriber client.** `CInv` has a part for each property. `TopicsPending`: every topic is
known to the server, or still to be announced by `connect`, or in the hand of `Subscribe`; in
the step between storing the node and ranging over the topics nothing is claimed, since the
range is still to come. `OnlineWhileOpen`: a connection not closed by the client belongs to a
node that is online, so that the `disconnect` before a replacement does not pass it over.
`LostNoted`: when `start` is about to mark its server offline, that server's connection was
lost or closed. `NowhereToGo`: after a `Close` with no other server, `start` is at the failing
read, about to mark the server offline, or has found nothing to connect to, and only an
addition by the watcher ends the claim.

**Wire.** The data first. `Number(Digits(n, w)) = n` for every `n` below `Weight[w]`
(`RoundTrip`): what `n` leaves modulo `Weight[i]` is what its first `i` digits sum to, by
`ModNext` from one `i` to the next. `PackShape`, `EncodeShape` and `RecordShape` say where each
field of a message is, and `Field` and `NumberField` that a receiver which has the first bytes
of a message reads those fields from them. Together (`Decodes`): given the front of a message,
or a message and anything behind it, each of the three decoders waits until the last byte is
there and then takes exactly that message. The recursive definitions (`Weight`, `Number`,
`FlattenSeq`) are shown to be what they say with `MinExists`, as for `Tally`.

The invariant then is `FrameInv`: as long as no message was torn by a break, no first header
was split and the agent's messages are short enough, there is a sequence `q` of messages, those
received in full and not yet handed out, such that `due = out \o q` and the buffer followed by
the stream is the bytes of `q` followed by those of `pending` (`InStep`); `q` is empty outside
`onMessage`. `InStep` also places the boundary: the first pending message has a byte left in
the stream. For the agent it needs more: the array shows a header from the first read on
(`HeadSeen`; taking a message writes the rest over it, which is empty or begins with one), which
is why a header that is cut later does no harm, and the buffer keeps within the limit, which is
what `Short` is for: a buffer that has not got a whole message, and a read. A dropped
buffer is then shown to be impossible (`FrameDrop`), and `Framed` follows.

`PositionKept` rests on `Kept`, a part of the same invariant: the file starts with the record
handed out last, followed by whatever a longer one left, and `RestIgnored`: the record's own
length ends the name. It is said of a receiver in step, as `Framed` is; one out of step may save
what it takes for a record.

`BufferBounded` needs no framing for the agent: above the limit `Decode` drops the buffer,
whatever is in it (`LimitDrops`), which with the type of the buffer is inductive (`LimitInv`).
For the other two it follows from `InStep`: the first pending message has a byte left in the
stream, so that the buffer is less than that message (`PartKept`).

`SliceFacts` has what the two services' proofs share: appending to a slice, in place or into a
new array, and shifting an element out of it, with what each does to the elements another
header shows; and counting a message in a queue, in what was taken from it and in both.

Assumptions: the `ASSUME`s of the modules (`ModelAssumption`, `LimitAssumption`,
`NodesAssumption`, `SubscribersAssumption`, `AgentServerAssumption`,
`AgentClientAssumption`, `SubscriberClientAssumption`, `WireAssumption`), which type the
constants and keep names apart: `None` and the like are no nodes, the names of loops are no
callers or clients. `WireAssumption` also says what is sent: a byte has at least four values, so
that commands fit two bytes; a length fits the bytes it is written in (four, and three in the
subscribers' library, whose fourth is `l >> 32`); ticks are empty, topics start with the zero
byte `setPro` writes, and a position is a record no longer than the buffer it is read into,
as `RecordsSent` shows of `packPos`.
TLC evaluates each in the runs of its module. `NumbersStay` and `PositionNeverBack` are about
`Standalone`: a node that receives positions or is stopped and started numbers anew, see
"Where the properties stop".

The inductive invariants were checked with TLC as invariants of the runs' instances before
they were proved (`NInv` with the tally as a recursive function and two goroutine slots,
`BroadcastInv` also with three connections and two callers as far as some five million
states, `FrameInv` with `q` the messages of `due` after those of `out`).

Only model-checked:

- the liveness properties (`EventuallyDelivered`, `ShutdownCompletes`, `ElectsLeader`,
  `SendAllReturns`, `GoneRemoved`, `BroadcastReturns`, `WritersEnd`, `WaitersLeave`,
  `ReaderFree`, `DeadNoticed`, `Reconnects` and those of `ServiceWatch`): fairness and
  `ENABLED` are out of the prover's reach.

## 5. Not modelled, and the plan

Left to prove: that an agent's client which was brought out of step by a split header or a
long message is in step again at the next header it finds, if no content has one in it.

Not modelled:

- *A cluster of binlog nodes in one module*: several nodes with their elections, streams and
  agent connections. One binlog node alone fills the run `cluster`, and two nodes' elections the
  run `election`; their product is out of TLC's reach. What crosses the boundaries is kept as an
  assumption-free input: `Binlog` takes role changes in any order and positions at any
  time, `AgentServer` takes broadcasts at any time. What is lost is the echo of received
  positions between nodes that are connected to each other in a cycle.
- *`agent/client_sync.go`*: one request at a time under one lock, used by an example only.
- *`services.SendRaw`*: the loop of the keep-alive with another message.
- *Key-value wrappers and `watch_kv.go`*: they forward one request each; nothing in the
  program uses the latter.
- *Configuration, logging, daemonising, the admin HTTP handlers*: I/O without state of
  their own.
- *Column decoding* (`fieldDecode`): a pure conversion of database values, which no property
  here is about.
- *Example programs and scripts.*
