------------------------- MODULE SubscriberClient -------------------------
(***************************************************************************)
(* The subscribers' client library (client/tcp.go): start looks for a      *)
(* server, connects, announces the topics and reads until the connection   *)
(* fails; then it marks that server offline, for good, and looks for       *)
(* another.  Beside it run the keepalive goroutine, the application's      *)
(* Subscribe and Close, and the consul watcher, which adds and deletes     *)
(* services.                                                               *)
(*                                                                         *)
(* Only connect keeps the lock over several steps.  Subscribe, keepalive's *)
(* Write and the reader use client.node without it.                        *)
(***************************************************************************)
EXTENDS Integers

CONSTANTS
    Servers,       \* addresses of subscription services
    Topics,        \* topics the application subscribes to
    None,          \* no server, no topic
    Budgets        \* bounds, of which a behaviour has one

\* What is bounded: connections that break, servers that stop or come up, events
\* of the watcher, topics subscribed to and calls of Close.
Bounded == {"break", "server", "watch", "subscribe", "close"}

ASSUME SubscriberClientAssumption ==
    /\ None \notin Servers \cup Topics
    /\ Budgets \subseteq [Bounded -> Nat]

VARIABLES
    services,      \* Client.Services: is a server listed, and marked offline
    node,          \* Client.node: its server, connection, status, topics announced
    online,        \* Client.status
    topics,        \* Client.topics
    start,         \* start: its step, its server, the topics still to announce
    subscribe,     \* the topic Subscribe has appended and not yet written
    keep,          \* keepalive: its step
    close,         \* Close: its step
    returned,      \* NewClient has returned (wait.closed)
    panicked,      \* the process is gone
    up,            \* servers that accept connections
    lost,          \* history: servers a connection to which broke or was closed
    alone,         \* history: Close was called with no other server to turn to
    leaked,        \* history: connect dropped a connection nobody had closed
    budget         \* how much of each bound is left

history == <<lost, alone, leaked>>
vars == <<services, node, online, topics, start, subscribe, keep, close,
          returned, panicked, up, history, budget>>

\* conn: "none" (nil), "open", "broken" by the peer, "closed" by disconnect.
NilNode == [server |-> None, conn |-> "none", online |-> FALSE, known |-> {}]

\* own: start's pointer is the entry of Client.Services, not one deleted since.
AtTop == [at |-> "top", server |-> None, own |-> FALSE, left |-> {}]

Init ==
    /\ services \in [Servers -> {"absent", "on"}]
    /\ up \in SUBSET Servers
    /\ node = NilNode /\ online = FALSE
    /\ topics = {}
    /\ start = AtTop
    /\ subscribe = None /\ keep = "idle" /\ close = "idle"
    /\ returned = FALSE /\ panicked = FALSE
    /\ lost = {} /\ alone = FALSE /\ leaked = FALSE
    /\ budget \in Budgets

Spend(x) == /\ budget[x] > 0
            /\ budget' = [budget EXCEPT ![x] = @ - 1]

\* Servers getServer may choose.
On == {s \in Servers : services[s] = "on"}

\* connect holds the lock from the dial to the last topic.
Unlocked == start.at \notin {"range", "announce"}

\* A connection that takes a message: it arrives, or is lost with the connection.
Written(t) == IF node.conn = "open" THEN [node EXCEPT !.known = @ \cup {t}] ELSE node

\* Mutant: the connection is left open.
disconnectForgets ==
    /\ Unlocked
    /\ node' = [node EXCEPT !.online = FALSE]
    /\ lost' = IF node.online THEN lost \cup {node.server} ELSE lost

\* disconnect closes the connection of the node there is now, once.
disconnect ==
    /\ Unlocked
    /\ node' = IF node.online THEN [node EXCEPT !.conn = "closed", !.online = FALSE]
                              ELSE node
    /\ lost' = IF node.online THEN lost \cup {node.server} ELSE lost

-----------------------------------------------------------------------------
(* start. *)

\* getServer ranges over the services twice, without the lock: it takes one that
\* is not offline, ...
getServer ==
    /\ ~panicked /\ start.at = "top"
    /\ \/ \E s \in On : start' = [start EXCEPT !.at = "choose", !.server = s, !.own = TRUE]
       \/ /\ On = {} /\ \E s \in Servers : services[s] # "absent"
          /\ start' = [start EXCEPT !.at = "choose"]
    /\ UNCHANGED <<services, node, online, topics, subscribe, keep, close,
                   returned, panicked, up, history, budget>>

\* ... then perhaps another, by the counters in consul.  One that was added after
\* the first range found none is compared with nil: the process is gone.
getServerChoose ==
    /\ ~panicked /\ start.at = "choose"
    /\ \/ /\ start.server # None /\ panicked' = FALSE
          /\ \/ start' = [start EXCEPT !.at = "connect"]
             \/ \E s \in On : start' = [start EXCEPT !.at = "connect", !.server = s,
                                                    !.own = TRUE]
       \/ /\ start.server = None /\ panicked' = (On # {})
          /\ start' = AtTop
    /\ UNCHANGED <<services, node, online, topics, subscribe, keep, close,
                   returned, up, history, budget>>

\* A node that is still online is disconnected before it is replaced; one that
\* is not must have been closed.
connectReplaces ==
    /\ lost' = IF node.online THEN lost \cup {node.server} ELSE lost
    /\ leaked' = (leaked \/ (~node.online /\ node.conn \in {"open", "broken"}))

\* Mutant: the status of the new node stays online.
connectFailsOnline ==
    /\ ~panicked /\ start.at = "connect" /\ start.server \notin up
    /\ node' = [NilNode EXCEPT !.server = start.server, !.online = TRUE]
    /\ connectReplaces
    /\ start' = AtTop
    /\ UNCHANGED <<services, online, topics, subscribe, keep, close,
                   returned, panicked, up, alone, budget>>

\* Mutant: a server that does not answer is marked offline.
connectFailsOffline ==
    /\ ~panicked /\ start.at = "connect" /\ start.server \notin up
    /\ node' = [NilNode EXCEPT !.server = start.server]
    /\ connectReplaces
    /\ start' = AtTop
    /\ services' = [services EXCEPT ![start.server] = IF start.own THEN "off" ELSE @]
    /\ UNCHANGED <<online, topics, subscribe, keep, close,
                   returned, panicked, up, alone, budget>>

\* connect to a server that is down: the node is new, and has no connection.
connectFails ==
    /\ ~panicked /\ start.at = "connect" /\ start.server \notin up
    /\ node' = [NilNode EXCEPT !.server = start.server]
    /\ connectReplaces
    /\ start' = AtTop
    /\ UNCHANGED <<services, online, topics, subscribe, keep, close,
                   returned, panicked, up, alone, budget>>

\* connect to a server whose name has no address: the old node is disconnected.
connectUnresolved ==
    /\ ~panicked /\ start.at = "connect" /\ start.server \notin up
    /\ disconnect
    /\ start' = AtTop
    /\ UNCHANGED <<services, online, topics, subscribe, keep, close,
                   returned, panicked, up, alone, leaked, budget>>

\* connect to a server that is up: the node is new and the client online again,
\* even after Close.
connect ==
    /\ ~panicked /\ start.at = "connect" /\ start.server \in up
    /\ node' = [server |-> start.server, conn |-> "open", online |-> TRUE, known |-> {}]
    /\ connectReplaces
    /\ online' = TRUE
    /\ start' = [start EXCEPT !.at = "range"]
    /\ UNCHANGED <<services, topics, subscribe, keep, close,
                   returned, panicked, up, alone, budget>>

\* Mutant: only the first connection is told the topics.
connectRangeOnce ==
    /\ ~panicked /\ start.at = "range"
    /\ start' = [start EXCEPT !.at = "announce", !.left = IF returned THEN {} ELSE topics]
    /\ UNCHANGED <<services, node, online, topics, subscribe, keep, close,
                   returned, panicked, up, history, budget>>

\* range client.topics: the topics there are now ...
connectRange ==
    /\ ~panicked /\ start.at = "range"
    /\ start' = [start EXCEPT !.at = "announce", !.left = topics]
    /\ UNCHANGED <<services, node, online, topics, subscribe, keep, close,
                   returned, panicked, up, history, budget>>

\* ... are written one by one.
connectAnnounce ==
    /\ ~panicked /\ start.at = "announce"
    /\ \/ \E t \in start.left : /\ node' = Written(t)
                                /\ start' = [start EXCEPT !.left = @ \ {t}]
       \/ /\ start.left = {}
          /\ start' = [start EXCEPT !.at = "check"]
          /\ node' = node
    /\ UNCHANGED <<services, online, topics, subscribe, keep, close,
                   returned, panicked, up, history, budget>>

\* Mutant: start only reads from a node that was online all the time.
startCheckReturns ==
    /\ ~panicked /\ start.at = "check"
    /\ returned' = (returned \/ node.online)
    /\ start' = [start EXCEPT !.at = IF online /\ node.online THEN "read" ELSE "ended"]
    /\ UNCHANGED <<services, node, online, topics, subscribe, keep, close,
                   panicked, up, history, budget>>

\* Back in start: a node that was disconnected meanwhile is replaced; otherwise
\* NewClient returns, and start ends if Close came in between.
startCheck ==
    /\ ~panicked /\ start.at = "check"
    /\ \/ ~node.online /\ start' = AtTop /\ returned' = returned
       \/ /\ node.online
          /\ returned' = TRUE
          /\ start' = [start EXCEPT !.at = IF online THEN "read" ELSE "ended"]
    /\ UNCHANGED <<services, node, online, topics, subscribe, keep, close,
                   panicked, up, history, budget>>

\* A message has been read; before the next Read start ends if Close was called.
startRead ==
    /\ ~panicked /\ start.at = "read" /\ ~online
    /\ start' = [start EXCEPT !.at = "ended"]
    /\ UNCHANGED <<services, node, online, topics, subscribe, keep, close,
                   returned, panicked, up, history, budget>>

\* Read fails: disconnect, ...
startReadFails ==
    /\ ~panicked /\ start.at = "read" /\ node.conn \in {"broken", "closed"}
    /\ disconnect
    /\ start' = [start EXCEPT !.at = "offline"]
    /\ UNCHANGED <<services, online, topics, subscribe, keep, close,
                   returned, panicked, up, alone, leaked, budget>>

\* Mutant: the server stays in the list.
startOfflineForgets ==
    /\ ~panicked /\ start.at = "offline"
    /\ start' = AtTop
    /\ UNCHANGED <<services, node, online, topics, subscribe, keep, close,
                   returned, panicked, up, history, budget>>

\* ... and the server is marked offline, through the pointer start has: an entry
\* the watcher has deleted and added again is another one.
startOffline ==
    /\ ~panicked /\ start.at = "offline"
    /\ start' = AtTop
    /\ services' = [services EXCEPT ![start.server] = IF start.own THEN "off" ELSE @]
    /\ UNCHANGED <<node, online, topics, subscribe, keep, close,
                   returned, panicked, up, history, budget>>

-----------------------------------------------------------------------------
(* The application: Subscribe and Close, once NewClient has returned. *)

\* Subscribe appends a topic it does not have yet ...
Subscribe ==
    /\ ~panicked /\ returned /\ subscribe = None /\ Spend("subscribe")
    /\ \E t \in Topics \ topics : /\ topics' = topics \cup {t}
                                  /\ subscribe' = t
    /\ UNCHANGED <<services, node, online, start, keep, close,
                   returned, panicked, up, history>>

\* ... and writes it to the node there is then.  A failed connect leaves a node
\* whose connection is nil: the method either panics or returns an error, which
\* nobody looks at.
SubscribeWrite ==
    /\ ~panicked /\ subscribe # None
    /\ node' = Written(subscribe)
    /\ subscribe' = None
    /\ panicked' \in IF node.conn = "none" THEN BOOLEAN ELSE {FALSE}
    /\ UNCHANGED <<services, online, topics, start, keep, close, returned,
                   up, history, budget>>

\* No server is left but the one start reads from.
Alone == start.at = "read" /\ \A s \in On : s = start.server /\ start.own

\* Close returns if the client is offline; otherwise it disconnects, ...
Close ==
    /\ ~panicked /\ returned /\ close = "idle" /\ online /\ Spend("close")
    /\ disconnect
    /\ close' = "status"
    /\ alone' = Alone
    /\ UNCHANGED <<services, online, topics, start, subscribe, keep,
                   returned, panicked, up, leaked>>

\* ... and sets the status, with the lock released in between.
CloseStatus ==
    /\ ~panicked /\ close = "status" /\ Unlocked
    /\ online' = FALSE
    /\ close' = "done"
    /\ UNCHANGED <<services, node, topics, start, subscribe, keep,
                   returned, panicked, up, history, budget>>

-----------------------------------------------------------------------------
(* keepalive. *)

\* With the lock: is there a connection?
keepalive ==
    /\ ~panicked /\ keep = "idle" /\ Unlocked
    /\ node.conn # "none" /\ node.online
    /\ keep' = "write"
    /\ UNCHANGED <<services, node, online, topics, start, subscribe, close,
                   returned, panicked, up, history, budget>>

\* Without it: a tick to the connection there is now.
keepaliveWrite ==
    /\ ~panicked /\ keep = "write"
    /\ keep' \in CASE node.conn = "open" -> {"idle"}
                   [] node.conn = "broken" -> {"idle", "failed"}
                   [] OTHER -> {"failed"}
    /\ panicked' \in IF node.conn = "none" THEN BOOLEAN ELSE {FALSE}
    /\ UNCHANGED <<services, node, online, topics, start, subscribe, close, returned,
                   up, history, budget>>

\* After an error, disconnect, whichever node is there by then.
keepaliveFailed ==
    /\ ~panicked /\ keep = "failed"
    /\ disconnect
    /\ keep' = "idle"
    /\ UNCHANGED <<services, online, topics, start, subscribe, close,
                   returned, panicked, up, alone, leaked, budget>>

-----------------------------------------------------------------------------
(* The watcher's callback, with the lock, and the world. *)

\* A map written while getServer ranges over it: the runtime may kill the process.
Races == panicked' \in IF start.at = "choose" THEN BOOLEAN ELSE {FALSE}

onWatchDelete(s) ==
    /\ ~panicked /\ Unlocked /\ services[s] # "absent" /\ Spend("watch")
    /\ services' = [services EXCEPT ![s] = "absent"]
    /\ start' = [start EXCEPT !.own = @ /\ start.server # s]
    /\ Races
    /\ UNCHANGED <<node, online, topics, subscribe, keep, close,
                   returned, up, history>>

onWatchAdd(s) ==
    /\ ~panicked /\ Unlocked /\ services[s] = "absent" /\ Spend("watch")
    /\ services' = [services EXCEPT ![s] = "on"]
    /\ alone' = FALSE
    /\ Races
    /\ UNCHANGED <<node, online, topics, start, subscribe, keep, close,
                   returned, up, lost, leaked>>

Break ==
    /\ ~panicked /\ node.conn = "open" /\ Spend("break")
    /\ node' = [node EXCEPT !.conn = "broken"]
    /\ lost' = lost \cup {node.server}
    /\ UNCHANGED <<services, online, topics, start, subscribe, keep, close,
                   returned, panicked, up, alone, leaked>>

\* A server stops listening, or listens again.
ServerChange(s) ==
    /\ ~panicked /\ Spend("server")
    /\ up' = IF s \in up THEN up \ {s} ELSE up \cup {s}
    /\ UNCHANGED <<services, node, online, topics, start, subscribe, keep, close,
                   returned, panicked, history>>

-----------------------------------------------------------------------------
Starting == \/ getServer \/ getServerChoose \/ connectFails
            \/ connectUnresolved \/ connect \/ connectRange \/ connectAnnounce
            \/ startCheck \/ startReadFails \/ startOffline

Keeping == keepalive \/ keepaliveWrite \/ keepaliveFailed

Next ==
    \/ Starting \/ startRead \/ Keeping
    \/ Subscribe \/ SubscribeWrite \/ Close \/ CloseStatus
    \/ \E s \in Servers : onWatchDelete(s) \/ onWatchAdd(s) \/ ServerChange(s)
    \/ Break

Spec == Init /\ [][Next]_vars

\* Goroutines run; a message may never come, and calls and faults need not either.
FairSpec == Spec
            /\ WF_vars(Starting) /\ WF_vars(Keeping)
            /\ WF_vars(SubscribeWrite) /\ WF_vars(CloseStatus)

-----------------------------------------------------------------------------
(* Properties. *)

NodeType == [server : Servers \cup {None}, online : BOOLEAN, known : SUBSET topics,
             conn : {"none", "open", "broken", "closed"}]

NodeOK ==
    /\ node \in NodeType
    /\ node.online => node.conn \in {"open", "broken"}
    /\ node.conn # "none" => node.server \in Servers

StartType == [server : Servers \cup {None}, own : BOOLEAN, left : SUBSET topics,
              at : {"top", "choose", "connect", "range", "announce", "check",
                    "read", "offline", "ended"}]

StartOK ==
    /\ start \in StartType
    /\ start.at \notin {"top", "choose", "ended"} => start.server \in Servers
    /\ start.at = "top" => start.server = None

\* Every variable has its type; the node is online only with a connection, and no
\* topic is written or told that the application did not subscribe to.
TypeOK ==
    /\ NodeOK /\ StartOK
    /\ services \in [Servers -> {"absent", "on", "off"}]
    /\ topics \subseteq Topics /\ subscribe \in topics \cup {None}
    /\ keep \in {"idle", "write", "failed"} /\ close \in {"idle", "status", "done"}
    /\ {online, returned, panicked, alone, leaked} \subseteq BOOLEAN
    /\ up \subseteq Servers /\ lost \subseteq Servers

\* A server the client is connected to knows every topic subscribed to, whenever
\* Subscribe (append, then write) and connect (node, then topics) met: neither
\* has a lock against the other.
TopicsReach ==
    node.conn = "open" /\ Unlocked /\ subscribe = None => topics \subseteq node.known

\* A server is given up for good only after a connection to it was lost or
\* closed (by Close, or by a keepalive whose failed write was on an older
\* connection); one that did not answer a dial is tried again.
OfflineCause == {s \in Servers : services[s] = "off"} \subseteq lost

\* connect never drops the connection of the node it replaces: whoever made
\* start turn to another server closed it.
OneConnection == ~leaked

\* A client closed while it reads from the last server it has stays
\* disconnected.  Only the offline mark keeps start from connecting again:
\* connect sets the status back, and with another server in the list it does.
CloseStays == alone /\ close = "done" => node.conn # "open"

\* A client that is not closed is connected again, when in the end there are
\* servers in its list that it has not marked offline, and all of those are up.
Reconnects ==
    (<>[](close = "idle" /\ ~panicked /\ On # {} /\ On \subseteq up))
        => []<>(node.conn = "open")
=============================================================================
