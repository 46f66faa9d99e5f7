--------------------------- MODULE ServiceWatch ---------------------------
(***************************************************************************)
(* How clients learn of the subscription services: a server registers in   *)
(* consul and keeps its check alive (services/service.go); a client that   *)
(* starts lists the services and watches them with a blocking query        *)
(* (client/watcher.go and NewClient of client/tcp.go).  The library has a  *)
(* second watcher of the same kind, which reports every change to a        *)
(* listener (consul/watch_service.go).                                     *)
(*                                                                         *)
(* The client's watcher runs before NewClient has listed the services:     *)
(* both store into cw.addrs and cw.li, and both fill client.Services.      *)
(***************************************************************************)
EXTENDS Integers

CONSTANTS
    Servers,       \* subscription services, by their ServiceID
    ServiceName,   \* the name they register under
    ClientName,    \* the name the client's watcher asks for
    Budgets        \* bounds, of which a behaviour has one

\* What is bounded: processes that start, that stop (in order or not), checks
\* that expire under a running server, calls to consul that fail or time out, and
\* looks of the client at the connection counters.
Bounded == {"start", "stop", "expire", "error", "look"}

ASSUME ServiceWatchAssumption == Budgets \subseteq [Bounded -> Nat]

VARIABLES
    process,       \* process[s]: where NewService and Register are
    beating,       \* beating[s]: updateTTL runs
    key,           \* consul's KV: servers whose connection counter is there
    registry,      \* consul's catalog: registry[s] without a check, or its check
    index,         \* the index of its last change
    watch,         \* process() of the watcher: its step, query and what is left to report
    addrs,         \* cw.addrs
    li,            \* cw.li
    main,          \* NewClient: its step and the members it got
    services,      \* client.Services
    panicked,      \* the client's process is gone
    heard,         \* the listener of Watch: what it was told of a server last
    first,         \* history: the first answer Watch got, which it reports to nobody
    moved,         \* history: servers that came or left while NewClient was at work
    budget         \* how much of each bound is left

servers == <<process, beating, key>>
consul == <<registry, index, moved>>
watcher == <<watch, addrs, li>>
client == <<main, services, panicked>>
listener == <<heard, first>>
vars == <<servers, consul, watcher, client, listener, budget>>

\* A query for passing services also returns those that have no check.
Passing == {s \in Servers : registry[s] \in {"bare", "passing"}}

\* AggregatedStatus of the services a query without that condition returns.
Statuses == [s \in Servers |-> CASE registry[s] = "absent" -> "absent"
                                 [] registry[s] = "critical" -> "offline"
                                 [] OTHER -> "online"]

\* What queryConsul returns: to Watch all services of the name it was given, to the
\* client the passing ones of the name it has.
Found == [s \in Servers |->
            IF main.at = "listen" \/ (ClientName = ServiceName /\ s \in Passing)
            THEN Statuses[s] ELSE "absent"]

NoEntries == [s \in Servers |-> "absent"]

\* Some servers run already.  A behaviour has the client, or a listener of the
\* library's watcher.
Init ==
    /\ beating \in SUBSET Servers /\ key = beating
    /\ process = [s \in Servers |-> IF s \in beating THEN "up" ELSE "down"]
    /\ registry = [s \in Servers |-> IF s \in beating THEN "passing" ELSE "absent"]
    /\ index = 1
    /\ addrs = NoEntries /\ li = 0
    /\ main \in {[at |-> "members", found |-> NoEntries, index |-> 0],
                 [at |-> "listen", found |-> NoEntries, index |-> 0]}
    /\ watch = [at |-> IF main.at = "listen" THEN "first" ELSE "query",
                wait |-> 0, found |-> NoEntries, index |-> 0, todo |-> {}]
    /\ services = {} /\ panicked = FALSE
    /\ heard = [s \in Servers |-> "untold"] /\ first = NoEntries
    /\ moved = {}
    /\ budget \in Budgets

Spend(x) == /\ budget[x] > 0
            /\ budget' = [budget EXCEPT ![x] = @ - 1]

\* The catalog entry of s becomes r; a change has an index of its own.
Entry(s, r) ==
    /\ registry' = [registry EXCEPT ![s] = r]
    /\ index' = IF r = registry[s] THEN index ELSE index + 1
    /\ moved' = IF main.at # "run" /\ (s \in Passing) # (r \in {"bare", "passing"})
                THEN moved \cup {s} ELSE moved

-----------------------------------------------------------------------------
(* A server: NewService, Register, updateTTL, Close. *)

\* NewService starts updateTTL; Register is called at once.
NewService(s) ==
    /\ process[s] = "down" /\ Spend("start")
    /\ process' = [process EXCEPT ![s] = "service"]
    /\ beating' = beating \cup {s}
    /\ UNCHANGED <<key, consul, watcher, client, listener>>

\* Register: the service, which is passing while it has no check, ...
Register(s) ==
    /\ process[s] = "service"
    /\ process' = [process EXCEPT ![s] = "check"]
    /\ Entry(s, IF registry[s] = "absent" THEN "bare" ELSE registry[s])
    /\ UNCHANGED <<beating, key, watcher, client, listener, budget>>

\* ... then its check.
RegisterCheck(s) ==
    /\ process[s] = "check"
    /\ process' = [process EXCEPT ![s] = "up"]
    /\ Entry(s, "passing")
    /\ UNCHANGED <<beating, key, watcher, client, listener, budget>>

\* Either call may fail: Register returns, its caller drops the error, and
\* nobody tries again.
RegisterFails(s) ==
    /\ process[s] \in {"service", "check"} /\ Spend("error")
    /\ process' = [process EXCEPT ![s] = "up"]
    /\ UNCHANGED <<beating, key, consul, watcher, client, listener>>

\* Mutant: only the counter is put.
updateTTLCounts(s) ==
    /\ s \in beating
    /\ key' = key \cup {s}
    /\ UNCHANGED <<process, beating, consul, watcher, client, listener, budget>>

\* One turn of updateTTL: the counter is put and, once Register was called, the
\* check set to passing, if there is one.  (The counter is put without its
\* session, so it stays when the server is gone.)
updateTTL(s) ==
    /\ s \in beating
    /\ key' = key \cup {s}
    /\ Entry(s, IF registry[s] = "critical" THEN "passing" ELSE registry[s])
    /\ UNCHANGED <<process, beating, watcher, client, listener, budget>>

\* Close deregisters the service and with it its check; updateTTL goes on.
Deregister(s) ==
    /\ process[s] = "up" /\ Spend("stop")
    /\ process' = [process EXCEPT ![s] = "closed"]
    /\ Entry(s, "absent")
    /\ UNCHANGED <<beating, key, watcher, client, listener>>

\* The process ends, after Close or wherever it is.
Exit(s) ==
    /\ \/ process[s] \in {"service", "check", "up"} /\ Spend("stop")
       \/ process[s] = "closed" /\ UNCHANGED budget
    /\ process' = [process EXCEPT ![s] = "down"]
    /\ beating' = beating \ {s}
    /\ UNCHANGED <<key, consul, watcher, client, listener>>

\* consul: a check nobody has set for its TTL is critical.  It happens to a
\* server that is gone, and may happen to one that is slow.
Expire(s) ==
    /\ registry[s] = "passing"
    /\ \/ s \notin beating /\ UNCHANGED budget
       \/ s \in beating /\ Spend("expire")
    /\ Entry(s, "critical")
    /\ UNCHANGED <<servers, watcher, client, listener>>

-----------------------------------------------------------------------------
(* The watchers. *)

\* getDelete(a, b): the entries of a that b does not have.
getDelete(a, b) == {s \in Servers : a[s] # "absent" /\ b[s] = "absent"}

\* getChange(a, b): the entries of both whose status differs.
getChange(a, b) == {s \in Servers : "absent" \notin {a[s], b[s]} /\ a[s] # b[s]}

\* A query with the index of the last answer: it waits for a later one.
queryConsul ==
    /\ watch.at = "query"
    /\ watch' = [watch EXCEPT !.at = "wait", !.wait = li]
    /\ UNCHANGED <<servers, consul, addrs, li, client, listener, budget>>

Answer == watch' = [watch EXCEPT !.at = "fetched", !.found = Found, !.index = index]

queryAnswers ==
    /\ watch.at = "wait" /\ index > watch.wait
    /\ Answer
    /\ UNCHANGED <<servers, consul, addrs, li, client, listener, budget>>

\* The longest time a query may wait has passed, or it fails and is repeated.
queryEnds ==
    /\ watch.at = "wait" /\ Spend("error")
    /\ Answer \/ watch' = [watch EXCEPT !.at = "query"]
    /\ UNCHANGED <<servers, consul, addrs, li, client, listener>>

\* The client's process(): what was there and is not any more, ...
dialDelete ==
    /\ watch.at = "fetched" /\ main.at # "listen"
    /\ watch' = [watch EXCEPT !.at = "delete", !.todo = getDelete(addrs, watch.found)]
    /\ UNCHANGED <<servers, consul, addrs, li, client, listener, budget>>

\* ... then what was not there and is now; ...
dialAdd ==
    /\ watch.at = "delete" /\ watch.todo = {}
    /\ watch' = [watch EXCEPT !.at = "add", !.todo = getDelete(watch.found, addrs)]
    /\ UNCHANGED <<servers, consul, addrs, li, client, listener, budget>>

\* ... each is an event, whose callback takes the lock and changes the list; ...
onChange(s) ==
    /\ s \in watch.todo
    /\ watch' = [watch EXCEPT !.todo = @ \ {s}]
    /\ services' = IF watch.at = "add" THEN services \cup {s} ELSE services \ {s}
    /\ UNCHANGED <<servers, consul, addrs, li, main, panicked, listener, budget>>

\* ... and what was found is kept for the next turn.
processStore ==
    /\ watch.at = "add" /\ watch.todo = {}
    /\ addrs' = watch.found /\ li' = watch.index
    /\ watch' = [watch EXCEPT !.at = "query", !.found = NoEntries, !.index = 0]
    /\ UNCHANGED <<servers, consul, client, listener, budget>>

\* The library's Watch asks once without waiting, and reports nothing of it ...
WatchFirst ==
    /\ watch.at = "first"
    /\ addrs' = Found /\ li' = index
    /\ first' = Found
    /\ watch' = [watch EXCEPT !.at = "query"]
    /\ UNCHANGED <<servers, consul, client, heard, budget>>

\* Mutant: an entry that is still there is not looked at.
WatchDialsTwo ==
    /\ watch.at = "fetched" /\ main.at = "listen"
    /\ heard' = [s \in Servers |->
                   IF s \in getDelete(watch.found, addrs) \cup getDelete(addrs, watch.found)
                   THEN watch.found[s] ELSE heard[s]]
    /\ addrs' = watch.found /\ li' = watch.index
    /\ watch' = [watch EXCEPT !.at = "query", !.found = NoEntries, !.index = 0]
    /\ UNCHANGED <<servers, consul, client, first, budget>>

\* ... and from then on tells its listener what was added, deleted and changed.
WatchDials ==
    /\ watch.at = "fetched" /\ main.at = "listen"
    /\ heard' = [s \in Servers |->
                   IF s \in getDelete(watch.found, addrs) \cup getDelete(addrs, watch.found)
                            \cup getChange(addrs, watch.found)
                   THEN watch.found[s] ELSE heard[s]]
    /\ addrs' = watch.found /\ li' = watch.index
    /\ watch' = [watch EXCEPT !.at = "query", !.found = NoEntries, !.index = 0]
    /\ UNCHANGED <<servers, consul, client, first, budget>>

-----------------------------------------------------------------------------
(* NewClient, with the watcher already running. *)

\* getMembers asks consul; when that fails, NewClient goes on with nothing.
getMembers ==
    /\ main.at = "members"
    /\ \/ /\ main' = [at |-> "store", found |-> Found, index |-> index]
          /\ UNCHANGED budget
       \/ /\ Spend("error")
          /\ main' = [main EXCEPT !.at = "list"]
    /\ UNCHANGED <<servers, consul, watcher, services, panicked, listener>>

\* The answer goes where the watcher keeps its own, ...
getMembersStore ==
    /\ main.at = "store"
    /\ addrs' = main.found /\ li' = main.index
    /\ main' = [main EXCEPT !.at = "list"]
    /\ UNCHANGED <<servers, consul, watch, services, panicked, listener, budget>>

\* Mutant: the list is made anew.
NewClientReplaces ==
    /\ main.at = "list"
    /\ services' = {s \in Servers : main.found[s] # "absent"}
    /\ main' = [main EXCEPT !.at = "run"]
    /\ UNCHANGED <<servers, consul, watcher, panicked, listener, budget>>

\* ... and, under the lock, into the list.
NewClient ==
    /\ main.at = "list"
    /\ services' = services \cup {s \in Servers : main.found[s] # "absent"}
    /\ main' = [main EXCEPT !.at = "run"]
    /\ UNCHANGED <<servers, consul, watcher, panicked, listener, budget>>

\* getServer reads the counter of every service; one that is not there is a nil
\* entry, and reading it ends the process.
getConnects ==
    /\ main.at = "run" /\ ~panicked /\ Spend("look")
    /\ panicked' = (services \ key # {})
    /\ UNCHANGED <<servers, consul, watcher, main, services, listener>>

-----------------------------------------------------------------------------
Registering(s) == Register(s) \/ RegisterCheck(s) \/ RegisterFails(s)

Watching == \/ queryConsul \/ queryAnswers \/ dialDelete \/ dialAdd \/ processStore
            \/ \E s \in Servers : onChange(s)
            \/ WatchFirst \/ WatchDials

Listing == getMembers \/ getMembersStore \/ NewClient

Next ==
    \/ \E s \in Servers : \/ NewService(s) \/ Registering(s) \/ updateTTL(s)
                          \/ Deregister(s) \/ Exit(s) \/ Expire(s)
    \/ Watching \/ queryEnds \/ Listing \/ getConnects

\* Goroutines run, consul answers when there is something new, and expires the
\* checks of servers that are gone.  Nothing makes a query end without news.
FairSpec ==
    /\ Init /\ [][Next]_vars
    /\ WF_vars(Watching) /\ WF_vars(Listing)
    /\ \A s \in Servers : /\ WF_vars(Registering(s)) /\ WF_vars(updateTTL(s))
                          /\ WF_vars(s \notin beating /\ Expire(s))

-----------------------------------------------------------------------------
(* Properties. *)

\* When services stop coming and going, the client's list is what consul has,
\* although NewClient and the watcher fill it from two queries and overwrite
\* each other's last answer.  A service that is gone may stay in the list for
\* ever only if it came or left while NewClient was at work: the watcher then
\* deletes it from a list that does not have it yet, or later compares with an
\* answer that does not.  This is said of servers that register under the name
\* the client asks for.
ServicesFollow ==
    <>[](main.at = "run" => /\ Passing \subseteq services
                            /\ services \ Passing \subseteq moved)

\* What the discovery is for: in the end a client knows every service that is
\* passing.  NewClient says that it gets all services (client/tcp.go:119).
ServicesFound == <>[](main.at = "run" => Passing \subseteq services)

\* A server that runs, and whose entry is in consul, is passing in the end,
\* whatever expired before: updateTTL sets the check again.
HeartbeatHeals ==
    \A s \in Servers : (<>[](process[s] = "up" /\ registry[s] # "absent"))
                           => <>[](s \in Passing)

\* The library's watcher tells its listener of everything that happens since its
\* first answer, however many changes there are between two queries: in the end
\* consul has what the listener was told of a server last or, if it was told
\* nothing, what the first answer had, which Watch keeps to itself.
ListenerKnows ==
    <>[](main.at = "listen" =>
            \A s \in Servers :
                Statuses[s] = IF heard[s] = "untold" THEN first[s] ELSE heard[s])
=============================================================================
