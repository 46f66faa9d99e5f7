--------------------------- MODULE LeaderElection ---------------------------
(***************************************************************************)
(* The election of the leader node through a consul lock (consul/leader.go *)
(* over lock, session and service) and what the agent does with its result *)
(* (agent/agent.go, Start and Close): tell the binlog service, and connect *)
(* a follower to the leader.                                               *)
(*                                                                         *)
(* Per node run: the Select loop; one callback goroutine per change of the *)
(* role (`go onLeader(leader)`), several of which may be alive at a time   *)
(* and all of which read one shared ServiceMember; the agent client's      *)
(* reader; and Close.  Consul itself is external: sessions with a TTL,     *)
(* one lock key, and a service registry with TTL checks.                   *)
(***************************************************************************)
EXTENDS Integers

CONSTANTS
    Nodes,         \* the machines copycat runs on
    Limit          \* bounds, see Bounded

\* Process starts, sessions and checks of live processes that time out, failed
\* requests, broken connections, and requested stops.
Bounded == {"boot", "expire", "error", "drop", "stop"}

ASSUME LimitAssumption == Limit \in [Bounded -> Nat]

None == "none"     \* no connection
Dead == "dead"     \* a connection whose other end is gone, not yet noticed

ASSUME NodesAssumption == None \notin Nodes /\ Dead \notin Nodes

VARIABLES          \* of each process
    alive,         \* the process runs
    session,       \* l.session.ID, created once; 0 if that failed
    select,        \* where its Select loop is
    leader,        \* sev.leader
    member,        \* leader.IsLeader of the shared ServiceMember; also the
                   \*   service's own flag, which is always set with it
    registered,    \* the service's Registered bit
    callback,      \* callback[n][s]: callback goroutines at stage s
    tcpLeader,     \* tcp.leader
    told,          \* argument of the last OnLeader call of the binlog service
    conn,          \* the agent client's connection
    closing        \* how far Close has got

VARIABLES          \* of consul
    valid,         \* sessions that exist
    nextSession,
    lock,          \* session that holds the lock key, 0 if none does
    registry       \* registry[n]: the node's service entry

VARIABLES
    lapsed,        \* history: sessions that expired under a live process
    used

process == <<alive, session, closing>>
election == <<select, leader, member, registered>>
agent == <<callback, tcpLeader, told, conn>>
consul == <<valid, nextSession, lock, registry>>
vars == <<process, election, agent, consul, lapsed, used>>

\* A callback: about to read the role, to tell the binlog service the role it
\* read, to look for a leader.
Stages == {"start", "tell leader", "tell follower", "find"}
NoCallbacks == [s \in Stages |-> 0]

\* A service entry: its check's state and its isleader tag.  A service that is
\* registered without a check counts as passing.
NoEntry == [check |-> "none", tag |-> FALSE]
Entry == [check : {"unchecked", "passing", "critical"}, tag : BOOLEAN] \cup {NoEntry}

Spend(x) == used[x] < Limit[x] /\ used' = [used EXCEPT ![x] = @ + 1]

\* A request to consul fails, at most so many times.
RequestFails == Spend("error")
NoFailure == UNCHANGED used

-----------------------------------------------------------------------------
Init ==
    /\ alive = [n \in Nodes |-> FALSE]
    /\ session = [n \in Nodes |-> 0]
    /\ select = [n \in Nodes |-> "first"]
    /\ leader = [n \in Nodes |-> FALSE]
    /\ member = [n \in Nodes |-> FALSE]
    /\ registered = [n \in Nodes |-> FALSE]
    /\ callback = [n \in Nodes |-> NoCallbacks]
    /\ tcpLeader = [n \in Nodes |-> FALSE]
    /\ told = [n \in Nodes |-> FALSE]
    /\ conn = [n \in Nodes |-> None]
    /\ closing = [n \in Nodes |-> "no"]
    /\ valid = {}
    /\ nextSession = 1
    /\ lock = 0
    /\ registry = [n \in Nodes |-> NoEntry]
    /\ lapsed = {}
    /\ used = [x \in Bounded |-> 0]

\* Session.Create: consul makes a session with a TTL.
CreateSession(n) ==
    /\ session' = [session EXCEPT ![n] = nextSession]
    /\ valid' = valid \cup {nextSession}
    /\ nextSession' = nextSession + 1

\* NewLeader creates the session, whose error is ignored; Start calls Select.
Boot(n) ==
    /\ ~alive[n]
    /\ used["boot"] < Limit["boot"]
    /\ alive' = [alive EXCEPT ![n] = TRUE]
    /\ \/ /\ CreateSession(n)
          /\ used' = [used EXCEPT !["boot"] = @ + 1]
       \/ /\ used["error"] < Limit["error"]
          /\ used' = [used EXCEPT !["boot"] = @ + 1, !["error"] = @ + 1]
          /\ UNCHANGED <<session, valid, nextSession>>
    /\ UNCHANGED <<closing, election, agent, lock, registry, lapsed>>

\* The process is gone.  Its session, its lock and its service entry stay with
\* consul; connections to it and from it are dead.
Gone(n) ==
    /\ alive' = [alive EXCEPT ![n] = FALSE]
    /\ session' = [session EXCEPT ![n] = 0]
    /\ closing' = [closing EXCEPT ![n] = "no"]
    /\ select' = [select EXCEPT ![n] = "first"]
    /\ leader' = [leader EXCEPT ![n] = FALSE]
    /\ member' = [member EXCEPT ![n] = FALSE]
    /\ registered' = [registered EXCEPT ![n] = FALSE]
    /\ callback' = [callback EXCEPT ![n] = NoCallbacks]
    /\ tcpLeader' = [tcpLeader EXCEPT ![n] = FALSE]
    /\ told' = [told EXCEPT ![n] = FALSE]
    /\ conn' = [m \in Nodes |-> IF m = n THEN None
                                ELSE IF conn[m] = n THEN Dead ELSE conn[m]]
    /\ UNCHANGED <<consul, lapsed, used>>

\* A panic or a kill, while a restart is still to come.
Crash(n) == alive[n] /\ used["boot"] < Limit["boot"] /\ Gone(n)

-----------------------------------------------------------------------------
(* Consul on its own. *)

Owner(s) == {n \in Nodes : alive[n] /\ session[n] = s}

\* A session times out: at any time when its process is gone, and when a live
\* process fails to renew it in time.  Its lock key is deleted; the delay after
\* which consul lets it be acquired again is part of the time this takes.
Expire(s) ==
    /\ s \in valid
    /\ \/ Owner(s) = {} /\ UNCHANGED <<lapsed, used>>
       \/ Owner(s) # {} /\ lapsed' = lapsed \cup {s} /\ Spend("expire")
    /\ valid' = valid \ {s}
    /\ lock' = IF lock = s THEN 0 ELSE lock
    /\ UNCHANGED <<process, election, agent, nextSession, registry>>

\* The TTL check of a service entry turns critical.
Critical(n) ==
    /\ registry[n].check = "passing"
    /\ IF alive[n] THEN Spend("expire") ELSE UNCHANGED used
    /\ registry' = [registry EXCEPT ![n].check = "critical"]
    /\ UNCHANGED <<process, election, agent, valid, nextSession, lock,
                   lapsed>>

-----------------------------------------------------------------------------
(* Select. *)

\* Can the session acquire the key (again)?
Acquires(n) == lock \in {0, session[n]}

\* Mutant: a request that did not fail is taken for an acquired lock.
LockReturnsTrue(n, success) ==
    /\ session[n] \in valid
    /\ success
    /\ lock' = IF Acquires(n) THEN session[n] ELSE lock
    /\ NoFailure

\* sev.lock.Lock() returns success and no error.
LockReturns(n, success) ==
    /\ session[n] \in valid
    /\ success = Acquires(n)
    /\ lock' = IF success THEN session[n] ELSE lock
    /\ NoFailure

\* sev.lock.Lock() returns an error: the session is not valid, or the request
\* failed, perhaps after it took effect.
LockErrs(n) ==
    \/ session[n] \notin valid /\ NoFailure /\ UNCHANGED lock
    \/ /\ session[n] \in valid
       /\ RequestFails
       /\ lock' \in {lock, IF Acquires(n) THEN session[n] ELSE lock}

\* The role is recorded and a callback goroutine started.
NewRole(n, success) ==
    /\ leader' = [leader EXCEPT ![n] = success]
    /\ member' = [member EXCEPT ![n] = success]
    /\ callback' = [callback EXCEPT ![n]["start"] = @ + 1]

\* The first attempt: whatever the role, it is reported and registered; after
\* an error neither happens.
SelectFirst(n) ==
    /\ alive[n] /\ select[n] = "first"
    /\ \/ \E success \in BOOLEAN :
             /\ LockReturns(n, success)
             /\ NewRole(n, success)
             /\ select' = [select EXCEPT ![n] = "first register"]
       \/ /\ LockErrs(n)
          /\ select' = [select EXCEPT ![n] = "lock"]
          /\ UNCHANGED <<leader, member, callback>>
    /\ UNCHANGED <<process, registered, tcpLeader, told, conn, valid,
                   nextSession, registry, lapsed>>

\* The end of a turn: session.Renew() and UpdateTTL(), errors ignored.  Renewing
\* keeps a session from expiring, which Expire does not do to a live process by
\* itself; an expired one stays expired.
Renewed(reg, n) ==
    IF registered'[n] /\ reg[n].check = "critical"
    THEN [reg EXCEPT ![n].check = "passing"] ELSE reg

\* Mutant: only the leader keeps trying.
SelectLockLeaderOnly(n) ==
    /\ alive[n] /\ select[n] = "lock" /\ leader[n]
    /\ LockReturns(n, TRUE) \/ LockErrs(n)
    /\ registered' = registered
    /\ registry' = Renewed(registry, n)
    /\ UNCHANGED <<process, select, leader, member, agent, valid, nextSession,
                   lapsed>>

\* The attempt of every turn of the loop: only a change is reported.
SelectLock(n) ==
    /\ alive[n] /\ select[n] = "lock"
    /\ UNCHANGED registered
    /\ \/ /\ \E success \in BOOLEAN :
                /\ LockReturns(n, success)
                /\ success # leader[n]
                /\ NewRole(n, success)
          /\ select' = [select EXCEPT ![n] = "register"]
          /\ UNCHANGED registry
       \/ /\ LockReturns(n, leader[n]) \/ LockErrs(n)
          /\ registry' = Renewed(registry, n)
          /\ UNCHANGED <<select, leader, member, callback>>
    /\ UNCHANGED <<process, tcpLeader, told, conn, valid, nextSession, lapsed>>

\* sev.Register(), with the flag set by SetLeader: the service, then its check.
\* Either request may fail, the error is ignored.
Register(n) ==
    /\ alive[n] /\ select[n] \in {"first register", "register"}
    /\ select' = [select EXCEPT ![n] = "lock"]
    /\ registered' = [registered EXCEPT ![n] = TRUE]
    /\ LET old == registry[n].check
           Registered(check) == [registry EXCEPT ![n] = [check |-> check, tag |-> member[n]]]
           partial == Registered(IF old = "none" THEN "unchecked" ELSE old)
       IN  \/ registry' = Registered("passing") /\ NoFailure
           \/ /\ \E reg \in {registry, partial} :
                    registry' = IF select[n] = "register" THEN Renewed(reg, n) ELSE reg
              /\ RequestFails
    /\ UNCHANGED <<process, leader, member, agent, valid, nextSession, lock,
                   lapsed>>

-----------------------------------------------------------------------------
(* The callback of agent.Start, several of which may be under way. *)

\* A callback of node n goes on from stage s to stage t.
Moves(n, s, t) ==
    /\ callback[n][s] > 0
    /\ callback' = [callback EXCEPT ![n][s] = @ - 1, ![n][t] = @ + 1]

Ends(n, s) ==
    /\ callback[n][s] > 0
    /\ callback' = [callback EXCEPT ![n][s] = @ - 1]

\* tcp.leader = member.IsLeader, and the argument of f(member.IsLeader).  (The role
\* is read twice there; a change between the two reads is left out: it would only
\* tell OnLeader another role, and Binlog takes roles in any order.) ...
CallbackStart(n) ==
    /\ Moves(n, "start", IF member[n] THEN "tell leader" ELSE "tell follower")
    /\ tcpLeader' = [tcpLeader EXCEPT ![n] = member[n]]
    /\ UNCHANGED <<process, election, told, conn, consul, lapsed, used>>

\* ... with which the binlog service's OnLeader is called.  Then a node that
\* is not the leader by now starts to look for one.
CallbackTell(n) ==
    \E b \in BOOLEAN :
        LET s == IF b THEN "tell leader" ELSE "tell follower"
        IN  /\ told' = [told EXCEPT ![n] = b]
            /\ IF tcpLeader[n] THEN Ends(n, s) ELSE Moves(n, s, "find")
            /\ UNCHANGED <<process, election, tcpLeader, conn, consul, lapsed, used>>

\* GetServices(true): the services whose checks, if any, pass.
GetServices == {m \in Nodes : registry[m].check \in {"passing", "unchecked"}}

\* Get: one of them that is tagged as the leader.
Get == {m \in GetServices : registry[m].tag}

\* client.Connect: nothing if the client has a connection, be it dead, or if
\* nobody listens at the address.
Connect(n, m) ==
    \/ /\ conn[n] = None /\ alive[m] /\ closing[m] = "no"
       /\ conn' = [conn EXCEPT ![n] = m]
       /\ NoFailure
    \/ /\ conn[n] # None \/ ~alive[m] \/ closing[m] # "no"
       /\ UNCHANGED conn
       /\ NoFailure
    \/ UNCHANGED conn /\ RequestFails

\* Mutant: the check of Get's error is dropped.
CallbackConnectNobody(n) ==
    /\ Ends(n, "find")
    /\ \/ \E m \in Get : Connect(n, m)
       \/ Get = {} /\ conn' = [conn EXCEPT ![n] = "nobody"] /\ NoFailure
    /\ UNCHANGED <<process, election, tcpLeader, told, consul, lapsed>>

\* Wait until there is a leader, and try once to connect to it.
CallbackConnect(n) ==
    /\ Ends(n, "find")
    /\ \E m \in Get : Connect(n, m)
    /\ UNCHANGED <<process, election, tcpLeader, told, consul, lapsed>>

\* readMessage meets an error and disconnects; nothing connects again.
Disconnect(n) ==
    /\ alive[n] /\ conn[n] # None
    /\ IF conn[n] = Dead THEN UNCHANGED used ELSE Spend("drop")
    /\ conn' = [conn EXCEPT ![n] = None]
    /\ UNCHANGED <<process, election, callback, tcpLeader, told, consul, lapsed>>

-----------------------------------------------------------------------------
(* agent.Close and Leader.Free, after the binlog service has been closed.  *)
(* Select goes on until the process exits.                                 *)

CloseServer(n) ==
    /\ alive[n] /\ closing[n] = "no"
    /\ Spend("stop")
    /\ closing' = [closing EXCEPT ![n] = "deregister"]
    /\ conn' = [m \in Nodes |-> IF conn[m] = n THEN Dead ELSE conn[m]]
    /\ UNCHANGED <<alive, session, election, callback, tcpLeader, told, consul,
                   lapsed>>

FreeDeregister(n) ==
    /\ closing[n] = "deregister"
    /\ closing' = [closing EXCEPT ![n] = "delete"]
    /\ \/ registry' = [registry EXCEPT ![n] = NoEntry] /\ NoFailure
       \/ UNCHANGED registry /\ RequestFails
    /\ UNCHANGED <<alive, session, election, agent, valid, nextSession, lock,
                   lapsed>>

\* Mutant: a node that is not the leader deletes the key too.
FreeDeleteAlways(n) ==
    /\ closing[n] = "delete"
    /\ closing' = [closing EXCEPT ![n] = "flag"]
    /\ lock' = 0
    /\ NoFailure
    /\ UNCHANGED <<alive, session, election, agent, valid, nextSession,
                   registry, lapsed>>

\* A leader deletes the key, whoever holds it.
FreeDelete(n) ==
    /\ closing[n] = "delete"
    /\ closing' = [closing EXCEPT ![n] = IF leader[n] THEN "flag" ELSE "exit"]
    /\ \/ lock' = (IF leader[n] THEN 0 ELSE lock) /\ NoFailure
       \/ leader[n] /\ UNCHANGED lock /\ RequestFails
    /\ UNCHANGED <<alive, session, election, agent, valid, nextSession,
                   registry, lapsed>>

FreeFlag(n) ==
    /\ closing[n] = "flag"
    /\ closing' = [closing EXCEPT ![n] = "exit"]
    /\ leader' = [leader EXCEPT ![n] = FALSE]
    /\ UNCHANGED <<alive, session, select, member, registered, agent, consul,
                   lapsed, used>>

Exit(n) == closing[n] = "exit" /\ Gone(n)

-----------------------------------------------------------------------------
Select(n) == SelectFirst(n) \/ SelectLock(n) \/ Register(n)

Callback(n) ==
    CallbackStart(n) \/ CallbackTell(n) \/ CallbackConnect(n)

Close(n) == FreeDeregister(n) \/ FreeDelete(n) \/ FreeFlag(n) \/ Exit(n)

Next ==
    \/ \E n \in Nodes :
          \/ Boot(n) \/ Crash(n) \/ CloseServer(n) \/ Close(n)
          \/ Select(n) \/ Callback(n) \/ Disconnect(n)
          \/ Critical(n)
    \/ \E s \in valid : Expire(s)

Spec == Init /\ [][Next]_vars

\* A session whose process is gone.
Orphan(s) == s \in valid /\ Owner(s) = {} /\ Expire(s)

\* Goroutines that can run do; consul lets the sessions of dead processes
\* expire and fails the checks of dead services; a dead connection is noticed.
Fairness ==
    /\ \A n \in Nodes :
          /\ WF_vars(Select(n)) /\ WF_vars(Callback(n)) /\ WF_vars(Close(n))
          /\ WF_vars(conn[n] = Dead /\ Disconnect(n))
          /\ WF_vars(~alive[n] /\ Critical(n))
    /\ WF_vars(\E s \in valid : Orphan(s))

FairSpec == Spec /\ Fairness

-----------------------------------------------------------------------------
(* Properties. *)

ProcessOK ==
    /\ alive \in [Nodes -> BOOLEAN]
    /\ session \in [Nodes -> Nat]
    /\ closing \in [Nodes -> {"no", "deregister", "delete", "flag", "exit"}]

ElectionOK ==
    /\ select \in [Nodes -> {"first", "first register", "lock", "register"}]
    /\ leader \in [Nodes -> BOOLEAN]
    /\ member \in [Nodes -> BOOLEAN]
    /\ registered \in [Nodes -> BOOLEAN]

AgentOK ==
    /\ callback \in [Nodes -> [Stages -> Nat]]
    /\ tcpLeader \in [Nodes -> BOOLEAN]
    /\ told \in [Nodes -> BOOLEAN]
    /\ conn \in [Nodes -> Nodes \cup {None, Dead}]

ConsulOK ==
    /\ valid \subseteq Nat \ {0}
    /\ nextSession \in Nat \ {0}
    /\ lock \in Nat
    /\ registry \in [Nodes -> Entry]

\* Every variable keeps its type; in particular an agent client is connected to
\* a node or to none, and no callback goroutine ends twice.
TypeOK == /\ ProcessOK /\ ElectionOK /\ AgentOK /\ ConsulOK
          /\ lapsed \subseteq Nat /\ used \in [Bounded -> Nat]

\* Node n takes itself for the leader and its binlog service is not closed.
Leads(n) == alive[n] /\ leader[n] /\ closing[n] = "no"

AtMostOneLeader == \A m, n \in Nodes : Leads(m) /\ Leads(n) => m = n

\* Two nodes take themselves for the leader only after a session expired under
\* a live process: crashes, restarts, lost requests and Free, which deletes the
\* lock key by force, do not bring it about.
NoSplitBrain == lapsed = {} => AtMostOneLeader

\* A leader whose session is alive is the one that holds the lock: the flag the
\* Select loop keeps between two attempts is not stale.
LeaderHoldsLock ==
    lapsed = {} => \A n \in Nodes : Leads(n) => lock = session[n]

\* A node that is up and has a session.
Able(n) == alive[n] /\ session[n] \in valid /\ closing[n] = "no"

\* While some node is able to lead, the lock of a crashed or stopped leader does
\* not stay orphaned: in the end a node that is up leads and holds the lock.
ElectsLeader ==
    (\E n \in Nodes : Able(n)) ~>
        (\/ \E n \in Nodes : Leads(n) /\ lock = session[n]
         \/ ~ \E n \in Nodes : Able(n))
=============================================================================
