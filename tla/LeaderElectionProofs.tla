------------------------ MODULE LeaderElectionProofs ------------------------
(***************************************************************************)
(* Proofs about LeaderElection, for any set of nodes and any number of     *)
(* crashes, restarts, stops, failed requests and lost connections.         *)
(***************************************************************************)
EXTENDS LeaderElection, TLAPS

\* The types of the variables the argument is about.
CoreOK ==
    /\ ProcessOK
    /\ leader \in [Nodes -> BOOLEAN]
    /\ valid \subseteq Nat \ {0}
    /\ nextSession \in Nat \ {0}
    /\ lock \in Nat

\* A process that is gone has left nothing behind but what consul keeps.
DownOK ==
    \A n \in Nodes : ~alive[n] => session[n] = 0 /\ ~leader[n] /\ closing[n] = "no"

\* Consul hands out a session once.
SessionsOK ==
    /\ \A n \in Nodes : session[n] < nextSession
    /\ \A m, n \in Nodes : session[m] = session[n] /\ session[m] # 0 => m = n

\* Up to the moment Free deletes the key, a leader's session holds it.
BeforeDelete == {"no", "deregister", "delete"}

LockOK ==
    lapsed = {} =>
        \A n \in Nodes : leader[n] /\ closing[n] \in BeforeDelete =>
                             lock = session[n] /\ session[n] # 0

\* The inductive invariant.
LInv == CoreOK /\ DownOK /\ SessionsOK /\ LockOK

-----------------------------------------------------------------------------
core == <<alive, session, closing, leader, valid, nextSession, lock, lapsed>>

LEMMA CoreInit == Init => LInv
BY DEF Init, LInv, CoreOK, ProcessOK, DownOK, SessionsOK, LockOK, BeforeDelete

\* A step that leaves the sessions, the key and the flags alone.
LEMMA FrameCore == ASSUME LInv, UNCHANGED core PROVE LInv'
BY DEF core, LInv, CoreOK, ProcessOK, DownOK, SessionsOK, LockOK, BeforeDelete

LEMMA BootSafe == ASSUME LInv, NEW n \in Nodes, Boot(n) PROVE LInv'
<1> USE DEF LInv, CoreOK, ProcessOK
<1>0. UNCHANGED <<closing, leader, lock, lapsed>>
  BY DEF Boot, election
<1>1. /\ ~alive[n] /\ alive' = [alive EXCEPT ![n] = TRUE]
      /\ session[n] = 0 /\ ~leader[n]
  BY DEF Boot, DownOK
<1>2. CASE UNCHANGED <<session, valid, nextSession>>
  <2>1. CoreOK' /\ SessionsOK' /\ LockOK'
    BY <1>0, <1>1, <1>2 DEF SessionsOK, LockOK
  <2>2. DownOK'
    BY <1>0, <1>1, <1>2 DEF DownOK
  <2> QED
    BY <2>1, <2>2
<1>3. CASE /\ session' = [session EXCEPT ![n] = nextSession]
           /\ valid' = valid \cup {nextSession}
           /\ nextSession' = nextSession + 1
  <2>1. CoreOK'
    BY <1>0, <1>1, <1>3
  <2>2. DownOK'
    BY <1>0, <1>1, <1>3 DEF DownOK
  <2>3. SessionsOK'
    BY <1>3 DEF SessionsOK
  <2>4. LockOK'
    BY <1>0, <1>1, <1>3 DEF LockOK
  <2> QED
    BY <2>1, <2>2, <2>3, <2>4
<1> QED
  BY <1>2, <1>3 DEF Boot, CreateSession

LEMMA GoneSafe == ASSUME LInv, NEW n \in Nodes, Gone(n) PROVE LInv'
<1> USE DEF LInv, CoreOK, ProcessOK
<1>1. /\ UNCHANGED <<valid, nextSession, lock, lapsed>>
      /\ alive' = [alive EXCEPT ![n] = FALSE]
      /\ session' = [session EXCEPT ![n] = 0]
      /\ closing' = [closing EXCEPT ![n] = "no"]
      /\ leader' = [leader EXCEPT ![n] = FALSE]
  BY DEF Gone, consul
<1>2. CoreOK'
  BY <1>1
<1>3. DownOK'
  BY <1>1 DEF DownOK
<1>4. SessionsOK'
  BY <1>1 DEF SessionsOK
<1>5. LockOK'
  BY <1>1 DEF LockOK
<1> QED
  BY <1>2, <1>3, <1>4, <1>5

\* An expiry that takes the key from a leader is one under a live process.
LEMMA ExpireSafe == ASSUME LInv, NEW s \in valid, Expire(s) PROVE LInv'
<1> USE DEF LInv, CoreOK, ProcessOK
<1>1. /\ UNCHANGED <<alive, session, closing, leader, nextSession>>
      /\ valid' \subseteq valid
      /\ lock' = IF lock = s THEN 0 ELSE lock
  BY DEF Expire, process, election
<1>2. CoreOK'
  BY <1>1
<1>3. DownOK' /\ SessionsOK'
  BY <1>1 DEF DownOK, SessionsOK
<1>4. CASE lapsed' # {}
  BY <1>2, <1>3, <1>4 DEF LockOK
<1>5. CASE lapsed' = {}
  <2>1. Owner(s) = {} /\ lapsed = {}
    BY <1>5 DEF Expire
  <2>2. ASSUME NEW n \in Nodes, leader[n], closing[n] \in BeforeDelete
        PROVE  lock' = session[n] /\ session[n] # 0
    <3>1. alive[n]
      BY <2>2 DEF DownOK
    <3>2. session[n] # s
      BY <2>1, <3>1 DEF Owner
    <3>3. lock = session[n] /\ session[n] # 0
      BY <2>1, <2>2 DEF LockOK
    <3> QED
      BY <1>1, <3>2, <3>3
  <2>3. LockOK'
    BY <1>1, <2>2 DEF LockOK
  <2> QED
    BY <1>2, <1>3, <2>3
<1> QED
  BY <1>4, <1>5

\* The two attempts of Select: the flag follows the answer, and an answer lost
\* on the way takes the key from nobody.
LEMMA SelectSafe ==
    ASSUME LInv, NEW n \in Nodes, SelectFirst(n) \/ SelectLock(n) PROVE LInv'
<1> USE DEF LInv, CoreOK, ProcessOK
<1>1. UNCHANGED <<alive, session, closing, valid, nextSession, lapsed>> /\ alive[n]
  BY DEF SelectFirst, SelectLock, process
<1>2. \/ UNCHANGED leader
      \/ \E success \in BOOLEAN :
            /\ LockReturns(n, success)
            /\ leader' = [leader EXCEPT ![n] = success]
  BY Zenon DEF SelectFirst, SelectLock, NewRole
<1>3. \/ UNCHANGED lock
      \/ lock \in {0, session[n]} /\ lock' = session[n] /\ session[n] \in valid
  BY DEF SelectFirst, SelectLock, LockReturns, LockErrs, Acquires
<1>4. leader' \in [Nodes -> BOOLEAN]
  BY <1>2
<1>5. ASSUME NEW m \in Nodes \ {n} PROVE leader'[m] = leader[m]
  BY <1>2
<1>6. ASSUME leader'[n], ~leader[n] PROVE lock' = session[n] /\ session[n] \in valid
  <2>1. PICK success \in BOOLEAN : /\ LockReturns(n, success)
                                   /\ leader' = [leader EXCEPT ![n] = success]
    BY <1>2, <1>6
  <2>2. success
    BY <1>6, <2>1
  <2> QED
    BY <2>1, <2>2 DEF LockReturns
<1>7. CoreOK'
  BY <1>1, <1>3, <1>4
<1>8. DownOK'
  BY <1>1, <1>5 DEF DownOK
<1>9. SessionsOK'
  BY <1>1 DEF SessionsOK
<1>10. ASSUME lapsed = {}, NEW m \in Nodes, leader'[m], closing[m] \in BeforeDelete
       PROVE  lock' = session[m] /\ session[m] # 0
  <2>1. CASE leader[m]
    <3>1. lock = session[m] /\ session[m] # 0
      BY <1>10, <2>1 DEF LockOK
    <3> QED
      BY <1>3, <3>1
  <2>2. CASE ~leader[m]
    BY <1>5, <1>6, <1>10, <2>2
  <2> QED
    BY <2>1, <2>2
<1>11. LockOK'
  BY <1>1, <1>10 DEF LockOK
<1> QED
  BY <1>7, <1>8, <1>9, <1>11

\* Free: only the holder of the key is a leader, so only the holder deletes it.
LEMMA CloseSafe ==
    ASSUME LInv, NEW n \in Nodes,
           CloseServer(n) \/ FreeDeregister(n) \/ FreeDelete(n) \/ FreeFlag(n)
    PROVE  LInv'
<1> USE DEF LInv, CoreOK, ProcessOK
<1>1. CASE CloseServer(n) \/ FreeDeregister(n)
  <2>1. /\ UNCHANGED <<alive, session, leader, valid, nextSession, lock, lapsed>>
        /\ alive[n] /\ closing[n] \in BeforeDelete
        /\ \/ closing' = [closing EXCEPT ![n] = "deregister"]
           \/ closing' = [closing EXCEPT ![n] = "delete"]
    BY <1>1 DEF CloseServer, FreeDeregister, election, consul, DownOK, BeforeDelete
  <2>2. CoreOK' /\ DownOK' /\ SessionsOK'
    BY <2>1 DEF DownOK, SessionsOK
  <2>3. LockOK'
    BY <2>1 DEF LockOK, BeforeDelete
  <2> QED
    BY <2>2, <2>3
<1>2. CASE FreeDelete(n)
  <2>1. /\ UNCHANGED <<alive, session, leader, valid, nextSession, lapsed>>
        /\ alive[n] /\ closing[n] = "delete"
        /\ \/ closing' = [closing EXCEPT ![n] = "flag"]
           \/ closing' = [closing EXCEPT ![n] = "exit"]
        /\ lock' = lock \/ (leader[n] /\ lock' = 0)
    BY <1>2 DEF FreeDelete, election, DownOK
  <2>2. CoreOK' /\ DownOK' /\ SessionsOK'
    BY <2>1 DEF DownOK, SessionsOK
  <2>3. ASSUME lapsed = {}, NEW m \in Nodes, leader[m], closing'[m] \in BeforeDelete
        PROVE  lock' = session[m] /\ session[m] # 0
    <3>1. m # n /\ closing[m] \in BeforeDelete
      BY <2>1, <2>3 DEF BeforeDelete
    <3>2. lock = session[m] /\ session[m] # 0
      BY <2>3, <3>1 DEF LockOK
    <3>3. leader[n] => lock = session[n]
      BY <2>1, <2>3 DEF LockOK, BeforeDelete
    <3>4. ~leader[n]
      BY <3>1, <3>2, <3>3 DEF SessionsOK
    <3> QED
      BY <2>1, <3>2, <3>4
  <2>4. LockOK'
    BY <2>1, <2>3 DEF LockOK
  <2> QED
    BY <2>2, <2>4
<1>3. CASE FreeFlag(n)
  <2>1. /\ UNCHANGED <<alive, session, valid, nextSession, lock, lapsed>>
        /\ alive[n]
        /\ closing' = [closing EXCEPT ![n] = "exit"]
        /\ leader' = [leader EXCEPT ![n] = FALSE]
    BY <1>3 DEF FreeFlag, consul, DownOK
  <2>2. CoreOK' /\ DownOK' /\ SessionsOK'
    BY <2>1 DEF DownOK, SessionsOK
  <2>3. LockOK'
    BY <2>1 DEF LockOK, BeforeDelete
  <2> QED
    BY <2>2, <2>3
<1> QED
  BY <1>1, <1>2, <1>3

LEMMA CoreStep == LInv /\ [Next]_vars => LInv'
<1> SUFFICES ASSUME LInv, [Next]_vars PROVE LInv'
  OBVIOUS
<1>1. ASSUME NEW n \in Nodes, Boot(n) \/ Crash(n) \/ Exit(n) PROVE LInv'
  BY <1>1, BootSafe, GoneSafe DEF Crash, Exit
<1>2. ASSUME NEW n \in Nodes,
             CloseServer(n) \/ FreeDeregister(n) \/ FreeDelete(n) \/ FreeFlag(n)
      PROVE  LInv'
  BY <1>2, CloseSafe
<1>3. ASSUME NEW n \in Nodes, SelectFirst(n) \/ SelectLock(n) PROVE LInv'
  BY <1>3, SelectSafe
<1>4. ASSUME NEW n \in Nodes, Register(n) \/ Callback(n) \/ Disconnect(n) \/ Critical(n)
      PROVE  LInv'
  <2>1. UNCHANGED core
    BY <1>4, Zenon DEF Register, Callback, CallbackStart, CallbackTell,
       CallbackConnect, Disconnect, Critical, core, process, election, consul
  <2> QED
    BY <2>1, FrameCore
<1>5. ASSUME NEW s \in valid, Expire(s) PROVE LInv'
  BY <1>5, ExpireSafe
<1>6. CASE UNCHANGED vars
  BY <1>6, FrameCore DEF vars, core, process, election, consul
<1> QED
  BY <1>1, <1>2, <1>3, <1>4, <1>5, <1>6 DEF Next, Select, Close

\* A leader's flag is backed by the lock as long as consul keeps the sessions of
\* live processes, for any set of nodes.
THEOREM FlagBackedByLock == Spec => []LeaderHoldsLock
<1>1. LInv => LeaderHoldsLock
  BY DEF LInv, LockOK, LeaderHoldsLock, Leads, BeforeDelete
<1> QED
  BY <1>1, CoreInit, CoreStep, PTL DEF Spec

\* Two leaders need a session that expired under a live process.
THEOREM OneLeader == Spec => []NoSplitBrain
<1>1. LInv => NoSplitBrain
  <2> SUFFICES ASSUME LInv, lapsed = {}, NEW m \in Nodes, NEW n \in Nodes,
                      Leads(m), Leads(n)
               PROVE  m = n
    BY DEF NoSplitBrain, AtMostOneLeader
  <2>1. lock = session[m] /\ lock = session[n] /\ session[m] # 0
    BY DEF LInv, LockOK, Leads, BeforeDelete
  <2> QED
    BY <2>1 DEF LInv, SessionsOK
<1> QED
  BY <1>1, CoreInit, CoreStep, PTL DEF Spec

-----------------------------------------------------------------------------
(* Types. *)

LEMMA SpendType ==
    ASSUME used \in [Bounded -> Nat], NEW x \in Bounded, Spend(x)
    PROVE  used' \in [Bounded -> Nat]
BY DEF Spend

LEMMA FailureType ==
    ASSUME used \in [Bounded -> Nat], RequestFails \/ NoFailure
    PROVE  used' \in [Bounded -> Nat]
<1>1. "error" \in Bounded
  BY DEF Bounded
<1> QED
  BY <1>1, SpendType DEF RequestFails, NoFailure

LEMMA TypesInit == Init => TypeOK
<1> SUFFICES ASSUME Init PROVE TypeOK
  OBVIOUS
<1>1. ProcessOK /\ ElectionOK
  BY DEF Init, ProcessOK, ElectionOK
<1>2. AgentOK
  BY DEF Init, AgentOK, NoCallbacks
<1>3. ConsulOK
  BY DEF Init, ConsulOK, Entry
<1>4. lapsed \subseteq Nat /\ used \in [Bounded -> Nat]
  BY DEF Init
<1> QED
  BY <1>1, <1>2, <1>3, <1>4 DEF TypeOK

LEMMA BootTypes == ASSUME TypeOK, NEW n \in Nodes, Boot(n) PROVE TypeOK'
<1>0. UNCHANGED <<closing, select, leader, member, registered, callback, tcpLeader, told,
                  conn, lock, registry, lapsed>>
  BY DEF Boot, election, agent
<1>1. alive' = [alive EXCEPT ![n] = TRUE]
  BY DEF Boot
<1>2. /\ session' \in [Nodes -> Nat] /\ valid' \subseteq Nat \ {0}
      /\ nextSession' \in Nat \ {0}
  <2>1. CASE UNCHANGED <<session, valid, nextSession>>
    BY <2>1 DEF TypeOK, ProcessOK, ConsulOK
  <2>2. CASE CreateSession(n)
    BY <2>2 DEF CreateSession, TypeOK, ProcessOK, ConsulOK
  <2> QED
    BY <2>1, <2>2 DEF Boot
<1>3. used' \in [Bounded -> Nat]
  BY DEF Boot, TypeOK, Bounded
<1>4. ProcessOK'
  BY <1>0, <1>1, <1>2 DEF TypeOK, ProcessOK
<1>5. ElectionOK' /\ AgentOK' /\ ConsulOK' /\ lapsed' \subseteq Nat
  BY <1>0, <1>2 DEF TypeOK, ElectionOK, AgentOK, ConsulOK
<1> QED
  BY <1>3, <1>4, <1>5 DEF TypeOK

LEMMA GoneTypes == ASSUME TypeOK, NEW n \in Nodes, Gone(n) PROVE TypeOK'
<1>0. UNCHANGED <<valid, nextSession, lock, registry, lapsed, used>>
  BY DEF Gone, consul
<1>1. ProcessOK'
  BY DEF Gone, TypeOK, ProcessOK
<1>2. ElectionOK'
  BY DEF Gone, TypeOK, ElectionOK
<1>3. AgentOK'
  <2>1. callback' \in [Nodes -> [Stages -> Nat]]
    <3>1. NoCallbacks \in [Stages -> Nat]
      BY DEF NoCallbacks
    <3> QED
      BY <3>1 DEF Gone, TypeOK, AgentOK
  <2>2. tcpLeader' \in [Nodes -> BOOLEAN] /\ told' \in [Nodes -> BOOLEAN]
    BY DEF Gone, TypeOK, AgentOK
  <2>3. conn' \in [Nodes -> Nodes \cup {None, Dead}]
    BY DEF Gone, TypeOK, AgentOK
  <2> QED
    BY <2>1, <2>2, <2>3 DEF AgentOK
<1> QED
  BY <1>0, <1>1, <1>2, <1>3 DEF TypeOK, ConsulOK

LEMMA ExpireTypes == ASSUME TypeOK, NEW s \in valid, Expire(s) PROVE TypeOK'
<1>0. UNCHANGED <<process, election, agent, nextSession, registry>>
  BY DEF Expire
<1>1. ConsulOK'
  BY <1>0 DEF Expire, TypeOK, ConsulOK
<1>2. lapsed' \subseteq Nat
  <2>1. s \in Nat /\ lapsed \subseteq Nat
    BY DEF TypeOK, ConsulOK
  <2>2. lapsed' = lapsed \/ lapsed' = lapsed \cup {s}
    BY DEF Expire
  <2> QED
    BY <2>1, <2>2
<1>3. used' \in [Bounded -> Nat]
  <2>1. "expire" \in Bounded
    BY DEF Bounded
  <2> QED
    BY <2>1, SpendType DEF Expire, TypeOK
<1>4. ProcessOK' /\ ElectionOK' /\ AgentOK'
  BY <1>0 DEF process, election, agent, TypeOK, ProcessOK, ElectionOK, AgentOK
<1> QED
  BY <1>1, <1>2, <1>3, <1>4 DEF TypeOK

LEMMA CriticalTypes == ASSUME TypeOK, NEW n \in Nodes, Critical(n) PROVE TypeOK'
<1>0. UNCHANGED <<process, election, agent, valid, nextSession, lock, lapsed>>
  BY DEF Critical
<1>1. registry' \in [Nodes -> Entry]
  <2>1. registry[n] \in Entry /\ registry[n].check = "passing"
    BY DEF Critical, TypeOK, ConsulOK
  <2>2. [registry[n] EXCEPT !.check = "critical"] \in Entry
    BY <2>1 DEF Entry, NoEntry
  <2> QED
    BY <2>2 DEF Critical, TypeOK, ConsulOK
<1>2. used' \in [Bounded -> Nat]
  <2>1. "expire" \in Bounded
    BY DEF Bounded
  <2> QED
    BY <2>1, SpendType DEF Critical, TypeOK
<1>3. ProcessOK' /\ ElectionOK' /\ AgentOK'
  BY <1>0 DEF process, election, agent, TypeOK, ProcessOK, ElectionOK, AgentOK
<1> QED
  BY <1>0, <1>1, <1>2, <1>3 DEF TypeOK, ConsulOK

\* A turn of the loop leaves an entry an entry.
LEMMA RenewedType ==
    ASSUME NEW n \in Nodes, NEW reg \in [Nodes -> Entry]
    PROVE  Renewed(reg, n) \in [Nodes -> Entry]
<1>1. CASE reg[n].check = "critical"
  <2>1. [reg[n] EXCEPT !.check = "passing"] \in Entry
    BY <1>1 DEF Entry, NoEntry
  <2> QED
    BY <2>1 DEF Renewed
<1>2. CASE reg[n].check # "critical"
  BY <1>2 DEF Renewed
<1> QED
  BY <1>1, <1>2

LEMMA LockTypes ==
    ASSUME TypeOK, NEW n \in Nodes, (\E b \in BOOLEAN : LockReturns(n, b)) \/ LockErrs(n)
    PROVE  lock' \in Nat /\ used' \in [Bounded -> Nat]
<1>1. session[n] \in Nat /\ lock \in Nat /\ used \in [Bounded -> Nat]
  BY DEF TypeOK, ProcessOK, ConsulOK
<1>2. RequestFails \/ NoFailure
  BY DEF LockReturns, LockErrs
<1>3. lock' \in {lock, session[n]}
  BY DEF LockReturns, LockErrs
<1> QED
  BY <1>1, <1>2, <1>3, FailureType

LEMMA RoleTypes ==
    ASSUME TypeOK, NEW n \in Nodes, NEW b \in BOOLEAN, NewRole(n, b)
    PROVE  /\ leader' \in [Nodes -> BOOLEAN] /\ member' \in [Nodes -> BOOLEAN]
           /\ callback' \in [Nodes -> [Stages -> Nat]]
<1>1. leader' \in [Nodes -> BOOLEAN] /\ member' \in [Nodes -> BOOLEAN]
  BY DEF NewRole, TypeOK, ElectionOK
<1>2. callback' \in [Nodes -> [Stages -> Nat]]
  <2> DEFINE row == [callback[n] EXCEPT !["start"] = @ + 1]
  <2>1. callback \in [Nodes -> [Stages -> Nat]] /\ callback[n] \in [Stages -> Nat]
    BY DEF TypeOK, AgentOK
  <2>2. "start" \in Stages
    BY DEF Stages
  <2>3. row \in [Stages -> Nat]
    BY <2>1, <2>2
  <2>4. callback' = [callback EXCEPT ![n] = row]
    BY <2>1 DEF NewRole
  <2> HIDE DEF row
  <2> QED
    BY <2>1, <2>3, <2>4
<1> QED
  BY <1>1, <1>2

LEMMA SelectTypes == ASSUME TypeOK, NEW n \in Nodes, Select(n) PROVE TypeOK'
<1>0. /\ UNCHANGED <<alive, session, closing, tcpLeader, told, conn, valid, nextSession, lapsed>>
  BY DEF Select, SelectFirst, SelectLock, Register, process, agent
<1>1. CASE SelectFirst(n)
  <2>1. UNCHANGED <<registered, registry>>
    BY <1>1 DEF SelectFirst
  <2>2. lock' \in Nat /\ used' \in [Bounded -> Nat]
    BY <1>1, LockTypes DEF SelectFirst
  <2>3. select' \in [Nodes -> {"first", "first register", "lock", "register"}]
    BY <1>1 DEF SelectFirst, TypeOK, ElectionOK
  <2>4. /\ leader' \in [Nodes -> BOOLEAN] /\ member' \in [Nodes -> BOOLEAN]
        /\ callback' \in [Nodes -> [Stages -> Nat]]
    <3>1. CASE UNCHANGED <<leader, member, callback>>
      BY <3>1 DEF TypeOK, ElectionOK, AgentOK
    <3> QED
      BY <1>1, <3>1, RoleTypes DEF SelectFirst
  <2> QED
    BY <1>0, <2>1, <2>2, <2>3, <2>4 DEF TypeOK, ProcessOK, ElectionOK, AgentOK, ConsulOK
<1>2. CASE SelectLock(n)
  <2>1. UNCHANGED registered
    BY <1>2 DEF SelectLock
  <2>2. lock' \in Nat /\ used' \in [Bounded -> Nat]
    <3>1. leader[n] \in BOOLEAN
      BY DEF TypeOK, ElectionOK
    <3> QED
      BY <1>2, <3>1, LockTypes DEF SelectLock
  <2>3. select' \in [Nodes -> {"first", "first register", "lock", "register"}]
    BY <1>2 DEF SelectLock, TypeOK, ElectionOK
  <2>4. /\ leader' \in [Nodes -> BOOLEAN] /\ member' \in [Nodes -> BOOLEAN]
        /\ callback' \in [Nodes -> [Stages -> Nat]]
    <3>1. CASE UNCHANGED <<leader, member, callback>>
      BY <3>1 DEF TypeOK, ElectionOK, AgentOK
    <3> QED
      BY <1>2, <3>1, RoleTypes DEF SelectLock
  <2>5. registry' \in [Nodes -> Entry]
    <3>1. registry \in [Nodes -> Entry]
      BY DEF TypeOK, ConsulOK
    <3> QED
      BY <1>2, <3>1, RenewedType DEF SelectLock
  <2> QED
    BY <1>0, <2>1, <2>2, <2>3, <2>4, <2>5 DEF TypeOK, ProcessOK, ElectionOK, AgentOK, ConsulOK
<1>3. CASE Register(n)
  <2> DEFINE old == registry[n].check
             R(check) == [registry EXCEPT ![n] = [check |-> check, tag |-> member[n]]]
             partial == R(IF old = "none" THEN "unchecked" ELSE old)
  <2>1. UNCHANGED <<leader, member, callback, lock>>
    BY <1>3 DEF Register, agent
  <2>2. select' \in [Nodes -> {"first", "first register", "lock", "register"}]
        /\ registered' \in [Nodes -> BOOLEAN]
    BY <1>3 DEF Register, TypeOK, ElectionOK
  <2>3. used' \in [Bounded -> Nat]
    <3>1. RequestFails \/ NoFailure
      BY <1>3 DEF Register
    <3> QED
      BY <3>1, FailureType DEF TypeOK
  <2>4. registry \in [Nodes -> Entry] /\ member[n] \in BOOLEAN /\ registry[n] \in Entry
    BY DEF TypeOK, ConsulOK, ElectionOK
  <2>5. \A check \in {"unchecked", "passing", "critical"} : R(check) \in [Nodes -> Entry]
    BY <2>4 DEF Entry
  <2>6. (IF old = "none" THEN "unchecked" ELSE old) \in {"unchecked", "passing", "critical"}
    BY <2>4 DEF Entry, NoEntry
  <2>7. partial \in [Nodes -> Entry] /\ R("passing") \in [Nodes -> Entry]
    BY <2>5, <2>6
  <2>8. \/ registry' = R("passing")
        \/ \E reg \in {registry, partial} : registry' = Renewed(reg, n) \/ registry' = reg
    BY <1>3 DEF Register
  <2> HIDE DEF partial, R
  <2>9. registry' \in [Nodes -> Entry]
    BY <2>4, <2>7, <2>8, RenewedType
  <2> QED
    BY <1>0, <2>1, <2>2, <2>3, <2>9 DEF TypeOK, ProcessOK, ElectionOK, AgentOK, ConsulOK
<1> QED
  BY <1>1, <1>2, <1>3 DEF Select

LEMMA StageTypes ==
    ASSUME TypeOK, NEW n \in Nodes, NEW s \in Stages, NEW t \in Stages,
           Moves(n, s, t) \/ Ends(n, s)
    PROVE  callback' \in [Nodes -> [Stages -> Nat]]
<1>1. callback \in [Nodes -> [Stages -> Nat]] /\ callback[n] \in [Stages -> Nat]
      /\ callback[n][s] \in Nat /\ callback[n][s] > 0
  BY DEF TypeOK, AgentOK, Moves, Ends
<1>2. CASE Ends(n, s)
  BY <1>1, <1>2 DEF Ends
<1>3. CASE Moves(n, s, t)
  BY <1>1, <1>3 DEF Moves
<1> QED
  BY <1>2, <1>3

LEMMA CallbackTypes == ASSUME TypeOK, NEW n \in Nodes, Callback(n) PROVE TypeOK'
<1>0. UNCHANGED <<process, election, consul, lapsed>>
  BY DEF Callback, CallbackStart, CallbackTell, CallbackConnect
<1>1. ProcessOK' /\ ElectionOK' /\ ConsulOK' /\ lapsed' \subseteq Nat
  BY <1>0 DEF process, election, consul, TypeOK, ProcessOK, ElectionOK, ConsulOK
<1>2. "start" \in Stages /\ "tell leader" \in Stages /\ "tell follower" \in Stages
      /\ "find" \in Stages
  BY DEF Stages
<1>3. callback' \in [Nodes -> [Stages -> Nat]]
  <2>1. CASE CallbackStart(n)
    BY <1>2, <2>1, StageTypes DEF CallbackStart
  <2>2. CASE CallbackTell(n)
    BY <1>2, <2>2, StageTypes DEF CallbackTell
  <2>3. CASE CallbackConnect(n)
    BY <1>2, <2>3, StageTypes DEF CallbackConnect
  <2> QED
    BY <2>1, <2>2, <2>3 DEF Callback
<1>4. tcpLeader' \in [Nodes -> BOOLEAN]
  BY DEF Callback, CallbackStart, CallbackTell, CallbackConnect, TypeOK, AgentOK, ElectionOK
<1>5. told' \in [Nodes -> BOOLEAN]
  BY DEF Callback, CallbackStart, CallbackTell, CallbackConnect, TypeOK, AgentOK
<1>6. conn' \in [Nodes -> Nodes \cup {None, Dead}]
  BY DEF Callback, CallbackStart, CallbackTell, CallbackConnect, Get, GetServices, Connect,
     TypeOK, AgentOK
<1>7. used' \in [Bounded -> Nat]
  <2>1. RequestFails \/ NoFailure
    BY DEF Callback, CallbackStart, CallbackTell, CallbackConnect, Connect, NoFailure
  <2> QED
    BY <2>1, FailureType DEF TypeOK
<1> QED
  BY <1>1, <1>3, <1>4, <1>5, <1>6, <1>7 DEF TypeOK, AgentOK

LEMMA CloseTypes ==
    ASSUME TypeOK, NEW n \in Nodes,
           CloseServer(n) \/ FreeDeregister(n) \/ FreeDelete(n) \/ FreeFlag(n) \/ Disconnect(n)
    PROVE  TypeOK'
<1>0. UNCHANGED <<alive, session, select, member, registered, callback, tcpLeader, told, valid,
                  nextSession, lapsed>>
  BY DEF CloseServer, FreeDeregister, FreeDelete, FreeFlag, Disconnect, process, election,
     agent, consul
<1>1. closing' \in [Nodes -> {"no", "deregister", "delete", "flag", "exit"}]
  BY DEF CloseServer, FreeDeregister, FreeDelete, FreeFlag, Disconnect, process, TypeOK,
     ProcessOK
<1>2. leader' \in [Nodes -> BOOLEAN]
  BY DEF CloseServer, FreeDeregister, FreeDelete, FreeFlag, Disconnect, election, TypeOK,
     ElectionOK
<1>3. conn' \in [Nodes -> Nodes \cup {None, Dead}]
  <2>1. CASE CloseServer(n) \/ Disconnect(n)
    BY <2>1 DEF CloseServer, Disconnect, TypeOK, AgentOK
  <2>2. CASE UNCHANGED conn
    BY <2>2 DEF TypeOK, AgentOK
  <2> QED
    BY <2>1, <2>2 DEF FreeDeregister, FreeDelete, FreeFlag, agent
<1>4. lock' \in Nat
  BY DEF CloseServer, FreeDeregister, FreeDelete, FreeFlag, Disconnect, consul, TypeOK, ConsulOK
<1>5. registry' \in [Nodes -> Entry]
  BY DEF CloseServer, FreeDeregister, FreeDelete, FreeFlag, Disconnect, consul, TypeOK,
     ConsulOK, Entry
<1>6. used' \in [Bounded -> Nat]
  <2>1. "stop" \in Bounded /\ "drop" \in Bounded /\ used \in [Bounded -> Nat]
    BY DEF Bounded, TypeOK
  <2>2. RequestFails \/ NoFailure \/ Spend("stop") \/ Spend("drop")
    BY DEF CloseServer, FreeDeregister, FreeDelete, FreeFlag, Disconnect, NoFailure
  <2> QED
    BY <2>1, <2>2, SpendType, FailureType
<1> QED
  BY <1>0, <1>1, <1>2, <1>3, <1>4, <1>5, <1>6 DEF TypeOK, ProcessOK, ElectionOK, AgentOK, ConsulOK

\* Every variable keeps its type: a client is connected to a node or to none, a
\* callback goroutine ends once, consul's entries stay entries.
THEOREM ElectionTypes == Spec => []TypeOK
<1>1. ASSUME TypeOK, Next PROVE TypeOK'
  <2>1. ASSUME NEW n \in Nodes, Boot(n) \/ Crash(n) \/ Exit(n) PROVE TypeOK'
    BY <1>1, <2>1, BootTypes, GoneTypes DEF Crash, Exit
  <2>2. ASSUME NEW n \in Nodes, CloseServer(n) \/ FreeDeregister(n) \/ FreeDelete(n)
                                \/ FreeFlag(n) \/ Disconnect(n)
        PROVE  TypeOK'
    BY <1>1, <2>2, CloseTypes
  <2>3. ASSUME NEW n \in Nodes, Select(n) \/ Callback(n) \/ Critical(n) PROVE TypeOK'
    BY <1>1, <2>3, SelectTypes, CallbackTypes, CriticalTypes
  <2>4. ASSUME NEW s \in valid, Expire(s) PROVE TypeOK'
    BY <1>1, <2>4, ExpireTypes
  <2> QED
    BY <1>1, <2>1, <2>2, <2>3, <2>4 DEF Next, Close
<1>2. ASSUME TypeOK, UNCHANGED vars PROVE TypeOK'
  BY <1>2 DEF vars, process, election, agent, consul, TypeOK, ProcessOK, ElectionOK, AgentOK,
     ConsulOK
<1> QED
  BY <1>1, <1>2, TypesInit, PTL DEF Spec
=============================================================================
