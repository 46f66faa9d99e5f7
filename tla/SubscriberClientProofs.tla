----------------------- MODULE SubscriberClientProofs -----------------------
(***************************************************************************)
(* Proofs about SubscriberClient, for any servers and topics and any number *)
(* of broken connections, watcher's events and calls: its five invariants. *)
(***************************************************************************)
EXTENDS SubscriberClient, TLAPS

\* A topic the node has not been told is the one Subscribe is about to write or
\* one connect still has to.
TopicsPending ==
    node.conn = "open" /\ start.at # "range" =>
        \A t \in topics : \/ t \in node.known \/ t = subscribe
                          \/ start.at = "announce" /\ t \in start.left

\* A connection that is not closed belongs to a node that is online: the next
\* connect closes it.
OnlineWhileOpen == (node.conn \in {"open", "broken"} => node.online) /\ ~leaked

\* While start is busy with a server the node is that server's, and a connection
\* that is no longer open was lost.
LostNoted ==
    /\ start.at \in {"range", "announce", "check", "read"} => node.server = start.server
    /\ node.conn \in {"broken", "closed"} => node.server \in lost
    /\ start.at = "offline" => start.server \in lost
    /\ \A s \in Servers : services[s] = "off" => s \in lost

\* After a Close with no other server to turn to, start finds none: until it has
\* marked its own server offline it is on the way to do so.
NowhereToGo ==
    alone =>
        /\ node.conn # "open"
        /\ start.at \in {"top", "choose", "read", "offline", "ended"}
        /\ start.at \in {"top", "choose"} => start.server = None
        /\ \A s \in Servers : services[s] = "on" => s = start.server /\ start.own

\* The inductive invariant.
CInv == TypeOK /\ TopicsPending /\ OnlineWhileOpen /\ LostNoted /\ NowhereToGo

-----------------------------------------------------------------------------
LEMMA CInit == Init => CInv
<1> SUFFICES ASSUME Init PROVE CInv
  OBVIOUS
<1> USE SubscriberClientAssumption DEF Init
<1>1. NodeOK
  BY DEF NodeOK, NodeType, NilNode
<1>2. StartOK
  BY DEF StartOK, StartType, AtTop
<1>3. TypeOK
  BY <1>1, <1>2 DEF TypeOK
<1>4. TopicsPending /\ OnlineWhileOpen /\ LostNoted /\ NowhereToGo
  BY DEF TopicsPending, OnlineWhileOpen, LostNoted, NowhereToGo, NilNode, AtTop
<1> QED
  BY <1>3, <1>4 DEF CInv

\* disconnect closes a connection and leaves a node without one alone.
LEMMA Disconnected ==
    ASSUME TypeOK, disconnect, UNCHANGED topics
    PROVE  /\ NodeOK' /\ lost' \subseteq Servers
           /\ node'.server = node.server /\ node'.known = node.known
           /\ node.online => node'.conn = "closed" /\ lost' = lost \cup {node.server}
           /\ ~node.online => node' = node /\ lost' = lost
           /\ ~node'.online
<1>1. CASE node.online
  BY <1>1 DEF TypeOK, NodeOK, NodeType, disconnect
<1>2. CASE ~node.online
  BY <1>2 DEF TypeOK, NodeOK, NodeType, disconnect
<1> QED
  BY <1>1, <1>2

\* A write changes what the node was told, and only on an open connection.
LEMMA WrittenOK ==
    ASSUME TypeOK, NEW t \in topics, node' = Written(t), UNCHANGED topics
    PROVE  /\ NodeOK'
           /\ node'.server = node.server /\ node'.conn = node.conn
           /\ node'.online = node.online
           /\ node.known \subseteq node'.known
           /\ node.conn = "open" => t \in node'.known
<1>1. CASE node.conn = "open"
  BY <1>1 DEF TypeOK, NodeOK, NodeType, Written
<1>2. CASE node.conn # "open"
  BY <1>2 DEF TypeOK, NodeOK, NodeType, Written
<1> QED
  BY <1>1, <1>2

\* start is at the top of its loop again.
LEMMA TopOK == ASSUME start' = AtTop PROVE StartOK'
<1>1. start'.at = "top" /\ start'.server = None
  BY DEF AtTop
<1>2. start' \in StartType'
  BY DEF AtTop, StartType
<1> QED
  BY <1>1, <1>2 DEF StartOK

LEMMA TopIs == ASSUME start' = AtTop PROVE start'.at = "top" /\ start'.server = None
BY DEF AtTop

\* getServer begins with a server, or with none.
LEMMA FoundOK == ASSUME TypeOK, getServer PROVE StartOK' /\ start'.at = "choose"
<1>1. ASSUME NEW s \in On,
             start' = [start EXCEPT !.at = "choose", !.server = s, !.own = TRUE]
      PROVE  StartOK' /\ start'.at = "choose"
  <2>1. s \in Servers /\ topics' = topics
    BY DEF On, getServer
  <2>2. start'.at = "choose"
    BY <1>1 DEF TypeOK, StartOK, StartType
  <2>3. start' \in StartType'
    BY <1>1, <2>1 DEF TypeOK, StartOK, StartType
  <2> QED
    BY <2>2, <2>3 DEF StartOK
<1>2. CASE start' = [start EXCEPT !.at = "choose"]
  BY <1>2 DEF TypeOK, StartOK, StartType, getServer
<1> QED
  BY <1>1, <1>2 DEF getServer

\* It ends with one, or with none.
LEMMA ChosenOK ==
    ASSUME TypeOK, getServerChoose
    PROVE  /\ StartOK'
           /\ start' = AtTop \/ (start.server # None /\ start'.at = "connect")
<1>1. CASE start' = AtTop
  BY <1>1, TopOK
<1>2. ASSUME start.server # None, NEW s \in Servers, NEW o \in BOOLEAN,
             start' = [start EXCEPT !.at = "connect", !.server = s, !.own = o]
      PROVE  StartOK' /\ start'.at = "connect"
  <2>1. start'.server = s /\ start'.at = "connect" /\ topics' = topics
    BY <1>2 DEF TypeOK, StartOK, StartType, getServerChoose
  <2>2. start' \in StartType'
    BY <1>2, <2>1 DEF TypeOK, StartOK, StartType
  <2> QED
    BY <2>1, <2>2 DEF StartOK
<1>3. CASE start.server # None /\ start' = [start EXCEPT !.at = "connect"]
  <2>1. /\ start.server \in Servers /\ start.own \in BOOLEAN
        /\ start' = [start EXCEPT !.at = "connect", !.server = start.server,
                                  !.own = start.own]
    BY <1>3 DEF TypeOK, StartOK, StartType
  <2> QED
    BY <1>3, <2>1, <1>2
<1>4. CASE /\ start.server # None
           /\ \E s \in On : start' = [start EXCEPT !.at = "connect", !.server = s,
                                                  !.own = TRUE]
  BY <1>4, <1>2 DEF On
<1> QED
  BY <1>1, <1>3, <1>4 DEF getServerChoose

LEMMA CheckedOK == ASSUME TypeOK, startCheck PROVE StartOK'
<1>1. CASE start' = AtTop
  BY <1>1, TopOK
<1>2. ASSUME NEW a \in {"read", "ended"}, start' = [start EXCEPT !.at = a]
      PROVE  StartOK'
  <2>1. start'.at = a /\ start'.server = start.server /\ start.server \in Servers
    BY <1>2 DEF TypeOK, StartOK, StartType, startCheck
  <2>2. start' \in StartType'
    BY <1>2 DEF TypeOK, StartOK, StartType, startCheck
  <2> QED
    BY <2>1, <2>2 DEF StartOK
<1> QED
  BY <1>1, <1>2 DEF startCheck

\* What is not touched keeps its type.
LEMMA NodeKept == ASSUME NodeOK, UNCHANGED <<node, topics>> PROVE NodeOK'
BY DEF NodeOK, NodeType

LEMMA StartKept == ASSUME StartOK, UNCHANGED <<start, topics>> PROVE StartOK'
BY DEF StartOK, StartType

\* A step keeps the types.
LEMMA TypeStep == ASSUME TypeOK, Next PROVE TypeOK'
<1> USE SubscriberClientAssumption DEF history, TypeOK, NodeOK, NodeType, StartOK,
    StartType
<1>1. CASE getServer
  <2>1. StartOK'
    BY <1>1, FoundOK
  <2> QED
    BY <1>1, <2>1 DEF getServer
<1>2. CASE getServerChoose
  <2>1. StartOK'
    BY <1>2, ChosenOK
  <2>2. panicked' \in BOOLEAN
    BY <1>2 DEF getServerChoose
  <2> QED
    BY <1>2, <2>1, <2>2 DEF getServerChoose
<1>3. CASE connectFails
  <2>1. node' = [server |-> start.server, conn |-> "none", online |-> FALSE, known |-> {}]
    BY <1>3 DEF connectFails, NilNode
  <2>2. start.server \in Servers
    BY <1>3 DEF connectFails
  <2>3. node' \in NodeType'
    BY <2>1, <2>2
  <2>4. ~node'.online /\ node'.conn = "none"
    BY <2>1
  <2>5. NodeOK'
    BY <2>3, <2>4
  <2>6. StartOK'
    BY <1>3, TopOK DEF connectFails
  <2> QED
    BY <1>3, <2>5, <2>6 DEF connectFails, connectReplaces
<1>4. CASE connectUnresolved
  <2>1. StartOK'
    BY <1>4, TopOK DEF connectUnresolved
  <2> QED
    BY <1>4, <2>1, Disconnected DEF connectUnresolved
<1>5. CASE connect
  BY <1>5 DEF connect, connectReplaces
<1>6. CASE connectRange
  BY <1>6 DEF connectRange
<1>7. CASE connectAnnounce
  BY <1>7 DEF connectAnnounce, Written
<1>8. CASE startCheck
  <2>1. StartOK'
    BY <1>8, CheckedOK
  <2> HIDE DEF NodeOK, NodeType, StartOK, StartType
  <2>2. NodeOK'
    BY <1>8, NodeKept DEF startCheck
  <2>3. returned' \in BOOLEAN
    BY <1>8 DEF startCheck
  <2> QED
    BY <1>8, <2>1, <2>2, <2>3 DEF startCheck
<1>9. CASE startReadFails
  <2>1. StartOK'
    BY <1>9 DEF startReadFails
  <2> HIDE DEF NodeOK, NodeType, StartOK, StartType
  <2>2. NodeOK' /\ lost' \subseteq Servers
    BY <1>9, Disconnected DEF startReadFails
  <2> QED
    BY <1>9, <2>1, <2>2 DEF startReadFails
<1>10. CASE startOffline
  BY <1>10 DEF startOffline, AtTop
<1>11. CASE startRead
  BY <1>11 DEF startRead
<1>12. CASE keepalive
  BY <1>12 DEF keepalive
<1>13. CASE keepaliveWrite
  <2> HIDE DEF NodeOK, NodeType, StartOK, StartType
  <2>1. NodeOK' /\ StartOK'
    BY <1>13, NodeKept, StartKept DEF keepaliveWrite
  <2>2. keep' \in {"idle", "write", "failed"}
    BY <1>13 DEF keepaliveWrite
  <2>3. panicked' \in BOOLEAN
    BY <1>13 DEF keepaliveWrite
  <2> QED
    BY <1>13, <2>1, <2>2, <2>3 DEF keepaliveWrite
<1>14. CASE keepaliveFailed
  <2> QED
    BY <1>14, Disconnected DEF keepaliveFailed
<1>15. CASE Subscribe
  BY <1>15 DEF Subscribe
<1>16. CASE SubscribeWrite
  <2>1. NodeOK'
    BY <1>16, WrittenOK DEF SubscribeWrite
  <2> HIDE DEF NodeOK, NodeType, StartOK, StartType
  <2>2. StartOK'
    BY <1>16, StartKept DEF SubscribeWrite
  <2>3. panicked' \in BOOLEAN
    BY <1>16 DEF SubscribeWrite
  <2> QED
    BY <1>16, <2>1, <2>2, <2>3 DEF SubscribeWrite
<1>17. CASE Close
  <2>1. NodeOK' /\ lost' \subseteq Servers
    BY <1>17, Disconnected DEF Close
  <2>2. alone' \in BOOLEAN
    BY <1>17 DEF Close, Alone
  <2> QED
    BY <1>17, <2>1, <2>2 DEF Close
<1>18. CASE CloseStatus
  <2> HIDE DEF NodeOK, NodeType, StartOK, StartType
  <2>1. NodeOK' /\ StartOK'
    BY <1>18, NodeKept, StartKept DEF CloseStatus
  <2> QED
    BY <1>18, <2>1 DEF CloseStatus
<1>19. ASSUME NEW s \in Servers, onWatchDelete(s) PROVE TypeOK'
  <2>1. StartOK'
    BY <1>19 DEF onWatchDelete
  <2> HIDE DEF NodeOK, NodeType, StartOK, StartType
  <2>2. NodeOK'
    BY <1>19, NodeKept DEF onWatchDelete
  <2>3. services' \in [Servers -> {"absent", "on", "off"}]
    BY <1>19 DEF onWatchDelete
  <2>4. panicked' \in BOOLEAN
    BY <1>19 DEF onWatchDelete, Races
  <2> QED
    BY <1>19, <2>1, <2>2, <2>3, <2>4 DEF onWatchDelete
<1>20. ASSUME NEW s \in Servers, onWatchAdd(s) PROVE TypeOK'
  <2>1. services' \in [Servers -> {"absent", "on", "off"}]
    BY <1>20 DEF onWatchAdd
  <2>2. panicked' \in BOOLEAN
    BY <1>20 DEF onWatchAdd, Races
  <2>3. alone' \in BOOLEAN
    BY <1>20 DEF onWatchAdd
  <2>4. {online, returned, panicked, alone, leaked}' \subseteq BOOLEAN
    BY <1>20, <2>2, <2>3 DEF onWatchAdd
  <2> QED
    BY <1>20, <2>1, <2>4 DEF onWatchAdd
<1>21. ASSUME NEW s \in Servers, ServerChange(s) PROVE TypeOK'
  BY <1>21 DEF ServerChange
<1>22. CASE Break
  BY <1>22 DEF Break
<1> QED
  BY <1>1, <1>2, <1>3, <1>4, <1>5, <1>6, <1>7, <1>8, <1>9, <1>10, <1>11, <1>12,
     <1>13, <1>14, <1>15, <1>16, <1>17, <1>18, <1>19, <1>20, <1>21, <1>22
     DEF Next, Starting, Keeping

\* A step leaves no topic behind.
LEMMA TopicsStep == ASSUME TypeOK, TopicsPending, Next PROVE TopicsPending'
<1> USE SubscriberClientAssumption DEF history, TypeOK, NodeOK, NodeType, StartOK,
    StartType, TopicsPending
<1>1. CASE getServer
  BY <1>1 DEF getServer
<1>2. CASE getServerChoose
  BY <1>2 DEF getServerChoose, AtTop, On
<1>3. CASE connectFails
  BY <1>3 DEF connectFails, connectReplaces, NilNode, AtTop
<1>4. CASE connectUnresolved
  BY <1>4 DEF connectUnresolved, disconnect, AtTop
<1>5. CASE connect
  BY <1>5 DEF connect, connectReplaces
<1>6. CASE connectRange
  BY <1>6 DEF connectRange
<1>7. CASE connectAnnounce
  BY <1>7 DEF connectAnnounce, Written
<1>8. CASE startCheck
  BY <1>8 DEF startCheck, AtTop
<1>9. CASE startReadFails
  BY <1>9 DEF startReadFails, disconnect
<1>10. CASE startOffline
  BY <1>10 DEF startOffline, AtTop
<1>11. CASE startRead
  BY <1>11 DEF startRead
<1>12. CASE keepalive
  BY <1>12 DEF keepalive
<1>13. CASE keepaliveWrite
  BY <1>13 DEF keepaliveWrite
<1>14. CASE keepaliveFailed
  BY <1>14 DEF keepaliveFailed, disconnect
<1>15. CASE Subscribe
  BY <1>15 DEF Subscribe
<1>16. CASE SubscribeWrite
  BY <1>16 DEF SubscribeWrite, Written
<1>17. CASE Close
  BY <1>17 DEF Close, disconnect
<1>18. CASE CloseStatus
  BY <1>18 DEF CloseStatus
<1>19. ASSUME NEW s \in Servers, onWatchDelete(s) PROVE TopicsPending'
  BY <1>19 DEF onWatchDelete, Unlocked
<1>20. ASSUME NEW s \in Servers, onWatchAdd(s) PROVE TopicsPending'
  BY <1>20 DEF onWatchAdd, Unlocked
<1>21. ASSUME NEW s \in Servers, ServerChange(s) PROVE TopicsPending'
  BY <1>21 DEF ServerChange
<1>22. CASE Break
  BY <1>22 DEF Break
<1> QED
  BY <1>1, <1>2, <1>3, <1>4, <1>5, <1>6, <1>7, <1>8, <1>9, <1>10, <1>11, <1>12,
     <1>13, <1>14, <1>15, <1>16, <1>17, <1>18, <1>19, <1>20, <1>21, <1>22
     DEF Next, Starting, Keeping

\* A step leaves no connection open that nobody will close.
LEMMA OnlineStep == ASSUME TypeOK, OnlineWhileOpen, Next PROVE OnlineWhileOpen'
<1> USE SubscriberClientAssumption DEF history, TypeOK, NodeOK, NodeType, StartOK,
    StartType, OnlineWhileOpen
<1>1. CASE getServer
  BY <1>1 DEF getServer
<1>2. CASE getServerChoose
  BY <1>2 DEF getServerChoose, AtTop, On
<1>3. CASE connectFails
  BY <1>3 DEF connectFails, connectReplaces, NilNode, AtTop
<1>4. CASE connectUnresolved
  BY <1>4 DEF connectUnresolved, disconnect, AtTop
<1>5. CASE connect
  BY <1>5 DEF connect, connectReplaces
<1>6. CASE connectRange
  BY <1>6 DEF connectRange
<1>7. CASE connectAnnounce
  BY <1>7 DEF connectAnnounce, Written
<1>8. CASE startCheck
  BY <1>8 DEF startCheck, AtTop
<1>9. CASE startReadFails
  BY <1>9 DEF startReadFails, disconnect
<1>10. CASE startOffline
  BY <1>10 DEF startOffline, AtTop
<1>11. CASE startRead
  BY <1>11 DEF startRead
<1>12. CASE keepalive
  BY <1>12 DEF keepalive
<1>13. CASE keepaliveWrite
  BY <1>13 DEF keepaliveWrite
<1>14. CASE keepaliveFailed
  BY <1>14 DEF keepaliveFailed, disconnect
<1>15. CASE Subscribe
  BY <1>15 DEF Subscribe
<1>16. CASE SubscribeWrite
  BY <1>16 DEF SubscribeWrite, Written
<1>17. CASE Close
  BY <1>17 DEF Close, disconnect
<1>18. CASE CloseStatus
  BY <1>18 DEF CloseStatus
<1>19. ASSUME NEW s \in Servers, onWatchDelete(s) PROVE OnlineWhileOpen'
  BY <1>19 DEF onWatchDelete, Unlocked
<1>20. ASSUME NEW s \in Servers, onWatchAdd(s) PROVE OnlineWhileOpen'
  BY <1>20 DEF onWatchAdd, Unlocked
<1>21. ASSUME NEW s \in Servers, ServerChange(s) PROVE OnlineWhileOpen'
  BY <1>21 DEF ServerChange
<1>22. CASE Break
  BY <1>22 DEF Break
<1> QED
  BY <1>1, <1>2, <1>3, <1>4, <1>5, <1>6, <1>7, <1>8, <1>9, <1>10, <1>11, <1>12,
     <1>13, <1>14, <1>15, <1>16, <1>17, <1>18, <1>19, <1>20, <1>21, <1>22
     DEF Next, Starting, Keeping

\* A step gives up only a server whose connection was lost.
LEMMA LostStep == ASSUME TypeOK, OnlineWhileOpen, LostNoted, Next PROVE LostNoted'
<1> USE SubscriberClientAssumption DEF history, TypeOK, NodeOK, NodeType, StartOK,
    StartType, OnlineWhileOpen, LostNoted
<1>1. CASE getServer
  <2>1. start'.at = "choose" /\ UNCHANGED <<services, node, lost>>
    BY <1>1, FoundOK DEF getServer
  <2> QED
    BY <2>1
<1>2. CASE getServerChoose
  <2>1. start'.at \in {"top", "connect"} /\ UNCHANGED <<services, node, lost>>
    BY <1>2, TopIs, ChosenOK DEF getServerChoose
  <2> QED
    BY <2>1
<1>3. CASE connectFails
  BY <1>3 DEF connectFails, connectReplaces, NilNode, AtTop
<1>4. CASE connectUnresolved
  BY <1>4 DEF connectUnresolved, disconnect, AtTop
<1>5. CASE connect
  BY <1>5 DEF connect, connectReplaces
<1>6. CASE connectRange
  BY <1>6 DEF connectRange
<1>7. CASE connectAnnounce
  BY <1>7 DEF connectAnnounce, Written
<1>8. CASE startCheck
  BY <1>8 DEF startCheck, AtTop
<1>9. CASE startReadFails
  BY <1>9 DEF startReadFails, disconnect
<1>10. CASE startOffline
  BY <1>10 DEF startOffline, AtTop
<1>11. CASE startRead
  BY <1>11 DEF startRead
<1>12. CASE keepalive
  BY <1>12 DEF keepalive
<1>13. CASE keepaliveWrite
  BY <1>13 DEF keepaliveWrite
<1>14. CASE keepaliveFailed
  BY <1>14 DEF keepaliveFailed, disconnect
<1>15. CASE Subscribe
  BY <1>15 DEF Subscribe
<1>16. CASE SubscribeWrite
  BY <1>16 DEF SubscribeWrite, Written
<1>17. CASE Close
  BY <1>17 DEF Close, disconnect
<1>18. CASE CloseStatus
  BY <1>18 DEF CloseStatus
<1>19. ASSUME NEW s \in Servers, onWatchDelete(s) PROVE LostNoted'
  BY <1>19 DEF onWatchDelete, Unlocked
<1>20. ASSUME NEW s \in Servers, onWatchAdd(s) PROVE LostNoted'
  BY <1>20 DEF onWatchAdd, Unlocked
<1>21. ASSUME NEW s \in Servers, ServerChange(s) PROVE LostNoted'
  BY <1>21 DEF ServerChange
<1>22. CASE Break
  BY <1>22 DEF Break
<1> QED
  BY <1>1, <1>2, <1>3, <1>4, <1>5, <1>6, <1>7, <1>8, <1>9, <1>10, <1>11, <1>12,
     <1>13, <1>14, <1>15, <1>16, <1>17, <1>18, <1>19, <1>20, <1>21, <1>22
     DEF Next, Starting, Keeping

\* Where start looks for a server, a closed client that is alone has none.
LEMMA NoneOn ==
    ASSUME TypeOK, NowhereToGo, alone, start.at \in {"top", "choose"}
    PROVE  start.server = None /\ node.conn # "open"
           /\ \A s \in Servers : services[s] # "on"
<1>1. start.server = None /\ node.conn # "open"
  BY DEF NowhereToGo
<1>2. None \notin Servers
  BY SubscriberClientAssumption
<1> QED
  BY <1>1, <1>2 DEF NowhereToGo

\* A step does not bring a closed client that is alone back.
LEMMA AloneStep == ASSUME TypeOK, OnlineWhileOpen, NowhereToGo, Next PROVE NowhereToGo'
<1> USE SubscriberClientAssumption DEF history, TypeOK, NodeOK, NodeType, StartOK,
    StartType, OnlineWhileOpen, NowhereToGo
<1>1. CASE getServer
  <2>1. SUFFICES ASSUME alone' PROVE NowhereToGo'
    BY SMT
  <2>2. start.server = None /\ \A s \in Servers : services[s] # "on"
    BY <1>1, <2>1, NoneOn DEF getServer
  <2>3. start' = [start EXCEPT !.at = "choose"]
    BY <1>1, <2>2 DEF getServer, On
  <2> QED
    BY <1>1, <2>2, <2>3 DEF getServer
<1>2. CASE getServerChoose
  <2>1. CASE start' = AtTop
    BY <1>2, <2>1, TopIs, NoneOn DEF getServerChoose
  <2>2. CASE start.server # None
    BY <1>2, <2>2 DEF getServerChoose
  <2> QED
    BY <1>2, <2>1, <2>2, ChosenOK
<1>3. CASE connectFails
  BY <1>3 DEF connectFails, connectReplaces, NilNode, AtTop
<1>4. CASE connectUnresolved
  BY <1>4 DEF connectUnresolved, disconnect, AtTop
<1>5. CASE connect
  BY <1>5 DEF connect, connectReplaces
<1>6. CASE connectRange
  BY <1>6 DEF connectRange
<1>7. CASE connectAnnounce
  BY <1>7 DEF connectAnnounce, Written
<1>8. CASE startCheck
  BY <1>8 DEF startCheck, AtTop
<1>9. CASE startReadFails
  BY <1>9 DEF startReadFails, disconnect
<1>10. CASE startOffline
  BY <1>10 DEF startOffline, AtTop
<1>11. CASE startRead
  BY <1>11 DEF startRead
<1>12. CASE keepalive
  BY <1>12 DEF keepalive
<1>13. CASE keepaliveWrite
  BY <1>13 DEF keepaliveWrite
<1>14. CASE keepaliveFailed
  BY <1>14 DEF keepaliveFailed, disconnect
<1>15. CASE Subscribe
  BY <1>15 DEF Subscribe
<1>16. CASE SubscribeWrite
  BY <1>16 DEF SubscribeWrite, Written
<1>17. CASE Close
  BY <1>17 DEF Close, disconnect, Alone, On
<1>18. CASE CloseStatus
  BY <1>18 DEF CloseStatus
<1>19. ASSUME NEW s \in Servers, onWatchDelete(s) PROVE NowhereToGo'
  BY <1>19 DEF onWatchDelete, Unlocked
<1>20. ASSUME NEW s \in Servers, onWatchAdd(s) PROVE NowhereToGo'
  BY <1>20 DEF onWatchAdd, Unlocked
<1>21. ASSUME NEW s \in Servers, ServerChange(s) PROVE NowhereToGo'
  BY <1>21 DEF ServerChange
<1>22. CASE Break
  BY <1>22 DEF Break
<1> QED
  BY <1>1, <1>2, <1>3, <1>4, <1>5, <1>6, <1>7, <1>8, <1>9, <1>10, <1>11, <1>12,
     <1>13, <1>14, <1>15, <1>16, <1>17, <1>18, <1>19, <1>20, <1>21, <1>22
     DEF Next, Starting, Keeping

LEMMA CStep == CInv /\ [Next]_vars => CInv'
<1> SUFFICES ASSUME CInv, [Next]_vars PROVE CInv'
  OBVIOUS
<1> USE DEF CInv
<1>1. CASE Next
  BY <1>1, TypeStep, TopicsStep, OnlineStep, LostStep, AloneStep
<1>2. CASE UNCHANGED vars
  BY <1>2 DEF vars, history, TypeOK, NodeOK, NodeType, StartOK, StartType,
     TopicsPending, OnlineWhileOpen,
              LostNoted, NowhereToGo
<1> QED
  BY <1>1, <1>2

LEMMA CAlways == Spec => []CInv
BY CInit, CStep, PTL DEF Spec

\* Type correctness: in particular a node is online only with a connection, and is
\* told no topic the application did not subscribe to.
THEOREM ClientTypes == Spec => []TypeOK
<1>1. CInv => TypeOK
  BY DEF CInv
<1> QED
  BY <1>1, CAlways, PTL

\* Whenever Subscribe and connect met, an open connection has every topic.
THEOREM TopicsReachServer == Spec => []TopicsReach
<1>1. CInv => TopicsReach
  BY SubscriberClientAssumption DEF CInv, TopicsPending, TopicsReach, Unlocked, TypeOK
<1> QED
  BY <1>1, CAlways, PTL

\* connect never drops an open connection.
THEOREM NoConnectionLeaks == Spec => []OneConnection
<1>1. CInv => OneConnection
  BY DEF CInv, OnlineWhileOpen, OneConnection
<1> QED
  BY <1>1, CAlways, PTL

\* Only a server a connection to which was lost or closed is marked offline.
THEOREM OfflineForCause == Spec => []OfflineCause
<1>1. CInv => OfflineCause
  BY DEF CInv, LostNoted, OfflineCause
<1> QED
  BY <1>1, CAlways, PTL

\* A client closed with no other server to turn to stays disconnected.
THEOREM ClosedStaysClosed == Spec => []CloseStays
<1>1. CInv => CloseStays
  BY DEF CInv, NowhereToGo, CloseStays
<1> QED
  BY <1>1, CAlways, PTL
=============================================================================
