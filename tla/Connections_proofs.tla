-------------------------- MODULE Connections_proofs --------------------------
(***************************************************************************)
(* Proofs about Connections, for any number of threads, sockets and nodes, *)
(* about PeerBook, for any endpoints, records, limits and times, and about *)
(* Encodings, for any strings, sizes and limits.  The three share no       *)
(* state: the last two are what a connection leaves behind and what it     *)
(* carries.                                                                *)
(***************************************************************************)
EXTENDS Connections, PeerBook, Encodings,
        FiniteSetTheorems, SequenceTheorems, WellFoundedInduction, TLAPS

\* The places each kind of thread can be in, and who holds a socket there.
Holding == {"screen", "over", "begin"}
KindInv ==
  /\ \A i \in In : pc[i] \in Running \cup {"done"}
  /\ \A o \in Out : pc[o] \in Running \cup {"none", "check", "connect", "pause", "ended"}
  /\ pc[Acceptor] \in Holding \cup {"none", "poll", "accept", "ended"}

\* How far starting and stopping have got.
MainInv ==
  /\ stop \in BOOLEAN
  /\ main \in {"new", "launch", "running", "stopping", "join accept",
               "join outbound", "join sessions", "stopped"}
  /\ main = "new" => pc[Acceptor] = "none"
  /\ main \in {"new", "launch"} => \A o \in Out : pc[o] = "none"
  /\ main \in {"join outbound", "join sessions", "stopped"} => pc[Acceptor] = "ended"
  /\ main \in {"join sessions", "stopped"} => \A o \in Out : pc[o] \in {"none", "ended"}
  /\ main = "stopped" => \A i \in In : pc[i] = "done"
  /\ threads \subseteq In
  /\ \A i \in In : pc[i] # "done" => i \in threads

\* The sockets of a node: a thread that runs a session, or the accept thread with
\* a connection in hand, owns one, and nobody else the same.
Owns(t) == IF t = Acceptor THEN pc[t] \in Holding ELSE pc[t] \in Running
OwnInv ==
  /\ fd \in [Thread -> Fd \cup {None}] /\ peer \in [Thread -> Node \cup {None}]
  /\ \A t \in Thread : IF Owns(t) THEN fd[t] \in open /\ peer[t] \in Node
                       ELSE fd[t] = None /\ peer[t] = None
  /\ \A t, u \in Thread : fd[t] = fd[u] /\ fd[t] # None => t = u
  /\ open \subseteq Fd
  /\ \A f \in open : \E t \in Thread : fd[t] = f

\* active_sockets_ and the sockets that request_stop shut down.
SocketInv ==
  /\ \A t \in Session : pc[t] \in Entered => fd[t] \in sockets
  /\ \A f \in sockets : \E t \in Session : fd[t] = f /\ pc[t] \in Entered
  /\ \A f \in shut : \E t \in Session : fd[t] = f /\ pc[t] \in Running \ {"start"}

\* Registrations.
NonceInv ==
  /\ registered \subseteq Session /\ live \subseteq Session /\ nonces \subseteq Remote
  /\ \A t \in registered : pc[t] \in {"greet", "loop", "serve", "blame", "erase"}
  /\ \A t \in Session : pc[t] \in {"greet", "loop", "serve"} => t \in registered
  /\ \A t \in registered : peer[t] \in nonces /\ peer[t] # Self
  /\ \A n \in nonces \ {Zero} : \E t \in registered : peer[t] = n
  /\ \A t, u \in registered : peer[t] = peer[u] => t = u
  /\ \A t \in live : pc[t] \in {"loop", "serve", "blame", "erase", "forget"}
                     /\ (t \in registered \/ pc[t] = "forget")

Present == {t \in Session : pc[t] \in Entered \cup {"forget"}}
CountInv ==
  /\ active = Cardinality(Present)
  /\ inbound = Cardinality(Places) + Counted
  /\ Cardinality(Places) + (IF pc[Acceptor] = "begin" THEN 1 ELSE 0) <= MaxInbound

IInv == KindInv /\ MainInv /\ OwnInv /\ SocketInv /\ NonceInv /\ CountInv /\ banned \subseteq Node

\* The changes of pc.
PcType == pc \in [Thread -> Running \cup {"none", "poll", "accept", "screen", "over", "begin",
                                     "check", "connect", "pause", "ended", "done"}]

LEMMA KindStep ==
  ASSUME PcType, KindInv, [Next]_vars
  PROVE  PcType' /\ KindInv'
<1> USE ThreadAssumption DEF PcType, KindInv, Thread, Session, Running, Entered, Holding, Goto
<1>1. CASE Start \/ RequestStop \/ Main
  BY <1>1 DEF Start, RequestStop, Main, Launch, ShutSockets, JoinAccept, JoinOutbound, JoinSessions
<1>2. CASE Accepting
  BY <1>2 DEF Accepting, Poll, AcceptNothing, RejectBanned, CountInbound, TurnAway, Accept, StartSession
<1>3. CASE \E o \in Out : Dialling(o)
  BY <1>3 DEF Dialling, Check, ConnectFails, Pause, Connect
<1>4. ASSUME NEW t \in Session, InSession(t)
      PROVE  PcType' /\ KindInv'
  BY <1>4 DEF InSession, Enter, LoadChain, Handshake, RegisterRefused, Register, Greet, Loop,
       Flooded, Answer, PeerLeaves, Failed, Blame, Erase, Forget, Close
<1>5. CASE \E h \in Node : BanEnds(h)
  BY <1>5 DEF BanEnds
<1>6. CASE UNCHANGED vars
  BY <1>6 DEF vars
<1> QED BY <1>1, <1>2, <1>3, <1>4, <1>5, <1>6 DEF Next

\* Starting and joining.
LEMMA MainStep ==
  ASSUME PcType, KindInv, MainInv, [Next]_vars
  PROVE  MainInv'
<1> USE ThreadAssumption DEF PcType, KindInv, MainInv, Thread, Session, Running, Entered, Holding, Goto
<1>1. CASE Start \/ RequestStop \/ Main
  BY <1>1 DEF Start, RequestStop, Main, Launch, ShutSockets, JoinAccept, JoinOutbound, JoinSessions
<1>2. CASE Accepting
  BY <1>2 DEF Accepting, Poll, AcceptNothing, RejectBanned, CountInbound, TurnAway, Accept, StartSession
<1>3. CASE \E o \in Out : Dialling(o)
  BY <1>3 DEF Dialling, Check, ConnectFails, Pause, Connect
<1>4. ASSUME NEW t \in Session, InSession(t)
      PROVE  MainInv'
  BY <1>4 DEF InSession, Enter, LoadChain, Handshake, RegisterRefused, Register, Greet, Loop,
       Flooded, Answer, PeerLeaves, Failed, Blame, Erase, Forget, Close
<1>5. CASE \E h \in Node : BanEnds(h)
  BY <1>5 DEF BanEnds
<1>6. CASE UNCHANGED vars
  BY <1>6 DEF vars
<1> QED BY <1>1, <1>2, <1>3, <1>4, <1>5, <1>6 DEF Next

\* start, request_stop and wait: threads are created, and nobody is moved who
\* runs already.
LEMMA MainFacts ==
  ASSUME PcType, MainInv, Start \/ RequestStop \/ Main
  PROVE  /\ \A t \in Session : \/ pc'[t] = pc[t]
                               \/ t \in Out /\ pc[t] = "none" /\ pc'[t] = "check"
         /\ \/ pc'[Acceptor] = pc[Acceptor]
            \/ pc[Acceptor] = "none" /\ pc'[Acceptor] = "poll"
         /\ UNCHANGED <<ownVars, sessionVars, inbound, banned>>
         /\ UNCHANGED shut \/ shut' = shut \cup sockets
<1>1. CASE Start
  <2>1. pc[Acceptor] = "none" /\ pc' = [pc EXCEPT ![Acceptor] = "poll"]
    BY <1>1 DEF Start, MainInv, Goto
  <2> QED BY <2>1, <1>1, ThreadAssumption DEF Start, PcType, Thread, Session
<1>2. CASE Launch
  <2>1. main = "launch" /\ \A o \in Out : pc[o] = "none"
    BY <1>2 DEF Launch, MainInv
  <2>2. pc' = [t \in Thread |-> IF t \in Out THEN "check" ELSE pc[t]]
    BY <1>2 DEF Launch
  <2> QED BY <2>1, <2>2, <1>2, ThreadAssumption DEF Launch, Thread, Session
<1>3. CASE RequestStop \/ ShutSockets \/ JoinAccept \/ JoinOutbound \/ JoinSessions
  BY <1>3 DEF RequestStop, ShutSockets, JoinAccept, JoinOutbound, JoinSessions
<1> QED BY <1>1, <1>2, <1>3 DEF Main

\* A socket is obtained, handed from the accept thread to a session, or closed.
LEMMA OwnStep ==
  ASSUME PcType, KindInv, MainInv, OwnInv, [Next]_vars
  PROVE  OwnInv'
<1>1. CASE Start \/ RequestStop \/ Main
  <2>1. \A t \in Thread : Owns(t)' = Owns(t)
    BY <1>1, MainFacts, ThreadAssumption DEF Owns, Running, Entered, Holding, Thread, Session
  <2> QED BY <1>1, <2>1, MainFacts DEF OwnInv, ownVars
<1> USE ThreadAssumption
    DEF PcType, KindInv, OwnInv, Owns, Thread, Session, Running, Entered, Holding, Goto, ownVars, Node
<1>2. CASE Poll \/ AcceptNothing \/ CountInbound
  BY <1>2 DEF Poll, AcceptNothing, CountInbound
<1>3. ASSUME NEW f \in Fd, NEW r \in Node, Accept(f, r)
      PROVE  OwnInv'
  BY <1>3 DEF Accept, Obtain
<1>4. CASE RejectBanned \/ TurnAway
  BY <1>4 DEF RejectBanned, TurnAway, Release
<1>5. ASSUME NEW i \in In, StartSession(i)
      PROVE  OwnInv'
  BY <1>5 DEF StartSession
<1>6. ASSUME NEW o \in Out, Check(o) \/ ConnectFails(o) \/ Pause(o)
      PROVE  OwnInv'
  BY <1>6 DEF Check, ConnectFails, Pause
<1>7. ASSUME NEW o \in Out, NEW f \in Fd, Connect(o, f)
      PROVE  OwnInv'
  BY <1>7 DEF Connect, Obtain
<1>8. ASSUME NEW t \in Session, InSession(t), ~Close(t)
      PROVE  OwnInv'
  BY <1>8 DEF InSession, Enter, LoadChain, Handshake, RegisterRefused, Register, Greet, Loop,
       Flooded, Answer, PeerLeaves, Failed, Blame, Erase, Forget
<1>9. ASSUME NEW t \in Session, Close(t)
      PROVE  OwnInv'
  BY <1>9 DEF Close, Release
<1>10. CASE (\E h \in Node : BanEnds(h)) \/ UNCHANGED vars
  BY <1>10 DEF BanEnds, vars
<1> QED BY <1>1, <1>2, <1>3, <1>4, <1>5, <1>6, <1>7, <1>8, <1>9, <1>10 DEF Next, Accepting, Dialling

\* active_sockets_ and the sockets that are shut down.
LEMMA SocketStep ==
  ASSUME PcType, KindInv, MainInv, OwnInv, SocketInv, [Next]_vars
  PROVE  SocketInv'
<1>1. CASE Start \/ RequestStop \/ Main
  <2>1. \A t \in Session : /\ pc'[t] \in Entered <=> pc[t] \in Entered
                           /\ pc'[t] \in Running \ {"start"} <=> pc[t] \in Running \ {"start"}
    BY <1>1, MainFacts DEF Running, Entered
  <2>2. Entered \subseteq Running \ {"start"}
    BY DEF Entered, Running
  <2>3. UNCHANGED <<fd, sockets>> /\ (UNCHANGED shut \/ shut' = shut \cup sockets)
    BY <1>1, MainFacts DEF ownVars, sessionVars
  <2> QED BY <2>1, <2>2, <2>3 DEF SocketInv
<1> USE ThreadAssumption
    DEF PcType, KindInv, OwnInv, SocketInv, Owns, Thread, Session, Running, Entered, Holding,
        Goto, ownVars, sessionVars
<1>2. CASE Poll \/ AcceptNothing \/ CountInbound
  BY <1>2 DEF Poll, AcceptNothing, CountInbound
<1>3. ASSUME NEW f \in Fd, NEW r \in Node, Accept(f, r)
      PROVE  SocketInv'
  BY <1>3 DEF Accept, Obtain
<1>4. CASE RejectBanned \/ TurnAway
  BY <1>4 DEF RejectBanned, TurnAway, Release
<1>5. ASSUME NEW i \in In, StartSession(i)
      PROVE  SocketInv'
  BY <1>5 DEF StartSession
<1>6. ASSUME NEW o \in Out, Check(o) \/ ConnectFails(o) \/ Pause(o)
      PROVE  SocketInv'
  BY <1>6 DEF Check, ConnectFails, Pause
<1>7. ASSUME NEW o \in Out, NEW f \in Fd, Connect(o, f)
      PROVE  SocketInv'
  BY <1>7 DEF Connect, Obtain
<1>8. ASSUME NEW t \in Session, InSession(t), ~Enter(t), ~Erase(t), ~Close(t)
      PROVE  SocketInv'
  BY <1>8 DEF InSession, LoadChain, Handshake, RegisterRefused, Register, Greet, Loop,
       Flooded, Answer, PeerLeaves, Failed, Blame, Forget
<1>9. ASSUME NEW t \in Session, Enter(t) \/ Erase(t) \/ Close(t)
      PROVE  SocketInv'
  BY <1>9 DEF Enter, Erase, Close, Release
<1>10. CASE (\E h \in Node : BanEnds(h)) \/ UNCHANGED vars
  BY <1>10 DEF BanEnds, vars
<1> QED BY <1>1, <1>2, <1>3, <1>4, <1>5, <1>6, <1>7, <1>8, <1>9, <1>10 DEF Next, Accepting, Dialling

\* Registration and cleanup.
LEMMA NonceStep ==
  ASSUME PcType, KindInv, MainInv, OwnInv, NonceInv, [Next]_vars
  PROVE  NonceInv'
<1>1. CASE Start \/ RequestStop \/ Main
  <2>1. \A t \in Session : pc'[t] = pc[t] \/ (pc'[t] = "check" /\ pc[t] = "none")
    BY <1>1, MainFacts DEF MainInv
  <2>2. UNCHANGED <<peer, nonces, registered, live>>
    BY <1>1, MainFacts DEF ownVars, sessionVars
  <2> QED BY <2>1, <2>2 DEF NonceInv
<1> USE ThreadAssumption
    DEF PcType, KindInv, OwnInv, NonceInv, Owns, Thread, Session, Running, Entered, Holding,
        Goto, ownVars, sessionVars
<1>2. CASE Poll \/ AcceptNothing \/ CountInbound
  BY <1>2 DEF Poll, AcceptNothing, CountInbound
<1>3. ASSUME NEW f \in Fd, NEW r \in Node, Accept(f, r)
      PROVE  NonceInv'
  BY <1>3 DEF Accept, Obtain
<1>4. CASE RejectBanned \/ TurnAway
  BY <1>4 DEF RejectBanned, TurnAway, Release
<1>5. ASSUME NEW i \in In, StartSession(i)
      PROVE  NonceInv'
  BY <1>5 DEF StartSession
<1>6. ASSUME NEW o \in Out, Check(o) \/ ConnectFails(o) \/ Pause(o)
      PROVE  NonceInv'
  BY <1>6 DEF Check, ConnectFails, Pause
<1>7. ASSUME NEW o \in Out, NEW f \in Fd, Connect(o, f)
      PROVE  NonceInv'
  BY <1>7 DEF Connect, Obtain
<1>8. ASSUME NEW t \in Session, Register(t)
      PROVE  NonceInv'
  BY <1>8 DEF Register, Refused, Node
<1>9. ASSUME NEW t \in Session, Erase(t)
      PROVE  NonceInv'
  BY <1>9 DEF Erase, HasNonce
<1>10. ASSUME NEW t \in Session, Greet(t) \/ Forget(t) \/ Close(t)
       PROVE  NonceInv'
  BY <1>10 DEF Greet, Forget, Close, Release
<1>11. ASSUME NEW t \in Session, InSession(t), ~Register(t), ~Erase(t), ~(Greet(t) \/ Forget(t) \/ Close(t))
       PROVE  NonceInv'
  BY <1>11 DEF InSession, Enter, LoadChain, Handshake, RegisterRefused, Loop,
       Flooded, Answer, PeerLeaves, Failed, Blame
<1>12. CASE (\E h \in Node : BanEnds(h)) \/ UNCHANGED vars
  BY <1>12 DEF BanEnds, vars
<1> QED BY <1>1, <1>2, <1>3, <1>4, <1>5, <1>6, <1>7, <1>8, <1>9, <1>10, <1>11, <1>12
        DEF Next, Accepting, Dialling

-----------------------------------------------------------------------------
(* The counters.                                                           *)

LEMMA CountTypes ==
  /\ IsFiniteSet(Present) /\ Cardinality(Present) \in Nat
  /\ IsFiniteSet(Places) /\ Cardinality(Places) \in Nat
<1>1. Present \in SUBSET (In \cup Out) /\ Places \in SUBSET (In \cup Out)
  BY DEF Present, Places, Session
<1>2. IsFiniteSet(Present) /\ IsFiniteSet(Places)
  BY <1>1, FS_Subset, ThreadAssumption
<1> QED BY <1>2, FS_CardinalityType

\* Steps that take no session into or out of the counted ones.
LEMMA CountSame ==
  ASSUME CountInv, UNCHANGED <<inbound, active>>,
         \A t \in Session : pc'[t] \in Entered \cup {"forget"} <=> pc[t] \in Entered \cup {"forget"},
         \A i \in In : pc'[i] \in Running \ {"close"} <=> pc[i] \in Running \ {"close"},
         pc'[Acceptor] \in {"over", "begin"} <=> pc[Acceptor] \in {"over", "begin"},
         pc'[Acceptor] = "begin" => pc[Acceptor] = "begin"
  PROVE  CountInv'
<1>1. Present' = Present
  BY DEF Present
<1>2. Places' = Places
  BY DEF Places, Session
<1>3. Counted' = Counted
  BY DEF Counted
<1>4. (IF pc'[Acceptor] = "begin" THEN 1 ELSE 0) <= (IF pc[Acceptor] = "begin" THEN 1 ELSE 0)
  OBVIOUS
<1>5. MaxInbound \in Nat /\ Cardinality(Places) \in Nat
  BY ThreadAssumption, CountTypes
<1> QED BY <1>1, <1>2, <1>3, <1>4, <1>5 DEF CountInv

LEMMA CountStep ==
  ASSUME PcType, KindInv, MainInv, CountInv, [Next]_vars
  PROVE  CountInv'
<1> DEFINE Move == /\ \A t \in Session :
                        pc'[t] \in Entered \cup {"forget"} <=> pc[t] \in Entered \cup {"forget"}
                   /\ \A i \in In : pc'[i] \in Running \ {"close"} <=> pc[i] \in Running \ {"close"}
                   /\ pc'[Acceptor] \in {"over", "begin"} <=> pc[Acceptor] \in {"over", "begin"}
                   /\ pc'[Acceptor] = "begin" => pc[Acceptor] = "begin"
<1>1. CASE Start \/ RequestStop \/ Main
  <2>1. Move
    BY <1>1, MainFacts DEF Running, Entered, Session
  <2>2. UNCHANGED <<inbound, active>>
    BY <1>1, MainFacts DEF sessionVars
  <2> QED BY <2>1, <2>2, CountSame
<1>2. CASE Poll \/ AcceptNothing \/ RejectBanned \/ \E f \in Fd, r \in Node : Accept(f, r)
  <2>1. Move
    BY <1>2, ThreadAssumption DEF Poll, AcceptNothing, RejectBanned, Accept, Goto, PcType, Thread, Session
  <2>2. UNCHANGED <<inbound, active>>
    BY <1>2 DEF Poll, AcceptNothing, RejectBanned, Accept, sessionVars
  <2> QED BY <2>1, <2>2, CountSame
<1>3. ASSUME NEW o \in Out, Dialling(o)
      PROVE  CountInv'
  <2>1. Move
    BY <1>3, ThreadAssumption DEF Dialling, Check, ConnectFails, Pause, Connect, Goto, PcType, Thread,
       Session, Running, Entered
  <2>2. UNCHANGED <<inbound, active>>
    BY <1>3 DEF Dialling, Check, ConnectFails, Pause, Connect, sessionVars
  <2> QED BY <2>1, <2>2, CountSame
<1>4. CASE (\E h \in Node : BanEnds(h)) \/ UNCHANGED vars
  <2>1. UNCHANGED <<pc, inbound, active>>
    BY <1>4 DEF BanEnds, vars, sessionVars
  <2> QED BY <2>1, CountSame
<1>5. CASE CountInbound
  <2>1. /\ inbound' = inbound + 1 /\ active' = active /\ pc[Acceptor] = "screen"
        /\ \A t \in Session : pc'[t] = pc[t]
        /\ pc'[Acceptor] = IF inbound >= MaxInbound THEN "over" ELSE "begin"
    BY <1>5, ThreadAssumption DEF CountInbound, Goto, PcType, Thread, Session, sessionVars
  <2>2. Present' = Present /\ Places' = Places
    BY <2>1 DEF Present, Places, Session
  <2>3. Counted = 0 /\ Counted' = 1
    BY <2>1 DEF Counted
  <2> QED BY <2>1, <2>2, <2>3, CountTypes, ThreadAssumption DEF CountInv
<1>6. CASE TurnAway
  <2>1. /\ inbound' = inbound - 1 /\ active' = active /\ pc[Acceptor] \in {"over", "begin"}
        /\ \A t \in Session : pc'[t] = pc[t]
        /\ pc'[Acceptor] = "poll"
    BY <1>6, ThreadAssumption DEF TurnAway, Goto, PcType, Thread, Session, sessionVars
  <2>2. Present' = Present /\ Places' = Places
    BY <2>1 DEF Present, Places, Session
  <2>3. Counted = 1 /\ Counted' = 0
    BY <2>1 DEF Counted
  <2> QED BY <2>1, <2>2, <2>3, CountTypes, ThreadAssumption DEF CountInv
<1>7. ASSUME NEW i \in In, StartSession(i)
      PROVE  CountInv'
  <2>1. /\ inbound' = inbound /\ active' = active
        /\ pc[Acceptor] = "begin" /\ pc'[Acceptor] = "poll"
        /\ pc[i] = "done" /\ pc'[i] = "start"
        /\ \A t \in Session \ {i} : pc'[t] = pc[t]
    BY <1>7, ThreadAssumption DEF StartSession, PcType, Thread, Session, sessionVars
  <2>2. Present' = Present
    BY <2>1 DEF Present, Entered, Session
  <2>3. Places' = Places \cup {i} /\ i \notin Places
    BY <2>1 DEF Places, Running, Entered, Session
  <2>4. Cardinality(Places') = Cardinality(Places) + 1
    BY <2>3, CountTypes, FS_AddElement
  <2>5. Counted = 1 /\ Counted' = 0
    BY <2>1 DEF Counted
  <2> QED BY <2>1, <2>2, <2>4, <2>5, CountTypes, ThreadAssumption DEF CountInv
<1>8. ASSUME NEW t \in Session, Enter(t)
      PROVE  CountInv'
  <2>1. /\ inbound' = inbound /\ active' = active + 1 /\ pc'[Acceptor] = pc[Acceptor]
        /\ pc[t] = "start" /\ pc'[t] = "init"
        /\ \A u \in Session \ {t} : pc'[u] = pc[u]
    BY <1>8, ThreadAssumption DEF Enter, Goto, PcType, Thread, Session
  <2>2. Present' = Present \cup {t} /\ t \notin Present
    BY <2>1 DEF Present, Entered
  <2>3. Cardinality(Present') = Cardinality(Present) + 1
    BY <2>2, CountTypes, FS_AddElement
  <2>4. Places' = Places
    BY <2>1 DEF Places, Running, Entered, Session
  <2>5. Counted' = Counted
    BY <2>1 DEF Counted
  <2> QED BY <2>1, <2>3, <2>4, <2>5, CountTypes, ThreadAssumption DEF CountInv
<1>9. ASSUME NEW t \in Session, Forget(t)
      PROVE  CountInv'
  <2>1. /\ inbound' = (IF t \in In THEN inbound - 1 ELSE inbound)
        /\ active' = active - 1 /\ pc'[Acceptor] = pc[Acceptor]
        /\ pc[t] = "forget" /\ pc'[t] = "close"
        /\ \A u \in Session \ {t} : pc'[u] = pc[u]
    BY <1>9, ThreadAssumption DEF Forget, Goto, PcType, Thread, Session
  <2>2. Present' = Present \ {t} /\ t \in Present
    BY <2>1 DEF Present, Entered
  <2>3. Cardinality(Present') = Cardinality(Present) - 1
    BY <2>2, CountTypes, FS_RemoveElement
  <2>4. CASE t \in In
    <3>1. Places' = Places \ {t} /\ t \in Places
      BY <2>1, <2>4 DEF Places, Running, Entered, Session
    <3>2. Cardinality(Places') = Cardinality(Places) - 1
      BY <3>1, CountTypes, FS_RemoveElement
    <3>3. Counted' = Counted
      BY <2>1 DEF Counted
    <3>4. inbound' = inbound - 1 /\ active' = active - 1 /\ pc'[Acceptor] = pc[Acceptor]
      BY <2>1, <2>4
    <3>5. Counted \in {0, 1}
      BY DEF Counted
    <3> HIDE DEF Move
    <3> QED BY <2>3, <3>2, <3>3, <3>4, <3>5, CountTypes, ThreadAssumption DEF CountInv
  <2>5. CASE t \notin In
    <3>1. Places' = Places
      BY <2>1, <2>5 DEF Places, Session
    <3>2. Counted' = Counted
      BY <2>1 DEF Counted
    <3>3. inbound' = inbound /\ active' = active - 1 /\ pc'[Acceptor] = pc[Acceptor]
      BY <2>1, <2>5
    <3> QED BY <2>3, <3>1, <3>2, <3>3, CountTypes, ThreadAssumption DEF CountInv
  <2> QED BY <2>4, <2>5
<1>10. ASSUME NEW t \in Session, InSession(t), ~Enter(t), ~Forget(t)
       PROVE  CountInv'
  <2>1. Move
    BY <1>10, ThreadAssumption DEF InSession, LoadChain, Handshake, RegisterRefused, Register, Greet,
       Loop, Flooded, Answer, PeerLeaves, Failed, Blame, Erase, Close, Goto, PcType, Thread, Session,
       Running, Entered
  <2>2. UNCHANGED <<inbound, active>>
    BY <1>10 DEF InSession, LoadChain, Handshake, RegisterRefused, Register, Greet,
       Loop, Flooded, Answer, PeerLeaves, Failed, Blame, Erase, Close, sessionVars
  <2> QED BY <2>1, <2>2, CountSame
<1> QED BY <1>1, <1>2, <1>3, <1>4, <1>5, <1>6, <1>7, <1>8, <1>9, <1>10 DEF Next, Accepting

-----------------------------------------------------------------------------

LEMMA InitHolds == Init => IInv /\ PcType
<1> SUFFICES ASSUME Init PROVE IInv /\ PcType
  OBVIOUS
<1>1. PcType /\ KindInv /\ MainInv /\ OwnInv /\ SocketInv /\ NonceInv
  BY ThreadAssumption DEF Init, PcType, KindInv, MainInv, OwnInv, Owns, SocketInv, NonceInv,
     Thread, Session, Running, Entered, Holding
<1>2. Present = {} /\ Places = {} /\ Counted = 0 /\ pc[Acceptor] = "none"
  BY ThreadAssumption DEF Init, Present, Places, Counted, Thread, Session, Running, Entered
<1>3. CountInv
  <2>1. Cardinality(Present) = 0 /\ Cardinality(Places) = 0
    BY <1>2, FS_EmptySet
  <2>2. active = 0 /\ inbound = 0 /\ MaxInbound \in Nat
    BY ThreadAssumption DEF Init
  <2> QED BY <1>2, <2>1, <2>2 DEF CountInv
<1> QED BY <1>1, <1>3 DEF IInv, Init

LEMMA BannedStep ==
  ASSUME OwnInv, KindInv, banned \subseteq Node, [Next]_vars
  PROVE  banned' \subseteq Node
<1>1. ASSUME NEW t \in Session, Blame(t)
      PROVE  banned' \subseteq Node
  BY <1>1, ThreadAssumption DEF Blame, OwnInv, Owns, Thread, Session, Running, Entered
<1>2. ASSUME ~\E t \in Session : Blame(t)
      PROVE  banned' \subseteq Node
  BY <1>2 DEF Next, vars, Start, RequestStop, Main, Launch, ShutSockets, JoinAccept, JoinOutbound,
     JoinSessions, Accepting, Poll, AcceptNothing, RejectBanned, CountInbound, TurnAway, Accept,
     StartSession, Dialling, Check, ConnectFails, Pause, Connect, InSession, Enter, LoadChain,
     Handshake, RegisterRefused, Register, Greet, Loop, Flooded, Answer, PeerLeaves, Failed,
     Erase, Forget, Close, BanEnds
<1> QED BY <1>1, <1>2

\* The invariant holds before the node starts, and every step of every thread
\* (accept_loop, outbound_loop, session_loop, wait) keeps it.
THEOREM Inductive == Spec => [](IInv /\ PcType)
<1>1. Init => IInv /\ PcType
  BY InitHolds
<1>2. IInv /\ PcType /\ [Next]_vars => (IInv /\ PcType)'
  BY KindStep, MainStep, OwnStep, SocketStep, NonceStep, CountStep, BannedStep DEF IInv
<1> QED BY <1>1, <1>2, PTL DEF Spec

\* The values of the variables; neither counter of the node, both unsigned in
\* the code, is ever lowered below zero.
THEOREM TypeCorrect == Spec => []TypeOK
<1>1. ASSUME IInv, PcType
      PROVE  TypeOK
  <2>1. inbound \in Nat /\ active \in Nat
    <3>1. Counted \in {0, 1}
      BY DEF Counted
    <3> QED BY <1>1, <3>1, CountTypes DEF IInv, CountInv
  <2>2. /\ pc \in [Thread -> Running \cup {"none", "poll", "accept", "screen", "over", "begin",
                                     "check", "connect", "pause", "ended", "done"}]
        /\ stop \in BOOLEAN /\ main \in {"new", "launch", "running", "stopping", "join accept",
               "join outbound", "join sessions", "stopped"}
        /\ threads \subseteq In
    BY <1>1 DEF IInv, PcType, MainInv
  <2>3. /\ fd \in [Thread -> Fd \cup {None}] /\ peer \in [Thread -> Node \cup {None}]
        /\ open \subseteq Fd /\ registered \subseteq Session /\ live \subseteq Session
        /\ banned \subseteq Node
    BY <1>1 DEF IInv, OwnInv, NonceInv
  <2>4. \A t \in Session : pc[t] \in Running => fd[t] \in open /\ peer[t] \in Node
    BY <1>1, ThreadAssumption DEF IInv, OwnInv, Owns, Thread, Session
  <2>5. sockets \subseteq Fd /\ shut \subseteq open
    BY <1>1, <2>3, <2>4 DEF IInv, SocketInv, Running
  <2>6. nonces \subseteq Remote
    BY <1>1 DEF IInv, NonceInv
  <2> QED BY <2>1, <2>2, <2>3, <2>5, <2>6 DEF TypeOK
<1> QED BY <1>1, Inductive, PTL

\* Every path gives back the place it has taken, and no more than max_inbound
\* inbound sessions run.
THEOREM InboundIsLimited == Spec => []InboundLimited
<1>1. IInv => InboundLimited
  BY DEF IInv, CountInv, InboundLimited, Present
<1> QED BY <1>1, Inductive, PTL

\* active_peer_nonces_ has the peers of the registered sessions, each once, and no
\* others but nonce 0, which the cleanup takes for none (net.cpp:1337).
THEOREM PeersAreDistinct == Spec => []OneSessionPerPeer
<1>1. ASSUME IInv
      PROVE  OneSessionPerPeer
  <2>1. {peer[t] : t \in registered} \subseteq nonces
    BY <1>1 DEF IInv, NonceInv
  <2> QED BY <1>1, <2>1 DEF IInv, NonceInv, OneSessionPerPeer
<1> QED BY <1>1, Inductive, PTL

\* request_stop touches sockets of running sessions only, for any way in which
\* the system hands out socket numbers.
THEOREM OwnSockets == Spec => []ShutsItsOwnSockets
<1>1. ASSUME IInv
      PROVE  ShutsItsOwnSockets
  <2>1. sockets = {fd[t] : t \in {s \in Session : pc[s] \in Entered}}
    BY <1>1 DEF IInv, SocketInv
  <2> QED BY <1>1, <2>1 DEF IInv, SocketInv, OwnInv, ShutsItsOwnSockets
<1> QED BY <1>1, Inductive, PTL

\* wait returns only when every thread has ended and everything is given back, but for
\* nonce 0.
THEOREM StopIsComplete == Spec => []StoppedIsQuiet
<1>1. ASSUME IInv, main = "stopped"
      PROVE  /\ \A t \in Thread : pc[t] \in {"none", "ended", "done"}
             /\ open = {} /\ sockets = {} /\ nonces \subseteq {Zero} /\ live = {}
             /\ inbound = 0 /\ active = 0
  <2>1. \A t \in Thread : pc[t] \in {"none", "ended", "done"}
    BY <1>1 DEF IInv, MainInv, Thread, Session
  <2>2. \A t \in Thread : ~Owns(t)
    BY <2>1 DEF Owns, Running, Entered, Holding
  <2>3. open = {}
    BY <1>1, <2>2, ThreadAssumption DEF IInv, OwnInv
  <2>4. sockets = {} /\ Present = {} /\ Places = {}
    BY <1>1, <2>1 DEF IInv, SocketInv, Present, Places, Running, Entered, Thread, Session
  <2>5. registered = {} /\ live = {}
    BY <1>1, <2>1 DEF IInv, NonceInv, Thread
  <2>6. nonces \subseteq {Zero}
    BY <1>1, <2>5 DEF IInv, NonceInv
  <2>7. Counted = 0
    BY <2>1 DEF Counted, Thread
  <2>8. Cardinality(Present) = 0 /\ Cardinality(Places) = 0
    BY <2>4, FS_EmptySet
  <2>9. inbound = 0 /\ active = 0
    BY <1>1, <2>7, <2>8 DEF IInv, CountInv
  <2> QED BY <2>1, <2>3, <2>4, <2>5, <2>6, <2>9
<1>2. IInv => StoppedIsQuiet
  BY <1>1 DEF StoppedIsQuiet
<1> QED BY <1>2, Inductive, PTL

\* -------------------------------------------------------------------------
\* PeerBook.

\* Induction over the first numbers, stated with a set: what holds of 0, and of
\* each number when it holds of the one before, holds of them all.
LEMMA UpTo ==
    ASSUME NEW N \in Nat, NEW T, 0 \in T,
           \A k \in 1 .. N : k - 1 \in T => k \in T
    PROVE  \A k \in 0 .. N : k \in T
<1> DEFINE S == {k \in 0 .. N : k \notin T}
<1> SUFFICES ASSUME S # {} PROVE FALSE
  OBVIOUS
<1>1. S \in SUBSET Nat
  OBVIOUS
<1>2. PICK m \in S : \A n \in S : <<n, m>> \notin OpToRel(<, Nat)
  <2> HIDE DEF S
  <2> QED BY <1>1, WFMin, NatLessThanWellFounded
<1>3. m \in 1 .. N /\ m \notin T
  OBVIOUS
<1>4. m - 1 \in S
  BY <1>3
<1>5. <<m - 1, m>> \in OpToRel(<, Nat)
  BY <1>3 DEF OpToRel
<1> QED BY <1>2, <1>4, <1>5

\* The steps of a recursive definition over the first numbers, and the functions
\* that follow them.
Steps(N, S) == [1 .. N -> [S -> S]]

Follows(f, N, base, Step) == f[0] = base /\ \A k \in 1 .. N : f[k] = Step[k][f[k - 1]]

\* There is one that does.
LEMMA Recursion ==
    ASSUME NEW N \in Nat, NEW S, NEW base \in S, NEW Step \in Steps(N, S)
    PROVE  \E f \in [0 .. N -> S] : Follows(f, N, base, Step)
<1>0. Step \in [1 .. N -> [S -> S]]
  BY DEF Steps
<1> DEFINE Fits(f, n) == f[0] = base /\ \A k \in 1 .. n : f[k] = Step[k][f[k - 1]]
           T == {n \in 0 .. N : \E f \in [0 .. n -> S] : Fits(f, n)}
<1>1. 0 \in T
  <2> DEFINE f == [k \in 0 .. 0 |-> base]
  <2>1. f \in [0 .. 0 -> S] /\ Fits(f, 0)
    OBVIOUS
  <2> HIDE DEF f, Fits
  <2> QED BY <2>1
<1>2. ASSUME NEW n \in 1 .. N, n - 1 \in T PROVE n \in T
  <2>1. PICK f \in [0 .. (n - 1) -> S] : Fits(f, n - 1)
    BY <1>2
  <2> DEFINE g == [k \in 0 .. n |-> IF k = n THEN Step[n][f[n - 1]] ELSE f[k]]
  <2>2. g \in [0 .. n -> S]
    BY <1>0, <2>1
  <2>3. /\ g[0] = f[0] /\ g[n] = Step[n][f[n - 1]]
        /\ \A k \in 0 .. (n - 1) : g[k] = f[k]
    OBVIOUS
  <2> HIDE DEF g
  <2>4. ASSUME NEW k \in 1 .. n PROVE g[k] = Step[k][g[k - 1]]
    <3>1. g[k - 1] = f[k - 1]
      BY <2>3
    <3>2. CASE k = n
      BY <2>3, <3>1, <3>2
    <3>3. CASE k # n
      <4>1. k \in 1 .. (n - 1) /\ g[k] = f[k]
        BY <2>3, <3>3
      <4> QED BY <2>1, <3>1, <4>1
    <3> QED BY <3>2, <3>3
  <2>5. Fits(g, n)
    BY <2>1, <2>3, <2>4
  <2> HIDE DEF Fits
  <2> QED BY <2>2, <2>5
<1> HIDE DEF T
<1>3. N \in T
  BY <1>1, <1>2, UpTo
<1> QED BY <1>3 DEF T, Follows

Rec == [endpoint : Endpoint, seen : Int, success : Int, failures : Nat, manual : BOOLEAN]

\* One record an endpoint.
Distinct(book) == \A i, j \in DOMAIN book : book[i].endpoint = book[j].endpoint => i = j

Books == {book \in Seq(Rec) : Distinct(book)}

\* What was recorded stays where it is, remains named, and counts no more failures.
Keeps(old, new) ==
    \A i \in DOMAIN old :
        /\ i \in DOMAIN new /\ new[i].endpoint = old[i].endpoint
        /\ old[i].manual => new[i].manual
        /\ new[i].failures <= old[i].failures

\* The record r has arrived in book.
Has(book, r) ==
    \E i \in DOMAIN book :
        /\ book[i].endpoint = r.endpoint
        /\ r.manual => book[i].manual
        /\ book[i].failures <= r.failures

\* A merged record is named if either was, and counts the fewer failures.
LEMMA MergeFacts ==
    ASSUME NEW old \in Rec, NEW new \in Rec
    PROVE  /\ Merge(old, new) \in Rec
           /\ Merge(old, new).endpoint = old.endpoint
           /\ old.manual \/ new.manual => Merge(old, new).manual
           /\ Merge(old, new).failures <= old.failures
           /\ Merge(old, new).failures <= new.failures
<1> DEFINE m == Merge(old, new)
           seen == Larger(old.seen, new.seen)
           success == Larger(old.success, new.success)
           failures == Smaller(old.failures, new.failures)
           manual == old.manual \/ new.manual
<1>1. /\ old.seen \in Int /\ new.seen \in Int /\ old.success \in Int /\ new.success \in Int
      /\ old.failures \in Nat /\ new.failures \in Nat /\ old.endpoint \in Endpoint
  BY DEF Rec
<1>2. seen \in Int /\ success \in Int
  BY <1>1 DEF Larger
<1>3. failures \in Nat /\ failures <= old.failures /\ failures <= new.failures
  BY <1>1 DEF Smaller
<1>4. manual \in BOOLEAN
  OBVIOUS
<1>5. m = [old EXCEPT !.seen = seen, !.success = success, !.failures = failures, !.manual = manual]
  BY DEF Merge
<1> HIDE DEF m, seen, success, failures, manual
<1>6. m = [endpoint |-> old.endpoint, seen |-> seen, success |-> success,
           failures |-> failures, manual |-> manual]
  BY <1>5 DEF Rec
<1>7. m \in Rec
  BY <1>1, <1>2, <1>3, <1>4, <1>6 DEF Rec
<1>8. m.endpoint = old.endpoint /\ m.failures = failures /\ m.manual = manual
  BY <1>6
<1> QED BY <1>3, <1>7, <1>8 DEF m, manual

\* A record of an endpoint that has none is appended.
LEMMA AppendRecord ==
    ASSUME NEW book \in Books, NEW r \in Rec, PlaceOf(book, r.endpoint) = {}
    PROVE  /\ Append(book, r) \in Books /\ Keeps(book, Append(book, r))
           /\ Has(Append(book, r), r)
<1> DEFINE a == Append(book, r)
<1>1. /\ book \in Seq(Rec) /\ Distinct(book) /\ Len(book) \in Nat
      /\ DOMAIN book = 1 .. Len(book) /\ \A i \in 1 .. Len(book) : book[i] \in Rec
  BY LenProperties, ElementOfSeq DEF Books
<1>2. /\ a \in Seq(Rec) /\ DOMAIN a = 1 .. (Len(book) + 1)
      /\ a[Len(book) + 1] = r /\ \A i \in 1 .. Len(book) : a[i] = book[i]
  BY <1>1, AppendProperties, LenProperties
<1> HIDE DEF a
<1>3. \A i \in 1 .. Len(book) : book[i].endpoint # r.endpoint
  BY <1>1 DEF PlaceOf
<1>4. Distinct(a)
  <2> SUFFICES ASSUME NEW i \in 1 .. (Len(book) + 1), NEW j \in 1 .. (Len(book) + 1),
                      a[i].endpoint = a[j].endpoint
               PROVE  i = j
    BY <1>2 DEF Distinct
  <2>1. CASE i \in 1 .. Len(book) /\ j \in 1 .. Len(book)
    BY <2>1, <1>1, <1>2 DEF Distinct
  <2>2. CASE i \in 1 .. Len(book) /\ j = Len(book) + 1
    BY <2>2, <1>2, <1>3
  <2>3. CASE j \in 1 .. Len(book) /\ i = Len(book) + 1
    BY <2>3, <1>2, <1>3
  <2>4. CASE i = Len(book) + 1 /\ j = Len(book) + 1
    BY <2>4
  <2> QED BY <1>1, <2>1, <2>2, <2>3, <2>4
<1>5. Keeps(book, a)
  <2> SUFFICES ASSUME NEW i \in 1 .. Len(book)
               PROVE  i \in DOMAIN a /\ a[i] = book[i] /\ book[i].failures <= book[i].failures
    BY <1>1 DEF Keeps
  <2>1. book[i].failures \in Nat
    BY <1>1 DEF Rec
  <2> QED BY <1>1, <1>2, <2>1
<1>6. Has(a, r)
  <2>1. r.failures \in Nat
    BY DEF Rec
  <2>2. Len(book) + 1 \in DOMAIN a
    BY <1>1, <1>2
  <2> QED BY <1>2, <2>1, <2>2 DEF Has
<1> QED BY <1>2, <1>4, <1>5, <1>6 DEF Books, a

\* add_or_update keeps one record an endpoint, whether it appends or merges.
LEMMA AddOrUpdateFacts ==
    ASSUME NEW book \in Books, NEW r \in Rec
    PROVE  /\ AddOrUpdate(book, r) \in Books
           /\ Keeps(book, AddOrUpdate(book, r))
           /\ Has(AddOrUpdate(book, r), r)
<1>1. CASE PlaceOf(book, r.endpoint) = {}
  BY <1>1, AppendRecord DEF AddOrUpdate
<1>2. CASE PlaceOf(book, r.endpoint) # {}
  <2> DEFINE b == [i \in DOMAIN book |-> IF book[i].endpoint = r.endpoint
                                         THEN Merge(book[i], r) ELSE book[i]]
  <2>1. AddOrUpdate(book, r) = b
    BY <1>2 DEF AddOrUpdate
  <2>2. /\ book \in Seq(Rec) /\ Distinct(book) /\ Len(book) \in Nat
        /\ DOMAIN book = 1 .. Len(book) /\ \A i \in 1 .. Len(book) : book[i] \in Rec
    BY LenProperties, ElementOfSeq DEF Books
  <2>3. \A i \in DOMAIN book : b[i] = IF book[i].endpoint = r.endpoint
                                     THEN Merge(book[i], r) ELSE book[i]
    OBVIOUS
  <2>4. DOMAIN b = DOMAIN book
    OBVIOUS
  <2> HIDE DEF b
  <2>5. ASSUME NEW i \in DOMAIN book
        PROVE  /\ b[i] \in Rec /\ b[i].endpoint = book[i].endpoint
               /\ book[i].manual => b[i].manual
               /\ b[i].failures <= book[i].failures
    <3>1. book[i] \in Rec /\ book[i].failures \in Nat
      BY <2>2 DEF Rec
    <3>2. CASE book[i].endpoint = r.endpoint
      BY <3>1, <3>2, <2>3, MergeFacts
    <3>3. CASE book[i].endpoint # r.endpoint
      BY <3>1, <3>3, <2>3
    <3> QED BY <3>2, <3>3
  <2>6. b \in Seq(Rec)
    <3>1. b = [i \in 1 .. Len(book) |-> b[i]]
      BY <2>1, <2>2 DEF b
    <3>2. b \in [1 .. Len(book) -> Rec]
      BY <2>2, <2>4, <2>5, <3>1
    <3> QED BY <2>2, <3>2, SeqDef
  <2>7. Distinct(b)
    BY <2>2, <2>4, <2>5 DEF Distinct
  <2>8. Keeps(book, b)
    BY <2>4, <2>5 DEF Keeps
  <2>9. Has(b, r)
    <3>1. PICK i \in DOMAIN book : book[i].endpoint = r.endpoint
      BY <1>2 DEF PlaceOf
    <3>2. b[i] = Merge(book[i], r) /\ book[i] \in Rec
      BY <3>1, <2>2, <2>3
    <3>3. b[i].endpoint = r.endpoint /\ (r.manual => b[i].manual) /\ b[i].failures <= r.failures
      BY <3>1, <3>2, MergeFacts
    <3> QED BY <2>4, <3>1, <3>3 DEF Has
  <2> QED BY <2>1, <2>6, <2>7, <2>8, <2>9 DEF Books
<1> QED BY <1>1, <1>2

\* So does add_if_missing.
LEMMA AddIfMissingFacts ==
    ASSUME NEW book \in Books, NEW r \in Rec
    PROVE  AddIfMissing(book, r) \in Books
BY AppendRecord DEF AddIfMissing

\* The books between the records that AddAll adds.
LEMMA FoldUpdate ==
    ASSUME NEW book \in Books, NEW records \in Seq(Rec)
    PROVE  \E f \in [0 .. Len(records) -> Books] :
             /\ f[0] = book
             /\ \A k \in 1 .. Len(records) : f[k] = AddOrUpdate(f[k - 1], records[k])
             /\ AddAll(book, records, AddOrUpdate) = f[Len(records)]
<1> DEFINE N == Len(records)
           Step == [k \in 1 .. N |-> [b \in Books |-> AddOrUpdate(b, records[k])]]
           Fits(f) == f = [k \in 0 .. N |-> IF k = 0 THEN book ELSE AddOrUpdate(f[k - 1], records[k])]
<1>1. N \in Nat /\ \A k \in 1 .. N : records[k] \in Rec
  BY LenProperties, ElementOfSeq
<1>2. Step \in Steps(N, Books)
  BY <1>1, AddOrUpdateFacts DEF Steps
<1>3. \A k \in 1 .. N : \A b \in Books : Step[k][b] = AddOrUpdate(b, records[k])
  OBVIOUS
<1> HIDE DEF Step, N
<1> DEFINE S == Books
<1>4. PICK f \in [0 .. N -> Books] : f[0] = book /\ \A k \in 1 .. N : f[k] = Step[k][f[k - 1]]
  <2>1. book \in S /\ Step \in Steps(N, S)
    BY <1>2
  <2>2. \E f \in [0 .. N -> S] : f[0] = book /\ \A k \in 1 .. N : f[k] = Step[k][f[k - 1]]
    <3> HIDE DEF S
    <3> QED BY <1>1, <2>1, Recursion DEF Follows
  <2> QED BY <2>2
<1>5. Fits(f)
  <2>1. \A k \in 1 .. N : f[k - 1] \in Books
    BY <1>1
  <2>2. \A k \in 0 .. N : f[k] = IF k = 0 THEN book ELSE AddOrUpdate(f[k - 1], records[k])
    BY <1>1, <1>3, <1>4, <2>1
  <2>3. f = [k \in 0 .. N |-> f[k]]
    OBVIOUS
  <2> QED BY <2>2, <2>3
<1> DEFINE g == CHOOSE h : Fits(h)
<1>6. Fits(g)
  <2> HIDE DEF Fits
  <2> QED BY <1>5
<1>7. AddAll(book, records, AddOrUpdate) = g[N]
  BY DEF AddAll, N
<1>8. \A h : Fits(h) => h[0] = book /\ \A k \in 1 .. N : h[k] = AddOrUpdate(h[k - 1], records[k])
  BY <1>1
<1> HIDE DEF Fits, g
<1>9. g \in [0 .. N -> Books]
  <2> DEFINE T == {k \in 0 .. N : g[k] \in Books}
  <2>1. 0 \in T
    BY <1>1, <1>6, <1>8
  <2>2. \A k \in 1 .. N : k - 1 \in T => k \in T
    BY <1>1, <1>6, <1>8, AddOrUpdateFacts
  <2>3. \A k \in 0 .. N : k \in T
    <3> HIDE DEF T
    <3> QED BY <1>1, <2>1, <2>2, UpTo
  <2>4. g = [k \in 0 .. N |-> g[k]]
    BY <1>6 DEF Fits
  <2> QED BY <2>3, <2>4
<1> QED BY <1>6, <1>7, <1>8, <1>9 DEF N

\* What is in a book.
LEMMA BookFacts ==
    ASSUME NEW book \in Books
    PROVE  /\ book \in Seq(Rec) /\ Distinct(book) /\ Len(book) \in Nat
           /\ DOMAIN book = 1 .. Len(book)
           /\ \A i \in DOMAIN book : /\ book[i] \in Rec
                                     /\ book[i].endpoint \in Endpoint
                                     /\ book[i].success \in Int /\ book[i].seen \in Int
                                     /\ book[i].failures \in Nat /\ book[i].manual \in BOOLEAN
<1>1. book \in Seq(Rec) /\ Distinct(book)
  BY DEF Books
<1>2. Len(book) \in Nat /\ DOMAIN book = 1 .. Len(book)
  BY <1>1, LenProperties
<1>3. \A i \in DOMAIN book : book[i] \in Rec
  BY <1>1, <1>2, ElementOfSeq
<1> QED BY <1>1, <1>2, <1>3 DEF Rec

\* Keeps is a preorder, and what has arrived stays.
LEMMA KeepsSame ==
    ASSUME NEW book \in Books
    PROVE  Keeps(book, book)
<1>1. \A i \in DOMAIN book : book[i].failures \in Nat
  BY BookFacts
<1>2. \A i \in DOMAIN book : book[i].failures <= book[i].failures
  BY <1>1
<1> QED BY <1>2 DEF Keeps

LEMMA KeepsOn ==
    ASSUME NEW a \in Books, NEW b \in Books, NEW c \in Books, Keeps(a, b), Keeps(b, c)
    PROVE  Keeps(a, c)
<1> SUFFICES ASSUME NEW i \in DOMAIN a
             PROVE  /\ i \in DOMAIN c /\ c[i].endpoint = a[i].endpoint
                    /\ a[i].manual => c[i].manual
                    /\ c[i].failures <= a[i].failures
  BY DEF Keeps
<1>1. /\ i \in DOMAIN b /\ b[i].endpoint = a[i].endpoint
      /\ a[i].manual => b[i].manual
      /\ b[i].failures <= a[i].failures
  BY DEF Keeps
<1>2. /\ i \in DOMAIN c /\ c[i].endpoint = b[i].endpoint
      /\ b[i].manual => c[i].manual
      /\ c[i].failures <= b[i].failures
  BY <1>1 DEF Keeps
<1>3. a[i].failures \in Nat /\ b[i].failures \in Nat /\ c[i].failures \in Nat
  BY <1>1, <1>2, BookFacts
<1> QED BY <1>1, <1>2, <1>3

LEMMA HasKept ==
    ASSUME NEW a \in Books, NEW b \in Books, NEW r \in Rec, Keeps(a, b), Has(a, r)
    PROVE  Has(b, r)
<1>1. PICK i \in DOMAIN a : /\ a[i].endpoint = r.endpoint
                            /\ r.manual => a[i].manual
                            /\ a[i].failures <= r.failures
  BY DEF Has
<1>2. /\ i \in DOMAIN b /\ b[i].endpoint = a[i].endpoint
      /\ a[i].manual => b[i].manual
      /\ b[i].failures <= a[i].failures
  BY DEF Keeps
<1>3. a[i].failures \in Nat /\ b[i].failures \in Nat /\ r.failures \in Nat
  <2>1. r.failures \in Nat
    BY DEF Rec
  <2> QED BY <2>1, <1>1, <1>2, BookFacts
<1>4. b[i].failures <= r.failures
  BY <1>1, <1>2, <1>3
<1> QED BY <1>1, <1>2, <1>4 DEF Has

\* Records added one after the other all arrive, and nothing of the book is lost.
LEMMA UpdateAll ==
    ASSUME NEW book \in Books, NEW records \in Seq(Rec)
    PROVE  /\ AddAll(book, records, AddOrUpdate) \in Books
           /\ Keeps(book, AddAll(book, records, AddOrUpdate))
           /\ \A k \in 1 .. Len(records) : Has(AddAll(book, records, AddOrUpdate), records[k])
<1> DEFINE N == Len(records)
           all == AddAll(book, records, AddOrUpdate)
<1>1. PICK f \in [0 .. N -> Books] :
        /\ f[0] = book
        /\ \A k \in 1 .. N : f[k] = AddOrUpdate(f[k - 1], records[k])
        /\ all = f[N]
  BY FoldUpdate
<1>2. N \in Nat /\ \A k \in 1 .. N : records[k] \in Rec
  BY LenProperties, ElementOfSeq
<1> HIDE DEF all, N
<1>3. \A k \in 0 .. N : f[k] \in Books
  BY <1>1
<1>4. \A k \in 1 .. N : Keeps(f[k - 1], f[k]) /\ Has(f[k], records[k])
  <2> TAKE k \in 1 .. N
  <2>1. f[k - 1] \in Books /\ records[k] \in Rec /\ f[k] = AddOrUpdate(f[k - 1], records[k])
    BY <1>1, <1>2, <1>3
  <2> QED BY <2>1, AddOrUpdateFacts
<1> DEFINE T == {k \in 0 .. N : /\ Keeps(book, f[k])
                                /\ \A j \in 1 .. k : Has(f[k], records[j])}
<1>5. 0 \in T
  BY <1>1, <1>2, KeepsSame
<1>6. ASSUME NEW k \in 1 .. N, k - 1 \in T PROVE k \in T
  <2>1. /\ f[k - 1] \in Books /\ f[k] \in Books /\ Keeps(f[k - 1], f[k]) /\ Has(f[k], records[k])
        /\ Keeps(book, f[k - 1]) /\ \A j \in 1 .. (k - 1) : Has(f[k - 1], records[j])
    BY <1>2, <1>3, <1>4, <1>6
  <2>2. Keeps(book, f[k])
    BY <2>1, KeepsOn
  <2>3. ASSUME NEW j \in 1 .. k PROVE Has(f[k], records[j])
    <3>1. CASE j = k
      BY <2>1, <3>1
    <3>2. CASE j # k
      <4>1. j \in 1 .. (k - 1) /\ records[j] \in Rec
        BY <1>2, <3>2
      <4> QED BY <2>1, <4>1, HasKept
    <3> QED BY <3>1, <3>2
  <2> QED BY <2>2, <2>3
<1> HIDE DEF T
<1>7. N \in T
  <2>1. N \in Nat /\ N \in 0 .. N
    BY <1>2
  <2>2. \A k \in 0 .. N : k \in T
    BY <2>1, <1>5, <1>6, UpTo
  <2> QED BY <2>1, <2>2
<1>8. N \in 0 .. N
  BY <1>2
<1> QED BY <1>1, <1>3, <1>7, <1>8 DEF T, N, all

\* A new node has an empty book.
LEMMA EmptyBook == <<>> \in Books
BY EmptySeq DEF Books, Distinct

\* A file with one record an endpoint is read as it was written.
LEMMA LoadSame ==
    ASSUME NEW file \in Books
    PROVE  Load(file) = file
<1> DEFINE N == Len(file)
<1>1. /\ file \in Seq(Rec) /\ Distinct(file) /\ N \in Nat /\ DOMAIN file = 1 .. N
      /\ \A k \in 1 .. N : file[k] \in Rec
  BY LenProperties, ElementOfSeq DEF Books
<1>2. PICK f \in [0 .. N -> Books] :
        /\ f[0] = <<>>
        /\ \A k \in 1 .. N : f[k] = AddOrUpdate(f[k - 1], file[k])
        /\ Load(file) = f[N]
  BY <1>1, EmptyBook, FoldUpdate DEF Load
<1> HIDE DEF N
<1>3. \A k \in 0 .. N : f[k] \in Books
  BY <1>2
<1> DEFINE T == {k \in 0 .. N : Len(f[k]) = k /\ \A i \in 1 .. k : f[k][i] = file[i]}
<1>4. 0 \in T
  BY <1>1, <1>2, EmptySeq
<1>5. ASSUME NEW k \in 1 .. N, k - 1 \in T PROVE k \in T
  <2> DEFINE g == f[k - 1]
  <2>1. /\ g \in Seq(Rec) /\ Len(g) = k - 1 /\ DOMAIN g = 1 .. (k - 1) /\ k - 1 \in Nat
        /\ \A i \in 1 .. (k - 1) : g[i] = file[i]
    BY <1>3, <1>5, LenProperties DEF Books
  <2>2. f[k] = AddOrUpdate(g, file[k]) /\ file[k] \in Rec
    BY <1>1, <1>2
  <2> HIDE DEF g, T
  <2>3. \A i \in 1 .. (k - 1) : i \in 1 .. N /\ i # k
    BY <1>1
  <2>4. \A i \in 1 .. (k - 1) : g[i].endpoint # file[k].endpoint
    BY <1>1, <2>1, <2>3 DEF Distinct
  <2>5. f[k] = Append(g, file[k])
    BY <2>1, <2>2, <2>4 DEF AddOrUpdate, PlaceOf
  <2>6. Len(f[k]) = k /\ f[k][k] = file[k] /\ \A i \in 1 .. (k - 1) : f[k][i] = file[i]
    BY <2>1, <2>2, <2>5, AppendProperties
  <2>7. \A i \in 1 .. k : f[k][i] = file[i]
    BY <2>6
  <2> QED BY <2>6, <2>7 DEF T
<1> HIDE DEF T
<1>6. N \in T
  BY <1>1, <1>4, <1>5, UpTo
<1>7. N \in 0 .. N /\ f[N] \in Seq(Rec)
  BY <1>1, <1>3 DEF Books
<1>8. Len(f[N]) = Len(file) /\ \A i \in 1 .. Len(f[N]) : f[N][i] = file[i]
  BY <1>6 DEF T, N
<1> QED BY <1>1, <1>2, <1>7, <1>8, SeqEqual

\* The compiled and the resolved endpoints of a first start.
LEMMA MissingAll ==
    ASSUME NEW book \in Books, NEW records \in Seq(Rec)
    PROVE  AddAll(book, records, AddIfMissing) \in Books
<1> DEFINE N == Len(records)
           Step == [k \in 1 .. N |-> [b \in Books |-> AddIfMissing(b, records[k])]]
           Fits(f) == f = [k \in 0 .. N |-> IF k = 0 THEN book ELSE AddIfMissing(f[k - 1], records[k])]
<1>1. N \in Nat /\ \A k \in 1 .. N : records[k] \in Rec
  BY LenProperties, ElementOfSeq
<1>2. Step \in Steps(N, Books)
  BY <1>1, AddIfMissingFacts DEF Steps
<1>3. \A k \in 1 .. N : \A b \in Books : Step[k][b] = AddIfMissing(b, records[k])
  OBVIOUS
<1> HIDE DEF Step, N
<1> DEFINE S == Books
<1>4. PICK f \in [0 .. N -> Books] : f[0] = book /\ \A k \in 1 .. N : f[k] = Step[k][f[k - 1]]
  <2>1. book \in S /\ Step \in Steps(N, S)
    BY <1>2
  <2>2. \E f \in [0 .. N -> S] : f[0] = book /\ \A k \in 1 .. N : f[k] = Step[k][f[k - 1]]
    <3> HIDE DEF S
    <3> QED BY <1>1, <2>1, Recursion DEF Follows
  <2> QED BY <2>2
<1>5. Fits(f)
  <2>1. \A k \in 1 .. N : f[k - 1] \in Books
    BY <1>1
  <2>2. \A k \in 0 .. N : f[k] = IF k = 0 THEN book ELSE AddIfMissing(f[k - 1], records[k])
    BY <1>1, <1>3, <1>4, <2>1
  <2>3. f = [k \in 0 .. N |-> f[k]]
    OBVIOUS
  <2> QED BY <2>2, <2>3
<1> DEFINE g == CHOOSE h : Fits(h)
<1>6. Fits(g)
  <2> HIDE DEF Fits
  <2> QED BY <1>5
<1>7. AddAll(book, records, AddIfMissing) = g[N]
  BY DEF AddAll, N
<1>8. \A h : Fits(h) => h[0] = book /\ \A k \in 1 .. N : h[k] = AddIfMissing(h[k - 1], records[k])
  BY <1>1
<1> HIDE DEF Fits, g
<1> DEFINE T == {k \in 0 .. N : g[k] \in Books}
<1>9. 0 \in T
  BY <1>1, <1>6, <1>8
<1>10. \A k \in 1 .. N : k - 1 \in T => k \in T
  BY <1>1, <1>6, <1>8, AddIfMissingFacts
<1>11. N \in Nat /\ N \in 0 .. N
  BY <1>1
<1> HIDE DEF T
<1>12. \A k \in 0 .. N : k \in T
  BY <1>9, <1>10, <1>11, UpTo
<1> QED BY <1>7, <1>11, <1>12 DEF T

\* A book in which every record keeps its place, its endpoint and its name.
KeepsNames(old, new) ==
    \A i \in DOMAIN old :
        /\ i \in DOMAIN new /\ new[i].endpoint = old[i].endpoint
        /\ old[i].manual => new[i].manual

\* Records that are changed in place.
LEMMA Changed ==
    ASSUME NEW book \in Books, NEW b, b = [i \in DOMAIN book |-> b[i]],
           \A i \in DOMAIN book : /\ b[i] \in Rec /\ b[i].endpoint = book[i].endpoint
                                  /\ b[i].manual = book[i].manual
    PROVE  b \in Books /\ KeepsNames(book, b)
<1>1. DOMAIN b = DOMAIN book
  OBVIOUS
<1>2. b \in [1 .. Len(book) -> Rec]
  BY BookFacts
<1>3. b \in Seq(Rec)
  BY <1>2, BookFacts, SeqDef
<1>4. Distinct(b)
  BY <1>1, BookFacts DEF Distinct
<1>5. KeepsNames(book, b)
  BY <1>1 DEF KeepsNames
<1> QED BY <1>3, <1>4, <1>5 DEF Books

\* A peer that answers has a record: its record is changed in place.
LEMMA MarkSuccessFacts ==
    ASSUME NEW book \in Books, NEW e \in Endpoint, now \in Nat, PlaceOf(book, e) # {}
    PROVE  MarkSuccess(book, e) \in Books /\ KeepsNames(book, MarkSuccess(book, e))
<1> DEFINE b == MarkSuccess(book, e)
<1>1. b = [i \in DOMAIN book |->
            IF book[i].endpoint # e THEN book[i]
            ELSE [book[i] EXCEPT !.seen = now, !.success = now, !.failures = 0]]
  BY DEF MarkSuccess
<1>2. b = [i \in DOMAIN book |-> b[i]]
  BY <1>1
<1>3. ASSUME NEW i \in DOMAIN book
      PROVE  /\ b[i] \in Rec /\ b[i].endpoint = book[i].endpoint
             /\ b[i].manual = book[i].manual
  <2>1. book[i] \in Rec
    BY BookFacts
  <2>2. CASE book[i].endpoint # e
    BY <1>1, <2>1, <2>2
  <2>3. CASE book[i].endpoint = e
    <3>1. b[i] = [book[i] EXCEPT !.seen = now, !.success = now, !.failures = 0]
      BY <1>1, <2>3
    <3>3. now \in Int /\ 0 \in Nat /\ book[i].endpoint \in Endpoint /\ book[i].manual \in BOOLEAN
      BY <2>1 DEF Rec
    <3>4. b[i] = [endpoint |-> book[i].endpoint, seen |-> now, success |-> now,
                  failures |-> 0, manual |-> book[i].manual]
    <4> DEFINE m == b[i]
               old == book[i]
    <4>1. m = [old EXCEPT !.seen = now, !.success = now, !.failures = 0] /\ old \in Rec
      BY <2>1, <3>1
    <4> HIDE DEF m, old
    <4>2. m = [endpoint |-> old.endpoint, seen |-> now, success |-> now,
               failures |-> 0, manual |-> old.manual]
      BY <4>1 DEF Rec
    <4> QED BY <4>2 DEF m, old
    <3> HIDE DEF b
    <3>5. b[i] \in Rec
      BY <3>3, <3>4 DEF Rec
    <3> QED BY <3>4, <3>5
  <2> QED BY <2>2, <2>3
<1> HIDE DEF b
<1>4. b \in Books /\ KeepsNames(book, b)
  BY <1>2, <1>3, Changed
<1> QED BY <1>4 DEF b

\* One that does not gets one failure more, up to the limit.
LEMMA MarkFailureFacts ==
    ASSUME NEW book \in Books, NEW e \in Endpoint
    PROVE  MarkFailure(book, e) \in Books /\ KeepsNames(book, MarkFailure(book, e))
<1> DEFINE b == MarkFailure(book, e)
<1>1. b = [i \in DOMAIN book |->
            IF book[i].endpoint # e THEN book[i]
            ELSE [book[i] EXCEPT !.failures = Smaller(@ + 1, FailureLimit)]]
  BY DEF MarkFailure
<1>2. b = [i \in DOMAIN book |-> b[i]]
  BY <1>1
<1>3. ASSUME NEW i \in DOMAIN book
      PROVE  /\ b[i] \in Rec /\ b[i].endpoint = book[i].endpoint
             /\ b[i].manual = book[i].manual
  <2>1. book[i] \in Rec
    BY BookFacts
  <2>2. CASE book[i].endpoint # e
    BY <1>1, <2>1, <2>2
  <2>3. CASE book[i].endpoint = e
    <3> DEFINE failures == Smaller(book[i].failures + 1, FailureLimit)
    <3>1. b[i] = [book[i] EXCEPT !.failures = failures]
      BY <1>1, <2>3
    <3>2. failures \in Nat
      BY <2>1, BookAssumption DEF Rec, Smaller
    <3> HIDE DEF failures
    <3> QED BY <2>1, <3>1, <3>2 DEF Rec
  <2> QED BY <2>2, <2>3
<1> HIDE DEF b
<1>4. b \in Books /\ KeepsNames(book, b)
  BY <1>2, <1>3, Changed
<1> QED BY <1>4 DEF b

\* Earlier is a strict total order of the records, and named ones come first.
LEMMA EarlierFacts ==
    ASSUME NEW book \in Books, NEW i \in DOMAIN book, NEW j \in DOMAIN book
    PROVE  /\ ~Earlier(book, i, i)
           /\ i # j => Earlier(book, i, j) \/ Earlier(book, j, i)
           /\ Earlier(book, i, j) => ~Earlier(book, j, i)
           /\ \A k \in DOMAIN book : Earlier(book, i, j) /\ Earlier(book, j, k) => Earlier(book, i, k)
           /\ ~book[i].manual /\ book[j].manual => Earlier(book, j, i)
<1>1. i \in Int /\ j \in Int /\ \A k \in DOMAIN book : k \in Int
  BY BookFacts
<1>2. \A k \in DOMAIN book : /\ book[k].success \in Int /\ book[k].seen \in Int
                             /\ book[k].failures \in Nat /\ book[k].manual \in BOOLEAN
  BY BookFacts
<1>3. ~Earlier(book, i, i)
  BY <1>1, <1>2 DEF Earlier, Before
<1>4. i # j => Earlier(book, i, j) \/ Earlier(book, j, i)
  BY <1>1, <1>2 DEF Earlier, Before
<1>5. Earlier(book, i, j) => ~Earlier(book, j, i)
  BY <1>1, <1>2 DEF Earlier, Before
<1>6. ASSUME NEW k \in DOMAIN book, Earlier(book, i, j), Earlier(book, j, k)
      PROVE  Earlier(book, i, k)
  BY <1>1, <1>2, <1>6 DEF Earlier, Before
<1>7. ~book[i].manual /\ book[j].manual => Earlier(book, j, i)
  BY <1>1, <1>2 DEF Earlier, Before
<1> QED BY <1>3, <1>4, <1>5, <1>6, <1>7

\* A set of numbers has a least one.
LEMMA LeastNumber ==
    ASSUME NEW S, S \in SUBSET Nat, S # {}
    PROVE  \E m \in S : \A n \in S : m <= n
<1>1. PICK m \in S : \A n \in S : <<n, m>> \notin OpToRel(<, Nat)
  BY WFMin, NatLessThanWellFounded
<1>2. \A n \in S : ~(n < m)
  BY <1>1 DEF OpToRel
<1> QED BY <1>2

\* The place of record i among the eligible ones.
Rank(book, excluded, i) == Cardinality(Ahead(book, excluded, i))

\* A record that comes before another has a lower place.
LEMMA RankFacts ==
    ASSUME NEW book \in Books, NEW excluded
    PROVE  /\ IsFiniteSet(Eligible(book, excluded))
           /\ Eligible(book, excluded) \subseteq DOMAIN book
           /\ \A k \in Eligible(book, excluded) : /\ IsFiniteSet(Ahead(book, excluded, k))
                                        /\ Rank(book, excluded, k) \in Nat
                                        /\ Rank(book, excluded, k) <= Cardinality(Eligible(book, excluded))
           /\ \A j, k \in Eligible(book, excluded) :
                Earlier(book, j, k) => Rank(book, excluded, j) < Rank(book, excluded, k)
<1> DEFINE E == Eligible(book, excluded)
<1>1. E \subseteq DOMAIN book
  BY DEF Eligible
<1>2. IsFiniteSet(E)
  <2>1. IsFiniteSet(1 .. Len(book))
    BY BookFacts, FS_Interval
  <2> HIDE DEF E
  <2> QED BY <2>1, <1>1, BookFacts, FS_Subset
<1>3. ASSUME NEW k \in E
      PROVE  /\ IsFiniteSet(Ahead(book, excluded, k)) /\ Rank(book, excluded, k) \in Nat
             /\ Rank(book, excluded, k) <= Cardinality(E)
  <2>1. Ahead(book, excluded, k) \in SUBSET E
    BY DEF Ahead
  <2> HIDE DEF E
  <2>2. /\ IsFiniteSet(Ahead(book, excluded, k)) /\ Cardinality(Ahead(book, excluded, k)) <= Cardinality(E)
    BY <2>1, <1>2, FS_Subset
  <2> QED BY <2>2, FS_CardinalityType DEF Rank
<1>4. ASSUME NEW j \in E, NEW k \in E, Earlier(book, j, k)
      PROVE  Rank(book, excluded, j) < Rank(book, excluded, k)
  <2> DEFINE A == Ahead(book, excluded, j)
             B == Ahead(book, excluded, k)
  <2>1. j \in DOMAIN book /\ k \in DOMAIN book
    BY <1>1
  <2>2. j \in B /\ j \notin A
    BY <1>4, <2>1, EarlierFacts DEF Ahead
  <2>3. ASSUME NEW i \in A PROVE i \in B
    <3>1. i \in E /\ i \in DOMAIN book /\ Earlier(book, i, j)
      BY <1>1 DEF Ahead
    <3>2. Earlier(book, i, k)
      BY <3>1, <2>1, <1>4, EarlierFacts
    <3> QED BY <3>1, <3>2 DEF Ahead
  <2>4. /\ IsFiniteSet(A) /\ IsFiniteSet(B)
        /\ Cardinality(A) \in Nat /\ Cardinality(B) \in Nat
    BY <1>3, FS_CardinalityType
  <2> HIDE DEF A, B
  <2>5. A \in SUBSET (B \ {j})
    BY <2>2, <2>3
  <2>6. IsFiniteSet(B \ {j}) /\ Cardinality(B \ {j}) = Cardinality(B) - 1
    BY <2>2, <2>4, FS_RemoveElement
  <2>7. Cardinality(A) <= Cardinality(B \ {j})
    BY <2>5, <2>6, FS_Subset
  <2>8. Cardinality(A) < Cardinality(B)
    BY <2>4, <2>6, <2>7
  <2> QED BY <2>8 DEF Rank, A, B
<1> QED BY <1>1, <1>2, <1>3, <1>4

\* The eligible records that are selected.
Low(book, excluded) == {k \in Eligible(book, excluded) : Rank(book, excluded, k) < MaxOutbound}

\* If an eligible record is left out, the limit is spent: those before the first
\* that is left out are selected, and there are as many; and of the selected ones
\* all but the last come before it.
LEMMA LowFull ==
    ASSUME NEW book \in Books, NEW excluded, NEW i \in Eligible(book, excluded), i \notin Low(book, excluded)
    PROVE  IsFiniteSet(Low(book, excluded)) /\ Cardinality(Low(book, excluded)) = MaxOutbound
<1> DEFINE E == Eligible(book, excluded)
           L == Low(book, excluded)
           out == {Rank(book, excluded, k) : k \in E \ L}
           from == {Cardinality(E) - Rank(book, excluded, k) : k \in L}
<1>1. MaxOutbound \in Nat /\ IsFiniteSet(E) /\ E \subseteq DOMAIN book /\ Cardinality(E) \in Nat
  BY BookAssumption, RankFacts, FS_CardinalityType
<1>2. \A k \in E : /\ IsFiniteSet(Ahead(book, excluded, k))
                   /\ Rank(book, excluded, k) \in Nat /\ Rank(book, excluded, k) <= Cardinality(E)
                   /\ (k \in L <=> Rank(book, excluded, k) < MaxOutbound)
  BY RankFacts DEF Low
<1>3. \A j, k \in E : Earlier(book, j, k) => Rank(book, excluded, j) < Rank(book, excluded, k)
  BY RankFacts
<1>4. L \in SUBSET E
  BY DEF Low
<1> HIDE DEF E, L
<1>5. IsFiniteSet(L) /\ Cardinality(L) \in Nat
  BY <1>1, <1>4, FS_Subset, FS_CardinalityType
<1>6. Cardinality(L) >= MaxOutbound
  <2>1. out \in SUBSET Nat /\ out # {}
    BY <1>2, <1>4 DEF E, L
  <2>2. PICK r \in out : \A n \in out : r <= n
    <3> HIDE DEF out
    <3> QED BY <2>1, LeastNumber
  <2>3. PICK m \in E \ L : r = Rank(book, excluded, m)
    OBVIOUS
  <2>4. \A k \in E \ L : Rank(book, excluded, m) <= Rank(book, excluded, k)
    BY <2>2, <2>3
  <2>5. ASSUME NEW j \in Ahead(book, excluded, m) PROVE j \in L
    <3>1. j \in E /\ Earlier(book, j, m)
      BY DEF Ahead, E
    <3>2. Rank(book, excluded, j) < Rank(book, excluded, m)
      BY <1>3, <2>3, <3>1
    <3>3. Rank(book, excluded, j) \in Nat /\ Rank(book, excluded, m) \in Nat
      BY <1>2, <2>3, <3>1
    <3> HIDE DEF out, from
    <3> QED BY <2>4, <3>1, <3>2, <3>3
  <2>6. Rank(book, excluded, m) <= Cardinality(L)
    <3>1. Ahead(book, excluded, m) \in SUBSET L
      BY <2>5
    <3> QED BY <3>1, <1>5, FS_Subset DEF Rank
  <2>7. Rank(book, excluded, m) \in Nat /\ ~(Rank(book, excluded, m) < MaxOutbound)
    BY <1>2, <2>3
  <2> QED BY <1>1, <1>5, <2>6, <2>7
<1>7. Cardinality(L) <= MaxOutbound
  <2>1. CASE L = {}
    BY <1>1, <2>1, FS_EmptySet
  <2>2. CASE L # {}
    <3>1. \A k \in L : Cardinality(E) - Rank(book, excluded, k) \in Nat
      BY <1>1, <1>2, <1>4
    <3>2. from \in SUBSET Nat /\ from # {}
      BY <3>1, <2>2
    <3>3. PICK r \in from : \A n \in from : r <= n
      <4> HIDE DEF from
      <4> QED BY <3>2, LeastNumber
    <3>4. PICK g \in L : r = Cardinality(E) - Rank(book, excluded, g)
      OBVIOUS
    <3>5. \A k \in L : Cardinality(E) - Rank(book, excluded, g) <= Cardinality(E) - Rank(book, excluded, k)
      BY <3>3, <3>4
    <3> HIDE DEF out, from
    <3>6. \A k \in L : Rank(book, excluded, k) \in Nat /\ Rank(book, excluded, k) <= Rank(book, excluded, g)
      BY <1>1, <1>2, <1>4, <3>5
    <3>7. ASSUME NEW k \in L \ {g} PROVE k \in Ahead(book, excluded, g)
      <4>1. k \in E /\ g \in E /\ k # g /\ k \in DOMAIN book /\ g \in DOMAIN book
        BY <1>1, <1>4, <3>4
      <4>2. ~Earlier(book, g, k)
        <5>1. ~(Rank(book, excluded, g) < Rank(book, excluded, k))
          BY <3>4, <3>6
        <5> QED BY <1>3, <4>1, <5>1
      <4>3. Earlier(book, k, g)
        BY <4>1, <4>2, EarlierFacts
      <4> QED BY <4>1, <4>3 DEF Ahead, E
    <3>8. /\ IsFiniteSet(Ahead(book, excluded, g)) /\ Rank(book, excluded, g) \in Nat
          /\ Rank(book, excluded, g) < MaxOutbound
      BY <1>2, <1>4, <3>4
    <3>9. Cardinality(L \ {g}) <= Rank(book, excluded, g)
      <4>1. L \ {g} \in SUBSET Ahead(book, excluded, g)
        BY <3>7
      <4> QED BY <4>1, <3>8, FS_Subset DEF Rank
    <3>10. Cardinality(L \ {g}) = Cardinality(L) - 1
      BY <1>5, <3>4, FS_RemoveElement
    <3> QED BY <1>1, <1>5, <3>8, <3>9, <3>10
  <2> QED BY <2>1, <2>2
<1> QED BY <1>1, <1>5, <1>6, <1>7 DEF L

\* A configured record that may be selected is selected, or the limit is spent on
\* other configured ones.
LEMMA NamedSelected ==
    ASSUME NEW book \in Books, NEW excluded, NEW i \in Eligible(book, excluded), book[i].manual
    PROVE  \/ book[i].endpoint \in SelectOutbound(book, excluded)
           \/ /\ Cardinality(SelectOutbound(book, excluded)) = MaxOutbound
              /\ \A p \in ToSet(book) : p.endpoint \in SelectOutbound(book, excluded) => p.manual
<1> DEFINE L == Low(book, excluded)
           chosen == SelectOutbound(book, excluded)
           place == [k \in L |-> book[k].endpoint]
<1>1. chosen = {book[k].endpoint : k \in L}
  BY DEF SelectOutbound, Low, Rank
<1>2. CASE i \in L
  BY <1>1, <1>2
<1>3. CASE i \notin L
  <2>1. IsFiniteSet(L) /\ Cardinality(L) = MaxOutbound
    BY <1>3, LowFull
  <2>2. L \subseteq Eligible(book, excluded) /\ L \subseteq DOMAIN book
    BY RankFacts DEF Low
  <2>3. \A a, b \in DOMAIN book : book[a].endpoint = book[b].endpoint => a = b
    BY BookFacts DEF Distinct
  <2>4. place \in Bijection(L, chosen)
    <3>1. place \in [L -> chosen] /\ \A c \in chosen : \E k \in L : place[k] = c
      BY <1>1
    <3>2. \A a, b \in L : place[a] = place[b] => a = b
      BY <2>2, <2>3
    <3> HIDE DEF place, L, chosen
    <3>3. place \in Injection(L, chosen)
      BY <3>1, <3>2 DEF Injection, IsInjective
    <3>4. place \in Surjection(L, chosen)
      BY <3>1 DEF Surjection
    <3> QED BY <3>3, <3>4 DEF Bijection
  <2>5. Cardinality(chosen) = MaxOutbound
    <3>1. ExistsBijection(L, chosen)
      BY <2>4 DEF ExistsBijection
    <3> HIDE DEF L, chosen
    <3> QED BY <2>1, <3>1, FS_Bijection
  <2>6. ASSUME NEW k \in L PROVE book[k].manual
    <3> SUFFICES ASSUME ~book[k].manual PROVE FALSE
      OBVIOUS
    <3>1. k \in Eligible(book, excluded) /\ k \in DOMAIN book /\ i \in DOMAIN book
      BY <2>2, RankFacts
    <3>2. Earlier(book, i, k)
      BY <3>1, EarlierFacts
    <3>3. /\ Rank(book, excluded, i) < Rank(book, excluded, k)
          /\ Rank(book, excluded, i) \in Nat /\ Rank(book, excluded, k) \in Nat
      BY <3>1, <3>2, RankFacts
    <3>4. Rank(book, excluded, k) < MaxOutbound /\ ~(Rank(book, excluded, i) < MaxOutbound)
      BY <1>3 DEF Low
    <3> QED BY <3>3, <3>4, BookAssumption
  <2>7. ASSUME NEW p \in ToSet(book), p.endpoint \in chosen PROVE p.manual
    <3>1. PICK a \in DOMAIN book : p = book[a]
      BY DEF ToSet
    <3>2. PICK k \in L : p.endpoint = book[k].endpoint
      BY <1>1, <2>7
    <3>3. a = k
      BY <2>2, <2>3, <3>1, <3>2
    <3> QED BY <2>6, <3>1, <3>3
  <2> QED BY <2>5, <2>7
<1> QED BY <1>2, <1>3

\* The endpoints of a book.
Known(book) == {book[i].endpoint : i \in DOMAIN book}

\* No ban lasts longer than one that is given now: the new one ends last.
BansInv ==
    \A b \in bans : b.until \in Int /\ b.until <= now + BanSeconds

\* The inductive invariant.  A dialled peer has a record: an answer, a failure or
\* an address that is heard changes records in place, so none that is selected
\* loses its name.
BookInv ==
    /\ peers \in Books
    /\ asked \subseteq Endpoint
    /\ dialled \subseteq Known(peers)
    /\ NamedIsDialled
    /\ now \in Nat
    /\ BansInv

\* What only moves or names records keeps the selection good.
LEMMA NamesKept ==
    ASSUME BookInv, peers' \in Books, KeepsNames(peers, peers'),
           asked' = asked, mine' = mine, dialled' = dialled
    PROVE  dialled' \subseteq Known(peers)' /\ NamedIsDialled'
<1>1. peers \in Books /\ dialled \subseteq Known(peers) /\ NamedIsDialled
  BY DEF BookInv
<1>2. ASSUME NEW e \in dialled
      PROVE  \E i \in DOMAIN peers : i \in DOMAIN peers' /\ peers[i].endpoint = e /\ peers'[i].endpoint = e
                                     /\ (peers[i].manual => peers'[i].manual)
  BY <1>1, <1>2 DEF Known, KeepsNames
<1>3. dialled' \subseteq Known(peers)'
  BY <1>2 DEF Known
<1>4. \A a, b \in DOMAIN peers' : peers'[a].endpoint = peers'[b].endpoint => a = b
  <2>1. Distinct(peers')
    BY DEF Books
  <2> QED BY <2>1 DEF Distinct
<1>5. ASSUME NEW e \in asked' \ mine', e \notin dialled'
      PROVE  /\ Cardinality(dialled') = MaxOutbound
             /\ \A p \in ToSet(peers') : p.endpoint \in dialled' => p.manual
  <2>1. /\ Cardinality(dialled) = MaxOutbound
        /\ \A p \in ToSet(peers) : p.endpoint \in dialled => p.manual
    BY <1>1, <1>5 DEF NamedIsDialled
  <2>2. ASSUME NEW p \in ToSet(peers'), p.endpoint \in dialled' PROVE p.manual
    <3>1. PICK a \in DOMAIN peers' : p = peers'[a]
      BY DEF ToSet
    <3>2. PICK i \in DOMAIN peers : /\ i \in DOMAIN peers' /\ peers[i].endpoint = p.endpoint
                                    /\ peers'[i].endpoint = p.endpoint
                                    /\ peers[i].manual => peers'[i].manual
      BY <1>2, <2>2
    <3>3. a = i
      BY <1>4, <3>1, <3>2
    <3>4. peers[i] \in ToSet(peers)
      BY DEF ToSet
    <3>5. peers[i].manual
      BY <2>1, <2>2, <3>2, <3>4
    <3> QED BY <3>1, <3>2, <3>3, <3>5
  <2> QED BY <2>1, <2>2
<1>6. NamedIsDialled'
  BY <1>5 DEF NamedIsDialled
<1> QED BY <1>3, <1>6

\* A start with the seeds.
LEMMA BootstrapFacts ==
    ASSUME NEW book \in Books, now \in Nat, NEW resolved \in Seq(Endpoint)
    PROVE  Bootstrap(book, resolved) \in Books
<1> DEFINE ends == Seed \o resolved
           records == [i \in DOMAIN ends |-> Record(ends[i], now, 0, FALSE)]
<1>1. ends \in Seq(Endpoint) /\ Len(ends) \in Nat /\ DOMAIN ends = 1 .. Len(ends)
      /\ \A i \in 1 .. Len(ends) : ends[i] \in Endpoint
  <2>1. ends \in Seq(Endpoint)
    BY BookAssumption, ConcatProperties
  <2> HIDE DEF ends
  <2> QED BY <2>1, LenProperties, ElementOfSeq
<1> HIDE DEF ends
<1>2. \A i \in 1 .. Len(ends) : Record(ends[i], now, 0, FALSE) \in Rec
  BY <1>1 DEF Record, Rec
<1>3. records \in [1 .. Len(ends) -> Rec]
  BY <1>1, <1>2
<1>4. records \in Seq(Rec)
  BY <1>1, <1>3, SeqDef
<1>5. AddAll(book, records, AddIfMissing) \in Books
  <2> HIDE DEF records
  <2> QED BY <1>4, MissingAll
<1> QED BY <1>5 DEF Bootstrap, ends

\* A start.  A named endpoint's record has arrived and is named, with no failures
\* left: it is eligible, and so selected or the limit is spent on named ones.
LEMMA StartStep ==
    ASSUME BookInv, NEW configured \in Seq(Endpoint), NEW resolved \in Seq(Endpoint),
           NEW useSeeds \in BOOLEAN, NEW everywhere \in BOOLEAN,
           StartNode(configured, resolved, useSeeds, everywhere)
    PROVE  BookInv'
<1> DEFINE known == IF useSeeds THEN Bootstrap(Load(peers), resolved) ELSE Load(peers)
           records == [i \in DOMAIN configured |-> Record(configured[i], now, 0, TRUE)]
           told == AddAll(known, records, AddOrUpdate)
           own == Record(Own, now, now, FALSE)
<1>1. /\ peers' = IF everywhere THEN told ELSE AddOrUpdate(told, own)
      /\ asked' = ToSet(configured)
      /\ dialled' = SelectOutbound(peers', mine') /\ bans' = bans /\ now' = now
  BY DEF StartNode
<1>2. known \in Books
  BY LoadSame, BootstrapFacts DEF BookInv
<1>3. /\ Len(configured) \in Nat /\ DOMAIN configured = 1 .. Len(configured)
      /\ \A i \in 1 .. Len(configured) : configured[i] \in Endpoint
  BY LenProperties, ElementOfSeq
<1>4. now \in Nat
  BY DEF BookInv
<1>5. /\ records \in Seq(Rec) /\ Len(records) = Len(configured)
      /\ \A i \in 1 .. Len(configured) : records[i] = Record(configured[i], now, 0, TRUE)
  <2>1. \A i \in 1 .. Len(configured) : Record(configured[i], now, 0, TRUE) \in Rec
    BY <1>3, <1>4 DEF Record, Rec
  <2>2. records \in [1 .. Len(configured) -> Rec]
    BY <1>3, <2>1
  <2>3. records \in Seq(Rec)
    BY <1>3, <2>2, SeqDef
  <2>4. DOMAIN records = 1 .. Len(configured)
    BY <1>3
  <2>5. Len(records) \in Nat /\ DOMAIN records = 1 .. Len(records)
    <3> HIDE DEF records
    <3> QED BY <2>3, LenProperties
  <2>6. Len(records) = Len(configured)
    <3> HIDE DEF records
    <3> QED BY <1>3, <2>4, <2>5
  <2> QED BY <1>3, <2>3, <2>6
<1> HIDE DEF known, records
<1>6. told \in Books /\ \A i \in 1 .. Len(configured) : Has(told, records[i])
  BY <1>2, <1>5, UpdateAll
<1>7. own \in Rec
  BY <1>4, BookAssumption DEF Record, Rec
<1> HIDE DEF told, own
<1>8. peers' \in Books /\ \A i \in 1 .. Len(configured) : Has(peers', records[i])
  <2>1. CASE everywhere
    BY <1>1, <1>6, <2>1
  <2>2. CASE ~everywhere
    <3>1. peers' \in Books /\ Keeps(told, peers')
      BY <1>1, <1>6, <1>7, <2>2, AddOrUpdateFacts
    <3>2. \A i \in 1 .. Len(configured) : records[i] \in Rec
      BY <1>5, <1>3, ElementOfSeq
    <3> QED BY <1>6, <3>1, <3>2, HasKept
  <2> QED BY <2>1, <2>2
<1>9. ASSUME NEW i \in 1 .. Len(configured), configured[i] \notin mine'
      PROVE  \E k \in Eligible(peers', mine') : peers'[k].endpoint = configured[i] /\ peers'[k].manual
  <2>1. /\ records[i].endpoint = configured[i] /\ records[i].manual
        /\ records[i].failures = 0 /\ records[i] \in Rec
    <3>1. records[i] = Record(configured[i], now, 0, TRUE) /\ configured[i] \in Endpoint
      BY <1>3, <1>5
    <3> QED BY <3>1, <1>4 DEF Record, Rec
  <2>2. Has(peers', records[i])
    BY <1>8
  <2>3. PICK k \in DOMAIN peers' : /\ peers'[k].endpoint = records[i].endpoint
                                   /\ records[i].manual => peers'[k].manual
                                   /\ peers'[k].failures <= records[i].failures
    BY <2>2 DEF Has
  <2>4. peers'[k].failures \in Nat
    BY <1>8, BookFacts
  <2>5. peers'[k].failures < FailureLimit
    BY <2>1, <2>3, <2>4, BookAssumption
  <2>6. k \in Eligible(peers', mine')
    BY <1>9, <2>1, <2>3, <2>5 DEF Eligible
  <2> QED BY <2>1, <2>3, <2>6
<1>10. asked' \subseteq Endpoint
  BY <1>1, <1>3 DEF ToSet
<1>11. dialled' \subseteq Known(peers')
  BY <1>1 DEF SelectOutbound, Eligible, Known
<1>12. NamedIsDialled'
  <2>1. ASSUME NEW e \in asked' \ mine', e \notin dialled'
        PROVE  /\ Cardinality(dialled') = MaxOutbound
               /\ \A p \in ToSet(peers') : p.endpoint \in dialled' => p.manual
    <3>1. PICK i \in 1 .. Len(configured) : e = configured[i]
      BY <1>1, <1>3 DEF ToSet
    <3>2. PICK k \in Eligible(peers', mine') : peers'[k].endpoint = e /\ peers'[k].manual
      BY <1>9, <2>1, <3>1
    <3> QED BY <1>1, <1>8, <2>1, <3>2, NamedSelected
  <2> QED BY <2>1 DEF NamedIsDialled
<1>13. now' \in Nat /\ BansInv'
  BY <1>1 DEF BookInv, BansInv
<1> QED BY <1>8, <1>10, <1>11, <1>12, <1>13 DEF BookInv, Known

\* The other handlers.
LEMMA ConnectedStep ==
    ASSUME BookInv, NEW e \in dialled, Connected(e)
    PROVE  BookInv'
<1>1. peers \in Books /\ e \in Endpoint /\ PlaceOf(peers, e) # {} /\ now \in Nat
  BY BookFacts DEF BookInv, Known, PlaceOf
<1>2. peers' = MarkSuccess(peers, e) /\ UNCHANGED <<bans, now, asked, mine, dialled>>
  BY <1>1, LoadSame DEF Connected
<1>3. peers' \in Books /\ KeepsNames(peers, peers')
  BY <1>1, <1>2, MarkSuccessFacts
<1>4. dialled' \subseteq Known(peers)' /\ NamedIsDialled'
  BY <1>2, <1>3, NamesKept
<1> QED BY <1>2, <1>3, <1>4 DEF BookInv, BansInv

LEMMA DialFailsStep ==
    ASSUME BookInv, NEW e \in dialled, DialFails(e)
    PROVE  BookInv'
<1>1. peers \in Books /\ e \in Endpoint
  BY BookFacts DEF BookInv, Known
<1>2. peers' = MarkFailure(peers, e) /\ UNCHANGED <<bans, now, asked, mine, dialled>>
  BY <1>1, LoadSame DEF DialFails
<1>3. peers' \in Books /\ KeepsNames(peers, peers')
  BY <1>1, <1>2, MarkFailureFacts
<1>4. dialled' \subseteq Known(peers)' /\ NamedIsDialled'
  BY <1>2, <1>3, NamesKept
<1> QED BY <1>2, <1>3, <1>4 DEF BookInv, BansInv

LEMMA HearAddressStep ==
    ASSUME BookInv, NEW e \in Endpoint, NEW seen \in 0 .. MaxTime, HearAddress(e, seen)
    PROVE  BookInv'
<1> DEFINE r == Record(e, Smaller(seen, now + Skew), 0, FALSE)
<1>1. peers \in Books /\ now \in Nat
  BY DEF BookInv
<1>2. peers' = AddOrUpdate(peers, r) /\ UNCHANGED <<bans, now, asked, mine, dialled>>
  BY <1>1, LoadSame DEF HearAddress
<1>3. r \in Rec
  <2>1. Smaller(seen, now + Skew) \in Int
    BY <1>1, BookAssumption DEF Smaller
  <2> QED BY <2>1 DEF Record, Rec
<1> HIDE DEF r
<1>4. peers' \in Books /\ KeepsNames(peers, peers')
  BY <1>1, <1>2, <1>3, AddOrUpdateFacts DEF Keeps, KeepsNames
<1>5. dialled' \subseteq Known(peers)' /\ NamedIsDialled'
  BY <1>2, <1>4, NamesKept
<1> QED BY <1>2, <1>4, <1>5 DEF BookInv, BansInv

\* A new ban replaces the older one of its host.
LEMMA LatestBan ==
    ASSUME BookInv, NEW host
    PROVE  WithBan(Unexpired(bans), host)
             = {b \in Unexpired(bans) : b.host # host}
                 \cup {[host |-> host, until |-> now + BanSeconds]}
<1> DEFINE older == {b \in Unexpired(bans) : b.host = host}
           until == {now + BanSeconds} \cup {b.until : b \in older}
           last == CHOOSE u \in until : \A v \in until : u >= v
<1>1. now + BanSeconds \in Int
  BY BookAssumption DEF BookInv
<1>2. \A v \in until : v \in Int /\ v <= now + BanSeconds
  BY <1>1 DEF BookInv, BansInv, Unexpired
<1>3. now + BanSeconds \in until
  OBVIOUS
<1> HIDE DEF until
<1>4. last = now + BanSeconds
  <2>1. \A v \in until : now + BanSeconds >= v
    BY <1>1, <1>2
  <2>2. last \in until /\ \A v \in until : last >= v
    BY <1>3, <2>1
  <2> QED BY <1>1, <1>2, <1>3, <2>2
<1>5. WithBan(Unexpired(bans), host)
        = (Unexpired(bans) \ older) \cup {[host |-> host, until |-> last]}
  BY DEF WithBan, until
<1>6. Unexpired(bans) \ older = {b \in Unexpired(bans) : b.host # host}
  OBVIOUS
<1> QED BY <1>4, <1>5, <1>6

LEMMA BanStep ==
    ASSUME BookInv, NEW host, BanPeer(host)
    PROVE  BookInv' /\ \A ban \in Unexpired(bans) : Holds(ban)
<1>1. bans' = {b \in Unexpired(bans) : b.host # host}
                \cup {[host |-> host, until |-> now + BanSeconds]}
  BY LatestBan DEF BanPeer
<1>2. UNCHANGED <<peers, now, asked, mine, dialled>>
  BY DEF BanPeer
<1>3. now + BanSeconds \in Int /\ \A b \in bans : b.until \in Int /\ b.until <= now + BanSeconds
  BY BookAssumption DEF BookInv, BansInv
<1>4. ASSUME NEW ban \in Unexpired(bans) PROVE Holds(ban)
  <2>1. ban.until \in Int /\ ban.until <= now + BanSeconds
    BY <1>3 DEF Unexpired
  <2>2. CASE ban.host # host
    BY <1>1, <2>1, <2>2 DEF Holds
  <2>3. CASE ban.host = host
    <3> DEFINE new == [host |-> host, until |-> now + BanSeconds]
    <3>1. new \in bans' /\ new.host = ban.host /\ new.until >= ban.until
      BY <1>1, <1>3, <2>1, <2>3
    <3> QED BY <3>1 DEF Holds
  <2> QED BY <2>2, <2>3
<1>5. \A b \in bans' : b.until \in Int /\ b.until <= now + BanSeconds
  BY <1>1, <1>3 DEF Unexpired
<1>6. BansInv'
  BY <1>2, <1>5 DEF BansInv
<1>7. Known(peers)' = Known(peers) /\ NamedIsDialled' = NamedIsDialled
  BY <1>2 DEF Known, NamedIsDialled
<1> QED BY <1>2, <1>4, <1>6, <1>7 DEF BookInv

\* The start of the system.
LEMMA BookInitHolds == BookInit => BookInv
BY EmptyBook DEF BookInit, BookInv, BansInv, NamedIsDialled, Known

\* What no handler of the peers touches.
LEMMA BansSame ==
    ASSUME BookInv, bans' = bans
    PROVE  \A ban \in Unexpired(bans) : Holds(ban)
<1>1. \A ban \in Unexpired(bans) : ban \in bans' /\ ban.until >= ban.until
  BY DEF BookInv, BansInv, Unexpired
<1> QED BY <1>1 DEF Holds

\* Every step keeps the invariant, and every ban that is not over.
LEMMA BookStep ==
    ASSUME BookInv, [BookNext]_bookVars
    PROVE  BookInv' /\ (ClearBans \/ \A ban \in Unexpired(bans) : Holds(ban))
<1>1. CASE \E e \in Endpoint, r \in Resolved, useSeeds, everywhere \in BOOLEAN :
             StartNode(<<e>>, <<r>>, useSeeds, everywhere) \/ StartNode(<<>>, <<>>, useSeeds, everywhere)
  <2>1. PICK e \in Endpoint, r \in Resolved, useSeeds \in BOOLEAN, everywhere \in BOOLEAN :
             StartNode(<<e>>, <<r>>, useSeeds, everywhere) \/ StartNode(<<>>, <<>>, useSeeds, everywhere)
    BY <1>1
  <2>2. /\ <<e>> \in Seq(Endpoint) /\ <<r>> \in Seq(Endpoint)
        /\ <<>> \in Seq(Endpoint)
    BY BookAssumption
  <2>3. BookInv' /\ bans' = bans
    <3>1. CASE StartNode(<<e>>, <<r>>, useSeeds, everywhere)
      <4>1. bans' = bans
        BY <3>1 DEF StartNode
      <4> QED BY <3>1, <4>1, <2>2, StartStep
    <3>2. CASE StartNode(<<>>, <<>>, useSeeds, everywhere)
      <4>1. bans' = bans
        BY <3>2 DEF StartNode
      <4> QED BY <3>2, <4>1, <2>2, StartStep
    <3> QED BY <2>1, <3>1, <3>2
  <2> QED BY <2>3, BansSame
<1>2. CASE \E e \in dialled : Connected(e) \/ DialFails(e)
  <2>1. BookInv'
    BY <1>2, ConnectedStep, DialFailsStep
  <2>2. bans' = bans
    BY <1>2 DEF Connected, DialFails
  <2> QED BY <2>1, <2>2, BansSame
<1>3. CASE \E e \in Endpoint, seen \in 0 .. MaxTime : HearAddress(e, seen)
  <2>1. BookInv'
    BY <1>3, HearAddressStep
  <2>2. bans' = bans
    BY <1>3 DEF HearAddress
  <2> QED BY <2>1, <2>2, BansSame
<1>4. CASE \E e \in Endpoint : BanPeer(HostOf[e])
  BY <1>4, BanStep
<1>5. CASE ClearBans
  <2>1. bans' = {} /\ UNCHANGED <<peers, now, asked, mine, dialled>>
    BY <1>5 DEF ClearBans
  <2>2. Known(peers)' = Known(peers) /\ NamedIsDialled' = NamedIsDialled /\ BansInv'
    BY <2>1 DEF Known, NamedIsDialled, BansInv
  <2> QED BY <1>5, <2>1, <2>2 DEF BookInv
<1>6. CASE Tick
  <2>1. now' = now + 1 /\ UNCHANGED <<peers, bans, asked, mine, dialled>>
    BY <1>6 DEF Tick
  <2>2. Known(peers)' = Known(peers) /\ NamedIsDialled' = NamedIsDialled
    BY <2>1 DEF Known, NamedIsDialled
  <2>3. now' \in Nat /\ BansInv'
    BY <2>1, BookAssumption DEF BookInv, BansInv
  <2> QED BY <2>1, <2>2, <2>3, BansSame DEF BookInv
<1>7. CASE UNCHANGED bookVars
  <2>1. UNCHANGED <<peers, bans, now, asked, mine, dialled>>
    BY <1>7 DEF bookVars
  <2>2. Known(peers)' = Known(peers) /\ NamedIsDialled' = NamedIsDialled /\ BansInv' = BansInv
    BY <2>1 DEF Known, NamedIsDialled, BansInv
  <2> QED BY <2>1, <2>2, BansSame DEF BookInv
<1> QED BY <1>1, <1>2, <1>3, <1>4, <1>5, <1>6, <1>7 DEF BookNext

\* What is learned of peers never takes away what the operator or the node decided:
\* whatever is heard, answered, refused or banned in between, an endpoint has one
\* record, a peer named at the last start, other than the node itself, is dialled or the
\* limit was spent on other named ones, and a ban lasts to its end unless the list is cleared.
\* (PeerStore::load, add_or_update, mark_success, mark_failure, select_outbound;
\* BanStore::ban.)
THEOREM BooksAreKept == BookSpec => BooksKept
<1>1. BookInit => BookInv
  BY BookInitHolds
<1>2. BookInv /\ [BookNext]_bookVars
        => BookInv' /\ (ClearBans \/ \A ban \in Unexpired(bans) : Holds(ban))
  BY BookStep
<1>3. BookInv => OneRecordEach /\ NamedIsDialled
  BY BookFacts DEF BookInv, Distinct, OneRecordEach
<1> QED BY <1>1, <1>2, <1>3, PTL DEF BookSpec, BooksKept

------------------------------------------------------------------------------
(***************************************************************************)
(* What a connection carries: every reader of Encodings reads what its     *)
(* writer writes, and only that.  Stands says where a string lies in       *)
(* another, Exactly that a reader yields a value at a place exactly when   *)
(* what is written of it stands there; exact readers one after the other   *)
(* are exact.                                                              *)
(***************************************************************************)

\* The number of values of some bytes follows its recursion.
LEMMA PowerFunction ==
    ASSUME NEW N \in Nat
    PROVE  \E f \in [0 .. N -> Nat] :
             /\ f[0] = 1 /\ \A k \in 1 .. N : f[k] = Base * f[k - 1]
             /\ Power(N) = f[N]
<1> DEFINE Step == [k \in 1 .. N |-> [p \in Nat |-> Base * p]]
           Fits(f) == f = [k \in 0 .. N |-> IF k = 0 THEN 1 ELSE Base * f[k - 1]]
<1>0. Base \in Nat
  BY SizesAssumption
<1>1. Step \in Steps(N, Nat)
  BY <1>0 DEF Steps
<1>2. \A k \in 1 .. N : \A p \in Nat : Step[k][p] = Base * p
  OBVIOUS
<1> HIDE DEF Step
<1> DEFINE S == Nat
           one == 1
<1>3. PICK f \in [0 .. N -> Nat] : f[0] = 1 /\ \A k \in 1 .. N : f[k] = Step[k][f[k - 1]]
  <2>1. one \in S /\ Step \in Steps(N, S)
    BY <1>1
  <2>2. \E f \in [0 .. N -> S] : f[0] = one /\ \A k \in 1 .. N : f[k] = Step[k][f[k - 1]]
    <3> HIDE DEF one, S
    <3> QED BY <2>1, Recursion DEF Follows
  <2> QED BY <2>2
<1>4. Fits(f)
  <2>1. \A k \in 1 .. N : f[k - 1] \in Nat
    OBVIOUS
  <2>2. \A k \in 0 .. N : f[k] = IF k = 0 THEN 1 ELSE Base * f[k - 1]
    BY <1>2, <1>3, <2>1
  <2>3. f = [k \in 0 .. N |-> f[k]]
    OBVIOUS
  <2> QED BY <2>2, <2>3
<1> DEFINE g == CHOOSE h : Fits(h)
<1>5. Fits(g)
  <2> HIDE DEF Fits
  <2> QED BY <1>4
<1>6. Power(N) = g[N]
  BY DEF Power
<1>7. \A h : Fits(h) => /\ h[0] = 1 /\ h = [k \in 0 .. N |-> h[k]]
                        /\ \A k \in 1 .. N : h[k] = Base * h[k - 1]
  <2>1. ASSUME NEW h, Fits(h) PROVE h[0] = 1 /\ h = [k \in 0 .. N |-> h[k]]
    BY <2>1, SMTT(30)
  <2>2. ASSUME NEW h, Fits(h), NEW k \in 1 .. N PROVE h[k] = Base * h[k - 1]
    BY <2>2, SMTT(30)
  <2> QED BY <2>1, <2>2
<1> HIDE DEF Fits, g
<1> DEFINE T == {k \in 0 .. N : g[k] \in Nat}
<1>8. 0 \in T
  BY <1>5, <1>7
<1>9. \A k \in 1 .. N : k - 1 \in T => k \in T
  BY <1>0, <1>5, <1>7
<1> HIDE DEF T
<1>10. \A k \in 0 .. N : k \in T
  BY <1>8, <1>9, UpTo
<1>11. g \in [0 .. N -> Nat]
  BY <1>5, <1>7, <1>10 DEF T
<1> QED BY <1>5, <1>6, <1>7, <1>11

\* It is one for no bytes, and each byte multiplies it by Base.
LEMMA PowerFacts ==
    /\ Power(0) = 1
    /\ \A n \in Nat : Power(n) \in Nat \ {0} /\ Power(n + 1) = Base * Power(n)
<1>1. Power(0) = 1
  <2>1. PICK f \in [0 .. 0 -> Nat] : f[0] = 1 /\ Power(0) = f[0]
    BY PowerFunction
  <2> QED BY <2>1
<1>2. ASSUME NEW N \in Nat, NEW f \in [0 .. N -> Nat], NEW n \in Nat, n <= N,
             NEW g \in [0 .. n -> Nat],
             f[0] = 1, \A k \in 1 .. N : f[k] = Base * f[k - 1],
             g[0] = 1, \A k \in 1 .. n : g[k] = Base * g[k - 1]
      PROVE  f[n] = g[n]
  <2> DEFINE T == {k \in 0 .. n : f[k] = g[k]}
  <2>1. 0 \in T
    BY <1>2
  <2>2. ASSUME NEW k \in 1 .. n, k - 1 \in T PROVE k \in T
    <3>1. k \in 1 .. N
      BY <1>2
    <3>2. f[k] = Base * f[k - 1] /\ g[k] = Base * g[k - 1] /\ f[k - 1] = g[k - 1]
      BY <1>2, <2>2, <3>1
    <3> QED BY <3>2
  <2> HIDE DEF T
  <2>3. \A k \in 0 .. n : k \in T
    BY <2>1, <2>2, UpTo
  <2> QED BY <2>3 DEF T
<1>3. ASSUME NEW n \in Nat, NEW m \in Nat, m = n + 1 PROVE Power(m) = Base * Power(n)
  <2>1. PICK f \in [0 .. m -> Nat] :
          /\ f[0] = 1 /\ \A k \in 1 .. m : f[k] = Base * f[k - 1]
          /\ Power(m) = f[m]
    BY PowerFunction
  <2>2. PICK g \in [0 .. n -> Nat] :
          /\ g[0] = 1 /\ \A k \in 1 .. n : g[k] = Base * g[k - 1]
          /\ Power(n) = g[n]
    BY PowerFunction
  <2>3. f[n] = g[n]
    <3>1. n <= m
      BY <1>3
    <3> QED BY <1>2, <2>1, <2>2, <3>1
  <2>4. m \in 1 .. m /\ m - 1 = n
    BY <1>3
  <2>5. f[m] = Base * f[n]
    BY <2>1, <2>4
  <2> QED BY <2>1, <2>2, <2>3, <2>5
<1>4. ASSUME NEW n \in Nat PROVE Power(n) \in Nat \ {0}
  <2>1. PICK f \in [0 .. n -> Nat] :
          /\ f[0] = 1 /\ \A k \in 1 .. n : f[k] = Base * f[k - 1]
          /\ Power(n) = f[n]
    BY PowerFunction
  <2> DEFINE T == {k \in 0 .. n : f[k] # 0}
  <2>2. 0 \in T
    BY <2>1
  <2>3. ASSUME NEW k \in 1 .. n, k - 1 \in T PROVE k \in T
    <3>1. f[k - 1] \in Nat /\ f[k - 1] # 0 /\ Base \in Nat /\ Base > 4 /\ f[k] = Base * f[k - 1]
      BY <2>1, <2>3, SizesAssumption
    <3>2. Base * f[k - 1] # 0
      BY <3>1
    <3> QED BY <3>1, <3>2
  <2> HIDE DEF T
  <2>4. \A k \in 0 .. n : k \in T
    BY <2>2, <2>3, UpTo
  <2> QED BY <2>1, <2>4 DEF T
<1>5. ASSUME NEW n \in Nat PROVE Power(n + 1) = Base * Power(n)
  <2>1. n + 1 \in Nat
    OBVIOUS
  <2> QED BY <2>1, <1>3
<1> QED BY <1>1, <1>4, <1>5

\* Division by the number of values of a byte.
LEMMA Division ==
    ASSUME NEW v \in Int
    PROVE  /\ v \div Base \in Int /\ v % Base \in 0 .. (Base - 1)
           /\ v = (v % Base) + Base * (v \div Base)
BY SizesAssumption

\* A byte below a number is split off by one division.
LEMMA Divided ==
    ASSUME NEW h \in Int, NEW b \in 0 .. (Base - 1)
    PROVE  (b + Base * h) \div Base = h /\ (b + Base * h) % Base = b
<1> DEFINE v == b + Base * h
           q == v \div Base
           r == v % Base
<1>1. v \in Int /\ Base \in Nat /\ Base > 4
  BY SizesAssumption
<1>2. q \in Int /\ r \in 0 .. (Base - 1) /\ v = r + Base * q
  <2> HIDE DEF v
  <2> QED BY <1>1, Division
<1> HIDE DEF q, r
<1>3. Base * (q - h) = b - r
  BY <1>1, <1>2
<1>4. q - h = 0
  <2>1. CASE q - h >= 1
    <3>1. Base * (q - h) >= Base
      BY <1>1, <1>2, <2>1
    <3> QED BY <1>1, <1>2, <1>3, <3>1
  <2>2. CASE q - h <= -1
    <3>1. Base * (q - h) <= -Base
      BY <1>1, <1>2, <2>2
    <3> QED BY <1>1, <1>2, <1>3, <3>1
  <2> QED BY <1>2, <2>1, <2>2
<1>5. q = h /\ r = b
  BY <1>1, <1>2, <1>4
<1> QED BY <1>5 DEF q, r

Byte == 0 .. (Base - 1)

\* The values an integer goes through while it is shifted out.
LEMMA NumberFunction ==
    ASSUME NEW v \in Int, NEW N \in Nat
    PROVE  \E f \in [0 .. N -> Int] :
             /\ f[0] = v /\ \A k \in 1 .. N : f[k] = f[k - 1] \div Base
             /\ Number(v, N) = [i \in 1 .. N |-> f[i - 1] % Base]
<1> DEFINE Down(p) == p \div Base
           Step == [k \in 1 .. N |-> [p \in Int |-> Down(p)]]
           Fits(f) == f = [k \in 0 .. N |-> IF k = 0 THEN v ELSE Down(f[k - 1])]
           S == Int
<1>0. \A p \in Int : Down(p) \in Int
  BY Division
<1> HIDE DEF Down
<1>1. Step \in Steps(N, S)
  BY <1>0 DEF Steps
<1>2. \A k \in 1 .. N : \A p \in Int : Step[k][p] = Down(p)
  OBVIOUS
<1> HIDE DEF Step
<1>3. PICK f \in [0 .. N -> Int] : f[0] = v /\ \A k \in 1 .. N : f[k] = Step[k][f[k - 1]]
  <2>1. v \in S
    OBVIOUS
  <2>2. \E f \in [0 .. N -> S] : f[0] = v /\ \A k \in 1 .. N : f[k] = Step[k][f[k - 1]]
    <3> HIDE DEF S
    <3> QED BY <1>1, <2>1, Recursion DEF Follows
  <2> QED BY <2>2
<1>4. Fits(f)
  <2>1. \A k \in 1 .. N : f[k - 1] \in Int
    OBVIOUS
  <2>2. \A k \in 0 .. N : f[k] = IF k = 0 THEN v ELSE Down(f[k - 1])
    BY <1>2, <1>3, <2>1
  <2>3. f = [k \in 0 .. N |-> f[k]]
    OBVIOUS
  <2> QED BY <2>2, <2>3
<1> DEFINE g == CHOOSE h : Fits(h)
<1>5. Fits(g)
  <2> HIDE DEF Fits
  <2> QED BY <1>4
<1>6. Number(v, N) = [i \in 1 .. N |-> g[i - 1] % Base]
  BY DEF Number, Down
<1>7. \A h : Fits(h) => /\ h[0] = v /\ h = [k \in 0 .. N |-> h[k]]
                        /\ \A k \in 1 .. N : h[k] = Down(h[k - 1])
  <2>1. ASSUME NEW h, Fits(h) PROVE h[0] = v /\ h = [k \in 0 .. N |-> h[k]]
    BY <2>1, SMTT(30)
  <2>2. ASSUME NEW h, Fits(h), NEW k \in 1 .. N PROVE h[k] = Down(h[k - 1])
    BY <2>2, SMTT(30)
  <2> QED BY <2>1, <2>2
<1> HIDE DEF Fits, g
<1> DEFINE T == {k \in 0 .. N : g[k] \in Int}
<1>8. 0 \in T
  BY <1>5, <1>7
<1>9. \A k \in 1 .. N : k - 1 \in T => k \in T
  BY <1>0, <1>5, <1>7
<1> HIDE DEF T
<1>10. \A k \in 0 .. N : k \in T
  BY <1>8, <1>9, UpTo
<1>11. g \in [0 .. N -> Int]
  BY <1>5, <1>7, <1>10 DEF T
<1>12. g[0] = v /\ \A k \in 1 .. N : g[k] = g[k - 1] \div Base
  BY <1>5, <1>7 DEF Down
<1> QED BY <1>6, <1>11, <1>12

\* An integer of some bytes is written as that many bytes.
LEMMA NumberBytes ==
    ASSUME NEW v \in Int, NEW N \in Nat
    PROVE  Number(v, N) \in Seq(Byte) /\ Len(Number(v, N)) = N
<1>1. PICK f \in [0 .. N -> Int] : Number(v, N) = [i \in 1 .. N |-> f[i - 1] % Base]
  BY NumberFunction
<1>2. ASSUME NEW i \in 1 .. N PROVE f[i - 1] % Base \in Byte
  <2>1. f[i - 1] \in Int
    OBVIOUS
  <2> QED BY <2>1, Division DEF Byte
<1> DEFINE n == Number(v, N)
<1>3. n \in [1 .. N -> Byte]
  BY <1>1, <1>2
<1> HIDE DEF n
<1>4. n \in Seq(Byte)
  BY <1>3, SeqDef
<1>5. DOMAIN n = 1 .. N /\ Len(n) \in Nat /\ DOMAIN n = 1 .. Len(n)
  BY <1>3, <1>4, LenProperties
<1>6. Len(n) = N
  BY <1>5
<1> QED BY <1>4, <1>6 DEF n

\* The numbers that more and more bytes stand for.
LEMMA ValueFunction ==
    ASSUME NEW bytes \in Seq(Byte)
    PROVE  \E f \in [0 .. Len(bytes) -> Nat] :
             /\ f[0] = 0
             /\ \A k \in 1 .. Len(bytes) : f[k] = bytes[Len(bytes) + 1 - k] + Base * f[k - 1]
             /\ Value(bytes) = f[Len(bytes)]
<1> DEFINE N == Len(bytes)
           More(k, p) == bytes[N + 1 - k] + Base * p
           Step == [k \in 1 .. N |-> [p \in Nat |-> More(k, p)]]
           Fits(f) == f = [k \in 0 .. N |-> IF k = 0 THEN 0 ELSE More(k, f[k - 1])]
           S == Nat
           zero == 0
<1>0. N \in Nat /\ \A k \in 1 .. N : \A p \in Nat : More(k, p) \in Nat
  <2>1. N \in Nat /\ \A i \in 1 .. N : bytes[i] \in Nat
    BY LenProperties, ElementOfSeq, SizesAssumption DEF Byte
  <2> HIDE DEF N
  <2> SUFFICES ASSUME NEW k \in 1 .. N, NEW p \in Nat PROVE More(k, p) \in Nat
    BY <2>1
  <2>2. N + 1 - k \in 1 .. N
    BY <2>1
  <2>3. bytes[N + 1 - k] \in Nat
    BY <2>1, <2>2
  <2>4. Base * p \in Nat
    BY SizesAssumption
  <2> QED BY <2>3, <2>4
<1> HIDE DEF N, More
<1>1. Step \in Steps(N, S)
  BY <1>0 DEF Steps
<1>2. \A k \in 1 .. N : \A p \in Nat : Step[k][p] = More(k, p)
  OBVIOUS
<1> HIDE DEF Step
<1>3. PICK f \in [0 .. N -> Nat] : f[0] = 0 /\ \A k \in 1 .. N : f[k] = Step[k][f[k - 1]]
  <2>1. zero \in S
    OBVIOUS
  <2>2. \E f \in [0 .. N -> S] : f[0] = zero /\ \A k \in 1 .. N : f[k] = Step[k][f[k - 1]]
    <3>1. N \in Nat
      BY <1>0
    <3> HIDE DEF S, zero
    <3> QED BY <3>1, <1>1, <2>1, Recursion DEF Follows
  <2> QED BY <2>2
<1>4. Fits(f)
  <2>1. \A k \in 1 .. N : f[k - 1] \in Nat
    BY <1>0
  <2>2. \A k \in 0 .. N : f[k] = IF k = 0 THEN 0 ELSE More(k, f[k - 1])
    <3> TAKE k \in 0 .. N
    <3>1. CASE k = 0
      BY <1>3, <3>1
    <3>2. CASE k # 0
      <4>1. k \in 1 .. N
        BY <1>0, <3>2
      <4>2. f[k] = Step[k][f[k - 1]] /\ f[k - 1] \in Nat
        BY <1>3, <2>1, <4>1
      <4> QED BY <1>2, <3>2, <4>1, <4>2
    <3> QED BY <3>1, <3>2
  <2>3. f = [k \in 0 .. N |-> f[k]]
    OBVIOUS
  <2> QED BY <2>2, <2>3
<1> DEFINE g == CHOOSE h : Fits(h)
<1>5. Fits(g)
  <2> HIDE DEF Fits
  <2> QED BY <1>4
<1>6. Value(bytes) = g[N]
  BY DEF Value, N, More
<1>7. ASSUME NEW h, Fits(h)
      PROVE  /\ h[0] = 0 /\ h = [k \in 0 .. N |-> h[k]]
             /\ \A k \in 1 .. N : h[k] = More(k, h[k - 1])
  <2>1. \A k \in 0 .. N : h[k] = IF k = 0 THEN 0 ELSE More(k, h[k - 1])
    BY <1>7
  <2>2. 0 \in 0 .. N /\ \A k \in 1 .. N : k \in 0 .. N /\ k # 0
    BY <1>0
  <2>3. h = [k \in 0 .. N |-> h[k]]
    BY <1>7
  <2> QED BY <2>1, <2>2, <2>3
<1> HIDE DEF Fits, g
<1> DEFINE T == {k \in 0 .. N : g[k] \in Nat}
<1>8. 0 \in T
  BY <1>0, <1>5, <1>7
<1>9. \A k \in 1 .. N : k - 1 \in T => k \in T
  BY <1>0, <1>5, <1>7
<1> HIDE DEF T
<1>10. \A k \in 0 .. N : k \in T
  <2>1. N \in Nat
    BY <1>0
  <2> QED BY <2>1, <1>8, <1>9, UpTo
<1>11. g \in [0 .. N -> Nat]
  BY <1>5, <1>7, <1>10 DEF T
<1>12. g[0] = 0 /\ \A k \in 1 .. N : g[k] = bytes[N + 1 - k] + Base * g[k - 1]
  BY <1>5, <1>7 DEF More
<1> QED BY <1>6, <1>11, <1>12 DEF N

\* Some bytes stand for a natural number that so many bytes can hold.
LEMMA ValueRange ==
    ASSUME NEW bytes \in Seq(Byte)
    PROVE  Value(bytes) \in Nat /\ Value(bytes) < Power(Len(bytes))
<1> DEFINE N == Len(bytes)
<1>1. PICK f \in [0 .. N -> Nat] :
             /\ f[0] = 0
             /\ \A k \in 1 .. N : f[k] = bytes[N + 1 - k] + Base * f[k - 1]
             /\ Value(bytes) = f[N]
  BY ValueFunction
<1>2. N \in Nat /\ \A i \in 1 .. N : bytes[i] \in Byte
  BY LenProperties, ElementOfSeq
<1> HIDE DEF N
<1> DEFINE T == {k \in 0 .. N : f[k] < Power(k)}
<1>3. 0 \in T
  BY <1>1, <1>2, PowerFacts
<1>4. ASSUME NEW k \in 1 .. N, k - 1 \in T PROVE k \in T
  <2> DEFINE b == bytes[N + 1 - k]
             h == f[k - 1]
             p == Power(k - 1)
  <2>1. N + 1 - k \in 1 .. N /\ k - 1 \in Nat /\ k - 1 \in 0 .. N
    BY <1>2
  <2>2. /\ b \in Byte /\ h \in Nat /\ p \in Nat /\ h < p
        /\ f[k] = b + Base * h
    BY <1>1, <1>2, <1>4, <2>1, PowerFacts
  <2>3. Power(k) = Base * p
    <3>1. Power((k - 1) + 1) = Base * p
      BY <2>1, PowerFacts
    <3>2. (k - 1) + 1 = k
      BY <1>2
    <3> QED BY <3>1, <3>2
  <2> HIDE DEF b, h, p, T
  <2>4. Base \in Nat /\ Base > 4
    BY SizesAssumption
  <2>5. b \in Nat /\ b <= Base - 1
    BY <2>2, <2>4 DEF Byte
  <2>6. Base * h <= Base * (p - 1)
    <3>1. h <= p - 1
      BY <2>2
    <3> QED BY <2>2, <2>4, <3>1
  <2>7. Base * (p - 1) = Base * p - Base
    BY <2>2, <2>4
  <2>8. b + Base * h < Base * p
    BY <2>2, <2>4, <2>5, <2>6, <2>7
  <2> QED BY <2>2, <2>3, <2>8 DEF T
<1> HIDE DEF T
<1>5. \A k \in 0 .. N : k \in T
  BY <1>2, <1>3, <1>4, UpTo
<1> QED BY <1>1, <1>2, <1>5 DEF T, N

\* Multiplying by Base keeps the order.
LEMMA Scaled ==
    ASSUME NEW a \in Int, NEW b \in Int, a <= b
    PROVE  Base * a \in Int /\ Base * b \in Int /\ Base * a <= Base * b
BY SizesAssumption

\* Multiplying by Base distributes over a sum.
LEMMA Distributes ==
    ASSUME NEW a \in Int, NEW b \in Int
    PROVE  Base * (a + b) = Base * a + Base * b
BY SizesAssumption

\* Shifting a value that fits out leaves nothing, or the sign.
LEMMA ShiftedOut ==
    ASSUME NEW v \in Int, NEW N \in Nat, NEW f \in [0 .. N -> Int],
           f[0] = v, \A k \in 1 .. N : f[k] = f[k - 1] \div Base,
           -Power(N) <= v, v < Power(N)
    PROVE  f[N] = IF v < 0 THEN -1 ELSE 0
<1>0. \A n \in Nat : Power(n) \in Nat \ {0}
  BY PowerFacts
<1> DEFINE T == {k \in 0 .. N : /\ -Power(N - k) <= f[k] /\ f[k] < Power(N - k)
                                /\ (v < 0 <=> f[k] < 0)}
<1>1. 0 \in T
  BY PowerFacts
<1>2. ASSUME NEW k \in 1 .. N, k - 1 \in T PROVE k \in T
  <2> DEFINE h == f[k - 1]
             q == f[k]
             b == h % Base
             p == Power(N - k)
  <2>1. h \in Int /\ q \in Int /\ q = h \div Base /\ N - k \in Nat /\ N - (k - 1) = (N - k) + 1
    BY <1>2
  <2>2. Power((N - k) + 1) = Base * p /\ p \in Nat \ {0}
    BY <2>1, PowerFacts
  <2>3. -(Base * p) <= h /\ h < Base * p /\ (v < 0 <=> h < 0)
    BY <1>2, <2>1, <2>2
  <2>4. b \in 0 .. (Base - 1) /\ h = b + Base * q /\ Base \in Nat /\ Base > 4
    BY <2>1, Division, SizesAssumption
  <2> HIDE DEF h, q, b, p
  <2>5. q < p
    <3> SUFFICES ASSUME q >= p PROVE FALSE
      BY <2>1, <2>2
    <3>1. Base * p <= Base * q
      BY <2>1, <2>2, Scaled
    <3> QED BY <2>1, <2>2, <2>3, <2>4, <3>1
  <2>6. -p <= q
    <3> DEFINE r == -p - 1
    <3>1. r \in Int /\ Base * r = -(Base * p) - Base
      BY <2>2, <2>4
    <3> SUFFICES ASSUME q <= r PROVE FALSE
      BY <2>1, <2>2
    <3> HIDE DEF r
    <3>2. Base * q <= Base * r
      BY <2>1, <3>1, Scaled
    <3> DEFINE x == Base * q
               y == Base * p
               z == Base * r
    <3>3. /\ x \in Int /\ y \in Int /\ z \in Int /\ x <= z /\ z = -y - Base
          /\ b \in Int /\ b < Base /\ h = b + x /\ -y <= h /\ Base \in Int /\ h \in Int
      BY <2>1, <2>2, <2>3, <2>4, <3>1, <3>2
    <3> HIDE DEF x, y, z
    <3> QED BY <3>3
  <2>7. h < 0 <=> q < 0
    <3>1. ASSUME 0 <= q PROVE 0 <= h
      <4> DEFINE r == 0
                 x == Base * q
      <4>1. r \in Int /\ r <= q /\ Base * r = 0
        BY <2>4, <3>1
      <4> HIDE DEF r
      <4>2. Base * r <= Base * q
        BY <2>1, <4>1, Scaled
      <4>3. x \in Int /\ 0 <= x /\ b \in Int /\ 0 <= b /\ h = b + x
        BY <2>1, <2>4, <4>1, <4>2
      <4> HIDE DEF x
      <4> QED BY <4>3
    <3>2. ASSUME q <= -1 PROVE h < 0
      <4> DEFINE r == -1
                 x == Base * q
                 z == Base * r
      <4>1. r \in Int /\ q <= r /\ z = -Base
        BY <2>4, <3>2
      <4> HIDE DEF r
      <4>2. Base * q <= Base * r
        BY <2>1, <4>1, Scaled
      <4>3. /\ x \in Int /\ x <= z /\ z = -Base /\ b \in Int /\ b < Base /\ h = b + x
            /\ Base \in Int /\ h \in Int
        BY <2>1, <2>4, <4>1, <4>2
      <4> HIDE DEF x, z
      <4> QED BY <4>3
    <3> QED BY <2>1, <3>1, <3>2
  <2> QED BY <2>3, <2>5, <2>6, <2>7 DEF q, p
<1> HIDE DEF T
<1>3. N \in T
  <2>1. \A k \in 0 .. N : k \in T
    BY <1>1, <1>2, UpTo
  <2> QED BY <2>1
<1>4. -Power(0) <= f[N] /\ f[N] < Power(0) /\ (v < 0 <=> f[N] < 0)
  <2>1. N - N = 0
    OBVIOUS
  <2> QED BY <1>3, <2>1 DEF T
<1>5. f[N] \in Int /\ Power(0) = 1
  BY PowerFacts
<1> QED BY <1>4, <1>5

\* What an integer that fits is read back as: a negative one as its two's complement.
LEMMA ValueOfNumber ==
    ASSUME NEW v \in Int, NEW N \in Nat, -Power(N) <= v, v < Power(N)
    PROVE  Value(Number(v, N)) = IF v < 0 THEN v + Power(N) ELSE v
<1>1. PICK f \in [0 .. N -> Int] :
        /\ f[0] = v /\ \A k \in 1 .. N : f[k] = f[k - 1] \div Base
        /\ Number(v, N) = [i \in 1 .. N |-> f[i - 1] % Base]
  BY NumberFunction
<1> DEFINE bytes == Number(v, N)
<1>2. bytes \in Seq(Byte) /\ Len(bytes) = N /\ \A i \in 1 .. N : bytes[i] = f[i - 1] % Base
  BY <1>1, NumberBytes
<1> HIDE DEF bytes
<1>3. PICK h \in [0 .. N -> Nat] :
             /\ h[0] = 0
             /\ \A k \in 1 .. N : h[k] = bytes[N + 1 - k] + Base * h[k - 1]
             /\ Value(bytes) = h[N]
  BY <1>2, ValueFunction
<1>4. f[N] = IF v < 0 THEN -1 ELSE 0
  BY <1>1, ShiftedOut
<1> DEFINE wrap(k) == IF v < 0 THEN Power(k) ELSE 0
<1>5. /\ wrap(0) = -f[N]
      /\ \A n \in Nat : wrap(n) \in Nat /\ wrap(n + 1) = Base * wrap(n)
  <2>1. CASE v < 0
    <3>1. f[N] = -1 /\ \A k : wrap(k) = Power(k)
      BY <1>4, <2>1
    <3> HIDE DEF wrap
    <3>2. wrap(0) = -f[N]
      BY <3>1, PowerFacts
    <3>3. ASSUME NEW n \in Nat PROVE wrap(n) \in Nat /\ wrap(n + 1) = Base * wrap(n)
      BY <3>1, PowerFacts
    <3> QED BY <3>2, <3>3
  <2>2. CASE ~(v < 0)
    <3>1. f[N] = 0 /\ \A k : wrap(k) = 0
      BY <1>4, <2>2
    <3>2. Base * 0 = 0
      BY SizesAssumption
    <3> HIDE DEF wrap
    <3> QED BY <3>1, <3>2
  <2> QED BY <2>1, <2>2
<1> HIDE DEF wrap
<1> DEFINE T == {k \in 0 .. N : h[k] = f[N - k] + wrap(k)}
<1>6. 0 \in T
  <2>1. N - 0 = N /\ f[N] \in Int /\ 0 \in 0 .. N
    OBVIOUS
  <2>2. h[0] = f[N - 0] + wrap(0)
    BY <1>3, <1>5, <2>1
  <2> QED BY <2>1, <2>2
<1>7. ASSUME NEW k \in 1 .. N, k - 1 \in T PROVE k \in T
  <2> DEFINE low == f[N - k]
             high == f[N - k + 1]
             b == low % Base
             p == wrap(k - 1)
             before == h[k - 1]
  <2>1. N - k \in 0 .. N /\ N - k + 1 \in 1 .. N /\ (N - k + 1) - 1 = N - k /\ N - (k - 1) = N - k + 1
        /\ k - 1 \in Nat /\ (k - 1) + 1 = k /\ N + 1 - k = N - k + 1 /\ k \in 0 .. N
    OBVIOUS
  <2>2. low \in Int /\ high \in Int /\ high = low \div Base /\ before \in Nat
    BY <1>1, <1>3, <2>1
  <2>3. b \in 0 .. (Base - 1) /\ low = b + Base * high /\ Base \in Nat
    BY <2>2, Division, SizesAssumption
  <2>4. p \in Nat /\ wrap(k) = Base * p
    <3>1. wrap((k - 1) + 1) = Base * p /\ p \in Nat
      BY <2>1, <1>5
    <3> QED BY <3>1, <2>1
  <2>5. before = high + p
    BY <1>7, <2>1
  <2>6. h[k] = b + Base * before
    <3>1. bytes[N + 1 - k] = b
      BY <1>2, <2>1
    <3> QED BY <1>3, <3>1
  <2> HIDE DEF low, high, b, p, before, T
  <2> DEFINE x == Base * high
             y == Base * p
  <2>7. x \in Int /\ y \in Int /\ b \in Int /\ Base * before = x + y
    <3>1. high \in Int /\ p \in Int /\ before = high + p
      BY <2>2, <2>4, <2>5
    <3>2. Base * before = x + y
      BY <3>1, Distributes
    <3>3. x \in Int /\ y \in Int /\ b \in Int
      BY <2>3, <3>1
    <3> QED BY <3>2, <3>3
  <2>8. low = b + x /\ wrap(k) = y /\ h[k] = b + (x + y)
    BY <2>3, <2>4, <2>6, <2>7
  <2> HIDE DEF x, y
  <2>9. h[k] = low + wrap(k)
    BY <2>7, <2>8
  <2> QED BY <2>1, <2>9 DEF T, low
<1> HIDE DEF T
<1>8. N \in T
  <2>1. \A k \in 0 .. N : k \in T
    BY <1>6, <1>7, UpTo
  <2> QED BY <2>1
<1>9. h[N] = v + wrap(N)
  <2>1. h[N] = f[N - N] + wrap(N) /\ N - N = 0
    BY <1>8 DEF T
  <2> QED BY <1>1, <2>1
<1>10. h[N] = IF v < 0 THEN v + Power(N) ELSE v
  BY <1>9 DEF wrap
<1> QED BY <1>3, <1>10 DEF bytes

\* The bytes of a number are the only ones that are read as it.
LEMMA NumberOfValue ==
    ASSUME NEW bytes \in Seq(Byte)
    PROVE  Number(Value(bytes), Len(bytes)) = bytes
<1> DEFINE N == Len(bytes)
           v == Value(bytes)
<1>1. N \in Nat /\ v \in Int
  BY ValueRange, LenProperties
<1>2. PICK h \in [0 .. N -> Nat] :
             /\ h[0] = 0
             /\ \A k \in 1 .. N : h[k] = bytes[N + 1 - k] + Base * h[k - 1]
             /\ v = h[N]
  BY ValueFunction
<1>3. \A i \in 1 .. N : bytes[i] \in Byte
  BY ElementOfSeq
<1> HIDE DEF N, v
<1>4. PICK f \in [0 .. N -> Int] :
        /\ f[0] = v /\ \A k \in 1 .. N : f[k] = f[k - 1] \div Base
        /\ Number(v, N) = [i \in 1 .. N |-> f[i - 1] % Base]
  BY <1>1, NumberFunction
<1>5. ASSUME NEW k \in 1 .. N, f[k - 1] = h[N - (k - 1)]
      PROVE  f[k] = h[N - k] /\ f[k - 1] % Base = bytes[k]
  <2> DEFINE b == bytes[k]
             high == h[N - k]
  <2>1. N - k + 1 \in 1 .. N /\ (N - k + 1) - 1 = N - k /\ N - (k - 1) = N - k + 1
        /\ N + 1 - (N - k + 1) = k /\ N - k \in 0 .. N
    BY <1>1
  <2>2. h[N - k + 1] = b + Base * high /\ b \in Byte /\ high \in Int
    BY <1>2, <1>3, <2>1
  <2>3. f[k - 1] = b + Base * high /\ f[k] = f[k - 1] \div Base
    BY <1>4, <1>5, <2>1, <2>2
  <2> HIDE DEF b, high
  <2>4. (b + Base * high) \div Base = high /\ (b + Base * high) % Base = b
    BY <2>2, Divided DEF Byte
  <2> QED BY <2>3, <2>4 DEF b, high
<1> DEFINE T == {k \in 0 .. N : f[k] = h[N - k]}
<1>6. 0 \in T
  <2>1. N - 0 = N
    BY <1>1
  <2> QED BY <1>1, <1>2, <1>4, <2>1
<1>7. ASSUME NEW k \in 1 .. N, k - 1 \in T PROVE k \in T
  BY <1>1, <1>5, <1>7
<1> HIDE DEF T
<1>8. \A k \in 0 .. N : k \in T
  BY <1>1, <1>6, <1>7, UpTo
<1>9. \A i \in 1 .. N : f[i - 1] % Base = bytes[i]
  <2> TAKE i \in 1 .. N
  <2>1. i - 1 \in 0 .. N
    BY <1>1
  <2>2. f[i - 1] = h[N - (i - 1)]
    BY <1>8, <2>1 DEF T
  <2> QED BY <1>5, <2>2
<1>10. Number(v, N) \in Seq(Byte) /\ Len(Number(v, N)) = N
  BY <1>1, NumberBytes
<1>11. \A i \in 1 .. N : Number(v, N)[i] = bytes[i]
  BY <1>4, <1>9
<1> QED BY <1>10, <1>11, SeqEqual DEF N, v

\* The bytes w stand in s after the first at ones.
Stands(w, s, at) == at + Len(w) <= Len(s) /\ \A i \in 1 .. Len(w) : s[at + i] = w[i]

\* Two strings stand one after the other where their concatenation does.
LEMMA StandsConcat ==
    ASSUME NEW s \in Seq(Byte), NEW u \in Seq(Byte), NEW w \in Seq(Byte), NEW at \in Nat
    PROVE  /\ u \o w \in Seq(Byte) /\ Len(u \o w) = Len(u) + Len(w)
           /\ Stands(u \o w, s, at) <=> (Stands(u, s, at) /\ Stands(w, s, at + Len(u)))
<1> DEFINE c == u \o w
           m == Len(u)
           n == Len(w)
<1>1. m \in Nat /\ n \in Nat /\ Len(s) \in Nat
  BY LenProperties
<1>2. /\ c \in Seq(Byte) /\ Len(c) = m + n
      /\ \A i \in 1 .. m : c[i] = u[i]
      /\ \A i \in 1 .. n : c[m + i] = w[i]
  <2>1. /\ c \in Seq(Byte) /\ Len(c) = m + n
        /\ \A i \in 1 .. (m + n) : c[i] = IF i <= m THEN u[i] ELSE w[i - m]
    BY ConcatProperties
  <2> HIDE DEF c, m, n
  <2>2. ASSUME NEW i \in 1 .. m PROVE c[i] = u[i]
    <3>1. i \in 1 .. (m + n) /\ i <= m
      BY <1>1
    <3> QED BY <2>1, <3>1
  <2>3. ASSUME NEW i \in 1 .. n PROVE c[m + i] = w[i]
    <3>1. m + i \in 1 .. (m + n) /\ ~(m + i <= m) /\ (m + i) - m = i
      BY <1>1
    <3> QED BY <2>1, <3>1
  <2> QED BY <2>1, <2>2, <2>3
<1> HIDE DEF c, m, n
<1>3. ASSUME Stands(c, s, at)
      PROVE  Stands(u, s, at) /\ Stands(w, s, at + m)
  <2>1. at + (m + n) <= Len(s) /\ \A i \in 1 .. (m + n) : s[at + i] = c[i]
    BY <1>2, <1>3 DEF Stands
  <2>2. Stands(u, s, at)
    <3>1. at + m <= Len(s)
      BY <1>1, <2>1
    <3>2. ASSUME NEW i \in 1 .. m PROVE s[at + i] = u[i]
      <4>1. i \in 1 .. (m + n)
        BY <1>1
      <4> QED BY <1>2, <2>1, <4>1
    <3> QED BY <3>1, <3>2 DEF Stands, m
  <2>3. Stands(w, s, at + m)
    <3>1. (at + m) + n <= Len(s)
      BY <1>1, <2>1
    <3>2. ASSUME NEW i \in 1 .. n PROVE s[(at + m) + i] = w[i]
      <4>1. m + i \in 1 .. (m + n) /\ (at + m) + i = at + (m + i)
        BY <1>1
      <4> QED BY <1>2, <2>1, <4>1
    <3> QED BY <3>1, <3>2 DEF Stands, n
  <2> QED BY <2>2, <2>3
<1>4. ASSUME Stands(u, s, at), Stands(w, s, at + m)
      PROVE  Stands(c, s, at)
  <2>1. (at + m) + n <= Len(s) /\ \A i \in 1 .. n : s[(at + m) + i] = w[i]
    BY <1>4 DEF Stands, n
  <2>2. \A i \in 1 .. m : s[at + i] = u[i]
    BY <1>4 DEF Stands, m
  <2>3. ASSUME NEW i \in 1 .. (m + n) PROVE s[at + i] = c[i]
    <3>1. CASE i <= m
      <4>1. i \in 1 .. m
        BY <1>1, <3>1
      <4> QED BY <1>2, <2>2, <4>1
    <3>2. CASE ~(i <= m)
      <4> DEFINE j == i - m
      <4>1. j \in 1 .. n /\ i = m + j /\ at + i = (at + m) + j
        BY <1>1, <3>2
      <4> HIDE DEF j
      <4> QED BY <1>2, <2>1, <4>1
    <3> QED BY <3>1, <3>2
  <2>4. at + (m + n) <= Len(s)
    BY <1>1, <2>1
  <2> QED BY <1>2, <2>3, <2>4 DEF Stands
<1> QED BY <1>2, <1>3, <1>4 DEF c, m, n

\* A string as long as the one it stands in is that string.
LEMMA StandsWhole ==
    ASSUME NEW s \in Seq(Byte), NEW w \in Seq(Byte), Stands(w, s, 0), Len(w) = Len(s)
    PROVE  w = s
<1>1. \A i \in 1 .. Len(w) : s[0 + i] = w[i]
  BY DEF Stands
<1>2. Len(w) \in Nat
  BY LenProperties
<1>3. \A i \in 1 .. Len(w) : 0 + i = i
  BY <1>2
<1>4. \A i \in 1 .. Len(w) : s[i] = w[i]
  BY <1>1, <1>3
<1> QED BY <1>4, SeqEqual

\* A string stands in itself.
LEMMA WholeStands ==
    ASSUME NEW s \in Seq(Byte)
    PROVE  Stands(s, s, 0)
<1>1. Len(s) \in Nat
  BY LenProperties
<1>2. \A i \in 1 .. Len(s) : 0 + i = i
  BY <1>1
<1> QED BY <1>1, <1>2 DEF Stands

\* Bytes that stand at the same place and are as many are the same.
LEMMA StandsSame ==
    ASSUME NEW s \in Seq(Byte), NEW u \in Seq(Byte), NEW w \in Seq(Byte), NEW at \in Nat,
           Stands(u, s, at), Stands(w, s, at), Len(u) = Len(w)
    PROVE  u = w
<1>1. \A i \in 1 .. Len(u) : s[at + i] = u[i] /\ s[at + i] = w[i]
  BY DEF Stands
<1> QED BY <1>1, SeqEqual

\* What a reader yields at a place is what is written there, and nothing that is
\* written there is refused.
Exactly(r, s, at, written) ==
    /\ \A x \in r : /\ x.v \in DOMAIN written /\ Stands(written[x.v], s, at)
                    /\ x.at = at + Len(written[x.v]) /\ x.at \in 0 .. Len(s)
    /\ \A v \in DOMAIN written :
          Stands(written[v], s, at) => r = Got(v, at + Len(written[v]))

Strings(n) == {w \in Seq(Byte) : Len(w) = n}
AsIs(n) == [w \in Strings(n) |-> w]

\* ReadBytes reads each string of its length as it is.
LEMMA ReadBytesExact ==
    ASSUME NEW s \in Seq(Byte), NEW at \in 0 .. Len(s), NEW n \in Nat
    PROVE  Exactly(ReadBytes(s, at, n), s, at, AsIs(n))
<1>1. Len(s) \in Nat /\ at \in Nat /\ at <= Len(s)
  BY LenProperties
<1>2. CASE n <= Len(s) - at
  <2> DEFINE w == SubSeq(s, at + 1, at + n)
  <2>1. /\ w \in Seq(Byte) /\ Len(w) = n
        /\ \A i \in 1 .. n : w[i] = s[at + i]
    <3>1. /\ at + 1 \in 1 .. (Len(s) + 1) /\ at + n \in ((at + 1) - 1) .. Len(s)
          /\ (at + n) - (at + 1) + 1 = n
      BY <1>1, <1>2
    <3>2. /\ w \in Seq(Byte) /\ Len(w) = (at + n) - (at + 1) + 1
          /\ \A i \in 1 .. ((at + n) - (at + 1) + 1) : w[i] = s[(at + 1) + i - 1]
      BY <3>1, SubSeqProperties
    <3>3. \A i \in 1 .. n : (at + 1) + i - 1 = at + i
      BY <1>1
    <3> HIDE DEF w
    <3> QED BY <3>1, <3>2, <3>3
  <2>2. ReadBytes(s, at, n) = Got(w, at + n)
    BY <1>2 DEF ReadBytes
  <2> HIDE DEF w
  <2>3. Stands(w, s, at) /\ at + n \in 0 .. Len(s)
    BY <1>1, <1>2, <2>1 DEF Stands
  <2>4. ASSUME NEW x \in ReadBytes(s, at, n)
        PROVE  x.v = w /\ x.at = at + n
    BY <2>2, <2>4 DEF Got
  <2>5. ASSUME NEW u \in Strings(n), Stands(u, s, at) PROVE u = w
    BY <1>1, <2>1, <2>3, <2>5, StandsSame DEF Strings
  <2>6. w \in Strings(n)
    BY <2>1 DEF Strings
  <2>7. ASSUME NEW x \in ReadBytes(s, at, n)
        PROVE  /\ x.v \in Strings(n) /\ Stands(x.v, s, at)
               /\ x.at = at + Len(x.v) /\ x.at \in 0 .. Len(s)
    BY <2>1, <2>3, <2>4, <2>6
  <2>8. ASSUME NEW u \in Strings(n), Stands(u, s, at)
        PROVE  ReadBytes(s, at, n) = Got(u, at + Len(u))
    BY <2>1, <2>2, <2>5, <2>8
  <2> QED BY <2>7, <2>8 DEF Exactly, AsIs
<1>3. CASE ~(n <= Len(s) - at)
  <2>1. ReadBytes(s, at, n) = {}
    BY <1>3 DEF ReadBytes, Throw
  <2>2. ASSUME NEW w \in Strings(n) PROVE ~Stands(w, s, at)
    BY <1>1, <1>3 DEF Strings, Stands
  <2> QED BY <2>1, <2>2 DEF Exactly, AsIs
<1> QED BY <1>2, <1>3

Unsigned(width) == 0 .. (Power(width) - 1)
Signed(width) == {v \in Int : -Power(width) <= 2 * v /\ 2 * v < Power(width)}

Numbers(width) == [v \in Unsigned(width) |-> Number(v, width)]
SignedNumbers(width) == [v \in Signed(width) |-> Number(v, width)]

\* ReadNumber reads what Number writes of a number that is not negative.
LEMMA ReadNumberExact ==
    ASSUME NEW s \in Seq(Byte), NEW at \in 0 .. Len(s), NEW width \in Nat
    PROVE  Exactly(ReadNumber(s, at, width), s, at, Numbers(width))
<1> DEFINE r == ReadBytes(s, at, width)
<1>1. /\ \A x \in r : x.v \in Strings(width) /\ Stands(x.v, s, at)
                      /\ x.at = at + Len(x.v) /\ x.at \in 0 .. Len(s)
      /\ \A w \in Strings(width) : Stands(w, s, at) => r = Got(w, at + Len(w))
  <2>1. Exactly(r, s, at, AsIs(width))
    BY ReadBytesExact
  <2> HIDE DEF r
  <2> QED BY <2>1 DEF Exactly, AsIs
<1>2. ReadNumber(s, at, width) = UNION {Got(Value(x.v), x.at) : x \in r}
  BY DEF ReadNumber, Then
<1>3. Power(width) \in Nat
  BY PowerFacts
<1>4. ASSUME NEW w \in Strings(width)
      PROVE  Value(w) \in Unsigned(width) /\ Number(Value(w), width) = w
  <2>1. w \in Seq(Byte) /\ Len(w) = width
    BY DEF Strings
  <2> QED BY <2>1, <1>3, ValueRange, NumberOfValue DEF Unsigned
<1>5. ASSUME NEW v \in Unsigned(width)
      PROVE  Number(v, width) \in Strings(width) /\ Value(Number(v, width)) = v
  <2>1. v \in Int /\ -Power(width) <= v /\ v < Power(width) /\ ~(v < 0)
    BY <1>3 DEF Unsigned
  <2>2. Value(Number(v, width)) = v
    BY <2>1, ValueOfNumber
  <2> QED BY <2>1, <2>2, NumberBytes DEF Strings
<1> HIDE DEF r
<1>6. ASSUME NEW x \in ReadNumber(s, at, width)
      PROVE  /\ x.v \in Unsigned(width) /\ Stands(Number(x.v, width), s, at)
             /\ x.at = at + Len(Number(x.v, width)) /\ x.at \in 0 .. Len(s)
  <2>1. PICK y \in r : x = [v |-> Value(y.v), at |-> y.at]
    BY <1>2, <1>6 DEF Got
  <2>2. x.v = Value(y.v) /\ x.at = y.at
    BY <2>1
  <2>3. y.v \in Strings(width)
    BY <1>1
  <2> QED BY <1>1, <1>4, <2>2, <2>3
<1>7. ASSUME NEW v \in Unsigned(width), Stands(Number(v, width), s, at)
      PROVE  ReadNumber(s, at, width) = Got(v, at + Len(Number(v, width)))
  <2> DEFINE w == Number(v, width)
  <2>1. w \in Strings(width) /\ Value(w) = v /\ r = Got(w, at + Len(w))
    BY <1>1, <1>5, <1>7
  <2> HIDE DEF w
  <2>2. UNION {Got(Value(x.v), x.at) : x \in r} = Got(Value(w), at + Len(w))
    BY <2>1 DEF Got
  <2> QED BY <1>2, <2>1, <2>2 DEF w
<1> QED BY <1>6, <1>7 DEF Exactly, Numbers

\* ReadSigned reads what Number writes of a number of half that range.
LEMMA ReadSignedExact ==
    ASSUME NEW s \in Seq(Byte), NEW at \in 0 .. Len(s), NEW width \in Nat
    PROVE  Exactly(ReadSigned(s, at, width), s, at, SignedNumbers(width))
<1> DEFINE r == ReadNumber(s, at, width)
           P == Power(width)
           Sign(v) == IF 2 * v >= P THEN v - P ELSE v
           Back(v) == IF v < 0 THEN v + P ELSE v
<1>1. /\ \A x \in r : x.v \in Unsigned(width) /\ Stands(Number(x.v, width), s, at)
                      /\ x.at = at + Len(Number(x.v, width)) /\ x.at \in 0 .. Len(s)
      /\ \A v \in Unsigned(width) : Stands(Number(v, width), s, at)
                                     => r = Got(v, at + Len(Number(v, width)))
  <2>1. Exactly(r, s, at, Numbers(width))
    BY ReadNumberExact
  <2> HIDE DEF r
  <2> QED BY <2>1 DEF Exactly, Numbers
<1>2. ReadSigned(s, at, width) = UNION {Got(Sign(x.v), x.at) : x \in r}
  BY DEF ReadSigned, Then
<1>3. P \in Nat \ {0}
  BY PowerFacts
<1>4. ASSUME NEW v \in Unsigned(width)
      PROVE  Sign(v) \in Signed(width) /\ Back(Sign(v)) = v
  <2>1. v \in Int /\ 0 <= v /\ v < P
    BY <1>3 DEF Unsigned
  <2>2. CASE 2 * v >= P
    BY <1>3, <2>1, <2>2 DEF Signed
  <2>3. CASE ~(2 * v >= P)
    BY <1>3, <2>1, <2>3 DEF Signed
  <2> QED BY <2>2, <2>3
<1>5. ASSUME NEW v \in Signed(width)
      PROVE  /\ Back(v) \in Unsigned(width) /\ Sign(Back(v)) = v
             /\ Number(Back(v), width) = Number(v, width)
  <2>1. v \in Int /\ -P <= v /\ v < P /\ -P <= 2 * v /\ 2 * v < P
    BY <1>3 DEF Signed
  <2>2. Back(v) \in Unsigned(width) /\ Sign(Back(v)) = v
    <3>1. CASE v < 0
      BY <1>3, <2>1, <3>1 DEF Unsigned
    <3>2. CASE ~(v < 0)
      BY <1>3, <2>1, <3>2 DEF Unsigned
    <3> QED BY <3>1, <3>2
  <2>3. Value(Number(v, width)) = Back(v)
    BY <2>1, ValueOfNumber
  <2>4. Number(v, width) \in Seq(Byte) /\ Len(Number(v, width)) = width
    BY <2>1, NumberBytes
  <2>5. Number(Value(Number(v, width)), width) = Number(v, width)
    BY <2>4, NumberOfValue
  <2> QED BY <2>2, <2>3, <2>5
<1> HIDE DEF r, Sign, Back, P
<1>6. ASSUME NEW x \in ReadSigned(s, at, width)
      PROVE  /\ x.v \in Signed(width) /\ Stands(Number(x.v, width), s, at)
             /\ x.at = at + Len(Number(x.v, width)) /\ x.at \in 0 .. Len(s)
  <2>1. PICK y \in r : x = [v |-> Sign(y.v), at |-> y.at]
    BY <1>2, <1>6 DEF Got
  <2>2. x.v = Sign(y.v) /\ x.at = y.at /\ y.v \in Unsigned(width)
    BY <1>1, <2>1
  <2>3. x.v \in Signed(width) /\ Back(x.v) = y.v
    BY <1>4, <2>2
  <2>4. Number(x.v, width) = Number(y.v, width)
    BY <1>5, <2>3
  <2> QED BY <1>1, <2>2, <2>3, <2>4
<1>7. ASSUME NEW v \in Signed(width), Stands(Number(v, width), s, at)
      PROVE  ReadSigned(s, at, width) = Got(v, at + Len(Number(v, width)))
  <2> DEFINE u == Back(v)
  <2>1. u \in Unsigned(width) /\ Sign(u) = v /\ Number(u, width) = Number(v, width)
    BY <1>5
  <2> HIDE DEF u
  <2>2. r = Got(u, at + Len(Number(v, width)))
    BY <1>1, <1>7, <2>1
  <2>3. UNION {Got(Sign(x.v), x.at) : x \in r} = Got(Sign(u), at + Len(Number(v, width)))
    BY <2>2 DEF Got
  <2> QED BY <1>2, <2>1, <2>3
<1> QED BY <1>6, <1>7 DEF Exactly, SignedNumbers

\* More bytes have more values.
LEMMA PowerGrows ==
    ASSUME NEW m \in Nat, NEW n \in Nat, m < n
    PROVE  Power(m) < Power(n)
<1>0. \A k \in Nat : Power(k) \in Nat \ {0} /\ Power(k + 1) = Base * Power(k)
  BY PowerFacts
<1>1. ASSUME NEW k \in Nat PROVE Power(k) < Power(k + 1)
  <2> DEFINE p == Power(k)
  <2>1. p \in Nat \ {0} /\ Power(k + 1) = Base * p
    BY <1>0
  <2> HIDE DEF p
  <2>2. p < Base * p
    BY <2>1, SizesAssumption
  <2> QED BY <2>1, <2>2 DEF p
<1> DEFINE d == n - m
           T == {k \in 0 .. d : k = 0 \/ Power(m) < Power(m + k)}
<1>2. d \in Nat /\ d # 0 /\ m + d = n
  OBVIOUS
<1> HIDE DEF d
<1>3. 0 \in T
  BY <1>2
<1>4. ASSUME NEW k \in 1 .. d, k - 1 \in T PROVE k \in T
  <2>1. m + (k - 1) \in Nat /\ (m + (k - 1)) + 1 = m + k /\ m + k \in Nat /\ k \in 0 .. d
    BY <1>2
  <2>2. Power(m + (k - 1)) < Power(m + k)
    BY <1>1, <2>1
  <2>3. k - 1 = 0 \/ Power(m) < Power(m + (k - 1))
    BY <1>4
  <2>4. CASE k - 1 = 0
    <3>1. m + (k - 1) = m
      BY <2>4
    <3> QED BY <2>1, <2>2, <3>1
  <2>5. CASE k - 1 # 0
    <3>1. Power(m) \in Nat /\ Power(m + (k - 1)) \in Nat /\ Power(m + k) \in Nat
      BY <1>0, <2>1
    <3>2. Power(m) < Power(m + k)
      BY <2>2, <2>3, <2>5, <3>1
    <3> QED BY <2>1, <3>2
  <2> QED BY <2>4, <2>5
<1> HIDE DEF T
<1>5. \A k \in 0 .. d : k \in T
  BY <1>2, <1>3, <1>4, UpTo
<1>6. d \in T
  BY <1>2, <1>5
<1> QED BY <1>2, <1>6 DEF T

\* The sizes of the integer types.
LEMMA Widths ==
    /\ Base \in Nat /\ Base > 4
    /\ Power(W16) \in Nat /\ Power(W32) \in Nat /\ Power(W64) \in Nat
    /\ Base <= Power(W16) /\ Power(W16) < Power(W32) /\ Power(W32) < Power(W64)
<1>1. /\ Base \in Nat /\ Base > 4
      /\ W16 \in Nat /\ W32 \in Nat /\ W64 \in Nat
      /\ 0 < W16 /\ W16 < W32 /\ W32 < W64
  BY SizesAssumption
<1>2. Power(W16) \in Nat /\ Power(W32) \in Nat /\ Power(W64) \in Nat
  BY <1>1, PowerFacts
<1>3. Power(W16) < Power(W32) /\ Power(W32) < Power(W64)
  BY <1>1, PowerGrows
<1>4. Base <= Power(W16)
  <2> DEFINE w == W16 - 1
             p == Power(w)
  <2>1. w \in Nat /\ w + 1 = W16
    BY <1>1
  <2> HIDE DEF w
  <2>2. p \in Nat \ {0} /\ Power(w + 1) = Base * p
    BY <2>1, PowerFacts
  <2> HIDE DEF p
  <2>3. Base <= Base * p
    BY <1>1, <2>2
  <2> QED BY <2>1, <2>2, <2>3
<1> QED BY <1>1, <1>2, <1>3, <1>4

\* A byte makes a string of length one.
LEMMA OneByte ==
    ASSUME NEW b \in Byte
    PROVE  <<b>> \in Seq(Byte) /\ Len(<<b>>) = 1 /\ <<b>>[1] = b
OBVIOUS

\* The first byte of a string of several.
LEMMA StandsMarked ==
    ASSUME NEW s \in Seq(Byte), NEW at \in Nat, NEW b \in Byte, NEW w \in Seq(Byte)
    PROVE  /\ <<b>> \o w \in Seq(Byte) /\ Len(<<b>> \o w) = 1 + Len(w)
           /\ Stands(<<b>> \o w, s, at)
                <=> (at + 1 <= Len(s) /\ s[at + 1] = b /\ Stands(w, s, at + 1))
<1>1. <<b>> \in Seq(Byte) /\ Len(<<b>>) = 1 /\ <<b>>[1] = b
  BY OneByte
<1>2. /\ <<b>> \o w \in Seq(Byte) /\ Len(<<b>> \o w) = Len(<<b>>) + Len(w)
      /\ Stands(<<b>> \o w, s, at) <=> (Stands(<<b>>, s, at) /\ Stands(w, s, at + Len(<<b>>)))
  BY <1>1, StandsConcat
<1>3. Stands(<<b>>, s, at) <=> (at + 1 <= Len(s) /\ s[at + 1] = b)
  BY <1>1 DEF Stands
<1> QED BY <1>1, <1>2, <1>3

\* The first byte of a size is read where a byte is left.
LEMMA ReadMarker ==
    ASSUME NEW s \in Seq(Byte), NEW at \in 0 .. Len(s)
    PROVE  ReadBytes(s, at, 1) = IF at < Len(s) THEN Got(<<s[at + 1]>>, at + 1) ELSE {}
<1>1. Len(s) \in Nat /\ at \in Nat /\ at <= Len(s)
  BY LenProperties
<1>2. CASE at < Len(s)
  <2> DEFINE b == s[at + 1]
  <2>1. b \in Byte
    BY <1>1, <1>2, ElementOfSeq
  <2> HIDE DEF b
  <2>2. <<b>> \in Strings(1) /\ Len(<<b>>) = 1 /\ <<b>>[1] = b
    BY <2>1, OneByte DEF Strings
  <2>3. Stands(<<b>>, s, at)
    BY <1>1, <1>2, <2>2 DEF Stands, b
  <2>4. \A w \in Strings(1) : Stands(w, s, at) => ReadBytes(s, at, 1) = Got(w, at + Len(w))
    <3>1. Exactly(ReadBytes(s, at, 1), s, at, AsIs(1))
      BY ReadBytesExact
    <3> QED BY <3>1 DEF Exactly, AsIs
  <2> QED BY <1>2, <2>2, <2>3, <2>4 DEF b
<1>3. CASE ~(at < Len(s))
  BY <1>1, <1>3 DEF ReadBytes, Throw
<1> QED BY <1>2, <1>3

\* An integer of some bytes that a shorter form could not hold.
AtLeast(s, at, low, width) ==
    Then(ReadNumber(s, at, width), LAMBDA v, b : IF v < low THEN Throw ELSE Got(v, b))

\* After its marker, a size that needs the type is read from what is written
\* of it.
LEMMA AtLeastExact ==
    ASSUME NEW s \in Seq(Byte), NEW at \in Nat, NEW low \in Nat, NEW width \in Nat,
           NEW b \in Byte, at < Len(s), s[at + 1] = b
    PROVE  /\ \A v \in Unsigned(width) :
                 <<b>> \o Number(v, width) \in Seq(Byte)
           /\ \A x \in AtLeast(s, at + 1, low, width) :
                 /\ x.v \in Unsigned(width) /\ low <= x.v
                 /\ Stands(<<b>> \o Number(x.v, width), s, at)
                 /\ x.at = at + Len(<<b>> \o Number(x.v, width)) /\ x.at \in 0 .. Len(s)
           /\ \A v \in Unsigned(width) :
                 low <= v /\ Stands(<<b>> \o Number(v, width), s, at)
                   => AtLeast(s, at + 1, low, width) = Got(v, at + Len(<<b>> \o Number(v, width)))
<1> DEFINE r == ReadNumber(s, at + 1, width)
           n(v) == Number(v, width)
           a == at + 1
<1>1. a \in 0 .. Len(s) /\ Len(s) \in Nat /\ Unsigned(width) \subseteq Nat
  <2>1. Power(width) \in Nat
    BY PowerFacts
  <2>2. Len(s) \in Nat
    BY LenProperties
  <2> QED BY <2>1, <2>2 DEF Unsigned
<1>2. /\ \A x \in r : /\ x.v \in Unsigned(width) /\ Stands(n(x.v), s, a)
                      /\ x.at = a + Len(n(x.v)) /\ x.at \in 0 .. Len(s)
      /\ \A v \in Unsigned(width) : Stands(n(v), s, a) => r = Got(v, a + Len(n(v)))
  <2>1. a \in 0 .. Len(s)
    BY <1>1
  <2> HIDE DEF a
  <2>2. Exactly(ReadNumber(s, a, width), s, a, Numbers(width))
    BY <2>1, ReadNumberExact
  <2>3. r = ReadNumber(s, a, width)
    BY DEF a
  <2> HIDE DEF r
  <2> QED BY <2>2, <2>3 DEF Exactly, Numbers
<1>3. AtLeast(s, a, low, width) = {x \in r : ~(x.v < low)}
  <2>1. AtLeast(s, a, low, width) = UNION {IF x.v < low THEN {} ELSE Got(x.v, x.at) : x \in r}
    BY DEF AtLeast, Then, Throw
  <2>2. \A x \in r : x = [v |-> x.v, at |-> x.at]
    <3>1. r = UNION {Got(Value(y.v), y.at) : y \in ReadBytes(s, at + 1, width)}
      BY DEF ReadNumber, Then
    <3>2. ASSUME NEW x \in r PROVE \E v1, at1 : x = [v |-> v1, at |-> at1]
      BY <3>1, <3>2 DEF Got
    <3> QED BY <3>2
  <2> HIDE DEF r
  <2> QED BY <2>1, <2>2 DEF Got
<1>4. ASSUME NEW v \in Unsigned(width)
      PROVE  /\ <<b>> \o n(v) \in Seq(Byte) /\ at + Len(<<b>> \o n(v)) = a + Len(n(v))
             /\ Stands(<<b>> \o n(v), s, at) <=> Stands(n(v), s, a)
  <2>1. n(v) \in Seq(Byte) /\ Len(n(v)) \in Nat
    BY <1>1, NumberBytes
  <2>2. /\ <<b>> \o n(v) \in Seq(Byte) /\ Len(<<b>> \o n(v)) = 1 + Len(n(v))
        /\ Stands(<<b>> \o n(v), s, at)
             <=> (at + 1 <= Len(s) /\ s[at + 1] = b /\ Stands(n(v), s, at + 1))
    BY <2>1, StandsMarked
  <2>3. at + (1 + Len(n(v))) = a + Len(n(v)) /\ at + 1 <= Len(s)
    BY <1>1, <2>1
  <2> HIDE DEF n
  <2> QED BY <2>2, <2>3
<1> HIDE DEF r, n
<1>5. ASSUME NEW x \in AtLeast(s, a, low, width)
      PROVE  /\ x.v \in Unsigned(width) /\ low <= x.v
             /\ Stands(<<b>> \o n(x.v), s, at)
             /\ x.at = at + Len(<<b>> \o n(x.v)) /\ x.at \in 0 .. Len(s)
  <2>1. x \in r /\ ~(x.v < low)
    BY <1>3, <1>5
  <2>2. x.v \in Unsigned(width) /\ x.v \in Nat
    BY <1>1, <1>2, <2>1
  <2> QED BY <1>2, <1>4, <2>1, <2>2
<1>6. ASSUME NEW v \in Unsigned(width), low <= v, Stands(<<b>> \o n(v), s, at)
      PROVE  AtLeast(s, a, low, width) = Got(v, at + Len(<<b>> \o n(v)))
  <2>1. r = Got(v, at + Len(<<b>> \o n(v)))
    BY <1>2, <1>4, <1>6
  <2>2. v \in Nat /\ ~(v < low)
    BY <1>1, <1>6
  <2> QED BY <1>3, <2>1, <2>2 DEF Got
<1> QED BY <1>4, <1>5, <1>6 DEF n

\* The four forms of a size.
LEMMA CompactForms ==
    ASSUME NEW v \in Unsigned(W64)
    PROVE  /\ v \in Nat
           /\ Compact(v) = IF v < Base - 3 THEN <<v>>
                           ELSE IF v < Power(W16) THEN <<Base - 3>> \o Number(v, W16)
                           ELSE IF v < Power(W32) THEN <<Base - 2>> \o Number(v, W32)
                           ELSE <<Base - 1>> \o Number(v, W64)
           /\ Compact(v) \in Seq(Byte) /\ Len(Compact(v)) \in Nat \ {0}
<1>1. /\ v \in Nat /\ Base \in Nat /\ Base > 4
      /\ Power(W16) \in Nat /\ Power(W32) \in Nat /\ Power(W64) \in Nat
      /\ Base <= Power(W16) /\ Power(W16) < Power(W32) /\ Power(W32) < Power(W64)
  BY Widths DEF Unsigned
<1>2. Compact(v) = IF v < Base - 3 THEN <<v>>
                           ELSE IF v < Power(W16) THEN <<Base - 3>> \o Number(v, W16)
                           ELSE IF v < Power(W32) THEN <<Base - 2>> \o Number(v, W32)
                           ELSE <<Base - 1>> \o Number(v, W64)
  <2> DEFINE p16 == Power(W16)
             p32 == Power(W32)
             n16 == Number(v, W16)
             n32 == Number(v, W32)
             n64 == Number(v, W64)
  <2>1. Compact(v) = CASE v < Base - 3              -> <<v>>
                       [] v \in Base - 3 .. p16 - 1 -> <<Base - 3>> \o n16
                       [] v \in p16 .. p32 - 1      -> <<Base - 2>> \o n32
                       [] OTHER                     -> <<Base - 1>> \o n64
    BY DEF Compact
  <2>2. p16 \in Nat /\ p32 \in Nat /\ Base <= p16 /\ p16 < p32
    BY <1>1
  <2> HIDE DEF p16, p32, n16, n32, n64
  <2>3. /\ v < Base - 3 => v < p16
        /\ v \in Base - 3 .. p16 - 1 <=> ~(v < Base - 3) /\ v < p16
        /\ v \in p16 .. p32 - 1 <=> ~(v < p16) /\ v < p32
    BY <1>1, <2>2
  <2> HIDE DEF Compact
  <2>7. Compact(v) = IF v < Base - 3 THEN <<v>>
                           ELSE IF v < p16 THEN <<Base - 3>> \o n16
                           ELSE IF v < p32 THEN <<Base - 2>> \o n32
                           ELSE <<Base - 1>> \o n64
    <3>1. CASE v < Base - 3
      BY <1>1, <2>1, <2>2, <2>3, <3>1
    <3>2. CASE ~(v < Base - 3) /\ v < p16
      BY <1>1, <2>1, <2>2, <2>3, <3>2
    <3>3. CASE ~(v < p16) /\ v < p32
      BY <1>1, <2>1, <2>2, <2>3, <3>3
    <3>4. CASE ~(v < p32)
      BY <1>1, <2>1, <2>2, <2>3, <3>4
    <3> QED BY <1>1, <2>2, <3>1, <3>2, <3>3, <3>4
  <2> QED BY <2>7 DEF p16, p32, n16, n32, n64
<1>3. ASSUME NEW b \in Byte, NEW width \in Nat
      PROVE  <<b>> \o Number(v, width) \in Seq(Byte) /\ Len(<<b>> \o Number(v, width)) \in Nat \ {0}
  <2>1. Number(v, width) \in Seq(Byte)
    BY <1>1, NumberBytes
  <2>2. /\ <<b>> \o Number(v, width) \in Seq(Byte)
        /\ Len(<<b>> \o Number(v, width)) = 1 + Len(Number(v, width))
    <3>1. <<>> \in Seq(Byte) /\ 0 \in Nat
      OBVIOUS
    <3> QED BY <2>1, <3>1, StandsMarked
  <2>3. Len(Number(v, width)) \in Nat
    BY <2>1, LenProperties
  <2> QED BY <2>2, <2>3
<1>4. Compact(v) \in Seq(Byte) /\ Len(Compact(v)) \in Nat \ {0}
  <2>1. /\ W16 \in Nat /\ W32 \in Nat /\ W64 \in Nat
        /\ Base - 3 \in Byte /\ Base - 2 \in Byte /\ Base - 1 \in Byte
    BY <1>1, SizesAssumption DEF Byte
  <2>2. CASE v < Base - 3
    <3>1. Compact(v) = <<v>> /\ v \in Byte
      BY <1>1, <1>2, <2>2 DEF Byte
    <3> QED BY <3>1, OneByte
  <2>3. CASE ~(v < Base - 3)
    <3>1. \E b \in Byte, width \in Nat : Compact(v) = <<b>> \o Number(v, width)
      BY <1>2, <2>1, <2>3
    <3> HIDE DEF Compact
    <3> QED BY <1>3, <3>1
  <2> QED BY <2>2, <2>3
<1> QED BY <1>1, <1>2, <1>4

Sizes == [v \in Unsigned(W64) |-> Compact(v)]

\* ReadCompact reads the one form that Compact writes of a size, and no other.
LEMMA ReadCompactExact ==
    ASSUME NEW s \in Seq(Byte), NEW at \in 0 .. Len(s)
    PROVE  Exactly(ReadCompact(s, at), s, at, Sizes)
<1> DEFINE V == Unsigned(W64)
           b == s[at + 1]
           p16 == Power(W16)
           p32 == Power(W32)
           low == IF b = Base - 3 THEN Base - 3 ELSE IF b = Base - 2 THEN p16 ELSE p32
           width == IF b = Base - 3 THEN W16 ELSE IF b = Base - 2 THEN W32 ELSE W64
           form == AtLeast(s, at + 1, low, width)
           c(v) == Compact(v)
           w(v) == <<b>> \o Number(v, width)
<1>1. at \in Nat /\ at <= Len(s) /\ Len(s) \in Nat
  BY LenProperties
<1>2. /\ Base \in Nat /\ Base > 4
      /\ p16 \in Nat /\ p32 \in Nat /\ Power(W64) \in Nat
      /\ Base <= p16 /\ p16 < p32 /\ p32 < Power(W64)
  BY Widths
<1>3. W16 \in Nat /\ W32 \in Nat /\ W64 \in Nat
  BY SizesAssumption
<1>4. ReadCompact(s, at) = IF ~(at < Len(s)) THEN {}
                           ELSE IF b < Base - 3 THEN Got(b, at + 1) ELSE form
  <2> DEFINE Rest(m, a) ==
               CASE m[1] < Base - 3 -> Got(m[1], a)
                 [] m[1] = Base - 3 -> AtLeast(s, a, Base - 3, W16)
                 [] m[1] = Base - 2 -> AtLeast(s, a, Power(W16), W32)
                 [] OTHER           -> AtLeast(s, a, Power(W32), W64)
  <2>1. ReadCompact(s, at) = UNION {Rest(x.v, x.at) : x \in ReadBytes(s, at, 1)}
    BY DEF ReadCompact, AtLeast, Then
  <2>2. ReadBytes(s, at, 1) = IF at < Len(s) THEN {[v |-> <<b>>, at |-> at + 1]} ELSE {}
    BY ReadMarker DEF Got
  <2>3. CASE ~(at < Len(s))
    BY <2>1, <2>2, <2>3
  <2>4. CASE at < Len(s)
    <3>1. ReadCompact(s, at) = Rest(<<b>>, at + 1)
      <4> DEFINE x == [v |-> <<b>>, at |-> at + 1]
      <4>1. ReadBytes(s, at, 1) = {x}
        BY <2>2, <2>4
      <4>2. x.v = <<b>> /\ x.at = at + 1
        OBVIOUS
      <4> HIDE DEF Rest, b, x
      <4>3. UNION {Rest(y.v, y.at) : y \in {x}} = Rest(x.v, x.at)
        OBVIOUS
      <4> QED BY <2>1, <4>1, <4>2, <4>3
    <3>2. b \in Byte
      BY <1>1, <2>4, ElementOfSeq
    <3>3. b \in Int /\ (b < Base - 3 => b # Base - 3 /\ b # Base - 2) /\ Base - 3 # Base - 2
      BY <1>2, <3>2 DEF Byte
    <3> DEFINE m == <<b>>
    <3>4. m[1] = b
      OBVIOUS
    <3>5. Rest(m, at + 1) = IF b < Base - 3 THEN Got(b, at + 1) ELSE form
      <4> HIDE DEF b, m
      <4>1. CASE b < Base - 3
        BY <3>3, <3>4, <4>1
      <4>2. CASE b = Base - 3
        BY <1>2, <3>3, <3>4, <4>2
      <4>3. CASE b = Base - 2
        BY <1>2, <3>3, <3>4, <4>3
      <4>4. CASE ~(b < Base - 3) /\ b # Base - 3 /\ b # Base - 2
        BY <3>3, <3>4, <4>4
      <4> QED BY <4>1, <4>2, <4>3, <4>4
    <3> QED BY <2>4, <3>1, <3>5
  <2> QED BY <2>3, <2>4
<1>5. ASSUME NEW v \in V
      PROVE  /\ v \in Nat /\ v < Power(W64)
             /\ c(v) = IF v < Base - 3 THEN <<v>>
                       ELSE IF v < p16 THEN <<Base - 3>> \o Number(v, W16)
                       ELSE IF v < p32 THEN <<Base - 2>> \o Number(v, W32)
                       ELSE <<Base - 1>> \o Number(v, W64)
             /\ c(v) \in Seq(Byte) /\ Len(c(v)) \in Nat \ {0}
  <2>1. v \in Nat /\ v < Power(W64)
    BY <1>2 DEF Unsigned
  <2> QED BY <2>1, CompactForms
<1>6. CASE ~(at < Len(s))
  <2>1. ReadCompact(s, at) = {}
    BY <1>4, <1>6
  <2>2. ASSUME NEW v \in V, Stands(c(v), s, at) PROVE FALSE
    <3>1. at + Len(c(v)) <= Len(s) /\ Len(c(v)) \in Nat \ {0}
      BY <1>5, <2>2 DEF Stands
    <3> HIDE DEF c
    <3> QED BY <1>1, <1>6, <3>1
  <2> QED BY <2>1, <2>2 DEF Exactly, Sizes
<1>7. CASE at < Len(s)
  <2>0. b \in Byte /\ b \in Nat /\ b <= Base - 1
    <3>1. b \in Byte
      BY <1>1, <1>7, ElementOfSeq
    <3> QED BY <1>2, <3>1 DEF Byte
  <2>1. ASSUME NEW v \in V, Stands(c(v), s, at)
        PROVE  c(v)[1] = b
    <3>1. at + Len(c(v)) <= Len(s) /\ \A i \in 1 .. Len(c(v)) : s[at + i] = c(v)[i]
      BY <2>1 DEF Stands
    <3>2. 1 \in 1 .. Len(c(v))
      BY <1>5
    <3> QED BY <3>1, <3>2
  <2>2. ASSUME NEW v \in V
        PROVE  c(v)[1] = IF v < Base - 3 THEN v ELSE IF v < p16 THEN Base - 3
                         ELSE IF v < p32 THEN Base - 2 ELSE Base - 1
    <3>1. ASSUME NEW m \in Byte, NEW n \in Nat PROVE (<<m>> \o Number(v, n))[1] = m
      <4>1. Number(v, n) \in Seq(Byte)
        BY <1>5, NumberBytes
      <4>2. <<m>> \in Seq(Byte) /\ Len(<<m>>) = 1 /\ <<m>>[1] = m
        BY <3>1, OneByte
      <4> QED BY <4>1, <4>2, ConcatProperties
    <3>2. Base - 3 \in Byte /\ Base - 2 \in Byte /\ Base - 1 \in Byte
      BY <1>2 DEF Byte
    <3>3. <<v>>[1] = v
      OBVIOUS
    <3>4. /\ (<<Base - 3>> \o Number(v, W16))[1] = Base - 3
          /\ (<<Base - 2>> \o Number(v, W32))[1] = Base - 2
          /\ (<<Base - 1>> \o Number(v, W64))[1] = Base - 1
      BY <1>3, <3>1, <3>2
    <3> HIDE DEF c, p16, p32, V
    <3> QED BY <1>5, <3>3, <3>4
  <2>3. CASE b < Base - 3
    <3>1. ReadCompact(s, at) = Got(b, at + 1)
      BY <1>4, <1>7, <2>3
    <3>2. b \in V /\ c(b) = <<b>> /\ Len(<<b>>) = 1 /\ <<b>>[1] = b
      <4>1. b \in V
        BY <1>2, <2>0, <2>3 DEF Unsigned
      <4> HIDE DEF V, b
      <4> QED BY <1>5, <2>3, <4>1
    <3>3. Stands(<<b>>, s, at) /\ at + 1 \in 0 .. Len(s)
      BY <1>1, <1>7, <3>2 DEF Stands
    <3>4. ASSUME NEW x \in ReadCompact(s, at)
          PROVE  x.v \in V /\ Stands(c(x.v), s, at) /\ x.at = at + Len(c(x.v)) /\ x.at \in 0 .. Len(s)
      <4>1. x.v = b /\ x.at = at + 1
        BY <3>1, <3>4 DEF Got
      <4> QED BY <3>2, <3>3, <4>1
    <3>5. ASSUME NEW v \in V, Stands(c(v), s, at)
          PROVE  ReadCompact(s, at) = Got(v, at + Len(c(v)))
      <4>1. c(v)[1] = b
        BY <2>1, <3>5
      <4>2. v = b
        <5> HIDE DEF c, b, p16, p32, V
        <5> QED BY <1>2, <1>5, <2>0, <2>2, <2>3, <4>1
      <4> QED BY <3>1, <3>2, <4>2
    <3> HIDE DEF c, V, b
    <3> QED BY <3>4, <3>5 DEF Exactly, Sizes, c, V
  <2>4. CASE ~(b < Base - 3)
    <3>1. ReadCompact(s, at) = form
      BY <1>4, <1>7, <2>4
    <3>2. low \in Nat /\ width \in Nat
      BY <1>2, <1>3
    <3>3. b = Base - 3 \/ b = Base - 2 \/ b = Base - 1
      BY <1>2, <2>0, <2>4
    <3>4. /\ \A x \in form : /\ x.v \in Unsigned(width) /\ low <= x.v
                             /\ Stands(w(x.v), s, at)
                             /\ x.at = at + Len(w(x.v)) /\ x.at \in 0 .. Len(s)
          /\ \A v \in Unsigned(width) : low <= v /\ Stands(w(v), s, at)
                                         => form = Got(v, at + Len(w(v)))
      <4> HIDE DEF low, width, b
      <4> QED BY <1>1, <1>7, <2>0, <3>2, AtLeastExact DEF b
    <3>5. Unsigned(width) = 0 .. (Power(width) - 1) /\ V = 0 .. (Power(W64) - 1)
      BY DEF Unsigned
    <3>6. ASSUME NEW v \in Unsigned(width), low <= v
          PROVE  v \in V /\ c(v) = w(v)
      <4>1. CASE b = Base - 3
        <5>1. v \in V /\ ~(v < Base - 3) /\ v < p16
          BY <1>2, <3>5, <3>6, <4>1
        <5> HIDE DEF c, V, p16, p32
        <5> QED BY <1>5, <4>1, <5>1
      <4>2. CASE b = Base - 2
        <5>1. v \in V /\ ~(v < Base - 3) /\ ~(v < p16) /\ v < p32
          BY <1>2, <3>5, <3>6, <4>2
        <5> HIDE DEF c, V, p16, p32
        <5> QED BY <1>2, <1>5, <4>2, <5>1
      <4>3. CASE b = Base - 1
        <5>1. v \in V /\ ~(v < Base - 3) /\ ~(v < p16) /\ ~(v < p32)
          BY <1>2, <3>5, <3>6, <4>3
        <5>2. b # Base - 3 /\ b # Base - 2
          BY <1>2, <4>3
        <5> HIDE DEF c, V, p16, p32
        <5> QED BY <1>2, <1>5, <4>3, <5>1, <5>2
      <4> QED BY <3>3, <4>1, <4>2, <4>3
    <3>7. ASSUME NEW v \in V, Stands(c(v), s, at)
          PROVE  v \in Unsigned(width) /\ low <= v
      <4>1. /\ v \in Nat /\ v < Power(W64)
            /\ b = IF v < Base - 3 THEN v ELSE IF v < p16 THEN Base - 3
                   ELSE IF v < p32 THEN Base - 2 ELSE Base - 1
        <5>1. c(v)[1] = b
          BY <2>1, <3>7
        <5> HIDE DEF c, b, V
        <5> QED BY <1>5, <2>2, <5>1
      <4>2. CASE b = Base - 3
        <5>1. low <= v /\ v < p16
          BY <1>2, <2>4, <4>1, <4>2
        <5>2. width = W16
          BY <4>2
        <5> QED BY <1>2, <4>1, <5>1, <5>2 DEF Unsigned
      <4>3. CASE b = Base - 2
        <5>1. low <= v /\ v < p32 /\ b # Base - 3
          BY <1>2, <2>4, <4>1, <4>3
        <5>2. width = W32
          BY <4>3, <5>1
        <5> QED BY <1>2, <4>1, <5>1, <5>2 DEF Unsigned
      <4>4. CASE b = Base - 1
        <5>1. low <= v /\ b # Base - 3 /\ b # Base - 2
          BY <1>2, <2>4, <4>1, <4>4
        <5>2. width = W64
          BY <5>1
        <5> QED BY <1>2, <4>1, <5>1, <5>2 DEF Unsigned
      <4> QED BY <3>3, <4>2, <4>3, <4>4
    <3> HIDE DEF form, low, width, b, c, w, V
    <3>8. ASSUME NEW x \in form
          PROVE  x.v \in V /\ Stands(c(x.v), s, at) /\ x.at = at + Len(c(x.v)) /\ x.at \in 0 .. Len(s)
      BY <3>4, <3>6, <3>8
    <3>9. ASSUME NEW v \in V, Stands(c(v), s, at)
          PROVE  form = Got(v, at + Len(c(v)))
      <4>1. v \in Unsigned(width) /\ low <= v
        BY <3>7, <3>9
      <4>2. c(v) = w(v)
        BY <3>6, <4>1
      <4> QED BY <3>4, <3>9, <4>1, <4>2
    <3> QED BY <3>1, <3>8, <3>9 DEF Exactly, Sizes, c, V
  <2> QED BY <2>3, <2>4
<1> QED BY <1>6, <1>7

\* Two readers one after the other: F[a] is what the second reads at a.
Pairs(r, F) == UNION {UNION {Got(<<x.v, y.v>>, y.at) : y \in F[x.at]} : x \in r}

Joint(w1, w2) == [p \in (DOMAIN w1) \X (DOMAIN w2) |-> w1[p[1]] \o w2[p[2]]]

\* Two readers one after the other read what their two writers write.
LEMMA PairsExact ==
    ASSUME NEW s \in Seq(Byte), NEW at \in 0 .. Len(s),
           NEW V1, NEW w1 \in [V1 -> Seq(Byte)], NEW V2, NEW w2 \in [V2 -> Seq(Byte)],
           NEW r, Exactly(r, s, at, w1),
           NEW F, \A a \in 0 .. Len(s) : Exactly(F[a], s, a, w2)
    PROVE  Joint(w1, w2) \in [V1 \X V2 -> Seq(Byte)] /\ Exactly(Pairs(r, F), s, at, Joint(w1, w2))
<1> DEFINE W(p) == w1[p[1]] \o w2[p[2]]
<1>1. at \in Nat /\ at <= Len(s) /\ Len(s) \in Nat
  BY LenProperties
<1>2. /\ DOMAIN w1 = V1 /\ DOMAIN w2 = V2
      /\ \A p \in V1 \X V2 : Joint(w1, w2)[p] = W(p)
      /\ DOMAIN Joint(w1, w2) = V1 \X V2
  BY DEF Joint
<1>3. ASSUME NEW u \in V1, NEW v \in V2
      PROVE  /\ w1[u] \in Seq(Byte) /\ w2[v] \in Seq(Byte)
             /\ Len(w1[u]) \in Nat /\ Len(w2[v]) \in Nat
             /\ w1[u] \o w2[v] \in Seq(Byte) /\ at + Len(w1[u] \o w2[v]) = (at + Len(w1[u])) + Len(w2[v])
             /\ Stands(w1[u] \o w2[v], s, at)
                  <=> (Stands(w1[u], s, at) /\ Stands(w2[v], s, at + Len(w1[u])))
  <2>1. w1[u] \in Seq(Byte) /\ w2[v] \in Seq(Byte)
    OBVIOUS
  <2> DEFINE x == w1[u]
             y == w2[v]
  <2> HIDE DEF x, y
  <2>2. x \in Seq(Byte) /\ y \in Seq(Byte)
    BY <2>1 DEF x, y
  <2>3. Len(x) \in Nat /\ Len(y) \in Nat
    BY <2>2, LenProperties
  <2>4. /\ x \o y \in Seq(Byte) /\ Len(x \o y) = Len(x) + Len(y)
        /\ Stands(x \o y, s, at) <=> (Stands(x, s, at) /\ Stands(y, s, at + Len(x)))
    BY <1>1, <2>2, StandsConcat
  <2>5. at + Len(x \o y) = (at + Len(x)) + Len(y)
    BY <1>1, <2>3, <2>4
  <2> QED BY <2>2, <2>3, <2>4, <2>5 DEF x, y
<1>4. Joint(w1, w2) \in [V1 \X V2 -> Seq(Byte)]
  <2>1. \A p \in V1 \X V2 : p[1] \in V1 /\ p[2] \in V2
    OBVIOUS
  <2>2. \A p \in V1 \X V2 : W(p) \in Seq(Byte)
    BY <1>3, <2>1
  <2>3. Joint(w1, w2) = [p \in V1 \X V2 |-> W(p)]
    BY DEF Joint
  <2> HIDE DEF W
  <2> QED BY <2>2, <2>3
<1>5. ASSUME NEW z \in Pairs(r, F)
      PROVE  /\ z.v \in V1 \X V2 /\ Stands(W(z.v), s, at)
             /\ z.at = at + Len(W(z.v)) /\ z.at \in 0 .. Len(s)
  <2>1. PICK x \in r : \E y \in F[x.at] : z = [v |-> <<x.v, y.v>>, at |-> y.at]
    BY <1>5 DEF Pairs, Got
  <2>2. PICK y \in F[x.at] : z = [v |-> <<x.v, y.v>>, at |-> y.at]
    BY <2>1
  <2>3. z.v = <<x.v, y.v>> /\ z.at = y.at /\ z.v[1] = x.v /\ z.v[2] = y.v
    BY <2>2
  <2>4. x.v \in V1 /\ Stands(w1[x.v], s, at) /\ x.at = at + Len(w1[x.v]) /\ x.at \in 0 .. Len(s)
    BY <1>2 DEF Exactly
  <2>5. y.v \in V2 /\ Stands(w2[y.v], s, x.at) /\ y.at = x.at + Len(w2[y.v]) /\ y.at \in 0 .. Len(s)
    BY <1>2, <2>4 DEF Exactly
  <2>6. W(z.v) = w1[x.v] \o w2[y.v] /\ z.v \in V1 \X V2
    BY <2>3, <2>4, <2>5
  <2>7. /\ at + Len(w1[x.v] \o w2[y.v]) = (at + Len(w1[x.v])) + Len(w2[y.v])
        /\ Stands(w1[x.v] \o w2[y.v], s, at)
    BY <1>3, <2>4, <2>5
  <2> QED BY <2>3, <2>4, <2>5, <2>6, <2>7
<1>6. ASSUME NEW p \in V1 \X V2, Stands(W(p), s, at)
      PROVE  Pairs(r, F) = Got(p, at + Len(W(p)))
  <2> DEFINE u == p[1]
             v == p[2]
             a == at + Len(w1[u])
             b == a + Len(w2[v])
  <2>1. u \in V1 /\ v \in V2 /\ p = <<u, v>>
    OBVIOUS
  <2>2. /\ Stands(w1[u], s, at) /\ Stands(w2[v], s, a) /\ at + Len(W(p)) = b
        /\ Len(w1[u]) \in Nat
    BY <1>3, <1>6, <2>1
  <2>3. a \in 0 .. Len(s)
    <3>1. a <= Len(s)
      BY <2>2 DEF Stands
    <3> QED BY <1>1, <2>2, <3>1
  <2>4. r = Got(u, a)
    BY <1>2, <2>1, <2>2 DEF Exactly
  <2>5. F[a] = Got(v, b)
    BY <1>2, <2>1, <2>2, <2>3 DEF Exactly
  <2> HIDE DEF u, v, a, b
  <2>6. Pairs(r, F) = Got(<<u, v>>, b)
    <3> DEFINE x == [v |-> u, at |-> a]
               y == [v |-> v, at |-> b]
               One(z) == UNION {Got(<<z.v, t.v>>, t.at) : t \in F[z.at]}
    <3>1. x.v = u /\ x.at = a /\ y.v = v /\ y.at = b /\ r = {x} /\ F[a] = {y}
      BY <2>4, <2>5 DEF Got
    <3>2. Pairs(r, F) = UNION {One(z) : z \in r}
      BY DEF Pairs
    <3>3. One(x) = UNION {Got(<<u, t.v>>, t.at) : t \in {y}}
      BY <3>1
    <3> HIDE DEF One, x, y
    <3>4. Pairs(r, F) = One(x)
      BY <3>1, <3>2
    <3>5. One(x) = Got(<<u, y.v>>, y.at)
      BY <3>3
    <3> QED BY <3>1, <3>4, <3>5
  <2> QED BY <2>1, <2>2, <2>6
<1> HIDE DEF W
<1> QED BY <1>2, <1>4, <1>5, <1>6 DEF Exactly

\* The same bytes under another name for what they say.
Renames(name, w, written) ==
    /\ \A v \in DOMAIN w : name[v] \in DOMAIN written /\ written[name[v]] = w[v]
    /\ \A u \in DOMAIN written : \E v \in DOMAIN w : name[v] = u

\* A reader stays exact when what it reads is put into a record.
LEMMA Renamed ==
    ASSUME NEW s, NEW at, NEW r, NEW w, NEW written, NEW name, NEW q,
           Exactly(r, s, at, w),
           Renames(name, w, written),
           q = UNION {Got(name[x.v], x.at) : x \in r}
    PROVE  Exactly(q, s, at, written)
<1>1. ASSUME NEW z \in q
      PROVE  /\ z.v \in DOMAIN written /\ Stands(written[z.v], s, at)
             /\ z.at = at + Len(written[z.v]) /\ z.at \in 0 .. Len(s)
  <2>1. PICK x \in r : z = [v |-> name[x.v], at |-> x.at]
    BY <1>1 DEF Got
  <2>2. z.v = name[x.v] /\ z.at = x.at
    BY <2>1
  <2> QED BY <2>2 DEF Exactly, Renames
<1>2. ASSUME NEW u \in DOMAIN written, Stands(written[u], s, at)
      PROVE  q = Got(u, at + Len(written[u]))
  <2>1. PICK v \in DOMAIN w : name[v] = u
    BY DEF Renames
  <2>2. written[u] = w[v]
    BY <2>1 DEF Renames
  <2>3. r = Got(v, at + Len(w[v]))
    BY <1>2, <2>2 DEF Exactly
  <2> QED BY <2>1, <2>2, <2>3 DEF Got
<1> QED BY <1>1, <1>2 DEF Exactly

\* A string reversed twice is the string.
LEMMA ReverseFacts ==
    ASSUME NEW n \in Nat, NEW w \in Strings(n)
    PROVE  Reverse(w) \in Strings(n) /\ Reverse(Reverse(w)) = w
<1>1. w \in Seq(Byte) /\ Len(w) = n /\ \A i \in 1 .. n : w[i] \in Byte
  BY ElementOfSeq DEF Strings
<1> DEFINE u == Reverse(w)
<1>2. u = [i \in 1 .. n |-> w[(n - i) + 1]]
  BY <1>1 DEF Reverse
<1>3. \A i \in 1 .. n : (n - i) + 1 \in 1 .. n /\ (n - ((n - i) + 1)) + 1 = i
  OBVIOUS
<1> HIDE DEF u
<1>4. u \in [1 .. n -> Byte] /\ \A i \in 1 .. n : u[i] = w[(n - i) + 1]
  BY <1>1, <1>2, <1>3
<1>5. u \in Seq(Byte) /\ Len(u) = n
  <2>1. u \in Seq(Byte)
    BY <1>4, SeqDef
  <2>2. DOMAIN u = 1 .. n /\ Len(u) \in Nat /\ DOMAIN u = 1 .. Len(u)
    BY <1>4, <2>1, LenProperties
  <2>3. Len(u) = n
    BY <2>2
  <2> QED BY <2>1, <2>3
<1> DEFINE t == Reverse(u)
<1>6. t = [i \in 1 .. n |-> u[(n - i) + 1]]
  BY <1>5 DEF Reverse
<1> HIDE DEF t
<1>7. \A i \in 1 .. n : t[i] = w[i]
  BY <1>3, <1>4, <1>6
<1>8. t \in Seq(Byte) /\ Len(t) = n
  <2>1. t \in [1 .. n -> Byte]
    BY <1>1, <1>6, <1>7
  <2>2. t \in Seq(Byte)
    BY <2>1, SeqDef
  <2>3. DOMAIN t = 1 .. n /\ Len(t) \in Nat /\ DOMAIN t = 1 .. Len(t)
    BY <2>1, <2>2, LenProperties
  <2>4. Len(t) = n
    BY <2>3
  <2> QED BY <2>2, <2>4
<1>9. t = w
  BY <1>1, <1>7, <1>8, SeqEqual
<1> QED BY <1>5, <1>9 DEF Strings, t, u

Hashes == [h \in Strings(HashSize) |-> Wire(h)]

\* ReadHash reads what Wire writes.
LEMMA ReadHashExact ==
    ASSUME NEW s \in Seq(Byte), NEW at \in 0 .. Len(s)
    PROVE  /\ Hashes \in [Strings(HashSize) -> Seq(Byte)]
           /\ Exactly(ReadHash(s, at), s, at, Hashes)
<1> DEFINE V == Strings(HashSize)
           w == AsIs(HashSize)
           name == [b \in V |-> Reverse(b)]
           r == ReadBytes(s, at, HashSize)
<1>1. HashSize \in Nat
  BY SizesAssumption
<1>2. \A h \in V : Reverse(h) \in V /\ Reverse(Reverse(h)) = h
  BY <1>1, ReverseFacts
<1>3. Exactly(r, s, at, w)
  BY <1>1, ReadBytesExact
<1>4. DOMAIN w = V /\ (\A b \in V : w[b] = b) /\ DOMAIN Hashes = V /\ \A h \in V : Hashes[h] = Reverse(h)
  BY DEF AsIs, Hashes, Wire
<1>5. \A b \in V : name[b] = Reverse(b)
  OBVIOUS
<1>6. \A x \in r : x.v \in V
  BY <1>3, <1>4 DEF Exactly
<1>7. ReadHash(s, at) = UNION {Got(Reverse(x.v), x.at) : x \in r}
  BY DEF ReadHash, Then
<1> HIDE DEF V, w, name, r
<1>8. ReadHash(s, at) = UNION {Got(name[x.v], x.at) : x \in r}
  BY <1>5, <1>6, <1>7
<1>9. \A v \in DOMAIN w : name[v] \in DOMAIN Hashes /\ Hashes[name[v]] = w[v]
  BY <1>2, <1>4, <1>5
<1>10. \A u \in DOMAIN Hashes : \E v \in DOMAIN w : name[v] = u
  BY <1>2, <1>4, <1>5
<1>11. Exactly(ReadHash(s, at), s, at, Hashes)
  <2>1. Renames(name, w, Hashes)
    BY <1>9, <1>10 DEF Renames
  <2> QED BY <1>3, <1>8, <2>1, Renamed
<1>12. Hashes \in [V -> Seq(Byte)]
  <2>1. \A h \in V : Reverse(h) \in Seq(Byte)
    BY <1>2 DEF V, Strings
  <2>2. Hashes = [h \in V |-> Reverse(h)]
    BY DEF Hashes, Wire, V
  <2> QED BY <2>1, <2>2
<1> QED BY <1>11, <1>12 DEF V

UpToSize(limit) == {b \in Seq(Byte) : Len(b) <= limit}
SizedBytes(limit) == [b \in UpToSize(limit) |-> Sized(b)]

\* ReadSized reads what Sized writes of bytes within the limit.
LEMMA ReadSizedExact ==
    ASSUME NEW s \in Seq(Byte), NEW at \in 0 .. Len(s), NEW limit \in Nat, limit < Power(W64)
    PROVE  /\ SizedBytes(limit) \in [UpToSize(limit) -> Seq(Byte)]
           /\ Exactly(ReadSized(s, at, limit), s, at, SizedBytes(limit))
<1> DEFINE V == UpToSize(limit)
           r == ReadCompact(s, at)
           B(n, a) == IF n > limit THEN {} ELSE ReadBytes(s, a, n)
<1>1. at \in Nat /\ at <= Len(s) /\ Len(s) \in Nat
  BY LenProperties
<1>2. /\ DOMAIN Sizes = Unsigned(W64)
      /\ \A v \in Unsigned(W64) :
            v \in Nat /\ Sizes[v] = Compact(v) /\ Compact(v) \in Seq(Byte) /\ Len(Compact(v)) \in Nat
  BY CompactForms DEF Sizes
<1>3. /\ \A x \in r : /\ x.v \in Unsigned(W64) /\ Stands(Compact(x.v), s, at)
                      /\ x.at = at + Len(Compact(x.v)) /\ x.at \in 0 .. Len(s)
      /\ \A v \in Unsigned(W64) : Stands(Compact(v), s, at) => r = Got(v, at + Len(Compact(v)))
  <2>1. Exactly(r, s, at, Sizes)
    BY ReadCompactExact
  <2> HIDE DEF r
  <2> QED BY <1>2, <2>1 DEF Exactly
<1>4. ReadSized(s, at, limit) = UNION {B(x.v, x.at) : x \in r}
  BY DEF ReadSized, Then, Throw
<1>5. \A n \in 0 .. limit : n \in Unsigned(W64)
  <2>1. Power(W64) \in Nat
    BY Widths
  <2> QED BY <2>1 DEF Unsigned
<1>6. ASSUME NEW b \in V
      PROVE  /\ Len(b) \in Unsigned(W64) /\ Len(b) \in 0 .. limit /\ b \in Strings(Len(b))
             /\ Sized(b) \in Seq(Byte)
             /\ at + Len(Sized(b)) = (at + Len(Compact(Len(b)))) + Len(b)
             /\ Stands(Sized(b), s, at)
                  <=> (Stands(Compact(Len(b)), s, at) /\ Stands(b, s, at + Len(Compact(Len(b)))))
  <2>1. b \in Seq(Byte) /\ Len(b) \in Nat /\ Len(b) <= limit
    BY LenProperties DEF UpToSize
  <2>2. Len(b) \in 0 .. limit /\ Len(b) \in Unsigned(W64) /\ b \in Strings(Len(b))
    BY <1>5, <2>1 DEF Strings
  <2> DEFINE c == Compact(Len(b))
  <2>3. c \in Seq(Byte) /\ Len(c) \in Nat /\ Sized(b) = c \o b
    BY <1>2, <2>2 DEF Sized
  <2> HIDE DEF c
  <2>4. /\ c \o b \in Seq(Byte) /\ Len(c \o b) = Len(c) + Len(b)
        /\ Stands(c \o b, s, at) <=> (Stands(c, s, at) /\ Stands(b, s, at + Len(c)))
    BY <1>1, <2>1, <2>3, StandsConcat
  <2>5. at + (Len(c) + Len(b)) = (at + Len(c)) + Len(b)
    BY <1>1, <2>1, <2>3
  <2> QED BY <2>2, <2>3, <2>4, <2>5 DEF c
<1>7. ASSUME NEW n \in 0 .. limit, NEW a \in 0 .. Len(s)
      PROVE  /\ \A y \in B(n, a) : /\ y.v \in Strings(n) /\ Stands(y.v, s, a)
                                   /\ y.at = a + Len(y.v) /\ y.at \in 0 .. Len(s)
             /\ \A b \in Strings(n) : Stands(b, s, a) => B(n, a) = Got(b, a + Len(b))
  <2>1. B(n, a) = ReadBytes(s, a, n) /\ n \in Nat
    OBVIOUS
  <2>2. Exactly(ReadBytes(s, a, n), s, a, AsIs(n))
    BY <2>1, ReadBytesExact
  <2> HIDE DEF B
  <2> QED BY <2>1, <2>2 DEF Exactly, AsIs
<1>8. ASSUME NEW z \in ReadSized(s, at, limit)
      PROVE  /\ z.v \in V /\ Stands(Sized(z.v), s, at)
             /\ z.at = at + Len(Sized(z.v)) /\ z.at \in 0 .. Len(s)
  <2>1. PICK x \in r : z \in B(x.v, x.at)
    BY <1>4, <1>8
  <2>2. x.v \in 0 .. limit
    <3>1. x.v \in Nat
      BY <1>2, <1>3
    <3>2. ~(x.v > limit)
      BY <2>1
    <3> QED BY <3>1, <3>2
  <2> HIDE DEF B
  <2>3. z.v \in Strings(x.v) /\ Stands(z.v, s, x.at) /\ z.at = x.at + Len(z.v) /\ z.at \in 0 .. Len(s)
    BY <1>3, <1>7, <2>1, <2>2
  <2>4. Len(z.v) = x.v /\ z.v \in V
    BY <2>2, <2>3 DEF Strings, UpToSize
  <2> HIDE DEF V
  <2>5. x.at = at + Len(Compact(Len(z.v))) /\ Stands(Compact(Len(z.v)), s, at)
    BY <1>3, <2>4
  <2> QED BY <1>6, <2>3, <2>4, <2>5
<1>9. ASSUME NEW b \in V, Stands(Sized(b), s, at)
      PROVE  ReadSized(s, at, limit) = Got(b, at + Len(Sized(b)))
  <2> DEFINE a == at + Len(Compact(Len(b)))
  <2>1. /\ Len(b) \in Unsigned(W64) /\ Len(b) \in 0 .. limit /\ b \in Strings(Len(b))
        /\ Stands(Compact(Len(b)), s, at) /\ Stands(b, s, a) /\ at + Len(Sized(b)) = a + Len(b)
    BY <1>6, <1>9
  <2>2. a \in 0 .. Len(s)
    <3>1. a <= Len(s) /\ Len(Compact(Len(b))) \in Nat
      BY <1>2, <2>1 DEF Stands
    <3> QED BY <1>1, <3>1
  <2>3. r = Got(Len(b), a)
    BY <1>3, <2>1
  <2> HIDE DEF a, B, V
  <2>4. B(Len(b), a) = Got(b, a + Len(b))
    BY <1>7, <2>1, <2>2
  <2>5. ReadSized(s, at, limit) = B(Len(b), a)
    <3> DEFINE x == [v |-> Len(b), at |-> a]
    <3>1. r = {x} /\ x.v = Len(b) /\ x.at = a
      BY <2>3 DEF Got
    <3> HIDE DEF x, r
    <3> QED BY <1>4, <3>1
  <2> QED BY <2>1, <2>4, <2>5
<1>10. SizedBytes(limit) \in [V -> Seq(Byte)]
  <2> HIDE DEF V
  <2>1. \A b \in V : Sized(b) \in Seq(Byte)
    BY <1>6
  <2>2. SizedBytes(limit) = [b \in V |-> Sized(b)]
    BY DEF SizedBytes, V
  <2> QED BY <2>1, <2>2
<1>11. DOMAIN SizedBytes(limit) = V /\ \A b \in V : SizedBytes(limit)[b] = Sized(b)
  BY DEF SizedBytes
<1> HIDE DEF V
<1>12. Exactly(ReadSized(s, at, limit), s, at, SizedBytes(limit))
  BY <1>8, <1>9, <1>11 DEF Exactly
<1> QED BY <1>10, <1>12 DEF V

\* Strings one after the other.
Flat(parts) ==
    LET flat[k \in 0 .. Len(parts)] == IF k = 0 THEN <<>> ELSE flat[k - 1] \o parts[k]
    IN  flat[Len(parts)]

\* The concatenation of strings follows its recursion.
LEMMA FlatFunction ==
    ASSUME NEW parts \in Seq(Seq(Byte))
    PROVE  \E f \in [0 .. Len(parts) -> Seq(Byte)] :
             /\ f[0] = <<>> /\ \A k \in 1 .. Len(parts) : f[k] = f[k - 1] \o parts[k]
             /\ Flat(parts) = f[Len(parts)]
<1> DEFINE N == Len(parts)
           S == Seq(Byte)
           More(k, p) == p \o parts[k]
           Step == [k \in 1 .. N |-> [p \in S |-> More(k, p)]]
           Fits(f) == f = [k \in 0 .. N |-> IF k = 0 THEN <<>> ELSE More(k, f[k - 1])]
           none == <<>>
<1>0. N \in Nat /\ \A k \in 1 .. N : \A p \in S : More(k, p) \in S
  <2>1. N \in Nat /\ \A k \in 1 .. N : parts[k] \in Seq(Byte)
    BY LenProperties, ElementOfSeq
  <2> HIDE DEF N
  <2>2. ASSUME NEW k \in 1 .. N, NEW p \in S PROVE p \o parts[k] \in S
    BY <2>1, ConcatProperties
  <2> QED BY <2>1, <2>2
<1> HIDE DEF N, More
<1>1. Step \in Steps(N, S)
  BY <1>0 DEF Steps
<1>2. \A k \in 1 .. N : \A p \in S : Step[k][p] = More(k, p)
  OBVIOUS
<1>3. none \in S
  OBVIOUS
<1> HIDE DEF Step, S, none
<1>4. PICK f \in [0 .. N -> S] : f[0] = none /\ \A k \in 1 .. N : f[k] = Step[k][f[k - 1]]
  <2>1. N \in Nat
    BY <1>0
  <2>2. \E f \in [0 .. N -> S] : Follows(f, N, none, Step)
    <3> HIDE DEF Fits
    <3> QED BY <2>1, <1>1, <1>3, Recursion
  <2> QED BY <2>2 DEF Follows
<1>5. Fits(f)
  <2>1. \A k \in 1 .. N : f[k - 1] \in S
    BY <1>0
  <2>2. \A k \in 0 .. N : f[k] = IF k = 0 THEN none ELSE More(k, f[k - 1])
    <3> TAKE k \in 0 .. N
    <3>1. CASE k = 0
      BY <1>4, <3>1
    <3>2. CASE k # 0
      <4>1. k \in 1 .. N
        BY <1>0, <3>2
      <4>2. f[k] = Step[k][f[k - 1]] /\ f[k - 1] \in S
        BY <1>4, <2>1, <4>1
      <4> QED BY <1>2, <3>2, <4>1, <4>2
    <3> QED BY <3>1, <3>2
  <2>3. f = [k \in 0 .. N |-> f[k]]
    OBVIOUS
  <2> QED BY <2>2, <2>3 DEF none
<1> DEFINE g == CHOOSE h : Fits(h)
<1>6. Fits(g)
  <2> HIDE DEF Fits
  <2> QED BY <1>5
<1>7. Flat(parts) = g[N]
  BY DEF Flat, N, More
<1>8. ASSUME NEW h, Fits(h)
      PROVE  /\ h[0] = none /\ h = [k \in 0 .. N |-> h[k]]
             /\ \A k \in 1 .. N : h[k] = More(k, h[k - 1])
  <2>1. \A k \in 0 .. N : h[k] = IF k = 0 THEN none ELSE More(k, h[k - 1])
    BY <1>8 DEF none
  <2>2. 0 \in 0 .. N /\ \A k \in 1 .. N : k \in 0 .. N /\ k # 0
    BY <1>0
  <2>3. h = [k \in 0 .. N |-> h[k]]
    BY <1>8
  <2> QED BY <2>1, <2>2, <2>3
<1> HIDE DEF Fits, g
<1> DEFINE T == {k \in 0 .. N : g[k] \in S}
<1>9. 0 \in T
  BY <1>0, <1>3, <1>6, <1>8
<1>10. \A k \in 1 .. N : k - 1 \in T => k \in T
  BY <1>0, <1>6, <1>8
<1> HIDE DEF T
<1>11. \A k \in 0 .. N : k \in T
  <2>1. N \in Nat
    BY <1>0
  <2> QED BY <2>1, <1>9, <1>10, UpTo
<1>12. g \in [0 .. N -> S]
  BY <1>6, <1>8, <1>11 DEF T
<1>13. g[0] = <<>> /\ \A k \in 1 .. N : g[k] = g[k - 1] \o parts[k]
  BY <1>6, <1>8 DEF More, none
<1> QED BY <1>7, <1>12, <1>13 DEF N, S

\* What is written first, and with one part more.
LEMMA FlatFacts ==
    /\ Flat(<<>>) = <<>>
    /\ \A parts \in Seq(Seq(Byte)) : Flat(parts) \in Seq(Byte)
    /\ \A parts \in Seq(Seq(Byte)), one \in Seq(Byte) :
          Flat(Append(parts, one)) = Flat(parts) \o one
<1>1. Flat(<<>>) = <<>>
  <2> DEFINE none == <<>>
  <2>1. none \in Seq(Seq(Byte)) /\ Len(none) = 0
    OBVIOUS
  <2> HIDE DEF none
  <2>2. PICK f \in [0 .. Len(none) -> Seq(Byte)] : f[0] = <<>> /\ Flat(none) = f[Len(none)]
    BY <2>1, FlatFunction
  <2> QED BY <2>1, <2>2 DEF none
<1>2. ASSUME NEW parts \in Seq(Seq(Byte)) PROVE Flat(parts) \in Seq(Byte)
  <2>1. PICK f \in [0 .. Len(parts) -> Seq(Byte)] : Flat(parts) = f[Len(parts)]
    BY FlatFunction
  <2>2. Len(parts) \in 0 .. Len(parts)
    BY LenProperties
  <2> QED BY <2>1, <2>2
<1>3. ASSUME NEW parts \in Seq(Seq(Byte)), NEW one \in Seq(Byte)
      PROVE  Flat(Append(parts, one)) = Flat(parts) \o one
  <2> DEFINE more == Append(parts, one)
             n == Len(parts)
  <2>1. /\ more \in Seq(Seq(Byte)) /\ Len(more) = n + 1 /\ n \in Nat
        /\ more[n + 1] = one /\ \A k \in 1 .. n : more[k] = parts[k]
    BY AppendProperties, LenProperties
  <2> HIDE DEF more
  <2>2. PICK f \in [0 .. n -> Seq(Byte)] :
           /\ f[0] = <<>> /\ \A k \in 1 .. n : f[k] = f[k - 1] \o parts[k]
           /\ Flat(parts) = f[n]
    BY FlatFunction
  <2>3. PICK g \in [0 .. Len(more) -> Seq(Byte)] :
           /\ g[0] = <<>> /\ \A k \in 1 .. Len(more) : g[k] = g[k - 1] \o more[k]
           /\ Flat(more) = g[Len(more)]
    BY <2>1, FlatFunction
  <2> HIDE DEF n
  <2> DEFINE T == {k \in 0 .. n : f[k] = g[k]}
  <2>4. 0 \in T
    BY <2>1, <2>2, <2>3
  <2>5. ASSUME NEW k \in 1 .. n, k - 1 \in T PROVE k \in T
    <3>1. k \in 1 .. Len(more) /\ k \in 0 .. n
      BY <2>1
    <3>2. f[k] = f[k - 1] \o parts[k] /\ g[k] = g[k - 1] \o more[k] /\ more[k] = parts[k]
      BY <2>1, <2>2, <2>3, <3>1
    <3> QED BY <2>5, <3>1, <3>2
  <2> HIDE DEF T
  <2>6. \A k \in 0 .. n : k \in T
    <3>1. n \in Nat
      BY <2>1
    <3> QED BY <3>1, <2>4, <2>5, UpTo
  <2>7. f[n] = g[n]
    BY <2>1, <2>6 DEF T
  <2>8. n + 1 \in 1 .. Len(more) /\ (n + 1) - 1 = n
    BY <2>1
  <2>9. g[n + 1] = g[n] \o one
    BY <2>1, <2>3, <2>8
  <2> QED BY <2>1, <2>2, <2>3, <2>7, <2>9 DEF more
<1> QED BY <1>1, <1>2, <1>3

\* The sequences of n values, the i-th of them in V[i], and what is written for
\* one when w[i] is how the i-th is written.
Rows(V, n) == {q \in Seq(UNION {V[k] : k \in DOMAIN V}) : Len(q) = n /\ \A i \in 1 .. n : q[i] \in V[i]}
Cells(w, q) == [i \in 1 .. Len(q) |-> w[i][q[i]]]
RowsWritten(V, w, n) == [q \in Rows(V, n) |-> Flat(Cells(w, q))]

\* A way to write each of N values.
Writers(w, V, N) == DOMAIN V = 1 .. N /\ \A k \in 1 .. N : w[k] \in [V[k] -> Seq(Byte)]

\* A function on the first numbers is a sequence.
LEMMA FunctionSeq ==
    ASSUME NEW S, NEW n \in Nat, NEW f \in [1 .. n -> S]
    PROVE  f \in Seq(S) /\ Len(f) = n
<1>1. f \in Seq(S)
  BY SeqDef
<1>2. DOMAIN f = 1 .. n /\ Len(f) \in Nat /\ DOMAIN f = 1 .. Len(f)
  BY <1>1, LenProperties
<1>3. Len(f) = n
  BY <1>2
<1> QED BY <1>1, <1>3

\* What is written of a row is strings, and their concatenation a string.
LEMMA CellsWritten ==
    ASSUME NEW N \in Nat, NEW V, NEW w, Writers(w, V, N),
           NEW n \in 0 .. N, NEW q \in Rows(V, n)
    PROVE  /\ Cells(w, q) \in Seq(Seq(Byte)) /\ Len(Cells(w, q)) = n
           /\ Flat(Cells(w, q)) \in Seq(Byte)
<1>1. Len(q) = n /\ \A i \in 1 .. n : i \in 1 .. N /\ q[i] \in V[i]
  BY DEF Rows
<1> DEFINE c == Cells(w, q)
<1>2. c = [i \in 1 .. n |-> w[i][q[i]]]
  BY <1>1 DEF Cells
<1>3. \A i \in 1 .. n : w[i][q[i]] \in Seq(Byte)
  BY <1>1 DEF Writers
<1> HIDE DEF c
<1>4. c \in [1 .. n -> Seq(Byte)]
  BY <1>2, <1>3
<1>5. c \in Seq(Seq(Byte)) /\ Len(c) = n
  BY <1>4, FunctionSeq
<1>6. Flat(c) \in Seq(Byte)
  BY <1>5, FlatFacts
<1> QED BY <1>5, <1>6 DEF c

\* The rows of one more field are the shorter ones with a value appended.
LEMMA OneMore ==
    ASSUME NEW N \in Nat, NEW V, NEW w, Writers(w, V, N),
           NEW n \in 1 .. N
    PROVE  /\ \A q \in Rows(V, n - 1), v \in V[n] :
                 /\ Append(q, v) \in Rows(V, n)
                 /\ Flat(Cells(w, Append(q, v))) = Flat(Cells(w, q)) \o w[n][v]
           /\ \A u \in Rows(V, n) : \E q \in Rows(V, n - 1), v \in V[n] : u = Append(q, v)
<1> DEFINE All == UNION {V[k] : k \in DOMAIN V}
<1>0. \A k \in 1 .. N : \A v \in V[k] : v \in All
  BY DEF Writers
<1> HIDE DEF All
<1>1. ASSUME NEW q \in Rows(V, n - 1), NEW v \in V[n]
      PROVE  /\ Append(q, v) \in Rows(V, n)
             /\ Flat(Cells(w, Append(q, v))) = Flat(Cells(w, q)) \o w[n][v]
  <2> DEFINE u == Append(q, v)
             c == Cells(w, q)
             one == w[n][v]
             d == Cells(w, u)
  <2>1. q \in Seq(All) /\ Len(q) = n - 1 /\ \A i \in 1 .. (n - 1) : q[i] \in V[i]
    BY DEF Rows, All
  <2>2. v \in All
    BY <1>0
  <2>3. u \in Seq(All) /\ Len(u) = n /\ u[n] = v /\ \A i \in 1 .. (n - 1) : u[i] = q[i]
    <3>1. /\ u \in Seq(All) /\ Len(u) = Len(q) + 1 /\ u[Len(q) + 1] = v
          /\ \A i \in 1 .. Len(q) : u[i] = q[i]
      BY <2>1, <2>2, AppendProperties
    <3>2. (n - 1) + 1 = n
      OBVIOUS
    <3> QED BY <2>1, <3>1, <3>2
  <2>4. \A i \in 1 .. n : i = n \/ i \in 1 .. (n - 1)
    OBVIOUS
  <2> HIDE DEF u
  <2>5. u \in Rows(V, n)
    BY <2>1, <2>3, <2>4 DEF Rows, All
  <2>6. n - 1 \in 0 .. N /\ n \in 0 .. N
    OBVIOUS
  <2>7. /\ c \in Seq(Seq(Byte)) /\ Len(c) = n - 1
        /\ d \in Seq(Seq(Byte)) /\ Len(d) = n /\ one \in Seq(Byte)
    <3>1. one \in Seq(Byte)
      BY DEF Writers
    <3> QED BY <3>1, <2>5, <2>6, CellsWritten
  <2>8. \A i \in 1 .. (n - 1) : d[i] = c[i]
    BY <2>1, <2>3, <2>4 DEF Cells
  <2>9. d[n] = one
    BY <2>3 DEF Cells
  <2> HIDE DEF c, d, one
  <2>10. d = Append(c, one)
    <3> DEFINE e == Append(c, one)
    <3>1. e \in Seq(Seq(Byte)) /\ Len(e) = n /\ e[n] = one /\ \A i \in 1 .. (n - 1) : e[i] = c[i]
      <4>1. /\ e \in Seq(Seq(Byte)) /\ Len(e) = Len(c) + 1 /\ e[Len(c) + 1] = one
            /\ \A i \in 1 .. Len(c) : e[i] = c[i]
        BY <2>7, AppendProperties
      <4>2. (n - 1) + 1 = n
        OBVIOUS
      <4> QED BY <2>7, <4>1, <4>2
    <3> HIDE DEF e
    <3>2. \A i \in 1 .. n : d[i] = e[i]
      BY <2>4, <2>8, <2>9, <3>1
    <3>3. d = e
      BY <2>7, <3>1, <3>2, SeqEqual
    <3> QED BY <3>3 DEF e
  <2>11. Flat(d) = Flat(c) \o one
    BY <2>7, <2>10, FlatFacts
  <2> QED BY <2>5, <2>11 DEF u, c, d, one
<1>2. ASSUME NEW u \in Rows(V, n)
      PROVE  \E q \in Rows(V, n - 1), v \in V[n] : u = Append(q, v)
  <2> DEFINE q == SubSeq(u, 1, n - 1)
             v == u[n]
  <2>1. u \in Seq(All) /\ Len(u) = n /\ \A i \in 1 .. n : u[i] \in V[i] /\ u[i] \in All
    BY <1>0 DEF Rows, All
  <2>2. q \in Seq(All) /\ Len(q) = n - 1 /\ \A i \in 1 .. (n - 1) : q[i] = u[i]
    <3>1. \A i \in 1 .. (n - 1) : u[i] \in All
      BY <2>1
    <3>2. /\ q \in Seq(All) /\ Len(q) = IF 1 <= n - 1 THEN (n - 1) - 1 + 1 ELSE 0
          /\ \A i \in 1 .. ((n - 1) - 1 + 1) : q[i] = u[1 + i - 1]
      BY <3>1, SubSeqProperties
    <3> HIDE DEF q
    <3>3. (n - 1) - 1 + 1 = n - 1 /\ (~(1 <= n - 1) => n - 1 = 0)
      OBVIOUS
    <3>4. \A i \in 1 .. (n - 1) : 1 + i - 1 = i
      OBVIOUS
    <3> QED BY <3>2, <3>3, <3>4
  <2>3. v \in V[n] /\ v \in All
    BY <2>1
  <2> HIDE DEF q, v
  <2>4. q \in Rows(V, n - 1)
    <3>1. \A i \in 1 .. (n - 1) : i \in 1 .. n
      OBVIOUS
    <3> QED BY <2>1, <2>2, <3>1 DEF Rows, All
  <2>5. u = Append(q, v)
    <3> DEFINE e == Append(q, v)
    <3>1. e \in Seq(All) /\ Len(e) = n /\ e[n] = v /\ \A i \in 1 .. (n - 1) : e[i] = q[i]
      <4>1. /\ e \in Seq(All) /\ Len(e) = Len(q) + 1 /\ e[Len(q) + 1] = v
            /\ \A i \in 1 .. Len(q) : e[i] = q[i]
        BY <2>2, <2>3, AppendProperties
      <4>2. (n - 1) + 1 = n
        OBVIOUS
      <4> QED BY <2>2, <4>1, <4>2
    <3> HIDE DEF e
    <3>2. \A i \in 1 .. n : u[i] = e[i]
      <4>1. \A i \in 1 .. n : i = n \/ i \in 1 .. (n - 1)
        OBVIOUS
      <4> QED BY <2>2, <3>1, <4>1 DEF v
    <3>3. u = e
      BY <2>1, <3>1, <3>2, SeqEqual
    <3> QED BY <3>3 DEF e
  <2> QED BY <2>3, <2>4, <2>5
<1> QED BY <1>1, <1>2

\* No value: nothing is written.
LEMMA NoRows ==
    ASSUME NEW V, NEW w
    PROVE  Rows(V, 0) = {<<>>} /\ Flat(Cells(w, <<>>)) = <<>>
<1> DEFINE All == UNION {V[k] : k \in DOMAIN V}
<1>1. ASSUME NEW q \in Seq(All), Len(q) = 0 PROVE q = <<>>
  <2>1. <<>> \in Seq(All) /\ Len(<<>>) = 0
    OBVIOUS
  <2> HIDE DEF All
  <2>2. \A i \in 1 .. Len(q) : q[i] = <<>>[i]
    BY <1>1
  <2> QED BY <1>1, <2>1, <2>2, SeqEqual
<1>2. <<>> \in Seq(All) /\ Len(<<>>) = 0 /\ \A i \in 1 .. 0 : FALSE
  OBVIOUS
<1> HIDE DEF All
<1>3. Rows(V, 0) = {<<>>}
  BY <1>1, <1>2 DEF Rows, All
<1> DEFINE c == Cells(w, <<>>)
<1>4. c \in Seq(Seq(Byte)) /\ Len(c) = 0
  <2>1. c \in [1 .. 0 -> Seq(Byte)] /\ 0 \in Nat
    BY <1>2 DEF Cells
  <2> HIDE DEF c
  <2> QED BY <2>1, FunctionSeq
<1>5. c = <<>>
  <2>1. <<>> \in Seq(Seq(Byte))
    OBVIOUS
  <2> HIDE DEF c
  <2>2. \A i \in 1 .. Len(c) : c[i] = <<>>[i]
    BY <1>4
  <2> QED BY <1>2, <1>4, <2>1, <2>2, SeqEqual
<1> QED BY <1>3, <1>5, FlatFacts

\* What N readers of a string read is in All.
Within(readers, N, s, All) ==
    \A k \in 1 .. N : \A a \in 0 .. Len(s) : \A y \in readers[k][a] : y.v \in All /\ y.at \in 0 .. Len(s)

\* What the readers that follow one another have read after each of them.
Readings(f, at, readers, N) ==
    /\ f[0] = Got(<<>>, at)
    /\ \A k \in 1 .. N : f[k] =
          UNION {UNION {Got(Append(x.v, y.v), y.at) : y \in readers[k][x.at]} : x \in f[k - 1]}

\* InTurn follows its recursion, for readers that stay within the string.
LEMMA InTurnFunction ==
    ASSUME NEW s \in Seq(Byte), NEW at \in 0 .. Len(s), NEW readers, NEW N \in Nat, Len(readers) = N,
           NEW All, Within(readers, N, s, All)
    PROVE  \E f : Readings(f, at, readers, N) /\ InTurn(at, readers) = f[N]
<1> DEFINE Result == [v : Seq(All), at : 0 .. Len(s)]
           S == SUBSET Result
           More(k, p) == UNION {UNION {Got(Append(x.v, y.v), y.at) : y \in readers[k][x.at]} : x \in p}
           Step == [k \in 1 .. N |-> [p \in S |-> More(k, p)]]
           first == Got(<<>>, at)
           Fits(f) == f = [k \in 0 .. N |-> IF k = 0 THEN first ELSE More(k, f[k - 1])]
<1>0. \A k \in 1 .. N : \A p \in S : More(k, p) \in S
  <2> SUFFICES ASSUME NEW k \in 1 .. N, NEW p \in S, NEW z \in More(k, p) PROVE z \in Result
    OBVIOUS
  <2>1. PICK x \in p : \E y \in readers[k][x.at] : z = [v |-> Append(x.v, y.v), at |-> y.at]
    BY DEF Got
  <2>2. PICK y \in readers[k][x.at] : z = [v |-> Append(x.v, y.v), at |-> y.at]
    BY <2>1
  <2>3. x.v \in Seq(All) /\ x.at \in 0 .. Len(s)
    OBVIOUS
  <2>4. y.v \in All /\ y.at \in 0 .. Len(s)
    BY <2>2, <2>3 DEF Within
  <2>5. Append(x.v, y.v) \in Seq(All)
    BY <2>3, <2>4, AppendProperties
  <2> QED BY <2>2, <2>4, <2>5
<1>1. first \in S
  <2>1. <<>> \in Seq(All)
    OBVIOUS
  <2>2. [v |-> <<>>, at |-> at] \in Result
    BY <2>1
  <2> HIDE DEF Result
  <2> QED BY <2>2 DEF Got
<1> HIDE DEF More, S, first
<1>2. Step \in Steps(N, S)
  BY <1>0 DEF Steps
<1>3. \A k \in 1 .. N : \A p \in S : Step[k][p] = More(k, p)
  OBVIOUS
<1> HIDE DEF Step
<1>4. PICK f \in [0 .. N -> S] : f[0] = first /\ \A k \in 1 .. N : f[k] = Step[k][f[k - 1]]
  <2>1. N \in Nat
    OBVIOUS
  <2>2. \E f \in [0 .. N -> S] : Follows(f, N, first, Step)
    BY <2>1, <1>1, <1>2, Recursion
  <2> QED BY <2>2 DEF Follows
<1>5. Fits(f)
  <2>1. \A k \in 1 .. N : f[k - 1] \in S
    OBVIOUS
  <2>2. \A k \in 0 .. N : f[k] = IF k = 0 THEN first ELSE More(k, f[k - 1])
    <3> TAKE k \in 0 .. N
    <3>1. CASE k = 0
      BY <1>4, <3>1
    <3>2. CASE k # 0
      <4>1. k \in 1 .. N
        BY <3>2
      <4>2. f[k] = Step[k][f[k - 1]] /\ f[k - 1] \in S
        BY <1>4, <2>1, <4>1
      <4> QED BY <1>3, <3>2, <4>1, <4>2
    <3> QED BY <3>1, <3>2
  <2>3. f = [k \in 0 .. N |-> f[k]]
    OBVIOUS
  <2> QED BY <2>2, <2>3
<1> DEFINE g == CHOOSE h : Fits(h)
<1>6. Fits(g)
  <2> HIDE DEF Fits
  <2> QED BY <1>5
<1>7. InTurn(at, readers) = g[N]
  BY DEF InTurn, Then, More, first
<1>8. ASSUME NEW h, Fits(h)
      PROVE  h[0] = first /\ \A k \in 1 .. N : h[k] = More(k, h[k - 1])
  <2>1. \A k \in 0 .. N : h[k] = IF k = 0 THEN first ELSE More(k, h[k - 1])
    BY <1>8
  <2>2. 0 \in 0 .. N /\ \A k \in 1 .. N : k \in 0 .. N /\ k # 0
    OBVIOUS
  <2> QED BY <2>1, <2>2
<1> HIDE DEF Fits, g
<1>9. g[0] = first /\ \A k \in 1 .. N : g[k] = More(k, g[k - 1])
  BY <1>6, <1>8
<1>10. Readings(g, at, readers, N)
  BY <1>9 DEF More, first, Readings
<1> QED BY <1>7, <1>10

\* Readers that are exact at every place are exact one after the other.
LEMMA InTurnExact ==
    ASSUME NEW s \in Seq(Byte), NEW at \in 0 .. Len(s), NEW readers, NEW N \in Nat, Len(readers) = N,
           NEW V, NEW w, Writers(w, V, N),
           \A k \in 1 .. N : \A a \in 0 .. Len(s) : Exactly(readers[k][a], s, a, w[k])
    PROVE  /\ RowsWritten(V, w, N) \in [Rows(V, N) -> Seq(Byte)]
           /\ Exactly(InTurn(at, readers), s, at, RowsWritten(V, w, N))
<1> DEFINE All == UNION {V[k] : k \in DOMAIN V}
           W(n) == RowsWritten(V, w, n)
<1>0. N \in 0 .. N /\ at \in Nat /\ at <= Len(s) /\ Len(s) \in Nat
  BY LenProperties
<1>1. \A k \in 1 .. N : \A a \in 0 .. Len(s) : \A y \in readers[k][a] : y.v \in All /\ y.at \in 0 .. Len(s)
  <2> TAKE k \in 1 .. N
  <2> TAKE a \in 0 .. Len(s)
  <2> TAKE y \in readers[k][a]
  <2>1. Exactly(readers[k][a], s, a, w[k]) /\ DOMAIN w[k] = V[k] /\ k \in DOMAIN V
    BY DEF Writers
  <2>2. y.v \in V[k] /\ y.at \in 0 .. Len(s)
    BY <2>1 DEF Exactly
  <2> QED BY <2>1, <2>2
<1>2. PICK f : Readings(f, at, readers, N) /\ InTurn(at, readers) = f[N]
  <2>1. N \in Nat /\ Len(readers) = N /\ Within(readers, N, s, All)
    BY <1>1 DEF Within
  <2> HIDE DEF All
  <2> QED BY <2>1, InTurnFunction
<1>3. ASSUME NEW n \in 0 .. N
      PROVE  /\ W(n) \in [Rows(V, n) -> Seq(Byte)] /\ DOMAIN W(n) = Rows(V, n)
             /\ \A q \in Rows(V, n) : W(n)[q] = Flat(Cells(w, q))
  <2>1. \A q \in Rows(V, n) : Flat(Cells(w, q)) \in Seq(Byte)
    BY CellsWritten
  <2> QED BY <2>1 DEF RowsWritten
<1> HIDE DEF All, W
<1> DEFINE T == {k \in 0 .. N : Exactly(f[k], s, at, W(k))}
<1>4. 0 \in T
  <2>1. 0 \in 0 .. N
    OBVIOUS
  <2>2. DOMAIN W(0) = {<<>>} /\ W(0)[<<>>] = <<>>
    BY <1>3, <2>1, NoRows
  <2>3. Len(<<>>) = 0 /\ at + 0 = at /\ Stands(<<>>, s, at)
    BY <1>0 DEF Stands
  <2>4. \A x \in f[0] : x.v = <<>> /\ x.at = at
    BY <1>2 DEF Got, Readings
  <2>5. Exactly(f[0], s, at, W(0))
    <3> DEFINE none == <<>>
               w0 == W(0)
               r == f[0]
    <3>1. DOMAIN w0 = {none} /\ w0[none] = none /\ Len(none) = 0 /\ Stands(none, s, at)
      BY <2>2, <2>3
    <3>2. r = Got(none, at) /\ \A x \in r : x.v = none /\ x.at = at
      BY <1>2, <2>4 DEF Readings
    <3>3. at + 0 = at /\ at \in 0 .. Len(s)
      BY <2>3
    <3> HIDE DEF none, w0, r
    <3>4. Exactly(r, s, at, w0)
      BY <3>1, <3>2, <3>3 DEF Exactly
    <3> QED BY <3>4 DEF w0, r
  <2> QED BY <2>1, <2>5
<1>5. ASSUME NEW k \in 1 .. N, k - 1 \in T PROVE k \in T
  <2> DEFINE U == Rows(V, k - 1)
             old == W(k - 1)
             new == W(k)
             last == w[k]
             name == [p \in U \X V[k] |-> Append(p[1], p[2])]
             F == readers[k]
             both == Joint(old, last)
  <2>1. k \in 0 .. N /\ k - 1 \in 0 .. N
    OBVIOUS
  <2>2. Exactly(f[k - 1], s, at, old)
    BY <1>5
  <2>3. /\ old \in [U -> Seq(Byte)] /\ last \in [V[k] -> Seq(Byte)]
        /\ \A a \in 0 .. Len(s) : Exactly(F[a], s, a, last)
    BY <1>3, <2>1 DEF Writers
  <2>4. /\ \A q \in U, v \in V[k] :
              /\ Append(q, v) \in Rows(V, k)
              /\ Flat(Cells(w, Append(q, v))) = Flat(Cells(w, q)) \o last[v]
        /\ \A u \in Rows(V, k) : \E q \in U, v \in V[k] : u = Append(q, v)
    BY OneMore
  <2>5. /\ \A q \in U : old[q] = Flat(Cells(w, q))
        /\ \A u \in Rows(V, k) : new[u] = Flat(Cells(w, u))
        /\ DOMAIN new = Rows(V, k) /\ DOMAIN old = U
    BY <1>3, <2>1
  <2> HIDE DEF old, new, last, F, U, T
  <2>6. Exactly(Pairs(f[k - 1], F), s, at, both)
    BY <2>2, <2>3, PairsExact
  <2>7. DOMAIN both = U \X V[k] /\ \A p \in U \X V[k] : both[p] = old[p[1]] \o last[p[2]]
    BY <2>3 DEF Joint
  <2>8. \A q \in U, v \in V[k] : <<q, v>> \in U \X V[k] /\ name[<<q, v>>] = Append(q, v)
    OBVIOUS
  <2>9. \A p \in U \X V[k] : p[1] \in U /\ p[2] \in V[k] /\ name[p] = Append(p[1], p[2])
    OBVIOUS
  <2> HIDE DEF name, both
  <2>10. \A p \in DOMAIN both : name[p] \in DOMAIN new /\ new[name[p]] = both[p]
    <3> TAKE p \in DOMAIN both
    <3>1. p \in U \X V[k] /\ p[1] \in U /\ p[2] \in V[k] /\ name[p] = Append(p[1], p[2])
      BY <2>7, <2>9
    <3>2. name[p] \in Rows(V, k) /\ Flat(Cells(w, name[p])) = Flat(Cells(w, p[1])) \o last[p[2]]
      BY <2>4, <3>1
    <3>3. new[name[p]] = Flat(Cells(w, name[p])) /\ old[p[1]] = Flat(Cells(w, p[1]))
      BY <2>5, <3>1, <3>2
    <3>4. both[p] = old[p[1]] \o last[p[2]]
      BY <2>7, <3>1
    <3> QED BY <2>5, <3>2, <3>3, <3>4
  <2>11. \A u \in DOMAIN new : \E p \in DOMAIN both : name[p] = u
    <3> TAKE u \in DOMAIN new
    <3>1. PICK q \in U, v \in V[k] : u = Append(q, v)
      BY <2>4, <2>5
    <3>2. <<q, v>> \in DOMAIN both /\ name[<<q, v>>] = u
      BY <2>7, <2>8, <3>1
    <3> QED BY <3>2
  <2>12. f[k] = UNION {Got(name[z.v], z.at) : z \in Pairs(f[k - 1], F)}
    <3> DEFINE P == Pairs(f[k - 1], F)
               q == UNION {Got(name[z.v], z.at) : z \in P}
    <3>1. f[k] = UNION {UNION {Got(Append(x.v, y.v), y.at) : y \in F[x.at]} : x \in f[k - 1]}
      BY <1>2 DEF F, Readings
    <3>2. ASSUME NEW x \in f[k - 1], NEW y \in F[x.at]
          PROVE  name[<<x.v, y.v>>] = Append(x.v, y.v)
      <4>1. x.v \in U /\ x.at \in 0 .. Len(s)
        BY <2>2, <2>5 DEF Exactly
      <4>2. y.v \in V[k]
        BY <2>3, <4>1 DEF Exactly
      <4> QED BY <2>8, <4>1, <4>2
    <3>3. ASSUME NEW z \in f[k] PROVE z \in q
      <4>1. PICK x \in f[k - 1] : \E y \in F[x.at] : z = [v |-> Append(x.v, y.v), at |-> y.at]
        BY <3>1, <3>3 DEF Got
      <4>2. PICK y \in F[x.at] : z = [v |-> Append(x.v, y.v), at |-> y.at]
        BY <4>1
      <4> DEFINE t == [v |-> <<x.v, y.v>>, at |-> y.at]
      <4>3. t \in P /\ t.v = <<x.v, y.v>> /\ t.at = y.at
        <5>1. t.v = <<x.v, y.v>> /\ t.at = y.at
          OBVIOUS
        <5>2. t \in Got(<<x.v, y.v>>, y.at)
          BY DEF Got
        <5> HIDE DEF t
        <5>3. t \in UNION {Got(<<x.v, z1.v>>, z1.at) : z1 \in F[x.at]}
          BY <5>2
        <5>4. t \in P
          BY <5>3 DEF Pairs
        <5> QED BY <5>1, <5>4
      <4> HIDE DEF t, P
      <4>4. z \in Got(name[t.v], t.at)
        BY <3>2, <4>2, <4>3 DEF Got
      <4> QED BY <4>3, <4>4
    <3>4. ASSUME NEW z \in q PROVE z \in f[k]
      <4>1. PICK t \in P : z \in Got(name[t.v], t.at)
        BY <3>4
      <4>2. PICK x \in f[k - 1] : \E y \in F[x.at] : t = [v |-> <<x.v, y.v>>, at |-> y.at]
        BY <4>1 DEF Pairs, Got
      <4>3. PICK y \in F[x.at] : t = [v |-> <<x.v, y.v>>, at |-> y.at]
        BY <4>2
      <4>4. z \in Got(Append(x.v, y.v), y.at)
        BY <3>2, <4>1, <4>3
      <4> QED BY <3>1, <4>4
    <3> HIDE DEF q
    <3>5. f[k] = q
      BY <3>3, <3>4
    <3> QED BY <3>5 DEF q
  <2>13. Exactly(f[k], s, at, new)
    <3>1. Renames(name, both, new)
      BY <2>10, <2>11 DEF Renames
    <3> QED BY <2>6, <2>12, <3>1, Renamed
  <2> QED BY <2>1, <2>13 DEF T, new
<1> HIDE DEF T
<1>6. \A k \in 0 .. N : k \in T
  BY <1>4, <1>5, UpTo
<1>7. Exactly(f[N], s, at, W(N))
  BY <1>0, <1>6 DEF T
<1> QED BY <1>0, <1>2, <1>3, <1>7 DEF W

\* When there is one string of each part there is one of them all.
LEMMA LinkedFlat ==
    ASSUME NEW strings \in Seq(Seq(Byte)), NEW parts, Len(parts) = Len(strings),
           \A k \in 1 .. Len(strings) : parts[k] = {strings[k]}
    PROVE  Linked(parts) = {Flat(strings)}
<1> DEFINE N == Len(strings)
           More(k, p) == {all \o one : all \in p, one \in parts[k]}
           first == {<<>>}
           Fits(f) == f = [k \in 0 .. N |-> IF k = 0 THEN first ELSE More(k, f[k - 1])]
<1>1. PICK h \in [0 .. N -> Seq(Byte)] :
        /\ h[0] = <<>> /\ \A k \in 1 .. N : h[k] = h[k - 1] \o strings[k]
        /\ Flat(strings) = h[N]
  BY FlatFunction
<1>2. N \in Nat
  BY LenProperties
<1>3. ASSUME NEW k \in 1 .. N PROVE More(k, {h[k - 1]}) = {h[k]}
  <2> DEFINE x == h[k - 1]
             y == strings[k]
  <2>1. parts[k] = {y} /\ h[k] = x \o y
    BY <1>1
  <2> HIDE DEF x, y
  <2>2. {all \o one : all \in {x}, one \in {y}} = {x \o y}
    OBVIOUS
  <2> QED BY <2>1, <2>2 DEF x
<1> DEFINE f == [k \in 0 .. N |-> {h[k]}]
<1>4. f[0] = first /\ \A k \in 1 .. N : f[k] = More(k, f[k - 1])
  <2>1. f[0] = first
    BY <1>1, <1>2
  <2>2. ASSUME NEW k \in 1 .. N PROVE f[k] = More(k, f[k - 1])
    <3>1. k \in 0 .. N /\ k - 1 \in 0 .. N
      BY <1>2
    <3>2. f[k] = {h[k]} /\ f[k - 1] = {h[k - 1]}
      BY <3>1
    <3> HIDE DEF More, f
    <3> QED BY <1>3, <3>2
  <2> HIDE DEF f, More, first
  <2> QED BY <2>1, <2>2
<1>5. Linked(parts) = (CHOOSE g : Fits(g))[N]
  BY DEF Linked, More, first
<1> HIDE DEF N, More, first
<1>6. Fits(f)
  <2>1. f = [k \in 0 .. N |-> f[k]]
    OBVIOUS
  <2> HIDE DEF f
  <2>2. \A k \in 0 .. N : f[k] = IF k = 0 THEN first ELSE More(k, f[k - 1])
    <3>1. \A k \in 0 .. N : k = 0 \/ k \in 1 .. N
      BY <1>2
    <3>2. \A k \in 1 .. N : k # 0
      BY <1>2
    <3> QED BY <1>4, <3>1, <3>2
  <2> QED BY <2>1, <2>2
<1> DEFINE g == CHOOSE q : Fits(q)
<1>7. Fits(g)
  <2> HIDE DEF Fits, f
  <2> QED BY <1>6
<1>8. ASSUME NEW q, Fits(q)
      PROVE  q[0] = first /\ \A k \in 1 .. N : q[k] = More(k, q[k - 1])
  <2>1. \A k \in 0 .. N : q[k] = IF k = 0 THEN first ELSE More(k, q[k - 1])
    BY <1>8
  <2>2. 0 \in 0 .. N /\ \A k \in 1 .. N : k \in 0 .. N /\ k # 0
    BY <1>2
  <2> QED BY <2>1, <2>2
<1>9. Linked(parts) = g[N]
  BY <1>5
<1> HIDE DEF Fits, g, f
<1>10. g[0] = first /\ \A k \in 1 .. N : g[k] = More(k, g[k - 1])
  BY <1>7, <1>8
<1> DEFINE T == {k \in 0 .. N : g[k] = {h[k]}}
<1>11. 0 \in T
  BY <1>1, <1>2, <1>10 DEF first
<1>12. \A k \in 1 .. N : k - 1 \in T => k \in T
  <2>1. \A k \in 1 .. N : k \in 0 .. N
    BY <1>2
  <2> QED BY <1>3, <1>10, <2>1
<1> HIDE DEF T
<1>13. \A k \in 0 .. N : k \in T
  BY <1>2, <1>11, <1>12, UpTo
<1>14. g[N] = {h[N]}
  BY <1>2, <1>13 DEF T
<1> QED BY <1>1, <1>9, <1>14 DEF N

\* Several values of one kind.
Images(w, q) == [i \in 1 .. Len(q) |-> w[q[i]]]

Writer(w, V) == w \in [V -> Seq(Byte)]

\* What is written of several values is strings, and their concatenation a
\* string.
LEMMA ImagesWritten ==
    ASSUME NEW V, NEW w, Writer(w, V), NEW q \in Seq(V)
    PROVE  /\ Images(w, q) \in Seq(Seq(Byte)) /\ Len(Images(w, q)) = Len(q)
           /\ Flat(Images(w, q)) \in Seq(Byte)
<1> DEFINE n == Len(q)
           f == Images(w, q)
<1>1. n \in Nat /\ \A i \in 1 .. n : q[i] \in V
  BY LenProperties, ElementOfSeq
<1>2. f = [i \in 1 .. n |-> w[q[i]]]
  BY DEF Images
<1> HIDE DEF n, f
<1>3. f \in [1 .. n -> Seq(Byte)]
  BY <1>1, <1>2 DEF Writer
<1>4. f \in Seq(Seq(Byte)) /\ Len(f) = n
  BY <1>1, <1>3, FunctionSeq
<1> QED BY <1>4, FlatFacts DEF n, f

\* The same for every place.
Alike(x, n) == [k \in 1 .. n |-> x]

\* Values of one kind are a row whose fields all have that kind.
LEMMA SameKind ==
    ASSUME NEW V, NEW w, Writer(w, V), NEW n \in Nat
    PROVE  /\ Writers(Alike(w, n), Alike(V, n), n)
           /\ \A q \in Seq(V) : Len(q) = n =>
                 q \in Rows(Alike(V, n), n) /\ Cells(Alike(w, n), q) = Images(w, q)
           /\ \A q \in Rows(Alike(V, n), n) : q \in Seq(V) /\ Len(q) = n
<1> DEFINE Vs == [k \in 1 .. n |-> V]
           ws == [k \in 1 .. n |-> w]
<1>1. Writers(ws, Vs, n)
  BY DEF Writers, Writer
<1>2. ASSUME NEW q \in Seq(V), Len(q) = n
      PROVE  q \in Rows(Vs, n) /\ Cells(ws, q) = Images(w, q)
  <2>1. \A i \in 1 .. n : q[i] \in V
    BY <1>2, ElementOfSeq
  <2>2. q \in Rows(Vs, n)
    <3> DEFINE All == UNION {Vs[k] : k \in DOMAIN Vs}
    <3>1. \A i \in 1 .. n : q[i] \in Vs[i] /\ q[i] \in All
      BY <2>1
    <3>2. q \in [1 .. n -> All]
      <4>1. q = [i \in 1 .. n |-> q[i]]
        BY <1>2, LenProperties
      <4> HIDE DEF All
      <4> QED BY <3>1, <4>1
    <3> HIDE DEF All
    <3>3. q \in Seq(All)
      BY <3>2, FunctionSeq
    <3> QED BY <1>2, <3>1, <3>3 DEF Rows, All
  <2>3. Cells(ws, q) = Images(w, q)
    BY <1>2 DEF Cells, Images
  <2> QED BY <2>2, <2>3
<1>3. ASSUME NEW q \in Rows(Vs, n) PROVE q \in Seq(V) /\ Len(q) = n
  <2> DEFINE All == UNION {Vs[k] : k \in DOMAIN Vs}
  <2>1. q \in Seq(All) /\ Len(q) = n
    BY DEF Rows
  <2>2. All \subseteq V
    OBVIOUS
  <2> HIDE DEF All
  <2>3. q \in Seq(V)
    BY <2>1, <2>2, SeqMonotonic
  <2> QED BY <2>1, <2>3
<1>4. Alike(V, n) = Vs /\ Alike(w, n) = ws
  BY DEF Alike
<1> HIDE DEF Vs, ws
<1> QED BY <1>1, <1>2, <1>3, <1>4

Lists(V, limit) == {q \in Seq(V) : Len(q) <= limit}
ListWritten(w, limit) ==
    [q \in Lists(DOMAIN w, limit) |-> Compact(Len(q)) \o Flat(Images(w, q))]

Everywhere(F, s, w) == \A a \in 0 .. Len(s) : Exactly(F[a], s, a, w)

\* So many values of one kind.
LEMMA ManyExact ==
    ASSUME NEW s \in Seq(Byte), NEW at \in 0 .. Len(s), NEW n \in Nat,
           NEW V, NEW w, Writer(w, V), NEW F, Everywhere(F, s, w),
           NEW readers, readers = [k \in 1 .. n |-> F]
    PROVE  /\ \A x \in InTurn(at, readers) :
                 /\ x.v \in Seq(V) /\ Len(x.v) = n
                 /\ Stands(Flat(Images(w, x.v)), s, at)
                 /\ x.at = at + Len(Flat(Images(w, x.v))) /\ x.at \in 0 .. Len(s)
           /\ \A q \in Seq(V) : Len(q) = n /\ Stands(Flat(Images(w, q)), s, at)
                 => InTurn(at, readers) = Got(q, at + Len(Flat(Images(w, q))))
<1> DEFINE Vs == Alike(V, n)
           ws == Alike(w, n)
           r == InTurn(at, readers)
           row == RowsWritten(Vs, ws, n)
<1>1. Len(readers) = n /\ \A k \in 1 .. n : readers[k] = F /\ ws[k] = w
  <2>1. readers \in [1 .. n -> {F}]
    OBVIOUS
  <2>2. Len(readers) = n
    BY <2>1, FunctionSeq
  <2> QED BY <2>2 DEF Alike
<1>2. /\ Writers(ws, Vs, n)
      /\ \A q \in Seq(V) : Len(q) = n =>
            q \in Rows(Vs, n) /\ Cells(ws, q) = Images(w, q)
      /\ \A q \in Rows(Vs, n) : q \in Seq(V) /\ Len(q) = n
  BY SameKind
<1>3. \A k \in 1 .. n : \A a \in 0 .. Len(s) : Exactly(readers[k][a], s, a, ws[k])
  BY <1>1 DEF Everywhere
<1> HIDE DEF Vs, ws
<1>4. Exactly(r, s, at, row)
  BY <1>1, <1>2, <1>3, InTurnExact
<1>5. DOMAIN row = Rows(Vs, n) /\ \A q \in Rows(Vs, n) : row[q] = Flat(Cells(ws, q))
  BY DEF RowsWritten
<1> HIDE DEF r, row
<1>6. ASSUME NEW x \in r
      PROVE  /\ x.v \in Seq(V) /\ Len(x.v) = n
             /\ Stands(Flat(Images(w, x.v)), s, at)
             /\ x.at = at + Len(Flat(Images(w, x.v))) /\ x.at \in 0 .. Len(s)
  <2>1. x.v \in Rows(Vs, n) /\ Stands(row[x.v], s, at) /\ x.at = at + Len(row[x.v]) /\ x.at \in 0 .. Len(s)
    BY <1>4, <1>5 DEF Exactly
  <2>2. x.v \in Seq(V) /\ Len(x.v) = n
    BY <1>2, <2>1
  <2>3. row[x.v] = Flat(Images(w, x.v))
    BY <1>2, <1>5, <2>2
  <2> QED BY <2>1, <2>2, <2>3
<1>7. ASSUME NEW q \in Seq(V), Len(q) = n, Stands(Flat(Images(w, q)), s, at)
      PROVE  r = Got(q, at + Len(Flat(Images(w, q))))
  <2>1. q \in DOMAIN row /\ row[q] = Flat(Images(w, q))
    BY <1>2, <1>5, <1>7
  <2> QED BY <1>4, <1>7, <2>1 DEF Exactly
<1> QED BY <1>6, <1>7 DEF r

\* A count no greater than a limit, and as many values.
CountedList(sizes, limit, F) ==
    UNION {IF x.v > limit THEN {} ELSE InTurn(x.at, [k \in 1 .. x.v |-> F]) : x \in sizes}

\* A count and as many items are read from what is written of a list within
\* the limit.
LEMMA ListExact ==
    ASSUME NEW s \in Seq(Byte), NEW at \in 0 .. Len(s), NEW limit \in Nat, limit < Power(W64),
           NEW V, NEW w, Writer(w, V), NEW F, Everywhere(F, s, w)
    PROVE  /\ Writer(ListWritten(w, limit), Lists(V, limit))
           /\ Exactly(CountedList(ReadCompact(s, at), limit, F), s, at, ListWritten(w, limit))
<1> DEFINE Q == Lists(V, limit)
           r == ReadCompact(s, at)
           items(q) == Flat(Images(w, q))
           W(q) == Compact(Len(q)) \o items(q)
           B(n, a) == IF n > limit THEN {} ELSE InTurn(a, [k \in 1 .. n |-> F])
           list == CountedList(r, limit, F)
<1>1. at \in Nat /\ at <= Len(s) /\ Len(s) \in Nat
  BY LenProperties
<1>2. /\ DOMAIN Sizes = Unsigned(W64)
      /\ \A v \in Unsigned(W64) :
            v \in Nat /\ Sizes[v] = Compact(v) /\ Compact(v) \in Seq(Byte) /\ Len(Compact(v)) \in Nat
  BY CompactForms DEF Sizes
<1>3. /\ \A x \in r : /\ x.v \in Unsigned(W64) /\ Stands(Compact(x.v), s, at)
                      /\ x.at = at + Len(Compact(x.v)) /\ x.at \in 0 .. Len(s)
      /\ \A v \in Unsigned(W64) : Stands(Compact(v), s, at) => r = Got(v, at + Len(Compact(v)))
  <2>1. Exactly(r, s, at, Sizes)
    BY ReadCompactExact
  <2> HIDE DEF r
  <2> QED BY <1>2, <2>1 DEF Exactly
<1>4. list = UNION {B(x.v, x.at) : x \in r}
  BY DEF CountedList
<1> HIDE DEF list
<1>5. \A n \in 0 .. limit : n \in Unsigned(W64)
  <2>1. Power(W64) \in Nat
    BY Widths
  <2> QED BY <2>1 DEF Unsigned
<1>6. ASSUME NEW q \in Q
      PROVE  /\ q \in Seq(V) /\ Len(q) \in Unsigned(W64) /\ Len(q) \in 0 .. limit
             /\ W(q) \in Seq(Byte) /\ Len(Compact(Len(q))) \in Nat
             /\ at + Len(W(q)) = (at + Len(Compact(Len(q)))) + Len(items(q))
             /\ Stands(W(q), s, at)
                  <=> (Stands(Compact(Len(q)), s, at) /\ Stands(items(q), s, at + Len(Compact(Len(q)))))
  <2> DEFINE n == Len(q)
             c == Compact(n)
             b == items(q)
  <2>1. q \in Seq(V) /\ n \in Nat /\ n <= limit
    BY LenProperties DEF Lists
  <2>2. n \in 0 .. limit /\ n \in Unsigned(W64)
    BY <1>5, <2>1
  <2>3. b \in Seq(Byte)
    BY <2>1, ImagesWritten DEF Writer
  <2>4. c \in Seq(Byte) /\ Len(c) \in Nat /\ W(q) = c \o b
    BY <1>2, <2>2
  <2> HIDE DEF c, b, W, items
  <2>5. /\ c \o b \in Seq(Byte) /\ Len(c \o b) = Len(c) + Len(b) /\ Len(b) \in Nat
        /\ Stands(c \o b, s, at) <=> (Stands(c, s, at) /\ Stands(b, s, at + Len(c)))
    BY <1>1, <2>3, <2>4, StandsConcat, LenProperties
  <2>6. at + (Len(c) + Len(b)) = (at + Len(c)) + Len(b)
    BY <1>1, <2>4, <2>5
  <2> QED BY <2>1, <2>2, <2>4, <2>5, <2>6 DEF c, b
<1>7. ASSUME NEW n \in 0 .. limit, NEW a \in 0 .. Len(s)
      PROVE  /\ \A y \in B(n, a) : /\ y.v \in Seq(V) /\ Len(y.v) = n /\ Stands(items(y.v), s, a)
                                   /\ y.at = a + Len(items(y.v)) /\ y.at \in 0 .. Len(s)
             /\ \A q \in Seq(V) : Len(q) = n /\ Stands(items(q), s, a)
                   => B(n, a) = Got(q, a + Len(items(q)))
  <2> DEFINE readers == [k \in 1 .. n |-> F]
  <2>1. B(n, a) = InTurn(a, readers) /\ n \in Nat /\ Writer(w, V) /\ readers = [k \in 1 .. n |-> F]
    BY DEF Writer
  <2> HIDE DEF B, readers
  <2> QED BY <2>1, ManyExact
<1>8. ASSUME NEW z \in list
      PROVE  /\ z.v \in Q /\ Stands(W(z.v), s, at)
             /\ z.at = at + Len(W(z.v)) /\ z.at \in 0 .. Len(s)
  <2>1. PICK x \in r : z \in B(x.v, x.at)
    BY <1>4, <1>8
  <2>2. x.v \in 0 .. limit
    <3>1. x.v \in Nat
      BY <1>2, <1>3
    <3>2. ~(x.v > limit)
      BY <2>1
    <3> QED BY <3>1, <3>2
  <2> HIDE DEF B, items
  <2>3. /\ z.v \in Seq(V) /\ Len(z.v) = x.v /\ Stands(items(z.v), s, x.at)
        /\ z.at = x.at + Len(items(z.v)) /\ z.at \in 0 .. Len(s)
    BY <1>3, <1>7, <2>1, <2>2
  <2>4. z.v \in Q
    BY <2>2, <2>3 DEF Lists
  <2> HIDE DEF Q, W
  <2>5. x.at = at + Len(Compact(Len(z.v))) /\ Stands(Compact(Len(z.v)), s, at)
    BY <1>3, <2>3
  <2> QED BY <1>6, <2>3, <2>4, <2>5
<1>9. ASSUME NEW q \in Q, Stands(W(q), s, at)
      PROVE  list = Got(q, at + Len(W(q)))
  <2> DEFINE n == Len(q)
             a == at + Len(Compact(n))
  <2>1. /\ q \in Seq(V) /\ n \in Unsigned(W64) /\ n \in 0 .. limit /\ Len(Compact(n)) \in Nat
        /\ Stands(Compact(n), s, at) /\ Stands(items(q), s, a) /\ at + Len(W(q)) = a + Len(items(q))
    BY <1>6, <1>9
  <2>2. a \in 0 .. Len(s)
    <3>1. a <= Len(s)
      BY <2>1 DEF Stands
    <3> QED BY <1>1, <2>1, <3>1
  <2>3. r = Got(n, a)
    BY <1>3, <2>1
  <2> HIDE DEF a, B, Q, items, W
  <2>4. B(n, a) = Got(q, a + Len(items(q)))
    BY <1>7, <2>1, <2>2
  <2>5. list = B(n, a)
    <3> DEFINE x == [v |-> n, at |-> a]
    <3>1. r = {x} /\ x.v = n /\ x.at = a
      BY <2>3 DEF Got
    <3> HIDE DEF x, r
    <3> QED BY <1>4, <3>1
  <2> QED BY <2>1, <2>4, <2>5
<1>10. DOMAIN w = V
  BY DEF Writer
<1>11. ListWritten(w, limit) = [q \in Q |-> W(q)]
  BY <1>10 DEF ListWritten
<1> HIDE DEF Q, W
<1>12. Writer(ListWritten(w, limit), Q)
  BY <1>6, <1>11 DEF Writer
<1>13. DOMAIN ListWritten(w, limit) = Q /\ \A q \in Q : ListWritten(w, limit)[q] = W(q)
  BY <1>11
<1>14. Exactly(list, s, at, ListWritten(w, limit))
  BY <1>8, <1>9, <1>13 DEF Exactly
<1> QED BY <1>12, <1>14 DEF Q, list

\* What is written of the integers, sizes and hashes is strings.
LEMMA IntegerWriters ==
    ASSUME NEW width \in Nat
    PROVE  /\ Writer(Numbers(width), Unsigned(width))
           /\ Writer(SignedNumbers(width), Signed(width))
           /\ Writer(Sizes, Unsigned(W64))
           /\ Writer(Hashes, Strings(HashSize))
<1>1. \A v \in Unsigned(width) : v \in Int /\ Number(v, width) \in Seq(Byte)
  <2>1. Power(width) \in Nat
    BY PowerFacts
  <2>2. \A v \in Unsigned(width) : v \in Int
    BY <2>1 DEF Unsigned
  <2> QED BY <2>2, NumberBytes
<1>2. \A v \in Signed(width) : v \in Int /\ Number(v, width) \in Seq(Byte)
  BY NumberBytes DEF Signed
<1>3. \A v \in Unsigned(W64) : Compact(v) \in Seq(Byte)
  BY CompactForms
<1>4. \A h \in Strings(HashSize) : Wire(h) \in Seq(Byte)
  <2>1. HashSize \in Nat
    BY SizesAssumption
  <2> QED BY <2>1, ReverseFacts DEF Wire, Strings
<1>5. Writer(Numbers(width), Unsigned(width))
  BY <1>1 DEF Writer, Numbers
<1>6. Writer(SignedNumbers(width), Signed(width))
  BY <1>2 DEF Writer, SignedNumbers
<1>7. Writer(Sizes, Unsigned(W64))
  BY <1>3 DEF Writer, Sizes
<1>8. Writer(Hashes, Strings(HashSize))
  BY <1>4 DEF Writer, Hashes
<1> QED BY <1>5, <1>6, <1>7, <1>8

\* The fields a record is made of.
FieldTypes == {"u32", "i32", "u64", "i64", "size", "hash"}

Field(type) ==
    CASE type = "u32"  -> Numbers(W32)
      [] type = "i32"  -> SignedNumbers(W32)
      [] type = "u64"  -> Numbers(W64)
      [] type = "i64"  -> SignedNumbers(W64)
      [] type = "size" -> Sizes
      [] type = "hash" -> Hashes

\* ReadField reads what is written of a field of its type.
LEMMA FieldExact ==
    ASSUME NEW s \in Seq(Byte), NEW at \in 0 .. Len(s), NEW type \in FieldTypes
    PROVE  /\ Writer(Field(type), DOMAIN Field(type))
           /\ Exactly(ReadField(s, at, type), s, at, Field(type))
<1>1. W32 \in Nat /\ W64 \in Nat
  BY SizesAssumption
<1>2. /\ Writer(Numbers(W32), Unsigned(W32)) /\ Writer(SignedNumbers(W32), Signed(W32))
      /\ Writer(Numbers(W64), Unsigned(W64)) /\ Writer(SignedNumbers(W64), Signed(W64))
      /\ Writer(Sizes, Unsigned(W64)) /\ Writer(Hashes, Strings(HashSize))
  BY <1>1, IntegerWriters
<1>3. \A w, V : Writer(w, V) => Writer(w, DOMAIN w)
  BY DEF Writer
<1>4. /\ Exactly(ReadNumber(s, at, W32), s, at, Numbers(W32))
      /\ Exactly(ReadSigned(s, at, W32), s, at, SignedNumbers(W32))
      /\ Exactly(ReadNumber(s, at, W64), s, at, Numbers(W64))
      /\ Exactly(ReadSigned(s, at, W64), s, at, SignedNumbers(W64))
      /\ Exactly(ReadCompact(s, at), s, at, Sizes)
      /\ Exactly(ReadHash(s, at), s, at, Hashes)
  BY <1>1, ReadNumberExact, ReadSignedExact, ReadCompactExact, ReadHashExact
<1>5. CASE type = "u32"
  <2>1. Field(type) = Numbers(W32) /\ ReadField(s, at, type) = ReadNumber(s, at, W32)
    BY <1>5 DEF Field, ReadField
  <2> QED BY <1>2, <1>3, <1>4, <2>1
<1>6. CASE type = "i32"
  <2>1. Field(type) = SignedNumbers(W32) /\ ReadField(s, at, type) = ReadSigned(s, at, W32)
    BY <1>6 DEF Field, ReadField
  <2> QED BY <1>2, <1>3, <1>4, <2>1
<1>7. CASE type = "u64"
  <2>1. Field(type) = Numbers(W64) /\ ReadField(s, at, type) = ReadNumber(s, at, W64)
    BY <1>7 DEF Field, ReadField
  <2> QED BY <1>2, <1>3, <1>4, <2>1
<1>8. CASE type = "i64"
  <2>1. Field(type) = SignedNumbers(W64) /\ ReadField(s, at, type) = ReadSigned(s, at, W64)
    BY <1>8 DEF Field, ReadField
  <2> QED BY <1>2, <1>3, <1>4, <2>1
<1>9. CASE type = "size"
  <2>1. Field(type) = Sizes /\ ReadField(s, at, type) = ReadCompact(s, at)
    BY <1>9 DEF Field, ReadField
  <2> QED BY <1>2, <1>3, <1>4, <2>1
<1>10. CASE type = "hash"
  <2>1. Field(type) = Hashes /\ ReadField(s, at, type) = ReadHash(s, at)
    BY <1>10 DEF Field, ReadField
  <2> QED BY <1>2, <1>3, <1>4, <2>1
<1> QED BY <1>5, <1>6, <1>7, <1>8, <1>9, <1>10 DEF FieldTypes

FieldValues(types) == [k \in 1 .. Len(types) |-> DOMAIN Field(types[k])]
FieldWriters(types) == [k \in 1 .. Len(types) |-> Field(types[k])]
FieldsWritten(types) == RowsWritten(FieldValues(types), FieldWriters(types), Len(types))

\* ReadFields reads what is written of fields of its types, one after the
\* other.
LEMMA FieldsExact ==
    ASSUME NEW s \in Seq(Byte), NEW at \in 0 .. Len(s), NEW types \in Seq(FieldTypes)
    PROVE  /\ Writers(FieldWriters(types), FieldValues(types), Len(types))
           /\ FieldsWritten(types) \in [Rows(FieldValues(types), Len(types)) -> Seq(Byte)]
           /\ Exactly(ReadFields(s, at, types), s, at, FieldsWritten(types))
<1> DEFINE n == Len(types)
           V == FieldValues(types)
           w == FieldWriters(types)
           readers == [k \in 1 .. n |-> [a \in 0 .. Len(s) |-> ReadField(s, a, types[k])]]
<1>1. n \in Nat /\ \A k \in 1 .. n : types[k] \in FieldTypes
  BY LenProperties, ElementOfSeq
<1>2. /\ V = [k \in 1 .. n |-> DOMAIN Field(types[k])]
      /\ w = [k \in 1 .. n |-> Field(types[k])]
  BY DEF FieldValues, FieldWriters
<1>3. ReadFields(s, at, types) = InTurn(at, readers)
  BY DEF ReadFields
<1> HIDE DEF n, V, w
<1>4. Len(readers) = n
  <2> DEFINE R(k) == [a \in 0 .. Len(s) |-> ReadField(s, a, types[k])]
  <2>1. readers \in [1 .. n -> {R(k) : k \in 1 .. n}]
    OBVIOUS
  <2> HIDE DEF readers
  <2> QED BY <1>1, <2>1, FunctionSeq
<1>5. \A k \in 1 .. n : \A a \in 0 .. Len(s) : readers[k][a] = ReadField(s, a, types[k])
  OBVIOUS
<1> HIDE DEF readers
<1>6. Writers(w, V, n)
  <2>1. 0 \in 0 .. Len(s)
    BY LenProperties
  <2>2. \A k \in 1 .. n : Writer(Field(types[k]), DOMAIN Field(types[k]))
    BY <1>1, <2>1, FieldExact
  <2> QED BY <1>2, <2>2 DEF Writers, Writer
<1>7. ASSUME NEW k \in 1 .. n, NEW a \in 0 .. Len(s) PROVE Exactly(readers[k][a], s, a, w[k])
  <2>1. Exactly(ReadField(s, a, types[k]), s, a, Field(types[k]))
    BY <1>1, FieldExact
  <2>2. readers[k][a] = ReadField(s, a, types[k]) /\ w[k] = Field(types[k])
    BY <1>2, <1>5
  <2> QED BY <2>1, <2>2
<1>8. /\ RowsWritten(V, w, n) \in [Rows(V, n) -> Seq(Byte)]
      /\ Exactly(InTurn(at, readers), s, at, RowsWritten(V, w, n))
  BY <1>1, <1>4, <1>6, <1>7, InTurnExact
<1> QED BY <1>3, <1>6, <1>8 DEF FieldsWritten, n, V, w

\* What stands between the ends of a string is all of it.
LEMMA WholeExact ==
    ASSUME NEW s \in Seq(Byte), NEW V, NEW w, Writer(w, V), NEW r, Exactly(r, s, 0, w)
    PROVE  /\ Whole(s, r) = {v \in V : w[v] = s}
           /\ \A u, v \in V : w[u] = s /\ w[v] = s => u = v
<1>1. DOMAIN w = V /\ \A v \in V : w[v] \in Seq(Byte) /\ Len(w[v]) \in Nat
  <2>1. DOMAIN w = V /\ \A v \in V : w[v] \in Seq(Byte)
    BY DEF Writer
  <2> QED BY <2>1, LenProperties
<1>2. ASSUME NEW v \in Whole(s, r) PROVE v \in V /\ w[v] = s
  <2>1. PICK x \in r : x.at = Len(s) /\ v = x.v
    BY <1>2 DEF Whole
  <2>2. v \in V /\ Stands(w[v], s, 0) /\ Len(s) = 0 + Len(w[v])
    BY <1>1, <2>1 DEF Exactly
  <2>3. w[v] \in Seq(Byte) /\ Len(w[v]) = Len(s)
    BY <1>1, <2>2
  <2> QED BY <2>2, <2>3, StandsWhole
<1>3. ASSUME NEW v \in V, w[v] = s PROVE v \in Whole(s, r)
  <2>1. Stands(w[v], s, 0)
    BY <1>3, WholeStands
  <2>2. r = Got(v, 0 + Len(w[v])) /\ 0 + Len(w[v]) = Len(s)
    BY <1>1, <1>3, <2>1 DEF Exactly
  <2> DEFINE x == [v |-> v, at |-> Len(s)]
  <2>3. x \in r /\ x.at = Len(s) /\ x.v = v
    BY <2>2 DEF Got
  <2> HIDE DEF x
  <2> QED BY <2>3 DEF Whole
<1>4. ASSUME NEW u \in V, NEW v \in V, w[u] = s, w[v] = s PROVE u = v
  <2>1. r = Got(u, 0 + Len(s)) /\ r = Got(v, 0 + Len(s))
    BY <1>1, <1>4, WholeStands DEF Exactly
  <2> DEFINE x == [v |-> u, at |-> 0 + Len(s)]
             y == [v |-> v, at |-> 0 + Len(s)]
  <2>2. x.v = u /\ y.v = v /\ r = {x} /\ r = {y}
    BY <2>1 DEF Got
  <2> HIDE DEF x, y
  <2> QED BY <2>2
<1> QED BY <1>2, <1>3, <1>4

\* A few strings one after the other.
LEMMA FlatTwo ==
    ASSUME NEW a \in Seq(Byte), NEW b \in Seq(Byte)
    PROVE  /\ <<a, b>> \in Seq(Seq(Byte)) /\ a \o b \in Seq(Byte)
           /\ Flat(<<a, b>>) = a \o b
<1> DEFINE S == Seq(Byte)
           none == <<>>
           p1 == Append(none, a)
           p2 == Append(p1, b)
<1>1. a \in S /\ b \in S /\ none \in Seq(S)
  OBVIOUS
<1>2. <<a, b>> = p2 /\ <<a, b>> \in Seq(S)
  <2> HIDE DEF S
  <2> QED BY <1>1
<1>3. Flat(none) = <<>> /\ \A x \in Seq(Byte) : <<>> \o x = x
  BY FlatFacts, ConcatEmptySeq
<1>4. \A parts \in Seq(S), one \in S : Append(parts, one) \in Seq(S) /\ Flat(Append(parts, one)) = Flat(parts) \o one
  BY FlatFacts, AppendProperties
<1>5. a \o b \in S
  BY ConcatProperties
<1> HIDE DEF none
<1>6. p1 \in Seq(S) /\ Flat(p1) = a
  BY <1>1, <1>3, <1>4
<1> HIDE DEF p1
<1>7. Flat(p2) = a \o b
  BY <1>1, <1>4, <1>6
<1> QED BY <1>2, <1>5, <1>7

\* The concatenation of six strings.
LEMMA FlatSix ==
    ASSUME NEW p \in Seq(Seq(Byte)), Len(p) = 6
    PROVE  Flat(p) = p[1] \o p[2] \o p[3] \o p[4] \o p[5] \o p[6]
<1> DEFINE S == Seq(Byte)
           a == p[1]
           b == p[2]
           c == p[3]
           d == p[4]
           e == p[5]
           f == p[6]
           p2 == <<a, b>>
           p3 == Append(p2, c)
           p4 == Append(p3, d)
           p5 == Append(p4, e)
           p6 == Append(p5, f)
<1>1. a \in S /\ b \in S /\ c \in S /\ d \in S /\ e \in S /\ f \in S
  <2>1. p \in Seq(S)
    OBVIOUS
  <2> HIDE DEF S
  <2>2. \A i \in 1 .. 6 : p[i] \in S
    BY <2>1, ElementOfSeq
  <2> QED BY <2>2
<1>2. p = p6
  <2>1. DOMAIN p = 1 .. 6 /\ p = [i \in 1 .. 6 |-> p[i]]
    BY LenProperties
  <2>2. p = <<a, b, c, d, e, f>>
    BY <2>1
  <2>3. <<a, b, c, d, e, f>> = p6
    <3> HIDE DEF S, a, b, c, d, e, f
    <3> QED BY <1>1
  <2> QED BY <2>2, <2>3
<1> HIDE DEF a, b, c, d, e, f
<1>3. p2 \in Seq(S) /\ Flat(p2) = a \o b
  BY <1>1, FlatTwo
<1>4. \A parts \in Seq(S), one \in S : Append(parts, one) \in Seq(S) /\ Flat(Append(parts, one)) = Flat(parts) \o one
  BY FlatFacts, AppendProperties
<1> HIDE DEF p2, S
<1>5. p3 \in Seq(S) /\ Flat(p3) = a \o b \o c
  BY <1>1, <1>3, <1>4
<1> HIDE DEF p3
<1>6. p4 \in Seq(S) /\ Flat(p4) = a \o b \o c \o d
  BY <1>1, <1>4, <1>5
<1> HIDE DEF p4
<1>7. p5 \in Seq(S) /\ Flat(p5) = a \o b \o c \o d \o e
  BY <1>1, <1>4, <1>6
<1> HIDE DEF p5
<1>8. Flat(p6) = a \o b \o c \o d \o e \o f
  BY <1>1, <1>4, <1>7
<1> QED BY <1>2, <1>8 DEF a, b, c, d, e, f

HeaderRecords ==
    [version : Signed(W32), previous : Strings(HashSize), merkle : Strings(HashSize),
     time : Unsigned(W32), bits : Unsigned(W32), nonce : Unsigned(W32)]

HeaderTypes == <<"i32", "hash", "hash", "u32", "u32", "u32">>

\* A header as the row of its fields.
HeaderRow(h) == <<h.version, h.previous, h.merkle, h.time, h.bits, h.nonce>>

\* The fields of a header and what each is written as.
LEMMA HeaderFields ==
    /\ HeaderTypes \in Seq(FieldTypes) /\ Len(HeaderTypes) = 6
    /\ FieldValues(HeaderTypes) = <<Signed(W32), Strings(HashSize), Strings(HashSize),
                                    Unsigned(W32), Unsigned(W32), Unsigned(W32)>>
    /\ FieldWriters(HeaderTypes) = <<SignedNumbers(W32), Hashes, Hashes,
                                     Numbers(W32), Numbers(W32), Numbers(W32)>>
<1>1. HeaderTypes \in Seq(FieldTypes) /\ Len(HeaderTypes) = 6
  BY DEF HeaderTypes, FieldTypes
<1>2. /\ Field("i32") = SignedNumbers(W32) /\ Field("hash") = Hashes /\ Field("u32") = Numbers(W32)
      /\ DOMAIN SignedNumbers(W32) = Signed(W32) /\ DOMAIN Hashes = Strings(HashSize)
      /\ DOMAIN Numbers(W32) = Unsigned(W32)
  BY DEF Field, SignedNumbers, Hashes, Numbers
<1>3. FieldWriters(HeaderTypes) = <<SignedNumbers(W32), Hashes, Hashes,
                                    Numbers(W32), Numbers(W32), Numbers(W32)>>
  <2> DEFINE a == SignedNumbers(W32)
             b == Hashes
             c == Numbers(W32)
             f == [k \in 1 .. 6 |-> Field(HeaderTypes[k])]
  <2>1. FieldWriters(HeaderTypes) = f
    BY <1>1 DEF FieldWriters
  <2>2. f[1] = a /\ f[2] = b /\ f[3] = b /\ f[4] = c /\ f[5] = c /\ f[6] = c
    BY <1>2 DEF HeaderTypes
  <2>3. DOMAIN f = 1 .. 6 /\ f = [k \in 1 .. 6 |-> f[k]]
    OBVIOUS
  <2> HIDE DEF a, b, c, f
  <2>4. f = <<a, b, b, c, c, c>>
    BY <2>2, <2>3
  <2> QED BY <2>1, <2>4 DEF a, b, c
<1>4. FieldValues(HeaderTypes) = <<Signed(W32), Strings(HashSize), Strings(HashSize),
                                   Unsigned(W32), Unsigned(W32), Unsigned(W32)>>
  <2> DEFINE a == Signed(W32)
             b == Strings(HashSize)
             c == Unsigned(W32)
             f == [k \in 1 .. 6 |-> DOMAIN Field(HeaderTypes[k])]
  <2>1. FieldValues(HeaderTypes) = f
    BY <1>1 DEF FieldValues
  <2>2. f[1] = a /\ f[2] = b /\ f[3] = b /\ f[4] = c /\ f[5] = c /\ f[6] = c
    BY <1>2 DEF HeaderTypes
  <2>3. DOMAIN f = 1 .. 6 /\ f = [k \in 1 .. 6 |-> f[k]]
    OBVIOUS
  <2> HIDE DEF a, b, c, f
  <2>4. f = <<a, b, b, c, c, c>>
    BY <2>2, <2>3
  <2> QED BY <2>1, <2>4 DEF a, b, c
<1> QED BY <1>1, <1>3, <1>4

\* Rows of six.
LEMMA SixInARow ==
    ASSUME NEW A1, NEW A2, NEW A3, NEW A4, NEW A5, NEW A6
    PROVE  Rows(<<A1, A2, A3, A4, A5, A6>>, 6) =
             {<<a, b, c, d, e, f>> : a \in A1, b \in A2, c \in A3, d \in A4, e \in A5, f \in A6}
<1> DEFINE V == <<A1, A2, A3, A4, A5, A6>>
           All == UNION {V[k] : k \in DOMAIN V}
           R == Rows(V, 6)
<1>1. /\ V[1] = A1 /\ V[2] = A2 /\ V[3] = A3 /\ V[4] = A4 /\ V[5] = A5 /\ V[6] = A6
      /\ DOMAIN V = 1 .. 6
  OBVIOUS
<1> HIDE DEF V
<1>2. ASSUME NEW q \in R
      PROVE  \E a \in A1, b \in A2, c \in A3, d \in A4, e \in A5, f \in A6 : q = <<a, b, c, d, e, f>>
  <2>1. q \in Seq(All) /\ Len(q) = 6 /\ \A i \in 1 .. 6 : q[i] \in V[i]
    BY DEF Rows
  <2>2. DOMAIN q = 1 .. 6 /\ q = [i \in 1 .. 6 |-> q[i]]
    <3> HIDE DEF All
    <3> QED BY <2>1, LenProperties
  <2>3. q = <<q[1], q[2], q[3], q[4], q[5], q[6]>>
    BY <2>2
  <2>4. q[1] \in A1 /\ q[2] \in A2 /\ q[3] \in A3 /\ q[4] \in A4 /\ q[5] \in A5 /\ q[6] \in A6
    BY <1>1, <2>1
  <2> QED BY <2>3, <2>4
<1>3. ASSUME NEW a \in A1, NEW b \in A2, NEW c \in A3, NEW d \in A4, NEW e \in A5, NEW f \in A6
      PROVE  <<a, b, c, d, e, f>> \in R
  <2> DEFINE q == <<a, b, c, d, e, f>>
  <2>1. a \in All /\ b \in All /\ c \in All /\ d \in All /\ e \in All /\ f \in All
    <3>1. \A k \in 1 .. 6 : V[k] \subseteq All
      BY <1>1
    <3>2. 1 \in 1 .. 6 /\ 2 \in 1 .. 6 /\ 3 \in 1 .. 6 /\ 4 \in 1 .. 6 /\ 5 \in 1 .. 6 /\ 6 \in 1 .. 6
      OBVIOUS
    <3> HIDE DEF All
    <3> QED BY <1>1, <3>1, <3>2
  <2> HIDE DEF All
  <2>2. q \in Seq(All) /\ Len(q) = 6
    BY <2>1
  <2>3. q[1] = a /\ q[2] = b /\ q[3] = c /\ q[4] = d /\ q[5] = e /\ q[6] = f
    OBVIOUS
  <2>4. \A i \in 1 .. 6 : i = 1 \/ i = 2 \/ i = 3 \/ i = 4 \/ i = 5 \/ i = 6
    OBVIOUS
  <2> HIDE DEF q
  <2>5. \A i \in 1 .. 6 : q[i] \in V[i]
    BY <1>1, <2>3, <2>4
  <2> QED BY <2>2, <2>5 DEF Rows, All, q
<1> HIDE DEF R
<1>4. R = {<<a, b, c, d, e, f>> : a \in A1, b \in A2, c \in A3, d \in A4, e \in A5, f \in A6}
  BY <1>2, <1>3
<1> QED BY <1>4 DEF R, V

HeadersWritten == [h \in HeaderRecords |-> WriteHeader(h)]

\* A header is written as its six fields, in its size.
LEMMA HeaderWritten ==
    ASSUME NEW h \in HeaderRecords
    PROVE  /\ HeaderRow(h) \in DOMAIN FieldsWritten(HeaderTypes)
           /\ FieldsWritten(HeaderTypes)[HeaderRow(h)] = WriteHeader(h)
           /\ WriteHeader(h) \in Seq(Byte) /\ Len(WriteHeader(h)) = HeaderSize
<1> DEFINE a == Number(h.version, W32)
           b == Wire(h.previous)
           c == Wire(h.merkle)
           d == Number(h.time, W32)
           e == Number(h.bits, W32)
           f == Number(h.nonce, W32)
           q == HeaderRow(h)
           ws == FieldWriters(HeaderTypes)
<1>1. W32 \in Nat /\ HashSize \in Nat
  BY SizesAssumption
<1>2. /\ h.version \in Signed(W32) /\ h.previous \in Strings(HashSize) /\ h.merkle \in Strings(HashSize)
      /\ h.time \in Unsigned(W32) /\ h.bits \in Unsigned(W32) /\ h.nonce \in Unsigned(W32)
  BY DEF HeaderRecords
<1>3. \A v : v \in Signed(W32) \/ v \in Unsigned(W32)
        => Number(v, W32) \in Seq(Byte) /\ Len(Number(v, W32)) = W32
  <2>1. Power(W32) \in Nat
    BY Widths
  <2>2. \A v : v \in Signed(W32) \/ v \in Unsigned(W32) => v \in Int
    BY <2>1 DEF Signed, Unsigned
  <2> QED BY <1>1, <2>2, NumberBytes
<1>4. \A w \in Strings(HashSize) : Wire(w) \in Seq(Byte) /\ Len(Wire(w)) = HashSize
  BY <1>1, ReverseFacts DEF Strings, Wire
<1>5. /\ a \in Seq(Byte) /\ b \in Seq(Byte) /\ c \in Seq(Byte) /\ d \in Seq(Byte)
      /\ e \in Seq(Byte) /\ f \in Seq(Byte)
      /\ Len(a) = W32 /\ Len(b) = HashSize /\ Len(c) = HashSize /\ Len(d) = W32 /\ Len(e) = W32 /\ Len(f) = W32
  BY <1>2, <1>3, <1>4
<1>6. q \in Rows(FieldValues(HeaderTypes), Len(HeaderTypes))
  BY <1>2, HeaderFields, SixInARow DEF HeaderRow
<1>7. /\ FieldsWritten(HeaderTypes)[q] = Flat(Cells(ws, q)) /\ q \in DOMAIN FieldsWritten(HeaderTypes)
  <2> HIDE DEF q
  <2> QED BY <1>6 DEF FieldsWritten, RowsWritten
<1>8. Cells(ws, q) = <<a, b, c, d, e, f>>
  <2> DEFINE g == [i \in 1 .. 6 |-> ws[i][q[i]]]
  <2>1. Len(q) = 6
    BY DEF HeaderRow
  <2>2. Cells(ws, q) = g
    BY <2>1 DEF Cells
  <2>3. /\ ws[1] = SignedNumbers(W32) /\ ws[2] = Hashes /\ ws[3] = Hashes
        /\ ws[4] = Numbers(W32) /\ ws[5] = Numbers(W32) /\ ws[6] = Numbers(W32)
    BY HeaderFields
  <2>4. /\ q[1] = h.version /\ q[2] = h.previous /\ q[3] = h.merkle
        /\ q[4] = h.time /\ q[5] = h.bits /\ q[6] = h.nonce
    BY DEF HeaderRow
  <2>5. /\ \A v \in Signed(W32) : SignedNumbers(W32)[v] = Number(v, W32)
        /\ \A v \in Strings(HashSize) : Hashes[v] = Wire(v)
        /\ \A v \in Unsigned(W32) : Numbers(W32)[v] = Number(v, W32)
    BY DEF SignedNumbers, Hashes, Numbers
  <2> HIDE DEF ws, q
  <2>6. g[1] = a /\ g[2] = b /\ g[3] = c /\ g[4] = d /\ g[5] = e /\ g[6] = f
    BY <1>2, <2>3, <2>4, <2>5
  <2>7. DOMAIN g = 1 .. 6 /\ g = [i \in 1 .. 6 |-> g[i]]
    OBVIOUS
  <2> HIDE DEF a, b, c, d, e, f, g
  <2>8. g = <<a, b, c, d, e, f>>
    BY <2>6, <2>7
  <2> QED BY <2>2, <2>8
<1> HIDE DEF q, ws
<1>9. Flat(Cells(ws, q)) = WriteHeader(h)
  <2>1. WriteHeader(h) = a \o b \o c \o d \o e \o f
    BY DEF WriteHeader
  <2> HIDE DEF a, b, c, d, e, f
  <2> DEFINE p == <<a, b, c, d, e, f>>
  <2>2. /\ Len(p) = 6
        /\ p[1] = a /\ p[2] = b /\ p[3] = c /\ p[4] = d /\ p[5] = e /\ p[6] = f
    OBVIOUS
  <2>3. p \in Seq(Seq(Byte))
    <3> DEFINE S == Seq(Byte)
    <3>1. a \in S /\ b \in S /\ c \in S /\ d \in S /\ e \in S /\ f \in S
      BY <1>5
    <3> HIDE DEF S
    <3>2. p \in Seq(S)
      BY <3>1
    <3> QED BY <3>2 DEF S
  <2> HIDE DEF p
  <2>4. Flat(p) = p[1] \o p[2] \o p[3] \o p[4] \o p[5] \o p[6]
    BY <2>2, <2>3, FlatSix
  <2>5. Flat(p) = a \o b \o c \o d \o e \o f
    BY <2>2, <2>4
  <2> QED BY <1>8, <2>1, <2>5 DEF p
<1>10. WriteHeader(h) \in Seq(Byte) /\ Len(WriteHeader(h)) = HeaderSize
  <2>1. WriteHeader(h) = a \o b \o c \o d \o e \o f
    BY DEF WriteHeader
  <2> HIDE DEF a, b, c, d, e, f
  <2>2. \A x, y \in Seq(Byte) : x \o y \in Seq(Byte) /\ Len(x \o y) = Len(x) + Len(y)
    BY ConcatProperties
  <2>3. a \o b \in Seq(Byte) /\ Len(a \o b) = W32 + HashSize
    BY <1>5, <2>2
  <2>4. a \o b \o c \in Seq(Byte) /\ Len(a \o b \o c) = W32 + HashSize + HashSize
    BY <1>5, <2>2, <2>3
  <2>5. a \o b \o c \o d \in Seq(Byte) /\ Len(a \o b \o c \o d) = W32 + HashSize + HashSize + W32
    BY <1>5, <2>2, <2>4
  <2>6. /\ a \o b \o c \o d \o e \in Seq(Byte)
        /\ Len(a \o b \o c \o d \o e) = W32 + HashSize + HashSize + W32 + W32
    BY <1>5, <2>2, <2>5
  <2>7. /\ a \o b \o c \o d \o e \o f \in Seq(Byte)
        /\ Len(a \o b \o c \o d \o e \o f) = W32 + HashSize + HashSize + W32 + W32 + W32
    BY <1>5, <2>2, <2>6
  <2>8. W32 + HashSize + HashSize + W32 + W32 + W32 = HeaderSize
    BY <1>1 DEF HeaderSize
  <2> QED BY <2>1, <2>7, <2>8
<1> QED BY <1>7, <1>9, <1>10 DEF q

\* A header has one string and a string at most one header:
\* BlockHeader::serialize and BlockHeader::deserialize agree, so a header's
\* hash stands for it.
THEOREM HeadersAreExact ==
    /\ \A bytes \in Seq(Byte) : ReadHeader(bytes) = {h \in HeaderRecords : WriteHeader(h) = bytes}
    /\ \A h \in HeaderRecords : ReadHeader(WriteHeader(h)) = {h}
<1>1. ASSUME NEW bytes \in Seq(Byte)
      PROVE  /\ ReadHeader(bytes) = {h \in HeaderRecords : WriteHeader(h) = bytes}
             /\ \A g, h \in HeaderRecords : WriteHeader(g) = bytes /\ WriteHeader(h) = bytes => g = h
  <2> DEFINE row == FieldsWritten(HeaderTypes)
             Named(f) == [version |-> f[1], previous |-> f[2], merkle |-> f[3],
                          time |-> f[4], bits |-> f[5], nonce |-> f[6]]
             name == [f \in DOMAIN row |-> Named(f)]
             r == ReadFields(bytes, 0, HeaderTypes)
             q == UNION {Got(name[x.v], x.at) : x \in r}
             w == HeadersWritten
  <2>1. 0 \in 0 .. Len(bytes)
    BY LenProperties
  <2>2. Exactly(r, bytes, 0, row)
    BY <2>1, FieldsExact, HeaderFields
  <2>3. DOMAIN row = {<<a1, b1, c1, d1, e1, f1>> : a1 \in Signed(W32), b1 \in Strings(HashSize),
                        c1 \in Strings(HashSize), d1 \in Unsigned(W32), e1 \in Unsigned(W32),
                        f1 \in Unsigned(W32)}
    BY HeaderFields, SixInARow DEF FieldsWritten, RowsWritten
  <2>4. ASSUME NEW f \in DOMAIN row PROVE Named(f) \in HeaderRecords /\ HeaderRow(Named(f)) = f
    <3>1. PICK a1 \in Signed(W32), b1 \in Strings(HashSize), c1 \in Strings(HashSize),
               d1 \in Unsigned(W32), e1 \in Unsigned(W32), f1 \in Unsigned(W32) :
               f = <<a1, b1, c1, d1, e1, f1>>
      BY <2>3
    <3>2. f[1] = a1 /\ f[2] = b1 /\ f[3] = c1 /\ f[4] = d1 /\ f[5] = e1 /\ f[6] = f1
      BY <3>1
    <3>3. Named(f) \in HeaderRecords
      BY <3>2 DEF HeaderRecords
    <3>4. HeaderRow(Named(f)) = <<f[1], f[2], f[3], f[4], f[5], f[6]>>
      BY DEF HeaderRow
    <3> QED BY <3>1, <3>2, <3>3, <3>4
  <2>5. ASSUME NEW h \in HeaderRecords PROVE Named(HeaderRow(h)) = h
    <3>1. Named(HeaderRow(h)) = [version |-> h.version, previous |-> h.previous, merkle |-> h.merkle,
                                 time |-> h.time, bits |-> h.bits, nonce |-> h.nonce]
      BY DEF HeaderRow
    <3>2. h = [version |-> h.version, previous |-> h.previous, merkle |-> h.merkle,
               time |-> h.time, bits |-> h.bits, nonce |-> h.nonce]
      BY DEF HeaderRecords
    <3> QED BY <3>1, <3>2
  <2>6. DOMAIN w = HeaderRecords /\ \A h \in HeaderRecords : w[h] = WriteHeader(h)
    BY DEF HeadersWritten
  <2>7. \A h \in HeaderRecords : HeaderRow(h) \in DOMAIN row /\ row[HeaderRow(h)] = WriteHeader(h)
    BY HeaderWritten
  <2>8. Writer(w, HeaderRecords)
    BY HeaderWritten DEF Writer, HeadersWritten
  <2>9. \A x \in r : x.v \in DOMAIN row
    BY <2>2 DEF Exactly
  <2>10. \A f \in DOMAIN row : name[f] = Named(f)
    OBVIOUS
  <2>11. UNION {Got(Named(x.v), x.at) : x \in r} = q
    <3> HIDE DEF r, row, Named, name
    <3> QED BY <2>9, <2>10
  <2>12. ReadHeader(bytes) = IF Len(bytes) # HeaderSize THEN {} ELSE Whole(bytes, q)
    <3>1. ReadHeader(bytes) = IF Len(bytes) # HeaderSize THEN {}
                              ELSE Whole(bytes, UNION {Got(Named(x.v), x.at) : x \in r})
      BY DEF ReadHeader, Then, Throw, HeaderTypes
    <3> HIDE DEF q, r, Named
    <3> QED BY <2>11, <3>1
  <2> HIDE DEF row, Named, name, r, w
  <2>13. Renames(name, row, w)
    <3>1. \A f \in DOMAIN row : name[f] \in DOMAIN w /\ w[name[f]] = row[f]
      BY <2>4, <2>6, <2>7, <2>10
    <3>2. \A h \in DOMAIN w : \E f \in DOMAIN row : name[f] = h
      BY <2>5, <2>6, <2>7, <2>10
    <3> QED BY <3>1, <3>2 DEF Renames
  <2>14. Exactly(q, bytes, 0, w)
    <3>1. q = UNION {Got(name[x.v], x.at) : x \in r}
      OBVIOUS
    <3> HIDE DEF q
    <3> QED BY <2>2, <2>13, <3>1, Renamed
  <2> HIDE DEF q
  <2>15. /\ Whole(bytes, q) = {h \in HeaderRecords : WriteHeader(h) = bytes}
         /\ \A g, h \in HeaderRecords : WriteHeader(g) = bytes /\ WriteHeader(h) = bytes => g = h
    BY <2>6, <2>8, <2>14, WholeExact
  <2>16. \A h \in HeaderRecords : Len(WriteHeader(h)) = HeaderSize
    BY HeaderWritten
  <2> QED BY <2>12, <2>15, <2>16
<1>2. ASSUME NEW h \in HeaderRecords PROVE ReadHeader(WriteHeader(h)) = {h}
  <2>1. WriteHeader(h) \in Seq(Byte)
    BY HeaderWritten
  <2>2. ReadHeader(WriteHeader(h)) = {g \in HeaderRecords : WriteHeader(g) = WriteHeader(h)}
    BY <1>1, <2>1
  <2>3. ASSUME NEW g \in HeaderRecords, WriteHeader(g) = WriteHeader(h) PROVE g = h
    BY <1>1, <2>1, <2>3
  <2> QED BY <2>2, <2>3
<1> QED BY <1>1, <1>2

\* What was read under another name.
Named(name, r) == UNION {Got(name[x.v], x.at) : x \in r}

\* A reader that stays within a string of n bytes.
Stays(r, n) == \A x \in r : x.at \in 0 .. n

\* G reads what B reads, and then C.
ThenAlso(G, B, C, n) == \A a \in 0 .. n : G[a] = Pairs(B[a], C)

\* What a pair of readers reads: something of each.
LEMMA PairItem ==
    ASSUME NEW r, NEW F, NEW z
    PROVE  z \in Pairs(r, F) <=> \E x \in r : \E y \in F[x.at] : z = [v |-> <<x.v, y.v>>, at |-> y.at]
BY DEF Pairs, Got

\* Three and four readers in turn, as the nested calls of the code have them.
Three(name, r, B, C) ==
    UNION {UNION {UNION {Got(name[<<x.v, <<y.v, z.v>>>>], z.at) : z \in C[y.at]}
                  : y \in B[x.at]} : x \in r}
Four(name, r, B, C, D) ==
    UNION {UNION {UNION {UNION {Got(name[<<x.v, <<y.v, <<z.v, t.v>>>>>>], t.at) : t \in D[z.at]}
                         : z \in C[y.at]} : y \in B[x.at]} : x \in r}

\* Three nested readers are two pairs, renamed.
LEMMA ThreeInTurn ==
    ASSUME NEW n, NEW r, Stays(r, n), NEW B, NEW C, NEW G, NEW name,
           ThenAlso(G, B, C, n)
    PROVE  Named(name, Pairs(r, G)) = Three(name, r, B, C)
<1> DEFINE Y(x, y) == UNION {Got(name[<<x.v, <<y.v, z.v>>>>], z.at) : z \in C[y.at]}
           X(x) == UNION {Y(x, y) : y \in B[x.at]}
           Right == UNION {X(x) : x \in r}
<1>1. \A x \in r : x.at \in 0 .. n /\ G[x.at] = Pairs(B[x.at], C)
  BY DEF Stays, ThenAlso
<1>2. ASSUME NEW u \in Named(name, Pairs(r, G)) PROVE u \in Right
  <2>1. PICK p \in Pairs(r, G) : u = [v |-> name[p.v], at |-> p.at]
    BY <1>2 DEF Named, Got
  <2>2. PICK x \in r : \E g \in G[x.at] : p = [v |-> <<x.v, g.v>>, at |-> g.at]
    BY <2>1, PairItem
  <2>3. PICK g \in G[x.at] : p = [v |-> <<x.v, g.v>>, at |-> g.at]
    BY <2>2
  <2>4. g \in Pairs(B[x.at], C)
    BY <1>1, <2>2, <2>3
  <2>5. PICK y \in B[x.at] : \E z \in C[y.at] : g = [v |-> <<y.v, z.v>>, at |-> z.at]
    BY <2>4, PairItem
  <2>6. PICK z \in C[y.at] : g = [v |-> <<y.v, z.v>>, at |-> z.at]
    BY <2>5
  <2>7. p.v = <<x.v, <<y.v, z.v>>>> /\ p.at = z.at
    BY <2>3, <2>6
  <2>8. u = [v |-> name[<<x.v, <<y.v, z.v>>>>], at |-> z.at]
    BY <2>1, <2>7
  <2>9. u \in Y(x, y)
    BY <2>6, <2>8 DEF Got
  <2> HIDE DEF Y
  <2>10. u \in X(x)
    BY <2>5, <2>9
  <2> HIDE DEF X
  <2> QED BY <2>2, <2>10
<1>3. ASSUME NEW u \in Right PROVE u \in Named(name, Pairs(r, G))
  <2>1. PICK x \in r : u \in X(x)
    <3> HIDE DEF X
    <3> QED BY <1>3
  <2>2. PICK y \in B[x.at] : u \in Y(x, y)
    <3> HIDE DEF Y
    <3> QED BY <2>1
  <2>3. PICK z \in C[y.at] : u = [v |-> name[<<x.v, <<y.v, z.v>>>>], at |-> z.at]
    BY <2>2 DEF Got
  <2> DEFINE g == [v |-> <<y.v, z.v>>, at |-> z.at]
             p == [v |-> <<x.v, g.v>>, at |-> g.at]
  <2>4. g \in Pairs(B[x.at], C)
    BY <2>2, <2>3, PairItem
  <2>5. p \in Pairs(r, G)
    <3> HIDE DEF g
    <3> QED BY <1>1, <2>1, <2>4, PairItem
  <2>6. p.v = <<x.v, <<y.v, z.v>>>> /\ p.at = z.at
    OBVIOUS
  <2> HIDE DEF p, g
  <2>7. u = [v |-> name[p.v], at |-> p.at]
    BY <2>3, <2>6
  <2> QED BY <2>5, <2>7 DEF Named, Got
<1> HIDE DEF Right
<1>4. Named(name, Pairs(r, G)) = Right
  BY <1>2, <1>3
<1> QED BY <1>4 DEF Right, X, Y, Three

\* Four nested readers are three pairs, renamed.
LEMMA FourInTurn ==
    ASSUME NEW n, NEW r, Stays(r, n), NEW B, \A a \in 0 .. n : Stays(B[a], n),
           NEW C, NEW D, NEW G, NEW H, NEW name,
           ThenAlso(G, B, H, n), ThenAlso(H, C, D, n)
    PROVE  Named(name, Pairs(r, G)) = Four(name, r, B, C, D)
<1> DEFINE Z(x, y, z) == UNION {Got(name[<<x.v, <<y.v, <<z.v, t.v>>>>>>], t.at) : t \in D[z.at]}
           Y(x, y) == UNION {Z(x, y, z) : z \in C[y.at]}
           X(x) == UNION {Y(x, y) : y \in B[x.at]}
           Right == UNION {X(x) : x \in r}
           K(x, y) == UNION {Got(name[<<x.v, <<y.v, g.v>>>>], g.at) : g \in H[y.at]}
           J(x) == UNION {K(x, y) : y \in B[x.at]}
           Mid == UNION {J(x) : x \in r}
<1>1. Named(name, Pairs(r, G)) = Mid
  BY ThreeInTurn DEF Three
<1>2. ASSUME NEW x \in r, NEW y \in B[x.at] PROVE K(x, y) = Y(x, y)
  <2>1. H[y.at] = Pairs(C[y.at], D)
    BY DEF Stays, ThenAlso
  <2>3. ASSUME NEW u PROVE u \in K(x, y) <=> \E g \in H[y.at] : u = [v |-> name[<<x.v, <<y.v, g.v>>>>], at |-> g.at]
    BY DEF Got
  <2> HIDE DEF K
  <2>4. ASSUME NEW u \in K(x, y) PROVE u \in Y(x, y)
    <3>1. PICK g \in H[y.at] : u = [v |-> name[<<x.v, <<y.v, g.v>>>>], at |-> g.at]
      BY <2>3, <2>4
    <3>2. g \in Pairs(C[y.at], D)
      BY <2>1, <3>1
    <3>3. PICK z \in C[y.at] : \E t \in D[z.at] : g = [v |-> <<z.v, t.v>>, at |-> t.at]
      BY <3>2, PairItem
    <3>4. PICK t \in D[z.at] : g = [v |-> <<z.v, t.v>>, at |-> t.at]
      BY <3>3
    <3>5. u = [v |-> name[<<x.v, <<y.v, <<z.v, t.v>>>>>>], at |-> t.at]
      BY <3>1, <3>4
    <3>6. u \in Z(x, y, z)
      BY <3>4, <3>5 DEF Got
    <3> HIDE DEF Z
    <3> QED BY <3>3, <3>6
  <2>5. ASSUME NEW u \in Y(x, y) PROVE u \in K(x, y)
    <3>1. PICK z \in C[y.at] : u \in Z(x, y, z)
      <4> HIDE DEF Z
      <4> QED BY <2>5
    <3>2. PICK t \in D[z.at] : u = [v |-> name[<<x.v, <<y.v, <<z.v, t.v>>>>>>], at |-> t.at]
      BY <3>1 DEF Got
    <3> DEFINE g == [v |-> <<z.v, t.v>>, at |-> t.at]
    <3>3. g \in H[y.at] /\ g.v = <<z.v, t.v>> /\ g.at = t.at
      BY <2>1, <3>1, <3>2, PairItem
    <3> HIDE DEF g
    <3>4. u = [v |-> name[<<x.v, <<y.v, g.v>>>>], at |-> g.at]
      BY <3>2, <3>3
    <3> QED BY <2>3, <3>3, <3>4
  <2> QED BY <2>4, <2>5
<1> HIDE DEF K, Y
<1>3. \A x \in r : J(x) = X(x)
  BY <1>2
<1> HIDE DEF J, X
<1>4. Mid = Right
  BY <1>3
<1> QED BY <1>1, <1>4 DEF Right, X, Y, Z, Four

\* A reader that is exact at every place stays within the string.
LEMMA EverywhereStays ==
    ASSUME NEW s, NEW F, NEW w, Everywhere(F, s, w)
    PROVE  \A a \in 0 .. Len(s) : Stays(F[a], Len(s))
BY DEF Everywhere, Exactly, Stays

\* Three values one after the other, under the name they get.
LEMMA ThreeExact ==
    ASSUME NEW s \in Seq(Byte), NEW at \in 0 .. Len(s),
           NEW V1, NEW w1, Writer(w1, V1), NEW V2, NEW w2, Writer(w2, V2), NEW V3, NEW w3, Writer(w3, V3),
           NEW r, Exactly(r, s, at, w1), NEW B, Everywhere(B, s, w2), NEW C, Everywhere(C, s, w3),
           NEW name, NEW written, Renames(name, Joint(w1, Joint(w2, w3)), written)
    PROVE  Exactly(Three(name, r, B, C), s, at, written)
<1> DEFINE n == Len(s)
           G == [a \in 0 .. n |-> Pairs(B[a], C)]
           w23 == Joint(w2, w3)
<1>1. ThenAlso(G, B, C, n)
  BY DEF ThenAlso
<1>2. \A a \in 0 .. n : w23 \in [V2 \X V3 -> Seq(Byte)] /\ Exactly(G[a], s, a, w23)
  <2>1. \A a \in 0 .. n : Exactly(B[a], s, a, w2)
    BY DEF Everywhere
  <2>2. \A a \in 0 .. n : Exactly(C[a], s, a, w3)
    BY DEF Everywhere
  <2>3. w2 \in [V2 -> Seq(Byte)] /\ w3 \in [V3 -> Seq(Byte)]
    BY DEF Writer
  <2>4. ASSUME NEW a \in 0 .. n
        PROVE  w23 \in [V2 \X V3 -> Seq(Byte)] /\ Exactly(Pairs(B[a], C), s, a, w23)
    BY <2>1, <2>2, <2>3, PairsExact
  <2> QED BY <2>4
<1>3. 0 \in 0 .. n
  BY LenProperties
<1> HIDE DEF G, w23
<1>4. Exactly(Pairs(r, G), s, at, Joint(w1, w23))
  <2>1. w1 \in [V1 -> Seq(Byte)] /\ w23 \in [V2 \X V3 -> Seq(Byte)]
    BY <1>2, <1>3 DEF Writer
  <2>2. \A a \in 0 .. n : Exactly(G[a], s, a, w23)
    BY <1>2
  <2> QED BY <2>1, <2>2, PairsExact
<1>5. Stays(r, n)
  BY DEF Exactly, Stays
<1>6. Named(name, Pairs(r, G)) = Three(name, r, B, C)
  BY <1>1, <1>5, ThreeInTurn
<1>7. Exactly(Named(name, Pairs(r, G)), s, at, written)
  <2>1. Renames(name, Joint(w1, w23), written)
    BY DEF w23
  <2>2. Named(name, Pairs(r, G)) = UNION {Got(name[x.v], x.at) : x \in Pairs(r, G)}
    BY DEF Named
  <2> DEFINE u == Named(name, Pairs(r, G))
             p == Pairs(r, G)
  <2>3. u = UNION {Got(name[x.v], x.at) : x \in p}
    BY <2>2
  <2>4. Exactly(p, s, at, Joint(w1, w23))
    BY <1>4
  <2> HIDE DEF u, p
  <2>5. Exactly(u, s, at, written)
    BY <2>1, <2>3, <2>4, Renamed
  <2> QED BY <2>5 DEF u
<1> QED BY <1>6, <1>7

\* Four readers one after the other read what their writers write.
LEMMA FourExact ==
    ASSUME NEW s \in Seq(Byte), NEW at \in 0 .. Len(s),
           NEW V1, NEW w1, Writer(w1, V1), NEW V2, NEW w2, Writer(w2, V2),
           NEW V3, NEW w3, Writer(w3, V3), NEW V4, NEW w4, Writer(w4, V4),
           NEW r, Exactly(r, s, at, w1), NEW B, Everywhere(B, s, w2), NEW C, Everywhere(C, s, w3),
           NEW D, Everywhere(D, s, w4),
           NEW name, NEW written, Renames(name, Joint(w1, Joint(w2, Joint(w3, w4))), written)
    PROVE  Exactly(Four(name, r, B, C, D), s, at, written)
<1> DEFINE n == Len(s)
           H == [a \in 0 .. n |-> Pairs(C[a], D)]
           w34 == Joint(w3, w4)
           V34 == V3 \X V4
<1>1. ThenAlso(H, C, D, n)
  BY DEF ThenAlso
<1>2. \A a \in 0 .. n : w34 \in [V34 -> Seq(Byte)] /\ Exactly(H[a], s, a, w34)
  <2>1. \A a \in 0 .. n : Exactly(C[a], s, a, w3)
    BY DEF Everywhere
  <2>2. \A a \in 0 .. n : Exactly(D[a], s, a, w4)
    BY DEF Everywhere
  <2>3. w3 \in [V3 -> Seq(Byte)] /\ w4 \in [V4 -> Seq(Byte)]
    BY DEF Writer
  <2>4. ASSUME NEW a \in 0 .. n
        PROVE  w34 \in [V34 -> Seq(Byte)] /\ Exactly(Pairs(C[a], D), s, a, w34)
    BY <2>1, <2>2, <2>3, PairsExact
  <2> QED BY <2>4
<1>3. 0 \in 0 .. n
  BY LenProperties
<1> HIDE DEF H, w34, V34
<1>4. Writer(w34, V34) /\ Everywhere(H, s, w34)
  BY <1>2, <1>3 DEF Writer, Everywhere
<1> DEFINE G == [a \in 0 .. n |-> Pairs(B[a], H)]
<1>5. ThenAlso(G, B, H, n)
  BY DEF ThenAlso
<1> HIDE DEF G
<1>6. Stays(r, n)
  BY DEF Exactly, Stays
<1>7. \A a \in 0 .. n : Stays(B[a], n)
  BY EverywhereStays
<1>8. Renames(name, Joint(w1, Joint(w2, w34)), written)
  BY DEF w34
<1>9. Exactly(Three(name, r, B, H), s, at, written)
  BY <1>4, <1>8, ThreeExact
<1>10. Named(name, Pairs(r, G)) = Three(name, r, B, H)
  BY <1>5, <1>6, ThreeInTurn
<1>11. Named(name, Pairs(r, G)) = Four(name, r, B, C, D)
  BY <1>1, <1>5, <1>6, <1>7, FourInTurn
<1> QED BY <1>9, <1>10, <1>11

Two(name, r, B) == UNION {UNION {Got(name[<<x.v, y.v>>], y.at) : y \in B[x.at]} : x \in r}

\* Two readers one after the other, put into a record, read what is written of
\* it.
LEMMA TwoExact ==
    ASSUME NEW s \in Seq(Byte), NEW at \in 0 .. Len(s),
           NEW V1, NEW w1, Writer(w1, V1), NEW V2, NEW w2, Writer(w2, V2),
           NEW r, Exactly(r, s, at, w1), NEW B, Everywhere(B, s, w2),
           NEW name, NEW written, Renames(name, Joint(w1, w2), written)
    PROVE  Exactly(Two(name, r, B), s, at, written)
<1> DEFINE p == Pairs(r, B)
           u == Named(name, p)
<1>1. Exactly(p, s, at, Joint(w1, w2))
  <2>1. w1 \in [V1 -> Seq(Byte)] /\ w2 \in [V2 -> Seq(Byte)]
    BY DEF Writer
  <2>2. \A a \in 0 .. Len(s) : Exactly(B[a], s, a, w2)
    BY DEF Everywhere
  <2> QED BY <2>1, <2>2, PairsExact
<1>2. u = UNION {Got(name[x.v], x.at) : x \in p}
  BY DEF Named
<1>3. u = Two(name, r, B)
  <2> DEFINE X(x) == UNION {Got(name[<<x.v, y.v>>], y.at) : y \in B[x.at]}
  <2>1. ASSUME NEW z \in u PROVE z \in Two(name, r, B)
    <3>1. PICK g \in p : z = [v |-> name[g.v], at |-> g.at]
      BY <1>2, <2>1 DEF Got
    <3>2. PICK x \in r : \E y \in B[x.at] : g = [v |-> <<x.v, y.v>>, at |-> y.at]
      BY <3>1, PairItem
    <3>3. PICK y \in B[x.at] : g = [v |-> <<x.v, y.v>>, at |-> y.at]
      BY <3>2
    <3>4. z = [v |-> name[<<x.v, y.v>>], at |-> y.at]
      BY <3>1, <3>3
    <3>5. z \in X(x)
      BY <3>3, <3>4 DEF Got
    <3> QED BY <3>2, <3>5 DEF Two
  <2>2. ASSUME NEW z \in Two(name, r, B) PROVE z \in u
    <3>1. PICK x \in r : z \in X(x)
      <4> HIDE DEF X
      <4> QED BY <2>2 DEF Two, X
    <3>2. PICK y \in B[x.at] : z = [v |-> name[<<x.v, y.v>>], at |-> y.at]
      BY <3>1 DEF Got
    <3> DEFINE g == [v |-> <<x.v, y.v>>, at |-> y.at]
    <3>3. g \in p /\ g.v = <<x.v, y.v>> /\ g.at = y.at
      BY <3>1, <3>2, PairItem
    <3> HIDE DEF g, p
    <3>4. z = [v |-> name[g.v], at |-> g.at]
      BY <3>2, <3>3
    <3> QED BY <1>2, <3>3, <3>4 DEF Got
  <2> QED BY <2>1, <2>2
<1> HIDE DEF p, u
<1>4. Exactly(u, s, at, written)
  BY <1>1, <1>2, Renamed
<1> QED BY <1>3, <1>4

\* Rows of two.
LEMMA TwoInARow ==
    ASSUME NEW A1, NEW A2
    PROVE  Rows(<<A1, A2>>, 2) = {<<a, b>> : a \in A1, b \in A2}
<1> DEFINE V == <<A1, A2>>
           All == UNION {V[k] : k \in DOMAIN V}
           R == Rows(V, 2)
<1>1. V[1] = A1 /\ V[2] = A2 /\ DOMAIN V = 1 .. 2
  OBVIOUS
<1> HIDE DEF V
<1>2. ASSUME NEW q \in R PROVE \E a \in A1, b \in A2 : q = <<a, b>>
  <2>1. q \in Seq(All) /\ Len(q) = 2 /\ \A i \in 1 .. 2 : q[i] \in V[i]
    BY DEF Rows
  <2>2. DOMAIN q = 1 .. 2 /\ q = [i \in 1 .. 2 |-> q[i]]
    <3> HIDE DEF All
    <3> QED BY <2>1, LenProperties
  <2>3. q = <<q[1], q[2]>>
    BY <2>2
  <2>4. q[1] \in A1 /\ q[2] \in A2
    BY <1>1, <2>1
  <2> QED BY <2>3, <2>4
<1>3. ASSUME NEW a \in A1, NEW b \in A2 PROVE <<a, b>> \in R
  <2> DEFINE q == <<a, b>>
  <2>1. a \in All /\ b \in All
    <3>1. \A k \in 1 .. 2 : V[k] \subseteq All
      BY <1>1
    <3>2. 1 \in 1 .. 2 /\ 2 \in 1 .. 2
      OBVIOUS
    <3> HIDE DEF All
    <3> QED BY <1>1, <3>1, <3>2
  <2> HIDE DEF All
  <2>2. q \in Seq(All) /\ Len(q) = 2
    BY <2>1
  <2>3. q[1] = a /\ q[2] = b /\ \A i \in 1 .. 2 : i = 1 \/ i = 2
    OBVIOUS
  <2> HIDE DEF q
  <2>4. \A i \in 1 .. 2 : q[i] \in V[i]
    BY <1>1, <2>3
  <2> QED BY <2>2, <2>4 DEF Rows, All, q
<1> HIDE DEF R
<1>4. R = {<<a, b>> : a \in A1, b \in A2}
  BY <1>2, <1>3
<1> QED BY <1>4 DEF R, V

\* What an input refers to: a hash and an index.
PointTypes == <<"hash", "u32">>
Points == {<<a, b>> : a \in Strings(HashSize), b \in Unsigned(W32)}

\* The output an input spends is written as its hash and its index.
LEMMA PointsWritten ==
    /\ PointTypes \in Seq(FieldTypes) /\ DOMAIN FieldsWritten(PointTypes) = Points
    /\ Writer(FieldsWritten(PointTypes), Points)
    /\ \A a \in Strings(HashSize), b \in Unsigned(W32) :
          /\ FieldsWritten(PointTypes)[<<a, b>>] = Wire(a) \o Number(b, W32)
          /\ Wire(a) \in Seq(Byte) /\ Number(b, W32) \in Seq(Byte)
<1>1. PointTypes \in Seq(FieldTypes) /\ Len(PointTypes) = 2
  BY DEF PointTypes, FieldTypes
<1>2. /\ Field("hash") = Hashes /\ Field("u32") = Numbers(W32)
      /\ DOMAIN Hashes = Strings(HashSize) /\ DOMAIN Numbers(W32) = Unsigned(W32)
  BY DEF Field, Hashes, Numbers
<1> DEFINE fw == FieldWriters(PointTypes)
           fv == FieldValues(PointTypes)
           row == FieldsWritten(PointTypes)
<1>3. fv = <<Strings(HashSize), Unsigned(W32)>>
  <2> DEFINE a == Strings(HashSize)
             b == Unsigned(W32)
             f == [k \in 1 .. 2 |-> DOMAIN Field(PointTypes[k])]
  <2>1. fv = f
    BY <1>1 DEF FieldValues
  <2>2. f[1] = a /\ f[2] = b
    BY <1>2 DEF PointTypes
  <2>3. DOMAIN f = 1 .. 2 /\ f = [k \in 1 .. 2 |-> f[k]]
    OBVIOUS
  <2> HIDE DEF a, b, f
  <2>4. f = <<a, b>>
    BY <2>2, <2>3
  <2> QED BY <2>1, <2>4 DEF a, b
<1>4. fw[1] = Hashes /\ fw[2] = Numbers(W32)
  BY <1>1, <1>2 DEF FieldWriters, PointTypes
<1>5. Rows(fv, 2) = Points
  BY <1>3, TwoInARow DEF Points
<1>6. DOMAIN row = Points /\ \A q \in Points : row[q] = Flat(Cells(fw, q))
  BY <1>1, <1>5 DEF FieldsWritten, RowsWritten
<1>7. row \in [Points -> Seq(Byte)]
  <2> DEFINE s == <<>>
  <2>1. s \in Seq(Byte) /\ 0 \in 0 .. Len(s)
    OBVIOUS
  <2> HIDE DEF s
  <2>2. row \in [Rows(fv, Len(PointTypes)) -> Seq(Byte)]
    BY <1>1, <2>1, FieldsExact
  <2> QED BY <1>1, <1>5, <2>2
<1> HIDE DEF fw, fv, row
<1>8. ASSUME NEW a \in Strings(HashSize), NEW b \in Unsigned(W32)
      PROVE  /\ row[<<a, b>>] = Wire(a) \o Number(b, W32)
             /\ Wire(a) \in Seq(Byte) /\ Number(b, W32) \in Seq(Byte)
  <2> DEFINE q == <<a, b>>
             c == Wire(a)
             d == Number(b, W32)
             g == [i \in 1 .. 2 |-> fw[i][q[i]]]
  <2>1. q \in Points /\ Len(q) = 2 /\ q[1] = a /\ q[2] = b
    BY DEF Points
  <2>2. c \in Seq(Byte) /\ d \in Seq(Byte)
    <3>1. W32 \in Nat
      BY SizesAssumption
    <3>2. Writer(Numbers(W32), Unsigned(W32)) /\ Writer(Hashes, Strings(HashSize))
      BY <3>1, IntegerWriters
    <3>3. Numbers(W32)[b] = d /\ Hashes[a] = c
      BY DEF Numbers, Hashes
    <3> HIDE DEF c, d
    <3> QED BY <3>2, <3>3 DEF Writer
  <2>3. Cells(fw, q) = g
    BY <2>1 DEF Cells
  <2>4. fw[1][a] = c /\ fw[2][b] = d
    BY <1>4 DEF Numbers, Hashes
  <2> HIDE DEF q, c, d
  <2>5. g[1] = c /\ g[2] = d
    BY <2>1, <2>4
  <2>6. DOMAIN g = 1 .. 2 /\ g = [i \in 1 .. 2 |-> g[i]]
    OBVIOUS
  <2> HIDE DEF g
  <2>7. g = <<c, d>>
    BY <2>5, <2>6
  <2>8. row[q] = c \o d
    <3>1. row[q] = Flat(Cells(fw, q))
      BY <1>6, <2>1
    <3>2. Flat(<<c, d>>) = c \o d
      BY <2>2, FlatTwo
    <3>3. Cells(fw, q) = <<c, d>>
      BY <2>3, <2>7
    <3> QED BY <3>1, <3>2, <3>3
  <2> QED BY <2>2, <2>8 DEF q, c, d
<1> QED BY <1>1, <1>6, <1>7, <1>8 DEF row, Writer

InputRecords ==
    [txid : Strings(HashSize), index : Unsigned(W32), script : UpToSize(MaxScript),
     sequence : Unsigned(W32)]
OutputRecords == [value : Signed(W64), script : UpToSize(MaxScript)]

InputBytes(in) ==
    Wire(in.txid) \o Number(in.index, W32) \o Sized(in.script) \o Number(in.sequence, W32)
OutputBytes(out) == Number(out.value, W64) \o Sized(out.script)

InputsWritten == [in \in InputRecords |-> InputBytes(in)]
OutputsWritten == [out \in OutputRecords |-> OutputBytes(out)]

\* A script is written with its size in front, and read from that.
LEMMA ScriptsWritten ==
    /\ Writer(SizedBytes(MaxScript), UpToSize(MaxScript))
    /\ \A b \in UpToSize(MaxScript) : SizedBytes(MaxScript)[b] = Sized(b) /\ Sized(b) \in Seq(Byte)
    /\ \A s \in Seq(Byte) : \A a \in 0 .. Len(s) :
          Exactly(ReadSized(s, a, MaxScript), s, a, SizedBytes(MaxScript))
<1>1. MaxScript \in Nat /\ MaxScript < Power(W64)
  BY SizesAssumption
<1>2. \A s \in Seq(Byte) : \A a \in 0 .. Len(s) :
         /\ SizedBytes(MaxScript) \in [UpToSize(MaxScript) -> Seq(Byte)]
         /\ Exactly(ReadSized(s, a, MaxScript), s, a, SizedBytes(MaxScript))
  BY <1>1, ReadSizedExact
<1>3. SizedBytes(MaxScript) \in [UpToSize(MaxScript) -> Seq(Byte)]
  <2> DEFINE s == <<>>
  <2>1. s \in Seq(Byte) /\ 0 \in 0 .. Len(s)
    OBVIOUS
  <2> HIDE DEF s
  <2> QED BY <1>2, <2>1
<1>4. \A b \in UpToSize(MaxScript) : SizedBytes(MaxScript)[b] = Sized(b)
  BY DEF SizedBytes
<1> QED BY <1>2, <1>3, <1>4 DEF Writer

\* An integer of either kind is written as a string.
LEMMA NumbersWritten ==
    ASSUME NEW width \in Nat
    PROVE  /\ Writer(Numbers(width), Unsigned(width)) /\ Writer(SignedNumbers(width), Signed(width))
           /\ \A v \in Unsigned(width) :
                 Numbers(width)[v] = Number(v, width) /\ Number(v, width) \in Seq(Byte)
           /\ \A v \in Signed(width) :
                 SignedNumbers(width)[v] = Number(v, width) /\ Number(v, width) \in Seq(Byte)
<1>1. Writer(Numbers(width), Unsigned(width)) /\ Writer(SignedNumbers(width), Signed(width))
  BY IntegerWriters
<1>2. /\ \A v \in Unsigned(width) : Numbers(width)[v] = Number(v, width)
      /\ \A v \in Signed(width) : SignedNumbers(width)[v] = Number(v, width)
  BY DEF Numbers, SignedNumbers
<1> QED BY <1>1, <1>2 DEF Writer

\* ReadOutput reads what is written of an output.
LEMMA OutputExact ==
    ASSUME NEW s \in Seq(Byte), NEW at \in 0 .. Len(s)
    PROVE  Exactly(ReadOutput(s, at), s, at, OutputsWritten)
<1> DEFINE n == Len(s)
           V1 == Signed(W64)
           V2 == UpToSize(MaxScript)
           w1 == SignedNumbers(W64)
           w2 == SizedBytes(MaxScript)
           r == ReadSigned(s, at, W64)
           B == [a \in 0 .. n |-> ReadSized(s, a, MaxScript)]
           name == [p \in V1 \X V2 |-> [value |-> p[1], script |-> p[2]]]
<1>1. W64 \in Nat
  BY SizesAssumption
<1>2. Writer(w1, V1) /\ Exactly(r, s, at, w1) /\ \A v \in V1 : w1[v] = Number(v, W64)
  BY <1>1, NumbersWritten, ReadSignedExact
<1>3. /\ Writer(w2, V2) /\ \A a \in 0 .. n : Exactly(ReadSized(s, a, MaxScript), s, a, w2)
      /\ \A b \in V2 : w2[b] = Sized(b)
  BY ScriptsWritten
<1>4. Everywhere(B, s, w2)
  BY <1>3 DEF Everywhere
<1>5. Renames(name, Joint(w1, w2), OutputsWritten)
  <2>1. DOMAIN w1 = V1 /\ DOMAIN w2 = V2
    BY <1>2, <1>3 DEF Writer
  <2> HIDE DEF V1, V2, w1, w2
  <2>2. Joint(w1, w2) = [p \in V1 \X V2 |-> w1[p[1]] \o w2[p[2]]]
    BY <2>1 DEF Joint
  <2>3. ASSUME NEW p \in V1 \X V2
        PROVE  name[p] \in OutputRecords /\ OutputsWritten[name[p]] = w1[p[1]] \o w2[p[2]]
    <3>1. p[1] \in V1 /\ p[2] \in V2 /\ name[p] = [value |-> p[1], script |-> p[2]]
      OBVIOUS
    <3>2. name[p] \in OutputRecords /\ name[p].value = p[1] /\ name[p].script = p[2]
      BY <3>1 DEF OutputRecords, V1, V2
    <3> HIDE DEF name
    <3>3. OutputsWritten[name[p]] = Number(p[1], W64) \o Sized(p[2])
      BY <3>2 DEF OutputsWritten, OutputBytes
    <3>4. w1[p[1]] = Number(p[1], W64) /\ w2[p[2]] = Sized(p[2])
      BY <1>2, <1>3, <3>1
    <3> QED BY <3>2, <3>3, <3>4
  <2>4. ASSUME NEW o \in OutputRecords PROVE \E p \in V1 \X V2 : name[p] = o
    <3>1. /\ o.value \in V1 /\ o.script \in V2
          /\ o = [value |-> o.value, script |-> o.script]
      BY DEF OutputRecords, V1, V2
    <3>2. <<o.value, o.script>> \in V1 \X V2 /\ name[<<o.value, o.script>>] = o
      BY <3>1
    <3> QED BY <3>2
  <2>5. DOMAIN OutputsWritten = OutputRecords
    BY DEF OutputsWritten
  <2> HIDE DEF name
  <2> QED BY <2>2, <2>3, <2>4, <2>5 DEF Renames
<1>6. ReadOutput(s, at) = Two(name, r, B)
  <2> DEFINE X(x) == UNION {Got(name[<<x.v, y.v>>], y.at) : y \in B[x.at]}
             Z(x) == UNION {Got([value |-> x.v, script |-> y.v], y.at) : y \in ReadSized(s, x.at, MaxScript)}
  <2>1. ReadOutput(s, at) = UNION {Z(x) : x \in r}
    BY DEF ReadOutput, Then
  <2>2. Two(name, r, B) = UNION {X(x) : x \in r}
    BY DEF Two
  <2>3. ASSUME NEW x \in r PROVE X(x) = Z(x)
    <3>1. x.v \in V1 /\ x.at \in 0 .. n
      BY <1>2 DEF Exactly, Writer
    <3>2. B[x.at] = ReadSized(s, x.at, MaxScript)
      BY <3>1
    <3>3. \A y \in ReadSized(s, x.at, MaxScript) : y.v \in V2
      BY <1>3, <3>1 DEF Exactly, Writer
    <3>4. \A y \in ReadSized(s, x.at, MaxScript) :
             name[<<x.v, y.v>>] = [value |-> x.v, script |-> y.v]
      BY <3>1, <3>3
    <3> HIDE DEF name, B, r, V1, V2
    <3> QED BY <3>2, <3>4
  <2> HIDE DEF X, Z, r
  <2> QED BY <2>1, <2>2, <2>3
<1> HIDE DEF r, B, name, w1, w2, V1, V2
<1>7. Exactly(Two(name, r, B), s, at, OutputsWritten)
  BY <1>2, <1>3, <1>4, <1>5, TwoExact
<1> QED BY <1>6, <1>7

\* ReadInput reads what is written of an input.
LEMMA InputExact ==
    ASSUME NEW s \in Seq(Byte), NEW at \in 0 .. Len(s)
    PROVE  Exactly(ReadInput(s, at), s, at, InputsWritten)
<1> DEFINE n == Len(s)
           V1 == Points
           V2 == UpToSize(MaxScript)
           V3 == Unsigned(W32)
           w1 == FieldsWritten(PointTypes)
           w2 == SizedBytes(MaxScript)
           w3 == Numbers(W32)
           r == ReadFields(s, at, PointTypes)
           B == [a \in 0 .. n |-> ReadSized(s, a, MaxScript)]
           C == [a \in 0 .. n |-> ReadNumber(s, a, W32)]
           Made(f, script, sequence) ==
               [txid |-> f[1], index |-> f[2], script |-> script, sequence |-> sequence]
           name == [p \in V1 \X (V2 \X V3) |-> Made(p[1], p[2][1], p[2][2])]
<1>1. W32 \in Nat
  BY SizesAssumption
<1>2. Writer(w1, V1) /\ Exactly(r, s, at, w1)
  BY PointsWritten, FieldsExact
<1>3. /\ Writer(w2, V2) /\ \A a \in 0 .. n : Exactly(ReadSized(s, a, MaxScript), s, a, w2)
      /\ \A b \in V2 : w2[b] = Sized(b) /\ Sized(b) \in Seq(Byte)
  BY ScriptsWritten
<1>4. /\ Writer(w3, V3) /\ \A a \in 0 .. n : Exactly(ReadNumber(s, a, W32), s, a, w3)
      /\ \A v \in V3 : w3[v] = Number(v, W32) /\ Number(v, W32) \in Seq(Byte)
  BY <1>1, NumbersWritten, ReadNumberExact
<1>5. Everywhere(B, s, w2) /\ Everywhere(C, s, w3)
  BY <1>3, <1>4 DEF Everywhere
<1>6. Renames(name, Joint(w1, Joint(w2, w3)), InputsWritten)
  <2>1. DOMAIN w1 = V1 /\ DOMAIN w2 = V2 /\ DOMAIN w3 = V3
    BY <1>2, <1>3, <1>4 DEF Writer
  <2> HIDE DEF V1, V2, V3, w1, w2, w3
  <2>2. Joint(w2, w3) = [p \in V2 \X V3 |-> w2[p[1]] \o w3[p[2]]]
    BY <2>1 DEF Joint
  <2>3. Joint(w1, Joint(w2, w3)) =
          [p \in V1 \X (V2 \X V3) |-> w1[p[1]] \o (w2[p[2][1]] \o w3[p[2][2]])]
    <3>1. DOMAIN Joint(w2, w3) = V2 \X V3
      BY <2>2
    <3>2. Joint(w1, Joint(w2, w3)) = [p \in V1 \X (V2 \X V3) |-> w1[p[1]] \o Joint(w2, w3)[p[2]]]
      BY <2>1, <3>1 DEF Joint
    <3>3. \A p \in V1 \X (V2 \X V3) : Joint(w2, w3)[p[2]] = w2[p[2][1]] \o w3[p[2][2]]
      BY <2>2
    <3> QED BY <3>2, <3>3
  <2>4. ASSUME NEW p \in V1 \X (V2 \X V3)
        PROVE  /\ name[p] \in InputRecords
               /\ InputsWritten[name[p]] = w1[p[1]] \o (w2[p[2][1]] \o w3[p[2][2]])
    <3> DEFINE f == p[1]
               script == p[2][1]
               sequence == p[2][2]
    <3>1. f \in V1 /\ script \in V2 /\ sequence \in V3 /\ name[p] = Made(f, script, sequence)
      OBVIOUS
    <3>2. PICK a \in Strings(HashSize), b \in Unsigned(W32) : f = <<a, b>>
      BY <3>1 DEF Points, V1
    <3> HIDE DEF f, script, sequence, name
    <3>3. /\ name[p] \in InputRecords /\ name[p].txid = a /\ name[p].index = b
          /\ name[p].script = script /\ name[p].sequence = sequence
      BY <3>1, <3>2 DEF InputRecords, V2, V3
    <3>4. InputsWritten[name[p]] = Wire(a) \o Number(b, W32) \o Sized(script) \o Number(sequence, W32)
      <4> DEFINE in == name[p]
      <4>1. in \in InputRecords /\ in.txid = a /\ in.index = b /\ in.script = script /\ in.sequence = sequence
        BY <3>3
      <4> HIDE DEF in
      <4>2. InputsWritten[in] = InputBytes(in)
        BY <4>1 DEF InputsWritten
      <4>3. InputBytes(in) = Wire(a) \o Number(b, W32) \o Sized(script) \o Number(sequence, W32)
        BY <4>1 DEF InputBytes
      <4> QED BY <4>2, <4>3 DEF in
    <3>5. /\ w1[f] = Wire(a) \o Number(b, W32)
          /\ Wire(a) \in Seq(Byte) /\ Number(b, W32) \in Seq(Byte)
      BY <3>2, PointsWritten DEF w1
    <3>6. /\ w2[script] = Sized(script) /\ Sized(script) \in Seq(Byte)
          /\ w3[sequence] = Number(sequence, W32) /\ Number(sequence, W32) \in Seq(Byte)
      BY <1>3, <1>4, <3>1
    <3>7. w1[f] \in Seq(Byte)
      BY <1>2, <3>1 DEF Writer
    <3>8. (w1[f] \o w2[script]) \o w3[sequence] = w1[f] \o (w2[script] \o w3[sequence])
      <4>1. \A x, y, z \in Seq(Byte) : (x \o y) \o z = x \o (y \o z)
        BY ConcatAssociative
      <4>2. w2[script] \in Seq(Byte) /\ w3[sequence] \in Seq(Byte)
        BY <3>6
      <4> QED BY <3>7, <4>1, <4>2
    <3>9. InputsWritten[name[p]] = (w1[f] \o w2[script]) \o w3[sequence]
      BY <3>4, <3>5, <3>6
    <3> QED BY <3>3, <3>8, <3>9 DEF f, script, sequence
  <2>5. ASSUME NEW in \in InputRecords PROVE \E p \in V1 \X (V2 \X V3) : name[p] = in
    <3> DEFINE f == <<in.txid, in.index>>
               p == <<f, <<in.script, in.sequence>>>>
    <3>1. /\ in.txid \in Strings(HashSize) /\ in.index \in Unsigned(W32)
          /\ in.script \in V2 /\ in.sequence \in V3
          /\ in = [txid |-> in.txid, index |-> in.index, script |-> in.script, sequence |-> in.sequence]
      BY DEF InputRecords, V2, V3
    <3>2. f \in V1 /\ f[1] = in.txid /\ f[2] = in.index
      BY <3>1 DEF V1, Points
    <3> HIDE DEF f
    <3>3. /\ p \in V1 \X (V2 \X V3)
          /\ p[1] = f /\ p[2][1] = in.script /\ p[2][2] = in.sequence
      BY <3>1, <3>2
    <3> HIDE DEF p
    <3>4. name[p] = Made(p[1], p[2][1], p[2][2])
      BY <3>3
    <3>5. name[p] = in
      BY <3>1, <3>2, <3>3, <3>4
    <3> QED BY <3>3, <3>5
  <2>6. DOMAIN InputsWritten = InputRecords
    BY DEF InputsWritten
  <2>7. /\ DOMAIN Joint(w1, Joint(w2, w3)) = V1 \X (V2 \X V3)
        /\ \A p \in V1 \X (V2 \X V3) :
             Joint(w1, Joint(w2, w3))[p] = w1[p[1]] \o (w2[p[2][1]] \o w3[p[2][2]])
    BY <2>3
  <2> HIDE DEF name
  <2> QED BY <2>4, <2>5, <2>6, <2>7 DEF Renames
<1>7. ReadInput(s, at) = Three(name, r, B, C)
  <2> DEFINE Y(x, y) == UNION {Got(name[<<x.v, <<y.v, z.v>>>>], z.at) : z \in C[y.at]}
             X(x) == UNION {Y(x, y) : y \in B[x.at]}
             Y1(x, y) == UNION {Got(Made(x.v, y.v, z.v), z.at) : z \in ReadNumber(s, y.at, W32)}
             X1(x) == UNION {Y1(x, y) : y \in ReadSized(s, x.at, MaxScript)}
  <2>1. ReadInput(s, at) = UNION {X1(x) : x \in r}
    BY DEF ReadInput, Then, PointTypes
  <2>2. Three(name, r, B, C) = UNION {X(x) : x \in r}
    BY DEF Three
  <2>3. ASSUME NEW x \in r PROVE X(x) = X1(x)
    <3>1. x.v \in V1 /\ x.at \in 0 .. n
      BY <1>2 DEF Exactly, Writer
    <3>2. B[x.at] = ReadSized(s, x.at, MaxScript)
      BY <3>1
    <3>3. \A y \in B[x.at] : y.v \in V2 /\ y.at \in 0 .. n
      BY <1>3, <3>1, <3>2 DEF Exactly, Writer
    <3>4. ASSUME NEW y \in B[x.at] PROVE Y(x, y) = Y1(x, y)
      <4>1. y.v \in V2 /\ y.at \in 0 .. n
        BY <3>3
      <4>2. C[y.at] = ReadNumber(s, y.at, W32)
        BY <4>1
      <4>3. \A z \in C[y.at] : z.v \in V3
        BY <1>4, <4>1, <4>2 DEF Exactly, Writer
      <4>4. ASSUME NEW z \in C[y.at] PROVE name[<<x.v, <<y.v, z.v>>>>] = Made(x.v, y.v, z.v)
        <5> DEFINE p == <<x.v, <<y.v, z.v>>>>
        <5>1. p \in V1 \X (V2 \X V3) /\ p[1] = x.v /\ p[2][1] = y.v /\ p[2][2] = z.v
          BY <3>1, <4>1, <4>3
        <5> HIDE DEF p
        <5>2. name[p] = Made(p[1], p[2][1], p[2][2])
          BY <5>1
        <5>3. name[p] = Made(x.v, y.v, z.v)
          BY <5>1, <5>2
        <5> QED BY <5>3 DEF p
      <4> HIDE DEF name, C, Made
      <4> QED BY <4>2, <4>4
    <3> HIDE DEF Y, Y1, B
    <3> QED BY <3>2, <3>4
  <2> HIDE DEF X, X1, r
  <2> QED BY <2>1, <2>2, <2>3
<1> HIDE DEF r, B, C, name, w1, w2, w3, V1, V2, V3
<1>8. Exactly(Three(name, r, B, C), s, at, InputsWritten)
  BY <1>2, <1>3, <1>4, <1>5, <1>6, ThreeExact
<1> QED BY <1>7, <1>8

\* What is written of a record is bytes.
LEMMA RecordsWritten ==
    Writer(InputsWritten, InputRecords) /\ Writer(OutputsWritten, OutputRecords)
<1>1. \A x, y \in Seq(Byte) : x \o y \in Seq(Byte)
  BY ConcatProperties
<1>2. W32 \in Nat /\ W64 \in Nat
  BY SizesAssumption
<1>3. ASSUME NEW in \in InputRecords PROVE InputBytes(in) \in Seq(Byte)
  <2> DEFINE a == Wire(in.txid)
             b == Number(in.index, W32)
             c == Sized(in.script)
             d == Number(in.sequence, W32)
  <2>1. /\ in.txid \in Strings(HashSize) /\ in.index \in Unsigned(W32)
        /\ in.script \in UpToSize(MaxScript) /\ in.sequence \in Unsigned(W32)
    BY DEF InputRecords
  <2>2. a \in Seq(Byte) /\ b \in Seq(Byte) /\ c \in Seq(Byte) /\ d \in Seq(Byte)
    BY <1>2, <2>1, PointsWritten, ScriptsWritten, NumbersWritten
  <2>3. InputBytes(in) = a \o b \o c \o d
    BY DEF InputBytes
  <2> HIDE DEF a, b, c, d
  <2> QED BY <1>1, <2>2, <2>3
<1>4. ASSUME NEW out \in OutputRecords PROVE OutputBytes(out) \in Seq(Byte)
  <2> DEFINE a == Number(out.value, W64)
             b == Sized(out.script)
  <2>1. out.value \in Signed(W64) /\ out.script \in UpToSize(MaxScript)
    BY DEF OutputRecords
  <2>2. a \in Seq(Byte) /\ b \in Seq(Byte)
    BY <1>2, <2>1, ScriptsWritten, NumbersWritten
  <2>3. OutputBytes(out) = a \o b
    BY DEF OutputBytes
  <2> HIDE DEF a, b
  <2> QED BY <1>1, <2>2, <2>3
<1> QED BY <1>3, <1>4 DEF Writer, InputsWritten, OutputsWritten

TransactionRecords ==
    [version : Signed(W32), inputs : Lists(InputRecords, MaxItems),
     outputs : Lists(OutputRecords, MaxItems), lockTime : Unsigned(W32)]

InputLists == ListWritten(InputsWritten, MaxItems)
OutputLists == ListWritten(OutputsWritten, MaxItems)

TransactionBytes(t) ==
    Number(t.version, W32) \o (InputLists[t.inputs] \o (OutputLists[t.outputs] \o Number(t.lockTime, W32)))
TransactionsWritten == [t \in TransactionRecords |-> TransactionBytes(t)]

\* The lists of inputs and of outputs are read from what is written of them.
LEMMA ListsExact ==
    /\ Writer(InputLists, Lists(InputRecords, MaxItems))
    /\ Writer(OutputLists, Lists(OutputRecords, MaxItems))
    /\ \A s \in Seq(Byte) : \A a \in 0 .. Len(s) :
          /\ Exactly(ReadList(s, a, MaxItems, ReadInput), s, a, InputLists)
          /\ Exactly(ReadList(s, a, MaxItems, ReadOutput), s, a, OutputLists)
<1>1. MaxItems \in Nat /\ MaxItems < Power(W64)
  BY SizesAssumption
<1>2. ASSUME NEW s \in Seq(Byte), NEW at \in 0 .. Len(s)
      PROVE  /\ Writer(InputLists, Lists(InputRecords, MaxItems))
             /\ Exactly(ReadList(s, at, MaxItems, ReadInput), s, at, InputLists)
  <2> DEFINE V == InputRecords
             w == InputsWritten
             F == [a \in 0 .. Len(s) |-> ReadInput(s, a)]
             list == ReadList(s, at, MaxItems, ReadInput)
  <2>1. Writer(w, V)
    BY RecordsWritten
  <2>2. Everywhere(F, s, w)
    BY InputExact DEF Everywhere
  <2>3. list = CountedList(ReadCompact(s, at), MaxItems, F)
    BY DEF ReadList, ReadMany, Then, Throw, CountedList
  <2> HIDE DEF V, w, F, list
  <2>4. /\ Writer(ListWritten(w, MaxItems), Lists(V, MaxItems))
        /\ Exactly(list, s, at, ListWritten(w, MaxItems))
    BY <1>1, <2>1, <2>2, <2>3, ListExact
  <2> QED BY <2>4 DEF InputLists, V, w, list
<1>3. ASSUME NEW s \in Seq(Byte), NEW at \in 0 .. Len(s)
      PROVE  /\ Writer(OutputLists, Lists(OutputRecords, MaxItems))
             /\ Exactly(ReadList(s, at, MaxItems, ReadOutput), s, at, OutputLists)
  <2> DEFINE V == OutputRecords
             w == OutputsWritten
             F == [a \in 0 .. Len(s) |-> ReadOutput(s, a)]
             list == ReadList(s, at, MaxItems, ReadOutput)
  <2>1. Writer(w, V)
    BY RecordsWritten
  <2>2. Everywhere(F, s, w)
    BY OutputExact DEF Everywhere
  <2>3. list = CountedList(ReadCompact(s, at), MaxItems, F)
    BY DEF ReadList, ReadMany, Then, Throw, CountedList
  <2> HIDE DEF V, w, F, list
  <2>4. /\ Writer(ListWritten(w, MaxItems), Lists(V, MaxItems))
        /\ Exactly(list, s, at, ListWritten(w, MaxItems))
    BY <1>1, <2>1, <2>2, <2>3, ListExact
  <2> QED BY <2>4 DEF OutputLists, V, w, list
<1> DEFINE none == <<>>
<1>4. none \in Seq(Byte) /\ 0 \in 0 .. Len(none)
  OBVIOUS
<1> HIDE DEF none
<1> QED BY <1>2, <1>3, <1>4

\* Strings stay strings when joined, and it does not matter which are joined first.
Joins(T) == \A x, y \in T : x \o y \in T
Regroups(T) == \A x, y, z \in T : (x \o y) \o z = x \o (y \o z)

\* The same of an operator that stands for the concatenation.
Cat(x, y) == x \o y
CatJoins(T) == \A x, y \in T : Cat(x, y) \in T
CatRegroups(T) == \A x, y, z \in T : Cat(Cat(x, y), z) = Cat(x, Cat(y, z))

\* How six strings are joined does not matter.
LEMMA CatRegrouped ==
    ASSUME NEW T, NEW a \in T, NEW b \in T, NEW c \in T, NEW d \in T,
           NEW e \in T, NEW f \in T, CatJoins(T), CatRegroups(T)
    PROVE  /\ Cat(a, Cat(Cat(b, c), Cat(Cat(d, e), f))) = Cat(Cat(Cat(Cat(Cat(a, b), c), d), e), f)
           /\ Cat(Cat(Cat(Cat(Cat(a, b), c), d), e), f) \in T
<1>1. Cat(b, c) \in T /\ Cat(a, b) \in T /\ Cat(e, f) \in T
  BY DEF CatJoins
<1>2. Cat(Cat(a, b), c) \in T /\ Cat(d, Cat(e, f)) \in T
  BY <1>1 DEF CatJoins
<1>3. Cat(Cat(Cat(a, b), c), d) \in T
  BY <1>2 DEF CatJoins
<1>4. Cat(Cat(Cat(Cat(a, b), c), d), e) \in T
  BY <1>3 DEF CatJoins
<1>5. Cat(Cat(Cat(Cat(Cat(a, b), c), d), e), f) \in T
  BY <1>4 DEF CatJoins
<1>6. Cat(Cat(d, e), f) = Cat(d, Cat(e, f))
  BY DEF CatRegroups
<1>7. Cat(a, Cat(Cat(b, c), Cat(d, Cat(e, f)))) = Cat(Cat(a, Cat(b, c)), Cat(d, Cat(e, f)))
  BY <1>1, <1>2 DEF CatRegroups
<1>8. Cat(a, Cat(b, c)) = Cat(Cat(a, b), c)
  BY DEF CatRegroups
<1>9. Cat(Cat(Cat(a, b), c), Cat(d, Cat(e, f))) = Cat(Cat(Cat(Cat(a, b), c), d), Cat(e, f))
  BY <1>1, <1>2 DEF CatRegroups
<1>10. Cat(Cat(Cat(Cat(a, b), c), d), Cat(e, f)) = Cat(Cat(Cat(Cat(Cat(a, b), c), d), e), f)
  BY <1>3 DEF CatRegroups
<1> QED BY <1>5, <1>6, <1>7, <1>8, <1>9, <1>10

\* How a transaction's six parts are joined does not matter.
LEMMA Regrouped ==
    ASSUME NEW T, NEW a \in T, NEW b \in T, NEW c \in T, NEW d \in T,
           NEW e \in T, NEW f \in T, Joins(T), Regroups(T)
    PROVE  /\ a \o ((b \o c) \o ((d \o e) \o f)) = a \o b \o c \o d \o e \o f
           /\ a \o b \o c \o d \o e \o f \in T
<1>1. CatJoins(T) /\ CatRegroups(T)
  BY Zenon DEF CatJoins, CatRegroups, Joins, Regroups, Cat
<1>2. /\ Cat(a, Cat(Cat(b, c), Cat(Cat(d, e), f))) = Cat(Cat(Cat(Cat(Cat(a, b), c), d), e), f)
      /\ Cat(Cat(Cat(Cat(Cat(a, b), c), d), e), f) \in T
  BY <1>1, CatRegrouped
<1> QED BY <1>2, Zenon DEF Cat

\* The code's writer writes a valid transaction so, and no other.
LEMMA TransactionWritten ==
    ASSUME NEW t \in TransactionRecords
    PROVE  /\ TransactionBytes(t) \in Seq(Byte)
           /\ WriteTransaction(t) = IF ValidTransaction(t) THEN {TransactionBytes(t)} ELSE {}
<1> DEFINE ins == t.inputs
           outs == t.outputs
           is == Images(InputsWritten, ins)
           os == Images(OutputsWritten, outs)
           a == Number(t.version, W32)
           b == Compact(Len(ins))
           c == Flat(is)
           d == Compact(Len(outs))
           e == Flat(os)
           f == Number(t.lockTime, W32)
<1>1. /\ t.version \in Signed(W32) /\ t.lockTime \in Unsigned(W32)
      /\ ins \in Lists(InputRecords, MaxItems) /\ outs \in Lists(OutputRecords, MaxItems)
  BY DEF TransactionRecords
<1>2. ins \in Seq(InputRecords) /\ outs \in Seq(OutputRecords)
  BY <1>1 DEF Lists
<1>3. DOMAIN InputsWritten = InputRecords /\ DOMAIN OutputsWritten = OutputRecords
  BY DEF InputsWritten, OutputsWritten
<1>4. InputLists[ins] = b \o c /\ OutputLists[outs] = d \o e
  BY <1>1, <1>3 DEF InputLists, OutputLists, ListWritten
<1>5. a \in Seq(Byte) /\ f \in Seq(Byte)
  <2>1. W32 \in Nat
    BY SizesAssumption
  <2> QED BY <1>1, <2>1, NumbersWritten
<1>6. /\ is \in Seq(Seq(Byte)) /\ Len(is) = Len(ins) /\ c \in Seq(Byte)
      /\ os \in Seq(Seq(Byte)) /\ Len(os) = Len(outs) /\ e \in Seq(Byte)
  BY <1>2, RecordsWritten, ImagesWritten
<1>7. b \in Seq(Byte) /\ d \in Seq(Byte)
  <2>1. MaxItems \in Nat /\ MaxItems < Power(W64) /\ Power(W64) \in Nat
    BY SizesAssumption, Widths
  <2>2. Len(ins) \in Nat /\ Len(ins) <= MaxItems /\ Len(outs) \in Nat /\ Len(outs) <= MaxItems
    <3>1. Len(ins) <= MaxItems /\ Len(outs) <= MaxItems
      BY <1>1 DEF Lists
    <3> QED BY <1>2, <3>1, LenProperties
  <2>3. Len(ins) \in Unsigned(W64) /\ Len(outs) \in Unsigned(W64)
    BY <2>1, <2>2 DEF Unsigned
  <2> QED BY <2>3, CompactForms
<1> DEFINE Input(in) == {Wire(in.txid) \o Number(in.index, W32) \o Sized(in.script)
                           \o Number(in.sequence, W32)}
           Output(out) == {Number(out.value, W64) \o Sized(out.script)}
           ip == [i \in 1 .. Len(ins) |-> Input(ins[i])]
           op == [i \in 1 .. Len(outs) |-> Output(outs[i])]
<1>8. Linked(ip) = {c} /\ Linked(op) = {e}
  <2>2. \A in \in InputRecords : Input(in) = {InputsWritten[in]}
    BY DEF InputsWritten, InputBytes
  <2>3. \A out \in OutputRecords : Output(out) = {OutputsWritten[out]}
    BY DEF OutputsWritten, OutputBytes
  <2> HIDE DEF Input, Output, ins, outs
  <2>4. /\ \A i \in 1 .. Len(ins) : ins[i] \in InputRecords /\ is[i] = InputsWritten[ins[i]]
        /\ \A i \in 1 .. Len(outs) : outs[i] \in OutputRecords /\ os[i] = OutputsWritten[outs[i]]
    BY <1>2, ElementOfSeq DEF Images
  <2>5. /\ \A i \in 1 .. Len(ins) : ip[i] = {is[i]}
        /\ \A i \in 1 .. Len(outs) : op[i] = {os[i]}
    BY <2>2, <2>3, <2>4
  <2>6. Len(ip) = Len(ins) /\ Len(op) = Len(outs)
    <3>1. Len(ins) \in Nat /\ Len(outs) \in Nat
      BY <1>2, LenProperties
    <3> DEFINE S == {ip[i] : i \in 1 .. Len(ins)}
               T == {op[i] : i \in 1 .. Len(outs)}
    <3>2. ip \in [1 .. Len(ins) -> S] /\ op \in [1 .. Len(outs) -> T]
      OBVIOUS
    <3> HIDE DEF ip, op, S, T
    <3> QED BY <3>1, <3>2, FunctionSeq
  <2> HIDE DEF ip, op, is, os
  <2>7. Linked(ip) = {Flat(is)} /\ Linked(op) = {Flat(os)}
    BY <1>6, <2>5, <2>6, LinkedFlat
  <2> QED BY <2>7
<1>9. WriteTransaction(t) =
        IF ~ValidTransaction(t) THEN {}
        ELSE {a \o b \o inputs \o d \o outputs \o f :
                inputs \in Linked(ip), outputs \in Linked(op)}
  BY DEF WriteTransaction, Throw, Joined
<1>10. TransactionBytes(t) = a \o ((b \o c) \o ((d \o e) \o f))
  BY <1>4 DEF TransactionBytes
<1> HIDE DEF a, b, c, d, e, f, Input, Output, ins, outs, is, os, ip, op
<1>11. /\ a \o ((b \o c) \o ((d \o e) \o f)) = a \o b \o c \o d \o e \o f
       /\ a \o b \o c \o d \o e \o f \in Seq(Byte)
  <2> DEFINE T == Seq(Byte)
  <2>1. Joins(T)
    BY ConcatProperties DEF Joins
  <2>2. Regroups(T)
    BY ConcatAssociative DEF Regroups
  <2>3. a \in T /\ b \in T /\ c \in T /\ d \in T /\ e \in T /\ f \in T
    BY <1>5, <1>6, <1>7
  <2> HIDE DEF T
  <2>4. /\ a \o ((b \o c) \o ((d \o e) \o f)) = a \o b \o c \o d \o e \o f
        /\ a \o b \o c \o d \o e \o f \in T
    BY <2>1, <2>2, <2>3, Regrouped
  <2> QED BY <2>4 DEF T
<1>12. {a \o b \o inputs \o d \o outputs \o f : inputs \in {c}, outputs \in {e}}
         = {a \o b \o c \o d \o e \o f}
  OBVIOUS
<1>13. TransactionBytes(t) = a \o b \o c \o d \o e \o f
  BY <1>10, <1>11
<1>14. WriteTransaction(t) = IF ~ValidTransaction(t) THEN {} ELSE {a \o b \o c \o d \o e \o f}
  <2> DEFINE Bytes(I, O) == {a \o b \o inputs \o d \o outputs \o f : inputs \in I, outputs \in O}
  <2>1. WriteTransaction(t) = IF ~ValidTransaction(t) THEN {} ELSE Bytes(Linked(ip), Linked(op))
    BY <1>9
  <2>2. Bytes({c}, {e}) = {a \o b \o c \o d \o e \o f}
    BY <1>12
  <2> HIDE DEF Bytes
  <2> QED BY <1>8, <2>1, <2>2
<1>15. TransactionBytes(t) \in Seq(Byte)
  BY <1>11, <1>13
<1> QED BY <1>13, <1>14, <1>15

\* What the fields of a transaction are read to, before it is validated.
ReadWhole(s) ==
    Then(ReadSigned(s, 0, W32), LAMBDA version, a :
      Then(ReadList(s, a, MaxItems, ReadInput), LAMBDA inputs, b :
        Then(ReadList(s, b, MaxItems, ReadOutput), LAMBDA outputs, c :
          Then(ReadNumber(s, c, W32), LAMBDA lockTime, d :
            Got([version |-> version, inputs |-> inputs, outputs |-> outputs,
                 lockTime |-> lockTime], d)))))

\* The fields of a transaction are read from what is written of them.
LEMMA WholeTransactionExact ==
    ASSUME NEW s \in Seq(Byte)
    PROVE  Exactly(ReadWhole(s), s, 0, TransactionsWritten)
<1> DEFINE n == Len(s)
           V1 == Signed(W32)
           V2 == Lists(InputRecords, MaxItems)
           V3 == Lists(OutputRecords, MaxItems)
           V4 == Unsigned(W32)
           w1 == SignedNumbers(W32)
           w2 == InputLists
           w3 == OutputLists
           w4 == Numbers(W32)
           ins(a) == ReadList(s, a, MaxItems, ReadInput)
           outs(a) == ReadList(s, a, MaxItems, ReadOutput)
           last(a) == ReadNumber(s, a, W32)
           r == ReadSigned(s, 0, W32)
           B == [a \in 0 .. n |-> ins(a)]
           C == [a \in 0 .. n |-> outs(a)]
           D == [a \in 0 .. n |-> last(a)]
           Made(version, inputs, outputs, lockTime) ==
               [version |-> version, inputs |-> inputs, outputs |-> outputs, lockTime |-> lockTime]
           name == [p \in V1 \X (V2 \X (V3 \X V4)) |-> Made(p[1], p[2][1], p[2][2][1], p[2][2][2])]
<1>1. W32 \in Nat /\ 0 \in 0 .. n
  BY SizesAssumption, LenProperties
<1>2. /\ Writer(w1, V1) /\ Exactly(r, s, 0, w1)
      /\ \A v \in V1 : w1[v] = Number(v, W32)
  BY <1>1, NumbersWritten, ReadSignedExact
<1>3. /\ Writer(w2, V2) /\ \A a \in 0 .. n : Exactly(ins(a), s, a, w2)
      /\ Writer(w3, V3) /\ \A a \in 0 .. n : Exactly(outs(a), s, a, w3)
  BY ListsExact
<1>4. /\ Writer(w4, V4) /\ \A a \in 0 .. n : Exactly(last(a), s, a, w4)
      /\ \A v \in V4 : w4[v] = Number(v, W32)
  BY <1>1, NumbersWritten, ReadNumberExact
<1>5. ReadWhole(s) =
        UNION {UNION {UNION {UNION {Got(Made(x.v, y.v, z.v, t.v), t.at) : t \in last(z.at)}
                             : z \in outs(y.at)} : y \in ins(x.at)} : x \in r}
  BY DEF ReadWhole, Then
<1> HIDE DEF ins, outs, last
<1>6. Everywhere(B, s, w2) /\ Everywhere(C, s, w3) /\ Everywhere(D, s, w4)
  BY <1>3, <1>4 DEF Everywhere
<1>7. Renames(name, Joint(w1, Joint(w2, Joint(w3, w4))), TransactionsWritten)
  <2>1. DOMAIN w1 = V1 /\ DOMAIN w2 = V2 /\ DOMAIN w3 = V3 /\ DOMAIN w4 = V4
    BY <1>2, <1>3, <1>4 DEF Writer
  <2> HIDE DEF V1, V2, V3, V4, w1, w2, w3, w4
  <2> DEFINE j == Joint(w3, w4)
             k == Joint(w2, j)
  <2>2. j = [p \in V3 \X V4 |-> w3[p[1]] \o w4[p[2]]]
    BY <2>1 DEF Joint
  <2>3. k = [p \in V2 \X (V3 \X V4) |-> w2[p[1]] \o (w3[p[2][1]] \o w4[p[2][2]])]
    <3>1. DOMAIN j = V3 \X V4
      BY <2>2
    <3> HIDE DEF j
    <3>2. k = [p \in V2 \X (V3 \X V4) |-> w2[p[1]] \o j[p[2]]]
      BY <2>1, <3>1 DEF Joint
    <3>3. \A p \in V2 \X (V3 \X V4) : j[p[2]] = w3[p[2][1]] \o w4[p[2][2]]
      BY <2>2
    <3> QED BY <3>2, <3>3
  <2>4. Joint(w1, k) = [p \in V1 \X (V2 \X (V3 \X V4)) |->
                          w1[p[1]] \o (w2[p[2][1]] \o (w3[p[2][2][1]] \o w4[p[2][2][2]]))]
    <3>1. DOMAIN k = V2 \X (V3 \X V4)
      BY <2>3
    <3> HIDE DEF k
    <3>2. Joint(w1, k) = [p \in V1 \X (V2 \X (V3 \X V4)) |-> w1[p[1]] \o k[p[2]]]
      BY <2>1, <3>1 DEF Joint
    <3>3. \A p \in V1 \X (V2 \X (V3 \X V4)) :
             k[p[2]] = w2[p[2][1]] \o (w3[p[2][2][1]] \o w4[p[2][2][2]])
      BY <2>3
    <3> QED BY <3>2, <3>3
  <2>5. ASSUME NEW p \in V1 \X (V2 \X (V3 \X V4))
        PROVE  /\ name[p] \in TransactionRecords
               /\ TransactionsWritten[name[p]] =
                    w1[p[1]] \o (w2[p[2][1]] \o (w3[p[2][2][1]] \o w4[p[2][2][2]]))
    <3> DEFINE a == p[1]
               b == p[2][1]
               c == p[2][2][1]
               d == p[2][2][2]
               t == name[p]
    <3>1. a \in V1 /\ b \in V2 /\ c \in V3 /\ d \in V4 /\ t = Made(a, b, c, d)
      OBVIOUS
    <3> HIDE DEF a, b, c, d, t
    <3>2. /\ t \in TransactionRecords
          /\ t.version = a /\ t.inputs = b /\ t.outputs = c /\ t.lockTime = d
      BY <3>1 DEF TransactionRecords, V1, V2, V3, V4
    <3>3. TransactionsWritten[t] = TransactionBytes(t)
      BY <3>2 DEF TransactionsWritten
    <3>4. TransactionBytes(t) = Number(a, W32) \o (w2[b] \o (w3[c] \o Number(d, W32)))
      BY <3>2 DEF TransactionBytes, w2, w3
    <3>5. w1[a] = Number(a, W32) /\ w4[d] = Number(d, W32)
      BY <1>2, <1>4, <3>1
    <3>6. TransactionsWritten[t] = w1[a] \o (w2[b] \o (w3[c] \o w4[d]))
      BY <3>3, <3>4, <3>5
    <3> QED BY <3>2, <3>6 DEF a, b, c, d, t
  <2>6. ASSUME NEW t \in TransactionRecords
        PROVE  \E p \in V1 \X (V2 \X (V3 \X V4)) : name[p] = t
    <3> DEFINE p == <<t.version, <<t.inputs, <<t.outputs, t.lockTime>>>>>>
    <3>1. /\ t.version \in V1 /\ t.inputs \in V2 /\ t.outputs \in V3 /\ t.lockTime \in V4
          /\ t = Made(t.version, t.inputs, t.outputs, t.lockTime)
      BY DEF TransactionRecords, V1, V2, V3, V4
    <3>2. /\ p \in V1 \X (V2 \X (V3 \X V4))
          /\ p[1] = t.version /\ p[2][1] = t.inputs /\ p[2][2][1] = t.outputs /\ p[2][2][2] = t.lockTime
      BY <3>1
    <3> HIDE DEF p
    <3>3. name[p] = Made(p[1], p[2][1], p[2][2][1], p[2][2][2])
      BY <3>2
    <3> HIDE DEF name
    <3>4. name[p] = t
      BY <3>1, <3>2, <3>3
    <3> QED BY <3>2, <3>4
  <2>7. DOMAIN TransactionsWritten = TransactionRecords
    BY DEF TransactionsWritten
  <2>8. /\ DOMAIN Joint(w1, k) = V1 \X (V2 \X (V3 \X V4))
        /\ \A p \in V1 \X (V2 \X (V3 \X V4)) :
             Joint(w1, k)[p] = w1[p[1]] \o (w2[p[2][1]] \o (w3[p[2][2][1]] \o w4[p[2][2][2]]))
    BY <2>4
  <2> HIDE DEF name, k
  <2>9. Renames(name, Joint(w1, k), TransactionsWritten)
    BY <2>5, <2>6, <2>7, <2>8 DEF Renames
  <2> QED BY <2>9 DEF k, j
<1>8. ReadWhole(s) = Four(name, r, B, C, D)
  <2> DEFINE Z(x, y, z) == UNION {Got(name[<<x.v, <<y.v, <<z.v, t.v>>>>>>], t.at) : t \in D[z.at]}
             Y(x, y) == UNION {Z(x, y, z) : z \in C[y.at]}
             X(x) == UNION {Y(x, y) : y \in B[x.at]}
             Z1(x, y, z) == UNION {Got(Made(x.v, y.v, z.v, t.v), t.at) : t \in last(z.at)}
             Y1(x, y) == UNION {Z1(x, y, z) : z \in outs(y.at)}
             X1(x) == UNION {Y1(x, y) : y \in ins(x.at)}
  <2>1. ReadWhole(s) = UNION {X1(x) : x \in r}
    BY <1>5
  <2>2. Four(name, r, B, C, D) = UNION {X(x) : x \in r}
    BY DEF Four
  <2>3. ASSUME NEW x \in r PROVE X(x) = X1(x)
    <3>1. x.v \in V1 /\ x.at \in 0 .. n
      BY <1>2 DEF Exactly, Writer
    <3>2. B[x.at] = ins(x.at)
      BY <3>1
    <3>3. \A y \in B[x.at] : y.v \in V2 /\ y.at \in 0 .. n
      BY <1>3, <3>1, <3>2 DEF Exactly, Writer
    <3>4. ASSUME NEW y \in B[x.at] PROVE Y(x, y) = Y1(x, y)
      <4>1. y.v \in V2 /\ y.at \in 0 .. n
        BY <3>3
      <4>2. C[y.at] = outs(y.at)
        BY <4>1
      <4>3. \A z \in C[y.at] : z.v \in V3 /\ z.at \in 0 .. n
        BY <1>3, <4>1, <4>2 DEF Exactly, Writer
      <4>4. ASSUME NEW z \in C[y.at] PROVE Z(x, y, z) = Z1(x, y, z)
        <5>1. z.v \in V3 /\ z.at \in 0 .. n
          BY <4>3
        <5>2. D[z.at] = last(z.at)
          BY <5>1
        <5>3. \A t \in D[z.at] : t.v \in V4
          BY <1>4, <5>1, <5>2 DEF Exactly, Writer
        <5>4. ASSUME NEW t \in D[z.at]
              PROVE  name[<<x.v, <<y.v, <<z.v, t.v>>>>>>] = Made(x.v, y.v, z.v, t.v)
          <6> DEFINE p == <<x.v, <<y.v, <<z.v, t.v>>>>>>
          <6>1. /\ p \in V1 \X (V2 \X (V3 \X V4))
                /\ p[1] = x.v /\ p[2][1] = y.v /\ p[2][2][1] = z.v /\ p[2][2][2] = t.v
            BY <3>1, <4>1, <5>1, <5>3
          <6> HIDE DEF p
          <6>2. name[p] = Made(p[1], p[2][1], p[2][2][1], p[2][2][2])
            BY <6>1
          <6>3. name[p] = Made(x.v, y.v, z.v, t.v)
            BY <6>1, <6>2
          <6> QED BY <6>3 DEF p
        <5> HIDE DEF name, D, Made
        <5> QED BY <5>2, <5>4
      <4> HIDE DEF Z, Z1, C
      <4> QED BY <4>2, <4>4
    <3> HIDE DEF Y, Y1, B
    <3> QED BY <3>2, <3>4
  <2> HIDE DEF X, X1, r
  <2> QED BY <2>1, <2>2, <2>3
<1> HIDE DEF r, B, C, D, name, w1, w2, w3, w4, V1, V2, V3, V4
<1>9. Exactly(Four(name, r, B, C, D), s, 0, TransactionsWritten)
  BY <1>1, <1>2, <1>3, <1>4, <1>6, <1>7, FourExact
<1> QED BY <1>8, <1>9

\* A transaction has one string and a string at most one transaction:
\* Transaction::serialize and Transaction::deserialize agree.  Every string, of
\* a peer, of a file or of a user, is read to the valid transactions that are
\* written as it and to nothing else, and what is written of a transaction is
\* read back to it alone; so its id stands for it.
THEOREM TransactionsAreExact ==
    /\ \A s \in Seq(Byte) :
          ReadTransaction(s) = {t \in TransactionRecords : s \in WriteTransaction(t)}
    /\ \A t \in TransactionRecords : \A s \in WriteTransaction(t) :
          s \in Seq(Byte) /\ ReadTransaction(s) = {t}
<1>1. Writer(TransactionsWritten, TransactionRecords)
  BY TransactionWritten DEF Writer, TransactionsWritten
<1>2. \A t \in TransactionRecords : TransactionsWritten[t] = TransactionBytes(t)
  BY DEF TransactionsWritten
<1>3. ASSUME NEW s \in Seq(Byte)
      PROVE  /\ Whole(s, ReadWhole(s)) = {t \in TransactionRecords : TransactionBytes(t) = s}
             /\ \A u, v \in TransactionRecords : TransactionBytes(u) = s /\ TransactionBytes(v) = s => u = v
  <2>1. Exactly(ReadWhole(s), s, 0, TransactionsWritten)
    BY WholeTransactionExact
  <2>2. /\ Whole(s, ReadWhole(s)) = {t \in TransactionRecords : TransactionsWritten[t] = s}
        /\ \A u, v \in TransactionRecords :
              TransactionsWritten[u] = s /\ TransactionsWritten[v] = s => u = v
    BY <1>1, <2>1, WholeExact
  <2> QED BY <1>2, <2>2
<1>4. ASSUME NEW s \in Seq(Byte)
      PROVE  ReadTransaction(s) = {t \in TransactionRecords : s \in WriteTransaction(t)}
  <2>1. ReadTransaction(s) = {t \in Whole(s, ReadWhole(s)) : ValidTransaction(t)}
    BY DEF ReadTransaction, ReadWhole
  <2>2. \A t \in TransactionRecords :
           s \in WriteTransaction(t) <=> (ValidTransaction(t) /\ TransactionBytes(t) = s)
    BY TransactionWritten
  <2> QED BY <1>3, <2>1, <2>2
<1>5. ASSUME NEW t \in TransactionRecords, NEW s \in WriteTransaction(t)
      PROVE  s \in Seq(Byte) /\ ReadTransaction(s) = {t}
  <2>1. s = TransactionBytes(t) /\ s \in Seq(Byte)
    BY TransactionWritten
  <2>2. ASSUME NEW u \in TransactionRecords, s \in WriteTransaction(u) PROVE u = t
    <3>1. TransactionBytes(u) = s
      BY <2>2, TransactionWritten
    <3> QED BY <1>3, <2>1, <3>1
  <2> QED BY <1>4, <2>1, <2>2
<1> QED BY <1>4, <1>5

\* The checksum of bytes is a byte.
LEMMA ChecksumByte ==
    ASSUME NEW payload \in Seq(Byte)
    PROVE  Checksum(payload) \in Seq(Byte) /\ Len(Checksum(payload)) = 1
<1> DEFINE N == Len(payload)
           More(k, p) == (p + payload[k]) % Base
           first == N % Base
           Step == [k \in 1 .. N |-> [p \in Byte |-> More(k, p)]]
           Fits(f) == f = [k \in 0 .. N |-> IF k = 0 THEN first ELSE More(k, f[k - 1])]
<1>1. N \in Nat /\ \A k \in 1 .. N : payload[k] \in Byte
  BY LenProperties, ElementOfSeq
<1>2. first \in Byte /\ \A k \in 1 .. N : \A p \in Byte : More(k, p) \in Byte
  <2>1. \A x \in Int : x % Base \in Byte
    BY Division DEF Byte
  <2>2. \A b \in Byte : b \in Int
    BY SizesAssumption DEF Byte
  <2>3. \A k \in 1 .. N : \A p \in Byte : p + payload[k] \in Int
    BY <1>1, <2>2
  <2> QED BY <1>1, <2>1, <2>3
<1> HIDE DEF N, More, first
<1>3. Step \in Steps(N, Byte)
  BY <1>2 DEF Steps
<1>4. \A k \in 1 .. N : \A p \in Byte : Step[k][p] = More(k, p)
  OBVIOUS
<1> HIDE DEF Step
<1>5. PICK f \in [0 .. N -> Byte] : Follows(f, N, first, Step)
  BY <1>1, <1>2, <1>3, Recursion
<1>6. Fits(f)
  <2>1. f = [k \in 0 .. N |-> f[k]]
    OBVIOUS
  <2>2. f[0] = first /\ \A k \in 1 .. N : f[k] = Step[k][f[k - 1]]
    BY <1>5 DEF Follows
  <2>3. \A k \in 1 .. N : k - 1 \in 0 .. N /\ f[k - 1] \in Byte
    BY <1>1
  <2>4. \A k \in 1 .. N : f[k] = More(k, f[k - 1])
    BY <1>4, <2>2, <2>3
  <2>5. \A k \in 0 .. N : f[k] = IF k = 0 THEN first ELSE More(k, f[k - 1])
    <3>1. \A k \in 0 .. N : k = 0 \/ k \in 1 .. N
      BY <1>1
    <3>2. \A k \in 1 .. N : k # 0
      BY <1>1
    <3> QED BY <2>2, <2>4, <3>1, <3>2
  <2> QED BY <2>1, <2>5
<1> DEFINE g == CHOOSE q : Fits(q)
<1>7. Checksum(payload) = <<g[N]>>
  BY DEF Checksum, N, More, first
<1>8. Fits(g)
  <2> HIDE DEF Fits
  <2> QED BY <1>6
<1>9. \A k \in 0 .. N : g[k] = IF k = 0 THEN first ELSE More(k, g[k - 1])
  BY <1>8
<1> HIDE DEF Fits, g
<1> DEFINE T == {k \in 0 .. N : g[k] \in Byte}
<1>10. 0 \in T
  BY <1>1, <1>2, <1>9
<1>11. \A k \in 1 .. N : k - 1 \in T => k \in T
  <2>1. \A k \in 1 .. N : k \in 0 .. N /\ k # 0
    BY <1>1
  <2> QED BY <1>2, <1>9, <2>1
<1> HIDE DEF T
<1>12. \A k \in 0 .. N : k \in T
  BY <1>1, <1>10, <1>11, UpTo
<1>13. g[N] \in Byte
  BY <1>1, <1>12 DEF T
<1> QED BY <1>7, <1>13

Commands == {c \in Seq(Byte) : ValidCommand(c)}
Padded(c) == [i \in 1 .. CommandSize |-> IF i <= Len(c) THEN c[i] ELSE 0]

\* A command fills its field up with zero bytes.
LEMMA PaddedFacts ==
    ASSUME NEW c \in Commands
    PROVE  /\ c \in Seq(Byte) /\ Len(c) \in 1 .. CommandSize
           /\ \A i \in 1 .. Len(c) : c[i] \in Byte /\ c[i] # 0
           /\ Padded(c) \in Seq(Byte) /\ Len(Padded(c)) = CommandSize
           /\ \A i \in 1 .. CommandSize : Padded(c)[i] = IF i <= Len(c) THEN c[i] ELSE 0
<1>1. CommandSize \in Nat /\ Printable \subseteq 1 .. (Base - 1) /\ Base \in Nat /\ Base > 4
  BY SizesAssumption
<1>2. c \in Seq(Byte) /\ Len(c) \in 1 .. CommandSize /\ \A i \in DOMAIN c : c[i] \in Printable
  BY DEF Commands, ValidCommand
<1>3. Len(c) \in Nat /\ DOMAIN c = 1 .. Len(c)
  BY <1>2, LenProperties
<1>4. \A i \in 1 .. Len(c) : c[i] \in Byte /\ c[i] # 0
  BY <1>1, <1>2, <1>3 DEF Byte
<1>5. Padded(c) \in [1 .. CommandSize -> Byte]
  <2>1. 0 \in Byte
    BY <1>1 DEF Byte
  <2>2. \A i \in 1 .. CommandSize : i <= Len(c) => i \in 1 .. Len(c)
    BY <1>1, <1>3
  <2> QED BY <1>4, <2>1, <2>2 DEF Padded
<1>6. Padded(c) \in Seq(Byte) /\ Len(Padded(c)) = CommandSize
  BY <1>1, <1>5, FunctionSeq
<1>7. \A i \in 1 .. CommandSize : Padded(c)[i] = IF i <= Len(c) THEN c[i] ELSE 0
  BY DEF Padded
<1> QED BY <1>2, <1>4, <1>6, <1>7

\* Commands padded to the same field are the same.
LEMMA PaddedOnce ==
    ASSUME NEW c \in Commands, NEW d \in Commands, Padded(c) = Padded(d)
    PROVE  c = d
<1>1. CommandSize \in Nat
  BY SizesAssumption
<1>2. /\ Len(c) \in 1 .. CommandSize /\ \A i \in 1 .. Len(c) : c[i] # 0
      /\ Len(d) \in 1 .. CommandSize /\ \A i \in 1 .. Len(d) : d[i] # 0
      /\ \A i \in 1 .. CommandSize : Padded(c)[i] = IF i <= Len(c) THEN c[i] ELSE 0
      /\ \A i \in 1 .. CommandSize : Padded(d)[i] = IF i <= Len(d) THEN d[i] ELSE 0
  BY PaddedFacts
<1>3. Len(c) = Len(d)
  <2>1. ~(Len(c) < Len(d))
    <3>1. Len(c) < Len(d) => Padded(c)[Len(d)] = 0 /\ Padded(d)[Len(d)] # 0
      BY <1>1, <1>2
    <3> QED BY <3>1
  <2>2. ~(Len(d) < Len(c))
    <3>1. Len(d) < Len(c) => Padded(d)[Len(c)] = 0 /\ Padded(c)[Len(c)] # 0
      BY <1>1, <1>2
    <3> QED BY <3>1
  <2> QED BY <1>1, <1>2, <2>1, <2>2
<1>4. \A i \in 1 .. Len(c) : c[i] = d[i]
  BY <1>1, <1>2, <1>3
<1> QED BY <1>3, <1>4, PaddedFacts, SeqEqual

\* What a command field is read to is the command that is padded to it.
LEMMA ReadCommandExact ==
    ASSUME NEW field \in Seq(Byte), Len(field) = CommandSize
    PROVE  ReadCommand(field) = {c \in Commands : Padded(c) = field}
<1>1. CommandSize \in Nat
  BY SizesAssumption
<1>2. \A n \in 1 .. CommandSize :
         /\ SubSeq(field, 1, n) \in Seq(Byte) /\ Len(SubSeq(field, 1, n)) = n
         /\ \A i \in 1 .. n : SubSeq(field, 1, n)[i] = field[i]
  <2> TAKE n \in 1 .. CommandSize
  <2>1. n \in Nat /\ 1 <= n /\ n <= Len(field) /\ \A i \in 1 .. n : field[i] \in Byte
    BY <1>1, ElementOfSeq
  <2>2. /\ SubSeq(field, 1, n) \in Seq(Byte) /\ Len(SubSeq(field, 1, n)) = n - 1 + 1
        /\ \A i \in 1 .. (n - 1 + 1) : SubSeq(field, 1, n)[i] = field[1 + i - 1]
    BY <2>1, SubSeqProperties
  <2> QED BY <2>1, <2>2
<1>3. ASSUME NEW c \in ReadCommand(field) PROVE c \in Commands /\ Padded(c) = field
  <2>1. PICK n \in 1 .. CommandSize : c = SubSeq(field, 1, n)
    BY <1>3 DEF ReadCommand
  <2>2. ValidCommand(c) /\ \A i \in Len(c) + 1 .. CommandSize : field[i] = 0
    BY <1>3 DEF ReadCommand
  <2>3. c \in Seq(Byte) /\ Len(c) = n /\ \A i \in 1 .. n : c[i] = field[i]
    BY <1>2, <2>1
  <2>4. c \in Commands
    BY <2>2, <2>3 DEF Commands
  <2>5. \A i \in 1 .. CommandSize : Padded(c)[i] = field[i]
    <3>1. \A i \in 1 .. CommandSize : i \in 1 .. n \/ i \in (n + 1) .. CommandSize
      BY <1>1
    <3>2. \A i \in (n + 1) .. CommandSize : ~(i <= Len(c)) /\ field[i] = 0
      BY <1>1, <2>2, <2>3
    <3>3. \A i \in 1 .. n : i <= Len(c) /\ c[i] = field[i]
      BY <1>1, <2>3
    <3> QED BY <2>4, <3>1, <3>2, <3>3, PaddedFacts
  <2> QED BY <2>4, <2>5, PaddedFacts, SeqEqual
<1>4. ASSUME NEW c \in Commands, Padded(c) = field PROVE c \in ReadCommand(field)
  <2> DEFINE n == Len(c)
             w == SubSeq(field, 1, n)
  <2>1. /\ c \in Seq(Byte) /\ n \in 1 .. CommandSize
        /\ \A i \in 1 .. CommandSize : field[i] = IF i <= n THEN c[i] ELSE 0
    BY <1>4, PaddedFacts
  <2>2. w \in Seq(Byte) /\ Len(w) = n /\ \A i \in 1 .. n : w[i] = field[i]
    BY <1>2, <2>1
  <2>3. \A i \in 1 .. n : i \in 1 .. CommandSize /\ i <= n
    BY <1>1, <2>1
  <2>4. \A i \in 1 .. Len(w) : w[i] = c[i]
    BY <2>1, <2>2, <2>3
  <2>5. w = c
    BY <2>1, <2>2, <2>4, SeqEqual
  <2>6. \A i \in n + 1 .. CommandSize : field[i] = 0
    <3>1. \A i \in n + 1 .. CommandSize : i \in 1 .. CommandSize /\ ~(i <= n)
      BY <1>1, <2>1
    <3> QED BY <2>1, <3>1
  <2>7. ValidCommand(c)
    BY DEF Commands
  <2> QED BY <2>1, <2>5, <2>6, <2>7 DEF ReadCommand
<1> QED BY <1>3, <1>4

\* The part of a string between two places is what stands there.
LEMMA PartStands ==
    ASSUME NEW s \in Seq(Byte), NEW at \in Nat, NEW n \in Nat, at + n <= Len(s)
    PROVE  /\ SubSeq(s, at + 1, at + n) \in Strings(n)
           /\ \A w \in Strings(n) : Stands(w, s, at) <=> w = SubSeq(s, at + 1, at + n)
<1> DEFINE part == SubSeq(s, at + 1, at + n)
<1>1. Len(s) \in Nat /\ \A i \in 1 .. n : at + i \in 1 .. Len(s) /\ s[at + i] \in Byte
  BY LenProperties, ElementOfSeq
<1>2. part \in Seq(Byte) /\ Len(part) = n /\ \A i \in 1 .. n : part[i] = s[at + i]
  <2>1. CASE n = 0
    <3>1. part = <<>>
      BY <1>1, <2>1
    <3> QED BY <2>1, <3>1
  <2>2. CASE n # 0
    <3>1. at + 1 \in 1 .. Len(s) + 1 /\ at + n \in 0 .. Len(s) /\ at + 1 <= at + n
      BY <1>1, <2>2
    <3>2. \A i \in at + 1 .. at + n : s[i] \in Byte
      BY <1>1, ElementOfSeq
    <3>3. /\ part \in Seq(Byte) /\ Len(part) = at + n - (at + 1) + 1
          /\ \A i \in 1 .. (at + n - (at + 1) + 1) : part[i] = s[at + 1 + i - 1]
      BY <3>1, <3>2, SubSeqProperties
    <3>4. at + n - (at + 1) + 1 = n /\ \A i \in 1 .. n : at + 1 + i - 1 = at + i
      OBVIOUS
    <3> QED BY <3>3, <3>4
  <2> QED BY <2>1, <2>2
<1> HIDE DEF part
<1>3. part \in Strings(n) /\ Stands(part, s, at)
  BY <1>2 DEF Strings, Stands
<1>4. ASSUME NEW w \in Strings(n) PROVE Stands(w, s, at) <=> w = part
  <2>1. w \in Seq(Byte) /\ Len(w) = n
    BY DEF Strings
  <2> QED BY <1>2, <1>3, <2>1, StandsSame
<1> QED BY <1>3, <1>4 DEF part

\* The announced command and size stand in the header after the network's bytes.
Announcing(header, c, n) ==
    /\ Stands(MessageStart, header, 0)
    /\ Stands(Padded(c), header, Len(MessageStart))
    /\ Stands(Number(n, W32), header, Len(MessageStart) + CommandSize)

Announcements == [command : Commands, length : 0 .. MaxPayload]

\* The sizes of a frame's parts.
LEMMA HeaderParts ==
    /\ Len(MessageStart) \in Nat /\ CommandSize \in Nat /\ W32 \in Nat /\ FrameHeader \in Nat
    /\ FrameHeader = Len(MessageStart) + CommandSize + W32 + 1
    /\ MessageStart \in Seq(Byte) /\ MessageStart \in Strings(Len(MessageStart))
    /\ MaxPayload \in Nat /\ MaxPayload < Power(W32)
<1>1. /\ MessageStart \in Seq(0 .. Base - 1) /\ CommandSize \in Nat /\ W32 \in Nat
      /\ MaxPayload \in Nat /\ MaxPayload < Power(W32)
  BY SizesAssumption
<1>2. MessageStart \in Seq(Byte)
  BY <1>1 DEF Byte
<1>3. Len(MessageStart) \in Nat
  BY <1>2, LenProperties
<1>4. FrameHeader \in Nat
  BY <1>1, <1>3 DEF FrameHeader
<1> QED BY <1>1, <1>2, <1>3, <1>4 DEF FrameHeader, Strings

\* What a header is read to announce is what stands in it.
LEMMA AnnouncesExact ==
    ASSUME NEW header \in Strings(FrameHeader)
    PROVE  Announces(header) = {h \in Announcements : Announcing(header, h.command, h.length)}
<1> DEFINE from == Len(MessageStart)
           after == from + CommandSize
           field == SubSeq(header, from + 1, after)
           sizes == ReadNumber(header, after, W32)
<1>1. /\ from \in Nat /\ CommandSize \in Nat /\ W32 \in Nat /\ FrameHeader = after + W32 + 1
      /\ MessageStart \in Strings(from) /\ MaxPayload \in Nat /\ MaxPayload < Power(W32)
  BY HeaderParts
<1>2. header \in Seq(Byte) /\ Len(header) = FrameHeader
  BY DEF Strings
<1>3. Stands(MessageStart, header, 0) <=> MessageStart = SubSeq(header, 1, from)
  <2>1. 0 \in Nat /\ 0 + from <= Len(header)
    BY <1>1, <1>2
  <2>2. \A w \in Strings(from) : Stands(w, header, 0) <=> w = SubSeq(header, 0 + 1, 0 + from)
    BY <1>1, <1>2, <2>1, PartStands
  <2> QED BY <1>1, <2>2
<1>4. field \in Strings(CommandSize) /\ \A w \in Strings(CommandSize) : Stands(w, header, from) <=> w = field
  <2>1. from + CommandSize <= Len(header)
    BY <1>1, <1>2
  <2> QED BY <1>1, <1>2, <2>1, PartStands
<1>5. ReadCommand(field) = {c \in Commands : Stands(Padded(c), header, from)}
  <2>1. field \in Seq(Byte) /\ Len(field) = CommandSize
    BY <1>4 DEF Strings
  <2>2. ReadCommand(field) = {c \in Commands : Padded(c) = field}
    BY <2>1, ReadCommandExact
  <2>3. \A c \in Commands : Padded(c) \in Strings(CommandSize)
    BY PaddedFacts DEF Strings
  <2> HIDE DEF field
  <2> QED BY <1>4, <2>2, <2>3
<1>6. Exactly(sizes, header, after, Numbers(W32))
  <2>1. after \in 0 .. Len(header)
    BY <1>1, <1>2
  <2> QED BY <1>1, <1>2, <2>1, ReadNumberExact
<1>7. \A n : (\E y \in sizes : y.v = n /\ n <= MaxPayload)
               <=> n \in 0 .. MaxPayload /\ Stands(Number(n, W32), header, after)
  <2> HIDE DEF sizes, after
  <2>0. Power(W32) \in Nat
    BY Widths
  <2>1. \A n \in Unsigned(W32) : n \in Nat /\ Numbers(W32)[n] = Number(n, W32)
    BY <2>0 DEF Numbers, Unsigned
  <2>2. DOMAIN Numbers(W32) = Unsigned(W32)
    BY DEF Numbers
  <2>3. \A y \in sizes : y.v \in Unsigned(W32) /\ Stands(Numbers(W32)[y.v], header, after)
    BY <1>6, <2>2 DEF Exactly
  <2>4. \A n \in 0 .. MaxPayload : n \in Unsigned(W32)
    BY <1>1, <2>0 DEF Unsigned
  <2>5. \A n \in Unsigned(W32) : Stands(Numbers(W32)[n], header, after)
                                   => [v |-> n, at |-> after + Len(Numbers(W32)[n])] \in sizes
    BY <1>6, <2>2 DEF Exactly, Got
  <2>6. ASSUME NEW n, NEW y \in sizes, y.v = n, n <= MaxPayload
        PROVE  n \in 0 .. MaxPayload /\ Stands(Number(n, W32), header, after)
    <3>1. n \in Unsigned(W32) /\ Stands(Numbers(W32)[n], header, after)
      BY <2>3, <2>6
    <3>2. n \in Nat /\ Numbers(W32)[n] = Number(n, W32)
      BY <2>1, <3>1
    <3>3. n \in 0 .. MaxPayload
      BY <1>1, <2>6, <3>2
    <3> QED BY <3>1, <3>2, <3>3
  <2>7. ASSUME NEW n \in 0 .. MaxPayload, Stands(Number(n, W32), header, after)
        PROVE  \E y \in sizes : y.v = n /\ n <= MaxPayload
    <3>1. Numbers(W32)[n] = Number(n, W32) /\ n \in Unsigned(W32)
      BY <2>1, <2>4
    <3>2. [v |-> n, at |-> after + Len(Numbers(W32)[n])] \in sizes
      BY <2>5, <2>7, <3>1
    <3>3. n <= MaxPayload
      BY <1>1
    <3> QED BY <3>2, <3>3
  <2> QED BY <2>6, <2>7
<1>8. Announces(header) =
        IF SubSeq(header, 1, from) # MessageStart THEN {}
        ELSE {[command |-> c, length |-> x.v] : c \in ReadCommand(field),
                                                x \in {y \in sizes : y.v <= MaxPayload}}
  BY DEF Announces, Throw
<1>9. \A h : h \in Announces(header) <=>
        /\ SubSeq(header, 1, from) = MessageStart
        /\ \E c \in ReadCommand(field) : \E y \in sizes :
              y.v <= MaxPayload /\ h = [command |-> c, length |-> y.v]
  <2> HIDE DEF from, field, sizes
  <2> QED BY <1>8
<1> HIDE DEF field, sizes
<1>10. ASSUME NEW h \in Announces(header)
       PROVE  h \in Announcements /\ Announcing(header, h.command, h.length)
  <2>1. PICK c \in ReadCommand(field) : \E y \in sizes :
              y.v <= MaxPayload /\ h = [command |-> c, length |-> y.v]
    BY <1>9
  <2>2. PICK y \in sizes : y.v <= MaxPayload /\ h = [command |-> c, length |-> y.v]
    BY <2>1
  <2>3. c \in Commands /\ Stands(Padded(c), header, from)
    BY <1>5
  <2>4. y.v \in 0 .. MaxPayload /\ Stands(Number(y.v, W32), header, after)
    BY <1>7, <2>2
  <2>5. h.command = c /\ h.length = y.v
    BY <2>2
  <2>6. Stands(MessageStart, header, 0)
    BY <1>3, <1>9
  <2>7. h \in Announcements
    BY <2>2, <2>3, <2>4 DEF Announcements
  <2> QED BY <2>3, <2>4, <2>5, <2>6, <2>7 DEF Announcing
<1>11. ASSUME NEW h \in Announcements, Announcing(header, h.command, h.length)
       PROVE  h \in Announces(header)
  <2>1. h.command \in Commands /\ h.length \in 0 .. MaxPayload /\ h = [command |-> h.command, length |-> h.length]
    BY DEF Announcements
  <2>2. /\ SubSeq(header, 1, from) = MessageStart
        /\ Stands(Padded(h.command), header, from)
        /\ Stands(Number(h.length, W32), header, after)
    BY <1>3, <1>11 DEF Announcing
  <2>3. h.command \in ReadCommand(field)
    BY <1>5, <2>1, <2>2
  <2>4. \E y \in sizes : y.v = h.length /\ h.length <= MaxPayload
    BY <1>7, <2>1, <2>2
  <2>5. PICK y \in sizes : y.v = h.length /\ h.length <= MaxPayload
    BY <2>4
  <2> QED BY <1>9, <2>1, <2>2, <2>3, <2>5
<1> QED BY <1>10, <1>11

\* A frame: its header, then its payload.
Messages == [command : Commands, payload : UpToSize(MaxPayload)]
HeadBytes(m) ==
    MessageStart \o Padded(m.command) \o Number(Len(m.payload), W32) \o Checksum(m.payload)
FrameBytes(m) == HeadBytes(m) \o m.payload
FramesWritten == [m \in Messages |-> FrameBytes(m)]

\* A message has one frame.
LEMMA FrameWritten ==
    ASSUME NEW m \in Messages
    PROVE  /\ m.command \in Commands /\ m.payload \in Seq(Byte) /\ Len(m.payload) \in 0 .. MaxPayload
           /\ WriteFrame(m) = {FrameBytes(m)}
<1>1. m.command \in Commands /\ m.payload \in UpToSize(MaxPayload)
  BY DEF Messages
<1>2. m.payload \in Seq(Byte) /\ Len(m.payload) <= MaxPayload
  BY <1>1 DEF UpToSize
<1>3. Len(m.payload) \in Nat /\ MaxPayload \in Nat
  BY <1>2, LenProperties, HeaderParts
<1>4. ValidCommand(m.command) /\ ~(Len(m.payload) > MaxPayload)
  BY <1>1, <1>2, <1>3 DEF Commands
<1>5. WriteFrame(m) = {FrameBytes(m)}
  BY <1>4 DEF WriteFrame, FrameBytes, HeadBytes, Padded
<1> QED BY <1>1, <1>2, <1>3, <1>5

\* The parts of a message's header stand in it, and where they stand it is.
LEMMA HeadStands ==
    ASSUME NEW m \in Messages
    PROVE  /\ HeadBytes(m) \in Strings(FrameHeader)
           /\ \A header \in Strings(FrameHeader) :
                 header = HeadBytes(m) <=>
                   /\ Announcing(header, m.command, Len(m.payload))
                   /\ header[FrameHeader] = Checksum(m.payload)[1]
<1> DEFINE start == MessageStart
           field == Padded(m.command)
           size == Number(Len(m.payload), W32)
           sum == Checksum(m.payload)
           from == Len(MessageStart)
<1>1. /\ from \in Nat /\ CommandSize \in Nat /\ W32 \in Nat /\ FrameHeader \in Nat
      /\ FrameHeader = from + CommandSize + W32 + 1
      /\ start \in Seq(Byte) /\ Len(start) = from
  BY HeaderParts
<1>2. field \in Seq(Byte) /\ Len(field) = CommandSize
  BY FrameWritten, PaddedFacts
<1>3. size \in Seq(Byte) /\ Len(size) = W32
  <2>1. Len(m.payload) \in Int
    BY FrameWritten, HeaderParts
  <2> QED BY <1>1, <2>1, NumberBytes
<1>4. sum \in Seq(Byte) /\ Len(sum) = 1
  BY FrameWritten, ChecksumByte
<1> DEFINE two == start \o field
           three == two \o size
<1>5. HeadBytes(m) = three \o sum
  BY DEF HeadBytes
<1>6. \A header, c, n : Announcing(header, c, n) <=>
        /\ Stands(start, header, 0)
        /\ Stands(Padded(c), header, from)
        /\ Stands(Number(n, W32), header, from + CommandSize)
  BY DEF Announcing
<1>7. \A header : Announcing(header, m.command, Len(m.payload)) <=>
        Stands(start, header, 0) /\ Stands(field, header, from) /\ Stands(size, header, from + CommandSize)
  BY <1>6
<1>8. Checksum(m.payload) = sum
  OBVIOUS
<1> HIDE DEF start, field, size, sum, from
<1>9. two \in Seq(Byte) /\ Len(two) = from + CommandSize
  BY <1>1, <1>2, StandsConcat
<1>a. ASSUME NEW s \in Seq(Byte), NEW at \in Nat
      PROVE  Stands(two, s, at) <=> Stands(start, s, at) /\ Stands(field, s, at + from)
  BY <1>1, <1>2, StandsConcat
<1> HIDE DEF two
<1>10. three \in Seq(Byte) /\ Len(three) = from + CommandSize + W32
  <2>1. 0 \in Nat
    OBVIOUS
  <2>2. three \in Seq(Byte) /\ Len(three) = Len(two) + Len(size)
    BY <1>3, <1>9, <2>1, StandsConcat
  <2> HIDE DEF three
  <2> QED BY <1>1, <1>3, <1>9, <2>2
<1>b. ASSUME NEW s \in Seq(Byte), NEW at \in Nat
      PROVE  Stands(three, s, at) <=> Stands(two, s, at) /\ Stands(size, s, at + (from + CommandSize))
  BY <1>1, <1>3, <1>9, StandsConcat
<1> HIDE DEF three
<1>11. HeadBytes(m) \in Seq(Byte) /\ Len(HeadBytes(m)) = FrameHeader
  <2>1. 0 \in Nat
    OBVIOUS
  <2>2. three \o sum \in Seq(Byte) /\ Len(three \o sum) = Len(three) + Len(sum)
    BY <1>4, <1>10, <2>1, StandsConcat
  <2> QED BY <1>1, <1>4, <1>5, <1>10, <2>2
<1>12. ASSUME NEW header \in Strings(FrameHeader)
       PROVE  header = HeadBytes(m) <=>
                /\ Announcing(header, m.command, Len(m.payload))
                /\ header[FrameHeader] = sum[1]
  <2>1. header \in Seq(Byte) /\ Len(header) = FrameHeader
    BY DEF Strings
  <2>2. header = HeadBytes(m) <=> Stands(HeadBytes(m), header, 0)
    BY <1>11, <2>1, StandsWhole, WholeStands
  <2>3. Stands(HeadBytes(m), header, 0) <=>
          Stands(three, header, 0) /\ Stands(sum, header, 0 + (from + CommandSize + W32))
    BY <1>4, <1>5, <1>10, <2>1, StandsConcat
  <2>4. Stands(three, header, 0) <=>
          Stands(two, header, 0) /\ Stands(size, header, 0 + (from + CommandSize))
    BY <1>b, <2>1
  <2>5. Stands(two, header, 0) <=> Stands(start, header, 0) /\ Stands(field, header, 0 + from)
    BY <1>a, <2>1
  <2>6. Stands(sum, header, 0 + (from + CommandSize + W32)) <=> header[FrameHeader] = sum[1]
    BY <1>1, <1>4, <2>1 DEF Stands
  <2>7. 0 + (from + CommandSize) = from + CommandSize /\ 0 + from = from
    BY <1>1
  <2> QED BY <1>7, <2>2, <2>3, <2>4, <2>5, <2>6, <2>7
<1> QED BY <1>8, <1>11, <1>12 DEF Strings

\* A payload of the announced size and with its checksum makes the message.
LEMMA ReadFrameExact ==
    ASSUME NEW header \in Strings(FrameHeader), NEW payload \in Seq(Byte), Len(payload) <= MaxPayload
    PROVE  ReadFrame(header \o payload) =
             {m \in Messages : m.payload = payload /\ header = HeadBytes(m)}
<1> DEFINE frame == header \o payload
<1>1. FrameHeader \in Nat /\ FrameHeader > 0
  BY HeaderParts
<1>2. header \in Seq(Byte) /\ Len(header) = FrameHeader
  BY DEF Strings
<1>3. /\ frame \in Seq(Byte) /\ Len(frame) = FrameHeader + Len(payload)
      /\ Stands(header, frame, 0) /\ Stands(payload, frame, FrameHeader)
  <2>1. /\ frame \in Seq(Byte) /\ Len(frame) = Len(header) + Len(payload)
        /\ (Stands(frame, frame, 0) <=> Stands(header, frame, 0) /\ Stands(payload, frame, 0 + Len(header)))
    BY <1>2, StandsConcat
  <2>2. Stands(frame, frame, 0)
    BY <2>1, WholeStands
  <2>3. 0 + Len(header) = FrameHeader
    BY <1>1, <1>2
  <2> QED BY <1>2, <2>1, <2>2, <2>3
<1>4. Len(payload) \in Nat
  BY LenProperties
<1> HIDE DEF frame
<1>5. SubSeq(frame, 1, FrameHeader) = header
  <2>1. 0 \in Nat /\ 0 + FrameHeader <= Len(frame)
    BY <1>1, <1>3, <1>4
  <2>2. \A w \in Strings(FrameHeader) : Stands(w, frame, 0) <=> w = SubSeq(frame, 0 + 1, 0 + FrameHeader)
    BY <1>1, <1>3, <2>1, PartStands
  <2>3. 0 + 1 = 1 /\ 0 + FrameHeader = FrameHeader
    BY <1>1
  <2> QED BY <1>3, <2>2, <2>3
<1>6. SubSeq(frame, FrameHeader + 1, Len(frame)) = payload
  <2>1. payload \in Strings(Len(payload))
    BY DEF Strings
  <2> DEFINE n == Len(payload)
  <2>2. n \in Nat /\ FrameHeader + n = Len(frame)
    BY <1>3, <1>4
  <2>3. payload \in Strings(n)
    BY <2>1
  <2> HIDE DEF n
  <2>4. \A w \in Strings(n) : Stands(w, frame, FrameHeader) <=> w = SubSeq(frame, FrameHeader + 1, FrameHeader + n)
    <3>1. FrameHeader \in Nat /\ FrameHeader + n <= Len(frame)
      BY <1>1, <2>2
    <3> QED BY <1>3, <2>2, <3>1, PartStands
  <2> QED BY <1>3, <2>2, <2>3, <2>4
<1>7. frame[FrameHeader] = header[FrameHeader]
  BY <1>1, <1>2, <1>3 DEF Stands
<1>8. ~(Len(frame) < FrameHeader)
  BY <1>1, <1>3, <1>4
<1>9. ReadFrame(frame) = {[command |-> h.command, payload |-> payload] :
          h \in {g \in Announces(header) : Len(payload) = g.length
                                           /\ header[FrameHeader] = Checksum(payload)[1]}}
  BY <1>5, <1>6, <1>7, <1>8 DEF ReadFrame
<1>10. ASSUME NEW m \in ReadFrame(frame)
       PROVE  m \in Messages /\ m.payload = payload /\ header = HeadBytes(m)
  <2>1. PICK h \in Announces(header) : /\ Len(payload) = h.length /\ header[FrameHeader] = Checksum(payload)[1]
                                       /\ m = [command |-> h.command, payload |-> payload]
    BY <1>9
  <2>2. h \in Announcements /\ Announcing(header, h.command, h.length)
    BY AnnouncesExact
  <2>3. m.command = h.command /\ m.payload = payload /\ h.command \in Commands
    BY <2>1, <2>2 DEF Announcements
  <2>4. m \in Messages
    BY <2>1, <2>3 DEF Messages, UpToSize
  <2>5. Announcing(header, m.command, Len(m.payload)) /\ header[FrameHeader] = Checksum(m.payload)[1]
    BY <2>1, <2>2, <2>3
  <2> QED BY <2>3, <2>4, <2>5, HeadStands
<1>11. ASSUME NEW m \in Messages, m.payload = payload, header = HeadBytes(m)
       PROVE  m \in ReadFrame(frame)
  <2> DEFINE h == [command |-> m.command, length |-> Len(payload)]
  <2>1. Announcing(header, m.command, Len(payload)) /\ header[FrameHeader] = Checksum(payload)[1]
    BY <1>11, HeadStands
  <2>2. m.command \in Commands /\ Len(payload) \in 0 .. MaxPayload
    BY <1>11, FrameWritten
  <2>3. h \in Announcements /\ h.command = m.command /\ h.length = Len(payload)
    BY <2>2 DEF Announcements
  <2>4. m = [command |-> m.command, payload |-> payload]
    BY <1>11 DEF Messages
  <2> HIDE DEF h
  <2>5. h \in Announces(header)
    BY <2>1, <2>3, AnnouncesExact
  <2> QED BY <1>9, <2>1, <2>3, <2>4, <2>5
<1> QED BY <1>10, <1>11 DEF frame

\* What a header and what follows it are received as.
Body(stream, x, h) == ReadBytes(stream, x.at, h.length)
Received(x, y) == ReadFrame(x.v \o y.v)

\* A message is received from a header, what it announces and the bytes after
\* it.
LEMMA ReceiveItem ==
    ASSUME NEW stream, NEW at, NEW z
    PROVE  z \in ReceiveMessage(stream, at) <=>
             \E x \in ReadBytes(stream, at, FrameHeader) :
               \E h \in Announces(x.v) :
                 \E y \in Body(stream, x, h) :
                   \E m \in Received(x, y) : z = [v |-> m, at |-> y.at]
<1> DEFINE R == ReadBytes(stream, at, FrameHeader)
           M(x, y) == UNION {Got(m, y.at) : m \in Received(x, y)}
           H(x, h) == UNION {M(x, y) : y \in Body(stream, x, h)}
           X(x) == UNION {H(x, h) : h \in Announces(x.v)}
<1>1. ReceiveMessage(stream, at) = UNION {X(x) : x \in R}
  BY DEF ReceiveMessage, Then, Body, Received
<1>2. \A x, y : z \in M(x, y) <=> \E m \in Received(x, y) : z = [v |-> m, at |-> y.at]
  <2> TAKE x, y
  <2> DEFINE S == Received(x, y)
             a == y.at
  <2> HIDE DEF S, a
  <2>1. z \in UNION {Got(m, a) : m \in S} <=> \E m \in S : z = [v |-> m, at |-> a]
    BY DEF Got
  <2> QED BY <2>1 DEF S, a
<1> HIDE DEF M
<1>3. \A x, h : z \in H(x, h) <=> \E y \in Body(stream, x, h) : z \in M(x, y)
  <2> TAKE x, h
  <2> DEFINE S == Body(stream, x, h)
  <2> HIDE DEF S
  <2>1. z \in UNION {M(x, y) : y \in S} <=> \E y \in S : z \in M(x, y)
    OBVIOUS
  <2> QED BY <2>1 DEF S
<1> HIDE DEF H
<1>4. \A x : z \in X(x) <=> \E h \in Announces(x.v) : z \in H(x, h)
  <2> TAKE x
  <2> DEFINE S == Announces(x.v)
  <2> HIDE DEF S
  <2>1. z \in UNION {H(x, h) : h \in S} <=> \E h \in S : z \in H(x, h)
    OBVIOUS
  <2> QED BY <2>1 DEF S
<1> HIDE DEF X, R
<1>5. z \in ReceiveMessage(stream, at) <=> \E x \in R : z \in X(x)
  BY <1>1
<1> QED BY <1>2, <1>3, <1>4, <1>5 DEF R

\* What stands in a stream is what is read of it.
LEMMA StandingIsRead ==
    ASSUME NEW s \in Seq(Byte), NEW at \in 0 .. Len(s), NEW n \in Nat
    PROVE  /\ \A x \in ReadBytes(s, at, n) :
                 x.v \in Strings(n) /\ Stands(x.v, s, at) /\ x.at = at + n /\ x.at \in 0 .. Len(s)
           /\ \A w \in Strings(n) : Stands(w, s, at) => ReadBytes(s, at, n) = Got(w, at + n)
<1>1. Exactly(ReadBytes(s, at, n), s, at, AsIs(n))
  BY ReadBytesExact
<1>2. DOMAIN AsIs(n) = Strings(n) /\ \A w \in Strings(n) : AsIs(n)[w] = w /\ Len(w) = n
  BY DEF AsIs, Strings
<1> QED BY <1>1, <1>2 DEF Exactly

\* Two messages whose frames start alike at a place are the same.
LEMMA OneFrame ==
    ASSUME NEW k \in Messages, NEW m \in Messages, HeadBytes(k) = HeadBytes(m)
    PROVE  k.command = m.command /\ Len(k.payload) = Len(m.payload)
<1> DEFINE header == HeadBytes(m)
<1>1. /\ header \in Strings(FrameHeader)
      /\ Announcing(header, m.command, Len(m.payload)) /\ Announcing(header, k.command, Len(k.payload))
  BY HeadStands
<1>2. /\ header \in Seq(Byte) /\ Len(MessageStart) \in Nat /\ Len(MessageStart) + CommandSize \in Nat
      /\ MaxPayload \in Nat /\ MaxPayload < Power(W32) /\ W32 \in Nat
  BY <1>1, HeaderParts DEF Strings
<1>3. /\ k.command \in Commands /\ m.command \in Commands
      /\ Len(k.payload) \in 0 .. MaxPayload /\ Len(m.payload) \in 0 .. MaxPayload
  BY FrameWritten
<1> HIDE DEF header
<1>4. Padded(k.command) = Padded(m.command)
  BY <1>1, <1>2, <1>3, PaddedFacts, StandsSame DEF Announcing
<1>5. Number(Len(k.payload), W32) = Number(Len(m.payload), W32)
  <2>1. \A n \in 0 .. MaxPayload : Number(n, W32) \in Seq(Byte) /\ Len(Number(n, W32)) = W32
    BY <1>2, NumberBytes
  <2> QED BY <1>1, <1>2, <1>3, <2>1, StandsSame DEF Announcing
<1>6. \A n \in 0 .. MaxPayload : Value(Number(n, W32)) = n
  <2> TAKE n \in 0 .. MaxPayload
  <2>1. Power(W32) \in Nat
    BY Widths
  <2>2. n \in Int /\ -Power(W32) <= n /\ n < Power(W32) /\ ~(n < 0)
    BY <1>2, <2>1
  <2> QED BY <1>2, <2>2, ValueOfNumber
<1>7. Len(k.payload) = Len(m.payload)
  BY <1>3, <1>5, <1>6
<1> QED BY <1>3, <1>4, <1>7, PaddedOnce

\* The message received at a place of a stream is the one whose frame stands
\* there.
LEMMA ReceivedStands ==
    ASSUME NEW stream \in Seq(Byte), NEW at \in 0 .. Len(stream),
           NEW z \in ReceiveMessage(stream, at)
    PROVE  /\ z.v \in Messages /\ Stands(HeadBytes(z.v), stream, at)
           /\ Stands(z.v.payload, stream, at + FrameHeader)
           /\ z = [v |-> z.v, at |-> at + FrameHeader + Len(z.v.payload)]
<1>1. PICK x \in ReadBytes(stream, at, FrameHeader) :
        \E h \in Announces(x.v) : \E y \in Body(stream, x, h) : \E m \in Received(x, y) :
          z = [v |-> m, at |-> y.at]
  BY ReceiveItem
<1>2. PICK h \in Announces(x.v) : \E y \in Body(stream, x, h) : \E m \in Received(x, y) :
          z = [v |-> m, at |-> y.at]
  BY <1>1
<1>3. PICK y \in Body(stream, x, h) : \E m \in Received(x, y) : z = [v |-> m, at |-> y.at]
  BY <1>2
<1>4. PICK m \in Received(x, y) : z = [v |-> m, at |-> y.at]
  BY <1>3
<1>5. FrameHeader \in Nat /\ MaxPayload \in Nat
  BY HeaderParts
<1>6. /\ x.v \in Strings(FrameHeader) /\ Stands(x.v, stream, at)
      /\ x.at = at + FrameHeader /\ x.at \in 0 .. Len(stream)
  BY <1>5, StandingIsRead
<1>7. h.length \in 0 .. MaxPayload
  BY <1>6, AnnouncesExact DEF Announcements
<1>8. /\ y.v \in Strings(h.length) /\ Stands(y.v, stream, x.at) /\ y.at = x.at + h.length
  <2>1. h.length \in Nat /\ y \in ReadBytes(stream, x.at, h.length)
    BY <1>5, <1>7 DEF Body
  <2> QED BY <1>6, <2>1, StandingIsRead
<1>9. y.v \in Seq(Byte) /\ Len(y.v) = h.length /\ Len(y.v) <= MaxPayload
  BY <1>5, <1>7, <1>8 DEF Strings
<1>10. m \in Messages /\ m.payload = y.v /\ x.v = HeadBytes(m)
  BY <1>6, <1>9, ReadFrameExact DEF Received
<1>11. z.v = m /\ z.at = y.at
  BY <1>4
<1> QED BY <1>4, <1>6, <1>8, <1>9, <1>10, <1>11

\* A message whose frame stands at a place of a stream is received there.
LEMMA StandingIsReceived ==
    ASSUME NEW stream \in Seq(Byte), NEW at \in 0 .. Len(stream), NEW m \in Messages,
           Stands(HeadBytes(m), stream, at), Stands(m.payload, stream, at + FrameHeader)
    PROVE  [v |-> m, at |-> at + FrameHeader + Len(m.payload)] \in ReceiveMessage(stream, at)
<1> DEFINE x == [v |-> HeadBytes(m), at |-> at + FrameHeader]
           h == [command |-> m.command, length |-> Len(m.payload)]
           y == [v |-> m.payload, at |-> at + FrameHeader + Len(m.payload)]
<1>1. FrameHeader \in Nat /\ MaxPayload \in Nat
  BY HeaderParts
<1>2. /\ m.command \in Commands /\ m.payload \in Seq(Byte) /\ Len(m.payload) \in 0 .. MaxPayload
      /\ HeadBytes(m) \in Strings(FrameHeader) /\ Announcing(HeadBytes(m), m.command, Len(m.payload))
  BY FrameWritten, HeadStands
<1>3. x \in ReadBytes(stream, at, FrameHeader)
  <2>1. ReadBytes(stream, at, FrameHeader) = Got(HeadBytes(m), at + FrameHeader)
    BY <1>1, <1>2, StandingIsRead
  <2> QED BY <2>1 DEF Got
<1>4. h \in Announces(x.v)
  <2>1. h \in Announcements /\ h.command = m.command /\ h.length = Len(m.payload)
    BY <1>2 DEF Announcements
  <2>2. x.v = HeadBytes(m)
    OBVIOUS
  <2> HIDE DEF h, x
  <2> QED BY <1>2, <2>1, <2>2, AnnouncesExact
<1>5. y \in Body(stream, x, h)
  <2>1. at + FrameHeader \in 0 .. Len(stream)
    <3>1. Len(HeadBytes(m)) = FrameHeader /\ Len(stream) \in Nat
      BY <1>2, LenProperties DEF Strings
    <3>2. at + FrameHeader <= Len(stream)
      BY <3>1 DEF Stands
    <3> QED BY <1>1, <3>1, <3>2
  <2>2. Len(m.payload) \in Nat /\ m.payload \in Strings(Len(m.payload))
    BY <1>1, <1>2 DEF Strings
  <2>3. ReadBytes(stream, at + FrameHeader, Len(m.payload)) = Got(m.payload, at + FrameHeader + Len(m.payload))
    BY <2>1, <2>2, StandingIsRead
  <2> QED BY <2>3 DEF Got, Body
<1>6. m \in Received(x, y)
  <2>1. ReadFrame(HeadBytes(m) \o m.payload) =
          {k \in Messages : k.payload = m.payload /\ HeadBytes(m) = HeadBytes(k)}
    BY <1>1, <1>2, ReadFrameExact
  <2> QED BY <2>1 DEF Received
<1> DEFINE z == [v |-> m, at |-> y.at]
<1>7. z = [v |-> m, at |-> at + FrameHeader + Len(m.payload)]
  OBVIOUS
<1>8. z = [v |-> m, at |-> y.at]
  OBVIOUS
<1> HIDE DEF x, h, y, z
<1>9. z \in ReceiveMessage(stream, at)
  BY <1>3, <1>4, <1>5, <1>6, <1>8, ReceiveItem
<1> QED BY <1>7, <1>9

\* Messages arrive whole and within their bounds: wherever the frame that
\* encode_p2p_frame makes of a message stands in a stream, receive_message takes
\* that message and stops at the frame's end; and whatever it takes, at any
\* place of any stream, is a message whose frame stands there: of this network,
\* with a valid command, within the payload limit and with its checksum.
THEOREM FramesAreExact ==
    \A stream \in Seq(Byte) : \A at \in 0 .. Len(stream) :
       /\ \A m \in Messages : \A frame \in WriteFrame(m) :
             Stands(frame, stream, at) => ReceiveMessage(stream, at) = Got(m, at + Len(frame))
       /\ \A x \in ReceiveMessage(stream, at) :
             /\ x.v \in Messages
             /\ \E frame \in WriteFrame(x.v) : Stands(frame, stream, at) /\ x.at = at + Len(frame)
<1> TAKE stream \in Seq(Byte)
<1> TAKE at \in 0 .. Len(stream)
<1>1. FrameHeader \in Nat /\ at \in Nat
  BY HeaderParts, LenProperties
<1>2. ASSUME NEW m \in Messages
      PROVE  /\ WriteFrame(m) = {FrameBytes(m)}
             /\ Len(FrameBytes(m)) = FrameHeader + Len(m.payload) /\ Len(m.payload) \in Nat
             /\ Stands(FrameBytes(m), stream, at) <=>
                  Stands(HeadBytes(m), stream, at) /\ Stands(m.payload, stream, at + FrameHeader)
  <2>1. HeadBytes(m) \in Seq(Byte) /\ Len(HeadBytes(m)) = FrameHeader /\ m.payload \in Seq(Byte)
    BY HeadStands, FrameWritten DEF Strings
  <2>2. FrameBytes(m) = HeadBytes(m) \o m.payload
    BY DEF FrameBytes
  <2> DEFINE head == HeadBytes(m)
             body == m.payload
  <2> HIDE DEF head, body
  <2>3. /\ Len(head \o body) = Len(head) + Len(body)
        /\ Stands(head \o body, stream, at) <=>
             Stands(head, stream, at) /\ Stands(body, stream, at + Len(head))
    <3>1. at \in Nat /\ head \in Seq(Byte) /\ body \in Seq(Byte)
      BY <2>1 DEF head, body
    <3> QED BY <3>1, StandsConcat
  <2>4. Len(m.payload) \in Nat
    BY <2>1, LenProperties
  <2>5. WriteFrame(m) = {FrameBytes(m)}
    BY FrameWritten
  <2> QED BY <2>1, <2>2, <2>3, <2>4, <2>5 DEF head, body
<1>3. ASSUME NEW x \in ReceiveMessage(stream, at)
      PROVE  /\ x.v \in Messages
             /\ \E frame \in WriteFrame(x.v) : Stands(frame, stream, at) /\ x.at = at + Len(frame)
  <2>1. /\ x.v \in Messages /\ Stands(HeadBytes(x.v), stream, at)
        /\ Stands(x.v.payload, stream, at + FrameHeader)
        /\ x = [v |-> x.v, at |-> at + FrameHeader + Len(x.v.payload)]
    BY ReceivedStands
  <2>2. x.at = at + FrameHeader + Len(x.v.payload)
    BY <2>1
  <2>3. FrameBytes(x.v) \in WriteFrame(x.v) /\ Stands(FrameBytes(x.v), stream, at)
    BY <1>2, <2>1
  <2>4. x.at = at + Len(FrameBytes(x.v))
    BY <1>1, <1>2, <2>1, <2>2
  <2> QED BY <2>1, <2>3, <2>4
<1>4. ASSUME NEW m \in Messages, NEW frame \in WriteFrame(m), Stands(frame, stream, at)
      PROVE  ReceiveMessage(stream, at) = Got(m, at + Len(frame))
  <2> DEFINE z == [v |-> m, at |-> at + FrameHeader + Len(m.payload)]
  <2>1. /\ Len(frame) = FrameHeader + Len(m.payload) /\ Len(m.payload) \in Nat
        /\ Stands(HeadBytes(m), stream, at) /\ Stands(m.payload, stream, at + FrameHeader)
    BY <1>2, <1>4
  <2>2. z \in ReceiveMessage(stream, at)
    BY <2>1, StandingIsReceived
  <2>3. ASSUME NEW x \in ReceiveMessage(stream, at) PROVE x = z
    <3>1. /\ x.v \in Messages /\ Stands(HeadBytes(x.v), stream, at)
          /\ Stands(x.v.payload, stream, at + FrameHeader)
          /\ x = [v |-> x.v, at |-> at + FrameHeader + Len(x.v.payload)]
      BY ReceivedStands
    <3> DEFINE k == x.v
    <3>2. HeadBytes(k) = HeadBytes(m)
      <4>1. /\ HeadBytes(k) \in Seq(Byte) /\ Len(HeadBytes(k)) = FrameHeader
            /\ HeadBytes(m) \in Seq(Byte) /\ Len(HeadBytes(m)) = FrameHeader
        BY <3>1, HeadStands DEF Strings
      <4> HIDE DEF k
      <4>2. at \in Nat /\ Stands(HeadBytes(k), stream, at) /\ Stands(HeadBytes(m), stream, at)
        BY <2>1, <3>1 DEF k
      <4> QED BY <4>1, <4>2, StandsSame
    <3>3. k.command = m.command /\ Len(k.payload) = Len(m.payload)
      BY <3>1, <3>2, OneFrame
    <3>4. k.payload \in Seq(Byte) /\ m.payload \in Seq(Byte) /\ at + FrameHeader \in Nat
      BY <1>1, <3>1, FrameWritten
    <3>5. k.payload = m.payload
      BY <2>1, <3>1, <3>3, <3>4, StandsSame
    <3>6. k = m
      <4>1. k = [command |-> k.command, payload |-> k.payload]
        BY <3>1 DEF Messages
      <4>2. m = [command |-> m.command, payload |-> m.payload]
        BY DEF Messages
      <4> QED BY <3>3, <3>5, <4>1, <4>2
    <3> QED BY <3>1, <3>6
  <2>4. z = [v |-> m, at |-> at + Len(frame)]
    <3> DEFINE L == Len(m.payload)
    <3>1. Len(frame) = FrameHeader + L /\ L \in Nat
      BY <2>1
    <3>2. z.at = at + FrameHeader + L /\ z = [v |-> m, at |-> z.at]
      OBVIOUS
    <3> HIDE DEF L, z
    <3>3. z.at = at + Len(frame)
      BY <1>1, <3>1, <3>2
    <3> QED BY <3>2, <3>3
  <2> HIDE DEF z
  <2> QED BY <2>2, <2>3, <2>4 DEF Got
<1> QED BY <1>3, <1>4

\* A count on the wire has one form: append_compact_size and read_compact_size
\* agree at every place of every string, so no two strings are read to the same
\* size and no size is refused in the form that is written.
THEOREM SizesAreExact ==
    \A s \in Seq(Byte) : \A at \in 0 .. Len(s) :
       /\ \A v \in Unsigned(W64) :
             Stands(Compact(v), s, at) => ReadCompact(s, at) = Got(v, at + Len(Compact(v)))
       /\ \A x \in ReadCompact(s, at) :
             x.v \in Unsigned(W64) /\ Stands(Compact(x.v), s, at) /\ x.at = at + Len(Compact(x.v))
<1> TAKE s \in Seq(Byte)
<1> TAKE at \in 0 .. Len(s)
<1>1. Exactly(ReadCompact(s, at), s, at, Sizes)
  BY ReadCompactExact
<1>2. DOMAIN Sizes = Unsigned(W64) /\ \A v \in Unsigned(W64) : Sizes[v] = Compact(v)
  BY DEF Sizes
<1> QED BY <1>1, <1>2 DEF Exactly

\* What is inside the strings that r read, as parse reads each of them.
Nested(r, parse) == UNION {UNION {Got(t, x.at) : t \in parse[x.v]} : x \in r}
Inside(w0, w) == [t \in DOMAIN w |-> w0[w[t]]]
Carried(w, V, S) == w \in [V -> S]
Parses(parse, S, w) == \A b \in S : parse[b] = {t \in DOMAIN w : w[t] = b}
Unlike(w) == \A t, u \in DOMAIN w : w[t] = w[u] => t = u

\* A reader of strings, with each string read as a whole, is a reader of values.
LEMMA NestedExact ==
    ASSUME NEW s, NEW at, NEW S, NEW w0, Writer(w0, S), NEW r, Exactly(r, s, at, w0),
           NEW V, NEW w, Carried(w, V, S), NEW parse, Parses(parse, S, w), Unlike(w)
    PROVE  Writer(Inside(w0, w), V) /\ Exactly(Nested(r, parse), s, at, Inside(w0, w))
<1> DEFINE written == Inside(w0, w)
<1>1. DOMAIN w = V /\ (\A t \in V : w[t] \in S) /\ DOMAIN w0 = S /\ (\A b \in S : w0[b] \in Seq(Byte))
  BY DEF Carried, Writer
<1>2. DOMAIN written = V /\ \A t \in V : written[t] = w0[w[t]]
  BY <1>1 DEF Inside
<1>3. Writer(written, V)
  <2>1. written = [t \in V |-> written[t]]
    BY <1>1 DEF Inside
  <2> HIDE DEF written
  <2> QED BY <1>1, <1>2, <2>1 DEF Writer
<1> HIDE DEF written
<1>4. /\ \A x \in r : /\ x.v \in S /\ Stands(w0[x.v], s, at)
                      /\ x.at = at + Len(w0[x.v]) /\ x.at \in 0 .. Len(s)
      /\ \A b \in S : Stands(w0[b], s, at) => r = Got(b, at + Len(w0[b]))
  BY <1>1 DEF Exactly
<1>5. \A b \in S : parse[b] = {t \in V : w[t] = b}
  BY <1>1 DEF Parses
<1>6. ASSUME NEW z \in Nested(r, parse)
      PROVE  /\ z.v \in V /\ Stands(written[z.v], s, at)
             /\ z.at = at + Len(written[z.v]) /\ z.at \in 0 .. Len(s)
  <2>1. PICK x \in r : z \in UNION {Got(t, x.at) : t \in parse[x.v]}
    BY DEF Nested
  <2>2. PICK t \in parse[x.v] : z = [v |-> t, at |-> x.at]
    BY <2>1 DEF Got
  <2>3. t \in V /\ w[t] = x.v
    BY <1>4, <1>5
  <2>4. z.v = t /\ z.at = x.at
    BY <2>2
  <2> QED BY <1>2, <1>4, <2>3, <2>4
<1>7. ASSUME NEW t \in V, Stands(written[t], s, at)
      PROVE  Nested(r, parse) = Got(t, at + Len(written[t]))
  <2> DEFINE b == w[t]
             to == at + Len(w0[b])
  <2>1. b \in S /\ written[t] = w0[b]
    BY <1>1, <1>2
  <2>2. parse[b] = {t}
    BY <1>1, <1>5, <2>1 DEF Unlike
  <2>3. r = {[v |-> b, at |-> to]}
    BY <1>4, <1>7, <2>1 DEF Got
  <2> DEFINE x == [v |-> b, at |-> to]
  <2>4. r = {x} /\ x.v = b /\ x.at = to
    BY <2>3
  <2> HIDE DEF x, b, to
  <2>5. Nested(r, parse) = UNION {Got(k, x.at) : k \in parse[x.v]}
    BY <2>4 DEF Nested
  <2>6. Nested(r, parse) = Got(t, to)
    BY <2>2, <2>4, <2>5
  <2> QED BY <2>1, <2>6 DEF to
<1>8. Exactly(Nested(r, parse), s, at, written)
  BY <1>2, <1>6, <1>7 DEF Exactly
<1> QED BY <1>3, <1>8 DEF written

OneEach(P, V, w) == \A v \in V : P[v] = {w[v]}

\* Items that are each written to one string are written one after the other.
LEMMA JoinedImages ==
    ASSUME NEW V, NEW w, Writer(w, V), NEW q \in Seq(V), NEW P, OneEach(P, V, w)
    PROVE  Linked([i \in 1 .. Len(q) |-> P[q[i]]]) = {Flat(Images(w, q))}
<1> DEFINE n == Len(q)
           parts == [i \in 1 .. n |-> P[q[i]]]
           strings == Images(w, q)
           S == {parts[i] : i \in 1 .. n}
<1>1. n \in Nat /\ \A i \in 1 .. n : q[i] \in V
  BY LenProperties, ElementOfSeq
<1>2. strings \in Seq(Seq(Byte)) /\ Len(strings) = n
  BY ImagesWritten
<1>3. \A i \in 1 .. n : strings[i] = w[q[i]]
  BY DEF Images
<1>4. \A i \in 1 .. n : parts[i] = P[q[i]]
  OBVIOUS
<1>5. parts \in [1 .. n -> S]
  OBVIOUS
<1> HIDE DEF n, S
<1>6. Len(parts) = n
  <2> HIDE DEF parts
  <2> QED BY <1>1, <1>5, FunctionSeq
<1> HIDE DEF parts, strings
<1>7. \A i \in 1 .. n : parts[i] = {strings[i]}
  BY <1>1, <1>3, <1>4 DEF OneEach
<1>8. Linked(parts) = {Flat(strings)}
  BY <1>2, <1>6, <1>7, LinkedFlat
<1> QED BY <1>8 DEF parts, strings, n

\* The transactions of a list: each valid, and no longer than the limit.
ListedTransactions ==
    {t \in TransactionRecords : ValidTransaction(t) /\ Len(TransactionBytes(t)) <= MaxTransactionBytes}
TransactionStrings == [t \in ListedTransactions |-> TransactionBytes(t)]
TransactionItems == Inside(SizedBytes(MaxTransactionBytes), TransactionStrings)
TransactionLists == ListWritten(TransactionItems, MaxItems)

ReadListed(s, at) ==
    Then(ReadSized(s, at, MaxTransactionBytes), LAMBDA bytes, a :
        UNION {Got(t, a) : t \in ReadTransaction(bytes)})

\* A transaction and its size are read from their own bytes.
LEMMA TransactionItemExact ==
    ASSUME NEW s \in Seq(Byte), NEW at \in 0 .. Len(s)
    PROVE  /\ Writer(TransactionItems, ListedTransactions)
           /\ Exactly(ReadListed(s, at), s, at, TransactionItems)
<1> DEFINE limit == MaxTransactionBytes
           S == UpToSize(limit)
           r == ReadSized(s, at, limit)
           V == ListedTransactions
           w0 == SizedBytes(limit)
           w == TransactionStrings
           parse == [b \in S |-> ReadTransaction(b)]
<1>1. limit \in Nat /\ limit < Power(W64)
  BY SizesAssumption
<1>2. Writer(w0, S) /\ Exactly(r, s, at, w0)
  <2>1. w0 \in [S -> Seq(Byte)] /\ Exactly(r, s, at, w0)
    <3> HIDE DEF limit
    <3> QED BY <1>1, ReadSizedExact
  <2> QED BY <2>1 DEF Writer
<1>3. /\ DOMAIN w = V
      /\ \A t \in V : /\ t \in TransactionRecords /\ ValidTransaction(t)
                      /\ w[t] = TransactionBytes(t) /\ w[t] \in S
  <2>1. \A t \in V : t \in TransactionRecords /\ ValidTransaction(t) /\ Len(TransactionBytes(t)) <= limit
    BY DEF ListedTransactions
  <2>2. DOMAIN w = V /\ \A t \in V : w[t] = TransactionBytes(t)
    BY DEF TransactionStrings
  <2> HIDE DEF V, w
  <2>3. \A t \in V : TransactionBytes(t) \in S
    BY <2>1, TransactionWritten DEF UpToSize
  <2> QED BY <2>1, <2>2, <2>3
<1>4. Carried(w, V, S)
  <2>1. w = [t \in V |-> w[t]]
    BY DEF TransactionStrings
  <2> HIDE DEF w, V, S
  <2> QED BY <1>3, <2>1 DEF Carried
<1>5. \A t \in TransactionRecords : \A b :
        b \in WriteTransaction(t) <=> ValidTransaction(t) /\ TransactionBytes(t) = b
  BY TransactionWritten
<1>6. Parses(parse, S, w)
  <2> SUFFICES ASSUME NEW b \in S PROVE parse[b] = {t \in DOMAIN w : w[t] = b}
    <3> HIDE DEF S, parse, w
    <3> QED BY DEF Parses
  <2>1. b \in Seq(Byte) /\ Len(b) <= limit
    BY DEF UpToSize
  <2>2. ReadTransaction(b) = {t \in TransactionRecords : b \in WriteTransaction(t)}
    BY <2>1, TransactionsAreExact
  <2>3. \A t : t \in ReadTransaction(b) <=> t \in V /\ w[t] = b
    <3>1. \A t \in TransactionRecords : ValidTransaction(t) /\ TransactionBytes(t) = b => t \in V
      BY <2>1 DEF ListedTransactions
    <3> HIDE DEF V, w, S
    <3> QED BY <1>3, <1>5, <2>2, <3>1
  <2>4. parse[b] = ReadTransaction(b)
    OBVIOUS
  <2> HIDE DEF V, w, S, parse
  <2> QED BY <1>3, <2>3, <2>4
<1>7. Unlike(w)
  <2> SUFFICES ASSUME NEW t \in V, NEW u \in V, w[t] = w[u] PROVE t = u
    <3> HIDE DEF V, w
    <3> QED BY <1>3 DEF Unlike
  <2> DEFINE b == w[t]
  <2>1. /\ t \in TransactionRecords /\ u \in TransactionRecords
        /\ b \in WriteTransaction(t) /\ b \in WriteTransaction(u)
    BY <1>3, <1>5
  <2> HIDE DEF b, V, w
  <2>2. ReadTransaction(b) = {t} /\ ReadTransaction(b) = {u}
    BY <2>1, TransactionsAreExact
  <2> QED BY <2>2
<1>8. ReadListed(s, at) = Nested(r, parse)
  <2>1. \A x \in r : x.v \in S
    BY <1>2 DEF Exactly, Writer
  <2> DEFINE X(x) == UNION {Got(t, x.at) : t \in ReadTransaction(x.v)}
             Y(x) == UNION {Got(t, x.at) : t \in parse[x.v]}
  <2>2. ReadListed(s, at) = UNION {X(x) : x \in r}
    BY DEF ReadListed, Then
  <2>3. Nested(r, parse) = UNION {Y(x) : x \in r}
    BY DEF Nested
  <2>4. \A x \in r : parse[x.v] = ReadTransaction(x.v)
    BY <2>1
  <2>5. \A x \in r : X(x) = Y(x)
    <3> HIDE DEF r, parse
    <3> QED BY <2>4
  <2> HIDE DEF X, Y, r
  <2> QED BY <2>2, <2>3, <2>5
<1> HIDE DEF r, V, w0, w, S, parse
<1>9. Writer(Inside(w0, w), V) /\ Exactly(Nested(r, parse), s, at, Inside(w0, w))
  BY <1>2, <1>4, <1>6, <1>7, NestedExact
<1> QED BY <1>8, <1>9 DEF TransactionItems, w0, w, V

\* A list of transactions is read from what is written of it.
LEMMA TransactionListExact ==
    ASSUME NEW s \in Seq(Byte), NEW at \in 0 .. Len(s)
    PROVE  /\ Writer(TransactionLists, Lists(ListedTransactions, MaxItems))
           /\ Exactly(ReadTransactionList(s, at), s, at, TransactionLists)
<1> DEFINE V == ListedTransactions
           w == TransactionItems
           F == [a \in 0 .. Len(s) |-> ReadListed(s, a)]
           list == ReadTransactionList(s, at)
<1>1. MaxItems \in Nat /\ MaxItems < Power(W64)
  BY SizesAssumption
<1>2. Writer(w, V)
  BY TransactionItemExact
<1>3. Everywhere(F, s, w)
  BY TransactionItemExact DEF Everywhere
<1>4. list = CountedList(ReadCompact(s, at), MaxItems, F)
  BY DEF ReadTransactionList, ReadListed, ReadList, ReadMany, Then, Throw, CountedList
<1> HIDE DEF V, w, F, list
<1>5. /\ Writer(ListWritten(w, MaxItems), Lists(V, MaxItems))
      /\ Exactly(list, s, at, ListWritten(w, MaxItems))
  BY <1>1, <1>2, <1>3, <1>4, ListExact
<1> QED BY <1>5 DEF TransactionLists, V, w, list

\* A list of transactions has one string.
LEMMA ListedWritten ==
    ASSUME NEW txs \in Lists(ListedTransactions, MaxItems)
    PROVE  WriteTransactions(txs) = {TransactionLists[txs]} /\ TransactionLists[txs] \in Seq(Byte)
<1> DEFINE V == ListedTransactions
           w == TransactionItems
           One(t) == {Sized(bytes) : bytes \in WriteTransaction(t)}
           P == [t \in V |-> One(t)]
           parts == [i \in 1 .. Len(txs) |-> One(txs[i])]
           none == <<>>
<1>1. none \in Seq(Byte) /\ 0 \in 0 .. Len(none)
  OBVIOUS
<1> HIDE DEF none
<1>2. Writer(w, V) /\ Writer(TransactionLists, Lists(V, MaxItems))
  BY <1>1, TransactionItemExact, TransactionListExact
<1>3. txs \in Seq(V)
  BY DEF Lists
<1>4. \A t \in V : P[t] = {w[t]}
  <2> TAKE t \in V
  <2>1. /\ t \in TransactionRecords /\ ValidTransaction(t)
        /\ TransactionBytes(t) \in UpToSize(MaxTransactionBytes)
    BY TransactionWritten DEF ListedTransactions, UpToSize
  <2>2. WriteTransaction(t) = {TransactionBytes(t)}
    BY <2>1, TransactionWritten
  <2>3. w[t] = Sized(TransactionBytes(t))
    BY <2>1 DEF TransactionItems, Inside, TransactionStrings, SizedBytes
  <2>4. P[t] = One(t)
    OBVIOUS
  <2> HIDE DEF P, w
  <2> QED BY <2>2, <2>3, <2>4
<1>5. parts = [i \in 1 .. Len(txs) |-> P[txs[i]]]
  <2>1. \A i \in 1 .. Len(txs) : txs[i] \in V
    BY <1>3, ElementOfSeq
  <2>2. \A i \in 1 .. Len(txs) : P[txs[i]] = One(txs[i])
    BY <2>1
  <2> HIDE DEF P, One, V
  <2> QED BY <2>2
<1>6. WriteTransactions(txs) = {Compact(Len(txs)) \o all : all \in Linked(parts)}
  BY DEF WriteTransactions, Joined
<1>7. TransactionLists[txs] = Compact(Len(txs)) \o Flat(Images(w, txs))
  <2>1. DOMAIN w = V
    BY <1>2 DEF Writer
  <2>2. txs \in Lists(DOMAIN w, MaxItems)
    BY <2>1
  <2> QED BY <2>2 DEF TransactionLists, ListWritten
<1>8. TransactionLists[txs] \in Seq(Byte)
  BY <1>2 DEF Writer
<1> HIDE DEF V, w, P, parts, One
<1>9. Linked(parts) = {Flat(Images(w, txs))}
  <2>1. OneEach(P, V, w)
    BY <1>4 DEF OneEach
  <2>2. Linked([i \in 1 .. Len(txs) |-> P[txs[i]]]) = {Flat(Images(w, txs))}
    BY <1>2, <1>3, <2>1, JoinedImages
  <2> QED BY <1>5, <2>2
<1>10. {Compact(Len(txs)) \o all : all \in {Flat(Images(w, txs))}} = {Compact(Len(txs)) \o Flat(Images(w, txs))}
  OBVIOUS
<1>11. WriteTransactions(txs) = {TransactionLists[txs]}
  BY <1>6, <1>7, <1>9, <1>10
<1> QED BY <1>8, <1>11

\* The header inside a block is the next bytes of its size, read as a header.
ReadInnerHeader(s, at) ==
    Nested(ReadBytes(s, at, HeaderSize), [b \in Strings(HeaderSize) |-> ReadHeader(b)])

\* A header inside a block is read from its own bytes.
LEMMA InnerHeaderExact ==
    ASSUME NEW s \in Seq(Byte), NEW at \in 0 .. Len(s)
    PROVE  Exactly(ReadInnerHeader(s, at), s, at, HeadersWritten) /\ Writer(HeadersWritten, HeaderRecords)
<1> DEFINE S == Strings(HeaderSize)
           r == ReadBytes(s, at, HeaderSize)
           V == HeaderRecords
           w0 == AsIs(HeaderSize)
           w == HeadersWritten
           parse == [b \in S |-> ReadHeader(b)]
<1>1. HeaderSize \in Nat
  BY SizesAssumption DEF HeaderSize
<1>2. Writer(w0, S) /\ \A b \in S : w0[b] = b /\ b \in Seq(Byte)
  BY DEF Writer, AsIs, Strings
<1>3. Exactly(r, s, at, w0)
  <2> DEFINE n == HeaderSize
  <2> HIDE DEF n
  <2>1. n \in Nat
    BY <1>1 DEF n
  <2> QED BY <2>1, ReadBytesExact DEF n
<1>4. DOMAIN w = V /\ \A h \in V : w[h] = WriteHeader(h) /\ w[h] \in S
  BY HeaderWritten DEF HeadersWritten, Strings
<1>5. w = [h \in V |-> w[h]]
  BY DEF HeadersWritten
<1>6. \A b \in S : parse[b] = {h \in V : WriteHeader(h) = b}
  <2>1. \A b \in S : b \in Seq(Byte) /\ parse[b] = ReadHeader(b)
    BY DEF Strings
  <2> HIDE DEF S, V, parse
  <2> QED BY <2>1, HeadersAreExact DEF V
<1> HIDE DEF S, r, V, w0, w, parse
<1>7. Carried(w, V, S)
  BY <1>4, <1>5 DEF Carried
<1>8. Parses(parse, S, w)
  BY <1>4, <1>6 DEF Parses
<1>9. Unlike(w)
  <2> SUFFICES ASSUME NEW g \in V, NEW h \in V, w[g] = w[h] PROVE g = h
    BY <1>4 DEF Unlike
  <2>1. WriteHeader(g) = WriteHeader(h)
    BY <1>4
  <2>2. ReadHeader(WriteHeader(g)) = {g} /\ ReadHeader(WriteHeader(h)) = {h}
    BY HeadersAreExact DEF V
  <2> QED BY <2>1, <2>2
<1>10. Writer(Inside(w0, w), V) /\ Exactly(Nested(r, parse), s, at, Inside(w0, w))
  BY <1>2, <1>3, <1>7, <1>8, <1>9, NestedExact
<1>11. Inside(w0, w) = w
  <2>1. \A h \in V : w0[w[h]] = w[h]
    BY <1>2, <1>4
  <2> QED BY <1>4, <1>5, <2>1 DEF Inside
<1>12. ReadInnerHeader(s, at) = Nested(r, parse)
  BY DEF ReadInnerHeader, r, parse, S
<1>13. Exactly(Nested(r, parse), s, at, w) /\ Writer(w, V)
  BY <1>10, <1>11
<1> QED BY <1>12, <1>13 DEF w, V

\* A block: its height, its header, its transactions.
BlockRecords ==
    [height : Unsigned(W64), header : HeaderRecords, txs : Lists(ListedTransactions, MaxItems)]
BlockBytes(b) == Number(b.height, W64) \o (WriteHeader(b.header) \o TransactionLists[b.txs])
BlocksWritten == [b \in BlockRecords |-> BlockBytes(b)]

\* A block has one string.
LEMMA BlockWritten ==
    ASSUME NEW b \in BlockRecords
    PROVE  BlockBytes(b) \in Seq(Byte) /\ WriteBlock(b) = {BlockBytes(b)}
<1> DEFINE x == Number(b.height, W64)
           y == WriteHeader(b.header)
           z == TransactionLists[b.txs]
<1>1. /\ b.height \in Unsigned(W64) /\ b.header \in HeaderRecords
      /\ b.txs \in Lists(ListedTransactions, MaxItems)
  BY DEF BlockRecords
<1>2. x \in Seq(Byte) /\ y \in Seq(Byte) /\ z \in Seq(Byte)
  <2>1. W64 \in Nat
    BY SizesAssumption
  <2> QED BY <1>1, <2>1, NumbersWritten, HeaderWritten, ListedWritten
<1>3. WriteTransactions(b.txs) = {z}
  BY <1>1, ListedWritten
<1>4. WriteBlock(b) = {x \o y \o txs : txs \in WriteTransactions(b.txs)}
  BY DEF WriteBlock
<1>5. BlockBytes(b) = x \o (y \o z)
  BY DEF BlockBytes
<1> HIDE DEF x, y, z
<1>6. x \o (y \o z) = x \o y \o z /\ x \o (y \o z) \in Seq(Byte)
  <2> DEFINE T == Seq(Byte)
  <2>1. Joins(T) /\ x \in T /\ y \in T /\ z \in T
    BY <1>2, ConcatProperties DEF Joins
  <2>2. Regroups(T)
    BY ConcatAssociative DEF Regroups
  <2> HIDE DEF T
  <2>3. x \o (y \o z) = x \o y \o z /\ x \o (y \o z) \in T
    BY <2>1, <2>2 DEF Joins, Regroups
  <2> QED BY <2>3 DEF T
<1>7. WriteBlock(b) = {x \o y \o z}
  BY <1>3, <1>4
<1> QED BY <1>5, <1>6, <1>7

\* The block reader reads a height, a header and a list, one after the other.
OfBlock(z, s, at) ==
    \E x \in ReadNumber(s, at, W64) : \E y \in ReadBytes(s, x.at, HeaderSize) :
      \E h \in ReadHeader(y.v) : \E t \in ReadTransactionList(s, y.at) :
        z = [v |-> [height |-> x.v, header |-> h, txs |-> t.v], at |-> t.at]

\* The block reader yields exactly that.
LEMMA BlockInTurn ==
    ASSUME NEW s, NEW at, NEW z
    PROVE  z \in ReadBlock(s, at) <=> OfBlock(z, s, at)
<1> DEFINE R == ReadNumber(s, at, W64)
           Bytes(x) == ReadBytes(s, x.at, HeaderSize)
           Heads(y) == ReadHeader(y.v)
           Lists0(y) == ReadTransactionList(s, y.at)
           T(x, y, h) == UNION {Got([height |-> x.v, header |-> h, txs |-> t.v], t.at) : t \in Lists0(y)}
           H(x, y) == UNION {T(x, y, h) : h \in Heads(y)}
           X(x) == UNION {H(x, y) : y \in Bytes(x)}
<1>1. ReadBlock(s, at) = UNION {X(x) : x \in R}
  BY DEF ReadBlock, Then
<1>2. \A x, y, h : z \in T(x, y, h) <=>
         \E t \in Lists0(y) : z = [v |-> [height |-> x.v, header |-> h, txs |-> t.v], at |-> t.at]
  <2> TAKE x, y, h
  <2> DEFINE S == Lists0(y)
             v == x.v
  <2> HIDE DEF S, v
  <2>1. z \in UNION {Got([height |-> v, header |-> h, txs |-> t.v], t.at) : t \in S} <=>
          \E t \in S : z = [v |-> [height |-> v, header |-> h, txs |-> t.v], at |-> t.at]
    BY DEF Got
  <2> QED BY <2>1 DEF S, v
<1> HIDE DEF T
<1>3. \A x, y : z \in H(x, y) <=> \E h \in Heads(y) : z \in T(x, y, h)
  <2> TAKE x, y
  <2> DEFINE S == Heads(y)
  <2> HIDE DEF S
  <2>1. z \in UNION {T(x, y, h) : h \in S} <=> \E h \in S : z \in T(x, y, h)
    OBVIOUS
  <2> QED BY <2>1 DEF S
<1> HIDE DEF H
<1>4. \A x : z \in X(x) <=> \E y \in Bytes(x) : z \in H(x, y)
  <2> TAKE x
  <2> DEFINE S == Bytes(x)
  <2> HIDE DEF S
  <2>1. z \in UNION {H(x, y) : y \in S} <=> \E y \in S : z \in H(x, y)
    OBVIOUS
  <2> QED BY <2>1 DEF S
<1> HIDE DEF X, R
<1>5. z \in ReadBlock(s, at) <=> \E x \in R : z \in X(x)
  BY <1>1
<1>6. z \in ReadBlock(s, at) <=>
        \E x \in R : \E y \in Bytes(x) : \E h \in Heads(y) : \E t \in Lists0(y) :
          z = [v |-> [height |-> x.v, header |-> h, txs |-> t.v], at |-> t.at]
  <2> HIDE DEF Bytes, Heads, Lists0
  <2> QED BY <1>2, <1>3, <1>4, <1>5
<1> QED BY <1>6 DEF R, OfBlock

\* The three readers of a block, as functions of the place.
InnerHeaders(s) == [a \in 0 .. Len(s) |-> ReadInnerHeader(s, a)]
InnerLists(s) == [a \in 0 .. Len(s) |-> ReadTransactionList(s, a)]
MadeBlock(height, header, txs) == [height |-> height, header |-> header, txs |-> txs]
BlockName ==
    [p \in Unsigned(W64) \X (HeaderRecords \X Lists(ListedTransactions, MaxItems)) |->
        MadeBlock(p[1], p[2][1], p[2][2])]

\* A block is written as its height, its header and its transactions.
LEMMA BlockRenames ==
    Renames(BlockName, Joint(Numbers(W64), Joint(HeadersWritten, TransactionLists)), BlocksWritten)
<1> DEFINE V1 == Unsigned(W64)
           V2 == HeaderRecords
           V3 == Lists(ListedTransactions, MaxItems)
           w1 == Numbers(W64)
           w2 == HeadersWritten
           w3 == TransactionLists
           name == BlockName
           none == <<>>
<1>1. none \in Seq(Byte) /\ 0 \in 0 .. Len(none)
  OBVIOUS
<1> HIDE DEF none
<1>2. DOMAIN w1 = V1 /\ DOMAIN w2 = V2 /\ DOMAIN w3 = V3
  <2>1. W64 \in Nat
    BY SizesAssumption
  <2>2. Writer(w1, V1) /\ Writer(w2, V2) /\ Writer(w3, V3)
    BY <1>1, <2>1, NumbersWritten, InnerHeaderExact, TransactionListExact
  <2> QED BY <2>2 DEF Writer
<1>3. /\ \A v \in V1 : w1[v] = Number(v, W64)
      /\ \A h \in V2 : w2[h] = WriteHeader(h)
  BY DEF Numbers, HeadersWritten
<1>4. name = [p \in V1 \X (V2 \X V3) |-> MadeBlock(p[1], p[2][1], p[2][2])]
  BY DEF BlockName
<1> HIDE DEF V1, V2, V3, w1, w2, w3, name
<1>5. Joint(w2, w3) = [p \in V2 \X V3 |-> w2[p[1]] \o w3[p[2]]]
  BY <1>2 DEF Joint
<1>6. Joint(w1, Joint(w2, w3)) =
        [p \in V1 \X (V2 \X V3) |-> w1[p[1]] \o (w2[p[2][1]] \o w3[p[2][2]])]
  <2>1. DOMAIN Joint(w2, w3) = V2 \X V3
    BY <1>5
  <2>2. Joint(w1, Joint(w2, w3)) = [p \in V1 \X (V2 \X V3) |-> w1[p[1]] \o Joint(w2, w3)[p[2]]]
    BY <1>2, <2>1 DEF Joint
  <2>3. \A p \in V1 \X (V2 \X V3) : Joint(w2, w3)[p[2]] = w2[p[2][1]] \o w3[p[2][2]]
    BY <1>5
  <2> QED BY <2>2, <2>3
<1>7. ASSUME NEW p \in V1 \X (V2 \X V3)
      PROVE  name[p] \in BlockRecords /\ BlocksWritten[name[p]] = w1[p[1]] \o (w2[p[2][1]] \o w3[p[2][2]])
  <2> DEFINE a == p[1]
             h == p[2][1]
             t == p[2][2]
             b == name[p]
  <2>1. a \in V1 /\ h \in V2 /\ t \in V3 /\ b = MadeBlock(a, h, t)
    BY <1>4
  <2> HIDE DEF a, h, t, b
  <2>2. b \in BlockRecords /\ b.height = a /\ b.header = h /\ b.txs = t
    BY <2>1 DEF MadeBlock, BlockRecords, V1, V2, V3
  <2>3. BlocksWritten[b] = BlockBytes(b)
    BY <2>2 DEF BlocksWritten
  <2>4. BlockBytes(b) = Number(a, W64) \o (WriteHeader(h) \o w3[t])
    BY <2>2 DEF BlockBytes, w3
  <2>5. BlocksWritten[b] = w1[a] \o (w2[h] \o w3[t])
    BY <1>3, <2>1, <2>3, <2>4
  <2> QED BY <2>2, <2>5 DEF a, h, t, b
<1>8. ASSUME NEW b \in BlockRecords PROVE \E p \in V1 \X (V2 \X V3) : name[p] = b
  <2> DEFINE p == <<b.height, <<b.header, b.txs>>>>
  <2>1. /\ b.height \in V1 /\ b.header \in V2 /\ b.txs \in V3
        /\ b = MadeBlock(b.height, b.header, b.txs)
    BY DEF BlockRecords, MadeBlock, V1, V2, V3
  <2>2. p \in V1 \X (V2 \X V3) /\ p[1] = b.height /\ p[2][1] = b.header /\ p[2][2] = b.txs
    BY <2>1
  <2> HIDE DEF p
  <2>3. name[p] = b
    BY <1>4, <2>1, <2>2
  <2> QED BY <2>2, <2>3
<1>9. DOMAIN BlocksWritten = BlockRecords
  BY DEF BlocksWritten
<1>10. /\ DOMAIN Joint(w1, Joint(w2, w3)) = V1 \X (V2 \X V3)
       /\ \A p \in V1 \X (V2 \X V3) :
            Joint(w1, Joint(w2, w3))[p] = w1[p[1]] \o (w2[p[2][1]] \o w3[p[2][2]])
  BY <1>6
<1>11. Renames(name, Joint(w1, Joint(w2, w3)), BlocksWritten)
  BY <1>7, <1>8, <1>9, <1>10 DEF Renames
<1> QED BY <1>11 DEF name, w1, w2, w3

\* z is what three readers read one after the other.
OfThree(z, name, r, B, C) ==
    \E x \in r : \E y \in B[x.at] : \E t \in C[y.at] :
      z = [v |-> name[<<x.v, <<y.v, t.v>>>>], at |-> t.at]

\* Three nested readers yield exactly that.
LEMMA ThreeItem ==
    ASSUME NEW name, NEW r, NEW B, NEW C, NEW z
    PROVE  z \in Three(name, r, B, C) <=> OfThree(z, name, r, B, C)
<1> DEFINE Y(x, y) == UNION {Got(name[<<x.v, <<y.v, t.v>>>>], t.at) : t \in C[y.at]}
           X(x) == UNION {Y(x, y) : y \in B[x.at]}
<1>1. Three(name, r, B, C) = UNION {X(x) : x \in r}
  BY DEF Three
<1>2. \A x, y : z \in Y(x, y) <=>
         \E t \in C[y.at] : z = [v |-> name[<<x.v, <<y.v, t.v>>>>], at |-> t.at]
  <2> TAKE x, y
  <2> DEFINE S == C[y.at]
             G(t) == name[<<x.v, <<y.v, t.v>>>>]
  <2>1. Y(x, y) = UNION {Got(G(t), t.at) : t \in S}
    OBVIOUS
  <2>2. (\E t \in C[y.at] : z = [v |-> name[<<x.v, <<y.v, t.v>>>>], at |-> t.at])
          <=> \E t \in S : z = [v |-> G(t), at |-> t.at]
    OBVIOUS
  <2> HIDE DEF S, G, Y
  <2>3. z \in UNION {Got(G(t), t.at) : t \in S} <=> \E t \in S : z = [v |-> G(t), at |-> t.at]
    BY DEF Got
  <2> QED BY <2>1, <2>2, <2>3
<1> HIDE DEF Y
<1>3. \A x : z \in X(x) <=> \E y \in B[x.at] : z \in Y(x, y)
  <2> TAKE x
  <2> DEFINE S == B[x.at]
  <2> HIDE DEF S
  <2>1. z \in UNION {Y(x, y) : y \in S} <=> \E y \in S : z \in Y(x, y)
    OBVIOUS
  <2> QED BY <2>1 DEF S
<1> HIDE DEF X
<1>4. z \in Three(name, r, B, C) <=> \E x \in r : z \in X(x)
  BY <1>1
<1> DEFINE M(x, y, t) == z = [v |-> name[<<x.v, <<y.v, t.v>>>>], at |-> t.at]
<1>5. \A x, y : z \in Y(x, y) <=> \E t \in C[y.at] : M(x, y, t)
  BY <1>2
<1>6. OfThree(z, name, r, B, C) <=> \E x \in r : \E y \in B[x.at] : \E t \in C[y.at] : M(x, y, t)
  BY DEF OfThree
<1> HIDE DEF M
<1> QED BY <1>3, <1>4, <1>5, <1>6

\* A header inside a block is one that the next bytes are read to.
LEMMA InnerHeaderItem ==
    ASSUME NEW s \in Seq(Byte), NEW a \in 0 .. Len(s), NEW y
    PROVE  y \in ReadInnerHeader(s, a) <=>
             \E k \in ReadBytes(s, a, HeaderSize) : \E h \in ReadHeader(k.v) : y = [v |-> h, at |-> k.at]
<1> DEFINE S == Strings(HeaderSize)
           parse == [b \in S |-> ReadHeader(b)]
           r == ReadBytes(s, a, HeaderSize)
           X(k) == UNION {Got(h, k.at) : h \in parse[k.v]}
<1>1. ReadInnerHeader(s, a) = UNION {X(k) : k \in r}
  BY DEF ReadInnerHeader, Nested
<1>2. HeaderSize \in Nat
  BY SizesAssumption DEF HeaderSize
<1>3. \A k \in r : k.v \in S
  <2> DEFINE n == HeaderSize
  <2> HIDE DEF n
  <2>1. n \in Nat
    BY <1>2 DEF n
  <2>2. \A k \in ReadBytes(s, a, n) : k.v \in Strings(n)
    BY <2>1, StandingIsRead
  <2> QED BY <2>2 DEF n
<1>4. \A k \in r : parse[k.v] = ReadHeader(k.v)
  BY <1>3
<1> HIDE DEF parse, r
<1>5. \A k \in r : y \in X(k) <=> \E h \in ReadHeader(k.v) : y = [v |-> h, at |-> k.at]
  <2> TAKE k \in r
  <2> DEFINE P == ReadHeader(k.v)
             to == k.at
  <2>1. X(k) = UNION {Got(h, to) : h \in P}
    BY <1>4
  <2> HIDE DEF P, to, X
  <2>2. y \in UNION {Got(h, to) : h \in P} <=> \E h \in P : y = [v |-> h, at |-> to]
    BY DEF Got
  <2> QED BY <2>1, <2>2 DEF P, to
<1> HIDE DEF X
<1>6. y \in ReadInnerHeader(s, a) <=> \E k \in r : y \in X(k)
  BY <1>1
<1> QED BY <1>5, <1>6 DEF r

\* A block is read from its own bytes.
LEMMA BlockExact ==
    ASSUME NEW s \in Seq(Byte), NEW at \in 0 .. Len(s)
    PROVE  Exactly(ReadBlock(s, at), s, at, BlocksWritten)
<1> DEFINE V1 == Unsigned(W64)
           V2 == HeaderRecords
           V3 == Lists(ListedTransactions, MaxItems)
           w1 == Numbers(W64)
           w2 == HeadersWritten
           w3 == TransactionLists
           r == ReadNumber(s, at, W64)
           B == InnerHeaders(s)
           C == InnerLists(s)
           name == BlockName
<1>1. W64 \in Nat
  BY SizesAssumption
<1>2. Writer(w1, V1) /\ Exactly(r, s, at, w1)
  BY <1>1, NumbersWritten, ReadNumberExact
<1>3. /\ \A a \in 0 .. Len(s) : B[a] = ReadInnerHeader(s, a)
      /\ \A a \in 0 .. Len(s) : C[a] = ReadTransactionList(s, a)
  BY DEF InnerHeaders, InnerLists
<1>4. Writer(w2, V2) /\ \A a \in 0 .. Len(s) : Exactly(ReadInnerHeader(s, a), s, a, w2)
  BY InnerHeaderExact
<1>5. Writer(w3, V3) /\ \A a \in 0 .. Len(s) : Exactly(ReadTransactionList(s, a), s, a, w3)
  BY TransactionListExact
<1>6. Renames(name, Joint(w1, Joint(w2, w3)), BlocksWritten)
  BY BlockRenames
<1>7. \A p \in V1 \X (V2 \X V3) : name[p] = [height |-> p[1], header |-> p[2][1], txs |-> p[2][2]]
  BY DEF BlockName, MadeBlock
<1> HIDE DEF V1, V2, V3, w1, w2, w3, r, B, C, name
<1>8. Everywhere(B, s, w2) /\ Everywhere(C, s, w3)
  BY <1>3, <1>4, <1>5 DEF Everywhere
<1>9. Exactly(Three(name, r, B, C), s, at, BlocksWritten)
  BY <1>2, <1>4, <1>5, <1>6, <1>8, ThreeExact
<1>10. ASSUME NEW z
       PROVE  z \in ReadBlock(s, at) <=> z \in Three(name, r, B, C)
  <2> DEFINE Made(x, h, t) == [v |-> [height |-> x.v, header |-> h, txs |-> t.v], at |-> t.at]
  <2>1. z \in ReadBlock(s, at) <=>
          \E x \in r : \E k \in ReadBytes(s, x.at, HeaderSize) :
            \E h \in ReadHeader(k.v) : \E t \in ReadTransactionList(s, k.at) : z = Made(x, h, t)
    <3>1. z \in ReadBlock(s, at) <=> OfBlock(z, s, at)
      BY BlockInTurn
    <3> QED BY <3>1 DEF OfBlock, r
  <2>2. z \in Three(name, r, B, C) <=>
          \E x \in r : \E y \in B[x.at] : \E t \in C[y.at] :
            z = [v |-> name[<<x.v, <<y.v, t.v>>>>], at |-> t.at]
    <3>1. z \in Three(name, r, B, C) <=> OfThree(z, name, r, B, C)
      BY ThreeItem
    <3> QED BY <3>1 DEF OfThree
  <2>3. \A x \in r : x.v \in V1 /\ x.at \in 0 .. Len(s)
    BY <1>2 DEF Exactly, Writer
  <2>4. \A x \in r : \A y : y \in B[x.at] <=>
          \E k \in ReadBytes(s, x.at, HeaderSize) : \E h \in ReadHeader(k.v) : y = [v |-> h, at |-> k.at]
    BY <1>3, <2>3, InnerHeaderItem
  <2>5. \A x \in r : \A y \in B[x.at] : y.v \in V2 /\ y.at \in 0 .. Len(s)
    BY <1>3, <1>4, <2>3 DEF Exactly, Writer
  <2>6. \A x \in r : \A y \in B[x.at] :
          C[y.at] = ReadTransactionList(s, y.at) /\ \A t \in C[y.at] : t.v \in V3
    BY <1>3, <1>5, <2>5 DEF Exactly, Writer
  <2>7. \A x \in r : \A y \in B[x.at] : \A t \in C[y.at] :
          [v |-> name[<<x.v, <<y.v, t.v>>>>], at |-> t.at] = Made(x, y.v, t)
    <3> TAKE x \in r
    <3> TAKE y \in B[x.at]
    <3> TAKE t \in C[y.at]
    <3> DEFINE p == <<x.v, <<y.v, t.v>>>>
    <3>1. p \in V1 \X (V2 \X V3) /\ p[1] = x.v /\ p[2][1] = y.v /\ p[2][2] = t.v
      BY <2>3, <2>5, <2>6
    <3> HIDE DEF p
    <3>2. name[p] = [height |-> x.v, header |-> y.v, txs |-> t.v]
      BY <1>7, <3>1
    <3> QED BY <3>2 DEF p
  <2> HIDE DEF Made
  <2>8. ASSUME NEW x \in r, NEW k \in ReadBytes(s, x.at, HeaderSize), NEW h \in ReadHeader(k.v),
               NEW t \in ReadTransactionList(s, k.at), z = Made(x, h, t)
        PROVE  z \in Three(name, r, B, C)
    <3> DEFINE y == [v |-> h, at |-> k.at]
    <3>1. y \in B[x.at] /\ y.v = h /\ y.at = k.at
      BY <2>4
    <3> HIDE DEF y
    <3>2. t \in C[y.at] /\ z = Made(x, y.v, t)
      BY <2>6, <2>8, <3>1
    <3> QED BY <2>2, <2>7, <3>1, <3>2
  <2>9. ASSUME NEW x \in r, NEW y \in B[x.at], NEW t \in C[y.at],
               z = [v |-> name[<<x.v, <<y.v, t.v>>>>], at |-> t.at]
        PROVE  z \in ReadBlock(s, at)
    <3>1. PICK k \in ReadBytes(s, x.at, HeaderSize) : \E h \in ReadHeader(k.v) : y = [v |-> h, at |-> k.at]
      BY <2>4
    <3>2. PICK h \in ReadHeader(k.v) : y = [v |-> h, at |-> k.at]
      BY <3>1
    <3>3. y.v = h /\ y.at = k.at
      BY <3>2
    <3>4. t \in ReadTransactionList(s, k.at) /\ z = Made(x, h, t)
      BY <2>6, <2>7, <2>9, <3>3
    <3> QED BY <2>1, <3>4
  <2> QED BY <2>1, <2>2, <2>8, <2>9
<1>11. ReadBlock(s, at) = Three(name, r, B, C)
  BY <1>10
<1> QED BY <1>9, <1>11

\* What is written of a block is one string.
LEMMA BlocksAreStrings ==
    Writer(BlocksWritten, BlockRecords)
    /\ \A b \in BlockRecords : BlocksWritten[b] = BlockBytes(b) /\ WriteBlock(b) = {BlocksWritten[b]}
<1>1. \A b \in BlockRecords : BlocksWritten[b] = BlockBytes(b)
  BY DEF BlocksWritten
<1> QED BY <1>1, BlockWritten DEF Writer, BlocksWritten

\* The blocks of a response: each no longer than a payload may be.
SentBlocks == {b \in BlockRecords : Len(BlockBytes(b)) <= MaxPayload}
BlockStrings == [b \in SentBlocks |-> BlockBytes(b)]
BlockItems == Inside(SizedBytes(MaxPayload), BlockStrings)
BlockLists == ListWritten(BlockItems, MaxBlocksPerResponse)

ReadSent(s, at) ==
    Then(ReadSized(s, at, MaxPayload), LAMBDA bytes, a :
        UNION {Got(b, a) : b \in Whole(bytes, ReadBlock(bytes, 0))})

\* A block and its size are read from their own bytes.
LEMMA BlockItemExact ==
    ASSUME NEW s \in Seq(Byte), NEW at \in 0 .. Len(s)
    PROVE  Writer(BlockItems, SentBlocks) /\ Exactly(ReadSent(s, at), s, at, BlockItems)
<1> DEFINE limit == MaxPayload
           S == UpToSize(limit)
           r == ReadSized(s, at, limit)
           V == SentBlocks
           w0 == SizedBytes(limit)
           w == BlockStrings
           parse == [k \in S |-> Whole(k, ReadBlock(k, 0))]
<1>1. limit \in Nat /\ limit < Power(W64)
  BY SizesAssumption, Widths
<1>2. Writer(w0, S) /\ Exactly(r, s, at, w0)
  <2>1. w0 \in [S -> Seq(Byte)] /\ Exactly(r, s, at, w0)
    <3> HIDE DEF limit
    <3> QED BY <1>1, ReadSizedExact
  <2> QED BY <2>1 DEF Writer
<1>3. /\ DOMAIN w = V
      /\ \A b \in V : b \in BlockRecords /\ w[b] = BlockBytes(b) /\ w[b] \in S
  <2>1. \A b \in V : b \in BlockRecords /\ Len(BlockBytes(b)) <= limit
    BY DEF SentBlocks
  <2>2. DOMAIN w = V /\ \A b \in V : w[b] = BlockBytes(b)
    BY DEF BlockStrings
  <2> HIDE DEF V, w
  <2>3. \A b \in V : BlockBytes(b) \in S
    BY <2>1, BlockWritten DEF UpToSize
  <2> QED BY <2>1, <2>2, <2>3
<1>4. w = [b \in V |-> w[b]]
  BY DEF BlockStrings
<1>5. ASSUME NEW k \in Seq(Byte)
      PROVE  /\ Whole(k, ReadBlock(k, 0)) = {b \in BlockRecords : BlockBytes(b) = k}
             /\ \A b, c \in BlockRecords : BlockBytes(b) = k /\ BlockBytes(c) = k => b = c
  <2>1. 0 \in 0 .. Len(k)
    BY LenProperties
  <2>2. Exactly(ReadBlock(k, 0), k, 0, BlocksWritten)
    BY <2>1, BlockExact
  <2>3. Writer(BlocksWritten, BlockRecords) /\ \A b \in BlockRecords : BlocksWritten[b] = BlockBytes(b)
    BY BlocksAreStrings
  <2>4. /\ Whole(k, ReadBlock(k, 0)) = {b \in BlockRecords : BlocksWritten[b] = k}
        /\ \A b, c \in BlockRecords : BlocksWritten[b] = k /\ BlocksWritten[c] = k => b = c
    BY <2>2, <2>3, WholeExact
  <2> QED BY <2>3, <2>4
<1>6. \A k \in S : k \in Seq(Byte) /\ Len(k) <= limit /\ parse[k] = Whole(k, ReadBlock(k, 0))
  BY DEF UpToSize
<1>7. \A b \in BlockRecords : Len(BlockBytes(b)) <= limit => b \in V
  BY DEF SentBlocks
<1> HIDE DEF r, V, w0, w, S, parse
<1>8. Carried(w, V, S)
  BY <1>3, <1>4 DEF Carried
<1>9. Parses(parse, S, w)
  <2> SUFFICES ASSUME NEW k \in S PROVE parse[k] = {b \in DOMAIN w : w[b] = k}
    BY DEF Parses
  <2>1. parse[k] = {b \in BlockRecords : BlockBytes(b) = k}
    BY <1>5, <1>6
  <2> QED BY <1>3, <1>6, <1>7, <2>1
<1>10. Unlike(w)
  <2> SUFFICES ASSUME NEW b \in V, NEW c \in V, w[b] = w[c] PROVE b = c
    BY <1>3 DEF Unlike
  <2>1. b \in BlockRecords /\ c \in BlockRecords /\ BlockBytes(b) = BlockBytes(c)
    BY <1>3
  <2>2. BlockBytes(b) \in Seq(Byte)
    BY <2>1, BlockWritten
  <2> QED BY <1>5, <2>1, <2>2
<1>11. ReadSent(s, at) = Nested(r, parse)
  <2> DEFINE X(x) == UNION {Got(b, x.at) : b \in Whole(x.v, ReadBlock(x.v, 0))}
             Y(x) == UNION {Got(b, x.at) : b \in parse[x.v]}
  <2>1. \A x \in r : x.v \in S
    BY <1>2 DEF Exactly, Writer
  <2>2. ReadSent(s, at) = UNION {X(x) : x \in r}
    BY DEF ReadSent, Then, r
  <2>3. Nested(r, parse) = UNION {Y(x) : x \in r}
    BY DEF Nested
  <2>4. \A x \in r : parse[x.v] = Whole(x.v, ReadBlock(x.v, 0))
    BY <1>6, <2>1
  <2>5. \A x \in r : X(x) = Y(x)
    BY <2>4
  <2> HIDE DEF X, Y
  <2> QED BY <2>2, <2>3, <2>5
<1>12. Writer(Inside(w0, w), V) /\ Exactly(Nested(r, parse), s, at, Inside(w0, w))
  BY <1>2, <1>8, <1>9, <1>10, NestedExact
<1> QED BY <1>11, <1>12 DEF BlockItems, w0, w, V

\* What a list of blocks is written to, before its size is bounded.
BlocksString(q) ==
    {Compact(Len(q)) \o all : all \in Joined(q, LAMBDA b : {Sized(bytes) : bytes \in WriteBlock(b)})}

\* A list of blocks has one string before its size is bounded.
LEMMA SentWritten ==
    ASSUME NEW q \in Lists(SentBlocks, MaxBlocksPerResponse)
    PROVE  BlocksString(q) = {BlockLists[q]} /\ BlockLists[q] \in Seq(Byte)
<1> DEFINE V == SentBlocks
           w == BlockItems
           One(b) == {Sized(bytes) : bytes \in WriteBlock(b)}
           P == [b \in V |-> One(b)]
           parts == [i \in 1 .. Len(q) |-> One(q[i])]
           none == <<>>
           M == MaxBlocksPerResponse
<1>1. none \in Seq(Byte) /\ 0 \in 0 .. Len(none)
  OBVIOUS
<1>2. M \in Nat /\ M < Power(W64)
  BY SizesAssumption
<1> HIDE DEF none
<1>3. Writer(w, V)
  BY <1>1, BlockItemExact
<1>4. Writer(BlockLists, Lists(V, M))
  <2> DEFINE F == [a \in 0 .. Len(none) |-> ReadSent(none, a)]
  <2>1. Everywhere(F, none, w)
    BY <1>1, BlockItemExact DEF Everywhere
  <2> HIDE DEF F, V, w, M
  <2>2. Writer(ListWritten(w, M), Lists(V, M))
    BY <1>1, <1>2, <1>3, <2>1, ListExact
  <2> QED BY <2>2 DEF BlockLists, w, M
<1>5. q \in Seq(V) /\ q \in Lists(V, M)
  BY DEF Lists
<1>6. \A b \in V : P[b] = {w[b]}
  <2> TAKE b \in V
  <2>1. b \in BlockRecords /\ BlockBytes(b) \in UpToSize(MaxPayload)
    BY BlockWritten DEF SentBlocks, UpToSize
  <2>2. WriteBlock(b) = {BlockBytes(b)}
    BY <2>1, BlockWritten
  <2>3. w[b] = Sized(BlockBytes(b))
    BY <2>1 DEF BlockItems, Inside, BlockStrings, SizedBytes
  <2>4. P[b] = One(b)
    OBVIOUS
  <2> HIDE DEF P, w
  <2> QED BY <2>2, <2>3, <2>4
<1>7. parts = [i \in 1 .. Len(q) |-> P[q[i]]]
  <2>1. \A i \in 1 .. Len(q) : q[i] \in V
    BY <1>5, ElementOfSeq
  <2>2. \A i \in 1 .. Len(q) : P[q[i]] = One(q[i])
    BY <2>1
  <2> HIDE DEF P, One, V
  <2> QED BY <2>2
<1>8. BlocksString(q) = {Compact(Len(q)) \o all : all \in Linked(parts)}
  BY DEF BlocksString, Joined
<1>9. BlockLists[q] = Compact(Len(q)) \o Flat(Images(w, q))
  <2>1. q \in Lists(DOMAIN w, M)
    BY <1>3, <1>5 DEF Writer
  <2> QED BY <2>1 DEF BlockLists, ListWritten
<1>10. BlockLists[q] \in Seq(Byte)
  BY <1>4, <1>5 DEF Writer
<1> HIDE DEF V, w, P, parts, One, M
<1>11. Linked(parts) = {Flat(Images(w, q))}
  <2>1. OneEach(P, V, w) /\ q \in Seq(V)
    BY <1>5, <1>6 DEF OneEach
  <2>2. Linked([i \in 1 .. Len(q) |-> P[q[i]]]) = {Flat(Images(w, q))}
    BY <1>3, <2>1, JoinedImages
  <2> QED BY <1>7, <2>2
<1>12. {Compact(Len(q)) \o all : all \in {Flat(Images(w, q))}} = {Compact(Len(q)) \o Flat(Images(w, q))}
  OBVIOUS
<1>13. BlocksString(q) = {BlockLists[q]}
  BY <1>8, <1>9, <1>11, <1>12
<1> QED BY <1>10, <1>13

\* The part of a sequence from one place to another.
LEMMA PartOfSeq ==
    ASSUME NEW V, NEW q \in Seq(V), NEW at \in Nat, NEW n \in Nat, at + n <= Len(q)
    PROVE  SubSeq(q, at + 1, at + n) \in Seq(V) /\ Len(SubSeq(q, at + 1, at + n)) = n
<1> DEFINE part == SubSeq(q, at + 1, at + n)
<1>1. Len(q) \in Nat /\ \A i \in 1 .. Len(q) : q[i] \in V
  BY LenProperties, ElementOfSeq
<1>2. CASE n = 0
  <2>1. part = <<>>
    BY <1>1, <1>2
  <2> QED BY <1>2, <2>1
<1>3. CASE n # 0
  <2>1. at + 1 \in 1 .. Len(q) + 1 /\ at + n \in 0 .. Len(q) /\ at + 1 <= at + n
    BY <1>1, <1>3
  <2>2. \A i \in at + 1 .. at + n : q[i] \in V
    BY <1>1
  <2>3. part \in Seq(V) /\ Len(part) = at + n - (at + 1) + 1
    BY <2>1, <2>2, SubSeqProperties
  <2>4. at + n - (at + 1) + 1 = n
    OBVIOUS
  <2> QED BY <2>3, <2>4
<1> QED BY <1>2, <1>3

\* What a blocks payload is read to.
LEMMA ReadBlocksExact ==
    ASSUME NEW s \in Seq(Byte)
    PROVE  /\ ReadBlocks(s) = {q \in Lists(SentBlocks, MaxBlocksPerResponse) : BlockLists[q] = s}
           /\ \A p, q \in Lists(SentBlocks, MaxBlocksPerResponse) :
                 BlockLists[p] = s /\ BlockLists[q] = s => p = q
<1> DEFINE V == SentBlocks
           w == BlockItems
           M == MaxBlocksPerResponse
           F == [a \in 0 .. Len(s) |-> ReadSent(s, a)]
           r == CountedList(ReadCompact(s, 0), M, F)
<1>1. M \in Nat /\ M < Power(W64)
  BY SizesAssumption
<1>2. 0 \in 0 .. Len(s)
  BY LenProperties
<1>3. Writer(w, V)
  BY <1>2, BlockItemExact
<1>4. Everywhere(F, s, w)
  BY BlockItemExact DEF Everywhere
<1>5. ReadBlocks(s) = Whole(s, r)
  BY DEF ReadBlocks, ReadSent, ReadList, ReadMany, Then, Throw, CountedList
<1> HIDE DEF V, w, F, M
<1>6. Writer(ListWritten(w, M), Lists(V, M)) /\ Exactly(r, s, 0, ListWritten(w, M))
  BY <1>1, <1>2, <1>3, <1>4, ListExact
<1> HIDE DEF r
<1>7. /\ Whole(s, r) = {q \in Lists(V, M) : ListWritten(w, M)[q] = s}
      /\ \A p, q \in Lists(V, M) : ListWritten(w, M)[p] = s /\ ListWritten(w, M)[q] = s => p = q
  BY <1>6, WholeExact
<1> QED BY <1>5, <1>7 DEF BlockLists, w, V, M

\* What an answer to getblocks holds is what the asker reads of it:
\* serialize_stored_blocks and deserialize_stored_blocks agree.  A payload is
\* read to the blocks it was written from and to nothing else; and what a node
\* answers from a place of its chain is read to the blocks of the chain from
\* there on, as many as were asked for or all that follow.
THEOREM BlocksAreExact ==
    /\ \A s \in Seq(Byte) : Len(s) <= MaxPayload =>
          ReadBlocks(s) = {q \in Lists(SentBlocks, MaxBlocksPerResponse) :
                              s \in WriteBlocks(q, 0, MaxBlocksPerResponse)}
    /\ \A blocks \in Seq(SentBlocks) : \A begin \in Nat, most \in 0 .. MaxBlocksPerResponse :
          \A s \in WriteBlocks(blocks, begin, most) :
             \E n \in 0 .. most :
                /\ begin + n <= Len(blocks) /\ (n = most \/ begin + n = Len(blocks))
                /\ ReadBlocks(s) = {SubSeq(blocks, begin + 1, begin + n)}
<1> DEFINE V == SentBlocks
           M == MaxBlocksPerResponse
           Number0(blocks, begin, most) ==
               IF most < Len(blocks) - begin THEN most ELSE Len(blocks) - begin
           Part(blocks, begin, n) == SubSeq(blocks, begin + 1, begin + n)
<1>1. M \in Nat
  BY SizesAssumption
<1>2. ASSUME NEW blocks, NEW begin, NEW most
      PROVE  WriteBlocks(blocks, begin, most) =
               IF begin > Len(blocks) THEN {}
               ELSE {s \in BlocksString(Part(blocks, begin, Number0(blocks, begin, most))) :
                        Len(s) <= MaxPayload}
  BY DEF WriteBlocks, BlocksString, Joined, Throw
<1>3. ASSUME NEW blocks \in Seq(V), NEW begin \in Nat, NEW most \in 0 .. M, begin <= Len(blocks)
      PROVE  LET n == Number0(blocks, begin, most)
             IN  /\ n \in 0 .. most /\ begin + n <= Len(blocks)
                 /\ n = most \/ begin + n = Len(blocks)
                 /\ Part(blocks, begin, n) \in Lists(V, M)
                 /\ Len(Part(blocks, begin, n)) = n
                 /\ WriteBlocks(blocks, begin, most) =
                      {s \in {BlockLists[Part(blocks, begin, n)]} : Len(s) <= MaxPayload}
  <2> DEFINE n == Number0(blocks, begin, most)
             part == Part(blocks, begin, n)
  <2>1. Len(blocks) \in Nat
    BY LenProperties
  <2>2. n \in 0 .. most /\ n \in Nat /\ begin + n <= Len(blocks) /\ (n = most \/ begin + n = Len(blocks))
    BY <1>1, <1>3, <2>1
  <2> HIDE DEF n
  <2>3. part \in Seq(V) /\ Len(part) = n
    <3> HIDE DEF V
    <3> QED BY <2>2, PartOfSeq
  <2> HIDE DEF part
  <2>4. part \in Lists(V, M)
    BY <1>1, <2>2, <2>3 DEF Lists
  <2>5. BlocksString(part) = {BlockLists[part]}
    BY <2>4, SentWritten
  <2>6. ~(begin > Len(blocks))
    BY <1>3, <2>1
  <2>7. WriteBlocks(blocks, begin, most) = {s \in {BlockLists[part]} : Len(s) <= MaxPayload}
    BY <1>2, <2>5, <2>6 DEF part, n
  <2> QED BY <2>2, <2>3, <2>4, <2>7 DEF n, part
<1>4. ASSUME NEW q \in Lists(V, M)
      PROVE  WriteBlocks(q, 0, M) = {s \in {BlockLists[q]} : Len(s) <= MaxPayload}
  <2>1. q \in Seq(V) /\ Len(q) <= M
    BY DEF Lists
  <2>2. Len(q) \in Nat
    BY <2>1, LenProperties
  <2>3. Part(q, 0, Len(q)) = q
    <3>1. SubSeq(q, 1, Len(q)) = q
      <4>1. /\ SubSeq(q, 0 + 1, 0 + Len(q)) \in Seq(V) /\ Len(SubSeq(q, 0 + 1, 0 + Len(q))) = Len(q)
        BY <2>1, <2>2, PartOfSeq
      <4>2. \A i \in 1 .. Len(q) : SubSeq(q, 1, Len(q))[i] = q[i]
        BY <2>1, <2>2
      <4> QED BY <2>1, <2>2, <4>1, <4>2, SeqEqual
    <3> QED BY <2>2, <3>1
  <2>4. Number0(q, 0, M) = Len(q)
    BY <1>1, <2>1, <2>2
  <2>5. 0 \in Nat /\ M \in 0 .. M /\ 0 <= Len(q)
    BY <1>1, <2>2
  <2> HIDE DEF Part, Number0, V, M
  <2> QED BY <1>3, <2>1, <2>3, <2>4, <2>5
<1>5. ASSUME NEW s \in Seq(Byte), Len(s) <= MaxPayload
      PROVE  ReadBlocks(s) = {q \in Lists(V, M) : s \in WriteBlocks(q, 0, M)}
  <2>1. ReadBlocks(s) = {q \in Lists(V, M) : BlockLists[q] = s}
    BY ReadBlocksExact
  <2> HIDE DEF V, M
  <2>2. \A q \in Lists(V, M) : s \in WriteBlocks(q, 0, M) <=> BlockLists[q] = s
    BY <1>4, <1>5
  <2> QED BY <2>1, <2>2
<1>6. ASSUME NEW blocks \in Seq(V), NEW begin \in Nat, NEW most \in 0 .. M,
             NEW s \in WriteBlocks(blocks, begin, most)
      PROVE  \E n \in 0 .. most :
                /\ begin + n <= Len(blocks) /\ (n = most \/ begin + n = Len(blocks))
                /\ ReadBlocks(s) = {Part(blocks, begin, n)}
  <2>1. begin <= Len(blocks)
    <3>1. ~(begin > Len(blocks)) /\ Len(blocks) \in Nat
      BY <1>2, <1>6, LenProperties
    <3> QED BY <3>1
  <2> DEFINE n == Number0(blocks, begin, most)
             part == Part(blocks, begin, n)
  <2>2. /\ n \in 0 .. most /\ begin + n <= Len(blocks) /\ (n = most \/ begin + n = Len(blocks))
        /\ part \in Lists(V, M)
        /\ WriteBlocks(blocks, begin, most) = {t \in {BlockLists[part]} : Len(t) <= MaxPayload}
    <3> HIDE DEF Number0, Part, V, M
    <3> QED BY <1>3, <2>1
  <2> HIDE DEF part, n, Number0
  <2>3. s = BlockLists[part]
    BY <1>6, <2>2
  <2>4. s \in Seq(Byte)
    BY <2>2, <2>3, SentWritten
  <2>5. /\ ReadBlocks(s) = {q \in Lists(V, M) : BlockLists[q] = s}
        /\ \A p, q \in Lists(V, M) : BlockLists[p] = s /\ BlockLists[q] = s => p = q
    BY <2>4, ReadBlocksExact
  <2>6. ReadBlocks(s) = {part}
    <3> HIDE DEF V, M
    <3> QED BY <2>2, <2>3, <2>5
  <2> QED BY <2>2, <2>6 DEF part
<1> QED BY <1>5, <1>6

\* What r reads of some values only.
Only(r, W) == {x \in r : x.v \in W}
OnlyWritten(w, W) == [v \in W |-> w[v]]

\* A reader that refuses some values is exact for the others.
LEMMA OnlyExact ==
    ASSUME NEW s, NEW at, NEW r, NEW V, NEW w, Writer(w, V), Exactly(r, s, at, w), NEW W \in SUBSET V
    PROVE  Writer(OnlyWritten(w, W), W) /\ Exactly(Only(r, W), s, at, OnlyWritten(w, W))
<1> DEFINE u == OnlyWritten(w, W)
           q == Only(r, W)
<1>1. DOMAIN w = V /\ \A v \in V : w[v] \in Seq(Byte)
  BY DEF Writer
<1>2. DOMAIN u = W /\ \A v \in W : u[v] = w[v] /\ v \in V
  BY DEF OnlyWritten
<1>3. Writer(u, W)
  <2>1. \A v \in W : w[v] \in Seq(Byte)
    BY <1>1
  <2> QED BY <2>1 DEF OnlyWritten, Writer
<1>4. \A x : x \in q <=> x \in r /\ x.v \in W
  BY DEF Only
<1> HIDE DEF u, q
<1>5. ASSUME NEW x \in q
      PROVE  x.v \in DOMAIN u /\ Stands(u[x.v], s, at) /\ x.at = at + Len(u[x.v]) /\ x.at \in 0 .. Len(s)
  <2>1. x \in r /\ x.v \in W
    BY <1>4
  <2>2. Stands(w[x.v], s, at) /\ x.at = at + Len(w[x.v]) /\ x.at \in 0 .. Len(s)
    BY <2>1 DEF Exactly
  <2> QED BY <1>2, <2>1, <2>2
<1>6. ASSUME NEW v \in W, Stands(u[v], s, at) PROVE q = Got(v, at + Len(u[v]))
  <2> DEFINE z == [v |-> v, at |-> at + Len(u[v])]
  <2>1. r = {z}
    BY <1>1, <1>2, <1>6 DEF Exactly, Got
  <2>2. z.v \in W
    OBVIOUS
  <2>3. {z} = Got(v, at + Len(u[v]))
    BY DEF Got
  <2> HIDE DEF z
  <2> QED BY <1>4, <2>1, <2>2, <2>3
<1>7. Exactly(q, s, at, u)
  BY <1>2, <1>5, <1>6 DEF Exactly
<1> QED BY <1>3, <1>7 DEF u, q

\* What is written of each item of a list, and a list with its count.
EachOf(P, q) == [i \in 1 .. Len(q) |-> P[q[i]]]
WithCount(q, parts) == {Compact(Len(q)) \o all : all \in Linked(parts)}

\* A list of items that are each written to one string is written to one.
LEMMA ListedOnce ==
    ASSUME NEW V, NEW w, Writer(w, V), NEW limit, NEW q \in Lists(V, limit), NEW P, OneEach(P, V, w)
    PROVE  WithCount(q, EachOf(P, q)) = {ListWritten(w, limit)[q]}
<1>1. DOMAIN w = V
  BY DEF Writer
<1>2. q \in Seq(V) /\ q \in Lists(DOMAIN w, limit)
  BY <1>1 DEF Lists
<1>3. ListWritten(w, limit)[q] = Compact(Len(q)) \o Flat(Images(w, q))
  BY <1>2 DEF ListWritten
<1>4. Linked(EachOf(P, q)) = {Flat(Images(w, q))}
  <2>1. Linked([i \in 1 .. Len(q) |-> P[q[i]]]) = {Flat(Images(w, q))}
    BY <1>2, JoinedImages
  <2> QED BY <2>1 DEF EachOf
<1>5. {Compact(Len(q)) \o all : all \in {Flat(Images(w, q))}} = {Compact(Len(q)) \o Flat(Images(w, q))}
  OBVIOUS
<1> QED BY <1>3, <1>4, <1>5 DEF WithCount

\* Where a list is read from what is written of it, what is written of it is a string.
LEMMA ListWriter ==
    ASSUME NEW V, NEW w, Writer(w, V), NEW limit \in Nat, limit < Power(W64),
           NEW q \in Lists(V, limit)
    PROVE  ListWritten(w, limit)[q] \in Seq(Byte)
<1> DEFINE items == Flat(Images(w, q))
<1>1. DOMAIN w = V
  BY DEF Writer
<1>2. q \in Seq(V) /\ q \in Lists(DOMAIN w, limit) /\ Len(q) <= limit
  BY <1>1 DEF Lists
<1>3. ListWritten(w, limit)[q] = Compact(Len(q)) \o items
  BY <1>2 DEF ListWritten
<1>4. items \in Seq(Byte)
  BY <1>2, ImagesWritten
<1>5. Len(q) \in Unsigned(W64)
  <2>1. Len(q) \in Nat /\ W64 \in Nat /\ Power(W64) \in Nat
    BY <1>2, LenProperties, PowerFacts, SizesAssumption
  <2> QED BY <1>2, <2>1 DEF Unsigned
<1>6. Compact(Len(q)) \in Seq(Byte)
  BY <1>5, CompactForms
<1> HIDE DEF items
<1> QED BY <1>3, <1>4, <1>6, ConcatProperties

\* A request for headers: the hashes a chain is located by, and the last wanted.
LocatorLists == ListWritten(Hashes, MaxLocator)
Requests == [locator : Lists(Strings(HashSize), MaxLocator), stop : Strings(HashSize)]
RequestRecords == [locator : Seq(Strings(HashSize)), stop : Strings(HashSize)]
RequestBytes(request) == LocatorLists[request.locator] \o Wire(request.stop)
RequestsWritten == [request \in Requests |-> RequestBytes(request)]

ReadRequest(s) ==
    Then(ReadList(s, 0, MaxLocator, ReadHash), LAMBDA locator, a :
        Then(ReadHash(s, a), LAMBDA final, b : Got([locator |-> locator, stop |-> final], b)))

\* A request with hashes to locate by has one string, one without has none.
LEMMA RequestWritten ==
    ASSUME NEW request \in Requests
    PROVE  /\ RequestBytes(request) \in Seq(Byte)
           /\ WriteGetHeaders(request) = IF request.locator = <<>> THEN {} ELSE {RequestBytes(request)}
<1> DEFINE V == Strings(HashSize)
           w == Hashes
           q == request.locator
           final == request.stop
           One(hash) == {Wire(hash)}
           P == [v \in V |-> One(v)]
           parts == [i \in 1 .. Len(q) |-> One(q[i])]
           all0 == WithCount(q, parts)
           tail == Wire(final)
<1>1. MaxLocator \in Nat /\ MaxLocator < Power(W64) /\ W32 \in Nat
  BY SizesAssumption
<1>2. q \in Lists(V, MaxLocator) /\ final \in V /\ q \in Seq(V) /\ Len(q) <= MaxLocator
  BY DEF Requests, Lists
<1>3. Writer(w, V)
  BY <1>1, IntegerWriters
<1>4. \A v \in V : w[v] = Wire(v)
  BY DEF Hashes
<1>5. tail \in Seq(Byte)
  BY <1>2, <1>3, <1>4 DEF Writer
<1>6. LocatorLists[q] \in Seq(Byte)
  <2> HIDE DEF V, w, q
  <2>1. ListWritten(w, MaxLocator)[q] \in Seq(Byte)
    BY <1>1, <1>2, <1>3, ListWriter
  <2> QED BY <2>1 DEF LocatorLists, w
<1>7. \A v \in V : P[v] = {w[v]}
  BY <1>4
<1>8. parts = EachOf(P, q)
  <2>1. \A i \in 1 .. Len(q) : q[i] \in V
    <3> HIDE DEF q, V
    <3> QED BY <1>2, ElementOfSeq
  <2>2. \A i \in 1 .. Len(q) : P[q[i]] = One(q[i])
    BY <2>1
  <2> HIDE DEF P, One, V, q
  <2> QED BY <2>2 DEF EachOf
<1>9. WriteGetHeaders(request)
        = IF Len(q) \notin 1 .. MaxLocator THEN {}
          ELSE {Compact(Len(q)) \o all \o tail : all \in Linked(parts)}
  BY DEF WriteGetHeaders, Joined, Throw
<1>10. RequestBytes(request) = LocatorLists[q] \o tail
  BY DEF RequestBytes
<1> HIDE DEF V, w, q, final, One, P, parts, tail
<1>11. all0 = {LocatorLists[q]}
  <2>1. OneEach(P, V, w)
    BY <1>7 DEF OneEach
  <2>2. WithCount(q, EachOf(P, q)) = {ListWritten(w, MaxLocator)[q]}
    BY <1>2, <1>3, <2>1, ListedOnce
  <2> QED BY <1>8, <2>2 DEF LocatorLists, w
<1>12. {Compact(Len(q)) \o all \o tail : all \in Linked(parts)} = {x \o tail : x \in all0}
  BY DEF WithCount
<1>13. {x \o tail : x \in {LocatorLists[q]}} = {LocatorLists[q] \o tail}
  OBVIOUS
<1>14. Len(q) \notin 1 .. MaxLocator <=> q = <<>>
  <2>1. Len(q) \in Nat
    BY <1>2, LenProperties
  <2>2. Len(q) = 0 <=> q = <<>>
    BY <1>2, EmptySeq
  <2> QED BY <1>1, <1>2, <2>1, <2>2
<1>15. RequestBytes(request) \in Seq(Byte)
  BY <1>5, <1>6, <1>10, ConcatProperties
<1>16. WriteGetHeaders(request) = IF q = <<>> THEN {} ELSE {RequestBytes(request)}
  <2> HIDE DEF all0
  <2>1. WriteGetHeaders(request) = IF q = <<>> THEN {} ELSE {x \o tail : x \in all0}
    BY <1>9, <1>12, <1>14
  <2> QED BY <1>10, <1>11, <1>13, <2>1
<1> QED BY <1>15, <1>16 DEF q

\* The hashes and the last one are read from what is written of them.
LEMMA RequestExact ==
    ASSUME NEW s \in Seq(Byte)
    PROVE  Exactly(ReadRequest(s), s, 0, RequestsWritten)
<1> DEFINE n == Len(s)
           V == Strings(HashSize)
           V1 == Lists(V, MaxLocator)
           w1 == LocatorLists
           F == [a \in 0 .. n |-> ReadHash(s, a)]
           r == CountedList(ReadCompact(s, 0), MaxLocator, F)
           name == [p \in V1 \X V |-> [locator |-> p[1], stop |-> p[2]]]
<1>1. MaxLocator \in Nat /\ MaxLocator < Power(W64) /\ W32 \in Nat /\ 0 \in 0 .. n
  BY SizesAssumption, LenProperties
<1>2. Writer(Hashes, V) /\ \A v \in V : Hashes[v] = Wire(v)
  BY <1>1, IntegerWriters DEF Hashes
<1>3. \A a \in 0 .. n : Exactly(ReadHash(s, a), s, a, Hashes)
  BY ReadHashExact
<1>4. Everywhere(F, s, Hashes)
  BY <1>3 DEF Everywhere
<1>5. Writer(w1, V1) /\ Exactly(r, s, 0, w1)
  <2> DEFINE w == Hashes
  <2>1. Writer(w, V) /\ Everywhere(F, s, w)
    BY <1>2, <1>4
  <2> HIDE DEF w, V, F, n
  <2>2. 0 \in 0 .. Len(s)
    BY <1>1 DEF n
  <2>3. Writer(ListWritten(w, MaxLocator), V1) /\ Exactly(r, s, 0, ListWritten(w, MaxLocator))
    BY <1>1, <2>1, <2>2, ListExact
  <2> QED BY <2>3 DEF LocatorLists, w
<1>6. Renames(name, Joint(w1, Hashes), RequestsWritten)
  <2>1. DOMAIN w1 = V1 /\ DOMAIN Hashes = V
    BY <1>2, <1>5 DEF Writer
  <2> HIDE DEF V1, V, w1
  <2>2. Joint(w1, Hashes) = [p \in V1 \X V |-> w1[p[1]] \o Hashes[p[2]]]
    BY <2>1 DEF Joint
  <2>3. ASSUME NEW p \in V1 \X V
        PROVE  name[p] \in Requests /\ RequestsWritten[name[p]] = w1[p[1]] \o Hashes[p[2]]
    <3>1. p[1] \in V1 /\ p[2] \in V /\ name[p] = [locator |-> p[1], stop |-> p[2]]
      OBVIOUS
    <3>2. name[p] \in Requests /\ name[p].locator = p[1] /\ name[p].stop = p[2]
      BY <3>1 DEF Requests, V1, V
    <3> HIDE DEF name
    <3>3. RequestsWritten[name[p]] = LocatorLists[p[1]] \o Wire(p[2])
      BY <3>2 DEF RequestsWritten, RequestBytes
    <3>4. w1[p[1]] = LocatorLists[p[1]] /\ Hashes[p[2]] = Wire(p[2])
      BY <1>2, <3>1 DEF w1
    <3> QED BY <3>2, <3>3, <3>4
  <2>4. ASSUME NEW o \in Requests PROVE \E p \in V1 \X V : name[p] = o
    <3>1. o.locator \in V1 /\ o.stop \in V /\ o = [locator |-> o.locator, stop |-> o.stop]
      BY DEF Requests, V1, V
    <3>2. <<o.locator, o.stop>> \in V1 \X V /\ name[<<o.locator, o.stop>>] = o
      BY <3>1
    <3> QED BY <3>2
  <2>5. DOMAIN RequestsWritten = Requests
    BY DEF RequestsWritten
  <2> HIDE DEF name
  <2> QED BY <2>2, <2>3, <2>4, <2>5 DEF Renames
<1>7. ReadRequest(s) = Two(name, r, F)
  <2> DEFINE X(x) == UNION {Got(name[<<x.v, y.v>>], y.at) : y \in F[x.at]}
             Z(x) == UNION {Got([locator |-> x.v, stop |-> y.v], y.at) : y \in ReadHash(s, x.at)}
  <2>1. ReadRequest(s) = UNION {Z(x) : x \in r}
    BY DEF ReadRequest, ReadList, ReadMany, Then, Throw, CountedList
  <2>2. Two(name, r, F) = UNION {X(x) : x \in r}
    BY DEF Two
  <2>3. ASSUME NEW x \in r PROVE X(x) = Z(x)
    <3>1. x.v \in V1 /\ x.at \in 0 .. n
      BY <1>5 DEF Exactly, Writer
    <3>2. F[x.at] = ReadHash(s, x.at)
      BY <3>1
    <3>3. \A y \in ReadHash(s, x.at) : y.v \in V
      BY <1>2, <1>3, <3>1 DEF Exactly, Writer
    <3>4. \A y \in ReadHash(s, x.at) : name[<<x.v, y.v>>] = [locator |-> x.v, stop |-> y.v]
      BY <3>1, <3>3
    <3> HIDE DEF name, F, r, V1, V
    <3> QED BY <3>2, <3>4
  <2> HIDE DEF X, Z, r
  <2> QED BY <2>1, <2>2, <2>3
<1> HIDE DEF r, F, name, w1, V1, V, n
<1>8. 0 \in 0 .. Len(s)
  BY <1>1 DEF n
<1>9. Exactly(Two(name, r, F), s, 0, RequestsWritten)
  BY <1>2, <1>4, <1>5, <1>6, <1>8, TwoExact
<1> QED BY <1>7, <1>9

\* A getheaders payload is read to the request it was written from and to nothing
\* else: serialize_getheaders and deserialize_getheaders agree, and neither lets an
\* empty locator or one beyond the limit pass.
THEOREM GetHeadersAreExact ==
    /\ \A s \in Seq(Byte) :
          ReadGetHeaders(s) = {request \in RequestRecords : s \in WriteGetHeaders(request)}
    /\ \A request \in RequestRecords :
          IF Len(request.locator) \in 1 .. MaxLocator
          THEN \E s \in Seq(Byte) : WriteGetHeaders(request) = {s} /\ ReadGetHeaders(s) = {request}
          ELSE WriteGetHeaders(request) = {}
<1> DEFINE V == Strings(HashSize)
           R == RequestRecords
           Written(q) == RequestsWritten[q]
<1>1. MaxLocator \in Nat
  BY SizesAssumption
<1>2. \A q : q \in Requests <=> q \in R /\ Len(q.locator) <= MaxLocator
  BY DEF Requests, RequestRecords, Lists
<1>3. \A q \in R : Len(q.locator) \in Nat /\ (q.locator = <<>> <=> Len(q.locator) = 0)
  <2> SUFFICES ASSUME NEW q \in R PROVE Len(q.locator) \in Nat /\ (q.locator = <<>> <=> Len(q.locator) = 0)
    OBVIOUS
  <2>1. q.locator \in Seq(V)
    BY DEF RequestRecords
  <2> QED BY <2>1, LenProperties, EmptySeq
<1>4. \A q \in R : q \notin Requests => WriteGetHeaders(q) = {}
  <2>1. ASSUME NEW q, Len(q.locator) \notin 1 .. MaxLocator PROVE WriteGetHeaders(q) = {}
    BY <2>1 DEF WriteGetHeaders, Throw
  <2>2. \A q \in R : q \notin Requests => Len(q.locator) \notin 1 .. MaxLocator
    BY <1>1, <1>2, <1>3
  <2> QED BY <2>1, <2>2
<1>5. \A q \in Requests : Written(q) = RequestBytes(q)
  BY DEF RequestsWritten
<1> HIDE DEF R, V, Written
<1>6. ASSUME NEW s \in Seq(Byte)
      PROVE  /\ ReadGetHeaders(s) = {q \in R : s \in WriteGetHeaders(q)}
             /\ \A p, q \in Requests : RequestBytes(p) = s /\ RequestBytes(q) = s => p = q
  <2>1. Writer(RequestsWritten, Requests)
    BY RequestWritten DEF Writer, RequestsWritten
  <2>2. Exactly(ReadRequest(s), s, 0, RequestsWritten)
    BY RequestExact
  <2>3. /\ Whole(s, ReadRequest(s)) = {q \in Requests : RequestsWritten[q] = s}
        /\ \A p, q \in Requests : RequestsWritten[p] = s /\ RequestsWritten[q] = s => p = q
    BY <2>1, <2>2, WholeExact
  <2>4. ReadGetHeaders(s) = {q \in Whole(s, ReadRequest(s)) : q.locator # <<>>}
    BY DEF ReadGetHeaders, ReadRequest
  <2>5. \A q \in Requests : s \in WriteGetHeaders(q) <=> q.locator # <<>> /\ RequestsWritten[q] = s
    BY <1>5, RequestWritten DEF Written
  <2>6. ReadGetHeaders(s) = {q \in Requests : s \in WriteGetHeaders(q)}
    BY <2>3, <2>4, <2>5
  <2>7. {q \in Requests : s \in WriteGetHeaders(q)} = {q \in R : s \in WriteGetHeaders(q)}
    BY <1>2, <1>4
  <2> QED BY <1>5, <2>3, <2>6, <2>7 DEF Written
<1>7. ASSUME NEW q \in R, Len(q.locator) \in 1 .. MaxLocator
      PROVE  \E s \in Seq(Byte) : WriteGetHeaders(q) = {s} /\ ReadGetHeaders(s) = {q}
  <2> DEFINE s == RequestBytes(q)
  <2>1. q \in Requests /\ q.locator # <<>>
    BY <1>1, <1>2, <1>3, <1>7
  <2>2. s \in Seq(Byte) /\ WriteGetHeaders(q) = {s}
    BY <2>1, RequestWritten
  <2>3. \A p \in R : s \in WriteGetHeaders(p) => p = q
    <3>1. \A p \in R : s \in WriteGetHeaders(p) => p \in Requests /\ RequestBytes(p) = s
      BY <1>4, RequestWritten
    <3> QED BY <1>6, <2>1, <2>2, <3>1
  <2> HIDE DEF s
  <2>4. ReadGetHeaders(s) = {q}
    BY <1>6, <2>2, <2>3
  <2> QED BY <2>2, <2>4
<1>8. ASSUME NEW q \in R, Len(q.locator) \notin 1 .. MaxLocator PROVE WriteGetHeaders(q) = {}
  BY <1>8 DEF WriteGetHeaders, Throw
<1>9. \A q \in R : IF Len(q.locator) \in 1 .. MaxLocator
                   THEN \E s \in Seq(Byte) : WriteGetHeaders(q) = {s} /\ ReadGetHeaders(s) = {q}
                   ELSE WriteGetHeaders(q) = {}
  BY <1>7, <1>8
<1> QED BY <1>6, <1>9 DEF R

\* What is written of the values of B, and that nothing is of the others of Q.
Writes(W, Q, B, u) == \A q \in Q : W[q] = IF q \in B THEN {u[q]} ELSE {}

\* A reader of whole strings agrees with a writer that bounds what it writes.
LEMMA Agreement ==
    ASSUME NEW Q, NEW B \in SUBSET Q, NEW u, Writer(u, B), Unlike(u),
           NEW W, Writes(W, Q, B, u), NEW R, Parses(R, Seq(Byte), u)
    PROVE  /\ \A s \in Seq(Byte) : R[s] = {q \in Q : s \in W[q]}
           /\ \A q \in B : \E s \in Seq(Byte) : W[q] = {s} /\ R[s] = {q}
           /\ \A q \in Q : q \notin B => W[q] = {}
<1>1. DOMAIN u = B /\ \A q \in B : u[q] \in Seq(Byte)
  BY DEF Writer
<1>2. \A q \in Q : W[q] = IF q \in B THEN {u[q]} ELSE {}
  BY DEF Writes
<1>3. \A s \in Seq(Byte) : R[s] = {q \in B : u[q] = s}
  <2> SUFFICES ASSUME NEW s \in Seq(Byte) PROVE R[s] = {q \in B : u[q] = s}
    OBVIOUS
  <2>1. R[s] = {q \in DOMAIN u : u[q] = s}
    BY DEF Parses
  <2> QED BY <1>1, <2>1
<1>4. ASSUME NEW s \in Seq(Byte) PROVE R[s] = {q \in Q : s \in W[q]}
  <2>1. R[s] = {q \in B : u[q] = s}
    BY <1>3
  <2>2. \A q \in Q : s \in W[q] <=> q \in B /\ u[q] = s
    BY <1>2
  <2> QED BY <2>1, <2>2
<1>5. ASSUME NEW q \in B PROVE \E s \in Seq(Byte) : W[q] = {s} /\ R[s] = {q}
  <2>1. u[q] \in Seq(Byte) /\ W[q] = {u[q]}
    BY <1>1, <1>2
  <2>2. \A p \in B : u[p] = u[q] => p = q
    BY <1>1 DEF Unlike
  <2>3. R[u[q]] = {q}
    BY <1>3, <2>1, <2>2
  <2> QED BY <2>1, <2>3
<1> QED BY <1>2, <1>4, <1>5

\* A payload that is a list is read to the list that is written as it.
LEMMA WholeList ==
    ASSUME NEW s \in Seq(Byte), NEW limit \in Nat, limit < Power(W64),
           NEW V, NEW w, Writer(w, V), NEW F, Everywhere(F, s, w)
    PROVE  /\ Whole(s, CountedList(ReadCompact(s, 0), limit, F))
                = {q \in Lists(V, limit) : ListWritten(w, limit)[q] = s}
           /\ \A p, q \in Lists(V, limit) :
                 ListWritten(w, limit)[p] = s /\ ListWritten(w, limit)[q] = s => p = q
<1> DEFINE r == CountedList(ReadCompact(s, 0), limit, F)
           Q == Lists(V, limit)
           u == ListWritten(w, limit)
<1>1. 0 \in 0 .. Len(s)
  BY LenProperties
<1>2. Writer(u, Q) /\ Exactly(r, s, 0, u)
  BY <1>1, ListExact
<1> HIDE DEF r, Q, u
<1>3. /\ Whole(s, r) = {q \in Q : u[q] = s}
      /\ \A p, q \in Q : u[p] = s /\ u[q] = s => p = q
  BY <1>2, WholeExact
<1> QED BY <1>3 DEF r, Q, u

Couples(A1, A2) == {<<a, b>> : a \in A1, b \in A2}

\* Two fields of any types are written one after the other.
LEMMA TwoFields ==
    ASSUME NEW t1 \in FieldTypes, NEW t2 \in FieldTypes
    PROVE  /\ <<t1, t2>> \in Seq(FieldTypes)
           /\ Writer(FieldsWritten(<<t1, t2>>), Couples(DOMAIN Field(t1), DOMAIN Field(t2)))
           /\ \A a \in DOMAIN Field(t1), b \in DOMAIN Field(t2) :
                 FieldsWritten(<<t1, t2>>)[<<a, b>>] = Field(t1)[a] \o Field(t2)[b]
<1> DEFINE types == <<t1, t2>>
           f1 == Field(t1)
           f2 == Field(t2)
           A1 == DOMAIN f1
           A2 == DOMAIN f2
           fw == FieldWriters(types)
           fv == FieldValues(types)
           row == FieldsWritten(types)
           All == Couples(A1, A2)
           none == <<>>
<1>1. types \in Seq(FieldTypes) /\ Len(types) = 2 /\ types[1] = t1 /\ types[2] = t2
  OBVIOUS
<1>2. none \in Seq(Byte) /\ 0 \in 0 .. Len(none)
  OBVIOUS
<1> HIDE DEF types, none
<1>3. Writer(f1, A1) /\ Writer(f2, A2)
  BY <1>2, FieldExact
<1>4. fw = [k \in 1 .. 2 |-> Field(types[k])] /\ fv = [k \in 1 .. 2 |-> DOMAIN Field(types[k])]
  BY <1>1 DEF FieldWriters, FieldValues
<1>5. fw[1] = f1 /\ fw[2] = f2
  BY <1>1, <1>4
<1>6. fv[1] = A1 /\ fv[2] = A2 /\ DOMAIN fv = 1 .. 2 /\ fv = [k \in 1 .. 2 |-> fv[k]]
  BY <1>1, <1>4
<1> HIDE DEF fw, fv, f1, f2, A1, A2
<1>7. fv = <<A1, A2>>
  BY <1>6
<1>8. Rows(fv, 2) = All
  BY <1>7, TwoInARow DEF Couples
<1>9. row \in [Rows(fv, Len(types)) -> Seq(Byte)]
  BY <1>1, <1>2, FieldsExact DEF fv
<1>10. DOMAIN row = All /\ \A q \in All : row[q] = Flat(Cells(fw, q))
  BY <1>1, <1>8 DEF FieldsWritten, RowsWritten, fv, fw
<1>11. Writer(row, All)
  BY <1>1, <1>8, <1>9 DEF Writer
<1> HIDE DEF row
<1>12. ASSUME NEW a \in A1, NEW b \in A2 PROVE row[<<a, b>>] = f1[a] \o f2[b]
  <2> DEFINE q == <<a, b>>
             c == f1[a]
             d == f2[b]
             g == [i \in 1 .. 2 |-> fw[i][q[i]]]
  <2>1. q \in All /\ Len(q) = 2 /\ q[1] = a /\ q[2] = b
    BY DEF Couples
  <2>2. c \in Seq(Byte) /\ d \in Seq(Byte)
    BY <1>3 DEF Writer
  <2>3. Cells(fw, q) = g
    BY <2>1 DEF Cells
  <2> HIDE DEF q, All
  <2>4. g[1] = c /\ g[2] = d
    BY <1>5, <2>1
  <2>5. DOMAIN g = 1 .. 2 /\ g = [i \in 1 .. 2 |-> g[i]]
    OBVIOUS
  <2> HIDE DEF g, c, d
  <2>6. g = <<c, d>>
    BY <2>4, <2>5
  <2>7. Flat(<<c, d>>) = c \o d
    BY <2>2, FlatTwo
  <2>8. row[q] = Flat(Cells(fw, q))
    BY <1>10, <2>1
  <2> QED BY <2>3, <2>6, <2>7, <2>8 DEF q, c, d
<1>13. \A a \in DOMAIN Field(t1), b \in DOMAIN Field(t2) :
          FieldsWritten(<<t1, t2>>)[<<a, b>>] = Field(t1)[a] \o Field(t2)[b]
  <2> HIDE DEF All
  <2> QED BY <1>12 DEF row, types, A1, A2, f1, f2
<1>14. Writer(FieldsWritten(<<t1, t2>>), Couples(DOMAIN Field(t1), DOMAIN Field(t2)))
  BY <1>11 DEF row, types, A1, A2, f1, f2
<1>15. <<t1, t2>> \in Seq(FieldTypes)
  BY <1>1 DEF types
<1> QED BY <1>13, <1>14, <1>15

\* What an inventory announces: the type and the hash of each thing.
InventoryItems == [type : InventoryType, hash : Strings(HashSize)]
ItemTypes == <<"u32", "hash">>
ItemBytes(item) == Number(item.type, W32) \o Wire(item.hash)
ItemsWritten == [item \in InventoryItems |-> ItemBytes(item)]
InventoryLists == ListWritten(ItemsWritten, MaxInventory)

ReadItem(s, at) ==
    Then(ReadFields(s, at, ItemTypes), LAMBDA f, a :
        IF f[1] \in InventoryType THEN Got([type |-> f[1], hash |-> f[2]], a) ELSE Throw)

\* An item is written as the bytes of two fields, of which the first is small.
LEMMA ItemsAreFields ==
    /\ ItemTypes \in Seq(FieldTypes)
    /\ Writer(FieldsWritten(ItemTypes), Couples(Unsigned(W32), Strings(HashSize)))
    /\ InventoryType \subseteq Unsigned(W32)
    /\ \A a \in Unsigned(W32), b \in Strings(HashSize) :
          FieldsWritten(ItemTypes)[<<a, b>>] = Number(a, W32) \o Wire(b)
<1> DEFINE f1 == "u32"
           f2 == "hash"
<1>1. f1 \in FieldTypes /\ f2 \in FieldTypes /\ ItemTypes = <<f1, f2>>
  BY DEF FieldTypes, ItemTypes
<1>2. /\ Field(f1) = Numbers(W32) /\ Field(f2) = Hashes
      /\ DOMAIN Numbers(W32) = Unsigned(W32) /\ DOMAIN Hashes = Strings(HashSize)
      /\ \A a \in Unsigned(W32) : Numbers(W32)[a] = Number(a, W32)
      /\ \A b \in Strings(HashSize) : Hashes[b] = Wire(b)
  BY DEF Field, Numbers, Hashes
<1>3. InventoryType \subseteq Unsigned(W32)
  BY Widths DEF InventoryType, Unsigned
<1> HIDE DEF f1, f2
<1>4. /\ <<f1, f2>> \in Seq(FieldTypes)
      /\ Writer(FieldsWritten(<<f1, f2>>), Couples(DOMAIN Field(f1), DOMAIN Field(f2)))
      /\ \A a \in DOMAIN Field(f1), b \in DOMAIN Field(f2) :
            FieldsWritten(<<f1, f2>>)[<<a, b>>] = Field(f1)[a] \o Field(f2)[b]
  BY <1>1, TwoFields
<1> QED BY <1>1, <1>2, <1>3, <1>4

\* An item is read from what is written of it, and one of another type is not.
LEMMA ItemExact ==
    ASSUME NEW s \in Seq(Byte), NEW at \in 0 .. Len(s)
    PROVE  Writer(ItemsWritten, InventoryItems) /\ Exactly(ReadItem(s, at), s, at, ItemsWritten)
<1> DEFINE V == Strings(HashSize)
           r == ReadFields(s, at, ItemTypes)
           w == FieldsWritten(ItemTypes)
           All == Couples(Unsigned(W32), V)
           W == Couples(InventoryType, V)
           q == Only(r, W)
           u == OnlyWritten(w, W)
           name == [p \in W |-> [type |-> p[1], hash |-> p[2]]]
<1>1. Writer(w, All) /\ Exactly(r, s, at, w)
  BY ItemsAreFields, FieldsExact
<1>2. W \in SUBSET All
  BY ItemsAreFields DEF Couples
<1>3. \A p \in W : w[p] = Number(p[1], W32) \o Wire(p[2])
  <2> SUFFICES ASSUME NEW p \in W PROVE w[p] = Number(p[1], W32) \o Wire(p[2])
    OBVIOUS
  <2>1. PICK a \in InventoryType : \E b \in V : p = <<a, b>>
    BY DEF Couples
  <2>2. PICK b \in V : p = <<a, b>>
    BY <2>1
  <2>3. a \in Unsigned(W32) /\ p[1] = a /\ p[2] = b
    BY <2>2, ItemsAreFields
  <2>4. w[<<a, b>>] = Number(a, W32) \o Wire(b)
    BY <2>3, ItemsAreFields
  <2> QED BY <2>2, <2>3, <2>4
<1> HIDE DEF w, r
<1>4. Writer(u, W) /\ Exactly(q, s, at, u)
  <2> HIDE DEF W, All
  <2> QED BY <1>1, <1>2, OnlyExact
<1>5. \A p \in W : u[p] = Number(p[1], W32) \o Wire(p[2])
  BY <1>3 DEF OnlyWritten
<1>6. \A p \in W : /\ p[1] \in InventoryType /\ p[2] \in V
                   /\ name[p] = [type |-> p[1], hash |-> p[2]]
  BY DEF Couples
<1>7. Renames(name, u, ItemsWritten)
  <2>1. DOMAIN u = W /\ DOMAIN ItemsWritten = InventoryItems
    BY DEF OnlyWritten, ItemsWritten
  <2>2. ASSUME NEW p \in W PROVE name[p] \in InventoryItems /\ ItemsWritten[name[p]] = u[p]
    <3>1. name[p] \in InventoryItems /\ name[p].type = p[1] /\ name[p].hash = p[2]
      BY <1>6 DEF InventoryItems
    <3> HIDE DEF name, u
    <3>2. ItemsWritten[name[p]] = Number(p[1], W32) \o Wire(p[2])
      BY <3>1 DEF ItemsWritten, ItemBytes
    <3> QED BY <1>5, <3>1, <3>2
  <2>3. ASSUME NEW o \in InventoryItems PROVE \E p \in W : name[p] = o
    <3>1. o.type \in InventoryType /\ o.hash \in V /\ o = [type |-> o.type, hash |-> o.hash]
      BY DEF InventoryItems
    <3>2. <<o.type, o.hash>> \in W
      BY <3>1 DEF Couples
    <3>3. name[<<o.type, o.hash>>] = o
      BY <3>1, <3>2
    <3> QED BY <3>2, <3>3
  <2> HIDE DEF name, u, W
  <2> QED BY <2>1, <2>2, <2>3 DEF Renames
<1>8. ReadItem(s, at) = Named(name, q)
  <2> DEFINE X(x) == IF x.v[1] \in InventoryType THEN Got([type |-> x.v[1], hash |-> x.v[2]], x.at) ELSE {}
             Y(x) == Got(name[x.v], x.at)
  <2>1. ReadItem(s, at) = UNION {X(x) : x \in r}
    BY DEF ReadItem, Then, Throw, r
  <2>2. Named(name, q) = UNION {Y(x) : x \in q}
    BY DEF Named
  <2>3. \A x : x \in q <=> x \in r /\ x.v \in W
    BY DEF Only
  <2>4. ASSUME NEW x \in r PROVE X(x) = IF x.v \in W THEN Y(x) ELSE {}
    <3>1. x.v \in All
      BY <1>1 DEF Exactly, Writer
    <3>2. PICK a \in Unsigned(W32) : \E b \in V : x.v = <<a, b>>
      BY <3>1 DEF Couples
    <3>3. PICK b \in V : x.v = <<a, b>>
      BY <3>2
    <3>4. x.v[1] = a /\ x.v[2] = b
      BY <3>3
    <3>5. x.v \in W <=> a \in InventoryType
      BY <1>6, <3>3, <3>4 DEF Couples
    <3>6. x.v \in W => name[x.v] = [type |-> a, hash |-> b]
      BY <1>6, <3>4
    <3> HIDE DEF W, name
    <3> QED BY <3>4, <3>5, <3>6
  <2> HIDE DEF X, Y, q, W
  <2> QED BY <2>1, <2>2, <2>3, <2>4
<1> HIDE DEF q, u, name, W
<1>9. Exactly(Named(name, q), s, at, ItemsWritten)
  <2> DEFINE z == Named(name, q)
  <2>1. z = UNION {Got(name[x.v], x.at) : x \in q}
    BY DEF Named
  <2> HIDE DEF z
  <2>2. Exactly(z, s, at, ItemsWritten)
    BY <1>4, <1>7, <2>1, Renamed
  <2> QED BY <2>2 DEF z
<1>10. Writer(ItemsWritten, InventoryItems)
  <2>1. \A o \in InventoryItems : ItemBytes(o) \in Seq(Byte)
    <3> SUFFICES ASSUME NEW o \in InventoryItems PROVE ItemBytes(o) \in Seq(Byte)
      OBVIOUS
    <3>1. o.type \in Unsigned(W32) /\ o.hash \in V
      BY ItemsAreFields DEF InventoryItems
    <3>2. W32 \in Nat
      BY SizesAssumption
    <3>3. Number(o.type, W32) \in Seq(Byte) /\ Wire(o.hash) \in Seq(Byte)
      BY <3>1, <3>2, IntegerWriters DEF Writer, Numbers, Hashes
    <3> QED BY <3>3, ConcatProperties DEF ItemBytes
  <2> QED BY <2>1 DEF Writer, ItemsWritten
<1> QED BY <1>8, <1>9, <1>10

\* An inventory within the limit has one string.
LEMMA InventoryWritten ==
    ASSUME NEW q \in Seq(InventoryItems)
    PROVE  WriteInventory(q) = IF Len(q) <= MaxInventory THEN {InventoryLists[q]} ELSE {}
<1> DEFINE V == InventoryItems
           w == ItemsWritten
           One(item) == {Number(item.type, W32) \o Wire(item.hash)}
           P == [v \in V |-> One(v)]
           parts == [i \in 1 .. Len(q) |-> One(q[i])]
           none == <<>>
<1>1. MaxInventory \in Nat /\ Len(q) \in Nat
  BY SizesAssumption, LenProperties
<1>2. none \in Seq(Byte) /\ 0 \in 0 .. Len(none)
  OBVIOUS
<1> HIDE DEF none
<1>3. Writer(w, V)
  BY <1>2, ItemExact
<1>4. \A v \in V : P[v] = {w[v]}
  BY DEF ItemsWritten, ItemBytes
<1>5. parts = EachOf(P, q)
  <2>1. \A i \in 1 .. Len(q) : q[i] \in V
    <3> HIDE DEF V
    <3> QED BY ElementOfSeq DEF V
  <2>2. \A i \in 1 .. Len(q) : P[q[i]] = One(q[i])
    BY <2>1
  <2> HIDE DEF P, One, V
  <2> QED BY <2>2 DEF EachOf
<1>6. WriteInventory(q) = IF Len(q) > MaxInventory THEN {} ELSE WithCount(q, parts)
  BY DEF WriteInventory, Joined, Throw, WithCount
<1>7. Len(q) <= MaxInventory => q \in Lists(V, MaxInventory)
  BY DEF Lists
<1> HIDE DEF V, w, One, P, parts
<1>8. ASSUME Len(q) <= MaxInventory PROVE WithCount(q, parts) = {InventoryLists[q]}
  <2>1. OneEach(P, V, w) /\ q \in Lists(V, MaxInventory)
    BY <1>4, <1>7, <1>8 DEF OneEach
  <2>2. WithCount(q, EachOf(P, q)) = {ListWritten(w, MaxInventory)[q]}
    BY <1>3, <2>1, ListedOnce
  <2> QED BY <1>5, <2>2 DEF InventoryLists, w
<1>9. Len(q) > MaxInventory <=> ~(Len(q) <= MaxInventory)
  BY <1>1
<1> DEFINE here == WriteInventory(q)
<1>10. CASE Len(q) <= MaxInventory
  <2>1. here = WithCount(q, parts)
    BY <1>6, <1>9, <1>10
  <2> QED BY <1>8, <1>10, <2>1
<1>11. CASE ~(Len(q) <= MaxInventory)
  BY <1>6, <1>9, <1>11
<1> QED BY <1>10, <1>11

\* An inventory is read to the things it was written from and to nothing else:
\* serialize_inventory and deserialize_inventory agree on every string, of any
\* length, types and hashes, and neither passes one beyond the limit.
THEOREM InventoriesAreExact ==
    /\ \A s \in Seq(Byte) :
          ReadInventory(s) = {q \in Seq(InventoryItems) : s \in WriteInventory(q)}
    /\ \A q \in Seq(InventoryItems) : Len(q) <= MaxInventory =>
          \E s \in Seq(Byte) : WriteInventory(q) = {s} /\ ReadInventory(s) = {q}
    /\ \A q \in Seq(InventoryItems) : Len(q) > MaxInventory => WriteInventory(q) = {}
<1> DEFINE V == InventoryItems
           M == MaxInventory
           w == ItemsWritten
           Q == Seq(V)
           B == Lists(V, M)
           u == ListWritten(w, M)
           W == [q \in Q |-> WriteInventory(q)]
           R == [s \in Seq(Byte) |-> ReadInventory(s)]
           none == <<>>
<1>1. M \in Nat /\ M < Power(W64)
  BY SizesAssumption
<1>2. none \in Seq(Byte) /\ 0 \in 0 .. Len(none)
  OBVIOUS
<1> HIDE DEF none
<1>3. Writer(w, V)
  BY <1>2, ItemExact
<1>4. B \in SUBSET Q /\ \A q \in Q : q \in B <=> Len(q) <= M
  BY DEF Lists
<1>5. ASSUME NEW s \in Seq(Byte)
      PROVE  /\ R[s] = {q \in B : u[q] = s}
             /\ \A p, q \in B : u[p] = s /\ u[q] = s => p = q
  <2> DEFINE F == [a \in 0 .. Len(s) |-> ReadItem(s, a)]
  <2>1. Everywhere(F, s, w)
    BY ItemExact DEF Everywhere
  <2>2. ReadInventory(s) = Whole(s, CountedList(ReadCompact(s, 0), M, F))
    BY DEF ReadInventory, ReadItem, ItemTypes, ReadList, ReadMany, Then, Throw, CountedList
  <2>3. R[s] = ReadInventory(s)
    OBVIOUS
  <2> HIDE DEF F, V, w, M, R
  <2>4. /\ Whole(s, CountedList(ReadCompact(s, 0), M, F)) = {q \in B : u[q] = s}
        /\ \A p, q \in B : u[p] = s /\ u[q] = s => p = q
    BY <1>1, <1>3, <2>1, WholeList
  <2> QED BY <2>2, <2>3, <2>4
<1>6. Writer(u, B)
  <2> SUFFICES \A q \in B : u[q] \in Seq(Byte)
    <3>1. DOMAIN u = B /\ u = [q \in B |-> u[q]]
      BY <1>3 DEF ListWritten, Writer
    <3> HIDE DEF u, B
    <3> QED BY <3>1 DEF Writer
  <2> HIDE DEF V, w, M
  <2> QED BY <1>1, <1>3, ListWriter
<1>7. DOMAIN u = B
  BY <1>3 DEF ListWritten, Writer
<1>8. \A q \in Q : W[q] = IF q \in B THEN {u[q]} ELSE {}
  <2> SUFFICES ASSUME NEW q \in Q PROVE W[q] = IF q \in B THEN {u[q]} ELSE {}
    OBVIOUS
  <2>1. W[q] = WriteInventory(q)
    OBVIOUS
  <2>2. WriteInventory(q) = IF Len(q) <= M THEN {u[q]} ELSE {}
    BY InventoryWritten DEF InventoryLists
  <2> HIDE DEF W, u, B, Q
  <2> QED BY <1>4, <2>1, <2>2
<1>9. /\ \A q \in Q : W[q] = WriteInventory(q)
      /\ \A s \in Seq(Byte) : R[s] = ReadInventory(s)
      /\ \A q \in Q : Len(q) \in Nat
  BY LenProperties
<1> HIDE DEF V, M, w, Q, B, u, W, R
<1>10. Writes(W, Q, B, u) /\ Parses(R, Seq(Byte), u) /\ Unlike(u)
  <2>1. Writes(W, Q, B, u)
    BY <1>8 DEF Writes
  <2>2. Parses(R, Seq(Byte), u)
    BY <1>5, <1>7 DEF Parses
  <2>3. Unlike(u)
    BY <1>5, <1>6, <1>7 DEF Unlike, Writer
  <2> QED BY <2>1, <2>2, <2>3
<1>11. /\ \A s \in Seq(Byte) : R[s] = {q \in Q : s \in W[q]}
       /\ \A q \in B : \E s \in Seq(Byte) : W[q] = {s} /\ R[s] = {q}
       /\ \A q \in Q : q \notin B => W[q] = {}
  BY <1>4, <1>6, <1>10, Agreement
<1>12. \A s \in Seq(Byte) : ReadInventory(s) = {q \in Q : s \in WriteInventory(q)}
  BY <1>9, <1>11
<1>13. \A q \in Q : Len(q) <= M => \E s \in Seq(Byte) : WriteInventory(q) = {s} /\ ReadInventory(s) = {q}
  BY <1>4, <1>9, <1>11
<1>14. \A q \in Q : Len(q) > M => WriteInventory(q) = {}
  <2>1. \A q \in Q : Len(q) > M => q \notin B
    BY <1>1, <1>4, <1>9
  <2> QED BY <1>9, <1>11, <2>1
<1> QED BY <1>12, <1>13, <1>14 DEF Q, V, M

\* What a list of headers sends: headers with their work, each with its height.
WorkedHeaders == {h \in HeaderRecords : h.bits = TestnetBits /\ h.nonce \in Solving}
SentHeaders == [height : Unsigned(W64), header : WorkedHeaders]
SentHeaderBytes(r) == Number(r.height, W64) \o (WriteHeader(r.header) \o Compact(0))
HeadersSent == [r \in SentHeaders |-> SentHeaderBytes(r)]
HeaderLists == ListWritten(HeadersSent, MaxHeadersSent)

ReadSentHeader(s, at) ==
    Then(ReadNumber(s, at, W64), LAMBDA height, a :
      Then(ReadBytes(s, a, HeaderSize), LAMBDA bytes, b :
        Then(ReadCompact(s, b), LAMBDA zero, c :
          UNION {IF zero = 0 /\ header.bits = TestnetBits /\ header.nonce \in Solving
                 THEN Got([height |-> height, header |-> header], c) ELSE Throw :
                 header \in ReadHeader(bytes)})))

\* What is read of one sent header.
OfSent(z, s, at) ==
    \E x \in ReadNumber(s, at, W64) : \E y \in ReadBytes(s, x.at, HeaderSize) :
      \E t \in ReadCompact(s, y.at) : \E h \in ReadHeader(y.v) :
        /\ t.v = 0 /\ h.bits = TestnetBits /\ h.nonce \in Solving
        /\ z = [v |-> [height |-> x.v, header |-> h], at |-> t.at]

\* The reader of a sent header yields exactly that.
LEMMA SentInTurn ==
    ASSUME NEW s, NEW at, NEW z
    PROVE  z \in ReadSentHeader(s, at) <=> OfSent(z, s, at)
<1> DEFINE R == ReadNumber(s, at, W64)
           Bytes(x) == ReadBytes(s, x.at, HeaderSize)
           Counts(y) == ReadCompact(s, y.at)
           Heads(y) == ReadHeader(y.v)
           Good(t, h) == t.v = 0 /\ h.bits = TestnetBits /\ h.nonce \in Solving
           One(x, t, h) == IF Good(t, h) THEN Got([height |-> x.v, header |-> h], t.at) ELSE {}
           T(x, y, t) == UNION {One(x, t, h) : h \in Heads(y)}
           H(x, y) == UNION {T(x, y, t) : t \in Counts(y)}
           X(x) == UNION {H(x, y) : y \in Bytes(x)}
<1>1. ReadSentHeader(s, at) = UNION {X(x) : x \in R}
  BY DEF ReadSentHeader, Then, Throw
<1>2. \A x, t, h : z \in One(x, t, h) <=>
         Good(t, h) /\ z = [v |-> [height |-> x.v, header |-> h], at |-> t.at]
  <2> TAKE x, t, h
  <2> HIDE DEF Good
  <2>1. z \in Got([height |-> x.v, header |-> h], t.at) <=>
          z = [v |-> [height |-> x.v, header |-> h], at |-> t.at]
    BY DEF Got
  <2>2. CASE Good(t, h)
    BY <2>1, <2>2
  <2>3. CASE ~Good(t, h)
    BY <2>3
  <2> QED BY <2>2, <2>3
<1> HIDE DEF One
<1>3. \A x, y, t : z \in T(x, y, t) <=> \E h \in Heads(y) : z \in One(x, t, h)
  <2> TAKE x, y, t
  <2> DEFINE S == Heads(y)
  <2> HIDE DEF S
  <2>1. z \in UNION {One(x, t, h) : h \in S} <=> \E h \in S : z \in One(x, t, h)
    OBVIOUS
  <2> QED BY <2>1 DEF S
<1> HIDE DEF T
<1>4. \A x, y : z \in H(x, y) <=> \E t \in Counts(y) : z \in T(x, y, t)
  <2> TAKE x, y
  <2> DEFINE S == Counts(y)
  <2> HIDE DEF S
  <2>1. z \in UNION {T(x, y, t) : t \in S} <=> \E t \in S : z \in T(x, y, t)
    OBVIOUS
  <2> QED BY <2>1 DEF S
<1> HIDE DEF H
<1>5. \A x : z \in X(x) <=> \E y \in Bytes(x) : z \in H(x, y)
  <2> TAKE x
  <2> DEFINE S == Bytes(x)
  <2> HIDE DEF S
  <2>1. z \in UNION {H(x, y) : y \in S} <=> \E y \in S : z \in H(x, y)
    OBVIOUS
  <2> QED BY <2>1 DEF S
<1> HIDE DEF X, R
<1>6. z \in ReadSentHeader(s, at) <=> \E x \in R : z \in X(x)
  BY <1>1
<1>7. z \in ReadSentHeader(s, at) <=>
        \E x \in R : \E y \in Bytes(x) : \E t \in Counts(y) : \E h \in Heads(y) :
          Good(t, h) /\ z = [v |-> [height |-> x.v, header |-> h], at |-> t.at]
  <2> HIDE DEF Bytes, Heads, Counts, Good
  <2> QED BY <1>2, <1>3, <1>4, <1>5, <1>6
<1> QED BY <1>7 DEF R, OfSent

\* The readers of a sent header, as functions of the place.
InnerWorked(s) == [a \in 0 .. Len(s) |-> Only(ReadInnerHeader(s, a), WorkedHeaders)]
NoTransactions(s) == [a \in 0 .. Len(s) |-> Only(ReadCompact(s, a), {0})]
WorkedWritten == OnlyWritten(HeadersWritten, WorkedHeaders)
ZeroWritten == OnlyWritten(Sizes, {0})
MadeSent(height, header) == [height |-> height, header |-> header]
SentName == [p \in Unsigned(W64) \X (WorkedHeaders \X {0}) |-> MadeSent(p[1], p[2][1])]

\* Those readers are exact.
LEMMA SentReaders ==
    ASSUME NEW s \in Seq(Byte)
    PROVE  /\ Writer(WorkedWritten, WorkedHeaders) /\ Everywhere(InnerWorked(s), s, WorkedWritten)
           /\ Writer(ZeroWritten, {0}) /\ Everywhere(NoTransactions(s), s, ZeroWritten)
<1> DEFINE V == HeaderRecords
           W == WorkedHeaders
           w == HeadersWritten
           U == Unsigned(W64)
           Z == {0}
<1>1. W \in SUBSET V
  BY DEF WorkedHeaders
<1>2. Z \in SUBSET U
  <2>1. W64 \in Nat
    BY SizesAssumption
  <2>2. Power(W64) \in Nat /\ Power(W64) > 0
    <3>1. Power(W64) \in Nat \ {0}
      BY <2>1, PowerFacts
    <3> QED BY <3>1
  <2> QED BY <2>2 DEF Unsigned
<1>3. Writer(Sizes, U)
  <2>1. W64 \in Nat
    BY SizesAssumption
  <2> QED BY <2>1, IntegerWriters
<1>4. 0 \in 0 .. Len(s)
  BY LenProperties
<1> HIDE DEF V, W, w, U, Z
<1>5. ASSUME NEW a \in 0 .. Len(s)
      PROVE  /\ Writer(OnlyWritten(w, W), W) /\ Exactly(Only(ReadInnerHeader(s, a), W), s, a, OnlyWritten(w, W))
             /\ Writer(OnlyWritten(Sizes, Z), Z) /\ Exactly(Only(ReadCompact(s, a), Z), s, a, OnlyWritten(Sizes, Z))
  <2>1. Writer(w, V) /\ Exactly(ReadInnerHeader(s, a), s, a, w)
    BY InnerHeaderExact DEF w, V
  <2>2. Exactly(ReadCompact(s, a), s, a, Sizes)
    BY ReadCompactExact
  <2>3. Writer(OnlyWritten(w, W), W) /\ Exactly(Only(ReadInnerHeader(s, a), W), s, a, OnlyWritten(w, W))
    BY <1>1, <2>1, OnlyExact
  <2>4. Writer(OnlyWritten(Sizes, Z), Z) /\ Exactly(Only(ReadCompact(s, a), Z), s, a, OnlyWritten(Sizes, Z))
    BY <1>2, <1>3, <2>2, OnlyExact
  <2> QED BY <2>3, <2>4
<1>6. /\ InnerWorked(s) = [a \in 0 .. Len(s) |-> Only(ReadInnerHeader(s, a), W)]
      /\ NoTransactions(s) = [a \in 0 .. Len(s) |-> Only(ReadCompact(s, a), Z)]
      /\ WorkedWritten = OnlyWritten(w, W) /\ ZeroWritten = OnlyWritten(Sizes, Z)
  BY DEF InnerWorked, NoTransactions, WorkedWritten, ZeroWritten, W, w, Z
<1>7. Writer(OnlyWritten(w, W), W) /\ Writer(OnlyWritten(Sizes, Z), Z)
  BY <1>4, <1>5
<1>8. Everywhere(InnerWorked(s), s, WorkedWritten)
  BY <1>5, <1>6 DEF Everywhere
<1>9. Everywhere(NoTransactions(s), s, ZeroWritten)
  BY <1>5, <1>6 DEF Everywhere
<1>10. Writer(WorkedWritten, W) /\ Writer(ZeroWritten, Z)
  BY <1>6, <1>7
<1> QED BY <1>8, <1>9, <1>10 DEF W, Z

\* A sent header is written as its height, its header and a count of none.
LEMMA SentRenames ==
    Renames(SentName, Joint(Numbers(W64), Joint(WorkedWritten, ZeroWritten)), HeadersSent)
<1> DEFINE V1 == Unsigned(W64)
           V2 == WorkedHeaders
           V3 == {0}
           w1 == Numbers(W64)
           w2 == WorkedWritten
           w3 == ZeroWritten
           name == SentName
           D == V1 \X (V2 \X V3)
<1>1. DOMAIN w1 = V1 /\ \A v \in V1 : w1[v] = Number(v, W64)
  BY DEF Numbers
<1>2. DOMAIN w2 = V2 /\ \A h \in V2 : w2[h] = WriteHeader(h)
  <2>1. \A h \in WorkedHeaders : h \in HeaderRecords
    BY DEF WorkedHeaders
  <2> QED BY <2>1 DEF WorkedWritten, OnlyWritten, HeadersWritten
<1>3. DOMAIN w3 = V3 /\ w3[0] = Compact(0)
  <2>1. W64 \in Nat
    BY SizesAssumption
  <2>2. Power(W64) \in Nat /\ Power(W64) > 0
    <3>1. Power(W64) \in Nat \ {0}
      BY <2>1, PowerFacts
    <3> QED BY <3>1
  <2>3. 0 \in Unsigned(W64)
    BY <2>2 DEF Unsigned
  <2> QED BY <2>3 DEF ZeroWritten, OnlyWritten, Sizes
<1>4. name = [p \in D |-> MadeSent(p[1], p[2][1])]
  BY DEF SentName
<1> HIDE DEF V1, V2, V3, w1, w2, w3, name
<1>5. Joint(w2, w3) = [p \in V2 \X V3 |-> w2[p[1]] \o w3[p[2]]]
  BY <1>2, <1>3 DEF Joint
<1>6. Joint(w1, Joint(w2, w3)) = [p \in D |-> w1[p[1]] \o (w2[p[2][1]] \o w3[p[2][2]])]
  <2>1. DOMAIN Joint(w2, w3) = V2 \X V3
    BY <1>5
  <2>2. Joint(w1, Joint(w2, w3)) = [p \in D |-> w1[p[1]] \o Joint(w2, w3)[p[2]]]
    BY <1>1, <2>1 DEF Joint
  <2>3. \A p \in D : Joint(w2, w3)[p[2]] = w2[p[2][1]] \o w3[p[2][2]]
    BY <1>5
  <2> QED BY <2>2, <2>3
<1>7. ASSUME NEW p \in D
      PROVE  name[p] \in SentHeaders /\ HeadersSent[name[p]] = w1[p[1]] \o (w2[p[2][1]] \o w3[p[2][2]])
  <2> DEFINE a == p[1]
             h == p[2][1]
             t == p[2][2]
             b == name[p]
  <2>1. a \in V1 /\ h \in V2 /\ t \in V3 /\ b = MadeSent(a, h)
    BY <1>4
  <2>2. t = 0
    BY <2>1 DEF V3
  <2> HIDE DEF a, h, t, b
  <2>3. b \in SentHeaders /\ b.height = a /\ b.header = h
    BY <2>1 DEF MadeSent, SentHeaders, V1, V2
  <2>4. HeadersSent[b] = SentHeaderBytes(b)
    BY <2>3 DEF HeadersSent
  <2>5. SentHeaderBytes(b) = Number(a, W64) \o (WriteHeader(h) \o Compact(0))
    BY <2>3 DEF SentHeaderBytes
  <2>6. HeadersSent[b] = w1[a] \o (w2[h] \o w3[t])
    BY <1>1, <1>2, <1>3, <2>1, <2>2, <2>4, <2>5
  <2> QED BY <2>3, <2>6 DEF a, h, t, b
<1>8. ASSUME NEW b \in SentHeaders PROVE \E p \in D : name[p] = b
  <2> DEFINE p == <<b.height, <<b.header, 0>>>>
  <2>1. b.height \in V1 /\ b.header \in V2 /\ 0 \in V3 /\ b = MadeSent(b.height, b.header)
    BY DEF SentHeaders, MadeSent, V1, V2, V3
  <2>2. p \in D /\ p[1] = b.height /\ p[2][1] = b.header
    BY <2>1
  <2> HIDE DEF p
  <2>3. name[p] = b
    BY <1>4, <2>1, <2>2
  <2> QED BY <2>2, <2>3
<1>9. DOMAIN HeadersSent = SentHeaders
  BY DEF HeadersSent
<1>10. /\ DOMAIN Joint(w1, Joint(w2, w3)) = D
       /\ \A p \in D : Joint(w1, Joint(w2, w3))[p] = w1[p[1]] \o (w2[p[2][1]] \o w3[p[2][2]])
  BY <1>6
<1> HIDE DEF D
<1>11. Renames(name, Joint(w1, Joint(w2, w3)), HeadersSent)
  BY <1>7, <1>8, <1>9, <1>10 DEF Renames
<1> QED BY <1>11 DEF name, w1, w2, w3

\* A sent header is read from what is written of it, and from nothing else.
LEMMA SentExact ==
    ASSUME NEW s \in Seq(Byte), NEW at \in 0 .. Len(s)
    PROVE  Exactly(ReadSentHeader(s, at), s, at, HeadersSent)
<1> DEFINE V1 == Unsigned(W64)
           V2 == WorkedHeaders
           V3 == {0}
           w1 == Numbers(W64)
           w2 == WorkedWritten
           w3 == ZeroWritten
           r == ReadNumber(s, at, W64)
           B == InnerWorked(s)
           C == NoTransactions(s)
           name == SentName
<1>1. W64 \in Nat
  BY SizesAssumption
<1>2. Writer(w1, V1) /\ Exactly(r, s, at, w1)
  BY <1>1, NumbersWritten, ReadNumberExact
<1>3. /\ \A a \in 0 .. Len(s) : B[a] = Only(ReadInnerHeader(s, a), WorkedHeaders)
      /\ \A a \in 0 .. Len(s) : C[a] = Only(ReadCompact(s, a), {0})
  BY DEF InnerWorked, NoTransactions
<1>4. Writer(w2, V2) /\ Everywhere(B, s, w2) /\ Writer(w3, V3) /\ Everywhere(C, s, w3)
  BY SentReaders
<1>5. Renames(name, Joint(w1, Joint(w2, w3)), HeadersSent)
  BY SentRenames
<1>6. \A p \in V1 \X (V2 \X V3) : name[p] = [height |-> p[1], header |-> p[2][1]]
  BY DEF SentName, MadeSent
<1>7. \A h : h \in V2 => h.bits = TestnetBits /\ h.nonce \in Solving
  BY DEF WorkedHeaders
<1>8. \A h \in HeaderRecords : h.bits = TestnetBits /\ h.nonce \in Solving => h \in V2
  BY DEF WorkedHeaders
<1>9. \A t : t \in V3 <=> t = 0
  OBVIOUS
<1> HIDE DEF V1, V2, V3, w1, w2, w3, r, B, C, name
<1>10. Exactly(Three(name, r, B, C), s, at, HeadersSent)
  BY <1>2, <1>4, <1>5, ThreeExact
<1>11. ASSUME NEW z
       PROVE  z \in ReadSentHeader(s, at) <=> z \in Three(name, r, B, C)
  <2> DEFINE Made(x, h, t) == [v |-> [height |-> x.v, header |-> h], at |-> t.at]
             Good(t, h) == t.v = 0 /\ h.bits = TestnetBits /\ h.nonce \in Solving
  <2>1. z \in ReadSentHeader(s, at) <=>
          \E x \in r : \E k \in ReadBytes(s, x.at, HeaderSize) :
            \E t \in ReadCompact(s, k.at) : \E h \in ReadHeader(k.v) : Good(t, h) /\ z = Made(x, h, t)
    <3>1. z \in ReadSentHeader(s, at) <=> OfSent(z, s, at)
      BY SentInTurn
    <3> QED BY <3>1 DEF OfSent, r
  <2>2. z \in Three(name, r, B, C) <=>
          \E x \in r : \E y \in B[x.at] : \E t \in C[y.at] :
            z = [v |-> name[<<x.v, <<y.v, t.v>>>>], at |-> t.at]
    <3>1. z \in Three(name, r, B, C) <=> OfThree(z, name, r, B, C)
      BY ThreeItem
    <3> QED BY <3>1 DEF OfThree
  <2>3. \A x \in r : x.v \in V1 /\ x.at \in 0 .. Len(s)
    BY <1>2 DEF Exactly, Writer
  <2>4. \A x \in r : \A y : y \in B[x.at] <=>
          /\ y.v \in V2
          /\ \E k \in ReadBytes(s, x.at, HeaderSize) : \E h \in ReadHeader(k.v) : y = [v |-> h, at |-> k.at]
    <3> TAKE x \in r
    <3> TAKE y
    <3>1. x.at \in 0 .. Len(s)
      BY <2>3
    <3>2. y \in B[x.at] <=> y \in ReadInnerHeader(s, x.at) /\ y.v \in V2
      BY <1>3, <3>1 DEF Only, V2
    <3>3. y \in ReadInnerHeader(s, x.at) <=>
            \E k \in ReadBytes(s, x.at, HeaderSize) : \E h \in ReadHeader(k.v) : y = [v |-> h, at |-> k.at]
      BY <3>1, InnerHeaderItem
    <3> QED BY <3>2, <3>3
  <2>5. \A x \in r : \A y \in B[x.at] : y.v \in V2 /\ y.at \in 0 .. Len(s)
    BY <1>4, <2>3 DEF Exactly, Everywhere, Writer
  <2>6. \A x \in r : \A y \in B[x.at] : \A t :
          t \in C[y.at] <=> t \in ReadCompact(s, y.at) /\ t.v = 0
    <3> TAKE x \in r
    <3> TAKE y \in B[x.at]
    <3> TAKE t
    <3>1. y.at \in 0 .. Len(s)
      BY <2>5
    <3> QED BY <1>3, <3>1 DEF Only
  <2>7. \A x \in r : \A y \in B[x.at] : \A t \in C[y.at] :
          [v |-> name[<<x.v, <<y.v, t.v>>>>], at |-> t.at] = Made(x, y.v, t)
    <3> TAKE x \in r
    <3> TAKE y \in B[x.at]
    <3> TAKE t \in C[y.at]
    <3> DEFINE p == <<x.v, <<y.v, t.v>>>>
    <3>1. t.v \in V3
      BY <1>9, <2>6
    <3>2. p \in V1 \X (V2 \X V3) /\ p[1] = x.v /\ p[2][1] = y.v
      BY <2>3, <2>5, <3>1
    <3> HIDE DEF p
    <3>3. name[p] = [height |-> x.v, header |-> y.v]
      BY <1>6, <3>2
    <3> QED BY <3>3 DEF p
  <2>8. \A x \in r : \A k \in ReadBytes(s, x.at, HeaderSize) : \A h \in ReadHeader(k.v) : h \in HeaderRecords
    <3> TAKE x \in r
    <3> DEFINE n == HeaderSize
    <3>1. n \in Nat
      BY SizesAssumption DEF HeaderSize
    <3> HIDE DEF n
    <3>2. x.at \in 0 .. Len(s)
      BY <2>3
    <3>3. \A k \in ReadBytes(s, x.at, n) : k.v \in Strings(n)
      BY <3>1, <3>2, StandingIsRead
    <3>4. \A k \in ReadBytes(s, x.at, n) : k.v \in Seq(Byte)
      BY <3>3 DEF Strings
    <3>5. \A bytes \in Seq(Byte) : \A h \in ReadHeader(bytes) : h \in HeaderRecords
      BY HeadersAreExact
    <3> QED BY <3>4, <3>5 DEF n
  <2>9. \A t, h : h \in HeaderRecords => (Good(t, h) <=> t.v = 0 /\ h \in V2)
    BY <1>7, <1>8
  <2> HIDE DEF Made, Good
  <2>10. ASSUME NEW x \in r, NEW k \in ReadBytes(s, x.at, HeaderSize), NEW t \in ReadCompact(s, k.at),
                NEW h \in ReadHeader(k.v), Good(t, h), z = Made(x, h, t)
         PROVE  z \in Three(name, r, B, C)
    <3> DEFINE y == [v |-> h, at |-> k.at]
    <3>1. y.v = h /\ y.at = k.at
      OBVIOUS
    <3>2. t.v = 0 /\ h \in V2
      BY <2>8, <2>9, <2>10
    <3>3. y \in B[x.at]
      BY <2>4, <3>1, <3>2
    <3> HIDE DEF y
    <3>4. t \in C[y.at] /\ z = Made(x, y.v, t)
      BY <2>6, <2>10, <3>1, <3>2, <3>3
    <3> QED BY <2>2, <2>7, <3>3, <3>4
  <2>11. ASSUME NEW x \in r, NEW y \in B[x.at], NEW t \in C[y.at],
                z = [v |-> name[<<x.v, <<y.v, t.v>>>>], at |-> t.at]
         PROVE  z \in ReadSentHeader(s, at)
    <3>1. PICK k \in ReadBytes(s, x.at, HeaderSize) : \E h \in ReadHeader(k.v) : y = [v |-> h, at |-> k.at]
      BY <2>4
    <3>2. PICK h \in ReadHeader(k.v) : y = [v |-> h, at |-> k.at]
      BY <3>1
    <3>3. y.v = h /\ y.at = k.at
      BY <3>2
    <3>4. t \in ReadCompact(s, k.at) /\ t.v = 0 /\ h \in V2
      BY <2>5, <2>6, <3>3
    <3>5. Good(t, h)
      BY <2>8, <2>9, <3>4
    <3>6. z = Made(x, h, t)
      BY <2>7, <2>11, <3>3
    <3> QED BY <2>1, <3>4, <3>5, <3>6
  <2> QED BY <2>1, <2>2, <2>10, <2>11
<1>12. ReadSentHeader(s, at) = Three(name, r, B, C)
  BY <1>11
<1> QED BY <1>10, <1>12

\* A sent header is written to one string.
LEMMA SentItems ==
    /\ Writer(HeadersSent, SentHeaders)
    /\ \A r \in SentHeaders :
          {Number(r.height, W64) \o WriteHeader(r.header) \o Compact(0)} = {HeadersSent[r]}
<1> DEFINE T == Seq(Byte)
<1>1. ASSUME NEW r \in SentHeaders
      PROVE  /\ SentHeaderBytes(r) \in T
             /\ Number(r.height, W64) \o WriteHeader(r.header) \o Compact(0) = SentHeaderBytes(r)
  <2> DEFINE x == Number(r.height, W64)
             y == WriteHeader(r.header)
             z == Compact(0)
  <2>1. W64 \in Nat
    BY SizesAssumption
  <2>2. r.height \in Unsigned(W64) /\ r.header \in HeaderRecords
    BY DEF SentHeaders, WorkedHeaders
  <2>3. 0 \in Unsigned(W64)
    <3>1. Power(W64) \in Nat \ {0}
      BY <2>1, PowerFacts
    <3> QED BY <3>1 DEF Unsigned
  <2>4. x \in T /\ y \in T /\ z \in T
    BY <2>1, <2>2, <2>3, NumbersWritten, HeaderWritten, CompactForms
  <2>5. SentHeaderBytes(r) = x \o (y \o z)
    BY DEF SentHeaderBytes
  <2>6. Joins(T)
    BY ConcatProperties DEF Joins
  <2>7. Regroups(T)
    BY ConcatAssociative DEF Regroups
  <2> HIDE DEF x, y, z, T
  <2>8. x \o (y \o z) = x \o y \o z /\ x \o (y \o z) \in T
    BY <2>4, <2>6, <2>7 DEF Joins, Regroups
  <2> QED BY <2>5, <2>8 DEF x, y, z
<1>2. Writer(HeadersSent, SentHeaders)
  BY <1>1 DEF Writer, HeadersSent
<1>3. \A r \in SentHeaders : HeadersSent[r] = SentHeaderBytes(r)
  BY DEF HeadersSent
<1> QED BY <1>1, <1>2, <1>3

\* A list of headers within the limit has one string.
LEMMA HeaderListWritten ==
    ASSUME NEW q \in Seq(SentHeaders)
    PROVE  WriteHeaders(q) = IF Len(q) <= MaxHeadersSent THEN {HeaderLists[q]} ELSE {}
<1> DEFINE V == SentHeaders
           w == HeadersSent
           One(r) == {Number(r.height, W64) \o WriteHeader(r.header) \o Compact(0)}
           P == [v \in V |-> One(v)]
           parts == [i \in 1 .. Len(q) |-> One(q[i])]
           none == <<>>
<1>1. MaxHeadersSent \in Nat /\ Len(q) \in Nat
  BY SizesAssumption, LenProperties
<1>2. none \in Seq(Byte) /\ 0 \in 0 .. Len(none)
  OBVIOUS
<1> HIDE DEF none
<1>3. Writer(w, V)
  BY SentItems
<1>4. \A v \in V : P[v] = {w[v]}
  BY SentItems
<1>5. parts = EachOf(P, q)
  <2>1. \A i \in 1 .. Len(q) : q[i] \in V
    <3> HIDE DEF V
    <3> QED BY ElementOfSeq DEF V
  <2>2. \A i \in 1 .. Len(q) : P[q[i]] = One(q[i])
    BY <2>1
  <2> HIDE DEF P, One, V
  <2> QED BY <2>2 DEF EachOf
<1>6. WriteHeaders(q) = IF Len(q) > MaxHeadersSent THEN {} ELSE WithCount(q, parts)
  BY DEF WriteHeaders, Joined, Throw, WithCount
<1>7. Len(q) <= MaxHeadersSent => q \in Lists(V, MaxHeadersSent)
  BY DEF Lists
<1> HIDE DEF V, w, One, P, parts
<1>8. ASSUME Len(q) <= MaxHeadersSent PROVE WithCount(q, parts) = {HeaderLists[q]}
  <2>1. OneEach(P, V, w) /\ q \in Lists(V, MaxHeadersSent)
    BY <1>4, <1>7, <1>8 DEF OneEach
  <2>2. WithCount(q, EachOf(P, q)) = {ListWritten(w, MaxHeadersSent)[q]}
    BY <1>3, <2>1, ListedOnce
  <2> QED BY <1>5, <2>2 DEF HeaderLists, w
<1>9. Len(q) > MaxHeadersSent <=> ~(Len(q) <= MaxHeadersSent)
  BY <1>1
<1> DEFINE here == WriteHeaders(q)
<1>10. CASE Len(q) <= MaxHeadersSent
  <2>1. here = WithCount(q, parts)
    BY <1>6, <1>9, <1>10
  <2> QED BY <1>8, <1>10, <2>1
<1>11. CASE ~(Len(q) <= MaxHeadersSent)
  BY <1>6, <1>9, <1>11
<1> QED BY <1>10, <1>11

\* A list of headers is read to the headers it was written from and to nothing
\* else: serialize_headers and deserialize_headers agree on every string, of
\* any length, heights and headers with their work, and neither passes one
\* beyond the limit.
THEOREM HeaderListsAreExact ==
    /\ \A s \in Seq(Byte) :
          ReadHeaders(s) = {q \in Seq(SentHeaders) : s \in WriteHeaders(q)}
    /\ \A q \in Seq(SentHeaders) : Len(q) <= MaxHeadersSent =>
          \E s \in Seq(Byte) : WriteHeaders(q) = {s} /\ ReadHeaders(s) = {q}
    /\ \A q \in Seq(SentHeaders) : Len(q) > MaxHeadersSent => WriteHeaders(q) = {}
<1> DEFINE V == SentHeaders
           M == MaxHeadersSent
           w == HeadersSent
           Q == Seq(V)
           B == Lists(V, M)
           u == ListWritten(w, M)
           W == [q \in Q |-> WriteHeaders(q)]
           R == [s \in Seq(Byte) |-> ReadHeaders(s)]
           none == <<>>
<1>1. M \in Nat /\ M < Power(W64)
  BY SizesAssumption
<1>2. none \in Seq(Byte) /\ 0 \in 0 .. Len(none)
  OBVIOUS
<1> HIDE DEF none
<1>3. Writer(w, V)
  BY SentItems
<1>4. B \in SUBSET Q /\ \A q \in Q : q \in B <=> Len(q) <= M
  BY DEF Lists
<1>5. ASSUME NEW s \in Seq(Byte)
      PROVE  /\ R[s] = {q \in B : u[q] = s}
             /\ \A p, q \in B : u[p] = s /\ u[q] = s => p = q
  <2> DEFINE F == [a \in 0 .. Len(s) |-> ReadSentHeader(s, a)]
  <2>1. Everywhere(F, s, w)
    BY SentExact DEF Everywhere
  <2>2. ReadHeaders(s) = Whole(s, CountedList(ReadCompact(s, 0), M, F))
    BY DEF ReadHeaders, ReadSentHeader, ReadList, ReadMany, Then, Throw, CountedList
  <2>3. R[s] = ReadHeaders(s)
    OBVIOUS
  <2> HIDE DEF F, V, w, M, R
  <2>4. /\ Whole(s, CountedList(ReadCompact(s, 0), M, F)) = {q \in B : u[q] = s}
        /\ \A p, q \in B : u[p] = s /\ u[q] = s => p = q
    BY <1>1, <1>3, <2>1, WholeList
  <2> QED BY <2>2, <2>3, <2>4
<1>6. Writer(u, B)
  <2> SUFFICES \A q \in B : u[q] \in Seq(Byte)
    <3>1. DOMAIN u = B /\ u = [q \in B |-> u[q]]
      BY <1>3 DEF ListWritten, Writer
    <3> HIDE DEF u, B
    <3> QED BY <3>1 DEF Writer
  <2> HIDE DEF V, w, M
  <2> QED BY <1>1, <1>3, ListWriter
<1>7. DOMAIN u = B
  BY <1>3 DEF ListWritten, Writer
<1>8. \A q \in Q : W[q] = IF q \in B THEN {u[q]} ELSE {}
  <2> SUFFICES ASSUME NEW q \in Q PROVE W[q] = IF q \in B THEN {u[q]} ELSE {}
    OBVIOUS
  <2>1. W[q] = WriteHeaders(q)
    OBVIOUS
  <2>2. WriteHeaders(q) = IF Len(q) <= M THEN {u[q]} ELSE {}
    BY HeaderListWritten DEF HeaderLists
  <2> HIDE DEF W, u, B, Q
  <2> QED BY <1>4, <2>1, <2>2
<1>9. /\ \A q \in Q : W[q] = WriteHeaders(q)
      /\ \A s \in Seq(Byte) : R[s] = ReadHeaders(s)
      /\ \A q \in Q : Len(q) \in Nat
  BY LenProperties
<1> HIDE DEF V, M, w, Q, B, u, W, R
<1>10. Writes(W, Q, B, u) /\ Parses(R, Seq(Byte), u) /\ Unlike(u)
  <2>1. Writes(W, Q, B, u)
    BY <1>8 DEF Writes
  <2>2. Parses(R, Seq(Byte), u)
    BY <1>5, <1>7 DEF Parses
  <2>3. Unlike(u)
    BY <1>5, <1>6, <1>7 DEF Unlike, Writer
  <2> QED BY <2>1, <2>2, <2>3
<1>11. /\ \A s \in Seq(Byte) : R[s] = {q \in Q : s \in W[q]}
       /\ \A q \in B : \E s \in Seq(Byte) : W[q] = {s} /\ R[s] = {q}
       /\ \A q \in Q : q \notin B => W[q] = {}
  BY <1>4, <1>6, <1>10, Agreement
<1>12. \A s \in Seq(Byte) : ReadHeaders(s) = {q \in Q : s \in WriteHeaders(q)}
  BY <1>9, <1>11
<1>13. \A q \in Q : Len(q) <= M => \E s \in Seq(Byte) : WriteHeaders(q) = {s} /\ ReadHeaders(s) = {q}
  BY <1>4, <1>9, <1>11
<1>14. \A q \in Q : Len(q) > M => WriteHeaders(q) = {}
  <2>1. \A q \in Q : Len(q) > M => q \notin B
    BY <1>1, <1>4, <1>9
  <2> QED BY <1>9, <1>11, <2>1
<1> QED BY <1>12, <1>13, <1>14 DEF Q, V, M

\* A list of transactions is read to the transactions it was written from and to
\* nothing else: serialize_transactions and deserialize_transactions agree on
\* every string, whatever the sizes inside it are.
THEOREM TransactionListsAreExact ==
    /\ \A s \in Seq(Byte) :
          ReadTransactions(s) =
              {q \in Lists(ListedTransactions, MaxItems) : s \in WriteTransactions(q)}
    /\ \A q \in Lists(ListedTransactions, MaxItems) :
          \E s \in Seq(Byte) : WriteTransactions(q) = {s} /\ ReadTransactions(s) = {q}
<1> DEFINE Q == Lists(ListedTransactions, MaxItems)
           u == TransactionLists
           none == <<>>
<1>1. none \in Seq(Byte) /\ 0 \in 0 .. Len(none)
  OBVIOUS
<1> HIDE DEF none
<1>2. Writer(u, Q)
  BY <1>1, TransactionListExact
<1>3. \A q \in Q : WriteTransactions(q) = {u[q]} /\ u[q] \in Seq(Byte)
  BY ListedWritten
<1> HIDE DEF Q, u
<1>4. ASSUME NEW s \in Seq(Byte)
      PROVE  /\ ReadTransactions(s) = {q \in Q : u[q] = s}
             /\ \A p, q \in Q : u[p] = s /\ u[q] = s => p = q
  <2> DEFINE r == ReadTransactionList(s, 0)
  <2>1. 0 \in 0 .. Len(s)
    BY LenProperties
  <2>2. Exactly(r, s, 0, u)
    BY <2>1, TransactionListExact DEF u
  <2>3. ReadTransactions(s) = Whole(s, r)
    BY DEF ReadTransactions
  <2> HIDE DEF r
  <2> QED BY <1>2, <2>2, <2>3, WholeExact
<1>5. ASSUME NEW s \in Seq(Byte)
      PROVE  ReadTransactions(s) = {q \in Q : s \in WriteTransactions(q)}
  <2>1. \A q \in Q : s \in WriteTransactions(q) <=> u[q] = s
    BY <1>3
  <2> QED BY <1>4, <2>1
<1>6. ASSUME NEW q \in Q
      PROVE  \E s \in Seq(Byte) : WriteTransactions(q) = {s} /\ ReadTransactions(s) = {q}
  <2> DEFINE s == u[q]
  <2>1. s \in Seq(Byte) /\ WriteTransactions(q) = {s}
    BY <1>3
  <2> HIDE DEF s
  <2>2. ReadTransactions(s) = {p \in Q : u[p] = s}
    BY <1>4, <2>1
  <2>3. u[q] = s
    BY DEF s
  <2>4. \A p \in Q : u[p] = s => p = q
    BY <1>4, <2>1, <2>3
  <2>5. ReadTransactions(s) = {q}
    BY <2>2, <2>3, <2>4
  <2> QED BY <2>1, <2>5
<1> QED BY <1>5, <1>6 DEF Q

==============================================================================
