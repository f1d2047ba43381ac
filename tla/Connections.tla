------------------------------ MODULE Connections ------------------------------
(* The threads, sockets and sessions of PersistentTestnetNode (net.cpp): the   *)
(* accept thread, one thread per outbound endpoint, one session thread per     *)
(* accepted connection, and the thread that starts, stops and joins them.      *)
(* Every critical section and every blocking call is a step. A blocking call   *)
(* may fail at any time: peers close, and every socket has a time-out. What a  *)
(* session says to its peer is in ChainSync and NodeData.                      *)
EXTENDS Integers, FiniteSets

CONSTANTS In,         \* inbound session threads that may exist at once (a bound)
          Out,        \* the outbound threads, one per endpoint chosen by start
          Acceptor,   \* the accept thread
          Fd,         \* socket numbers; the system hands out any that is free
          Remote,     \* other nodes: a host and the nonce of its process
          Zero,       \* the one of them whose nonce is 0, or None
          Self,       \* this node, reached under its own address
          Loopback,   \* the nodes whose host is a loopback address
          Target,     \* the endpoint of each outbound thread
          MaxInbound, \* policy_.max_inbound
          None

ASSUME ThreadAssumption ==
  /\ IsFiniteSet(In \cup Out) /\ In \cap Out = {} /\ Acceptor \notin In \cup Out
  /\ Target \in [Out -> Remote \cup {Self}]
  /\ Self \notin Remote /\ None \notin Remote \cup {Self}
  /\ None \notin Fd /\ Zero \in Remote \cup {None}
  /\ Loopback \subseteq Remote /\ MaxInbound \in Nat

Session == In \cup Out
Thread == Session \cup {Acceptor}
Node == Remote \cup {Self}

\* Where a session is between its entry into active_sockets_ and the erasure.
Entered == {"init", "handshake", "register", "greet", "loop", "serve", "blame", "erase"}
Running == Entered \cup {"start", "forget", "close"}

VARIABLES
  stop,       \* stop_requested_
  main,       \* what start, request_stop and wait have got to
  pc,         \* where each thread is
  fd,         \* the socket each thread owns
  peer,       \* the node at the other end of it
  sockets,    \* active_sockets_
  nonces,     \* active_peer_nonces_
  registered, \* the sessions that have put a nonce there, as registered_nonce
  live,       \* live_peers_, by session
  inbound,    \* active_inbound_
  active,     \* active_peers_
  threads,    \* session_threads_
  open,       \* the sockets of the node that are open
  shut,       \* those request_stop has shut down
  banned      \* the hosts in the ban list

sessionVars == <<sockets, nonces, registered, live, active>>
ownVars == <<fd, peer, open>>
vars == <<stop, main, pc, ownVars, sessionVars, inbound, threads, shut, banned>>

Init ==
  /\ stop = FALSE /\ main = "new"
  /\ pc = [t \in Thread |-> IF t \in In THEN "done" ELSE "none"]
  /\ fd = [t \in Thread |-> None] /\ peer = [t \in Thread |-> None]
  /\ sockets = {} /\ nonces = {} /\ registered = {} /\ live = {}
  /\ inbound = 0 /\ active = 0
  /\ threads = {} /\ open = {} /\ shut = {} /\ banned = {}

Goto(t, place) == pc' = [pc EXCEPT ![t] = place]

\* A thread gets a socket connected to node r.
Obtain(t, f, r) ==
  /\ f \in Fd \ open
  /\ open' = open \cup {f}
  /\ fd' = [fd EXCEPT ![t] = f] /\ peer' = [peer EXCEPT ![t] = r]

\* It closes it; the number may be handed out again at once.
Release(t) ==
  /\ open' = open \ {fd[t]} /\ shut' = shut \ {fd[t]}
  /\ fd' = [fd EXCEPT ![t] = None] /\ peer' = [peer EXCEPT ![t] = None]

----------------------------------------------------------------------------
(* start, request_stop and wait, called by one thread.                         *)

Start ==
  /\ main = "new" /\ main' = "launch"
  /\ Goto(Acceptor, "poll")
  /\ UNCHANGED <<stop, ownVars, sessionVars, inbound, threads, shut, banned>>

Launch ==
  /\ main = "launch" /\ main' = "running"
  /\ pc' = [t \in Thread |-> IF t \in Out THEN "check" ELSE pc[t]]
  /\ UNCHANGED <<stop, ownVars, sessionVars, inbound, threads, shut, banned>>

\* From "launch": the peer store could not be read and start throws; the
\* destructor stops what runs already.
RequestStop ==
  /\ main \in {"launch", "running"} /\ main' = "stopping"
  /\ stop' = TRUE
  /\ UNCHANGED <<pc, ownVars, sessionVars, inbound, threads, shut, banned>>

ShutSockets ==
  /\ main = "stopping" /\ main' = "join accept"
  /\ shut' = shut \cup sockets
  /\ UNCHANGED <<stop, pc, ownVars, sessionVars, inbound, threads, banned>>

\* Mutant: wait takes the session threads without having joined the accept thread.
JoinAcceptEarly ==
  /\ main = "join accept" /\ main' = "join outbound"
  /\ UNCHANGED <<stop, pc, ownVars, sessionVars, inbound, threads, shut, banned>>

JoinAccept ==
  /\ main = "join accept" /\ main' = "join outbound"
  /\ pc[Acceptor] = "ended"
  /\ UNCHANGED <<stop, pc, ownVars, sessionVars, inbound, threads, shut, banned>>

JoinOutbound ==
  /\ main = "join outbound" /\ main' = "join sessions"
  /\ \A o \in Out : pc[o] \in {"none", "ended"}
  /\ UNCHANGED <<stop, pc, ownVars, sessionVars, inbound, threads, shut, banned>>

JoinSessions ==
  /\ main = "join sessions" /\ main' = "stopped"
  /\ \A i \in threads : pc[i] = "done"
  /\ threads' = {}
  /\ UNCHANGED <<stop, pc, ownVars, sessionVars, inbound, shut, banned>>

----------------------------------------------------------------------------
(* accept_loop and start_session.                                              *)

Poll ==
  /\ pc[Acceptor] = "poll"
  /\ Goto(Acceptor, IF stop THEN "ended" ELSE "accept")
  /\ UNCHANGED <<stop, main, ownVars, sessionVars, inbound, threads, shut, banned>>

AcceptNothing ==
  /\ pc[Acceptor] = "accept" /\ Goto(Acceptor, "poll")
  /\ UNCHANGED <<stop, main, ownVars, sessionVars, inbound, threads, shut, banned>>

Accept(f, r) ==
  /\ pc[Acceptor] = "accept" /\ Goto(Acceptor, "screen")
  /\ Obtain(Acceptor, f, r)
  /\ UNCHANGED <<stop, main, sessionVars, inbound, threads, shut, banned>>

RejectBanned ==
  /\ pc[Acceptor] = "screen" /\ peer[Acceptor] \in banned
  /\ Release(Acceptor) /\ Goto(Acceptor, "poll")
  /\ UNCHANGED <<stop, main, sessionVars, inbound, threads, banned>>

\* fetch_add: counted first, compared with the limit afterwards.
CountInbound ==
  /\ pc[Acceptor] = "screen" /\ peer[Acceptor] \notin banned
  /\ inbound' = inbound + 1
  /\ Goto(Acceptor, IF inbound >= MaxInbound THEN "over" ELSE "begin")
  /\ UNCHANGED <<stop, main, ownVars, sessionVars, threads, shut, banned>>

\* Mutant: the place of a connection that is turned away is not given back.
TurnAwayCounted ==
  /\ pc[Acceptor] \in {"over", "begin"}
  /\ inbound' = IF pc[Acceptor] = "over" THEN inbound - 1 ELSE inbound
  /\ Release(Acceptor) /\ Goto(Acceptor, "poll")
  /\ UNCHANGED <<stop, main, sessionVars, threads, banned>>

\* Over the limit; or configure_socket or start_session threw.
TurnAway ==
  /\ pc[Acceptor] \in {"over", "begin"}
  /\ inbound' = inbound - 1
  /\ Release(Acceptor) /\ Goto(Acceptor, "poll")
  /\ UNCHANGED <<stop, main, sessionVars, threads, banned>>

\* The thread is created and pushed; reap_sessions joins those that are done.
StartSession(i) ==
  /\ pc[Acceptor] = "begin"
  /\ pc[i] = "done"
  /\ fd' = [fd EXCEPT ![i] = fd[Acceptor], ![Acceptor] = None]
  /\ peer' = [peer EXCEPT ![i] = peer[Acceptor], ![Acceptor] = None]
  /\ pc' = [pc EXCEPT ![i] = "start", ![Acceptor] = "poll"]
  /\ threads' = {j \in threads : pc[j] # "done"} \cup {i}
  /\ UNCHANGED <<stop, main, open, sessionVars, inbound, shut, banned>>

----------------------------------------------------------------------------
(* outbound_loop.                                                              *)

Check(o) ==
  /\ pc[o] = "check"
  /\ Goto(o, IF stop THEN "ended" ELSE IF Target[o] \in banned THEN "pause" ELSE "connect")
  /\ UNCHANGED <<stop, main, ownVars, sessionVars, inbound, threads, shut, banned>>

ConnectFails(o) ==
  /\ pc[o] = "connect" /\ Goto(o, "pause")
  /\ UNCHANGED <<stop, main, ownVars, sessionVars, inbound, threads, shut, banned>>

Connect(o, f) ==
  /\ pc[o] = "connect" /\ Goto(o, "start")
  /\ Obtain(o, f, Target[o])
  /\ UNCHANGED <<stop, main, sessionVars, inbound, threads, shut, banned>>

Pause(o) ==
  /\ pc[o] = "pause" /\ Goto(o, "check")
  /\ UNCHANGED <<stop, main, ownVars, sessionVars, inbound, threads, shut, banned>>

----------------------------------------------------------------------------
(* session_loop.                                                               *)

Enter(t) ==
  /\ pc[t] = "start" /\ Goto(t, "init")
  /\ active' = active + 1
  /\ sockets' = sockets \cup {fd[t]}
  /\ UNCHANGED <<stop, main, ownVars, nonces, registered, live, inbound, threads, shut, banned>>

\* handshake_chain.initialize(), which may throw.
LoadChain(t) ==
  /\ pc[t] = "init" /\ \E place \in {"handshake", "erase"} : Goto(t, place)
  /\ UNCHANGED <<stop, main, ownVars, sessionVars, inbound, threads, shut, banned>>

\* Every failure of the handshake is taken for the peer's fault.
Handshake(t) ==
  /\ pc[t] = "handshake" /\ \E place \in {"register", "blame"} : Goto(t, place)
  /\ UNCHANGED <<stop, main, ownVars, sessionVars, inbound, threads, shut, banned>>

Refused(t) == peer[t] = Self \/ peer[t] \in nonces

RegisterRefused(t) ==
  /\ pc[t] = "register" /\ Refused(t) /\ Goto(t, "erase")
  /\ UNCHANGED <<stop, main, ownVars, sessionVars, inbound, threads, shut, banned>>

Register(t) ==
  /\ pc[t] = "register" /\ ~Refused(t) /\ Goto(t, "greet")
  /\ nonces' = nonces \cup {peer[t]}
  /\ registered' = registered \cup {t}
  /\ UNCHANGED <<stop, main, ownVars, sockets, live, active, inbound, threads, shut, banned>>

\* getaddr, and getheaders if the peer has more work: nothing can be sent over
\* a socket that is shut down.
Greet(t) ==
  /\ pc[t] = "greet" /\ \E place \in {"loop", "erase"} :
       (fd[t] \in shut => place = "erase") /\ Goto(t, place)
  /\ live' = live \cup {t}
  /\ UNCHANGED <<stop, main, ownVars, sockets, nonces, registered, active, inbound, threads, shut, banned>>

\* Mutant: the main loop does not look at the flag: it relies on the shutdown.
LoopUntilClosed(t) ==
  /\ pc[t] = "loop" /\ \E place \in {"serve", "blame"} : Goto(t, place)
  /\ UNCHANGED <<stop, main, ownVars, sessionVars, inbound, threads, shut, banned>>

\* The head of the main loop.
Loop(t) ==
  /\ pc[t] = "loop"
  /\ IF stop THEN Goto(t, "erase") ELSE \E place \in {"serve", "blame"} : Goto(t, place)
  /\ UNCHANGED <<stop, main, ownVars, sessionVars, inbound, threads, shut, banned>>

\* More messages than the policy allows in its window.
Flooded(t) ==
  /\ pc[t] = "serve" /\ Goto(t, "blame")
  /\ UNCHANGED <<stop, main, ownVars, sessionVars, inbound, threads, shut, banned>>

\* getaddr, addrv2, getblocks and getmempool, and what ChainSync has: whatever
\* is handled goes straight back to the head of the loop.
Answer(t) ==
  /\ pc[t] = "serve" /\ Goto(t, "loop")
  /\ UNCHANGED <<stop, main, ownVars, sessionVars, inbound, threads, shut, banned>>

\* "bye" from the peer, or a ping it has not answered in time.
PeerLeaves(t) ==
  /\ pc[t] = "serve" /\ Goto(t, "erase")
  /\ UNCHANGED <<stop, main, ownVars, sessionVars, inbound, threads, shut, banned>>

\* The catch clause tells by the text of the exception whether the connection
\* is gone; anything else, the node's own files included, adds to the score.
Failed(t) ==
  /\ pc[t] = "serve" /\ \E place \in {"erase", "loop", "blame"} : Goto(t, place)
  /\ UNCHANGED <<stop, main, ownVars, sessionVars, inbound, threads, shut, banned>>

Blame(t) ==
  /\ pc[t] = "blame" /\ Goto(t, "erase")
  /\ banned' = banned \cup ({peer[t]} \ Loopback)
  /\ UNCHANGED <<stop, main, ownVars, sessionVars, inbound, threads, shut>>

\* Mutant: the cleanup erases the peer's nonce whether or not this session put it in.
EraseAnyNonce(t) ==
  /\ pc[t] = "erase" /\ Goto(t, "forget")
  /\ sockets' = sockets \ {fd[t]}
  /\ nonces' = nonces \ {peer[t]}
  /\ registered' = registered \ {t}
  /\ UNCHANGED <<stop, main, ownVars, live, active, inbound, threads, shut, banned>>

\* Mutant: only registered sessions take their socket out.
EraseIfRegistered(t) ==
  /\ pc[t] = "erase" /\ Goto(t, "forget")
  /\ sockets' = IF t \in registered THEN sockets \ {fd[t]} ELSE sockets
  /\ nonces' = IF t \in registered THEN nonces \ {peer[t]} ELSE nonces
  /\ registered' = registered \ {t}
  /\ UNCHANGED <<stop, main, ownVars, live, active, inbound, threads, shut, banned>>

\* registered_nonce # 0: the cleanup cannot tell a nonce that is 0 from none.
HasNonce(t) == t \in registered /\ peer[t] # Zero

\* The cleanup, one step per lock, and then the destructor of the socket.
Erase(t) ==
  /\ pc[t] = "erase" /\ Goto(t, "forget")
  /\ sockets' = sockets \ {fd[t]}
  /\ nonces' = IF HasNonce(t) THEN nonces \ {peer[t]} ELSE nonces
  /\ registered' = registered \ {t}
  /\ UNCHANGED <<stop, main, ownVars, live, active, inbound, threads, shut, banned>>

Forget(t) ==
  /\ pc[t] = "forget" /\ Goto(t, "close")
  /\ live' = live \ {t}
  /\ active' = active - 1
  /\ inbound' = IF t \in In THEN inbound - 1 ELSE inbound
  /\ UNCHANGED <<stop, main, ownVars, sockets, nonces, registered, threads, shut, banned>>

Close(t) ==
  /\ pc[t] = "close" /\ Goto(t, IF t \in In THEN "done" ELSE "pause")
  /\ Release(t)
  /\ UNCHANGED <<stop, main, sessionVars, inbound, threads, banned>>

\* is_banned: an entry counts until its time has passed.
BanEnds(h) ==
  /\ h \in banned /\ banned' = banned \ {h}
  /\ UNCHANGED <<stop, main, pc, ownVars, sessionVars, inbound, threads, shut>>

----------------------------------------------------------------------------

Main == Launch \/ ShutSockets \/ JoinAccept \/ JoinOutbound \/ JoinSessions

Accepting ==
  \/ Poll \/ AcceptNothing \/ RejectBanned \/ CountInbound \/ TurnAway
  \/ \E f \in Fd, r \in Node : Accept(f, r)
  \/ \E i \in In : StartSession(i)

Dialling(o) ==
  \/ Check(o) \/ ConnectFails(o) \/ Pause(o)
  \/ \E f \in Fd : Connect(o, f)

InSession(t) ==
  \/ Enter(t) \/ LoadChain(t) \/ Handshake(t) \/ RegisterRefused(t) \/ Register(t)
  \/ Greet(t) \/ Loop(t)
  \/ Flooded(t) \/ Answer(t) \/ PeerLeaves(t) \/ Failed(t) \/ Blame(t)
  \/ Erase(t) \/ Forget(t) \/ Close(t)

Next ==
  \/ Start \/ RequestStop \/ Main \/ Accepting
  \/ \E o \in Out : Dialling(o)
  \/ \E t \in Session : InSession(t)
  \/ \E h \in Node : BanEnds(h)

\* Every thread is scheduled and no call blocks for ever: accept follows a
\* readable listener, and connect, send and receive have a time-out.
Fairness ==
  /\ WF_vars(Main) /\ WF_vars(Accepting)
  /\ \A o \in Out : WF_vars(Dialling(o))
  /\ \A t \in Session : WF_vars(InSession(t))

Spec == Init /\ [][Next]_vars /\ Fairness

----------------------------------------------------------------------------

\* The values the variables may have; the counters, std::size_t in the code,
\* never pass below zero.
TypeOK ==
  /\ stop \in BOOLEAN
  /\ main \in {"new", "launch", "running", "stopping", "join accept",
               "join outbound", "join sessions", "stopped"}
  /\ pc \in [Thread -> Running \cup {"none", "poll", "accept", "screen", "over", "begin",
                                     "check", "connect", "pause", "ended", "done"}]
  /\ fd \in [Thread -> Fd \cup {None}] /\ peer \in [Thread -> Node \cup {None}]
  /\ sockets \subseteq Fd /\ nonces \subseteq Remote
  /\ registered \subseteq Session /\ live \subseteq Session
  /\ inbound \in Nat /\ active \in Nat /\ threads \subseteq In
  /\ open \subseteq Fd /\ shut \subseteq open /\ banned \subseteq Node

\* The inbound sessions active_inbound_ stands for: those that have not given
\* their place back, and the one the accept thread has counted.
Places == {i \in In : pc[i] \in Running \ {"close"}}
Counted == IF pc[Acceptor] \in {"over", "begin"} THEN 1 ELSE 0

\* No path through accept_loop, start_session and the cleanup loses or doubles
\* a place, and the limit holds although the count is raised before the test.
InboundLimited ==
  /\ active = Cardinality({t \in Session : pc[t] \in Entered \cup {"forget"}})
  /\ inbound = Cardinality(Places) + Counted
  /\ Cardinality(Places) + (IF pc[Acceptor] = "begin" THEN 1 ELSE 0) <= MaxInbound

\* A node talks to another over one connection at a time, and never to itself:
\* active_peer_nonces_ has the peers of the registered sessions, also after a
\* session that was refused as a duplicate has cleaned up, and no others but
\* nonce 0. That one is never erased: its node, once gone, is a duplicate for ever.
OneSessionPerPeer ==
  /\ {peer[t] : t \in registered} \subseteq nonces
  /\ \A n \in nonces \ {Zero} : \E t \in registered : peer[t] = n
  /\ \A t, u \in registered : peer[t] = peer[u] => t = u
  /\ \A t \in live : pc[t] \in {"loop", "serve", "blame", "erase", "forget"}
                     /\ (t \in registered \/ pc[t] = "forget")

\* request_stop shuts down sockets of sessions only, although the system reuses
\* the number of a closed socket at once: every entry of active_sockets_ is
\* still open, and owned by the session that made it.
ShutsItsOwnSockets ==
  /\ sockets = {fd[t] : t \in {s \in Session : pc[s] \in Entered}}
  /\ \A t, u \in Thread : fd[t] = fd[u] /\ fd[t] # None => t = u
  /\ \A f \in shut : \E t \in Session : fd[t] = f /\ pc[t] \in Running \ {"start"}

\* When wait returns no thread of the node runs, nothing is open, and the
\* counters and sets are back where they began, but for nonce 0.
StoppedIsQuiet ==
  main = "stopped" =>
    /\ \A t \in Thread : pc[t] \in {"none", "ended", "done"}
    /\ open = {} /\ sockets = {} /\ nonces \subseteq {Zero} /\ live = {}
    /\ inbound = 0 /\ active = 0

\* wait returns after request_stop: no session, however late it was started,
\* outlives the stop flag.
StopEnds == stop ~> main = "stopped"

=============================================================================
