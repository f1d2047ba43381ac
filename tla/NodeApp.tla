-------------------------------- MODULE NodeApp --------------------------------
(* Daemons that are started and stopped on one data directory (node_app.cpp),  *)
(* the RPC server of each (rpc.cpp), the callers of it, and the parent that    *)
(* waits for a daemon to be ready. The P2P node is in Connections; here it is  *)
(* there or not. What survives a process is in the directory: the cookie and   *)
(* the PID file. The lock goes with its process.                               *)
EXTENDS Integers

CONSTANTS Proc,    \* processes of binarycoind on the directory
          Caller,  \* processes of binarycoin-cli, each with one call at a time
          None,
          Part     \* a cookie file that is empty or cut short, and what is read of it

ASSUME MarkerAssumption == None # Part /\ None \notin Proc /\ Part \notin Proc

VARIABLES
  pc,      \* where run_node_child is
  failed,  \* it left the try block with an exception
  lock,    \* holder of .lock
  pidFile, \* the process binarycoind.pid names, or None
  cookie,  \* the process whose secret .cookie has, Part, or None
  node,    \* the processes with a PersistentTestnetNode
  stop,    \* stop_requested, of a signal or of the method stop
  rpc,     \* accept thread of the RPC server: "none", "up", "stopping", "ended"
  waiting, \* the processes whose parent waits in launch_node
  call,    \* how far each caller's call is
  at,      \* the process it is connected to
  key      \* the secret it has read from .cookie for this call

files == <<lock, pidFile, cookie>>
calls == <<call, at, key>>
vars == <<pc, failed, files, node, stop, rpc, waiting, calls>>

Starting == {"start", "locked", "pid", "node", "cookie", "listen"}
Serving == {"notify", "ready", "stop rpc", "wait rpc", "remove cookie"}
Unwinding == {"unwind rpc", "join rpc", "unwind node", "unwind pid", "unwind lock"}

Init ==
  /\ pc = [p \in Proc |-> "off"] /\ failed = [p \in Proc |-> FALSE]
  /\ lock = None /\ pidFile = None /\ cookie = None
  /\ node = {} /\ stop = {}
  /\ rpc = [p \in Proc |-> "none"] /\ waiting = {}
  /\ call = [c \in Caller |-> "idle"] /\ at = [c \in Caller |-> None]
  /\ key = [c \in Caller |-> None]

Step(p, from, to) == pc[p] = from /\ pc' = [pc EXCEPT ![p] = to]

\* An exception in the try block: the destructors of what has been built run
\* first, in reverse order, and the catch clause last.
Throw(p, from, to) == Step(p, from, to) /\ failed' = [failed EXCEPT ![p] = TRUE]

----------------------------------------------------------------------------
(* Starting.                                                                   *)

\* launch_node forks; with -daemonwait the parent reads the pipe.
Launch(p) ==
  /\ Step(p, "off", "start")
  /\ waiting' \in {waiting, waiting \cup {p}}
  /\ UNCHANGED <<failed, files, node, stop, rpc, calls>>

\* Mutant: a lock that others may share.
TakeSharedLock(p) ==
  /\ lock' = p
  /\ Step(p, "start", "locked")
  /\ UNCHANGED <<failed, pidFile, cookie, node, stop, rpc, waiting, calls>>

TakeLock(p) ==
  /\ lock = None /\ lock' = p
  /\ Step(p, "start", "locked")
  /\ UNCHANGED <<failed, pidFile, cookie, node, stop, rpc, waiting, calls>>

LockFails(p) ==
  /\ lock # None
  /\ Throw(p, "start", "caught")
  /\ UNCHANGED <<files, node, stop, rpc, waiting, calls>>

\* Whether the few bytes of the number are written is not looked at: the file may stay
\* empty.
WritePidFile(p) ==
  /\ Step(p, "locked", "pid")
  /\ pidFile' \in {p, None}
  /\ UNCHANGED <<failed, lock, cookie, node, stop, rpc, waiting, calls>>

\* The constructor of the node, and its start.
StartNode(p) ==
  /\ Step(p, "pid", "node")
  /\ node' = node \cup {p}
  /\ UNCHANGED <<failed, files, stop, rpc, waiting, calls>>

\* create_rpc_cookie truncates or creates the file ...
CreateCookie(p) ==
  /\ Step(p, "node", "cookie")
  /\ cookie' = Part
  /\ UNCHANGED <<failed, lock, pidFile, node, stop, rpc, waiting, calls>>

\* ... writes the secret when the stream is closed, whether that succeeds or not ...
WriteCookie(p) ==
  /\ cookie # None
  /\ Step(p, "cookie", "listen")
  /\ cookie' \in {p, Part}
  /\ UNCHANGED <<failed, lock, pidFile, node, stop, rpc, waiting, calls>>

\* ... and removes it again if it cannot be protected: for one if its name has been
\* removed meanwhile.
ProtectFails(p) ==
  /\ Throw(p, "cookie", "unwind node")
  /\ cookie' = None
  /\ UNCHANGED <<lock, pidFile, node, stop, rpc, waiting, calls>>

StartRpc(p) ==
  /\ Step(p, "listen", "notify")
  /\ rpc' = [rpc EXCEPT ![p] = "up"]
  /\ UNCHANGED <<failed, files, node, stop, waiting, calls>>

\* A file cannot be written, a port is taken, the chain does not load.
StartFails(p) ==
  /\ \/ Throw(p, "locked", "unwind lock")
     \/ \E place \in {"pid", "node", "listen"} : Throw(p, place, "unwind node")
  /\ UNCHANGED <<files, node, stop, rpc, waiting, calls>>

\* No memory for a message of the log, with the RPC server up: before the parent is
\* told, before the server is told to stop, or before the cookie is removed.
ServeFails(p) ==
  /\ \E place \in {"notify", "stop rpc", "remove cookie"} : Throw(p, place, "unwind rpc")
  /\ UNCHANGED <<files, node, stop, rpc, waiting, calls>>

\* Mutant: nothing is written to the pipe.
NotifyNobody(p) ==
  /\ Step(p, "notify", "ready")
  /\ UNCHANGED <<failed, files, node, stop, rpc, waiting, calls>>

\* The parent learns that the daemon is ready.
NotifyReady(p) ==
  /\ Step(p, "notify", "ready")
  /\ waiting' = waiting \ {p}
  /\ UNCHANGED <<failed, files, node, stop, rpc, calls>>

----------------------------------------------------------------------------
(* Stopping.                                                                   *)

\* From the installation of the handler on, until run_node_child takes it back; the
\* flag ends with the node.
Signal(p) ==
  /\ \/ pc[p] \in Serving \cup {"pid", "node", "cookie", "listen"}
     \/ pc[p] \in {"unwind rpc", "join rpc", "unwind node"} /\ failed[p]
  /\ stop' = stop \cup {p}
  /\ UNCHANGED <<pc, failed, files, node, rpc, waiting, calls>>

SeeStop(p) ==
  /\ p \in stop /\ Step(p, "ready", "stop rpc")
  /\ UNCHANGED <<failed, files, node, stop, rpc, waiting, calls>>

\* RpcServer::request_stop
RequestStop(p) == rpc' = [rpc EXCEPT ![p] = IF @ = "up" THEN "stopping" ELSE @]

\* The RPC server and the node are told to stop ...
StopRpc(p) ==
  /\ Step(p, "stop rpc", "wait rpc")
  /\ RequestStop(p)
  /\ UNCHANGED <<failed, files, node, stop, waiting, calls>>

\* Mutant: only the accept thread is joined.
AcceptThreadEnded(p) == rpc[p] = "ended"

\* RpcServer::wait joins the accept thread and the threads of all calls.
RpcThreadsEnded(p) == rpc[p] = "ended" /\ \A c \in Caller : at[c] = p => call[c] = "queued"

\* ... and waited for. PersistentTestnetNode::wait returns: Connections!StopEnds.
WaitRpc(p) ==
  /\ Step(p, "wait rpc", "remove cookie")
  /\ RpcThreadsEnded(p)
  /\ UNCHANGED <<failed, files, node, stop, rpc, waiting, calls>>

\* The last messages of the log may throw as well.
RemoveCookie(p) ==
  /\ Step(p, "remove cookie", "unwind rpc")
  /\ cookie' = None
  /\ failed' \in {failed, [failed EXCEPT ![p] = TRUE]}
  /\ UNCHANGED <<lock, pidFile, node, stop, rpc, waiting, calls>>

\* The sockets of calls that have got so far are closed.
Hangup(p, places) ==
  LET cut == {c \in Caller : at[c] = p /\ call[c] \in places}
  IN  /\ call' = [c \in Caller |-> IF c \in cut THEN "idle" ELSE call[c]]
      /\ at' = [c \in Caller |-> IF c \in cut THEN None ELSE at[c]]
      /\ key' = [c \in Caller |-> IF c \in cut THEN None ELSE key[c]]

\* Mutant: the destructor relies on the stop that the main thread has requested.
DestroyRpcUnstopped(p) ==
  /\ Step(p, "unwind rpc", "join rpc")
  /\ UNCHANGED <<failed, files, node, stop, rpc, waiting, calls>>

\* The destructor asks the server to stop, in case an exception came before that ...
DestroyRpc(p) ==
  /\ Step(p, "unwind rpc", "join rpc")
  /\ RequestStop(p)
  /\ UNCHANGED <<failed, files, node, stop, waiting, calls>>

\* ... and waits, once more or for the first time. The connections nobody has
\* accepted are reset with the listening socket.
CloseRpc(p) ==
  /\ Step(p, "join rpc", "unwind node")
  /\ RpcThreadsEnded(p)
  /\ rpc' = [rpc EXCEPT ![p] = "none"]
  /\ Hangup(p, {"queued"})
  /\ UNCHANGED <<failed, files, node, stop, waiting>>

\* Mutant: the flag outlives the node it stopped.
DestroyNodeOnly(p) ==
  /\ Step(p, "unwind node", "unwind pid")
  /\ node' = node \ {p}
  /\ UNCHANGED <<failed, files, stop, rpc, waiting, calls>>

\* The node, and stop_requested with it.
DestroyNode(p) ==
  /\ Step(p, "unwind node", "unwind pid")
  /\ node' = node \ {p} /\ stop' = stop \ {p}
  /\ UNCHANGED <<failed, files, rpc, waiting, calls>>

RemovePidFile(p) ==
  /\ Step(p, "unwind pid", "unwind lock")
  /\ pidFile' = None
  /\ UNCHANGED <<failed, lock, cookie, node, stop, rpc, waiting, calls>>

ReleaseLock(p) ==
  /\ Step(p, "unwind lock", IF failed[p] THEN "caught" ELSE "off")
  /\ lock' = None
  /\ UNCHANGED <<failed, pidFile, cookie, node, stop, rpc, waiting, calls>>

\* The catch clause tells the parent, if that has not been told, and removes the cookie
\* whoever has written it.
Catch(p) ==
  /\ Step(p, "caught", "off") /\ failed' = [failed EXCEPT ![p] = FALSE]
  /\ waiting' = waiting \ {p}
  /\ cookie' = None
  /\ UNCHANGED <<lock, pidFile, node, stop, rpc, calls>>

\* The process is killed, or a thread ends with an exception: the system closes
\* its files, sockets and pipe; cookie and PID file stay.
Die(p) ==
  /\ pc' = [pc EXCEPT ![p] = "off"] /\ failed' = [failed EXCEPT ![p] = FALSE]
  /\ lock' = (IF lock = p THEN None ELSE lock)
  /\ node' = node \ {p} /\ stop' = stop \ {p}
  /\ rpc' = [rpc EXCEPT ![p] = "none"]
  /\ waiting' = waiting \ {p}
  /\ UNCHANGED <<pidFile, cookie>>

\* Where a connected caller's call may be.
Connected == {"queued", "receiving", "handling", "answering"}

Kill(p) == pc[p] # "off" /\ Die(p) /\ Hangup(p, Connected)

----------------------------------------------------------------------------
(* The RPC server and its callers.                                             *)

EndAcceptLoop(p) ==
  /\ rpc[p] = "stopping" /\ rpc' = [rpc EXCEPT ![p] = "ended"]
  /\ UNCHANGED <<pc, failed, files, node, stop, waiting, calls>>

\* read_rpc_cookie: no file or an empty one is an error; of one that is cut short the
\* caller has a secret that no server has.
ReadCookie(c) ==
  /\ call[c] = "idle" /\ cookie # None
  /\ key' = [key EXCEPT ![c] = cookie]
  /\ call' = [call EXCEPT ![c] = "keyed"]
  /\ UNCHANGED <<pc, failed, files, node, stop, rpc, waiting, at>>

\* The system accepts a connection for as long as the socket listens.
Connect(c, p) ==
  /\ call[c] = "keyed" /\ rpc[p] # "none"
  /\ call' = [call EXCEPT ![c] = "queued"] /\ at' = [at EXCEPT ![c] = p]
  /\ UNCHANGED <<pc, failed, files, node, stop, rpc, waiting, key>>

ConnectFails(c) ==
  /\ call[c] = "keyed" /\ \A p \in Proc : rpc[p] = "none"
  /\ call' = [call EXCEPT ![c] = "idle"] /\ key' = [key EXCEPT ![c] = None]
  /\ UNCHANGED <<pc, failed, files, node, stop, rpc, waiting, at>>

AcceptCall(p, c) ==
  /\ rpc[p] \in {"up", "stopping"}
  /\ call[c] = "queued" /\ at[c] = p
  /\ call' = [call EXCEPT ![c] = "receiving"]
  /\ UNCHANGED <<pc, failed, files, node, stop, rpc, waiting, at, key>>

EndCall(c) ==
  /\ call' = [call EXCEPT ![c] = "idle"] /\ at' = [at EXCEPT ![c] = None]
  /\ key' = [key EXCEPT ![c] = None]

\* receive_http returns with the request, when the caller sends one. A wrong secret is
\* answered at once.
Receive(c) ==
  /\ call[c] = "receiving"
  /\ call' = [call EXCEPT ![c] = IF key[c] = at[c] THEN "handling" ELSE "answering"]
  /\ UNCHANGED <<pc, failed, files, node, stop, rpc, waiting, at, key>>

\* It finds the end of the stream: the caller has closed the connection.
ReceiveNothing(c) ==
  /\ call[c] = "receiving"
  /\ EndCall(c)
  /\ UNCHANGED <<pc, failed, files, node, stop, rpc, waiting>>

\* The handler works on the node; the method stop sets the flag.
Handle(c) ==
  /\ call[c] = "handling"
  /\ stop' \in {stop, stop \cup {at[c]}}
  /\ call' = [call EXCEPT ![c] = "answering"]
  /\ UNCHANGED <<pc, failed, files, node, rpc, waiting, at, key>>

\* The caller takes the answer, or has left and the exception is caught.
Answer(c) ==
  /\ call[c] = "answering"
  /\ EndCall(c)
  /\ UNCHANGED <<pc, failed, files, node, stop, rpc, waiting>>

\* The answer to an RpcError is sent from a catch clause; when the caller has
\* left, the exception of send_all leaves the thread and ends the process.
AnswerError(c) ==
  /\ call[c] = "answering" /\ key[c] = at[c]
  /\ Die(at[c]) /\ Hangup(at[c], Connected)

----------------------------------------------------------------------------

Run(p) ==
  \/ TakeLock(p) \/ LockFails(p) \/ WritePidFile(p) \/ StartNode(p)
  \/ CreateCookie(p) \/ WriteCookie(p) \/ ProtectFails(p) \/ StartRpc(p) \/ StartFails(p)
  \/ NotifyReady(p) \/ ServeFails(p)
  \/ SeeStop(p) \/ StopRpc(p) \/ WaitRpc(p) \/ RemoveCookie(p)
  \/ DestroyRpc(p) \/ CloseRpc(p) \/ DestroyNode(p) \/ RemovePidFile(p) \/ ReleaseLock(p)
  \/ Catch(p)

\* What a thread of the server does when the caller does something, or has left.
Serve(c) == Receive(c) \/ ReceiveNothing(c) \/ Answer(c) \/ AnswerError(c)

Next ==
  \/ \E p \in Proc : Launch(p) \/ Run(p) \/ Signal(p) \/ Kill(p) \/ EndAcceptLoop(p)
  \/ \E c \in Caller :
       \/ ReadCookie(c) \/ ConnectFails(c) \/ Handle(c) \/ Serve(c)
       \/ \E p \in Proc : Connect(c, p) \/ AcceptCall(p, c)

\* The threads of the daemon are scheduled. Nothing makes a caller send its request,
\* take its answer or leave: receive_http and send_all have no time-out.
Fairness ==
  /\ \A p \in Proc : WF_vars(Run(p)) /\ WF_vars(EndAcceptLoop(p))
  /\ \A c \in Caller : WF_vars(Handle(c))

Spec == Init /\ [][Next]_vars /\ Fairness

----------------------------------------------------------------------------

\* The values the variables may have; a stop flag belongs to the process that
\* has the lock, and none is left over for the next.
TypeOK ==
  /\ pc \in [Proc -> {"off", "caught"} \cup Starting \cup Serving \cup Unwinding]
  /\ failed \in [Proc -> BOOLEAN]
  /\ lock \in Proc \cup {None} /\ pidFile \in Proc \cup {None}
  /\ cookie \in Proc \cup {None, Part}
  /\ node \subseteq Proc /\ \A p \in stop : p = lock
  /\ rpc \in [Proc -> {"none", "up", "stopping", "ended"}]
  /\ waiting \subseteq Proc
  /\ call \in [Caller -> {"idle", "keyed"} \cup Connected]
  /\ at \in [Caller -> Proc \cup {None}] /\ key \in [Caller -> Proc \cup {None, Part}]

\* Two nodes never work on the directory, and while one does, the PID file names no
\* other and no call can get in with the secret of an earlier process: everything
\* that is built is gone before the lock is.
OneNode ==
  \A p \in node :
    /\ node = {p} /\ lock = p /\ pidFile \in {p, None}
    /\ rpc[p] # "none" /\ cookie \in Proc => cookie = p

\* No thread of the RPC server is left when the node it works on is gone.
HandlersHaveNode ==
  \A c \in Caller : call[c] \in Connected \ {"queued"} => at[c] \in node /\ rpc[at[c]] # "none"

\* A caller of p has connected, and from now on neither sends, nor takes its answer, nor
\* leaves: the thread that serves it is never joined.
HeldUp(p) == \E c \in Caller : [](at[c] = p /\ call[c] \in {"receiving", "answering"})

\* The parent always gets its answer, also when the child dies. An exception may come
\* with the RPC server up: then the catch clause comes after the server's destructor.
ParentIsTold == \A p \in Proc : (p \in waiting) ~> (p \notin waiting \/ HeldUp(p))

\* A daemon that is asked to stop, by a signal or by the method stop, ends, unless one
\* of its callers holds it up.
StopEnds == \A p \in Proc : (p \in stop) ~> (pc[p] \in {"off", "caught"} \/ HeldUp(p))
=============================================================================
