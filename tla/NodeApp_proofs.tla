---------------------------- MODULE NodeApp_proofs ----------------------------
(***************************************************************************)
(* Proofs about NodeApp, for any number of processes and callers.          *)
(***************************************************************************)
EXTENDS NodeApp, TLAPS

\* Where a process has the lock, its PID file, its node and its RPC server.
Listening == Serving \cup {"unwind rpc", "join rpc"}
Built == Listening \cup {"node", "cookie", "listen"}
Named == Built \cup {"pid", "unwind node", "unwind pid"}
Locked == Named \cup {"locked", "unwind lock"}

\* TypeOK, but for the stop flag.
Typed ==
  /\ pc \in [Proc -> {"off", "caught"} \cup Starting \cup Serving \cup Unwinding]
  /\ failed \in [Proc -> BOOLEAN]
  /\ lock \in Proc \cup {None} /\ pidFile \in Proc \cup {None}
  /\ cookie \in Proc \cup {None, Part}
  /\ node \subseteq Proc
  /\ rpc \in [Proc -> {"none", "up", "stopping", "ended"}]
  /\ waiting \subseteq Proc
  /\ call \in [Caller -> {"idle", "keyed"} \cup Connected]
  /\ at \in [Caller -> Proc \cup {None}] /\ key \in [Caller -> Proc \cup {None, Part}]

\* The lock is held from "locked" to "unwind lock", whatever happens in between.
LockInv == \A p \in Proc : lock = p <=> pc[p] \in Locked

\* The node is there while it is built upon, and the flag only with it.
NodeAt(p) ==
  /\ pc[p] \in Built => p \in node
  /\ p \in node => pc[p] \in Built \cup {"unwind node"}
  /\ p \in stop => pc[p] \in Named \ {"unwind pid"}
  /\ rpc[p] # "none" <=> pc[p] \in Listening
NodeInv == stop \subseteq Proc /\ \A p \in Proc : NodeAt(p)

\* The files of the process that has the lock; the catch clause of any other may
\* remove the cookie.
FileAt(p) ==
  /\ pc[p] \in Named => pidFile \in {p, None}
  /\ pc[p] = "cookie" => cookie \in {Part, None}
  /\ pc[p] \in Listening \cup {"listen"} => cookie \in {p, Part, None}
FileInv == \A p \in Proc : FileAt(p)

\* A connected caller is connected to a socket that listens.
CallInv ==
  \A c \in Caller : IF call[c] \in Connected THEN at[c] \in Proc /\ rpc[at[c]] # "none"
                                          ELSE at[c] = None

IInv == Typed /\ LockInv /\ NodeInv /\ FileInv /\ CallInv

LEMMA InitInv == Init => IInv
BY MarkerAssumption DEF Init, IInv, Typed, LockInv, NodeInv, NodeAt, FileInv, FileAt, CallInv,
     Locked, Named, Built, Listening, Starting, Serving, Unwinding, Connected

\* What a hangup leaves of the calls: those of p that have got so far are over.
LEMMA HangupFacts ==
  ASSUME Typed, NEW p \in Proc, NEW places, Hangup(p, places)
  PROVE  /\ call' \in [Caller -> {"idle", "keyed"} \cup Connected]
         /\ at' \in [Caller -> Proc \cup {None}]
         /\ key' \in [Caller -> Proc \cup {None, Part}]
         /\ \A c \in Caller : IF at[c] = p /\ call[c] \in places
                              THEN call'[c] = "idle" /\ at'[c] = None
                              ELSE call'[c] = call[c] /\ at'[c] = at[c]
<1> DEFINE cut == {c \in Caller : at[c] = p /\ call[c] \in places}
<1>1. /\ call' = [c \in Caller |-> IF c \in cut THEN "idle" ELSE call[c]]
      /\ at' = [c \in Caller |-> IF c \in cut THEN None ELSE at[c]]
      /\ key' = [c \in Caller |-> IF c \in cut THEN None ELSE key[c]]
  BY DEF Hangup
<1> QED BY <1>1 DEF Typed

\* The end of a process, and of the connections to it.
LEMMA DieTyped ==
  ASSUME Typed, NEW p \in Proc, Die(p), Hangup(p, Connected)
  PROVE  Typed'
<1>1. /\ call' \in [Caller -> {"idle", "keyed"} \cup Connected]
      /\ at' \in [Caller -> Proc \cup {None}]
      /\ key' \in [Caller -> Proc \cup {None, Part}]
  BY HangupFacts
<1> QED BY <1>1 DEF Typed, Die

LEMMA TypedStep ==
  ASSUME Typed, CallInv, [Next]_vars
  PROVE  Typed'
<1> USE DEF Step, files, calls
<1>1. ASSUME NEW p \in Proc, Launch(p) \/ Signal(p) \/ EndAcceptLoop(p)
      PROVE  Typed'
  BY <1>1 DEF Typed, Starting, Serving, Launch, Signal, EndAcceptLoop
<1>2. ASSUME NEW p \in Proc, Kill(p)
      PROVE  Typed'
  BY <1>2, DieTyped DEF Kill, Connected
<1>3. ASSUME NEW p \in Proc, Run(p), ~CloseRpc(p)
      PROVE  Typed'
  BY <1>3 DEF Run, TakeLock, LockFails, WritePidFile, StartNode, CreateCookie, WriteCookie,
       ProtectFails, StartRpc, StartFails, NotifyReady, ServeFails, SeeStop, StopRpc, WaitRpc,
       RemoveCookie, DestroyRpc, RequestStop, DestroyNode, RemovePidFile, ReleaseLock, Catch,
       Throw, Typed, Starting, Serving, Unwinding
<1>4. ASSUME NEW p \in Proc, CloseRpc(p)
      PROVE  Typed'
  <2>1. /\ call' \in [Caller -> {"idle", "keyed"} \cup Connected]
        /\ at' \in [Caller -> Proc \cup {None}]
        /\ key' \in [Caller -> Proc \cup {None, Part}]
    BY <1>4, HangupFacts DEF CloseRpc
  <2> QED BY <1>4, <2>1 DEF CloseRpc, Typed, Unwinding
<1>5. ASSUME NEW c \in Caller, ReadCookie(c) \/ ConnectFails(c)
      PROVE  Typed'
  BY <1>5 DEF ReadCookie, ConnectFails, Typed
<1>6. ASSUME NEW c \in Caller, Receive(c) \/ ReceiveNothing(c) \/ Handle(c) \/ Answer(c)
      PROVE  Typed'
  BY <1>6 DEF Receive, ReceiveNothing, Handle, Answer, EndCall, Typed, Connected
<1>7. ASSUME NEW c \in Caller, AnswerError(c)
      PROVE  Typed'
  BY <1>7, DieTyped DEF AnswerError, CallInv, Connected
<1>8. ASSUME NEW c \in Caller, NEW p \in Proc, Connect(c, p) \/ AcceptCall(p, c)
      PROVE  Typed'
  BY <1>8 DEF Connect, AcceptCall, Typed, Connected
<1>9. CASE UNCHANGED vars
  BY <1>9 DEF vars, Typed
<1> QED BY <1>1, <1>2, <1>3, <1>4, <1>5, <1>6, <1>7, <1>8, <1>9 DEF Next, Serve

procs == <<pc, lock, pidFile, cookie, node, rpc>>

\* Callers move nothing but their calls, unless one of them ends a process.
LEMMA CallerStep ==
  ASSUME Typed, CallInv, NEW c \in Caller,
         \/ ReadCookie(c) \/ ConnectFails(c) \/ Receive(c) \/ ReceiveNothing(c)
         \/ Handle(c) \/ Answer(c)
         \/ \E p \in Proc : Connect(c, p) \/ AcceptCall(p, c)
  PROVE  /\ UNCHANGED procs
         /\ stop' \ stop \subseteq {q \in Proc : rpc[q] # "none"}
<1>1. UNCHANGED procs /\ (stop' = stop \/ Handle(c))
  BY DEF ReadCookie, ConnectFails, Receive, ReceiveNothing, Handle, Answer, Connect,
       AcceptCall, files, procs
<1>2. CASE Handle(c)
  <2>1. at[c] \in Proc /\ rpc[at[c]] # "none"
    BY <1>2 DEF Handle, CallInv, Connected
  <2>2. stop' = stop \/ stop' = stop \cup {at[c]}
    BY <1>2 DEF Handle
  <2> QED BY <1>1, <2>1, <2>2 DEF procs
<1> QED BY <1>1, <1>2 DEF procs

\* The steps that take a process into or out of the lock.
LEMMA LockStep ==
  ASSUME Typed, LockInv, CallInv, [Next]_vars
  PROVE  LockInv'
<1> USE MarkerAssumption DEF Typed, LockInv, Locked, Named, Built, Listening, Serving, Step, Throw, files
<1>1. ASSUME NEW p \in Proc, Launch(p)
      PROVE  LockInv'
  BY <1>1 DEF Launch
<1>2. ASSUME NEW p \in Proc, Die(p)
      PROVE  LockInv'
  BY <1>2 DEF Die
<1>3. ASSUME NEW p \in Proc, TakeLock(p) \/ LockFails(p)
      PROVE  LockInv'
  <2>1. CASE TakeLock(p)
    BY <2>1 DEF TakeLock
  <2>2. CASE LockFails(p)
    BY <2>2 DEF LockFails
  <2> QED BY <1>3, <2>1, <2>2
<1>4. ASSUME NEW p \in Proc, ReleaseLock(p) \/ Catch(p)
      PROVE  LockInv'
  <2>1. CASE ReleaseLock(p)
    BY <2>1 DEF ReleaseLock
  <2>2. CASE Catch(p)
    BY <2>2 DEF Catch
  <2> QED BY <1>4, <2>1, <2>2
<1>5. ASSUME NEW p \in Proc,
             \/ WritePidFile(p) \/ StartNode(p) \/ CreateCookie(p) \/ WriteCookie(p)
             \/ ProtectFails(p) \/ StartRpc(p) \/ StartFails(p) \/ NotifyReady(p) \/ ServeFails(p)
             \/ SeeStop(p) \/ StopRpc(p) \/ WaitRpc(p) \/ RemoveCookie(p)
             \/ DestroyRpc(p) \/ CloseRpc(p) \/ DestroyNode(p) \/ RemovePidFile(p)
      PROVE  LockInv'
  <2>1. lock' = lock /\ pc[p] \in Locked
    BY <1>5 DEF WritePidFile, StartNode, CreateCookie, WriteCookie, ProtectFails, StartRpc,
         StartFails, NotifyReady, ServeFails, SeeStop, StopRpc, WaitRpc, RemoveCookie,
         DestroyRpc, RequestStop, CloseRpc, DestroyNode, RemovePidFile
  <2>2. \E to \in Locked : pc' = [pc EXCEPT ![p] = to]
    BY <1>5 DEF WritePidFile, StartNode, CreateCookie, WriteCookie, ProtectFails, StartRpc,
         StartFails, NotifyReady, ServeFails, SeeStop, StopRpc, WaitRpc, RemoveCookie,
         DestroyRpc, RequestStop, CloseRpc, DestroyNode, RemovePidFile
  <2> QED BY <2>1, <2>2
<1>6. CASE UNCHANGED procs
  BY <1>6 DEF procs
<1>7. ASSUME NEW p \in Proc, Signal(p) \/ EndAcceptLoop(p)
      PROVE  LockInv'
  BY <1>7 DEF Signal, EndAcceptLoop
<1> QED
  BY <1>1, <1>2, <1>3, <1>4, <1>5, <1>6, <1>7, CallerStep
  DEF Next, Run, Serve, Kill, AnswerError, CallInv, Connected, vars, procs

\* A process moves itself and nothing of the others, but for lock and files.
Moves(p) == Launch(p) \/ Run(p) \/ Signal(p) \/ EndAcceptLoop(p) \/ Die(p)
LEMMA OthersStay ==
  ASSUME Typed, NEW p \in Proc, Moves(p)
  PROVE  \A q \in Proc \ {p} :
           /\ pc'[q] = pc[q] /\ rpc'[q] = rpc[q]
           /\ q \in node' <=> q \in node
           /\ q \in stop' <=> q \in stop
<1> USE DEF Typed
<1>1. pc' = pc \/ \E to : pc' = [pc EXCEPT ![p] = to]
  BY DEF Moves, Launch, Run, Signal, EndAcceptLoop, Die, TakeLock, LockFails, WritePidFile,
       StartNode, CreateCookie, WriteCookie, ProtectFails, StartRpc, StartFails, NotifyReady,
       ServeFails, SeeStop, StopRpc, WaitRpc, RemoveCookie, DestroyRpc, RequestStop, CloseRpc,
       DestroyNode, RemovePidFile, ReleaseLock, Catch, Step, Throw
<1>2. rpc' = rpc \/ \E to : rpc' = [rpc EXCEPT ![p] = to]
  BY DEF Moves, Launch, Run, Signal, EndAcceptLoop, Die, TakeLock, LockFails, WritePidFile,
       StartNode, CreateCookie, WriteCookie, ProtectFails, StartRpc, StartFails, NotifyReady,
       ServeFails, SeeStop, StopRpc, WaitRpc, RemoveCookie, DestroyRpc, RequestStop, CloseRpc,
       DestroyNode, RemovePidFile, ReleaseLock, Catch
<1>3. node' = node \/ node' = node \cup {p} \/ node' = node \ {p}
  BY DEF Moves, Launch, Run, Signal, EndAcceptLoop, Die, TakeLock, LockFails, WritePidFile,
       StartNode, CreateCookie, WriteCookie, ProtectFails, StartRpc, StartFails, NotifyReady,
       ServeFails, SeeStop, StopRpc, WaitRpc, RemoveCookie, DestroyRpc, RequestStop, CloseRpc,
       DestroyNode, RemovePidFile, ReleaseLock, Catch
<1>4. stop' = stop \/ stop' = stop \cup {p} \/ stop' = stop \ {p}
  BY DEF Moves, Launch, Run, Signal, EndAcceptLoop, Die, TakeLock, LockFails, WritePidFile,
       StartNode, CreateCookie, WriteCookie, ProtectFails, StartRpc, StartFails, NotifyReady,
       ServeFails, SeeStop, StopRpc, WaitRpc, RemoveCookie, DestroyRpc, RequestStop, CloseRpc,
       DestroyNode, RemovePidFile, ReleaseLock, Catch
<1> QED BY <1>1, <1>2, <1>3, <1>4

LEMMA NodeStep ==
  ASSUME Typed, NodeInv, CallInv, [Next]_vars
  PROVE  NodeInv'
<1>1. ASSUME NEW p \in Proc, Moves(p)
      PROVE  NodeInv'
  <2>1. \A q \in Proc \ {p} : NodeAt(q)'
    BY <1>1, OthersStay DEF NodeInv, NodeAt
  <2>2. stop' \subseteq Proc
    <3>1. stop' \subseteq stop \cup {p}
      BY <1>1 DEF Moves, Launch, Run, Signal, EndAcceptLoop, Die, TakeLock, LockFails,
           WritePidFile, StartNode, CreateCookie, WriteCookie, ProtectFails, StartRpc,
           StartFails, NotifyReady, ServeFails, SeeStop, StopRpc, WaitRpc, RemoveCookie,
           DestroyRpc, RequestStop, CloseRpc, DestroyNode, RemovePidFile, ReleaseLock, Catch
    <3> QED BY <3>1 DEF NodeInv
  <2>3. NodeAt(p)'
    <3> USE DEF Typed, NodeInv, NodeAt, Named, Built, Listening, Serving, Step, files
    <3>1. CASE Launch(p) \/ Signal(p)
      BY <3>1 DEF Launch, Signal
    <3>9. CASE EndAcceptLoop(p) \/ Die(p)
      BY <3>9 DEF EndAcceptLoop, Die
    <3>2. CASE TakeLock(p) \/ LockFails(p) \/ WritePidFile(p) \/ StartNode(p)
      BY <3>2 DEF TakeLock, LockFails, WritePidFile, StartNode, Throw
    <3>3. CASE CreateCookie(p) \/ WriteCookie(p) \/ ProtectFails(p) \/ StartRpc(p)
      BY <3>3 DEF CreateCookie, WriteCookie, ProtectFails, StartRpc, Throw
    <3>4. CASE StartFails(p) \/ ServeFails(p)
      BY <3>4 DEF StartFails, ServeFails, Throw
    <3>5. CASE NotifyReady(p) \/ SeeStop(p) \/ StopRpc(p)
      BY <3>5 DEF NotifyReady, SeeStop, StopRpc, RequestStop
    <3>6. CASE WaitRpc(p) \/ RemoveCookie(p)
      BY <3>6 DEF WaitRpc, RemoveCookie
    <3>7. CASE DestroyRpc(p) \/ CloseRpc(p) \/ DestroyNode(p)
      BY <3>7 DEF DestroyRpc, RequestStop, CloseRpc, DestroyNode
    <3>8. CASE RemovePidFile(p) \/ ReleaseLock(p) \/ Catch(p)
      BY <3>8 DEF RemovePidFile, ReleaseLock, Catch
    <3> QED BY <1>1, <3>1, <3>2, <3>3, <3>4, <3>5, <3>6, <3>7, <3>8, <3>9 DEF Moves, Run
  <2> QED BY <2>1, <2>2, <2>3 DEF NodeInv
<1>2. ASSUME NEW c \in Caller,
             \/ ReadCookie(c) \/ ConnectFails(c) \/ Receive(c) \/ ReceiveNothing(c)
             \/ Handle(c) \/ Answer(c)
             \/ \E p \in Proc : Connect(c, p) \/ AcceptCall(p, c)
      PROVE  NodeInv'
  <2>1. UNCHANGED procs /\ stop' \ stop \subseteq {q \in Proc : rpc[q] # "none"}
    BY <1>2, CallerStep
  <2> QED BY <2>1 DEF procs, NodeInv, NodeAt, Named, Built, Listening, Serving
<1>3. CASE UNCHANGED vars
  BY <1>3 DEF vars, NodeInv, NodeAt
<1> QED
  BY <1>1, <1>2, <1>3 DEF Next, Moves, Serve, Kill, AnswerError, CallInv, Connected

\* The process with the lock is the only one that writes files. What any other may
\* do to them is to remove the cookie.
LEMMA FilesStay ==
  ASSUME Typed, LockInv, NEW p \in Proc, Moves(p), NEW q \in Proc \ {p}, pc[q] \in Named
  PROVE  pidFile' = pidFile /\ cookie' \in {cookie, None}
<1>1. pc[p] \notin Locked
  BY DEF LockInv, Locked
<1> QED
  BY <1>1 DEF Locked, Named, Built, Listening, Serving, Moves, Launch, Run, Signal,
       EndAcceptLoop, Die, TakeLock, LockFails, WritePidFile, StartNode, CreateCookie,
       WriteCookie, ProtectFails, StartRpc, StartFails, NotifyReady, ServeFails, SeeStop,
       StopRpc, WaitRpc, RemoveCookie, DestroyRpc, RequestStop, CloseRpc, DestroyNode,
       RemovePidFile, ReleaseLock, Catch, Step, Throw, files

LEMMA FileStep ==
  ASSUME Typed, LockInv, FileInv, CallInv, [Next]_vars
  PROVE  FileInv'
<1>1. ASSUME NEW p \in Proc, Moves(p)
      PROVE  FileInv'
  <2>1. \A q \in Proc \ {p} : FileAt(q)'
    BY <1>1, OthersStay, FilesStay DEF FileInv, FileAt, Named, Built, Listening
  <2>2. FileAt(p)'
    <3> USE DEF Typed, FileInv, FileAt, Named, Built, Listening, Serving, Step, files
    <3>1. CASE Launch(p) \/ Signal(p)
      BY <3>1 DEF Launch, Signal
    <3>2. CASE EndAcceptLoop(p) \/ Die(p)
      BY <3>2 DEF EndAcceptLoop, Die
    <3>3. CASE TakeLock(p) \/ LockFails(p) \/ WritePidFile(p) \/ StartNode(p)
      BY <3>3 DEF TakeLock, LockFails, WritePidFile, StartNode, Throw
    <3>4. CASE CreateCookie(p) \/ WriteCookie(p) \/ ProtectFails(p) \/ StartRpc(p)
      BY <3>4 DEF CreateCookie, WriteCookie, ProtectFails, StartRpc, Throw
    <3>5. CASE StartFails(p) \/ ServeFails(p)
      BY <3>5 DEF StartFails, ServeFails, Throw
    <3>6. CASE NotifyReady(p) \/ SeeStop(p) \/ StopRpc(p)
      BY <3>6 DEF NotifyReady, SeeStop, StopRpc, RequestStop
    <3>7. CASE WaitRpc(p) \/ RemoveCookie(p)
      BY <3>7 DEF WaitRpc, RemoveCookie
    <3>8. CASE DestroyRpc(p) \/ CloseRpc(p) \/ DestroyNode(p)
      BY <3>8 DEF DestroyRpc, RequestStop, CloseRpc, DestroyNode
    <3>9. CASE RemovePidFile(p) \/ Catch(p)
      BY <3>9 DEF RemovePidFile, Catch
    <3>10. CASE ReleaseLock(p)
      <4>1. pc'[p] \in {"caught", "off"}
        BY <3>10 DEF ReleaseLock
      <4> QED BY <4>1
    <3> QED BY <1>1, <3>1, <3>2, <3>3, <3>4, <3>5, <3>6, <3>7, <3>8, <3>9, <3>10 DEF Moves, Run
  <2> QED BY <2>1, <2>2 DEF FileInv
<1>2. CASE UNCHANGED procs
  BY <1>2 DEF procs, FileInv, FileAt
<1> QED
  BY <1>1, <1>2, CallerStep DEF Next, Moves, Serve, Kill, AnswerError, CallInv, Connected,
       vars, procs, files

\* A connection comes and goes with the socket that listens.
LEMMA CallStep ==
  ASSUME Typed, NodeInv, CallInv, [Next]_vars
  PROVE  CallInv'
<1>1. ASSUME NEW p \in Proc, Die(p), Hangup(p, Connected)
      PROVE  CallInv'
  <2>1. \A c \in Caller : IF at[c] = p /\ call[c] \in Connected
                          THEN call'[c] = "idle" /\ at'[c] = None
                          ELSE call'[c] = call[c] /\ at'[c] = at[c]
    BY <1>1, HangupFacts
  <2> QED BY <1>1, <2>1, MarkerAssumption DEF CallInv, Connected, Die, Typed
<1>2. ASSUME NEW p \in Proc, CloseRpc(p)
      PROVE  CallInv'
  <2>1. \A c \in Caller : IF at[c] = p /\ call[c] \in {"queued"}
                          THEN call'[c] = "idle" /\ at'[c] = None
                          ELSE call'[c] = call[c] /\ at'[c] = at[c]
    BY <1>2, HangupFacts DEF CloseRpc
  <2>2. \A c \in Caller : at[c] = p => call[c] \in {"queued"}
    BY <1>2 DEF CloseRpc, RpcThreadsEnded
  <2> QED BY <1>2, <2>1, <2>2, MarkerAssumption DEF CallInv, Connected, CloseRpc, Typed
<1>3. ASSUME NEW p \in Proc, Launch(p) \/ Run(p) \/ Signal(p) \/ EndAcceptLoop(p), ~CloseRpc(p)
      PROVE  CallInv'
  <2>1. call' = call /\ at' = at
    BY <1>3 DEF Launch, Run, Signal, EndAcceptLoop, TakeLock, LockFails, WritePidFile,
         StartNode, CreateCookie, WriteCookie, ProtectFails, StartRpc, StartFails,
         NotifyReady, ServeFails, SeeStop, StopRpc, WaitRpc, RemoveCookie, DestroyRpc,
         RequestStop, DestroyNode, RemovePidFile, ReleaseLock, Catch, calls
  <2>2. \A q \in Proc : rpc[q] # "none" => rpc'[q] # "none"
    BY <1>3 DEF Launch, Run, Signal, EndAcceptLoop, TakeLock, LockFails, WritePidFile,
         StartNode, CreateCookie, WriteCookie, ProtectFails, StartRpc, StartFails,
         NotifyReady, ServeFails, SeeStop, StopRpc, WaitRpc, RemoveCookie, DestroyRpc,
         RequestStop, DestroyNode, RemovePidFile, ReleaseLock, Catch, Typed
  <2> QED BY <2>1, <2>2 DEF CallInv
<1>4. ASSUME NEW c \in Caller, ReadCookie(c) \/ ConnectFails(c)
      PROVE  CallInv'
  BY <1>4 DEF ReadCookie, ConnectFails, CallInv, Connected, Typed
<1>5. ASSUME NEW c \in Caller, Receive(c) \/ ReceiveNothing(c) \/ Handle(c) \/ Answer(c)
      PROVE  CallInv'
  BY <1>5 DEF Receive, ReceiveNothing, Handle, Answer, EndCall, CallInv, Connected, Typed
<1>6. ASSUME NEW c \in Caller, NEW p \in Proc, Connect(c, p) \/ AcceptCall(p, c)
      PROVE  CallInv'
  BY <1>6 DEF Connect, AcceptCall, CallInv, Connected, Typed
<1>7. CASE UNCHANGED vars
  BY <1>7 DEF vars, calls, CallInv
<1>8. ASSUME NEW c \in Caller, AnswerError(c)
      PROVE  CallInv'
  BY <1>1, <1>8 DEF AnswerError, CallInv, Connected
<1>9. ASSUME NEW p \in Proc, Launch(p) \/ Run(p) \/ Signal(p) \/ Kill(p) \/ EndAcceptLoop(p)
      PROVE  CallInv'
  BY <1>9, <1>1, <1>2, <1>3 DEF Kill
<1> QED
  BY <1>4, <1>5, <1>6, <1>7, <1>8, <1>9 DEF Next, Serve

LEMMA StepInv == IInv /\ [Next]_vars => IInv'
BY TypedStep, LockStep, NodeStep, FileStep, CallStep DEF IInv

LEMMA InvImplies == IInv => TypeOK /\ OneNode /\ HandlersHaveNode
<1> SUFFICES ASSUME IInv PROVE TypeOK /\ OneNode /\ HandlersHaveNode
  OBVIOUS
<1>1. \A p \in node \cup stop : p \in Proc /\ lock = p
  BY DEF IInv, Typed, NodeInv, NodeAt, LockInv, Locked, Named
<1>2. TypeOK
  BY <1>1 DEF IInv, Typed, TypeOK
<1>3. OneNode
  <2> SUFFICES ASSUME NEW p \in node
               PROVE  /\ node = {p} /\ lock = p /\ pidFile \in {p, None}
                      /\ rpc[p] # "none" /\ cookie \in Proc => cookie = p
    BY DEF OneNode
  <2>1. p \in Proc /\ NodeAt(p) /\ FileAt(p)
    BY <1>1 DEF IInv, NodeInv, FileInv
  <2>2. node = {p} /\ lock = p
    BY <1>1
  <2>3. pidFile \in {p, None}
    BY <2>1 DEF NodeAt, FileAt, Named
  <2>4. ASSUME rpc[p] # "none", cookie \in Proc
        PROVE  cookie = p
    BY <2>1, <2>4, MarkerAssumption DEF NodeAt, FileAt
  <2> QED BY <2>2, <2>3, <2>4
<1>4. HandlersHaveNode
  BY DEF IInv, NodeInv, NodeAt, CallInv, Connected, HandlersHaveNode, Built
<1> QED BY <1>2, <1>3, <1>4

\* Every variable stays in its type, and a stop flag belongs to the process that
\* has the lock: run_node_child never leaves one for the next process
\* (node_app.cpp:156-174).
THEOREM TypeCorrect == Spec => []TypeOK
BY InitInv, StepInv, InvImplies, PTL DEF Spec

\* However many processes are started, stopped and killed on one directory, at most
\* one has a node, it has the lock, the PID file names no other, and no secret of another
\* process is in .cookie while its RPC server listens (node_app.cpp:139-243).
THEOREM OneNodeAtATime == Spec => []OneNode
BY InitInv, StepInv, InvImplies, PTL DEF Spec

\* A thread of the RPC server that receives, handles or answers a call has a node to work
\* on: RpcServer::wait comes before the destructor of the node (rpc.cpp:290,
\* node_app.cpp:210).
THEOREM HandlersAreServed == Spec => []HandlersHaveNode
BY InitInv, StepInv, InvImplies, PTL DEF Spec
=============================================================================
