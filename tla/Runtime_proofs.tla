--------------------------- MODULE Runtime_proofs ---------------------------
(***************************************************************************)
(* Proofs about Runtime, for any number of connections at any place: its   *)
(* types, the order in which main() takes the server and the engine down,  *)
(* what is released at the exit, what a crash needs, and that the process  *)
(* implements ServiceContract step by step.                                *)
(***************************************************************************)
EXTENDS Runtime, Engine_proofs

\* What ShutdownOrder is about.
shutdownVars == <<mpc, life, srvRunning, slife, spc, lateAccepts>>

\* Lemma: ShutdownOrder holds when the process starts.
LEMMA ShutdownOrderInit == Init => ShutdownOrder
BY DEF Init, ServerInit, EngineInit, ShutdownOrder, MainPC

\* Lemma: the signal, the worker, the handlers and the clients do not touch it.
LEMMA OthersKeepOrder ==
  ASSUME NEW h \in Callers,
         Signal \/ RuntimeWorkerStep \/ RuntimeHandlerStep(h) \/ DestroyedFault(h) \/ ClientStep(h)
  PROVE  UNCHANGED shutdownVars
<1> USE DEF shutdownVars, mainVars, listener, acceptor
<1>1. CASE Signal
  BY <1>1 DEF Signal, serverVars, serverOnly, engineVars, engineOnly, control
<1>2. CASE RuntimeWorkerStep
  BY <1>2 DEF RuntimeWorkerStep, WorkerStep, WorkerTop, WorkerCheck, WorkerBlock, WorkerTimeout,
              WorkerWoken, WorkerMove, control, serverOnly
<1>3. CASE RuntimeHandlerStep(h)
  <2>1. CASE RouteLocally(h) \/ HealthFault(h) \/ Send(h) \/ CloseConnection(h)
    BY <1>3, <2>1 DEF RuntimeHandlerStep, RouteLocally, HealthFault, Send, CloseConnection,
                      serverOnly, engineVars, engineOnly, control
  <2>2. CASE RouteGenerate(h)
    BY <1>3, <2>2 DEF RuntimeHandlerStep, RouteGenerate, EngineCall, control
  <2>3. CASE EngineWorks(h)
    BY <1>3, <2>3, CallersKeepControl
    DEF RuntimeHandlerStep, EngineWorks, CallerStep, control, serverOnly
  <2>4. CASE GenerateDone(h)
    BY <1>3, <2>4 DEF RuntimeHandlerStep, GenerateDone, CallerTakesResult, control
  <2> QED
    BY <1>3, <2>1, <2>2, <2>3, <2>4 DEF RuntimeHandlerStep, HandlerStep
<1>4. CASE DestroyedFault(h)
  BY <1>4 DEF DestroyedFault, serverOnly, engineOnly, control
<1>5. CASE ClientStep(h)
  BY <1>5 DEF ClientStep, Connect, Receive, engineVars, engineOnly, control
<1> QED
  BY <1>1, <1>2, <1>3, <1>4, <1>5

\* Lemma: the main thread keeps the order, one place at a time.
LEMMA MainKeepsOrder ==
  ASSUME ShutdownOrder, MainStep
  PROVE  ShutdownOrder'
<1> USE DEF listener, acceptor, serverOnly, serverVars
<1>1. CASE MainStartEngine
  <2>1. UNCHANGED <<srvRunning, slife, spc, lateAccepts>>
    BY <1>1 DEF MainStartEngine
  <2>2. CASE mpc = "init" /\ OwnerStarts /\ mpc' = "engine"
    BY <2>1, <2>2 DEF OwnerStarts, StartCall, ShutdownOrder, MainPC
  <2>3. CASE mpc = "engine" /\ StartStep /\ UNCHANGED mpc
    <3>1. life' \in {"gpu", "load", "threads", "failed", "up"}
      BY <2>3 DEF StartStep, StartGpu, StartLoad, StartThreads
    <3> QED
      BY <2>1, <2>3, <3>1 DEF ShutdownOrder
  <2>4. CASE mpc = "engine" /\ life = "up" /\ mpc' = "server" /\ UNCHANGED engineVars
    BY <2>1, <2>4 DEF ShutdownOrder, MainPC, engineVars, engineOnly, control
  <2>5. CASE mpc = "engine" /\ life = "failed" /\ mpc' = "stopEngine" /\ UNCHANGED engineVars
    BY <2>1, <2>5 DEF ShutdownOrder, MainPC, engineVars, engineOnly, control
  <2> QED
    BY <1>1, <2>2, <2>3, <2>4, <2>5 DEF MainStartEngine
<1>2. CASE MainStartServer
  <2>1. mpc = "server" /\ UNCHANGED <<life, lateAccepts>>
    BY <1>2 DEF MainStartServer, ServerStart, engineVars, engineOnly, control
  <2>2. CASE slife = "off" /\ ServerStart /\ UNCHANGED mpc
    <3>1. \/ srvRunning' = TRUE /\ slife' = "up" /\ UNCHANGED mpc
          \/ srvRunning' = FALSE /\ slife' = "failed" /\ spc' = "none" /\ UNCHANGED mpc
      BY <2>2 DEF ServerStart, ShutdownOrder
    <3> QED
      BY <2>1, <2>2, <3>1 DEF ShutdownOrder
  <2>3. CASE slife = "up" /\ mpc' = "loop" /\ UNCHANGED serverVars
    BY <2>1, <2>3 DEF ShutdownOrder, MainPC
  <2>4. CASE slife = "failed" /\ mpc' = "stopEngine" /\ UNCHANGED serverVars
    BY <2>1, <2>4 DEF ShutdownOrder, MainPC
  <2> QED
    BY <1>2, <2>2, <2>3, <2>4 DEF MainStartServer
<1>3. CASE MainLoop
  BY <1>3 DEF MainLoop, ShutdownOrder, MainPC, engineVars, engineOnly, control
<1>4. CASE MainStopServer
  <2>1. mpc = "stopServer" /\ UNCHANGED <<life, lateAccepts>>
    BY <1>4 DEF MainStopServer, ServerStopFlag, ServerStopStep, ServerClose, ServerJoin,
                engineVars, engineOnly, control
  <2>2. CASE (ServerStopFlag \/ ServerStopStep) /\ UNCHANGED mpc
    <3>1. \/ srvRunning' = FALSE /\ slife' = "close" /\ UNCHANGED spc
          \/ srvRunning' = FALSE /\ slife' = "join" /\ UNCHANGED spc
          \/ srvRunning' = FALSE /\ slife' = "off" /\ spc' = "none"
      BY <2>2 DEF ServerStopFlag, ServerStopStep, ServerClose, ServerJoin, ShutdownOrder
    <3> QED
      BY <2>1, <2>2, <3>1 DEF ShutdownOrder
  <2>3. CASE slife = "off" /\ mpc' = "stopEngine" /\ UNCHANGED serverVars
    BY <2>1, <2>3 DEF ShutdownOrder, MainPC
  <2> QED
    BY <1>4, <2>2, <2>3 DEF MainStopServer
<1>5. CASE MainStopEngine
  <2>1. mpc = "stopEngine" /\ mpc' \in {"stopEngine", "destroyed"}
        /\ UNCHANGED <<srvRunning, slife, spc, lateAccepts>>
    BY <1>5 DEF MainStopEngine
  <2> QED
    BY <2>1 DEF ShutdownOrder, MainPC
<1>6. CASE MainExit
  BY <1>6 DEF MainExit, ShutdownOrder, MainPC
<1> QED
  BY <1>1, <1>2, <1>3, <1>4, <1>5, <1>6 DEF MainStep

\* Lemma: the accept loop keeps the order: it finds running_ cleared after an
\* accept() that returned late.
LEMMA AcceptorKeepsOrder ==
  ASSUME ShutdownOrder, RuntimeServerStep
  PROVE  ShutdownOrder'
<1>1. UNCHANGED <<mpc, life, srvRunning, slife>>
  BY DEF RuntimeServerStep, ServerThreadStep, ServerTop, AcceptCall, AcceptReturns, AcceptFails,
         mainVars, listener, engineVars, engineOnly, control
<1>2. CASE ServerTop \/ AcceptCall \/ AcceptFails
  BY <1>1, <1>2 DEF ServerTop, AcceptCall, AcceptFails, ShutdownOrder, MainPC
<1>3. ASSUME NEW h \in Callers, AcceptReturns(h) PROVE ShutdownOrder'
  <2>1. spc = "blocked" /\ lateAccepts = 0 /\ spc' = "top"
    BY <1>3 DEF AcceptReturns, ShutdownOrder
  <2>2. lateAccepts' = IF srvRunning THEN 0 ELSE 1
    BY <1>3, <2>1 DEF AcceptReturns
  <2> QED
    BY <1>1, <2>1, <2>2 DEF ShutdownOrder, MainPC
<1> QED
  BY <1>2, <1>3 DEF RuntimeServerStep, ServerThreadStep

\* Lemma: ShutdownOrder is inductive by itself.
LEMMA ShutdownOrderHolds == Spec => []ShutdownOrder
<1>1. ASSUME ShutdownOrder, UNCHANGED shutdownVars PROVE ShutdownOrder'
  BY <1>1 DEF ShutdownOrder, shutdownVars
<1>2. ShutdownOrder /\ [Next]_vars => ShutdownOrder'
  <2> SUFFICES ASSUME ShutdownOrder, [Next]_vars PROVE ShutdownOrder'
    OBVIOUS
  <2>1. CASE UNCHANGED vars
    BY <1>1, <2>1 DEF vars, serverVars, serverOnly, engineVars, engineOnly, control, listener,
                      acceptor, mainVars, shutdownVars
  <2>2. CASE Signal \/ RuntimeWorkerStep
    BY <1>1, <2>2
    DEF Signal, RuntimeWorkerStep, WorkerStep, WorkerTop, WorkerCheck, WorkerBlock, WorkerTimeout,
        WorkerWoken, WorkerMove, control, serverVars, serverOnly, engineVars, engineOnly, listener,
        acceptor, mainVars, shutdownVars
  <2> QED
    BY <1>1, <2>1, <2>2, OthersKeepOrder, MainKeepsOrder, AcceptorKeepsOrder DEF Next
<1> QED
  BY <1>2, ShutdownOrderInit, PTL DEF Spec

\* The accept() that was under way when RestApiServer::stop() began is the last
\* one, whatever number of clients is waiting.
THEOREM RuntimeAtMostOneLateAccept == Spec => []AtMostOneLateAccept
<1>1. ShutdownOrder => AtMostOneLateAccept
  BY DEF ShutdownOrder, AtMostOneLateAccept
<1> QED
  BY <1>1, ShutdownOrderHolds, PTL

\* main() stops the engine only when the accept loop is over: no handler can be
\* started while the model is being freed.
THEOREM RuntimeServerStopsFirst == Spec => []ServerStopsFirst
<1>1. ShutdownOrder => ServerStopsFirst
  BY DEF ShutdownOrder, ServerStopsFirst, MainPC
<1> QED
  BY <1>1, ShutdownOrderHolds, PTL

-----------------------------------------------------------------------------
(* The process as an engine, its callers being connections *)

\* A process that dies keeps the rest of the engine as it was.
Dies == crashed' = TRUE /\ UNCHANGED <<pointers, cache, frames, engineOnly>>

\* Lemma: what a handler thread does is a step of its caller, or it dies.
LEMMA HandlerIsCaller ==
  ASSUME NEW h \in Callers, HandlerStep(h)
  PROVE  \/ CallStep(h) \/ CallerTakesResult(h)
         \/ \E op \in {"generate", "stream"}, n \in PromptSizes, m \in TokenLimits :
              EngineCall(h, op, n, m)
         \/ UNCHANGED engineVars
         \/ Dies
<1>1. CASE RouteLocally(h) \/ CloseConnection(h)
  BY <1>1 DEF RouteLocally, CloseConnection
<1>2. CASE HealthFault(h)
  BY <1>2 DEF HealthFault, Dies
<1>3. CASE Send(h)
  BY <1>3 DEF Send, Dies, engineVars, backendVars
<1>4. CASE RouteGenerate(h) \/ EngineWorks(h) \/ GenerateDone(h)
  BY <1>4 DEF RouteGenerate, EngineWorks, GenerateDone
<1> QED
  BY <1>1, <1>2, <1>3, <1>4 DEF HandlerStep

\* Lemma: every step of the process is one of the engine, or it dies.
LEMMA ProcessIsEngine ==
  ASSUME Next
  PROVE  [EngineNext]_engineVars \/ Dies
<1>0. ~crashed
  BY DEF Next, Halted
<1>1. CASE MainStep
  <2>1. \/ OwnerStarts \/ StartStep \/ StopCall \/ StopStep \/ UNCHANGED engineVars
    BY <1>1 DEF MainStep, MainStartEngine, MainStartServer, ServerStart, MainLoop, MainStopServer,
                ServerStopFlag, ServerStopStep, ServerClose, ServerJoin, MainStopEngine, MainExit,
                serverVars
  <2> QED
    BY <1>0, <2>1 DEF EngineNext
<1>2. CASE Signal
  BY <1>2 DEF Signal, serverVars
<1>3. CASE RuntimeWorkerStep
  BY <1>0, <1>3 DEF RuntimeWorkerStep, EngineNext
<1>4. CASE RuntimeServerStep
  BY <1>4 DEF RuntimeServerStep, ServerThreadStep, ServerTop, AcceptCall, AcceptReturns, AcceptFails
<1>5. ASSUME NEW h \in Callers, RuntimeHandlerStep(h) PROVE [EngineNext]_engineVars \/ Dies
  BY <1>0, <1>5, HandlerIsCaller DEF RuntimeHandlerStep, EngineNext
<1>6. ASSUME NEW h \in Callers, DestroyedFault(h) PROVE Dies
  BY <1>6 DEF DestroyedFault, Dies
<1>7. ASSUME NEW h \in Callers, ClientStep(h) PROVE UNCHANGED engineVars
  BY <1>7 DEF ClientStep, Connect, Receive
<1> QED
  BY <1>1, <1>2, <1>3, <1>4, <1>5, <1>6, <1>7 DEF Next

\* Lemma: the types of the engine, its stages and those of its calls hold in the
\* process, whoever else runs in it.
LEMMA EngineKept ==
  ASSUME EngineTypeInv, EngineStages, CallStages, [Next]_vars
  PROVE  EngineTypeInv' /\ EngineStages' /\ CallStages'
<1>1. CASE Dies
  <2>1. BackendTypeInv'
    BY <1>1, FramesUnchanged DEF Dies, EngineTypeInv, BackendTypeInv, BackendTypeOK, pointers, cache
  <2>2. EngineTypeInv'
    BY <1>1, <2>1, CallsUnchanged
    DEF Dies, EngineTypeInv, EngineTypeOK, BackendTypeInv, engineOnly, control, CallsTyped
  <2>3. EngineStages'
    BY <1>1 DEF Dies, EngineStages, PointerStages, LifeStages, NoModelNoCalls, Loaded, Unloaded,
                pointers, frames, engineOnly, control, calls
  <2>4. CallStages'
    BY <1>1, StutterKeepsCallStages DEF Dies
  <2> QED
    BY <2>2, <2>3, <2>4
<1>2. CASE UNCHANGED engineVars
  <2>1. EngineStages'
    BY <1>2 DEF EngineStages, PointerStages, LifeStages, NoModelNoCalls, Loaded, Unloaded,
                engineVars, backendVars, pointers, frames, engineOnly, control, calls
  <2>2. CallStages'
    BY <1>2, StutterKeepsCallStages DEF engineVars, backendVars
  <2> QED
    BY <1>2, <2>1, <2>2, EngineTypesKept
<1>3. CASE Next /\ [EngineNext]_engineVars
  <2>1. EngineInv
    BY <1>3 DEF Next, Halted, EngineInv, AloneNeverFaults
  <2>2. EngineInv'
    BY <1>3, <2>1, EngineInvKept
  <2> QED
    BY <1>3, <2>2, EngineTypesKept DEF EngineInv
<1> QED
  BY <1>1, <1>2, <1>3, ProcessIsEngine DEF vars, serverVars

-----------------------------------------------------------------------------
(* Types of the process *)

RuntimeTypeInv == EngineTypeInv /\ RuntimeTypeOK

\* Lemma: refusing the waiting connections gives places of connections.
LEMMA ResetPendingTypes ==
  ASSUME NEW pc \in [Callers -> ConnectionPC]
  PROVE  ResetPending(pc) \in [Callers -> ConnectionPC]
BY DEF ResetPending, ConnectionPC

\* Lemma: the server keeps its types on the controlling thread.
LEMMA ServerControlTypes ==
  ASSUME ServerTypeOK, ServerStart \/ ServerStopFlag \/ ServerStopStep
  PROVE  ServerTypeOK'
<1> USE DEF connections, acceptor
<1>1. hpc' \in [Callers -> ConnectionPC] /\ UNCHANGED <<request, status, lateAccepts>>
  BY ResetPendingTypes DEF ServerTypeOK, ServerStart, ServerStopFlag, ServerStopStep, ServerClose,
                           ServerJoin
<1>2. /\ srvRunning' \in BOOLEAN /\ listen' \in ListenState /\ slife' \in ServerLife
      /\ spc' \in ServerPC
  BY DEF ServerTypeOK, ServerStart, ServerStopFlag, ServerStopStep, ServerClose, ServerJoin,
         ListenState, ServerLife, ServerPC
<1> QED
  BY <1>1, <1>2 DEF ServerTypeOK

\* Lemma: and on the server thread.
LEMMA AcceptorTypes ==
  ASSUME ServerTypeOK, RuntimeServerStep
  PROVE  ServerTypeOK'
<1>1. UNCHANGED <<listener, request, status>>
  BY DEF RuntimeServerStep, ServerThreadStep, ServerTop, AcceptCall, AcceptReturns, AcceptFails,
         connections
<1>2. spc' \in ServerPC
  BY DEF RuntimeServerStep, ServerThreadStep, ServerTop, AcceptCall, AcceptReturns, AcceptFails,
         ServerPC
<1>4. lateAccepts' \in {lateAccepts, lateAccepts + 1}
  BY DEF RuntimeServerStep, ServerThreadStep, ServerTop, AcceptCall, AcceptReturns, AcceptFails
<1>5. lateAccepts' \in Nat
  BY <1>4 DEF ServerTypeOK
<1>3. hpc' \in [Callers -> ConnectionPC]
  <2>1. CASE ServerTop \/ AcceptCall
    BY <2>1 DEF ServerTop, AcceptCall, connections, ServerTypeOK
  <2>2. CASE AcceptFails
    BY <2>2, ResetPendingTypes DEF AcceptFails, ServerTypeOK
  <2>3. ASSUME NEW h \in Callers, AcceptReturns(h) PROVE hpc' \in [Callers -> ConnectionPC]
    <3>1. [hpc EXCEPT ![h] = "recv"] \in [Callers -> ConnectionPC]
      BY DEF ServerTypeOK, ConnectionPC
    <3> QED
      BY <2>3, <3>1, ResetPendingTypes DEF AcceptReturns
  <2> QED
    BY <2>1, <2>2, <2>3 DEF RuntimeServerStep, ServerThreadStep
<1> QED
  BY <1>1, <1>2, <1>3, <1>5 DEF ServerTypeOK, listener

\* Lemma: and on the threads of the connections and among the clients.
LEMMA ConnectionTypes ==
  ASSUME ServerTypeOK, NEW h \in Callers, HandlerStep(h) \/ DestroyedFault(h) \/ ClientStep(h)
  PROVE  ServerTypeOK'
<1>1. UNCHANGED <<listener, acceptor>>
  BY DEF HandlerStep, RouteLocally, HealthFault, RouteGenerate, EngineWorks, GenerateDone, Send,
         CloseConnection, DestroyedFault, ClientStep, Connect, Receive, serverOnly
<1>2. \/ UNCHANGED hpc
      \/ \E pc \in {"pending", "close", "route", "engine", "send", "killed", "closed"} :
           HandlerMove(h, pc)
  BY DEF HandlerStep, RouteLocally, HealthFault, RouteGenerate, EngineWorks, GenerateDone, Send,
         CloseConnection, DestroyedFault, ClientStep, Connect, Receive, serverOnly, connections,
         Respond
<1>3. hpc' \in [Callers -> ConnectionPC]
  BY <1>2 DEF HandlerMove, ServerTypeOK, ConnectionPC
<1>4. UNCHANGED status \/ \E code \in Status : status' = [status EXCEPT ![h] = code]
  BY DEF HandlerStep, RouteLocally, HealthFault, RouteGenerate, EngineWorks, GenerateDone, Send,
         CloseConnection, DestroyedFault, ClientStep, Connect, Receive, serverOnly, connections,
         Respond, Status
<1>5. UNCHANGED request \/ \E r \in Request : request' = [request EXCEPT ![h] = r]
  BY DEF HandlerStep, RouteLocally, HealthFault, RouteGenerate, EngineWorks, GenerateDone, Send,
         CloseConnection, DestroyedFault, ClientStep, Connect, Receive, serverOnly, connections
<1> QED
  BY <1>1, <1>3, <1>4, <1>5 DEF ServerTypeOK, listener, acceptor

\* Lemma: the main thread changes the server by starting and stopping it only.
LEMMA MainTypes ==
  ASSUME RuntimeTypeOK, MainStep
  PROVE  ServerTypeOK' /\ mpc' \in MainPC /\ keepRunning' \in BOOLEAN /\ exitCode' \in {0, 1}
<1>1. ServerStart \/ ServerStopFlag \/ ServerStopStep \/ UNCHANGED serverOnly
  BY DEF MainStep, MainStartEngine, MainStartServer, MainLoop, MainStopServer, MainStopEngine,
         MainExit, serverVars
<1>2. ServerTypeOK'
  BY <1>1, ServerControlTypes
  DEF RuntimeTypeOK, ServerTypeOK, serverOnly, listener, acceptor, connections
<1> QED
  BY <1>2 DEF RuntimeTypeOK, MainPC, MainStep, MainStartEngine, MainStartServer, MainLoop,
              MainStopServer, MainStopEngine, MainExit

\* Lemma: every step keeps the types of the server and of main().
LEMMA RuntimeTypesKept ==
  ASSUME RuntimeTypeInv, EngineStages, CallStages, [Next]_vars
  PROVE  RuntimeTypeInv'
<1> USE DEF RuntimeTypeInv
<1>1. EngineTypeInv'
  BY EngineKept
<1>2. ASSUME ServerTypeOK', UNCHANGED mainVars PROVE RuntimeTypeInv'
  BY <1>1, <1>2 DEF RuntimeTypeOK, EngineTypeInv, mainVars
<1>3. ASSUME UNCHANGED serverOnly PROVE ServerTypeOK'
  BY <1>3 DEF RuntimeTypeOK, ServerTypeOK, serverOnly, listener, acceptor, connections
<1>4. CASE MainStep
  BY <1>1, <1>4, MainTypes DEF RuntimeTypeOK, EngineTypeInv
<1>5. CASE Signal
  BY <1>1, <1>3, <1>5 DEF Signal, RuntimeTypeOK, EngineTypeInv, serverVars
<1>6. CASE RuntimeWorkerStep \/ UNCHANGED vars
  BY <1>2, <1>3, <1>6 DEF RuntimeWorkerStep, vars, serverVars
<1>7. CASE RuntimeServerStep
  BY <1>2, <1>7, AcceptorTypes DEF RuntimeServerStep, RuntimeTypeOK
<1>8. ASSUME NEW h \in Callers, RuntimeHandlerStep(h) \/ DestroyedFault(h) \/ ClientStep(h)
      PROVE  RuntimeTypeInv'
  BY <1>2, <1>8, ConnectionTypes
  DEF RuntimeHandlerStep, DestroyedFault, ClientStep, RuntimeTypeOK
<1> QED
  BY <1>4, <1>5, <1>6, <1>7, <1>8 DEF Next

\* Lemma: a new process is well-typed, and its engine at rest.
LEMMA RuntimeInitTypes == Init => RuntimeTypeInv /\ EngineStages /\ CallStages
<1> SUFFICES ASSUME Init PROVE RuntimeTypeInv /\ EngineStages /\ CallStages
  OBVIOUS
<1>1. EngineTypeInv /\ EngineStages /\ CallStages
  BY EngineInitTypes, EngineInvInit DEF Init, ServerInit, EngineInv
<1>2. ServerTypeOK
  BY DEF Init, ServerInit, ServerTypeOK, ListenState, ServerLife, ServerPC, ConnectionPC, Request,
         Status
<1> QED
  BY <1>1, <1>2 DEF Init, RuntimeTypeInv, RuntimeTypeOK, EngineTypeInv, MainPC

\* Lemma: types and engine stages are inductive together.
LEMMA RuntimeTypes == Spec => [](RuntimeTypeInv /\ EngineStages /\ CallStages)
<1>1. RuntimeTypeInv /\ EngineStages /\ CallStages /\ [Next]_vars
      => RuntimeTypeInv' /\ EngineStages' /\ CallStages'
  BY RuntimeTypesKept, EngineKept DEF RuntimeTypeInv
<1> QED
  BY <1>1, RuntimeInitTypes, PTL DEF Spec

\* RuntimeTypeOK for any number of connections, prompts, limits and context sizes.
THEOREM RuntimeTypeCorrect == Spec => []RuntimeTypeOK
<1>1. RuntimeTypeInv => RuntimeTypeOK
  BY DEF RuntimeTypeInv
<1> QED
  BY <1>1, RuntimeTypes, PTL

-----------------------------------------------------------------------------
(* What is released when main() returns *)

\* What SocketOrder is about, apart from the connections.
socketVars == <<mpc, keepRunning, life, srvRunning, listen, slife>>

\* Lemma: the process starts without a socket.
LEMMA SocketOrderInit == Init => SocketOrder
BY DEF Init, ServerInit, EngineInit, SocketOrder

\* Lemma: the main thread opens and closes the socket in order.
LEMMA MainKeepsSocket ==
  ASSUME ShutdownOrder, SocketOrder, MainStep
  PROVE  SocketOrder'
<1> USE DEF listener, acceptor, connections, serverOnly, serverVars
<1>1. CASE MainStartEngine
  <2>1. UNCHANGED <<srvRunning, listen, slife, hpc, keepRunning>>
    BY <1>1 DEF MainStartEngine
  <2>2. /\ mpc \in {"init", "engine"} /\ listen = "none" /\ slife = "off"
        /\ mpc' \in {"init", "engine"} \/ (mpc' = "server" /\ ~srvRunning)
             \/ mpc' = "stopEngine"
    BY <1>1 DEF MainStartEngine, ShutdownOrder, SocketOrder, engineVars, engineOnly, control
  <2> QED
    BY <2>1, <2>2 DEF SocketOrder
<1>2. CASE MainStartServer
  <2>1. CASE slife = "off" /\ ServerStart /\ UNCHANGED <<mpc, keepRunning>>
    <3>1. mpc = "server" /\ listen = "none" /\ UNCHANGED <<hpc, life, mpc, keepRunning>>
      BY <1>2, <2>1 DEF MainStartServer, ServerStart, engineVars, engineOnly, control,
                        ShutdownOrder, SocketOrder
    <3>2. \/ srvRunning' = TRUE /\ listen' = "open" /\ slife' = "up"
          \/ UNCHANGED <<srvRunning, listen>> /\ slife' = "failed"
      BY <2>1 DEF ServerStart
    <3> QED
      BY <3>1, <3>2 DEF SocketOrder
  <2>2. CASE slife = "up" /\ mpc' = "loop" /\ UNCHANGED <<serverVars, keepRunning>>
    BY <1>2, <2>2 DEF SocketOrder, engineVars, engineOnly, control
  <2>3. CASE slife = "failed" /\ mpc' = "stopEngine" /\ UNCHANGED <<serverVars, keepRunning>>
    BY <1>2, <2>3 DEF SocketOrder, engineVars, engineOnly, control
  <2> QED
    BY <1>2, <2>1, <2>2, <2>3 DEF MainStartServer
<1>3. CASE MainLoop
  BY <1>3 DEF MainLoop, SocketOrder, engineVars, engineOnly, control
<1>4. CASE MainStopServer
  <2>1. mpc = "stopServer" /\ UNCHANGED <<life, keepRunning>>
    BY <1>4 DEF MainStopServer, ServerStopFlag, ServerStopStep, ServerClose, ServerJoin,
                engineVars, engineOnly, control
  <2>2. CASE (ServerStopFlag \/ ServerStopStep) /\ UNCHANGED mpc
    <3>1. CASE ServerStopFlag
      BY <2>1, <2>2, <3>1 DEF ServerStopFlag, SocketOrder
    <3>2. CASE ServerClose
      BY <2>1, <2>2, <3>2 DEF ServerClose, SocketOrder
    <3>3. CASE ServerJoin
      BY <2>1, <2>2, <3>3 DEF ServerJoin, SocketOrder
    <3> QED
      BY <2>2, <3>1, <3>2, <3>3 DEF ServerStopStep
  <2>3. CASE slife = "off" /\ mpc' = "stopEngine" /\ UNCHANGED serverVars
    BY <2>1, <2>3 DEF SocketOrder
  <2> QED
    BY <1>4, <2>2, <2>3 DEF MainStopServer
<1>5. CASE MainStopEngine
  <2>1. /\ mpc = "stopEngine"
        /\ mpc' = "stopEngine" \/ (mpc' = "destroyed" /\ life' = "off")
        /\ UNCHANGED <<keepRunning, srvRunning, listen, slife, hpc>>
    BY <1>5 DEF MainStopEngine, engineVars, engineOnly, control
  <2> QED
    BY <2>1 DEF SocketOrder
<1>6. CASE MainExit
  BY <1>6 DEF MainExit, SocketOrder, engineVars, engineOnly, control
<1> QED
  BY <1>1, <1>2, <1>3, <1>4, <1>5, <1>6 DEF MainStep

\* Lemma: SocketOrder depends on socketVars, and on the connections while there is
\* no socket.
LEMMA SocketStutter ==
  ASSUME SocketOrder, UNCHANGED socketVars, listen = "none" => UNCHANGED hpc
  PROVE  SocketOrder'
BY DEF SocketOrder, socketVars

\* Lemma: the server thread and the worker do not touch the socket, and accept no
\* connection without one.
LEMMA ThreadsKeepSocket ==
  ASSUME SocketOrder, RuntimeServerStep \/ RuntimeWorkerStep
  PROVE  SocketOrder'
<1>1. CASE RuntimeServerStep
  <2>1. UNCHANGED socketVars
    BY <1>1 DEF RuntimeServerStep, ServerThreadStep, ServerTop, AcceptCall, AcceptReturns,
                AcceptFails, mainVars, listener, engineVars, engineOnly, control, socketVars
  <2>2. listen = "none" => UNCHANGED hpc
    BY <1>1 DEF RuntimeServerStep, ServerThreadStep, ServerTop, AcceptCall, AcceptReturns,
                AcceptFails, connections, SocketOrder
  <2> QED
    BY <2>1, <2>2, SocketStutter
<1>2. CASE RuntimeWorkerStep
  <2>1. UNCHANGED <<socketVars, hpc>>
    BY <1>2 DEF RuntimeWorkerStep, WorkerStep, WorkerTop, WorkerCheck, WorkerBlock, WorkerTimeout,
                WorkerWoken, WorkerMove, control, serverOnly, listener, connections, mainVars,
                socketVars
  <2> QED
    BY <2>1, SocketStutter
<1> QED
  BY <1>1, <1>2

\* Lemma: nor do the handlers and the clients, and nobody connects without one.
LEMMA ConnectionsKeepSocket ==
  ASSUME SocketOrder, NEW h \in Callers,
         RuntimeHandlerStep(h) \/ DestroyedFault(h) \/ ClientStep(h)
  PROVE  SocketOrder'
<1>1. UNCHANGED <<mainVars, listener>>
  BY DEF RuntimeHandlerStep, HandlerStep, RouteLocally, HealthFault, RouteGenerate, EngineWorks,
         GenerateDone, Send, CloseConnection, DestroyedFault, ClientStep, Connect, Receive,
         serverOnly
<1>2. UNCHANGED life
  BY OthersKeepOrder DEF shutdownVars
<1>3. listen = "none" => UNCHANGED hpc
  <2>1. listen = "none" => hpc[h] = "none"
    BY DEF SocketOrder
  <2> QED
    BY <2>1 DEF RuntimeHandlerStep, HandlerStep, RouteLocally, HealthFault, RouteGenerate,
                EngineWorks, GenerateDone, Send, CloseConnection, DestroyedFault, ClientStep,
                Connect, Receive
<1> QED
  BY <1>1, <1>2, <1>3, SocketStutter DEF mainVars, listener, socketVars

\* Lemma: SocketOrder is inductive with ShutdownOrder.
LEMMA SocketOrderHolds == Spec => []SocketOrder
<1>1. ShutdownOrder /\ SocketOrder /\ [Next]_vars => SocketOrder'
  <2> SUFFICES ASSUME ShutdownOrder, SocketOrder, [Next]_vars PROVE SocketOrder'
    OBVIOUS
  <2>1. CASE UNCHANGED vars
    BY <2>1, SocketStutter DEF vars, serverVars, serverOnly, engineVars, engineOnly, control,
                               listener, connections, mainVars, socketVars
  <2>2. CASE Signal
    BY <2>2 DEF Signal, serverVars, serverOnly, engineVars, engineOnly, control, listener,
                connections, SocketOrder
  <2> QED
    BY <2>1, <2>2, MainKeepsSocket, ThreadsKeepSocket, ConnectionsKeepSocket DEF Next
<1> QED
  BY <1>1, SocketOrderInit, ShutdownOrderHolds, PTL DEF Spec

\* Lemma: only a failed start leaves the GPU behind, and main() reports it.
LEMMA GpuLeftKept ==
  ASSUME RuntimeTypeInv, EngineStages, ShutdownOrder, GpuLeft, [Next]_vars
  PROVE  GpuLeft'
<1>1. ASSUME UNCHANGED <<mpc, life, gpuUp, exitCode, slife>> PROVE GpuLeft'
  BY <1>1 DEF GpuLeft
<1>2. CASE MainStartEngine
  BY <1>2 DEF MainStartEngine, ShutdownOrder, GpuLeft, serverOnly, listener
<1>3. CASE MainStartServer
  <2>1. mpc = "server" /\ life' = "up"
    BY <1>3 DEF MainStartServer, ServerStart, ShutdownOrder, serverVars, engineVars, engineOnly, control
  <2> QED
    BY <2>1 DEF GpuLeft
<1>4. CASE MainLoop
  BY <1>4 DEF MainLoop, GpuLeft
<1>5. CASE MainStopServer
  <2>1. life' = "up"
    BY <1>5 DEF MainStopServer, ServerStopFlag, ServerStopStep, ServerClose, ServerJoin,
                ShutdownOrder, serverVars, engineVars, engineOnly, control
  <2> QED
    BY <2>1 DEF GpuLeft
<1>6. CASE MainStopEngine
  <2>1. mpc = "stopEngine" /\ UNCHANGED <<slife, exitCode>>
    BY <1>6 DEF MainStopEngine, serverVars, serverOnly, listener
  <2>2. (life = "off" /\ UNCHANGED <<life, gpuUp>>) \/ StopCall \/ StopStep
    BY <1>6 DEF MainStopEngine, serverVars, engineVars, engineOnly, control
  <2>3. \/ UNCHANGED <<life, gpuUp>> \/ (life = "failed" /\ UNCHANGED gpuUp)
        \/ life' \in {"clearReady", "notify", "join", "unload", "gpuDown"}
        \/ gpuUp' = FALSE /\ life' = "off"
    <3>1. CASE StopCall
      BY <3>1 DEF StopCall
    <3>2. CASE StopGpu
      BY <3>2 DEF StopGpu, GpuShutdown, EngineStages, LifeStages, RuntimeTypeInv, EngineTypeInv,
                  EngineTypeOK
    <3>3. CASE StopClearReady \/ StopNotify \/ StopJoin \/ StopUnload
      BY <3>3 DEF StopClearReady, StopNotify, StopJoin, StopUnload
    <3> QED
      BY <2>2, <3>1, <3>2, <3>3 DEF StopStep
  <2> QED
    BY <2>1, <2>3 DEF GpuLeft
<1>7. CASE MainExit
  BY <1>7 DEF MainExit, GpuLeft, serverVars, serverOnly, listener, engineVars, engineOnly, control
<1>8. CASE Signal
  BY <1>1, <1>8 DEF Signal, serverVars, serverOnly, listener, engineVars, engineOnly, control
<1>9. CASE RuntimeWorkerStep
  BY <1>1, <1>9 DEF RuntimeWorkerStep, WorkerStep, WorkerTop, WorkerCheck, WorkerBlock,
                    WorkerTimeout, WorkerWoken, WorkerMove, serverOnly, listener, control, mainVars
<1>10. CASE RuntimeServerStep
  BY <1>1, <1>10 DEF RuntimeServerStep, ServerThreadStep, ServerTop, AcceptCall, AcceptReturns,
                     AcceptFails, mainVars, listener, engineVars, engineOnly, control
<1>11. ASSUME NEW h \in Callers, RuntimeHandlerStep(h) \/ DestroyedFault(h) \/ ClientStep(h)
       PROVE  GpuLeft'
  <2>1. UNCHANGED <<mpc, exitCode>>
    BY <1>11 DEF RuntimeHandlerStep, DestroyedFault, ClientStep, mainVars
  <2>2. UNCHANGED slife /\ UNCHANGED life
    BY <1>11, OthersKeepOrder DEF shutdownVars
  <2>3. UNCHANGED gpuUp
    <3>1. CASE CallerStep(h)
      BY <3>1, CallersKeepControl DEF control
    <3>2. CASE ~CallerStep(h)
      BY <1>11, <3>2, HandlerIsCaller
      DEF RuntimeHandlerStep, CallerStep, Dies, DestroyedFault, ClientStep, Connect, Receive,
          engineVars, engineOnly, control
    <3> QED
      BY <3>1, <3>2
  <2> QED
    BY <1>1, <2>1, <2>2, <2>3
<1>12. CASE UNCHANGED vars
  BY <1>1, <1>12 DEF vars, mainVars, serverVars, serverOnly, listener, engineVars, engineOnly, control
<1> QED
  BY <1>2, <1>3, <1>4, <1>5, <1>6, <1>7, <1>8, <1>9, <1>10, <1>11, <1>12 DEF Next, MainStep

\* Lemma: what a returning main() knows of the GPU.
LEMMA GpuLeftHolds == Spec => []GpuLeft
<1>1. Init => GpuLeft
  BY DEF Init, GpuLeft
<1>2. RuntimeTypeInv /\ EngineStages /\ ShutdownOrder /\ GpuLeft /\ [Next]_vars => GpuLeft'
  BY GpuLeftKept
<1> QED
  BY <1>1, <1>2, RuntimeTypes, ShutdownOrderHolds, PTL DEF Spec

\* Whichever way main() returns, the model, its context, both threads it joins and
\* the socket are released; the GPU too, unless the engine itself did not start,
\* and then the exit code is 1 and there never was a server.
THEOREM RuntimeExitReleases == Spec => []ExitReleases
<1>1. RuntimeTypeInv /\ EngineStages /\ ShutdownOrder /\ SocketOrder /\ GpuLeft => ExitReleases
  <2> SUFFICES ASSUME RuntimeTypeInv, EngineStages, ShutdownOrder, SocketOrder, GpuLeft,
                      mpc = "exited"
               PROVE  ExitReleases
    BY DEF ExitReleases
  <2>1. life = "off" /\ spc = "none" /\ listen # "open"
    BY DEF SocketOrder, ShutdownOrder
  <2>2. wpc = "none" /\ ctx = "null" /\ model = "null"
    BY <2>1 DEF EngineStages, LifeStages, Unloaded, PointerStages
  <2>3. gpuUp => exitCode = 1 /\ slife = "off"
    BY <2>1 DEF GpuLeft
  <2> QED
    BY <2>1, <2>2, <2>3 DEF ExitReleases
<1> QED
  BY <1>1, RuntimeTypes, ShutdownOrderHolds, SocketOrderHolds, GpuLeftHolds, PTL

-----------------------------------------------------------------------------
(* What can kill the process *)

\* Lemma: the name of a freed model is read, or the destroyed engine used, only
\* behind a signal.
LEMMA FaultNeedsSignal ==
  ASSUME EngineStages, ShutdownOrder, SocketOrder, keepRunning \in BOOLEAN, NEW h \in Callers,
         HealthFault(h) \/ DestroyedFault(h)
  PROVE  ~keepRunning /\ hpc[h] \in {"route", "engine"}
<1>1. hpc[h] \in {"route", "engine"}
  BY DEF HealthFault, DestroyedFault
<1>2. listen # "none"
  BY <1>1 DEF SocketOrder
<1>3. mpc \in {"server", "loop", "stopServer", "stopEngine", "destroyed", "exited"}
  BY <1>2 DEF SocketOrder, ShutdownOrder, MainPC
<1>4. mpc \notin {"server", "loop"}
  <2> SUFFICES ASSUME mpc \in {"server", "loop"} PROVE FALSE
    OBVIOUS
  <2>1. life = "up"
    BY DEF ShutdownOrder
  <2>2. model # "dangling"
    BY <2>1, PointersWhileUp
  <2> QED
    BY <2>2 DEF HealthFault, DestroyedFault
<1> QED
  BY <1>1, <1>2, <1>3, <1>4 DEF SocketOrder

\* Lemma: a step of a handler leaves the process alive, or it is a fault of a
\* request or a send() to a peer that is gone.
LEMMA HandlerKillsBy ==
  ASSUME NEW h \in Callers, HandlerStep(h)
  PROVE  \/ UNCHANGED crashed
         \/ /\ crashed' = TRUE /\ UNCHANGED <<hpc, status>>
            /\ HealthFault(h) \/ (hpc[h] = "engine" /\ CallStep(h))
         \/ /\ crashed' = TRUE /\ UNCHANGED status
            /\ hpc[h] = "send" /\ HandlerMove(h, "killed")
<1>1. CASE RouteLocally(h) \/ CloseConnection(h)
  BY <1>1 DEF RouteLocally, CloseConnection, engineVars, backendVars
<1>2. CASE RouteGenerate(h) \/ GenerateDone(h)
  BY <1>2 DEF RouteGenerate, EngineCall, GenerateDone, CallerTakesResult, backendVars
<1>3. CASE EngineWorks(h)
  <2>1. UNCHANGED crashed \/ crashed' = TRUE
    <3>1. CASE EngineFault(h) \/ Fault(h)
      BY <3>1 DEF EngineFault, Fault
    <3>2. CASE ~EngineFault(h) /\ ~Fault(h)
      BY <1>3, <3>2
      DEF EngineWorks, CallStep, TokenizePrompt, TokenizeModel, ChooseStream, ChooseSource,
          EnterGenerate, Placeholder, StreamToken, DeliverToken, GenerateStep, ClearCache,
          PrefillBatch, Sample, Emit, DecodeToken, BackendReturns, LeaveGenerate, DecodeResponse,
          DecodePieces, backendVars
    <3> QED
      BY <3>1, <3>2
  <2> QED
    BY <1>3, <2>1 DEF EngineWorks, serverOnly, connections
<1>4. CASE HealthFault(h)
  BY <1>4 DEF HealthFault, serverOnly, connections
<1>5. CASE Send(h)
  BY <1>5 DEF Send
<1> QED
  BY <1>1, <1>2, <1>3, <1>4, <1>5 DEF HandlerStep

\* Lemma: main(), the worker and the server thread do not kill the process.
LEMMA OnlyRequestsKill ==
  ASSUME MainStep \/ Signal \/ RuntimeWorkerStep \/ RuntimeServerStep
  PROVE  UNCHANGED crashed
<1>1. CASE ThreadStep
  BY <1>1, ThreadsKeepCalls
<1>2. CASE ~ThreadStep
  BY <1>2
  DEF ThreadStep, MainStep, MainStartEngine, MainStartServer, ServerStart, MainLoop,
      MainStopServer, ServerStopFlag, ServerStopStep, ServerClose, ServerJoin, MainStopEngine,
      MainExit, Signal, RuntimeWorkerStep, RuntimeServerStep, ServerThreadStep, ServerTop,
      AcceptCall, AcceptReturns, AcceptFails, serverVars, engineVars, backendVars
<1> QED
  BY <1>1, <1>2

\* Lemma: whatever step kills the process, a request is behind it: a call that is
\* alone in the engine does not fault.
LEMMA CrashOnlyUnderRequestKept ==
  ASSUME RuntimeTypeInv, EngineStages, CallStages, ShutdownOrder, SocketOrder,
         CrashOnlyUnderRequest, [Next]_vars
  PROVE  CrashOnlyUnderRequest'
<1>1. CASE UNCHANGED vars
  BY <1>1 DEF vars, serverVars, serverOnly, connections, engineVars, engineOnly, calls,
              backendVars, mainVars, CrashOnlyUnderRequest
<1>2. CASE Next /\ UNCHANGED crashed
  BY <1>2 DEF Next, Halted, CrashOnlyUnderRequest
<1>3. CASE MainStep \/ Signal \/ RuntimeWorkerStep \/ RuntimeServerStep
  BY <1>1, <1>2, <1>3, OnlyRequestsKill
<1>4. ASSUME NEW h \in Callers, HealthFault(h) \/ DestroyedFault(h), UNCHANGED <<hpc, mainVars>>
      PROVE  CrashOnlyUnderRequest'
  <2>1. ~keepRunning /\ hpc[h] \in {"route", "engine"}
    BY <1>4, FaultNeedsSignal DEF RuntimeTypeInv, RuntimeTypeOK
  <2> QED
    BY <1>4, <2>1 DEF CrashOnlyUnderRequest, mainVars
<1>5. ASSUME NEW h \in Callers, RuntimeHandlerStep(h), ~UNCHANGED crashed, Next
      PROVE  CrashOnlyUnderRequest'
  <2>1. HandlerStep(h) /\ UNCHANGED mainVars /\ ~crashed
    BY <1>5 DEF RuntimeHandlerStep, Next, Halted
  <2>2. CASE HealthFault(h) /\ UNCHANGED hpc
    BY <1>4, <2>1, <2>2
  <2>3. CASE hpc[h] = "engine" /\ CallStep(h) /\ UNCHANGED hpc /\ crashed' = TRUE
    <3>1. h \in company
      BY <2>1, <2>3, AloneCallStep DEF RuntimeTypeInv
    <3>2. company' = company
      BY <2>3, CallStepCompany
    <3> QED
      BY <2>3, <3>1, <3>2 DEF CrashOnlyUnderRequest
  <2>4. CASE HandlerMove(h, "killed")
    <3>1. hpc'[h] = "killed"
      BY <2>4 DEF HandlerMove, RuntimeTypeInv, RuntimeTypeOK, ServerTypeOK
    <3> QED
      BY <3>1 DEF CrashOnlyUnderRequest
  <2> QED
    BY <1>5, <2>1, <2>2, <2>3, <2>4, HandlerKillsBy
<1>6. ASSUME NEW h \in Callers, DestroyedFault(h) PROVE CrashOnlyUnderRequest'
  BY <1>4, <1>6 DEF DestroyedFault, serverOnly, connections
<1>7. ASSUME NEW h \in Callers, ClientStep(h) PROVE UNCHANGED crashed
  BY <1>7 DEF ClientStep, Connect, Receive, engineVars, backendVars
<1> QED
  BY <1>1, <1>2, <1>3, <1>5, <1>6, <1>7 DEF Next

\* Lemma: the death of the process always has a request behind it.
LEMMA CrashOnlyUnderRequestHolds == Spec => []CrashOnlyUnderRequest
<1>1. Init => CrashOnlyUnderRequest
  BY DEF Init, ServerInit, EngineInit, BackendInit, CrashOnlyUnderRequest
<1>2. /\ RuntimeTypeInv /\ EngineStages /\ CallStages /\ ShutdownOrder /\ SocketOrder
      /\ CrashOnlyUnderRequest /\ [Next]_vars
      => CrashOnlyUnderRequest'
  BY CrashOnlyUnderRequestKept
<1> QED
  BY <1>1, <1>2, RuntimeTypes, ShutdownOrderHolds, SocketOrderHolds, PTL DEF Spec

\* Lemma: RuntimeInv holds of every process.
LEMMA RuntimeInvHolds == Spec => []RuntimeInv
BY RuntimeTypes, ShutdownOrderHolds, SocketOrderHolds, GpuLeftHolds, CrashOnlyUnderRequestHolds, PTL
DEF RuntimeInv

\* The process dies only while it serves a request, and before the signal only in
\* a send() to a peer that is gone (SIGPIPE) or with two requests in the engine at
\* once: a request that is alone there never kills it.
THEOREM RuntimeCrashOnlyUnderRequest == Spec => []CrashOnlyUnderRequest
<1>1. RuntimeInv => CrashOnlyUnderRequest
  BY DEF RuntimeInv
<1> QED
  BY <1>1, RuntimeInvHolds, PTL

-----------------------------------------------------------------------------
(* The process implements ServiceContract *)

\* The images of conn and late, and a step of the contract.
Connections == [h \in Callers |-> ConnectionOf(h)]
Late == lateAccepts > 0
ContractStep == [Contract!ServiceNext]_(Contract!serviceVars)

\* Lemma: the phase of a process that has not halted.
LEMMA AlivePhase ==
  ASSUME ~Halted
  PROVE  /\ srvRunning => Phase = "serving"
         /\ ~srvRunning /\ mpc \in {"init", "engine", "server"} => Phase = "starting"
         /\ ~srvRunning /\ mpc \notin {"init", "engine", "server"} => Phase = "draining"
BY DEF Phase, Halted

\* Lemma: the same behind a step that does not kill the process.
LEMMA NextPhase ==
  ASSUME ~crashed'
  PROVE  /\ mpc' = "exited" => Phase' = "stopped"
         /\ mpc' # "exited" /\ srvRunning' => Phase' = "serving"
         /\ mpc' \in {"init", "engine", "server"} /\ ~srvRunning' => Phase' = "starting"
         /\ mpc' \notin {"init", "engine", "server", "exited"} /\ ~srvRunning' => Phase' = "draining"
BY DEF Phase, Halted

\* Lemma: a step of the contract by its parts.
LEMMA ContractStepIs ==
  ASSUME ~Halted,
         \/ UNCHANGED <<Phase, Connections, Late>>
         \/ Contract!Advance \/ Contract!Crash \/ Contract!RefuseWaiting
         \/ \E k \in Callers : Contract!Arrive(k) \/ Contract!Admit(k) \/ Contract!Complete(k)
  PROVE  ContractStep
<1>1. Phase \in {"starting", "serving", "draining"}
  BY AlivePhase
<1> QED
  BY <1>1 DEF ContractStep, Contract!ServiceNext, Contract!Alive, Contract!serviceVars, Connections,
              Late

\* Lemma: where nothing happens to the connections, theirs is the same image.
LEMMA SameConnections ==
  ASSUME UNCHANGED <<hpc, status, lateAccepts>>
  PROVE  UNCHANGED <<Connections, Late>>
BY DEF Connections, ConnectionOf, Late

\* Lemma: a step of one connection changes one image.
LEMMA OneConnection ==
  ASSUME RuntimeTypeOK, NEW h \in Callers, NEW pc, NEW code,
         hpc' = [hpc EXCEPT ![h] = pc], status' = [status EXCEPT ![h] = code]
  PROVE  Connections' = [Connections EXCEPT ![h] = ConnectionOf(h)']
<1>1. \A k \in Callers \ {h} : hpc'[k] = hpc[k] /\ status'[k] = status[k]
  BY DEF RuntimeTypeOK, ServerTypeOK
<1>2. \A k \in Callers \ {h} : ConnectionOf(k)' = ConnectionOf(k)
  BY <1>1 DEF ConnectionOf
<1> QED
  BY <1>2 DEF Connections

\* Lemma: ResetPending refuses what waits.
LEMMA ResetRefuses ==
  ASSUME hpc' = ResetPending(hpc), UNCHANGED status
  PROVE  Connections' = Contract!Refuse(Contract!Waiting, Connections)
<1>1. ASSUME NEW k \in Callers
      PROVE  ConnectionOf(k)' = IF ConnectionOf(k) = "waiting" THEN "refused" ELSE ConnectionOf(k)
  BY DEF ConnectionOf, ResetPending
<1>2. \A k \in Callers : k \in Contract!Waiting <=> ConnectionOf(k) = "waiting"
  BY DEF Contract!Waiting
<1> QED
  BY <1>1, <1>2 DEF Connections, Contract!Refuse

\* Lemma: main() moves the phase, and refuses what waits when it closes the socket.
LEMMA MainImplements ==
  ASSUME RuntimeTypeOK, ShutdownOrder, SocketOrder, ~Halted, MainStep
  PROVE  ContractStep
<1> USE DEF listener, acceptor, connections, serverOnly, serverVars
<1>0. ~crashed' /\ mpc # "exited"
  BY OnlyRequestsKill DEF Halted
<1>1. ASSUME UNCHANGED <<hpc, status, lateAccepts>>, UNCHANGED Phase \/
             (Phase = "starting" /\ Phase' \in {"serving", "draining"}) \/
             (Phase = "serving" /\ Phase' = "draining") \/
             (Phase = "draining" /\ Phase' = "stopped")
      PROVE  ContractStep
  BY <1>1, SameConnections, ContractStepIs DEF Contract!Advance, Connections, Late
<1>2. CASE MainStartEngine
  <2>1. /\ UNCHANGED <<hpc, status, lateAccepts, srvRunning>> /\ ~srvRunning
        /\ mpc \in {"init", "engine"} /\ mpc' \in {"engine", "server", "stopEngine"}
    BY <1>2 DEF MainStartEngine, ShutdownOrder
  <2> QED
    BY <1>0, <1>1, <2>1, AlivePhase, NextPhase
<1>3. CASE MainStartServer
  <2>1. UNCHANGED <<hpc, status, lateAccepts>> /\ mpc = "server"
    BY <1>3 DEF MainStartServer, ServerStart
  <2>2. \/ ~srvRunning /\ mpc' = "server" /\ srvRunning' \in BOOLEAN
        \/ srvRunning /\ srvRunning' /\ mpc' = "loop"
        \/ ~srvRunning /\ ~srvRunning' /\ mpc' = "stopEngine"
    BY <1>3 DEF MainStartServer, ServerStart, ShutdownOrder
  <2> QED
    BY <1>0, <1>1, <2>1, <2>2, AlivePhase, NextPhase
<1>4. CASE MainLoop
  <2>1. UNCHANGED <<hpc, status, lateAccepts, srvRunning>> /\ srvRunning /\ mpc' = "stopServer"
    BY <1>4 DEF MainLoop, ShutdownOrder
  <2> QED
    BY <1>0, <1>1, <2>1, AlivePhase, NextPhase
<1>5. CASE MainStopServer
  <2>1. CASE ServerStopFlag /\ UNCHANGED mpc
    <3>1. /\ UNCHANGED <<hpc, status, lateAccepts>> /\ srvRunning /\ ~srvRunning'
          /\ mpc' = "stopServer"
      BY <1>5, <2>1 DEF MainStopServer, ServerStopFlag
    <3> QED
      BY <1>0, <1>1, <3>1, AlivePhase, NextPhase
  <2>2. CASE ServerClose /\ UNCHANGED mpc
    <3>1. /\ UNCHANGED <<status, lateAccepts, srvRunning>> /\ ~srvRunning /\ mpc = "stopServer"
          /\ mpc' = "stopServer" /\ (UNCHANGED hpc \/ hpc' = ResetPending(hpc))
      BY <1>5, <2>2 DEF MainStopServer, ServerClose, ShutdownOrder
    <3>2. Phase = "draining" /\ Phase' = "draining"
      BY <1>0, <3>1, AlivePhase, NextPhase
    <3>3. CASE hpc' = ResetPending(hpc)
      <4>1. Connections' = Contract!Refuse(Contract!Waiting, Connections)
        BY <3>1, <3>3, ResetRefuses
      <4>2. Contract!RefuseWaiting
        BY <3>1, <3>2, <4>1 DEF Contract!RefuseWaiting, Connections
      <4> QED
        BY <4>2, ContractStepIs
    <3> QED
      BY <1>1, <3>1, <3>2, <3>3
  <2>3. CASE \/ ServerJoin /\ UNCHANGED mpc
             \/ slife = "off" /\ mpc' = "stopEngine" /\ UNCHANGED serverVars
    <3>1. /\ UNCHANGED <<hpc, status, lateAccepts, srvRunning>> /\ ~srvRunning
          /\ mpc = "stopServer" /\ mpc' \in {"stopServer", "stopEngine"}
      BY <1>5, <2>3 DEF MainStopServer, ServerJoin, ShutdownOrder
    <3> QED
      BY <1>0, <1>1, <3>1, AlivePhase, NextPhase
  <2> QED
    BY <1>5, <2>1, <2>2, <2>3 DEF MainStopServer, ServerStopStep
<1>6. CASE MainStopEngine \/ MainExit
  <2>1. /\ UNCHANGED <<hpc, status, lateAccepts, srvRunning>> /\ ~srvRunning
        /\ mpc \in {"stopEngine", "destroyed"} /\ mpc' \in {"stopEngine", "destroyed", "exited"}
    BY <1>6 DEF MainStopEngine, MainExit, ShutdownOrder, SocketOrder
  <2> QED
    BY <1>0, <1>1, <2>1, AlivePhase, NextPhase
<1> QED
  BY <1>2, <1>3, <1>4, <1>5, <1>6 DEF MainStep

\* Lemma: a step that leaves main(), the flag running_ and the process alone keeps
\* the phase.
LEMMA SamePhase ==
  ASSUME UNCHANGED <<mpc, srvRunning, crashed>>
  PROVE  UNCHANGED Phase
BY DEF Phase, Halted

\* Lemma: accept() admits a connection: one at most while the service drains, and
\* the others are refused with the socket.
LEMMA AcceptImplements ==
  ASSUME RuntimeTypeOK, ShutdownOrder, SocketOrder, ~Halted, NEW h \in Callers,
         AcceptReturns(h), UNCHANGED mainVars
  PROVE  ContractStep
<1> USE DEF listener
<1>1. /\ UNCHANGED <<mpc, srvRunning, crashed, status>> /\ spc = "blocked" /\ hpc[h] = "pending"
      /\ lateAccepts = 0 /\ lateAccepts' = IF srvRunning THEN 0 ELSE 1
  BY DEF AcceptReturns, ShutdownOrder, mainVars, engineVars, backendVars
<1>2. UNCHANGED Phase
  BY <1>1, SamePhase
<1>3. Connections[h] = "waiting"
  BY <1>1 DEF Connections, ConnectionOf
<1>4. \/ Phase = "serving" /\ srvRunning /\ listen = "open"
      \/ Phase = "draining" /\ ~srvRunning
  <2>1. listen # "none"
    BY <1>1 DEF SocketOrder
  <2> QED
    BY <2>1, AlivePhase DEF ShutdownOrder, SocketOrder
<1>5. \E S \in {{}, Contract!Waiting \ {h}} :
        /\ Phase = "serving" => S = {}
        /\ Connections' = [Contract!Refuse(S, Connections) EXCEPT ![h] = "admitted"]
  <2> DEFINE accepted == [hpc EXCEPT ![h] = "recv"]
  <2>1. /\ accepted[h] = "recv"
        /\ \A k \in Callers \ {h} : accepted[k] = hpc[k]
    BY DEF RuntimeTypeOK, ServerTypeOK
  <2>2. hpc' = IF listen = "closed" THEN ResetPending(accepted) ELSE accepted
    BY DEF AcceptReturns
  <2> HIDE DEF accepted
  <2>3. CASE listen = "closed"
    <3>1. \A k \in Callers : hpc'[k] = IF accepted[k] = "pending" THEN "reset" ELSE accepted[k]
      BY <2>2, <2>3 DEF ResetPending
    <3>2. ConnectionOf(h)' = "admitted"
      BY <2>1, <3>1 DEF ConnectionOf
    <3>3. ASSUME NEW k \in Callers \ {h}
          PROVE  ConnectionOf(k)' = IF ConnectionOf(k) = "waiting" THEN "refused" ELSE ConnectionOf(k)
      BY <1>1, <2>1, <3>1 DEF ConnectionOf
    <3>4. \A k \in Callers : k \in Contract!Waiting <=> ConnectionOf(k) = "waiting"
      BY DEF Contract!Waiting
    <3>5. Connections' = [Contract!Refuse(Contract!Waiting \ {h}, Connections) EXCEPT ![h] = "admitted"]
      BY <3>2, <3>3, <3>4 DEF Connections, Contract!Refuse
    <3> QED
      BY <1>4, <2>3, <3>5
  <2>4. CASE listen # "closed"
    <3>1. ConnectionOf(h)' = "admitted"
      BY <2>1, <2>2, <2>4 DEF ConnectionOf
    <3>2. \A k \in Callers \ {h} : ConnectionOf(k)' = ConnectionOf(k)
      BY <1>1, <2>1, <2>2, <2>4 DEF ConnectionOf
    <3>3. Connections' = [Contract!Refuse({}, Connections) EXCEPT ![h] = "admitted"]
      BY <3>1, <3>2 DEF Connections, Contract!Refuse
    <3> QED
      BY <3>3
  <2> QED
    BY <2>3, <2>4
<1>6. Contract!Admit(h)
  BY <1>1, <1>2, <1>3, <1>4, <1>5 DEF Contract!Admit, Connections
<1> QED
  BY <1>6, ContractStepIs

\* Lemma: the rest of the accept loop.
LEMMA AcceptorImplements ==
  ASSUME RuntimeTypeOK, ShutdownOrder, SocketOrder, ~Halted, RuntimeServerStep
  PROVE  ContractStep
<1>1. CASE ServerTop \/ AcceptCall
  <2>1. UNCHANGED <<hpc, status, lateAccepts, mpc, srvRunning, crashed>>
    BY <1>1 DEF RuntimeServerStep, ServerTop, AcceptCall, connections, listener, mainVars,
                engineVars, backendVars
  <2> QED
    BY <2>1, SamePhase, SameConnections, ContractStepIs
<1>2. CASE AcceptFails
  <2>1. /\ UNCHANGED <<status, lateAccepts, mpc, srvRunning, crashed>>
        /\ hpc' = IF listen = "closed" THEN ResetPending(hpc) ELSE hpc
    BY <1>2 DEF RuntimeServerStep, AcceptFails, listener, mainVars, engineVars, backendVars
  <2>2. CASE listen = "closed"
    <3>1. Phase = "draining" /\ Phase' = "draining"
      BY <2>1, <2>2, SamePhase, AlivePhase DEF ShutdownOrder, SocketOrder
    <3>2. Connections' = Contract!Refuse(Contract!Waiting, Connections)
      BY <2>1, <2>2, ResetRefuses
    <3>3. Contract!RefuseWaiting
      BY <2>1, <3>1, <3>2 DEF Contract!RefuseWaiting, Connections
    <3> QED
      BY <3>3, ContractStepIs
  <2>3. CASE listen # "closed"
    BY <2>1, <2>3, SamePhase, SameConnections, ContractStepIs
  <2> QED
    BY <2>2, <2>3
<1> QED
  BY <1>1, <1>2, AcceptImplements DEF RuntimeServerStep, ServerThreadStep

\* Lemma: an admitted connection moves on as admitted, or it is complete, or the
\* process dies under it.
LEMMA AdmittedImplements ==
  ASSUME RuntimeTypeOK, ~Halted, NEW h \in Callers,
         ConnectionOf(h) = "admitted", UNCHANGED <<mpc, srvRunning, lateAccepts>>,
         \/ UNCHANGED crashed
            /\ \E pc \in {"route", "engine", "send", "close"}, code \in Status :
                 hpc' = [hpc EXCEPT ![h] = pc] /\ status' = [status EXCEPT ![h] = code]
         \/ crashed' = TRUE /\ UNCHANGED <<hpc, status>>
         \/ crashed' = TRUE /\ HandlerMove(h, "killed") /\ UNCHANGED status
  PROVE  ContractStep
<1>1. CASE crashed' = TRUE /\ UNCHANGED status /\ (UNCHANGED hpc \/ HandlerMove(h, "killed"))
  <2>1. Phase' = "crashed"
    BY <1>1 DEF Phase, Halted
  <2>2. UNCHANGED <<Connections, Late>>
    <3>1. CASE UNCHANGED hpc
      BY <1>1, <3>1, SameConnections
    <3>2. CASE HandlerMove(h, "killed")
      <4>1. ConnectionOf(h)' = "admitted"
        BY <3>2 DEF HandlerMove, ConnectionOf, RuntimeTypeOK, ServerTypeOK
      <4>2. status = [status EXCEPT ![h] = status[h]]
        BY DEF RuntimeTypeOK, ServerTypeOK
      <4>3. Connections' = [Connections EXCEPT ![h] = "admitted"]
        BY <1>1, <3>2, <4>1, <4>2, OneConnection DEF HandlerMove
      <4> QED
        BY <4>3 DEF Connections, Late
    <3> QED
      BY <1>1, <3>1, <3>2
  <2>3. Contract!Crash
    BY <2>1, <2>2 DEF Contract!Crash, Connections, Late
  <2> QED
    BY <2>3, ContractStepIs
<1>2. ASSUME UNCHANGED crashed, NEW pc \in {"route", "engine", "send", "close"}, NEW code \in Status,
             hpc' = [hpc EXCEPT ![h] = pc], status' = [status EXCEPT ![h] = code]
      PROVE  ContractStep
  <2>1. UNCHANGED <<Phase, Late>>
    BY <1>2, SamePhase DEF Late
  <2>2. Connections' = [Connections EXCEPT ![h] = ConnectionOf(h)']
    BY <1>2, OneConnection
  <2>3. hpc'[h] = pc /\ Connections[h] = "admitted"
    BY <1>2 DEF RuntimeTypeOK, ServerTypeOK, Connections
  <2>4. CASE pc # "close"
    <3>1. ConnectionOf(h)' = "admitted"
      BY <2>3, <2>4 DEF ConnectionOf
    <3>2. UNCHANGED Connections
      BY <2>2, <2>3, <3>1 DEF Connections
    <3> QED
      BY <2>1, <3>2, ContractStepIs
  <2>5. CASE pc = "close"
    <3>1. ConnectionOf(h)' \in {"answered", "dropped"}
      BY <2>3, <2>5 DEF ConnectionOf
    <3>2. Contract!Complete(h)
      BY <2>1, <2>2, <2>3, <3>1 DEF Contract!Complete, Connections, Late
    <3> QED
      BY <3>2, ContractStepIs
  <2> QED
    BY <2>4, <2>5
<1> QED
  BY <1>1, <1>2

\* Lemma: the threads of the connections and the clients.
LEMMA ConnectionImplements ==
  ASSUME RuntimeTypeOK, ShutdownOrder, SocketOrder, ~Halted, NEW h \in Callers,
         RuntimeHandlerStep(h) \/ DestroyedFault(h) \/ ClientStep(h)
  PROVE  ContractStep
<1>0. /\ UNCHANGED <<mpc, srvRunning, lateAccepts>>
      /\ hpc = [hpc EXCEPT ![h] = hpc[h]] /\ status = [status EXCEPT ![h] = status[h]]
      /\ status[h] \in Status /\ hpc[h] \in ConnectionPC
  BY OthersKeepOrder DEF shutdownVars, RuntimeTypeOK, ServerTypeOK
<1>1. CASE hpc[h] \in {"recv", "route", "engine", "send"}
  <2>1. ConnectionOf(h) = "admitted"
    BY <1>1 DEF ConnectionOf
  <2>2. CASE DestroyedFault(h)
    <3>1. crashed' = TRUE /\ UNCHANGED <<hpc, status>>
      BY <2>2 DEF DestroyedFault, serverOnly, connections
    <3> QED
      BY <1>0, <2>1, <3>1, AdmittedImplements
  <2>3. CASE ClientStep(h)
    <3>1. UNCHANGED <<crashed, status>> /\ \E pc \in {"route", "close"} : HandlerMove(h, pc)
      BY <1>1, <2>3 DEF ClientStep, Connect, Receive, engineVars, backendVars
    <3> QED
      BY <1>0, <2>1, <3>1, AdmittedImplements DEF HandlerMove
  <2>4. CASE RuntimeHandlerStep(h)
    <3>1. CASE UNCHANGED crashed
      <4>0. ~crashed
        BY DEF Halted
      <4>1. UNCHANGED status \/ \E code \in Status : status' = [status EXCEPT ![h] = code]
        BY <2>4 DEF RuntimeHandlerStep, HandlerStep, RouteLocally, HealthFault, RouteGenerate,
                    EngineWorks, GenerateDone, Send, CloseConnection, serverOnly, connections,
                    Respond, Status
      <4>2. \/ \E pc \in {"engine", "send", "close"} : HandlerMove(h, pc)
            \/ UNCHANGED hpc
        BY <1>1, <2>4, <3>1, <4>0 DEF RuntimeHandlerStep, HandlerStep, RouteLocally, HealthFault,
                          RouteGenerate, EngineWorks, GenerateDone, Send, CloseConnection,
                          serverOnly, connections, Respond
      <4>3. CASE UNCHANGED <<hpc, status>>
        BY <1>0, <3>1, <4>3, SamePhase, SameConnections, ContractStepIs
      <4>4. CASE UNCHANGED hpc /\ ~UNCHANGED status
        BY <1>1, <2>4, <4>4 DEF RuntimeHandlerStep, HandlerStep, RouteLocally, HealthFault,
                                RouteGenerate, EngineWorks, GenerateDone, Send, CloseConnection,
                                serverOnly, connections, Respond, HandlerMove, RuntimeTypeOK,
                                ServerTypeOK
      <4>5. ASSUME NEW pc \in {"engine", "send", "close"}, HandlerMove(h, pc)
            PROVE  ContractStep
        <5>1. \E code \in Status : status' = [status EXCEPT ![h] = code]
          BY <1>0, <4>1
        <5> QED
          BY <1>0, <2>1, <3>1, <4>5, <5>1, AdmittedImplements DEF HandlerMove
      <4> QED
        BY <4>2, <4>3, <4>4, <4>5
    <3>2. CASE ~UNCHANGED crashed
      <4>1. /\ crashed' = TRUE /\ UNCHANGED status
            /\ UNCHANGED hpc \/ HandlerMove(h, "killed")
        BY <2>4, <3>2, HandlerKillsBy DEF RuntimeHandlerStep
      <4> QED
        BY <1>0, <2>1, <4>1, AdmittedImplements
    <3> QED
      BY <3>1, <3>2
  <2> QED
    BY <2>2, <2>3, <2>4
<1>2. CASE hpc[h] = "none"
  <2>1. Connect(h) /\ UNCHANGED mainVars
    BY <1>2 DEF RuntimeHandlerStep, HandlerStep, RouteLocally, HealthFault, RouteGenerate,
                EngineWorks, GenerateDone, Send, CloseConnection, DestroyedFault, ClientStep, Receive
  <2>2. /\ hpc' = [hpc EXCEPT ![h] = "pending"] /\ UNCHANGED <<status, crashed>>
        /\ listen # "none"
    BY <2>1 DEF Connect, HandlerMove, engineVars, backendVars
  <2>3. UNCHANGED Phase /\ Phase \in {"serving", "draining"}
    BY <1>0, <2>2, SamePhase, AlivePhase DEF ShutdownOrder, SocketOrder
  <2>4. ConnectionOf(h)' = "waiting" /\ Connections[h] = "none"
    BY <1>2, <2>2 DEF ConnectionOf, Connections, RuntimeTypeOK, ServerTypeOK
  <2>5. Connections' = [Connections EXCEPT ![h] = "waiting"]
    BY <1>0, <2>2, <2>4, OneConnection
  <2>6. Contract!Arrive(h)
    BY <1>0, <2>3, <2>4, <2>5 DEF Contract!Arrive, Connections
  <2> QED
    BY <2>6, ContractStepIs
<1>3. CASE hpc[h] \in {"pending", "close", "closed", "reset", "killed"}
  <2>1. CloseConnection(h) /\ UNCHANGED mainVars /\ hpc[h] = "close"
    BY <1>3 DEF RuntimeHandlerStep, HandlerStep, RouteLocally, HealthFault, RouteGenerate,
                EngineWorks, GenerateDone, Send, CloseConnection, DestroyedFault, ClientStep,
                Connect, Receive
  <2>2. hpc' = [hpc EXCEPT ![h] = "closed"] /\ UNCHANGED <<status, crashed>>
    BY <2>1 DEF CloseConnection, HandlerMove, engineVars, backendVars
  <2>3. ConnectionOf(h)' = ConnectionOf(h)
    BY <2>1, <2>2 DEF ConnectionOf, RuntimeTypeOK, ServerTypeOK
  <2>4. Connections' = [Connections EXCEPT ![h] = ConnectionOf(h)]
    BY <1>0, <2>2, <2>3, OneConnection
  <2>5. UNCHANGED <<Phase, Connections, Late>>
    BY <1>0, <2>2, <2>4, SamePhase DEF Connections, Late
  <2> QED
    BY <2>5, ContractStepIs
<1> QED
  BY <1>0, <1>1, <1>2, <1>3 DEF ConnectionPC

\* Lemma: every step of the process is a step of the service, or none.
LEMMA StepImplements ==
  ASSUME RuntimeTypeOK, ShutdownOrder, SocketOrder, [Next]_vars
  PROVE  ContractStep
<1>1. CASE UNCHANGED vars
  <2>1. UNCHANGED <<hpc, status, lateAccepts, mpc, srvRunning, crashed>>
    BY <1>1 DEF vars, serverVars, serverOnly, engineVars, backendVars, listener, acceptor,
                connections, mainVars
  <2> QED
    BY <2>1, SamePhase, SameConnections DEF ContractStep, Contract!serviceVars, Connections, Late
<1>2. CASE Next /\ (Signal \/ RuntimeWorkerStep)
  <2>1. UNCHANGED <<hpc, status, lateAccepts, mpc, srvRunning, crashed>>
    BY <1>2, OnlyRequestsKill
    DEF Signal, RuntimeWorkerStep, serverVars, serverOnly, listener, acceptor, connections, mainVars
  <2> QED
    BY <1>2, <2>1, SamePhase, SameConnections, ContractStepIs DEF Next
<1> QED
  BY <1>1, <1>2, MainImplements, AcceptorImplements, ConnectionImplements DEF Next

\* The process implements the service its clients see: it serves while the accept
\* loop may run, drains from stop() on, admits one late connection at most, refuses
\* what waits when the socket goes, and dies only under an admitted request.
THEOREM RuntimeImplementsContract == Spec => ImplementsContract
<1>1. Init => Contract!ServiceInit
  BY DEF Init, ServerInit, EngineInit, BackendInit, Contract!ServiceInit, Phase, Halted, ConnectionOf
<1>2. RuntimeTypeInv /\ ShutdownOrder /\ SocketOrder /\ [Next]_vars
      => [Contract!ServiceNext]_(Contract!serviceVars)
  BY StepImplements DEF RuntimeTypeInv, ContractStep
<1> QED
  BY <1>1, <1>2, RuntimeTypes, ShutdownOrderHolds, SocketOrderHolds, PTL
  DEF Spec, ImplementsContract, Contract!ServiceSpec

=============================================================================
