--------------------------- MODULE RestApiServer ----------------------------
(***************************************************************************)
(* src/server/rest_api_server.cpp: the HTTP front.  The controlling thread *)
(* runs start() and stop(); one server thread loops in accept(); every     *)
(* accepted connection gets a detached thread that reads one request,      *)
(* calls the engine, sends one response and closes.  Nobody joins or       *)
(* counts these threads.                                                   *)
(*                                                                         *)
(* A connection is served by the caller of the same name, so Callers       *)
(* bounds the number of connections of a behaviour.  The socket follows    *)
(* Linux: closing the listening descriptor does not wake a thread that is  *)
(* already blocked in accept(), and the kernel keeps the socket listening  *)
(* until that accept() returns.                                            *)
(***************************************************************************)
EXTENDS InferenceEngine

CONSTANT PeersMayLeave   \* may a client be gone when its response is sent?

ASSUME PeersAssumption == PeersMayLeave \in BOOLEAN

VARIABLES srvRunning,    \* running_
          listen,        \* the listening descriptor
          slife,         \* where the controlling thread is in start() / stop()
          spc,           \* where the server thread is
          lateAccepts,   \* history: accepts that returned after stop() began
          hpc,           \* each connection and the thread that serves it
          request,       \* what route_request makes of the bytes received
          status         \* status_code of the response, 0 before there is one

listener == <<srvRunning, listen, slife>>
acceptor == <<spc, lateAccepts>>
connections == <<hpc, request, status>>
serverOnly == <<listener, acceptor, connections>>
serverVars == <<engineVars, serverOnly>>

ListenState == {"none", "open", "closed"}
ServerLife == {"off", "failed", "up", "close", "join"}
ServerPC == {"none", "top", "call", "blocked", "done"}
ConnectionPC == {"none", "pending", "recv", "route", "engine", "send", "close",
                 "closed", "reset", "killed"}
\* "killed": the thread whose send() raised SIGPIPE.
\* "number": a completion whose max_tokens or temperature stoi / stof reject;
\* "other": no route, which is also what a cut request line becomes.
Request == {"none", "health", "models", "generate", "number", "other"}
Status == {0, 200, 404, 500}

ServerInit ==
  /\ EngineInit
  /\ srvRunning = FALSE /\ listen = "none" /\ slife = "off"
  /\ spc = "none" /\ lateAccepts = 0
  /\ hpc = [h \in Callers |-> "none"]
  /\ request = [h \in Callers |-> "none"]
  /\ status = [h \in Callers |-> 0]

-----------------------------------------------------------------------------
(* start() and stop(), on the controlling thread *)

ServerStart ==
  /\ slife = "off"
  /\ \/ /\ srvRunning' = TRUE /\ listen' = "open" /\ spc' = "top" /\ slife' = "up"
     \/ /\ slife' = "failed"                        \* socket, bind or listen
        /\ UNCHANGED <<srvRunning, listen, spc>>
  /\ UNCHANGED <<engineVars, lateAccepts, connections>>

ServerStopFlag_Forgotten ==
  /\ slife = "up" /\ srvRunning
  /\ slife' = "close"
  /\ UNCHANGED <<engineVars, srvRunning, listen, acceptor, connections>>

ServerStopFlag ==
  /\ slife = "up" /\ srvRunning
  /\ srvRunning' = FALSE /\ slife' = "close"
  /\ UNCHANGED <<engineVars, listen, acceptor, connections>>

\* The connections nobody accepted die with the socket.
ResetPending(pc) == [h \in Callers |-> IF pc[h] = "pending" THEN "reset" ELSE pc[h]]

\* close(server_fd_): the socket survives while accept() is blocked on it.
ServerClose ==
  /\ slife = "close"
  /\ listen' = "closed" /\ slife' = "join"
  /\ hpc' = IF spc = "blocked" THEN hpc ELSE ResetPending(hpc)
  /\ UNCHANGED <<engineVars, srvRunning, acceptor, request, status>>

ServerJoin_Detached ==
  /\ slife = "join"
  /\ slife' = "off"
  /\ UNCHANGED <<engineVars, srvRunning, listen, acceptor, connections>>

ServerJoin ==
  /\ slife = "join" /\ spc = "done"
  /\ spc' = "none" /\ slife' = "off"
  /\ UNCHANGED <<engineVars, srvRunning, listen, lateAccepts, connections>>

ServerStopStep == ServerClose \/ ServerJoin

-----------------------------------------------------------------------------
(* handle_client(-1), the accept loop on the server thread *)

\* while (running_)
ServerTop_Unchecked ==
  /\ spc = "top"
  /\ spc' = "call"
  /\ UNCHANGED <<engineVars, listener, lateAccepts, connections>>

ServerTop ==
  /\ spc = "top"
  /\ spc' = IF srvRunning THEN "call" ELSE "done"
  /\ UNCHANGED <<engineVars, listener, lateAccepts, connections>>

\* accept(): EBADF on the closed descriptor, else it blocks.
AcceptCall ==
  /\ spc = "call"
  /\ spc' = IF listen = "closed" THEN "top" ELSE "blocked"
  /\ UNCHANGED <<engineVars, listener, lateAccepts, connections>>

\* accept() gives a connection, and std::thread(...).detach() serves it.  If
\* stop() closed the descriptor meanwhile this was the socket's last accept.
AcceptReturns(h) ==
  /\ spc = "blocked" /\ hpc[h] = "pending"
  /\ spc' = "top"
  /\ LET accepted == [hpc EXCEPT ![h] = "recv"]
     IN hpc' = IF listen = "closed" THEN ResetPending(accepted) ELSE accepted
  /\ lateAccepts' = IF srvRunning THEN lateAccepts ELSE lateAccepts + 1
  /\ UNCHANGED <<engineVars, listener, request, status>>

\* accept() fails (an aborted connection, no descriptors left) and is retried.
AcceptFails ==
  /\ spc = "blocked"
  /\ spc' = "top"
  /\ hpc' = IF listen = "closed" THEN ResetPending(hpc) ELSE hpc
  /\ UNCHANGED <<engineVars, listener, lateAccepts, request, status>>

\* What the kernel and the scheduler owe the thread: no accept() has to fail.
ServerThreadStep == ServerTop \/ AcceptCall \/ \E h \in Callers : AcceptReturns(h)

-----------------------------------------------------------------------------
(* One connection: the client, and the detached thread that serves it *)

HandlerMove(h, pc) == hpc' = [hpc EXCEPT ![h] = pc]

Respond(h, code) == status' = [status EXCEPT ![h] = code] /\ HandlerMove(h, "send")

\* The client connects while the kernel still has the listening socket.
Connect(h) ==
  /\ hpc[h] = "none"
  /\ listen = "open" \/ (listen = "closed" /\ spc = "blocked")
  /\ HandlerMove(h, "pending")
  /\ UNCHANGED <<engineVars, listener, acceptor, request, status>>

\* One recv() of at most 4095 bytes and parse_request: whatever arrived is the
\* request.  Nothing received: no response.  There is no receive timeout.
Receive(h) ==
  /\ hpc[h] = "recv"
  /\ \/ HandlerMove(h, "close") /\ UNCHANGED request
     \/ \E r \in Request \ {"none"} :
          request' = [request EXCEPT ![h] = r] /\ HandlerMove(h, "route")
  /\ UNCHANGED <<engineVars, listener, acceptor, status>>

\* The routes that answer without generating; handle_health reads the name of
\* the model through the backend, undefined when the model has been freed.
RouteLocally(h) ==
  /\ hpc[h] = "route"
  /\ \/ request[h] \in {"health", "models"} /\ Respond(h, 200)
     \/ request[h] = "other" /\ Respond(h, 404)
     \/ request[h] = "number" /\ Respond(h, 500)
  /\ UNCHANGED <<engineVars, listener, acceptor, request>>

HealthFault(h) ==
  /\ hpc[h] = "route" /\ request[h] = "health" /\ model = "dangling"
  /\ crashed' = TRUE
  /\ UNCHANGED <<pointers, cache, frames, engineOnly, serverOnly>>

\* handle_completions and handle_chat_completions, up to engine_.generate.
RouteGenerate(h) ==
  /\ hpc[h] = "route" /\ request[h] = "generate"
  /\ \E n \in PromptSizes, m \in TokenLimits : EngineCall(h, "generate", n, m)
  /\ HandlerMove(h, "engine")
  /\ UNCHANGED <<listener, acceptor, request, status>>

EngineWorks(h) == hpc[h] = "engine" /\ CallStep(h) /\ UNCHANGED serverOnly

\* An exception that leaves a std::thread is std::terminate.
GenerateDone_Uncaught(h) ==
  /\ hpc[h] = "engine"
  /\ \/ epc[h] = "ret" /\ CallerTakesResult(h) /\ Respond(h, 200)
     \/ /\ epc[h] = "threw" /\ crashed' = TRUE
        /\ UNCHANGED <<pointers, cache, frames, engineOnly, hpc, status>>
  /\ UNCHANGED <<listener, acceptor, request>>

\* The JSON body, or the catch block of the handler.
GenerateDone(h) ==
  /\ hpc[h] = "engine" /\ CallerTakesResult(h)
  /\ Respond(h, IF epc[h] = "ret" THEN 200 ELSE 500)
  /\ UNCHANGED <<listener, acceptor, request>>

\* send_response ignores the result of send().  When the peer is gone the bytes
\* are lost, or SIGPIPE, which nothing handles, ends the process.
Send(h) ==
  /\ hpc[h] = "send"
  /\ \/ HandlerMove(h, "close") /\ UNCHANGED <<crashed, status>>
     \/ /\ PeersMayLeave /\ HandlerMove(h, "close")
        /\ status' = [status EXCEPT ![h] = 0] /\ UNCHANGED crashed
     \/ PeersMayLeave /\ HandlerMove(h, "killed") /\ crashed' = TRUE /\ UNCHANGED status
  /\ UNCHANGED <<pointers, cache, frames, engineOnly, listener, acceptor, request>>

CloseConnection(h) ==
  /\ hpc[h] = "close" /\ HandlerMove(h, "closed")
  /\ UNCHANGED <<engineVars, listener, acceptor, request, status>>

\* What the thread does once it has its request.
HandlerStep(h) ==
  \/ RouteLocally(h) \/ HealthFault(h) \/ RouteGenerate(h) \/ EngineWorks(h)
  \/ GenerateDone(h) \/ Send(h) \/ CloseConnection(h)

-----------------------------------------------------------------------------

ServerTypeOK ==
  /\ srvRunning \in BOOLEAN /\ listen \in ListenState /\ slife \in ServerLife
  /\ spc \in ServerPC /\ lateAccepts \in Nat
  /\ hpc \in [Callers -> ConnectionPC]
  /\ request \in [Callers -> Request]
  /\ status \in [Callers -> Status]

=============================================================================
