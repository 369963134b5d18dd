------------------------------ MODULE Runtime -------------------------------
(***************************************************************************)
(* The process: src/main.cpp starts the engine, then the server, sleeps    *)
(* until a signal clears the flag `running`, then stops the server and the *)
(* engine and returns.  All threads of the process run here together: the  *)
(* main thread, the engine's worker, the server thread and the detached    *)
(* thread of each connection.                                              *)
(***************************************************************************)
EXTENDS RestApiServer

VARIABLES mpc,           \* where the main thread is
          keepRunning,   \* the flag running of main.cpp
          exitCode       \* what main() returns

mainVars == <<mpc, keepRunning, exitCode>>
vars == <<serverVars, mainVars>>

MainPC == {"init", "engine", "server", "loop", "stopServer", "stopEngine",
           "destroyed", "exited"}

Init ==
  /\ ServerInit
  /\ mpc = "init" /\ keepRunning = TRUE /\ exitCode = 0

Halted == crashed \/ mpc = "exited"

-----------------------------------------------------------------------------
(* main() *)

\* When the engine does not start, main() returns 1 and its destructor runs
\* stop(), which returns at once.
MainStartEngine ==
  /\ \/ mpc = "init" /\ OwnerStarts /\ mpc' = "engine" /\ UNCHANGED exitCode
     \/ mpc = "engine" /\ StartStep /\ UNCHANGED <<mpc, exitCode>>
     \/ /\ mpc = "engine" /\ life = "up" /\ mpc' = "server"
        /\ UNCHANGED <<engineVars, exitCode>>
     \/ /\ mpc = "engine" /\ life = "failed" /\ mpc' = "stopEngine" /\ exitCode' = 1
        /\ UNCHANGED engineVars
  /\ UNCHANGED <<serverOnly, keepRunning>>

\* When the server does not start, main() returns 1 and the destructor of the
\* engine runs stop().
MainStartServer ==
  /\ mpc = "server"
  /\ \/ slife = "off" /\ ServerStart /\ UNCHANGED <<mpc, exitCode>>
     \/ slife = "up" /\ mpc' = "loop" /\ UNCHANGED <<serverVars, exitCode>>
     \/ /\ slife = "failed" /\ mpc' = "stopEngine" /\ exitCode' = 1
        /\ UNCHANGED serverVars
  /\ UNCHANGED keepRunning

\* while (running) sleep_for(100 ms)
MainLoop_EngineFirst ==
  /\ mpc = "loop" /\ ~keepRunning
  /\ mpc' = "stopEngine"
  /\ UNCHANGED <<serverVars, keepRunning, exitCode>>

MainLoop_NoWait ==
  /\ mpc = "loop"
  /\ mpc' = "stopServer"
  /\ UNCHANGED <<serverVars, keepRunning, exitCode>>

MainLoop ==
  /\ mpc = "loop" /\ ~keepRunning
  /\ mpc' = "stopServer"
  /\ UNCHANGED <<serverVars, keepRunning, exitCode>>

MainStopServer ==
  /\ mpc = "stopServer"
  /\ \/ (ServerStopFlag \/ ServerStopStep) /\ UNCHANGED mpc
     \/ slife = "off" /\ mpc' = "stopEngine" /\ UNCHANGED serverVars
  /\ UNCHANGED <<keepRunning, exitCode>>

\* The destructors that follow find both objects stopped.
MainStopEngine ==
  /\ mpc = "stopEngine"
  /\ \/ (StopCall \/ StopStep) /\ UNCHANGED <<serverOnly, mpc>>
     \/ life = "off" /\ mpc' = "destroyed" /\ UNCHANGED serverVars
  /\ UNCHANGED <<keepRunning, exitCode>>

MainExit ==
  /\ mpc = "destroyed"
  /\ mpc' = "exited"
  /\ UNCHANGED <<serverVars, keepRunning, exitCode>>

MainStep ==
  \/ MainStartEngine \/ MainStartServer \/ MainLoop \/ MainStopServer
  \/ MainStopEngine \/ MainExit

\* SIGINT or SIGTERM, at any time.
Signal ==
  /\ keepRunning' = FALSE
  /\ UNCHANGED <<serverVars, mpc, exitCode>>

-----------------------------------------------------------------------------
(* The other threads and the clients *)

RuntimeWorkerStep == WorkerStep /\ UNCHANGED <<serverOnly, mainVars>>

RuntimeServerStep == (ServerThreadStep \/ AcceptFails) /\ UNCHANGED mainVars

RuntimeHandlerStep(h) == HandlerStep(h) /\ UNCHANGED mainVars

\* The engine object is gone from main()'s stack and the detached thread uses it.
DestroyedFault(h) ==
  /\ mpc = "destroyed"
  /\ \/ hpc[h] = "engine"
     \/ hpc[h] = "route" /\ request[h] \in {"health", "generate"}
  /\ crashed' = TRUE
  /\ UNCHANGED <<pointers, cache, frames, engineOnly, serverOnly, mainVars>>

ClientStep(h) == (Connect(h) \/ Receive(h)) /\ UNCHANGED mainVars

Next ==
  /\ ~Halted
  /\ \/ MainStep \/ Signal \/ RuntimeWorkerStep \/ RuntimeServerStep
     \/ \E h \in Callers : RuntimeHandlerStep(h) \/ DestroyedFault(h) \/ ClientStep(h)

\* Every thread is scheduled.  Nobody has to connect, to send a request or to
\* signal, and accept() does not have to fail.
Fairness ==
  /\ WF_vars(~Halted /\ MainStep)
  /\ WF_vars(~Halted /\ RuntimeWorkerStep)
  /\ WF_vars(~Halted /\ ServerThreadStep /\ UNCHANGED mainVars)
  /\ \A h \in Callers : WF_vars(~Halted /\ RuntimeHandlerStep(h))

Spec == Init /\ [][Next]_vars /\ Fairness

-----------------------------------------------------------------------------
(* Properties *)

RuntimeTypeOK ==
  /\ EngineTypeOK /\ ServerTypeOK
  /\ mpc \in MainPC /\ keepRunning \in BOOLEAN /\ exitCode \in {0, 1}

\* At most one connection is accepted once RestApiServer::stop() has begun: the
\* accept() that was under way.  The loop tests running_ before every accept.
AtMostOneLateAccept == lateAccepts <= 1

\* The engine leaves service only after the accept loop is over, so no new
\* handler can start while the model is being freed.
ServerStopsFirst == life \notin {"off", "gpu", "load", "threads", "failed", "up"} => spc = "none"

\* Whichever way main() returns, model, context, the threads it joins and the
\* socket are released.  The GPU is as well, except when it was the engine that
\* did not start: the pools stay then, and the exit code tells.
ExitReleases ==
  mpc = "exited" =>
    /\ model = "null" /\ ctx = "null"
    /\ wpc = "none" /\ spc = "none" /\ listen # "open"
    /\ gpuUp => exitCode = 1 /\ slife = "off"

\* The process dies only under a request: because the peer of a response was
\* gone (SIGPIPE), because another request or a stop() was in the engine beside
\* it, or in the shutdown after a signal.  A request that is alone in the
\* engine, its exceptions included, and an idle process never die.
CrashOnlyUnderRequest ==
  crashed => \/ \E h \in Callers : hpc[h] = "killed"
             \/ \E h \in Callers : hpc[h] = "engine" /\ h \in company
             \/ ~keepRunning /\ \E h \in Callers : hpc[h] \in {"route", "engine"}

\* A request the server has read gets a response with a status, an error or a
\* refusal by the engine included, unless the process ends first.
RequestAnswered ==
  \A h \in Callers :
    (hpc[h] = "route") ~> ((hpc[h] = "closed" /\ status[h] # 0) \/ Halted)

\* A signal ends the process, unless the server thread stays in accept().
SignalStopsOrAcceptBlocks ==
  []<>(spc # "blocked") => (~keepRunning ~> Halted)

\* The process is a service as ServiceContract describes it: it serves while
\* the accept loop may run, drains from RestApiServer::stop() on, admits one
\* late connection at most, refuses what waits when the socket goes, and dies
\* only under an admitted request.
Phase ==
  CASE crashed -> "crashed"
    [] mpc = "exited" /\ ~crashed -> "stopped"
    [] ~Halted /\ srvRunning -> "serving"
    [] ~Halted /\ ~srvRunning /\ mpc \in {"init", "engine", "server"} -> "starting"
    [] OTHER -> "draining"

ConnectionOf(h) ==
  CASE hpc[h] = "none" -> "none"
    [] hpc[h] = "pending" -> "waiting"
    [] hpc[h] = "reset" -> "refused"
    [] hpc[h] \in {"recv", "route", "engine", "send", "killed"} -> "admitted"
    [] OTHER -> IF status[h] = 0 THEN "dropped" ELSE "answered"

Contract == INSTANCE ServiceContract
  WITH Clients <- Callers, phase <- Phase, late <- lateAccepts > 0,
       conn <- [h \in Callers |-> ConnectionOf(h)]

ImplementsContract == Contract!ServiceSpec

\* "Engine not ready" (inference_engine.cpp:128): a generate() that meets an
\* engine being stopped is refused; it never runs into the model being freed.
NoFaultDuringStop == crashed => mpc # "stopEngine"

\* "Press Ctrl+C to stop." (main.cpp:172)
CtrlCStops == ~keepRunning ~> Halted

-----------------------------------------------------------------------------
(* Inductive strengthening *)

\* What each place of main() knows of the two objects it starts and stops, and
\* that the server thread calls no accept() after a late one.
ShutdownOrder ==
  /\ mpc \in MainPC /\ srvRunning \in BOOLEAN /\ lateAccepts \in {0, 1}
  /\ srvRunning => slife = "up" /\ lateAccepts = 0
  /\ slife \in {"off", "failed"} => spc = "none"
  /\ mpc \in {"init", "engine"} => /\ life \in {"off", "gpu", "load", "threads", "failed", "up"}
                                   /\ slife = "off" /\ lateAccepts = 0
  /\ mpc = "server" => /\ life = "up" /\ lateAccepts = 0
                       /\ slife \in {"off", "failed"} \/ (slife = "up" /\ srvRunning)
  /\ mpc \in {"loop", "stopServer"} => life = "up"
  /\ mpc = "loop" => srvRunning
  /\ mpc \in {"stopEngine", "destroyed", "exited"} => spc = "none"
  /\ lateAccepts # 0 => spc \in {"top", "done", "none"}

\* Where the socket is open, and that clients get in by it alone: main() leaves
\* its loop only after a signal, unless no socket was ever opened.
SocketOrder ==
  /\ listen = "none" => \A h \in Callers : hpc[h] = "none"
  /\ slife \in {"up", "close"} => listen = "open"
  /\ slife \in {"off", "failed", "join"} => listen # "open"
  /\ slife = "failed" => listen = "none"
  /\ mpc \in {"init", "engine"} \/ (mpc = "server" /\ ~srvRunning) => listen = "none"
  /\ mpc \in {"stopServer", "stopEngine", "destroyed", "exited"} /\ keepRunning => listen = "none"
  /\ mpc \in {"stopEngine", "destroyed", "exited"} => slife \in {"off", "failed"}
  /\ mpc \in {"destroyed", "exited"} => life = "off"

\* The GPU outlives a stop() only when the engine did not start.
GpuLeft ==
  mpc \in {"stopEngine", "destroyed", "exited"} /\ (life = "failed" \/ (life = "off" /\ gpuUp))
    => exitCode = 1 /\ slife = "off"

RuntimeInv ==
  /\ ShutdownOrder /\ SocketOrder /\ GpuLeft
  /\ EngineStages /\ CallStages /\ CrashOnlyUnderRequest

=============================================================================
