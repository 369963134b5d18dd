-------------------------- MODULE InferenceEngine --------------------------
(***************************************************************************)
(* src/engine/inference_engine.cpp: the engine around the backend.  The    *)
(* controlling thread runs start() and stop(); the worker thread sleeps on *)
(* a condition variable with a 100 ms timeout until it is told to stop;    *)
(* any number of caller threads are inside generate() or                   *)
(* generate_stream(), reading ready_ and the backend's pointers without a  *)
(* lock.                                                                   *)
(*                                                                         *)
(* Nothing in the source pushes to task_queue_ and the NATS callback is    *)
(* empty and never called, so the queue is empty in every reachable state: *)
(* the worker below is worker_loop() with an empty queue.                  *)
(***************************************************************************)
EXTENDS LlamaBackend

CONSTANT StubSize   \* tokens the placeholder answer of stub mode encodes to

ASSUME StubAssumption == StubSize \in Nat

VARIABLES config,      \* model_path given?  mode "cuda"?
          life,        \* where the controlling thread is in start() / stop()
          ready, running, generating,   \* the atomics of the engine
          gpuUp,       \* GpuManager::initialized_
          wpc,         \* where the worker thread is
          epc,         \* where each caller is in generate()
          call,        \* the locals of that call
          company      \* history: calls that had another call, a cancel or a
                       \* stop beside them since they were admitted

control == <<config, life, ready, running, gpuUp>>
calls == <<epc, call, company>>
engineOnly == <<control, generating, wpc, calls>>
engineVars == <<backendVars, engineOnly>>

-----------------------------------------------------------------------------
(* State *)

Config == [model : BOOLEAN, cuda : BOOLEAN]
LifePC == {"off", "gpu", "load", "threads", "failed", "up",
           "clearReady", "notify", "join", "unload", "gpuDown"}
WorkerPC == {"none", "top", "check", "block", "wait", "woken", "done"}
CallPC == {"idle", "tokenize", "tokenizeModel", "stream", "choose", "placeholder",
           "backend", "streaming", "decode", "pieces", "deliver", "ret", "threw"}
Source == {"none", "model", "stub"}

\* op: which entry point; origin: who produced the response tokens; decoder:
\* who turned them (of a stream: the last one) into text; prompt, limit, made:
\* sizes, as in Job; told: tokens of a stream given to its on_token.
Call == [op : {"none", "generate", "stream"}, origin : Source, decoder : Source,
         prompt : Nat, limit : Int, made : Nat, told : Nat, end : EndReason]

NoCall == [op |-> "none", origin |-> "none", decoder |-> "none",
           prompt |-> 0, limit |-> 0, made |-> 0, told |-> 0, end |-> "none"]

InCall(c) == epc[c] \notin {"idle", "ret", "threw"}
InCalls == {c \in Callers : InCall(c)}

EngineInit ==
  /\ BackendInit
  /\ config \in Config
  /\ life = "off" /\ ready = FALSE /\ running = FALSE /\ generating = FALSE
  /\ gpuUp = FALSE /\ wpc = "none"
  /\ epc = [c \in Callers |-> "idle"]
  /\ call = [c \in Callers |-> NoCall]
  /\ company = {}

-----------------------------------------------------------------------------
(* start(), on the controlling thread *)

\* start() does not test whether it was called before (see OwnerStarts).
StartCall ==
  /\ life \in {"off", "failed", "up"}
  /\ life' = IF config.cuda THEN "gpu" ELSE "load"
  /\ UNCHANGED <<backendVars, config, ready, running, gpuUp, generating, wpc, calls>>

\* initialize() returns at once when it has been done, as after a failed load;
\* otherwise it can fail before it changes anything.
GpuInitialize(ok) ==
  /\ gpuUp' = ok
  /\ ~ok => ~gpuUp

\* In the CUDA build the selection of a device cannot fail after that: there
\* is one at least.  The module GpuManager has the details, and the other build.
StartGpu ==
  /\ life = "gpu"
  /\ \/ GpuInitialize(TRUE) /\ life' = "load"
     \/ GpuInitialize(FALSE) /\ life' = "failed"
  /\ UNCHANGED <<backendVars, config, ready, running, generating, wpc, calls>>

StartLoad ==
  /\ life = "load"
  /\ \/ ~config.model /\ life' = "threads" /\ UNCHANGED backendVars
     \/ config.model /\ (LoadModel \/ LoadStep) /\ UNCHANGED life
     \/ config.model /\ LoadEnd /\ life' = "threads"
     \/ config.model /\ (LoadNoModel \/ LoadForgetModel) /\ life' = "failed"
  /\ UNCHANGED <<config, ready, running, gpuUp, generating, wpc, calls>>

\* ready_, running_, the worker thread: one step, because no other thread reads
\* running_ before the worker exists.  The tool table and the NATS callback
\* are set here too and never change again.
StartThreads ==
  /\ life = "threads"
  /\ ready' = TRUE /\ running' = TRUE /\ wpc' = "top" /\ life' = "up"
  /\ UNCHANGED <<backendVars, config, gpuUp, generating, calls>>

-----------------------------------------------------------------------------
(* stop(), on the controlling thread *)

\* if (!running_) return: after a failed start() nothing is taken down.
StopCall ==
  \/ /\ life = "up" /\ running
     /\ running' = FALSE /\ life' = "clearReady"
     /\ company' = company \cup InCalls
     /\ UNCHANGED <<backendVars, config, ready, gpuUp, generating, wpc, epc, call>>
  \/ /\ life = "failed" /\ ~running
     /\ life' = "off"
     /\ UNCHANGED <<backendVars, config, ready, running, gpuUp, generating, wpc, calls>>

StopClearReady_Forgotten ==
  /\ life = "clearReady"
  /\ life' = "notify"
  /\ UNCHANGED <<backendVars, config, ready, running, gpuUp, generating, wpc, calls>>

StopClearReady ==
  /\ life = "clearReady"
  /\ ready' = FALSE /\ life' = "notify"
  /\ UNCHANGED <<backendVars, config, running, gpuUp, generating, wpc, calls>>

\* notify_all() without the mutex: only a thread already blocked hears it.
StopNotify ==
  /\ life = "notify"
  /\ wpc' = IF wpc = "wait" THEN "check" ELSE wpc
  /\ life' = "join"
  /\ UNCHANGED <<backendVars, config, ready, running, gpuUp, generating, calls>>

StopJoin ==
  /\ life = "join" /\ wpc = "done"
  /\ wpc' = "none" /\ life' = "unload"
  /\ UNCHANGED <<backendVars, config, ready, running, gpuUp, generating, calls>>

StopUnload ==
  /\ life = "unload"
  /\ \/ (UnloadBegin \/ UnloadStep) /\ UNCHANGED life
     \/ UnloadEnd /\ life' = "gpuDown"
     \/ ~modelLoaded /\ UNCHANGED backendVars /\ life' = "gpuDown"
  /\ UNCHANGED <<config, ready, running, gpuUp, generating, wpc, calls>>

GpuShutdown == gpuUp' = FALSE

StopGpu ==
  /\ life = "gpuDown"
  /\ IF config.cuda THEN GpuShutdown ELSE UNCHANGED gpuUp
  /\ life' = "off"
  /\ UNCHANGED <<backendVars, config, ready, running, generating, wpc, calls>>

StartStep == StartGpu \/ StartLoad \/ StartThreads
StopStep == StopClearReady \/ StopNotify \/ StopJoin \/ StopUnload \/ StopGpu

-----------------------------------------------------------------------------
(* worker_loop(), on the worker thread *)

WorkerMove(from, to) ==
  /\ wpc = from /\ wpc' = to
  /\ UNCHANGED <<backendVars, control, generating, calls>>

\* while (running_)
WorkerTop == IF running THEN WorkerMove("top", "check") ELSE WorkerMove("top", "done")

\* The predicate of wait_for, evaluated under the mutex.  Between finding it
\* false and blocking, a notify_all() that does not take the mutex is lost.
WorkerCheck == IF running THEN WorkerMove("check", "block") ELSE WorkerMove("check", "woken")
WorkerBlock == WorkerMove("block", "wait")

\* wait_for returns after 100 ms whatever the predicate says.
WorkerTimeout_Never == FALSE
WorkerTimeout == WorkerMove("wait", "woken")

\* The two tests after the wait; the queue is empty.
WorkerWoken == IF running THEN WorkerMove("woken", "top") ELSE WorkerMove("woken", "done")

WorkerStep == WorkerTop \/ WorkerCheck \/ WorkerBlock \/ WorkerTimeout \/ WorkerWoken

-----------------------------------------------------------------------------
(* generate() and generate_stream(), on a caller thread *)

CallTo(c, pc, k) ==
  /\ epc' = [epc EXCEPT ![c] = pc]
  /\ call' = [call EXCEPT ![c] = k]

CallMove(c, pc, k) == CallTo(c, pc, k) /\ UNCHANGED company

\* The calls an admitted one finds beside it: others, or a stop() that has not
\* cleared ready_ yet.
Accompanied(c) ==
  IF InCalls = {} /\ life = "up" THEN company ELSE company \cup InCalls \cup {c}

\* if (!ready_) throw; generating_ = true
EngineCall(c, op, n, m) ==
  /\ epc[c] = "idle"
  /\ \/ ~ready /\ CallMove(c, "threw", [NoCall EXCEPT !.op = op]) /\ UNCHANGED generating
     \/ /\ ready
        /\ CallTo(c, "tokenize", [NoCall EXCEPT !.op = op, !.prompt = n, !.limit = m])
        /\ company' = Accompanied(c)
        /\ generating' = TRUE
  /\ UNCHANGED <<backendVars, control, wpc>>

\* Where the tokens of the prompt go: generate() and the stub branch of
\* generate_stream() call sample_tokens(), generate_stream() tests first.
AfterTokenize(c) == IF call[c].op = "stream" THEN "stream" ELSE "choose"

\* vocab_size() > 0, which is model_ != nullptr: the model's tokenizer or,
\* without a model, the stub tokenizer.
TokenizePrompt(c) ==
  /\ epc[c] = "tokenize"
  /\ CallMove(c, IF model = "null" THEN AfterTokenize(c) ELSE "tokenizeModel", call[c])
  /\ UNCHANGED <<backendVars, control, generating, wpc>>

\* LlamaBackend::tokenize tests model_ and model_loaded_ again; it gives no
\* tokens then, or when llama_tokenize reports an error.
ModelTokens(n) == {0} \cup (IF model # "null" /\ modelLoaded THEN {n} ELSE {})

TokenizeModel(c) ==
  /\ epc[c] = "tokenizeModel"
  /\ \E n \in ModelTokens(call[c].prompt) :
       CallMove(c, AfterTokenize(c), [call[c] EXCEPT !.prompt = n])
  /\ UNCHANGED <<backendVars, control, generating, wpc>>

\* The backend with the stream's callback, or sample_tokens().
ChooseStream(c) ==
  /\ epc[c] = "stream"
  /\ \/ /\ model # "null"
        /\ EnterGenerate(c, NewJob(call[c].prompt, call[c].limit))
        /\ CallMove(c, "streaming", [call[c] EXCEPT !.origin = "model"])
     \/ model = "null" /\ CallMove(c, "choose", call[c]) /\ UNCHANGED backendVars
  /\ UNCHANGED <<control, generating, wpc>>

\* The first vocab_size() test of sample_tokens.
ChooseSource(c) ==
  /\ epc[c] = "choose"
  /\ \/ /\ model # "null"
        /\ EnterGenerate(c, NewJob(call[c].prompt, call[c].limit))
        /\ CallMove(c, "backend", [call[c] EXCEPT !.origin = "model"])
     \/ model = "null" /\ CallMove(c, "placeholder", call[c]) /\ UNCHANGED backendVars
  /\ UNCHANGED <<control, generating, wpc>>

\* sample_tokens has returned: generate() decodes, a stream delivers.
SampledTokens(c, k) ==
  \/ k.op = "generate" /\ CallMove(c, "decode", k) /\ generating' = FALSE
  \/ k.op = "stream" /\ CallMove(c, "deliver", k) /\ UNCHANGED generating

\* The placeholder cut to max_tokens: StubSize tokens by the stub tokenizer or,
\* after the second test, by a model that has come back meanwhile.
StubTokens_Unclamped(c, n) == IF call[c].limit < n THEN call[c].limit ELSE n

StubTokens(c, n) ==
  IF call[c].limit < n THEN (IF call[c].limit < 0 THEN 0 ELSE call[c].limit) ELSE n

Placeholder(c) ==
  /\ epc[c] = "placeholder"
  /\ \E n \in IF model = "null" THEN {StubSize} ELSE ModelTokens(StubSize) :
       SampledTokens(c, [call[c] EXCEPT !.origin = "stub", !.made = StubTokens(c, n)])
  /\ UNCHANGED <<backendVars, control, wpc>>

\* The backend returns its tokens, or its exception leaves through generate()
\* with generating_ still set.
BackendReturns(c) ==
  /\ epc[c] \in {"backend", "streaming"} /\ LeaveGenerate(c)
  /\ LET k == [call[c] EXCEPT !.made = job[c].made, !.end = job[c].end]
     IN  \/ bpc[c] = "ret" /\ epc[c] = "backend" /\ SampledTokens(c, k)
         \/ /\ bpc[c] = "ret" /\ epc[c] = "streaming"
            /\ CallMove(c, "ret", k) /\ generating' = FALSE
         \/ bpc[c] = "threw" /\ CallMove(c, "threw", call[c]) /\ UNCHANGED generating
  /\ UNCHANGED <<control, wpc>>

Decoder_Stub == "stub"
Decoder == IF model = "null" THEN "stub" ELSE "model"

\* stream_callback for one token: token_to_text() tests vocab_size() and
\* detokenizes, is_eos() looks at the model again.
Told(c) == [call[c] EXCEPT !.told = @ + 1, !.decoder = Decoder]

\* A stream has pushed a token and is in the callback.
Telling(c) == epc[c] = "streaming" /\ bpc[c] = "decode" /\ call[c].told < job[c].made

StreamToken(c) ==
  /\ Telling(c)
  /\ CallMove(c, "streaming", Told(c))
  /\ UNCHANGED <<backendVars, control, generating, wpc>>

\* The loop of generate_stream() over the tokens of sample_tokens().
DeliverToken(c) ==
  /\ epc[c] = "deliver"
  /\ \/ call[c].told < call[c].made /\ CallMove(c, "deliver", Told(c)) /\ UNCHANGED generating
     \/ call[c].told >= call[c].made /\ CallMove(c, "ret", call[c]) /\ generating' = FALSE
  /\ UNCHANGED <<backendVars, control, wpc>>

\* generate() decodes the response with a last vocab_size() test, for the stub
\* tokenizer or detokenize().
DecodeResponse(c) ==
  /\ epc[c] = "decode"
  /\ CallMove(c, IF model = "null" THEN "ret" ELSE "pieces", [call[c] EXCEPT !.decoder = Decoder])
  /\ UNCHANGED <<backendVars, control, generating, wpc>>

\* detokenize() tests model_ again and then asks it for every token.
DecodePieces(c) ==
  /\ epc[c] = "pieces"
  /\ CallMove(c, "ret", call[c])
  /\ UNCHANGED <<backendVars, control, generating, wpc>>

\* vocab_size() on a freed model, and the loops of tokenize() and detokenize()
\* on a model that is freed or forgotten under them.
EngineFault(c) ==
  /\ \/ /\ epc[c] \in {"tokenize", "stream", "choose", "placeholder", "decode", "deliver"}
        /\ model = "dangling"
     \/ Telling(c) /\ model = "dangling"
     \/ epc[c] \in {"tokenizeModel", "pieces"} /\ model # "valid"
  /\ crashed' = TRUE
  /\ UNCHANGED <<pointers, cache, frames, engineOnly>>

CallStep(c) ==
  \/ TokenizePrompt(c) \/ TokenizeModel(c) \/ ChooseStream(c) \/ ChooseSource(c)
  \/ Placeholder(c) \/ StreamToken(c)
  \/ /\ epc[c] \in {"backend", "streaming"} /\ ~Telling(c)
     /\ GenerateStep(c) /\ UNCHANGED engineOnly
  \/ BackendReturns(c) \/ DeliverToken(c) \/ DecodeResponse(c) \/ DecodePieces(c)
  \/ EngineFault(c)

\* cancel_generation(); nothing ever reads generating_.  Clearing the cache of
\* a freed context, or while a generation is inside it, is undefined.
Cancel ==
  /\ generating' = FALSE
  /\ company' = company \cup InCalls
  /\ \/ Reset
     \/ /\ ctx = "dangling" \/ (ctx = "valid" /\ \E c \in Callers : ChangesContext(c))
        /\ crashed' = TRUE
        /\ UNCHANGED <<pointers, cache, frames>>
  /\ UNCHANGED <<control, wpc, epc, call>>

-----------------------------------------------------------------------------
(* The engine as a library object: one thread starts and stops it, over and *)
(* over, while others call generate(), generate_stream() and                *)
(* cancel_generation() at any time.                                         *)

CallerTakesResult(c) ==
  /\ epc[c] \in {"ret", "threw"}
  /\ CallTo(c, "idle", NoCall) /\ company' = company \ {c}
  /\ UNCHANGED <<backendVars, control, generating, wpc>>

\* The owner's contract, which main() keeps: no start() while the engine is up.
\* (It would load over the model in use and assign worker_ over a thread that
\* was not joined, which is std::terminate.)
OwnerStarts == life # "up" /\ StartCall

EngineNext ==
  /\ ~crashed
  /\ \/ OwnerStarts \/ StartStep \/ StopCall \/ StopStep \/ WorkerStep
     \/ \E c \in Callers :
          \/ \E op \in {"generate", "stream"}, n \in PromptSizes, m \in TokenLimits :
               EngineCall(c, op, n, m)
          \/ CallStep(c) \/ CallerTakesResult(c)
     \/ Cancel

EngineFairness ==
  /\ WF_engineVars(~crashed /\ (StartStep \/ StopStep))
  /\ WF_engineVars(~crashed /\ WorkerStep)
  /\ \A c \in Callers : WF_engineVars(~crashed /\ CallStep(c))

EngineSpec == EngineInit /\ [][EngineNext]_engineVars /\ EngineFairness

-----------------------------------------------------------------------------
(* Properties *)

EngineTypeOK ==
  /\ BackendTypeOK
  /\ config \in Config /\ life \in LifePC
  /\ ready \in BOOLEAN /\ running \in BOOLEAN /\ generating \in BOOLEAN
  /\ gpuUp \in BOOLEAN /\ wpc \in WorkerPC
  /\ epc \in [Callers -> CallPC]
  /\ call \in [Callers -> Call] /\ company \subseteq Callers

\* While callers are admitted the configured model is usable: ready_ is set
\* after the load and cleared before the unload.
ReadyMeansLoaded ==
  ready => (config.model => modelLoaded /\ ctx = "valid" /\ model = "valid")

\* After stop(), of an engine that was up or of one whose start() failed, no
\* thread, flag, model or context is left, and no pointer to a freed one.
\* (The GPU may be: stop() returns at once after a start() that failed.)
StoppedMeansReleased ==
  life = "off" => /\ ~ready /\ ~running /\ wpc = "none"
                  /\ ctx = "null" /\ model = "null" /\ ~modelLoaded

\* stop() is never stuck in join(): the worker leaves even when it went to
\* sleep after the notification.
WorkerIsJoined == (life = "join") ~> (life # "join" \/ crashed)

\* Every call comes back, with a result or an exception.
CallsReturn ==
  \A c \in Callers : (epc[c] = "tokenize") ~> (epc[c] \in {"ret", "threw"} \/ crashed)

\* A call that has no other call, cancel or stop beside it never faults, however
\* many loads, failed starts and restarts came before: the process dies only
\* with a call in it that had such company, or under a stop().
AloneNeverFaults == crashed => company # {} \/ ~ready

\* Such a call samples from its own prompt and tokens alone, whatever other
\* calls and cancels left in the cache before it.
AloneOwnContext ==
  \A c \in Callers \ company :
    bpc[c] = "emit" => job[c].from = Cells(c, 0, job[c].prompt + job[c].made)

\* And whoever made its tokens turns them into text: the up to four vocab_size()
\* tests of a call agree unless a stop() came between.
AloneOwnDecoder ==
  \A c \in Callers \ company :
    epc[c] = "ret" => call[c].decoder \in {"none", call[c].origin}

\* "Cancel current generation" (inference_engine.hpp:86): the backend adds a
\* token only while generating_ is set.
TokensOnlyWhileGenerating ==
  [][\A c \in Callers : job'[c].made > job[c].made => generating]_engineVars

-----------------------------------------------------------------------------
(* Inductive strengthenings *)

\* What each place of start() and stop() knows about the flags, the backend,
\* the worker and the GPU.
Loaded == modelLoaded /\ opc = "idle"
Unloaded == ~modelLoaded /\ opc = "idle"

LifeStages ==
  /\ ready <=> life \in {"up", "clearReady"}
  /\ running <=> life = "up"
  /\ life \in {"off", "gpu", "failed", "gpuDown"} => Unloaded
  /\ life = "load" => ~modelLoaded
  /\ life = "unload" /\ ~modelLoaded => opc = "idle"
  /\ life \in {"threads", "up", "clearReady", "notify", "join"} /\ config.model => Loaded
  /\ ~config.model => Unloaded
  /\ life \in {"off", "gpu", "load", "threads", "failed", "unload", "gpuDown"} => wpc = "none"
  /\ life = "gpu" \/ gpuUp => config.cuda

\* Without a model no caller gets past the tests that look for one.
NoModelNoCalls ==
  ~config.model => \A c \in Callers : /\ bpc[c] = "out"
                                      /\ epc[c] \notin {"tokenizeModel", "backend", "streaming", "pieces"}

EngineStages == PointerStages /\ LifeStages /\ NoModelNoCalls

\* What is known of a call without company: it is the only one, the engine is
\* up, cache and logits hold what they hold for a serial caller, and one party
\* makes its tokens and turns them into text.
Maker == IF config.model THEN "model" ELSE "stub"

Alone(c) ==
  /\ life = "up"
  /\ \A d \in Callers \ {c} : ~InCall(d)
  /\ Holds(c)
  /\ call[c].decoder \in {"none", Maker}
  /\ epc[c] \in {"backend", "streaming", "decode", "pieces", "deliver"} =>
       call[c].origin = Maker
  /\ epc[c] = "placeholder" => Maker = "stub"

CallStages ==
  /\ \A c \in Callers : bpc[c] # "out" => epc[c] \in {"backend", "streaming"}
  /\ \A c \in Callers \ company : InCall(c) => Alone(c)
  /\ AloneOwnDecoder

EngineInv == EngineStages /\ CallStages /\ AloneNeverFaults

=============================================================================
