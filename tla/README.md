# A TLA+ model of the Sovalune model runtime

The runtime is one C++ process: `main()` starts an inference engine around a
llama.cpp model and an HTTP server in front of it, waits for a signal and takes
both down. This directory models its threads, its life cycle and the way its
requests share the one model; TLC checks small instances and TLAPS proves the
results that matter for every value of the constants.

## The system

| Part | State | Operations | Talks to |
|---|---|---|---|
| `LlamaBackend` (`src/engine/llama_backend.*`) | raw pointers `model_`, `ctx_`, atomic `model_loaded_`; inside `ctx_` one KV cache and one logits buffer | `load_model`, `unload`, `reset`, `tokenize`, `detokenize`, `generate`, sampling | llama.cpp |
| `InferenceEngine` (`src/engine/inference_engine.*`) | atomics `ready_`, `running_`, `generating_`; worker thread, task queue with mutex and condition variable | `start`, `stop`, `generate`, `generate_stream`, `generate_async`, `generate_with_tools`, `cancel_generation`, `worker_loop` | backend, GPU manager, tokenizer, tools, NATS |
| `RestApiServer` (`src/server/rest_api_server.*`) | atomic `running_`, `server_fd_`, server thread; one detached thread per connection | `start`, `stop`, accept loop, parse, route, respond | sockets, engine |
| `main` (`src/main.cpp`), `EngineConfig` | `running`, the two objects on its stack, the settings | arguments, environment, start, wait, stop | signals |
| `GpuManager`, `GpuMemoryPool` (`src/engine/gpu_manager.*`) | `initialized_`, devices, bump-allocated pools | `initialize`, `get_device_info`, `select_best_device`, `set_device`, `shutdown`, `allocate`, `reset` | CUDA |
| Sampler (in `llama_backend.cpp`) | none | greedy, top-k, top-p | backend |
| `Tokenizer` | vocabulary, merges | `load`, `add_token`, `encode`, `decode` | engine (stub mode) |
| `ToolCaller` | table of handlers | register, parse calls, run them | engine |
| `NatsClient` | connection, subscription | publish, subscribe | engine, NATS |

How they interact. `main` owns the engine and the server; the server calls the
engine from one detached thread per connection; the engine calls the backend from
whatever thread called it, without a lock. Four kinds of thread run at once: the
main thread, the engine's worker, the server thread and the connection threads.
They share plain pointers, three atomics per object and the llama context.

What is hard here, and what must hold:

* *Backend*: unlocked sharing of the context; a cache that fills; error paths of
  `load_model`; the statement order of `unload`. Pointers and flag agree, a token
  is sampled from the caller's own sequence, nothing touches a freed pointer,
  every `generate` returns.
* *Engine*: `ready_` is tested once per call; `stop` runs beside calls; a
  notification can be lost. The model is usable while calls are admitted, the
  worker is joined, `stop` releases everything, calls come back.
* *Server*: `close` beside a blocked `accept`; a late connection; threads nobody
  counts; a peer that is gone. One late accept at most, a request that was read
  is answered.
* *main*: a signal at any time, failures at each start, the order of the stops.
* *Tool loop*: a registry without a lock beside a second `start`, a bound on the
  rounds, an engine stopped between two of them. The loop ends, results answer the
  announced calls, an admitted caller finds every tool.
* *GPUs*: failed starts and restarts around pools that are taken one by one,
  sizes that round and wrap, device guards whose calls may fail. No memory is lost,
  blocks lie apart, the engine runs on the device it reports.
* *NATS*: messages lost between two publications. A completion follows its response.
* *Sequential parts* (command line, request body, tokenizer, sampler): what a
  scan makes of input cut anywhere, which of several rules or values wins.

`PROJECT.json` lists each hazard at its line with the properties aimed at it, or
why there is none yet.

## The modules

The first four EXTEND one another, as each object of the program contains or
calls the one before it.

* `LlamaBackend.tla`: pointers, KV cache, logits and the callers inside
  `generate()`. One step per `llama_*` call or per statement that writes a
  pointer, because that is where threads interleave. `opc` is the owner's place in
  `load_model()` or `unload()`, `bpc[c]` and `job[c]` are a caller's place and
  locals in `generate()`. A cached token is a cell `<<owner, position>>` and a
  sampled token is represented by the cells its logits came from: that is all
  that tells one sequence from another. llama.cpp does not allow two threads inside
  one context: two callers that are both at a `llama_*` call on `ctx_`, one of which
  changes the cache or the logits, overlap (`Overlaps`), and the outcome is one call
  after the other or the death of the process (`Fault`). So it is on a null or freed
  pointer, and when `llama_get_logits_ith(ctx_, 0)` is null because the last batch had
  several tokens, of which only the last has logits (`LogitsNull`). `SerialSpec` is the
  backend under the contract its code relies on: one call at a time, and an
  `unload()` before another load.
* `InferenceEngine.tla`: the controlling thread in `start()`/`stop()` (`life`), the
  worker in `worker_loop()` (`wpc`), the callers in `generate()` and
  `generate_stream()` (`epc`, `call`), and `cancel_generation()`. Calls of
  different threads overlap freely. The `vocab_size()` tests, up to four in a call and
  one more for each token of a stream, are made at each of those places. `stop()` after
  a failed `start()` returns at its first test (`StopCall`). `start()` tests nothing;
  that nobody calls it while the engine is up is the owner's contract, a name of its
  own (`OwnerStarts`). `company`, a history variable, has the calls that met another
  call, a cancel or a `stop()` on their way.
* `RestApiServer.tla`: the controlling thread (`slife`), the accept loop (`spc`) and
  each connection with its detached thread (`hpc`, `request`, `status`). A
  connection is served by the engine caller of the same name.
* `Runtime.tla`: `main()` (`mpc`), the signal, and every thread of the process.
* `ServiceContract.tla`: the abstract specification: a service that starts,
  serves, drains and stops; admits connections while it serves and one more at
  most while it drains; answers or drops what it admitted; and crashes only
  while an admitted connection exists. `Runtime` implements it under the mapping
  `Phase`, `ConnectionOf` and `lateAccepts > 0`.

The other components each do their work inside one call, or under one owner, and
share no state with the above beyond being called. Each is a module of its own:

* `Configuration.tla`: `main()` from `argv` and the environment (`settings`) to the
  engine's constructor (`engineUrl`). `ParseArgument` is one round of the parsing
  loop, with its exits and the exception of `std::stoi`.
* `RequestParser.tla`: the body of a request as a sequence of symbols, cut at any
  byte by the one `recv()`; `ParsePair` is one round of `parse_json()`, `ReadParams`
  what the completion handlers read. The searches are those of the code, one
  operator each.
* `ToolLoop.tla`: `generate_with_tools()` statement group by statement group (`tpc`),
  `ToolCaller`'s registry (`handlers`), and the owner in `start()`/`stop()`, which
  fills it tool by tool (`entry`). `generate()` and `on_tool_call` may throw. A read of the registry during an insertion, or a
  call of a handler during its assignment, may crash (`RegistryCrash`) or go on.
* `GpuManager.tla`: `initialize()` device by device, selection, the load, failure and
  second attempts, `shutdown()`; the bump allocator of the device in use, whose sums
  wrap at the width of `size_t`. Pools are taken and freed under a device guard, and
  every `cudaSetDevice()`, those of the guards too, may fail: a pool may lie on another
  device than its own. Both builds, with CUDA and without, are initial choices.
* `Tokenizer.tla`: `load()` line by line into the three tables; `encode()` character by
  character, then word by word and merge by merge; `decode()` as an operator.
* `Sampler.tla`: `sample_token()` in its stages: greedy, or top-k, sort, cut, draw.
  A token's logit is a weight; ties and the order `std::sort` gives them are
  choices; `probs` is by rank, `indices` maps ranks to tokens, and `CutTail` indexes
  as the code does.
* `NatsClient.tla`: the connection attempt, the subscription and the publications (a
  response and its completion are two steps). What is published may be lost.

`MCLlamaBackend`, `MCInferenceEngine`, `MCRuntime` and `MCComponents` are the small
instances. `Engine_proofs` (the backend and the engine), `Runtime_proofs`, `Startup_proofs`
(the command line and the GPUs), `RequestParser_proofs`, `Tools_proofs` (the tool loop and
the NATS client), `Tokens_proofs` (the sampler and the tokenizer) and `Components_proofs`
(the small components side by side) hold the theorems; `SequenceLemmas` has what several of them need about least numbers,
flattening and places in sequences.

Definitions whose name has a suffix after an underscore (`ClearCache_Skipped`,
`DecodeToken_Retried`, ...) are plausible mistakes in the definition that follows
them. No specification uses them; putting one in place of the original must
break the property `PROJECT.json` pairs it with.

Modelled from use, not from source: llama.cpp (decoding appends cells to the cache
or fails, a decode fails when the cells do not fit, a context is for one thread at a
time; tokenization yields the prompt's tokens or none) and the Linux socket (closing a listening descriptor does
not wake a blocked `accept()`; the socket stays until that call returns; pending
connections are reset with it). Likewise CUDA (`cudaMemGetInfo` speaks of the current
device, an allocation fails when the memory is not there, making a device current may
fail) and a NATS server (keeps the order of one connection).

## The runs

| Run | Instance | Shows |
|---|---|---|
| `backend` | 2 callers, prompts 0, 1, 3, limits -1, 0, 2, batches of 2, cache of 4 | types, `PointersAgree`, `OwnContext`, `NoFault`, `GenerateReturns` under the one-at-a-time contract |
| `engine` | 1 caller, prompt 2, limits -1 and 2, batches of 2, cache of 3, any sequence of `start` (failing or not), `stop` and `cancel` | `ReadyMeansLoaded`, `StoppedMeansReleased`, `AloneNeverFaults`, `AloneOwnContext`, `AloneOwnDecoder`, `WorkerIsJoined`, `CallsReturn` |
| `engine_cancel` | the same | violation: `TokensOnlyWhileGenerating` |
| `runtime` | 2 connections (symmetric), prompt 1, limit 1, cache of 1, peers may leave | `AtMostOneLateAccept`, `ServerStopsFirst`, `ExitReleases`, `CrashOnlyUnderRequest`, and the refinement `ImplementsContract` |
| `runtime_live` | 1 connection, limits -1 and 1, cache of 1 | `CrashOnlyUnderRequest`, `RequestAnswered`, `SignalStopsOrAcceptBlocks` |
| `runtime_ctrlc` | 1 connection, cache of 2 | violation: `CtrlCStops` |
| `runtime_shutdown` | the same | violation: `NoFaultDuringStop` |
| `runtime_context` | 2 connections, cache of 2 | violation: `OwnContext` |
| `components` | the seven separate components, see below | 15 invariants and `LoopReturns`, each about one component |
| `sampler_nucleus` | the same | violation: `SampledInNucleus` |
| `nats_url` | the same | violation: `NatsUrlAsDocumented` |
| `gpu_device` | the same | violation: `LoadsOnChosenDevice` |

`AloneNeverFaults`, `AloneOwnContext` and `AloneOwnDecoder` say what a call can rely on that
meets no other call, cancel or `stop()`: that it does not kill the process, that its
tokens are its own, and that model and stub are not mixed in it. They are the most that
holds: `runtime_context` and `runtime_shutdown` show what company does.
`CrashOnlyUnderRequest` says the same of the process. `runtime_live` checks it with
one connection and a limit that makes the backend throw: an exception that left the
detached thread would be `std::terminate`.

`MCComponents` checks the separate components in one run: they share no variable,
so a behaviour has one `focus`, chosen at first, whose component moves while the
others rest in their initial states. The state space is the sum of theirs, and
what is checked is what seven runs would check. In detail:

| Component | Properties | Say |
|---|---|---|
| Configuration | `Precedence`, `OnlyWellFormedStarts` | which source of the model, the mode and the numbers wins; which command lines build an engine |
| RequestParser | `CutBodyOnlyLoses` | a flat body, cut anywhere, loses pairs from its end and garbles none |
| ToolLoop | `ResultsAnswerCalls`, `LastResultSeenBelowLimit`, `RegistrySettled`, `LoopReturns` | the i-th result answers the i-th call; where the limit cuts the conversation; only a restart can disturb the registry under a caller; the loop ends |
| GpuManager | `MemoryAccounted`, `BlocksApart` | a device has the memory it had, less the pools on it, over failed starts and restarts; what a pool hands out lies in it and apart, unless a size was asked for that wraps |
| Tokenizer | `WordFullyMerged`, `RoundTripReorders`, `ReloadChangesNothing` | merging ends and spells the word; `decode(encode(t))` is `t` with the spaces and punctuation first; a second `start()` loads the file again without effect |
| Sampler | `TopKKeepsLargest`, `SampledSurvives` | top-k against its definition; the token returned is one of the k best |
| NatsClient | `CompletionFollowsResponse` | order of publications under loss |

Why the bounds are enough. The bounds are the number of callers, the sizes of
prompts, limits, batches and cache; nothing else is cut. A prompt of 3 with
batches of 2 has a full and a short batch; a cache of 4 holds it with one token
and fills on the next; limit 0 and a negative limit take the early exits. Two
callers are enough for every pairwise interleaving, and two connections for "one
late accept, the other refused". The engine's prompt of 2 is one full batch, after
which row 0 of the logits would be null, and its cache of 3 fills between two tokens.
In the runs of the process one prompt token and
one generated token already cross every statement of `generate()`. The number of
behaviours of the engine is not bounded: it starts and stops for ever.

The components: command lines of up to 3 words (an option, its value, and one more
that repeats or contradicts it) over 8 words of every kind, 24 environments. Two
devices with 4, 8 or 20 units free against a pool of 8: none, exactly one, or two
pools; blocks of half a pool, of a unit more, of more than a pool, and of a size that
wraps at the width of 32 (the callers of `allocate` in the repository: none). Objects of up to 2 pairs over 8
pairs with punctuation in their strings, compact or with blanks, cut anywhere, and
every body of up to 4 quotes, colons, commas and letters. Texts of up to 4
characters over two letters and a stop, 8 vocabulary files with competing rules,
colliding ids and malformed lines, loaded twice. Three tokens of three possible
weights, every k around the boundaries, top-p in quarters. Two tool calls at most,
two starts, so that one restart falls between any two steps of a call. Two
request ids and four messages seen by the server (`MaxWire`): a response and a completion
of each in every order. `MaxArgs`, `MaxStarts`, `MaxWire` and the tokenizer's two loads are
the only cuts.

Deadlock. `engine` and the `Runtime` runs do not check it: a process that has
crashed or exited, and in `Runtime` one whose clients stay silent, has really
stopped. Nor do the component runs: `main` exits on a bad argument, a malformed
vocabulary stops the load. `backend` does check it.

Fairness. Weak fairness of each thread's own steps: the operating system
schedules every thread, and `wait_for` returns after its 100 ms. Nothing is
assumed of clients, signals, failures, or of `accept()` failing; in `SerialSpec`
nothing obliges the owner to load or a caller to call. `ToolFairness` is weak fairness
of the caller's own steps in `generate_with_tools`: its thread is scheduled, and the
model, the callback and the handlers return.

### Disagreements with the source's own words

1. `runtime_context`: "Reset state for new generation" (`llama_backend.cpp:222`) is
   not enough for the server: two connection threads use the one context at once,
   and a token is sampled from cells that are not the caller's.
2. `runtime_shutdown`: "Engine not ready" (`inference_engine.cpp:128`) does not
   protect a call that has passed the test: `stop()` waits for the worker, not for
   callers, and frees the model under them.
3. `engine_cancel`: "Cancel current generation" (`inference_engine.hpp:86`):
   `generating_` is never read, so tokens go on being added.
4. `runtime_ctrlc`: "Press Ctrl+C to stop." (`main.cpp:172`): with no client
   connecting, the server thread stays in `accept()` and `stop()` waits in `join()`.
5. `sampler_nucleus`: "Set all remaining to -inf" (`llama_backend.cpp:460`): the loop
   clears `probs` at token ids, but `probs` is ordered by rank; a token behind the
   nucleus can be sampled, and with `top_k = 1` every weight may be cleared.
6. `nats_url`: `SOVALUNE_NATS_URL` "NATS connection URL" (`README.md:122`), which
   `docker-compose.yml:13` sets: `main.cpp:137` reads it only when the URL is empty, and the
   default is not. It counts after `--no-nats` alone; that option, "Disable NATS"
   (`main.cpp:36`), clears the URL, and the engine's constructor replaces an empty URL
   by `nats://localhost:4222`. `Precedence` leaves the URL out for this reason.
7. `gpu_device`: "--gpu-device N  GPU device ID (default: auto)" (`README.md:86`): the result
   of `set_device()` is dropped, and the load begins with another device current.
   The choice itself, "most free memory" (`gpu_manager.hpp:76`), compares nothing: in
   `get_device_info()`, `cudaMemGetInfo()` reports the current device for every device that is
   probed. Both parts are in the property; the trace is of the first.

Four more are read off the same definitions and have no run of their own:

* "Shutdown GPU manager" (`inference_engine.cpp:116`): after a `start()` whose load
  failed `running_` is unset, `stop()` and the destructor return at line 102, and the
  GPU pools stay. `StopCall` has that return, and `ExitReleases` says that the GPU may
  be left exactly then.
* "Handle client in separate thread" (`rest_api_server.cpp:142`): two of those threads
  inside `llama_decode` or `llama_kv_cache_clear` on the one context, or one that samples
  from null logits after a batch of the other, may end the process while it serves. The
  cause is that of 1; `Fault` has these deaths, and `CrashOnlyUnderRequest` says that they need
  two requests.
* "return nullptr; // Out of memory" (`gpu_manager.cpp:67`): the sums of `allocate()`
  wrap, and a huge size gets a block that is not there. `Allocate` wraps, and `BlocksApart`
  has the hypothesis `~MayWrap` for it.
* The chat request of the README (`README.md:103-114`) carries `messages`; the handler
  reads `prompt` (`rest_api_server.cpp:295`), so the model is given an empty prompt. That
  request is one of the bodies of `components`.

Stated as properties that hold, because they say what the code does and no line of the
repository promises otherwise: decoding an encoded text reorders it (`RoundTripReorders`);
the last tool result at the limit is never shown to the model (`LastResultSeenBelowLimit`).

## What is proved

For every set of callers, every prompt and limit, and every cache and batch size
(`BackendAssumption`: sizes are naturals, a batch is not empty, limits are
integers; `StubAssumption`: the placeholder has a natural size;
`PeersAssumption`), and for the components for every number of devices and pool size
(`GpuAssumption`: sizes are of type `size_t`), every registry of tools, set of answers and
limit (`ToolAssumption`), every set of request ids (`NatsAssumption`), command lines
of any length over any words and environments (`ConfigurationAssumption`), every
vocabulary size and weights of tokens (`SamplerAssumption`), and every set of
vocabulary files and texts (`TokenizerAssumption`: they are sequences):

* `BackendTypeCorrect`, `EngineTypeCorrect`. The types alone are not inductive:
  the sizes of batches are naturals only because `fed <= prompt` and positions
  only because `made > 0` after a push. `JobBounds` adds that.
* `PointersAlwaysAgree`. `PointerStages` states what the two pointers are at each
  statement of `load_model()` and `unload()`.
* `SerialOwnContext`, `SerialNoFault`. `SerialInv` adds to `PointerStages` that one
  caller is active at a time and the backend loaded while it is (`OneActive`), and
  how much of the caller's own sequence cache and logits hold at each place
  (`Holds`). The step lemma treats each step of `generate()` by itself; the key
  fact is that decoding appends the next cells of the same sequence
  (`CellsConcat`).
* `EngineReadyMeansLoaded`, `EngineStoppedMeansReleased`. `EngineStages` is the conjunction
  of `PointerStages`, what each place of `start()` and `stop()` knows about the flags, the
  backend, the worker and the GPU (`LifeStages`), and that without a model no caller gets
  past the tests that look for one (`NoModelNoCalls`). Callers never write what
  `LifeStages` speaks of (`CallersKeepControl`), so the controlling thread's actions are
  the only cases. The GPU, which a failed start keeps, is not in the statement.
* `EngineAloneNeverFaults`, `EngineAloneOwnContext`, `EngineAloneOwnDecoder`. `CallStages` says
  of every call without company that it is the only one, that the engine is up, that
  cache and logits hold what they hold for a serial caller (`Holds`, the same as in
  `SerialInv`) and who makes its tokens (`Alone`). Its own steps keep that
  (`AloneCallStep`, on the step lemma of the serial backend); a step of anybody else
  either is not in the engine's context or gives the call company
  (`CallerKeepsCallStages`, `ThreadsKeepCallStages`, `CancelKeepsCallStages`). The
  `llama_*` calls of different threads are nowhere taken to be atomic.
* `RuntimeAtMostOneLateAccept`, `RuntimeServerStopsFirst`. `ShutdownOrder` says what
  each place of `main()` knows of the two objects, and that after a late accept the
  server thread is never in or before `accept()` again.
* `RuntimeTypeCorrect`, `RuntimeExitReleases`. The types of the process need the
  engine's (`EngineTypeInv`) and its `EngineStages`, both inductive under the steps of
  connections as well. `SocketOrder` adds where the socket is open, and that clients
  come in by it alone; with `LifeStages`, which says what a stopped engine has given
  back, an exit has released all but the GPU, and that too unless the engine did not
  start (`GpuLeft`).
* `RuntimeCrashOnlyUnderRequest`. Only a connection's thread can take the process
  down: `main()`, the worker and the accept loop never fault (`OnlyRequestsKill`), a
  call faults only when it has company (`CallStages`) or the engine is being stopped,
  which with an open socket behind it means that a signal came (`FaultNeedsSignal`); what
  is left is SIGPIPE on the response.
* `RuntimeImplementsContract`, the refinement. One lemma per thread shows its step to
  be one of `ServiceContract` or a stutter under the mapping: `main()` moves the phase
  and refuses what waits when it closes the socket, `accept()` admits, a connection's
  thread completes or dies with the process.

* `GpuBlocksApart`. While no size wraps, every block ends below the mark of its pool and
  the next one begins there (`BlocksBelowMark`); that needs that rounding up loses
  nothing (`AlignUpBounds`) and that blocks exist for the pool in use alone. A size
  that wraps suspends the promise until the next `reset()` or `shutdown()`.
* `GpuMemoryAccounted`. `GpuInv` adds to the types that a pool exists only where
  `initialize()` has passed or after it ended, and lies on some device (`PoolsTaken`), so
  that no pool is taken twice or lost when the guard left another device current; the
  rest is counting the pools on a device (`PoolsOn`).
* `ToolResultsAnswerCalls`, `ToolLastResultSeenBelowLimit`, `ToolRegistrySettled`.
  `ToolInv` adds how many answers, announced calls and results there are at each
  place of the loop (`Progress`); that the tools are entered in order and none is
  taken out (`Registering`); and that an admitted caller has all of them and that a
  `start()` under way is a later one (`Admitted`). What `try_parse_tool_call()` finds in
  an answer stays opaque in the proof.
* `NatsCompletionFollowsResponse`. `NatsInv` says that the response of a pending
  completion is on the wire or lost (`CompletingHeard`).

* `ConfigurationTypeCorrect`, `ConfigurationOnlyWellFormedStarts`,
  `ConfigurationPrecedence`. `ConfigurationInv` says that the loop stands at an option and
  never at the value of one (`LoopAtOption`), and that the settings are at every round
  what `Precedence` makes of the options passed so far (`SettingsFromPassed`). Which
  words are options is a recursion over the command line (`IsOption`); that the
  recursive function exists is part of the proof.
* `SamplerTypeCorrect`, `SamplerTopKKeepsLargest`, `SamplerSampledSurvives`. `SamplerInv`
  follows the weights: after top-k exactly the min(k, n) largest are left
  (`KeptAreLargest`), the sort puts them first, the cut only takes some away
  (`RanksFollowWeights`). That the first k ranks are the k survivors is counting:
  an order is a bijection (`OrderKeepsCount`). That top-p may clear every weight
  (disagreement 5) is why `SampledSurvives` has its hypothesis.
* `TokenizerWordFullyMerged`. `TokenizerInv` gives the shape of the locals of `encode()`
  (`EncodeShape`) and of the rules (`MergesShape`). The key lemma, `MergeKeepsText`,
  says that replacing two neighbours by their concatenation leaves the flattening of
  the pieces as it was; `BestMergeIs`, that no position is found only when no rule
  applies anywhere.
* `TokenizerReloadChangesNothing`. What a line of the file enters depends on the file
  alone, its automatic id included (`EntriesOf`, `TokenOn`, `IdOn`, `AutoIdAt`: the bare lines
  before it). A table holds the last entry of every key that has been read (`Holds`),
  and in the second load it differs from the first one's only where an entry has been
  made again (`Redone`); when all have been, the two are equal (`RedoneIsSame`). Rules
  are doubled, but the first of equal ones stays the first (`RepeatsSameRule`).
  `ReloadInv` and its parts are in `Tokens_proofs`; TLC finds no violation of it on the
  instance of `components` either.
* `TokenizerTypeCorrect`. An id is a number because `ToInt`, a recursion over the digits,
  yields one (`ToIntIsNatural`); the tables are finite (`TablesCounted`); and there are no
  more words than characters scanned (`WordsCounted`), which bounds the place.
* `TokenizerRoundTripReorders`. Every rule in the table stands on a line of the file
  (`RulesFromFile`), and with a plain file every character and every merged pair is an
  entry whose id is given once (`PlainFileSays`, `PlainIdsDiffer`): the two tables map it
  there and back (`Known`, `PlainKnown`). So every piece that merging leaves is its own
  token (`KnownToken`), and `EncodedSoFar` says at each place of `encode()` what its tokens
  decode to: the spaces and punctuation scanned, and then the words emitted. TLC finds
  no violation of `EncodedSoFar` on the instance of `components` either.
* `ToolTypeCorrect`, `ComponentsApart`, `ComponentsTypeCorrect`. The runs of `MCComponents`
  check the small components side by side. `ComponentsApart` says that such a behaviour
  is one of every component alone, so that each theorem about a component holds there.
* `RequestTypeCorrect`, `RequestCutBodyOnlyLoses`. `RequestInv` says that `parse_json()` has
  read the first m pairs of the object that was sent, stands in front of the next one,
  and has no quote before it (`PairsRead`): so the next search for a quote finds the
  next key, whatever the place of the scan among blanks and commas. The text of an
  object is the flattening of its pairs (`ObjectAt`, `PairPlaces`), a search ends where it
  would in the whole text, or nowhere when that is behind the cut (`SearchesReach`), and
  a round that finds the end of a value has read exactly a pair (`PairRead`); what a
  later pair of the same key says wins (`SaysNext`). The assumption on the objects
  (`FlatPair`) is what the comment "Simple JSON parser for flat objects" asks: strings
  without an escaped quote, bare values without quotes, commas and braces.

The provers have no induction over data. Where one would use it (a largest logit
exists, flattenings agree, the recursive `IsOption` exists), the proofs take the least
number at which the statement fails (`LeastNumber`, from the well-foundedness of `<`)
and refute it.

Only model-checked: the liveness properties (`GenerateReturns`, `WorkerIsJoined`,
`CallsReturn`, `RequestAnswered`, `SignalStopsOrAcceptBlocks`, `LoopReturns`), out of the
prover's reach. Every other property that a passing run checks is proved.

## What is not modelled

* `process_task`, `process_request` and the queue: no code pushes a task or calls
  them, so they are unreachable. `generate_token` does not compile.
* `JsonParser`, `MessageHandlerDispatcher` and `config.example.json`: nothing uses or
  reads them. `tokenize_single`, `set_seed`, `trim()`, `deallocate()`, which nothing calls or
  which do nothing; `NatsClient::wait_for_tool_result()`, which nothing calls and which
  could only restate what a NATS inbox promises.
* A second `start()` while the engine is up, which would overwrite the backend and assign
  `worker_` over a thread that can be joined: `main` makes one call of `start()`, and
  `OwnerStarts` names the contract.
* What a `llama_*` call has done half when another thread enters the context: the
  outcome is one call after the other, or the end of the process.
* Code that does not build is modelled as it is meant: the pool's inner class, whose
  constructors have the name of the outer one, and the subscription, which calls
  `natsSubscriptionNextMsg`, no function of nats.c.
* Contents in the process model: prompts and tokens are sizes and owners, requests
  are kinds. Floats: the sampler's sums are exact.
* What follows an exception in the middle of `Tokenizer::load()` or of the argument
  loop: the model stops there, as the process does.
* `vocab_size()`, `is_eos()` and `model_name()` test a pointer and use it in one
  step; the fault of the window between the two is the fault of a freed model,
  which those steps have. `tokenize()` and `detokenize()`, which use the model
  many times after the test, are two steps.
* Thread creation and allocation always succeed. Statistics and logging.
* Windows: the POSIX branches of the code are the ones modelled.

## Plan

Every component named above has its module, and every safety and step property of the
passing runs is proved. What is left:

* what keeps the loops finite, as safety: a measure of `generate()` and of the tool loop
  that every round lowers, from which `GenerateReturns` and `LoopReturns` follow under
  the fairness that the runs assume;
* the hazards in `PROJECT.json` that have no property yet, each with its reason: clients
  that stay silent, thread creation that fails, a malformed vocabulary, a completion
  without its response.
