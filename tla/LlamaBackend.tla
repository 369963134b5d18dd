---------------------------- MODULE LlamaBackend ----------------------------
(***************************************************************************)
(* The llama.cpp wrapper of src/engine/llama_backend.cpp: one model, one   *)
(* context with one KV cache and one logits buffer, and the threads that   *)
(* are inside generate() at the same time.  The wrapper has no lock, so    *)
(* the calls of different threads interleave, and two threads that are at  *)
(* a llama_* call on ctx_ may be inside it at once, which llama.cpp does   *)
(* not allow: the outcome is a call after the other, or a crash (Fault).   *)
(*                                                                         *)
(* A cached token is a cell <<owner, position>>: which thread's sequence   *)
(* it belongs to and at which position it was decoded.  A sampled token is *)
(* represented by the cells its logits were computed from.                 *)
(***************************************************************************)
EXTENDS Integers, Sequences

CONSTANTS Callers,      \* threads that may call the backend
          PromptSizes,  \* lengths of the tokenized prompts
          TokenLimits,  \* values of max_tokens
          NCtx,         \* cells of the KV cache, EngineConfig::n_ctx
          NBatch        \* prompt tokens per decode, EngineConfig::n_batch

ASSUME BackendAssumption ==
  /\ PromptSizes \subseteq Nat
  /\ TokenLimits \subseteq Int
  /\ NCtx \in Nat
  /\ NBatch \in Nat \ {0}

VARIABLES crashed,      \* the process died in undefined behaviour
          model, ctx,   \* the raw pointers model_ and ctx_
          modelLoaded,  \* model_loaded_
          opc,          \* where the owner is in load_model() or unload()
          kv,           \* cells in the KV cache of ctx_
          logits,       \* cells the logits buffer of ctx_ was computed from
          lastBatch,    \* tokens of the batch that filled it
          bpc,          \* where each caller is in generate()
          job           \* the locals of each caller's generate()

pointers == <<model, ctx, modelLoaded, opc>>
cache == <<kv, logits, lastBatch>>
frames == <<bpc, job>>
backendVars == <<crashed, pointers, cache, frames>>

-----------------------------------------------------------------------------
(* State *)

PointerState == {"null", "valid", "dangling"}
OwnerPC == {"idle", "newCtx", "setFlag", "dropModel", "forgetModel",
            "freeCtx", "nullCtx", "freeModel", "nullModel", "clearFlag"}
GeneratePC == {"out", "clear", "prefill", "sample", "emit", "decode", "ret", "threw"}
EndReason == {"none", "empty", "prefill", "limit", "eos", "decode"}

Cell == Callers \X Nat

\* prompt: prompt_tokens.size(); fed: prompt tokens decoded so far; made:
\* generated.size(); from, eos: the token in cur_token; end: why it returned.
Job == [prompt : Nat, limit : Int, fed : Nat, made : Nat,
        from : Seq(Cell), eos : BOOLEAN, end : EndReason]

NewJob(n, m) == [prompt |-> n, limit |-> m, fed |-> 0, made |-> 0,
                 from |-> << >>, eos |-> FALSE, end |-> "none"]

NoJob == NewJob(0, 0)

\* The cells of caller c at positions lo .. hi-1, in the order of a batch.
Cells(c, lo, hi) == [i \in 1 .. (hi - lo) |-> <<c, lo + i - 1>>]

BackendInit ==
  /\ crashed = FALSE
  /\ model = "null" /\ ctx = "null" /\ modelLoaded = FALSE /\ opc = "idle"
  /\ kv = << >> /\ logits = << >> /\ lastBatch = 0
  /\ bpc = [c \in Callers |-> "out"]
  /\ job = [c \in Callers |-> NoJob]

-----------------------------------------------------------------------------
(* load_model() and unload(), run by the thread that owns the backend *)

LoadModel ==
  /\ opc = "idle"
  /\ model' = "valid" /\ opc' = "newCtx"
  /\ UNCHANGED <<crashed, ctx, modelLoaded, cache, frames>>

LoadNoModel ==
  /\ opc = "idle"
  /\ model' = "null"
  /\ UNCHANGED <<crashed, ctx, modelLoaded, opc, cache, frames>>

LoadContext ==
  /\ opc = "newCtx"
  /\ ctx' = "valid" /\ opc' = "setFlag"
  /\ kv' = << >> /\ logits' = << >> /\ lastBatch' = 0
  /\ UNCHANGED <<crashed, model, modelLoaded, frames>>

LoadEnd ==
  /\ opc = "setFlag"
  /\ modelLoaded' = TRUE /\ opc' = "idle"
  /\ UNCHANGED <<crashed, model, ctx, cache, frames>>

LoadNoContext ==
  /\ opc = "newCtx"
  /\ ctx' = "null" /\ opc' = "dropModel"
  /\ UNCHANGED <<crashed, model, modelLoaded, cache, frames>>

LoadDropModel ==
  /\ opc = "dropModel"
  /\ model' = "dangling" /\ opc' = "forgetModel"
  /\ UNCHANGED <<crashed, ctx, modelLoaded, cache, frames>>

LoadForgetModel_KeepsPointer ==
  /\ opc = "forgetModel"
  /\ opc' = "idle"
  /\ UNCHANGED <<crashed, model, ctx, modelLoaded, cache, frames>>

LoadForgetModel ==
  /\ opc = "forgetModel"
  /\ model' = "null" /\ opc' = "idle"
  /\ UNCHANGED <<crashed, ctx, modelLoaded, cache, frames>>

LoadStep == LoadContext \/ LoadNoContext \/ LoadDropModel

\* unload() returns at once when nothing is loaded: there is no UnloadBegin.
UnloadBegin ==
  /\ modelLoaded /\ opc = "idle"
  /\ opc' = "freeCtx"
  /\ UNCHANGED <<crashed, model, ctx, modelLoaded, cache, frames>>

UnloadFreeCtx ==
  /\ opc = "freeCtx"
  /\ ctx' = IF ctx = "null" THEN "null" ELSE "dangling"
  /\ opc' = "nullCtx"
  /\ UNCHANGED <<crashed, model, modelLoaded, cache, frames>>

UnloadNullCtx ==
  /\ opc = "nullCtx"
  /\ ctx' = "null"
  /\ opc' = "freeModel"
  /\ UNCHANGED <<crashed, model, modelLoaded, cache, frames>>

UnloadFreeModel ==
  /\ opc = "freeModel"
  /\ model' = IF model = "null" THEN "null" ELSE "dangling"
  /\ opc' = "nullModel"
  /\ UNCHANGED <<crashed, ctx, modelLoaded, cache, frames>>

UnloadNullModel ==
  /\ opc = "nullModel"
  /\ model' = "null"
  /\ opc' = "clearFlag"
  /\ UNCHANGED <<crashed, ctx, modelLoaded, cache, frames>>

UnloadEnd ==
  /\ opc = "clearFlag"
  /\ modelLoaded' = FALSE
  /\ opc' = "idle"
  /\ UNCHANGED <<crashed, model, ctx, cache, frames>>

UnloadStep == UnloadFreeCtx \/ UnloadNullCtx \/ UnloadFreeModel \/ UnloadNullModel

\* reset(): the cache of whatever sequence is in it is dropped.
Reset ==
  /\ kv' = IF ctx = "null" THEN kv ELSE << >>
  /\ UNCHANGED <<crashed, pointers, logits, lastBatch, frames>>

-----------------------------------------------------------------------------
(* generate(), one step per llama_* call *)

\* The frame of caller c moves to pc with locals j.
MoveTo(c, pc, j) ==
  /\ bpc' = [bpc EXCEPT ![c] = pc]
  /\ job' = [job EXCEPT ![c] = j]

Finish(c, why) == MoveTo(c, "ret", [job[c] EXCEPT !.end = why])

EnterGenerate_Unchecked(c, j) ==
  /\ bpc[c] = "out"
  /\ MoveTo(c, IF j.limit < 0 THEN "threw" ELSE "clear", j)
  /\ UNCHANGED <<crashed, pointers, cache>>

\* The early return, then generated.reserve(max_tokens): a negative limit
\* becomes a huge size_t and the vector throws std::length_error.
EnterGenerate(c, j) ==
  /\ bpc[c] = "out"
  /\ \/ /\ ctx = "null" \/ j.prompt = 0
        /\ MoveTo(c, "ret", [j EXCEPT !.end = "empty"])
     \/ /\ ctx # "null" /\ j.prompt > 0 /\ j.limit < 0
        /\ MoveTo(c, "threw", j)
     \/ /\ ctx # "null" /\ j.prompt > 0 /\ j.limit >= 0
        /\ MoveTo(c, "clear", j)
  /\ UNCHANGED <<crashed, pointers, cache>>

\* llama_kv_cache_clear
ClearCache_Skipped(c) ==
  /\ bpc[c] = "clear" /\ ctx # "null"
  /\ MoveTo(c, "prefill", job[c])
  /\ UNCHANGED <<crashed, pointers, cache>>

ClearCache(c) ==
  /\ bpc[c] = "clear" /\ ctx # "null"
  /\ kv' = << >>
  /\ MoveTo(c, "prefill", job[c])
  /\ UNCHANGED <<crashed, pointers, logits, lastBatch>>

\* llama_decode of the cells of c at lo .. hi-1: it needs room for them.
Decode(c, lo, hi) ==
  /\ Len(kv) + (hi - lo) <= NCtx
  /\ kv' = kv \o Cells(c, lo, hi)
  /\ logits' = kv' /\ lastBatch' = hi - lo

\* The end of the batch that starts at job.fed.
BatchEnd_FromBack(c) == job[c].prompt - NBatch

BatchEnd(c) ==
  IF job[c].fed + NBatch < job[c].prompt THEN job[c].fed + NBatch ELSE job[c].prompt

PrefillBatch(c) ==
  /\ bpc[c] = "prefill" /\ ctx # "null"
  /\ \/ /\ Decode(c, job[c].fed, BatchEnd(c))
        /\ MoveTo(c, IF BatchEnd(c) = job[c].prompt THEN "sample" ELSE "prefill",
                  [job[c] EXCEPT !.fed = BatchEnd(c)])
     \/ /\ Finish(c, "prefill")
        /\ UNCHANGED cache
  /\ UNCHANGED <<crashed, pointers>>

\* The row asked of llama_get_logits_ith: the last one after the prompt, row 0
\* after a token.  A batch has logits for its last token alone, so row 0 is
\* null unless the batch was a single token.
LogitsRow_First(c) == 0
LogitsRow(c) == IF job[c].made = 0 THEN -1 ELSE 0
LogitsNull(c) == LogitsRow(c) = 0 /\ lastBatch # 1

\* llama_get_logits_ith and sample_token: what the buffer holds now.
Sample(c) ==
  /\ bpc[c] = "sample" /\ ctx # "null" /\ model # "null" /\ ~LogitsNull(c)
  /\ \E e \in BOOLEAN :
       MoveTo(c, "emit", [job[c] EXCEPT !.from = logits, !.eos = e])
  /\ UNCHANGED <<crashed, pointers, cache>>

\* The loop test, is_eos (false without a model), push_back and on_token.
Emit(c) ==
  /\ bpc[c] = "emit"
  /\ \/ /\ job[c].made >= job[c].limit
        /\ Finish(c, "limit")
     \/ /\ job[c].made < job[c].limit
        /\ job[c].eos /\ model # "null"
        /\ Finish(c, "eos")
     \/ /\ job[c].made < job[c].limit
        /\ ~(job[c].eos /\ model # "null")
        /\ MoveTo(c, "decode", [job[c] EXCEPT !.made = @ + 1])
  /\ UNCHANGED <<crashed, pointers, cache>>

TokenPosition_AfterBatch(c) == job[c].fed + job[c].made

\* The position of the token pushed last: prompt_tokens.size() + i.
TokenPosition(c) == job[c].prompt + job[c].made - 1

DecodeToken_Retried(c) ==
  /\ bpc[c] = "decode" /\ ctx # "null"
  /\ \/ /\ Decode(c, TokenPosition(c), TokenPosition(c) + 1)
        /\ MoveTo(c, "sample", job[c])
     \/ UNCHANGED <<cache, frames>>
  /\ UNCHANGED <<crashed, pointers>>

DecodeToken(c) ==
  /\ bpc[c] = "decode" /\ ctx # "null"
  /\ \/ /\ Decode(c, TokenPosition(c), TokenPosition(c) + 1)
        /\ MoveTo(c, "sample", job[c])
     \/ /\ Finish(c, "decode")
        /\ UNCHANGED cache
  /\ UNCHANGED <<crashed, pointers>>

\* The places of generate() at a llama_* call on ctx_, and those of them whose
\* call changes the cache or the logits.
UsesContext(c) == bpc[c] \in {"clear", "prefill", "sample", "decode"}
ChangesContext(c) == bpc[c] \in {"clear", "prefill", "decode"}

\* Another thread is at such a call too and nothing keeps them apart.
Overlaps(c) ==
  \E d \in Callers \ {c} :
    UsesContext(c) /\ UsesContext(d) /\ (ChangesContext(c) \/ ChangesContext(d))

\* A llama_* call on a null or freed pointer, two of them inside one context, or
\* sampling from null logits: undefined, the process may die.  It may also go
\* on, except with a null pointer, which the steps above allow.
Fault(c) ==
  /\ \/ UsesContext(c) /\ (ctx # "valid" \/ Overlaps(c))
     \/ bpc[c] = "sample" /\ (model # "valid" \/ LogitsNull(c))
     \/ bpc[c] = "emit" /\ model = "dangling"
  /\ crashed' = TRUE
  /\ UNCHANGED <<pointers, cache, frames>>

GenerateStep(c) ==
  \/ ClearCache(c) \/ PrefillBatch(c) \/ Sample(c) \/ Emit(c) \/ DecodeToken(c)
  \/ Fault(c)

\* The caller takes the vector, or catches the exception.
LeaveGenerate(c) ==
  /\ bpc[c] \in {"ret", "threw"}
  /\ MoveTo(c, "out", NoJob)
  /\ UNCHANGED <<crashed, pointers, cache>>

-----------------------------------------------------------------------------
(* The backend under the contract its code relies on: the owner loads,     *)
(* resets and unloads, and callers enter generate(), one at a time.  The   *)
(* owner unloads before it loads again, for load_model() neither frees the *)
(* model it replaces nor clears model_loaded_ when it fails.               *)
(* (The server lets callers overlap: see Runtime.)                         *)

Active(c) == bpc[c] \in {"clear", "prefill", "sample", "emit", "decode"}
Quiet == \A c \in Callers : ~Active(c)

OwnerStep ==
  /\ Quiet
  /\ \/ ~modelLoaded /\ (LoadModel \/ LoadNoModel)
     \/ LoadStep \/ LoadEnd \/ LoadForgetModel
     \/ opc = "idle" /\ Reset
     \/ UnloadBegin \/ UnloadStep \/ UnloadEnd

GenerateCall(c) ==
  /\ Quiet /\ opc = "idle"
  /\ \E n \in PromptSizes, m \in TokenLimits : EnterGenerate(c, NewJob(n, m))

SerialNext ==
  /\ ~crashed
  /\ \/ OwnerStep
     \/ \E c \in Callers : GenerateCall(c) \/ GenerateStep(c) \/ LeaveGenerate(c)

SerialFairness ==
  \A c \in Callers : WF_backendVars(~crashed /\ (GenerateStep(c) \/ LeaveGenerate(c)))

SerialSpec == BackendInit /\ [][SerialNext]_backendVars /\ SerialFairness

-----------------------------------------------------------------------------
(* Properties *)

BackendTypeOK ==
  /\ crashed \in BOOLEAN
  /\ model \in PointerState /\ ctx \in PointerState
  /\ modelLoaded \in BOOLEAN /\ opc \in OwnerPC
  /\ kv \in Seq(Cell) /\ logits \in Seq(Cell) /\ lastBatch \in Nat
  /\ bpc \in [Callers -> GeneratePC]
  /\ job \in [Callers -> Job]

\* The context is created from the model and must not outlive it, and between
\* two owner calls the flag model_loaded_ and the two pointers agree: both are
\* usable or both are null, never freed and still set.  load_model's error
\* path and unload() both have to get this right.
PointersAgree ==
  /\ ctx = "valid" => model = "valid"
  /\ opc = "idle" => /\ modelLoaded => ctx = "valid" /\ model = "valid"
                     /\ ~modelLoaded => ctx = "null" /\ model = "null"

\* A token is sampled from the caller's own sequence and nothing else: its
\* prompt and the tokens it generated, each once, at positions 0, 1, 2, ...
\* ("Reset state for new generation", llama_backend.cpp:222).
OwnContext ==
  \A c \in Callers :
    bpc[c] = "emit" => job[c].from = Cells(c, 0, job[c].prompt + job[c].made)

\* No llama_* call of a caller that keeps the contract sees a null or freed
\* pointer or null logits, after a failed load, an unload or a reload as well.
NoFault == ~crashed

\* Every generate() returns: the prefill and the token loop both advance, and a
\* llama_decode that keeps failing on a full cache ends the call.
GenerateReturns == \A c \in Callers : Active(c) ~> ~Active(c)

-----------------------------------------------------------------------------
(* Inductive strengthenings *)

\* A batch never runs past the prompt and no position is negative, without
\* which the sizes of the cache would not stay natural numbers.
JobBounds(c) ==
  /\ job[c].fed <= job[c].prompt
  /\ bpc[c] = "decode" => job[c].made > 0

BackendTypeInv == BackendTypeOK /\ \A c \in Callers : JobBounds(c)

\* Where the two pointers are at each statement of load_model() and unload().
PointerStages ==
  /\ opc = "idle" => \/ modelLoaded /\ ctx = "valid" /\ model = "valid"
                     \/ ~modelLoaded /\ ctx = "null" /\ model = "null"
  /\ opc = "newCtx" => ~modelLoaded /\ ctx = "null" /\ model = "valid"
  /\ opc = "setFlag" => ~modelLoaded /\ ctx = "valid" /\ model = "valid"
  /\ opc = "dropModel" => ~modelLoaded /\ ctx = "null" /\ model = "valid"
  /\ opc = "forgetModel" => ~modelLoaded /\ ctx = "null" /\ model = "dangling"
  /\ opc = "freeCtx" => ctx = "valid" /\ model = "valid"
  /\ opc = "nullCtx" => ctx = "dangling" /\ model = "valid"
  /\ opc = "freeModel" => ctx = "null" /\ model = "valid"
  /\ opc = "nullModel" => ctx = "null" /\ model = "dangling"
  /\ opc = "clearFlag" => ctx = "null" /\ model = "null"

\* One caller at a time is between the entry and the return of generate(), and
\* the backend is loaded while it is.
OneActive ==
  /\ \A c, d \in Callers : Active(c) /\ Active(d) => c = d
  /\ \A c \in Callers : Active(c) => opc = "idle" /\ modelLoaded

\* How much of its own sequence the cache and the logits hold at each pc.
Holds(c) ==
  /\ bpc[c] = "clear" => job[c].fed = 0 /\ job[c].made = 0 /\ job[c].prompt > 0
  /\ bpc[c] = "prefill" => /\ job[c].made = 0 /\ job[c].fed < job[c].prompt
                           /\ kv = Cells(c, 0, job[c].fed)
  /\ bpc[c] = "sample" => /\ kv = Cells(c, 0, job[c].prompt + job[c].made)
                          /\ logits = Cells(c, 0, job[c].prompt + job[c].made)
                          /\ ~LogitsNull(c)
  /\ bpc[c] = "emit" => /\ kv = Cells(c, 0, job[c].prompt + job[c].made)
                        /\ job[c].from = Cells(c, 0, job[c].prompt + job[c].made)
  /\ bpc[c] = "decode" => /\ job[c].made > 0
                          /\ kv = Cells(c, 0, job[c].prompt + job[c].made - 1)

SerialInv == PointerStages /\ OneActive /\ NoFault /\ \A c \in Callers : Holds(c)

=============================================================================
