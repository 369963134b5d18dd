--------------------------- MODULE Engine_proofs ----------------------------
(***************************************************************************)
(* Proofs about LlamaBackend: types, the stages of the two pointers, and,  *)
(* for callers that wait for each other, that a token is sampled from the  *)
(* caller's own sequence and no call meets a dead pointer.  The lemmas are *)
(* stated per action, for the modules that compose the backend with other  *)
(* threads.  Then about InferenceEngine, which composes it: types, and     *)
(* what start() and stop() guarantee whatever any number of callers do at  *)
(* the same time.                                                          *)
(***************************************************************************)
EXTENDS InferenceEngine, SequenceTheorems, TLAPS

-----------------------------------------------------------------------------
(* Lemmas about the cells of a batch *)

\* A batch is a sequence of cells with one cell per position.
LEMMA CellsType ==
  ASSUME NEW c \in Callers, NEW lo \in Nat, NEW hi \in Nat, lo <= hi
  PROVE  /\ Cells(c, lo, hi) \in Seq(Cell)
         /\ Len(Cells(c, lo, hi)) = hi - lo
         /\ \A i \in 1 .. (hi - lo) : Cells(c, lo, hi)[i] = <<c, lo + i - 1>>
<1> DEFINE s == Cells(c, lo, hi)
<1>1. hi - lo \in Nat
  OBVIOUS
<1>2. \A i \in 1 .. (hi - lo) : <<c, lo + i - 1>> \in Cell
  BY DEF Cell
<1>3. s \in [1 .. (hi - lo) -> Cell]
  BY <1>2 DEF Cells
<1>4. s \in Seq(Cell)
  BY <1>1, <1>3
<1>5. Len(s) = hi - lo
  BY <1>1, <1>3, <1>4
<1> QED
  BY <1>4, <1>5 DEF Cells

\* Decoding the cells lo .. mid-1 and then mid .. hi-1 is decoding lo .. hi-1.
LEMMA CellsConcat ==
  ASSUME NEW c \in Callers, NEW lo \in Nat, NEW mid \in Nat, NEW hi \in Nat,
         lo <= mid, mid <= hi
  PROVE  Cells(c, lo, mid) \o Cells(c, mid, hi) = Cells(c, lo, hi)
<1> DEFINE s == Cells(c, lo, mid)
           t == Cells(c, mid, hi)
           u == Cells(c, lo, hi)
<1>0. lo <= hi
  OBVIOUS
<1>1. /\ s \in Seq(Cell) /\ Len(s) = mid - lo
      /\ \A i \in 1 .. (mid - lo) : s[i] = <<c, lo + i - 1>>
  BY CellsType
<1>2. /\ t \in Seq(Cell) /\ Len(t) = hi - mid
      /\ \A i \in 1 .. (hi - mid) : t[i] = <<c, mid + i - 1>>
  BY CellsType
<1>3. /\ u \in Seq(Cell) /\ Len(u) = hi - lo
      /\ \A i \in 1 .. (hi - lo) : u[i] = <<c, lo + i - 1>>
  BY <1>0, CellsType
<1>4. /\ s \o t \in Seq(Cell)
      /\ Len(s \o t) = hi - lo
      /\ \A i \in 1 .. (hi - lo) : (s \o t)[i] = IF i <= mid - lo THEN s[i] ELSE t[i - (mid - lo)]
  <2> HIDE DEF s, t
  <2>1. /\ s \o t \in Seq(Cell)
        /\ Len(s \o t) = Len(s) + Len(t)
        /\ \A i \in 1 .. Len(s) + Len(t) :
             (s \o t)[i] = IF i <= Len(s) THEN s[i] ELSE t[i - Len(s)]
    BY <1>1, <1>2, ConcatProperties
  <2>2. Len(s) + Len(t) = hi - lo
    BY <1>1, <1>2
  <2> QED
    BY <1>1, <2>1, <2>2
<1>5. \A i \in 1 .. Len(s \o t) : (s \o t)[i] = u[i]
  <2> HIDE DEF s, t, u
  <2> SUFFICES ASSUME NEW i \in 1 .. (hi - lo)
               PROVE  (s \o t)[i] = u[i]
    BY <1>4
  <2>1. CASE i <= mid - lo
    <3>1. i \in 1 .. (mid - lo)
      BY <2>1
    <3>2. s[i] = <<c, lo + i - 1>> /\ u[i] = <<c, lo + i - 1>>
      BY <3>1, <1>1, <1>3
    <3>3. (s \o t)[i] = s[i]
      BY <2>1, <1>4
    <3> QED
      BY <3>2, <3>3
  <2>2. CASE ~(i <= mid - lo)
    <3>1. i - (mid - lo) \in 1 .. (hi - mid)
      BY <2>2
    <3>2. t[i - (mid - lo)] = <<c, mid + (i - (mid - lo)) - 1>>
      BY <3>1, <1>2
    <3>3. mid + (i - (mid - lo)) - 1 = lo + i - 1
      OBVIOUS
    <3>4. (s \o t)[i] = t[i - (mid - lo)]
      BY <2>2, <1>4
    <3>5. u[i] = <<c, lo + i - 1>>
      BY <1>3
    <3> QED
      BY <3>2, <3>3, <3>4, <3>5
  <2> QED
    BY <2>1, <2>2
<1> HIDE DEF s, t, u
<1>6. s \o t = u
  BY <1>3, <1>4, <1>5, SeqEqual
<1> QED
  BY <1>6 DEF s, t, u

\* A cache that was just cleared holds the first no cells of anyone.
LEMMA CellsEmpty ==
  ASSUME NEW c \in Callers
  PROVE  Cells(c, 0, 0) = << >>
<1>1. Cells(c, 0, 0) \in Seq(Cell) /\ Len(Cells(c, 0, 0)) = 0
  BY CellsType
<1> QED
  BY <1>1, EmptySeq

-----------------------------------------------------------------------------
(* The backend: types *)

\* A frame that moves to a well-typed place stays well-typed.
LEMMA MoveToTypes ==
  ASSUME NEW c \in Callers, NEW pc \in GeneratePC, NEW j \in Job,
         j.fed <= j.prompt, pc = "decode" => j.made > 0,
         BackendTypeInv, MoveTo(c, pc, j)
  PROVE  /\ bpc' \in [Callers -> GeneratePC]
         /\ job' \in [Callers -> Job]
         /\ \A d \in Callers : JobBounds(d)'
<1>1. bpc \in [Callers -> GeneratePC] /\ job \in [Callers -> Job]
  BY DEF BackendTypeInv, BackendTypeOK
<1>2. bpc' = [bpc EXCEPT ![c] = pc] /\ job' = [job EXCEPT ![c] = j]
  BY DEF MoveTo
<1>3. bpc' \in [Callers -> GeneratePC] /\ job' \in [Callers -> Job]
  BY <1>1, <1>2
<1>4. ASSUME NEW d \in Callers PROVE JobBounds(d)'
  <2>1. CASE d = c
    <3>1. bpc'[d] = pc /\ job'[d] = j
      BY <1>1, <1>2, <2>1
    <3> QED
      BY <3>1 DEF JobBounds
  <2>2. CASE d # c
    <3>1. bpc'[d] = bpc[d] /\ job'[d] = job[d]
      BY <1>1, <1>2, <2>2
    <3> QED
      BY <3>1 DEF JobBounds, BackendTypeInv
  <2> QED
    BY <2>1, <2>2
<1> QED
  BY <1>3, <1>4

\* Steps that leave the frames alone keep their part of the invariant.
LEMMA FramesUnchanged ==
  ASSUME BackendTypeInv, UNCHANGED frames
  PROVE  /\ bpc' \in [Callers -> GeneratePC]
         /\ job' \in [Callers -> Job]
         /\ \A d \in Callers : JobBounds(d)'
BY DEF BackendTypeInv, BackendTypeOK, frames, JobBounds

\* Lemma: a new backend is well-typed.
LEMMA InitTypes == BackendInit => BackendTypeInv
<1> SUFFICES ASSUME BackendInit PROVE BackendTypeInv
  OBVIOUS
<1>1. NoJob \in Job
  <2>1. << >> \in Seq(Cell)
    BY EmptySeq
  <2> QED
    BY <2>1 DEF NoJob, NewJob, Job, EndReason
<1>2. /\ bpc \in [Callers -> GeneratePC] /\ job \in [Callers -> Job]
      /\ \A d \in Callers : JobBounds(d)
  <2>1. NoJob.fed = 0 /\ NoJob.prompt = 0
    BY DEF NoJob, NewJob
  <2> QED
    BY <1>1, <2>1 DEF BackendInit, GeneratePC, JobBounds
<1> QED
  BY <1>2, EmptySeq DEF BackendInit, BackendTypeInv, BackendTypeOK, PointerState, OwnerPC

\* The owner's steps.
LEMMA OwnerTypes ==
  ASSUME BackendTypeInv,
         \/ LoadModel \/ LoadNoModel \/ LoadStep \/ LoadEnd \/ LoadForgetModel
         \/ Reset \/ UnloadBegin \/ UnloadStep \/ UnloadEnd
  PROVE  BackendTypeInv'
<1>1. UNCHANGED frames
  BY DEF LoadModel, LoadNoModel, LoadStep, LoadContext, LoadNoContext,
         LoadDropModel, LoadEnd, LoadForgetModel, Reset, UnloadBegin, UnloadStep, UnloadFreeCtx,
         UnloadNullCtx, UnloadFreeModel, UnloadNullModel, UnloadEnd
<1>2. /\ crashed' \in BOOLEAN /\ model' \in PointerState /\ ctx' \in PointerState
      /\ modelLoaded' \in BOOLEAN /\ opc' \in OwnerPC
  BY DEF BackendTypeInv, BackendTypeOK, LoadModel, LoadNoModel, LoadStep, LoadContext, LoadNoContext,
         LoadDropModel, LoadEnd, LoadForgetModel, Reset, UnloadBegin,
         UnloadStep, UnloadFreeCtx, UnloadNullCtx, UnloadFreeModel, UnloadNullModel, UnloadEnd,
         PointerState, OwnerPC, pointers
<1>3. kv' \in Seq(Cell) /\ logits' \in Seq(Cell) /\ lastBatch' \in Nat
  <2>0. kv \in Seq(Cell) /\ logits \in Seq(Cell) /\ lastBatch \in Nat
    BY DEF BackendTypeInv, BackendTypeOK
  <2>a. << >> \in Seq(Cell)
    BY EmptySeq
  <2>1. CASE LoadContext \/ Reset
    <3>1. kv' \in {kv, << >>} /\ logits' \in {logits, << >>} /\ lastBatch' \in {lastBatch, 0}
      BY <2>1 DEF LoadContext, Reset
    <3>2. lastBatch' \in Nat
      BY <2>0, <3>1
    <3> QED
      BY <2>0, <2>a, <3>1, <3>2
  <2>2. CASE UNCHANGED cache
    BY <2>0, <2>2 DEF cache
  <2> QED
    BY <2>1, <2>2
    DEF LoadModel, LoadNoModel, LoadStep, LoadNoContext, LoadDropModel, LoadEnd, LoadForgetModel,
        UnloadBegin, UnloadStep, UnloadFreeCtx, UnloadNullCtx, UnloadFreeModel, UnloadNullModel,
        UnloadEnd
<1> QED
  BY <1>1, <1>2, <1>3, FramesUnchanged DEF BackendTypeInv, BackendTypeOK

\* generate() is entered with any prompt and any limit.
LEMMA EnterTypes ==
  ASSUME BackendTypeInv, NEW c \in Callers, NEW n \in Nat, NEW m \in Int,
         EnterGenerate(c, NewJob(n, m))
  PROVE  BackendTypeInv'
<1> DEFINE j == NewJob(n, m)
           e == [j EXCEPT !.end = "empty"]
<1>1. \A k \in {j, e} : k \in Job /\ k.fed <= k.prompt
  <2>1. << >> \in Seq(Cell)
    BY EmptySeq
  <2>2. j \in Job /\ j.fed <= j.prompt
    BY <2>1 DEF NewJob, Job, EndReason
  <2> HIDE DEF j
  <2>3. e \in Job /\ e.fed <= e.prompt
    BY <2>2 DEF Job, EndReason
  <2> QED
    BY <2>2, <2>3
<1>2. PICK pc \in {"ret", "threw", "clear"}, k \in {j, e} : MoveTo(c, pc, k)
  BY DEF EnterGenerate
<1> HIDE DEF j, e
<1>3. /\ bpc' \in [Callers -> GeneratePC] /\ job' \in [Callers -> Job]
      /\ \A d \in Callers : JobBounds(d)'
  <2>1. pc \in GeneratePC /\ pc # "decode"
    BY DEF GeneratePC
  <2>2. k \in Job /\ k.fed <= k.prompt
    BY <1>1
  <2> QED
    BY <2>1, <2>2, <1>2, MoveToTypes
<1>4. UNCHANGED <<crashed, pointers, cache>>
  BY DEF EnterGenerate
<1> QED
  BY <1>3, <1>4 DEF BackendTypeInv, BackendTypeOK, pointers, cache

\* What one decode does to the cache.
LEMMA DecodeTypes ==
  ASSUME BackendTypeInv, NEW c \in Callers, NEW lo \in Nat, NEW hi \in Nat, lo <= hi,
         Decode(c, lo, hi)
  PROVE  kv' \in Seq(Cell) /\ logits' \in Seq(Cell) /\ lastBatch' \in Nat
<1>1. kv \in Seq(Cell) /\ Cells(c, lo, hi) \in Seq(Cell)
  BY CellsType DEF BackendTypeInv, BackendTypeOK
<1>2. kv \o Cells(c, lo, hi) \in Seq(Cell)
  BY <1>1, ConcatProperties
<1> QED
  BY <1>2 DEF Decode

\* The batches advance and stop at the end of the prompt.
LEMMA BatchEndBounds ==
  ASSUME BackendTypeInv, NEW c \in Callers
  PROVE  /\ BatchEnd(c) \in Nat
         /\ job[c].fed <= BatchEnd(c) /\ BatchEnd(c) <= job[c].prompt
         /\ job[c].fed < job[c].prompt => job[c].fed < BatchEnd(c)
<1>1. job[c].fed \in Nat /\ job[c].prompt \in Nat /\ job[c].fed <= job[c].prompt
  BY DEF BackendTypeInv, BackendTypeOK, JobBounds, Job
<1>2. NBatch \in Nat \ {0}
  BY BackendAssumption
<1> QED
  BY <1>1, <1>2 DEF BatchEnd

\* Every step of generate(), whoever else is in it.
LEMMA GenerateTypes ==
  ASSUME BackendTypeInv, NEW c \in Callers, GenerateStep(c) \/ LeaveGenerate(c)
  PROVE  BackendTypeInv'
<1> DEFINE Framed == /\ bpc' \in [Callers -> GeneratePC] /\ job' \in [Callers -> Job]
                     /\ \A d \in Callers : JobBounds(d)'
<1>0. job[c] \in Job /\ job[c].fed <= job[c].prompt
  BY DEF BackendTypeInv, BackendTypeOK, JobBounds
<1>1. ASSUME NEW why \in EndReason, Finish(c, why) PROVE Framed
  <2> DEFINE k == [job[c] EXCEPT !.end = why]
  <2>1. k \in Job /\ k.fed <= k.prompt
    BY <1>0 DEF Job
  <2>2. MoveTo(c, "ret", k)
    BY <1>1 DEF Finish
  <2> HIDE DEF k
  <2> QED
    BY <2>1, <2>2, MoveToTypes DEF GeneratePC
<1>2. CASE ClearCache(c)
  <2>1. Framed
    BY <1>0, <1>2, MoveToTypes DEF ClearCache, GeneratePC
  <2> QED
    BY <2>1, <1>2, EmptySeq DEF ClearCache, BackendTypeInv, BackendTypeOK, pointers
<1>3. CASE PrefillBatch(c)
  <2>1. CASE Finish(c, "prefill") /\ UNCHANGED cache
    <3>1. Framed
      BY <2>1, <1>1 DEF EndReason
    <3> QED
      BY <3>1, <2>1, <1>3 DEF PrefillBatch, BackendTypeInv, BackendTypeOK, pointers, cache
  <2>2. CASE /\ Decode(c, job[c].fed, BatchEnd(c))
             /\ MoveTo(c, IF BatchEnd(c) = job[c].prompt THEN "sample" ELSE "prefill",
                       [job[c] EXCEPT !.fed = BatchEnd(c)])
    <3> DEFINE k == [job[c] EXCEPT !.fed = BatchEnd(c)]
               pc == IF BatchEnd(c) = job[c].prompt THEN "sample" ELSE "prefill"
    <3>1. k \in Job /\ k.fed <= k.prompt
      BY <1>0, BatchEndBounds DEF Job
    <3>2. pc \in GeneratePC /\ pc # "decode"
      BY DEF GeneratePC
    <3>3. MoveTo(c, pc, k)
      BY <2>2
    <3> HIDE DEF k, pc
    <3>4. Framed
      BY <3>1, <3>2, <3>3, MoveToTypes
    <3>5. kv' \in Seq(Cell) /\ logits' \in Seq(Cell) /\ lastBatch' \in Nat
      <4>1. job[c].fed \in Nat
        BY <1>0 DEF Job
      <4> QED
        BY <4>1, <2>2, BatchEndBounds, DecodeTypes
    <3> QED
      BY <3>4, <3>5, <1>3 DEF PrefillBatch, BackendTypeInv, BackendTypeOK, pointers
  <2> QED
    BY <1>3, <2>1, <2>2 DEF PrefillBatch
<1>4. CASE Sample(c)
  <2>1. PICK e \in BOOLEAN :
          MoveTo(c, "emit", [job[c] EXCEPT !.from = logits, !.eos = e])
    BY <1>4 DEF Sample
  <2> DEFINE k == [job[c] EXCEPT !.from = logits, !.eos = e]
  <2>2. k \in Job /\ k.fed <= k.prompt
    <3>1. logits \in Seq(Cell)
      BY DEF BackendTypeInv, BackendTypeOK
    <3> QED
      BY <3>1, <1>0 DEF Job
  <2>3. MoveTo(c, "emit", k)
    BY <2>1
  <2> HIDE DEF k
  <2>4. Framed
    BY <2>2, <2>3, MoveToTypes DEF GeneratePC
  <2> QED
    BY <2>4, <1>4 DEF Sample, BackendTypeInv, BackendTypeOK, pointers, cache
<1>5. CASE Emit(c)
  <2>1. CASE Finish(c, "limit") \/ Finish(c, "eos")
    BY <2>1, <1>1, <1>5 DEF Emit, EndReason, BackendTypeInv, BackendTypeOK, pointers, cache
  <2>2. CASE MoveTo(c, "decode", [job[c] EXCEPT !.made = @ + 1])
    <3> DEFINE k == [job[c] EXCEPT !.made = @ + 1]
    <3>1. k \in Job /\ k.fed <= k.prompt /\ k.made > 0
      BY <1>0 DEF Job
    <3>2. MoveTo(c, "decode", k)
      BY <2>2
    <3> HIDE DEF k
    <3>3. Framed
      BY <3>1, <3>2, MoveToTypes DEF GeneratePC
    <3> QED
      BY <3>3, <1>5 DEF Emit, BackendTypeInv, BackendTypeOK, pointers, cache
  <2> QED
    BY <2>1, <2>2, <1>5 DEF Emit
<1>6. CASE DecodeToken(c)
  <2>1. CASE Finish(c, "decode") /\ UNCHANGED cache
    <3>1. Framed
      BY <2>1, <1>1 DEF EndReason
    <3> QED
      BY <3>1, <2>1, <1>6 DEF DecodeToken, BackendTypeInv, BackendTypeOK, pointers, cache
  <2>2. CASE /\ Decode(c, TokenPosition(c), TokenPosition(c) + 1)
             /\ MoveTo(c, "sample", job[c])
    <3>1. Framed
      BY <1>0, <2>2, MoveToTypes DEF GeneratePC
    <3>2. TokenPosition(c) \in Nat
      BY <1>0, <1>6 DEF DecodeToken, BackendTypeInv, JobBounds, Job, TokenPosition
    <3>3. kv' \in Seq(Cell) /\ logits' \in Seq(Cell) /\ lastBatch' \in Nat
      BY <3>2, <2>2, DecodeTypes
    <3> QED
      BY <3>1, <3>3, <1>6 DEF DecodeToken, BackendTypeInv, BackendTypeOK, pointers
  <2> QED
    BY <1>6, <2>1, <2>2 DEF DecodeToken
<1>7. CASE Fault(c)
  BY <1>7, FramesUnchanged DEF Fault, BackendTypeInv, BackendTypeOK, pointers, cache
<1>8. CASE LeaveGenerate(c)
  <2>1. NoJob \in Job /\ NoJob.fed <= NoJob.prompt
    <3>1. << >> \in Seq(Cell)
      BY EmptySeq
    <3> QED
      BY <3>1 DEF NoJob, NewJob, Job, EndReason
  <2>2. Framed
    BY <2>1, <1>8, MoveToTypes DEF LeaveGenerate, GeneratePC
  <2> QED
    BY <2>2, <1>8 DEF LeaveGenerate, BackendTypeInv, BackendTypeOK, pointers, cache
<1> QED
  BY <1>2, <1>3, <1>4, <1>5, <1>6, <1>7, <1>8 DEF GenerateStep

\* Lemma: a step that leaves the backend alone keeps its types.
LEMMA StutterTypes == BackendTypeInv /\ UNCHANGED backendVars => BackendTypeInv'
BY DEF BackendTypeInv, BackendTypeOK, JobBounds, backendVars, pointers, cache, frames

\* Lemma: the types and the bounds of each call are inductive.
LEMMA SerialTypes == SerialSpec => []BackendTypeInv
<1>1. BackendTypeInv /\ [SerialNext]_backendVars => BackendTypeInv'
  <2> SUFFICES ASSUME BackendTypeInv, [SerialNext]_backendVars PROVE BackendTypeInv'
    OBVIOUS
  <2>1. CASE OwnerStep
    BY <2>1, OwnerTypes DEF OwnerStep
  <2>2. ASSUME NEW c \in Callers, GenerateCall(c) PROVE BackendTypeInv'
    <3>1. PICK n \in PromptSizes, m \in TokenLimits : EnterGenerate(c, NewJob(n, m))
      BY <2>2 DEF GenerateCall
    <3>2. n \in Nat /\ m \in Int
      BY BackendAssumption
    <3> QED
      BY <3>1, <3>2, EnterTypes
  <2>3. ASSUME NEW c \in Callers, GenerateStep(c) \/ LeaveGenerate(c) PROVE BackendTypeInv'
    BY <2>3, GenerateTypes
  <2>4. CASE UNCHANGED backendVars
    BY <2>4, StutterTypes
  <2> QED
    BY <2>1, <2>2, <2>3, <2>4 DEF SerialNext
<1> QED
  BY <1>1, InitTypes, PTL DEF SerialSpec

\* BackendTypeOK for every set of callers, every prompt and every limit.
THEOREM BackendTypeCorrect == SerialSpec => []BackendTypeOK
<1>1. BackendTypeInv => BackendTypeOK
  BY DEF BackendTypeInv
<1> QED
  BY <1>1, SerialTypes, PTL

-----------------------------------------------------------------------------
(* The backend: the pointers *)

\* Only the owner moves the pointers, one stage at a time.
LEMMA PointerStagesKept ==
  ASSUME PointerStages,
         \/ ~modelLoaded /\ (LoadModel \/ LoadNoModel)
         \/ LoadStep \/ LoadEnd \/ LoadForgetModel
         \/ UnloadBegin \/ UnloadStep \/ UnloadEnd
         \/ UNCHANGED pointers
  PROVE  PointerStages'
<1>1. CASE \/ ~modelLoaded /\ (LoadModel \/ LoadNoModel)
           \/ LoadStep \/ LoadEnd \/ LoadForgetModel
  BY <1>1 DEF PointerStages, LoadModel, LoadNoModel, LoadStep, LoadContext, LoadNoContext,
              LoadDropModel, LoadEnd, LoadForgetModel
<1>2. CASE UnloadBegin \/ UnloadEnd
  BY <1>2 DEF PointerStages, UnloadBegin, UnloadEnd
<1>3. CASE UnloadStep
  BY <1>3 DEF PointerStages, UnloadStep, UnloadFreeCtx, UnloadNullCtx, UnloadFreeModel,
              UnloadNullModel
<1>4. CASE UNCHANGED pointers
  BY <1>4 DEF PointerStages, pointers
<1> QED
  BY <1>1, <1>2, <1>3, <1>4

\* No step of generate() writes a pointer.
LEMMA CallersKeepPointers ==
  ASSUME NEW c \in Callers,
         \/ GenerateStep(c) \/ LeaveGenerate(c)
         \/ \E n \in PromptSizes, m \in TokenLimits : EnterGenerate(c, NewJob(n, m))
  PROVE  UNCHANGED pointers
BY DEF GenerateStep, LeaveGenerate, EnterGenerate, ClearCache, PrefillBatch, Sample, Emit,
       DecodeToken, Fault

\* PointersAgree, across failed loads, reloads and every statement of unload().
THEOREM PointersAlwaysAgree == SerialSpec => []PointersAgree
<1>1. BackendInit => PointerStages
  BY DEF BackendInit, PointerStages
<1>2. BackendTypeInv /\ PointerStages /\ [SerialNext]_backendVars => PointerStages'
  <2> SUFFICES ASSUME PointerStages, [SerialNext]_backendVars PROVE PointerStages'
    OBVIOUS
  <2>1. CASE OwnerStep
    <3>1. CASE Reset
      BY <3>1, PointerStagesKept DEF Reset
    <3> QED
      BY <2>1, <3>1, PointerStagesKept DEF OwnerStep
  <2>2. ASSUME NEW c \in Callers, GenerateCall(c) \/ GenerateStep(c) \/ LeaveGenerate(c)
        PROVE  PointerStages'
    BY <2>2, CallersKeepPointers, PointerStagesKept DEF GenerateCall
  <2>3. CASE UNCHANGED backendVars
    BY <2>3, PointerStagesKept DEF backendVars
  <2> QED
    BY <2>1, <2>2, <2>3 DEF SerialNext
<1>3. BackendTypeInv /\ PointerStages => PointersAgree
  BY DEF BackendTypeInv, BackendTypeOK, PointerStages, PointersAgree, OwnerPC
<1> QED
  BY <1>1, <1>2, <1>3, SerialTypes, PTL DEF SerialSpec

-----------------------------------------------------------------------------
(* The backend: callers that wait for each other *)

\* Nothing is claimed about a caller that is not between entry and return.
LEMMA InactiveHolds ==
  ASSUME NEW c \in Callers, ~Active(c)
  PROVE  Holds(c)
BY DEF Active, Holds

\* When every other caller is outside, a move of d leaves it that way.
LEMMA SoleMover ==
  ASSUME BackendTypeInv, NEW d \in Callers, NEW pc, NEW j, MoveTo(d, pc, j),
         \A c \in Callers \ {d} : ~Active(c)
  PROVE  /\ bpc'[d] = pc /\ job'[d] = j
         /\ \A c \in Callers : Active(c)' => c = d
         /\ \A c \in Callers \ {d} : Holds(c)'
<1>1. bpc \in [Callers -> GeneratePC] /\ job \in [Callers -> Job]
  BY DEF BackendTypeInv, BackendTypeOK
<1>2. bpc'[d] = pc /\ job'[d] = j
  BY <1>1 DEF MoveTo
<1>3. ASSUME NEW c \in Callers \ {d} PROVE ~Active(c)'
  BY <1>1, <1>3 DEF MoveTo, Active
<1>4. ASSUME NEW c \in Callers \ {d} PROVE Holds(c)'
  BY <1>3, <1>4 DEF Active, Holds
<1> QED
  BY <1>2, <1>3, <1>4

\* A step of a caller that is alone in generate() with usable pointers keeps its
\* part of the invariant, and never faults.
LEMMA SoleStepKeeps ==
  ASSUME BackendTypeInv, NEW d \in Callers, GenerateStep(d), Holds(d),
         ctx = "valid", model = "valid", ~crashed, \A c \in Callers \ {d} : ~Active(c)
  PROVE  /\ ~crashed'
         /\ Holds(d)'
         /\ \A c \in Callers : Active(c)' => c = d
         /\ \A c \in Callers \ {d} : Holds(c)'
<1>1. Active(d)
  BY DEF GenerateStep, ClearCache, PrefillBatch, Sample, Emit, DecodeToken, Fault, UsesContext,
         Active
<1>2. /\ ctx = "valid" /\ model = "valid"
      /\ \A c \in Callers \ {d} : ~Active(c)
      /\ ~crashed
  OBVIOUS
<1>3. /\ job[d] \in Job
      /\ job[d].prompt \in Nat /\ job[d].made \in Nat /\ job[d].fed \in Nat
  BY DEF BackendTypeInv, BackendTypeOK, Job
<1>4. Holds(d)
  OBVIOUS
<1>5. ASSUME NEW pc, NEW j, MoveTo(d, pc, j)
      PROVE  /\ bpc'[d] = pc /\ job'[d] = j
             /\ \A c \in Callers : Active(c)' => c = d
             /\ \A c \in Callers \ {d} : Holds(c)'
  BY <1>2, <1>5, SoleMover
<1>6. ASSUME NEW why, Finish(d, why), UNCHANGED crashed
      PROVE  /\ ~crashed' /\ Holds(d)'
             /\ \A c \in Callers : Active(c)' => c = d
             /\ \A c \in Callers \ {d} : Holds(c)'
  <2>1. MoveTo(d, "ret", [job[d] EXCEPT !.end = why])
    BY <1>6 DEF Finish
  <2>2. bpc'[d] = "ret"
    BY <2>1, <1>5
  <2> QED
    BY <2>1, <2>2, <1>2, <1>5, <1>6 DEF Holds
<1>7. CASE ClearCache(d)
  <2>1. MoveTo(d, "prefill", job[d]) /\ kv' = << >> /\ bpc[d] = "clear"
    BY <1>7 DEF ClearCache
  <2>2. bpc'[d] = "prefill" /\ job'[d] = job[d]
    BY <2>1, <1>5
  <2>3. job[d].fed = 0 /\ job[d].made = 0 /\ job[d].prompt > 0
    BY <2>1, <1>4 DEF Holds
  <2>4. kv' = Cells(d, 0, 0)
    BY <2>1, CellsEmpty
  <2>5. Cells(d, 0, 0)' = Cells(d, 0, 0)
    BY DEF Cells
  <2>6. Holds(d)'
    BY <2>2, <2>3, <2>4 DEF Holds, Cells
  <2> QED
    BY <2>1, <2>6, <1>2, <1>5, <1>7 DEF ClearCache
<1>8. CASE PrefillBatch(d)
  <2>1. CASE Finish(d, "prefill")
    BY <2>1, <1>6, <1>8 DEF PrefillBatch
  <2>2. CASE /\ Decode(d, job[d].fed, BatchEnd(d))
             /\ MoveTo(d, IF BatchEnd(d) = job[d].prompt THEN "sample" ELSE "prefill",
                       [job[d] EXCEPT !.fed = BatchEnd(d)])
    <3> DEFINE k == [job[d] EXCEPT !.fed = BatchEnd(d)]
               b == BatchEnd(d)
    <3>1. /\ bpc'[d] = IF b = job[d].prompt THEN "sample" ELSE "prefill"
          /\ job'[d] = k
          /\ \A c \in Callers : Active(c)' => c = d
          /\ \A c \in Callers \ {d} : Holds(c)'
      BY <2>2, <1>5
    <3>2. k.fed = b /\ k.prompt = job[d].prompt /\ k.made = job[d].made
      BY <1>3 DEF Job
    <3>3. job[d].made = 0 /\ kv = Cells(d, 0, job[d].fed)
      BY <1>4, <1>8 DEF PrefillBatch, Holds
    <3>4. b \in Nat /\ job[d].fed <= b /\ b <= job[d].prompt
      BY BatchEndBounds
    <3> HIDE DEF k, b
    <3>5. kv' = Cells(d, 0, b) /\ logits' = Cells(d, 0, b)
      <4>1. kv' = Cells(d, 0, job[d].fed) \o Cells(d, job[d].fed, b) /\ logits' = kv'
        BY <2>2, <3>3 DEF Decode, b
      <4>2. 0 \in Nat /\ 0 <= job[d].fed
        BY <1>3
      <4>3. Cells(d, 0, job[d].fed) \o Cells(d, job[d].fed, b) = Cells(d, 0, b)
        BY <4>2, <3>4, <1>3, CellsConcat
      <4> QED
        BY <4>1, <4>3
    <3>6. Holds(d)'
      <4>1. CASE b = job[d].prompt
        <5>1. b = job'[d].prompt + job'[d].made
          BY <4>1, <3>1, <3>2, <3>3, <3>4
        <5>2. job'[d].made = 0
          BY <3>1, <3>2, <3>3
        <5> QED
          <6>1. bpc'[d] = "sample"
            BY <4>1, <3>1
          <6>2. ~LogitsNull(d)'
            BY <5>2 DEF LogitsNull, LogitsRow
          <6> DEFINE m == job'[d].prompt + job'[d].made
          <6>3. Cells(d, 0, b) = Cells(d, 0, m)
            BY <5>1
          <6>4. kv' = Cells(d, 0, m) /\ logits' = Cells(d, 0, m)
            BY <3>5, <6>3
          <6> QED
            BY <6>1, <6>2, <6>4 DEF Holds, Cells
      <4>2. CASE b # job[d].prompt
        BY <4>2, <3>1, <3>2, <3>3, <3>4, <3>5, <1>3 DEF Holds, Cells
      <4> QED
        BY <4>1, <4>2
    <3> QED
      BY <3>1, <3>6, <1>2, <1>8 DEF PrefillBatch
  <2> QED
    BY <2>1, <2>2, <1>8 DEF PrefillBatch
<1>9. CASE Sample(d)
  <2>1. PICK e \in BOOLEAN :
          MoveTo(d, "emit", [job[d] EXCEPT !.from = logits, !.eos = e])
    BY <1>9 DEF Sample
  <2>2. /\ bpc'[d] = "emit" /\ job'[d] = [job[d] EXCEPT !.from = logits, !.eos = e]
        /\ \A c \in Callers : Active(c)' => c = d
        /\ \A c \in Callers \ {d} : Holds(c)'
    BY <2>1, <1>5
  <2>3. /\ job'[d].from = logits /\ job'[d].prompt = job[d].prompt
        /\ job'[d].made = job[d].made
    BY <2>2, <1>3 DEF Job
  <2>4. /\ kv = Cells(d, 0, job[d].prompt + job[d].made)
        /\ logits = Cells(d, 0, job[d].prompt + job[d].made)
    BY <1>4, <1>9 DEF Sample, Holds
  <2>5. kv' = kv
    BY <1>9 DEF Sample, cache
  <2>6. Holds(d)'
    BY <2>2, <2>3, <2>4, <2>5 DEF Holds, Cells
  <2> QED
    BY <2>2, <2>6, <1>2, <1>9 DEF Sample
<1>10. CASE Emit(d)
  <2>1. CASE Finish(d, "limit") \/ Finish(d, "eos")
    BY <2>1, <1>6, <1>10 DEF Emit
  <2>2. CASE MoveTo(d, "decode", [job[d] EXCEPT !.made = @ + 1])
    <3>1. /\ bpc'[d] = "decode" /\ job'[d] = [job[d] EXCEPT !.made = @ + 1]
          /\ \A c \in Callers : Active(c)' => c = d
          /\ \A c \in Callers \ {d} : Holds(c)'
      BY <2>2, <1>5
    <3>2. job'[d].made = job[d].made + 1 /\ job'[d].prompt = job[d].prompt
      BY <3>1, <1>3 DEF Job
    <3>3. kv' = Cells(d, 0, job[d].prompt + job[d].made)
      BY <1>4, <1>10 DEF Emit, Holds, cache
    <3>4. /\ job'[d].made > 0
          /\ job'[d].prompt + job'[d].made - 1 = job[d].prompt + job[d].made
      BY <3>2, <1>3
    <3>5. Holds(d)'
      BY <3>1, <3>3, <3>4 DEF Holds, Cells
    <3> QED
      BY <3>1, <3>5, <1>2, <1>10 DEF Emit
  <2> QED
    BY <2>1, <2>2, <1>10 DEF Emit
<1>11. CASE DecodeToken(d)
  <2>1. CASE Finish(d, "decode")
    BY <2>1, <1>6, <1>11 DEF DecodeToken
  <2>2. CASE /\ Decode(d, TokenPosition(d), TokenPosition(d) + 1)
             /\ MoveTo(d, "sample", job[d])
    <3> DEFINE p == job[d].prompt + job[d].made - 1
    <3>1. /\ bpc'[d] = "sample" /\ job'[d] = job[d]
          /\ \A c \in Callers : Active(c)' => c = d
          /\ \A c \in Callers \ {d} : Holds(c)'
      BY <2>2, <1>5
    <3>2. job[d].made > 0 /\ kv = Cells(d, 0, p)
      BY <1>4, <1>11 DEF DecodeToken, Holds
    <3>3. p \in Nat /\ p + 1 \in Nat /\ p + 1 = job[d].prompt + job[d].made
      BY <3>2, <1>3
    <3>4. kv' = Cells(d, 0, p) \o Cells(d, p, p + 1) /\ logits' = kv'
      BY <2>2, <3>2 DEF Decode, TokenPosition
    <3>8. lastBatch' = 1
      BY <2>2, <3>3 DEF Decode, TokenPosition
    <3> HIDE DEF p
    <3>5. 0 <= p /\ p <= p + 1
      BY <3>3
    <3>6. kv' = Cells(d, 0, p + 1) /\ logits' = Cells(d, 0, p + 1)
      BY <3>3, <3>4, <3>5, CellsConcat
    <3>7. Holds(d)'
      BY <3>1, <3>3, <3>6, <3>8 DEF Holds, Cells, LogitsNull
    <3> QED
      BY <3>1, <3>7, <1>2, <1>11 DEF DecodeToken
  <2> QED
    BY <2>1, <2>2, <1>11 DEF DecodeToken
<1>12. CASE Fault(d)
  <2>1. ~Overlaps(d)
    BY <1>2 DEF Overlaps, UsesContext, Active
  <2>2. bpc[d] = "sample" => ~LogitsNull(d)
    BY <1>4 DEF Holds
  <2> QED
    BY <1>12, <1>2, <2>1, <2>2 DEF Fault
<1> QED
  BY <1>7, <1>8, <1>9, <1>10, <1>11, <1>12 DEF GenerateStep

\* The same for an active caller under the serial invariant.
LEMMA ActiveStepKeeps ==
  ASSUME BackendTypeInv, SerialInv, NEW d \in Callers, GenerateStep(d)
  PROVE  /\ ~crashed'
         /\ Holds(d)'
         /\ \A c \in Callers : Active(c)' => c = d
         /\ \A c \in Callers \ {d} : Holds(c)'
<1>1. Active(d)
  BY DEF GenerateStep, ClearCache, PrefillBatch, Sample, Emit, DecodeToken, Fault, UsesContext,
         Active
<1>2. /\ ctx = "valid" /\ model = "valid" /\ ~crashed /\ Holds(d)
      /\ \A c \in Callers \ {d} : ~Active(c)
  BY <1>1 DEF SerialInv, OneActive, PointerStages, NoFault
<1> QED
  BY <1>2, SoleStepKeeps

\* Lemma: a new backend satisfies the serial invariant.
LEMMA SerialInvInit == BackendInit => SerialInv
<1> SUFFICES ASSUME BackendInit PROVE SerialInv
  OBVIOUS
<1>1. \A c \in Callers : ~Active(c)
  BY DEF BackendInit, Active
<1>2. \A c \in Callers : Holds(c)
  BY <1>1, InactiveHolds
<1> QED
  BY <1>1, <1>2 DEF SerialInv, BackendInit, PointerStages, OneActive, NoFault

\* Steps taken while every caller is outside and that move none of them.
LEMMA QuietKeeps ==
  ASSUME \A c \in Callers : ~Active(c), UNCHANGED frames
  PROVE  /\ \A c \in Callers : ~Active(c)'
         /\ \A c \in Callers : Holds(c)'
BY DEF Active, Holds, frames, LogitsNull, LogitsRow

\* Lemma: every step under the one-at-a-time contract keeps the serial
\* invariant: the owner's by PointerStages, a caller's by Holds.
LEMMA SerialInvKept ==
  ASSUME BackendTypeInv, SerialInv, [SerialNext]_backendVars
  PROVE  SerialInv'
<1>1. CASE OwnerStep /\ ~crashed
  <2>1. UNCHANGED <<crashed, frames>>
    BY <1>1 DEF OwnerStep, LoadModel, LoadNoModel, LoadStep, LoadContext, LoadNoContext,
         LoadDropModel, LoadEnd, LoadForgetModel, Reset, UnloadBegin, UnloadStep,
                UnloadFreeCtx, UnloadNullCtx, UnloadFreeModel, UnloadNullModel, UnloadEnd
  <2>2. /\ \A c \in Callers : ~Active(c)'
        /\ \A c \in Callers : Holds(c)'
    BY <2>1, <1>1, QuietKeeps DEF OwnerStep, Quiet
  <2>3. PointerStages'
    <3>1. PointerStages
      BY DEF SerialInv
    <3>2. CASE Reset
      BY <3>1, <3>2, PointerStagesKept DEF Reset
    <3> QED
      BY <1>1, <3>1, <3>2, PointerStagesKept DEF OwnerStep
  <2> QED
    BY <1>1, <2>1, <2>2, <2>3 DEF SerialInv, OneActive, NoFault
<1>2. ASSUME NEW d \in Callers, ~crashed,
             GenerateCall(d) \/ GenerateStep(d) \/ LeaveGenerate(d)
      PROVE  SerialInv'
  <2>1. UNCHANGED pointers
    BY <1>2, CallersKeepPointers DEF GenerateCall
  <2>2. PointerStages'
    BY <2>1, PointerStagesKept DEF SerialInv
  <2>3. CASE GenerateCall(d)
    <3>1. PICK n \in PromptSizes, m \in TokenLimits : EnterGenerate(d, NewJob(n, m))
      BY <2>3 DEF GenerateCall
    <3>2. opc = "idle" /\ \A c \in Callers : ~Active(c)
      BY <2>3 DEF GenerateCall, Quiet
    <3>3. CASE \E pc \in {"ret", "threw"}, j \in {NewJob(n, m), [NewJob(n, m) EXCEPT !.end = "empty"]} :
                 MoveTo(d, pc, j)
      <4>1. PICK pc \in {"ret", "threw"},
                 j \in {NewJob(n, m), [NewJob(n, m) EXCEPT !.end = "empty"]} : MoveTo(d, pc, j)
        BY <3>3
      <4>2. /\ bpc'[d] = pc
            /\ \A c \in Callers : Active(c)' => c = d
            /\ \A c \in Callers \ {d} : Holds(c)'
        BY <4>1, <3>2, SoleMover
      <4>3. ~Active(d)' /\ Holds(d)'
        BY <4>2 DEF Active, Holds
      <4> QED
        BY <4>2, <4>3, <2>2, <1>2, <3>1 DEF SerialInv, OneActive, NoFault, EnterGenerate
    <3>4. CASE ctx # "null" /\ n > 0 /\ MoveTo(d, "clear", NewJob(n, m))
      <4>1. /\ bpc'[d] = "clear" /\ job'[d] = NewJob(n, m)
            /\ \A c \in Callers : Active(c)' => c = d
            /\ \A c \in Callers \ {d} : Holds(c)'
        BY <3>4, <3>2, SoleMover
      <4>2. Holds(d)'
        BY <4>1, <3>4 DEF Holds, NewJob
      <4>3. opc' = "idle" /\ modelLoaded'
        BY <2>1, <3>2, <3>4 DEF SerialInv, PointerStages, pointers
      <4> QED
        BY <4>1, <4>2, <4>3, <2>2, <1>2, <3>1 DEF SerialInv, OneActive, NoFault, EnterGenerate
    <3> QED
      <4>1. NewJob(n, m).prompt = n
        BY DEF NewJob
      <4> QED
        BY <3>1, <3>3, <3>4, <4>1 DEF EnterGenerate
  <2>4. CASE GenerateStep(d)
    <3>1. /\ ~crashed' /\ Holds(d)'
          /\ \A c \in Callers : Active(c)' => c = d
          /\ \A c \in Callers \ {d} : Holds(c)'
      BY <2>4, ActiveStepKeeps
    <3>2. opc' = "idle" /\ modelLoaded'
      <4>1. Active(d)
        BY <2>4 DEF GenerateStep, ClearCache, PrefillBatch, Sample, Emit, DecodeToken, Fault,
                    UsesContext, Active
      <4> QED
        BY <4>1, <2>1 DEF SerialInv, OneActive, pointers
    <3> QED
      BY <3>1, <3>2, <2>2 DEF SerialInv, OneActive, NoFault
  <2>5. CASE LeaveGenerate(d)
    <3>1. bpc' = [bpc EXCEPT ![d] = "out"] /\ job' = [job EXCEPT ![d] = NoJob]
      BY <2>5 DEF LeaveGenerate, MoveTo
    <3>2. bpc \in [Callers -> GeneratePC] /\ job \in [Callers -> Job]
      BY DEF BackendTypeInv, BackendTypeOK
    <3>3. /\ ~Active(d)' /\ Holds(d)'
      BY <3>1, <3>2 DEF Active, Holds
    <3>4. ASSUME NEW c \in Callers \ {d} PROVE Active(c)' = Active(c) /\ Holds(c)'
      <4>1. bpc'[c] = bpc[c] /\ job'[c] = job[c]
        BY <3>1, <3>2
      <4>2. Holds(c) /\ kv' = kv /\ logits' = logits /\ lastBatch' = lastBatch
        BY <2>5 DEF SerialInv, LeaveGenerate, cache
      <4> QED
        BY <4>1, <4>2 DEF Active, Holds, Cells, LogitsNull, LogitsRow
    <3>5. opc' = opc /\ modelLoaded' = modelLoaded /\ ~crashed'
      BY <2>1, <1>2, <2>5 DEF pointers, LeaveGenerate
    <3> QED
      BY <3>3, <3>4, <3>5, <2>2 DEF SerialInv, OneActive, NoFault
  <2> QED
    BY <1>2, <2>3, <2>4, <2>5
<1>3. CASE UNCHANGED backendVars
  BY <1>3 DEF SerialInv, PointerStages, OneActive, NoFault, Holds, Active, Cells,
              LogitsNull, LogitsRow, backendVars, pointers, cache, frames
<1> QED
  BY <1>1, <1>2, <1>3 DEF SerialNext

\* Lemma: the serial invariant holds for ever, given the types.
LEMMA SerialInvHolds == SerialSpec => []SerialInv
<1>1. BackendTypeInv /\ SerialInv /\ [SerialNext]_backendVars => SerialInv'
  BY SerialInvKept
<1> QED
  BY <1>1, SerialInvInit, SerialTypes, PTL DEF SerialSpec

\* "Reset state for new generation" (llama_backend.cpp:222) is enough when the
\* callers wait for each other: a token is sampled from the caller's own
\* prompt and the tokens generated for it, each once and in order.
THEOREM SerialOwnContext == SerialSpec => []OwnContext
<1>1. SerialInv => OwnContext
  BY DEF SerialInv, Holds, OwnContext
<1> QED
  BY <1>1, SerialInvHolds, PTL

\* No llama_* call of such a caller ever sees a null or freed pointer.
THEOREM SerialNoFault == SerialSpec => []NoFault
<1>1. SerialInv => NoFault
  BY DEF SerialInv
<1> QED
  BY <1>1, SerialInvHolds, PTL

-----------------------------------------------------------------------------
(* The engine: types *)

EngineTypeInv == EngineTypeOK /\ BackendTypeInv

\* Lemma: a call that moves to a well-typed place stays well-typed.
LEMMA CallToTypes ==
  ASSUME EngineTypeInv, NEW c \in Callers, NEW pc \in CallPC, NEW k \in Call,
         CallTo(c, pc, k)
  PROVE  epc' \in [Callers -> CallPC] /\ call' \in [Callers -> Call]
BY DEF EngineTypeInv, EngineTypeOK, CallTo

CallsTyped ==
  epc \in [Callers -> CallPC] /\ call \in [Callers -> Call] /\ company \subseteq Callers

\* Lemma: the same for a move that gives no call company.
LEMMA CallMoveTypes ==
  ASSUME EngineTypeInv, NEW c \in Callers, NEW pc \in CallPC, NEW k \in Call,
         CallMove(c, pc, k)
  PROVE  CallsTyped'
BY CallToTypes DEF CallMove, CallsTyped, EngineTypeInv, EngineTypeOK

\* Lemma: the caller-side variables of a step that leaves them alone.
LEMMA CallsUnchanged ==
  ASSUME EngineTypeInv, UNCHANGED calls
  PROVE  CallsTyped'
BY DEF EngineTypeInv, EngineTypeOK, calls, CallsTyped

\* Lemma: a new engine object is well-typed.
LEMMA EngineInitTypes == EngineInit => EngineTypeInv
<1> SUFFICES ASSUME EngineInit PROVE EngineTypeInv
  OBVIOUS
<1>1. BackendTypeInv
  BY InitTypes DEF EngineInit
<1>2. NoCall \in Call
  BY DEF NoCall, Call, Source, EndReason
<1>3. call \in [Callers -> Call] /\ epc \in [Callers -> CallPC]
  BY <1>2 DEF EngineInit, CallPC
<1> QED
  BY <1>1, <1>3 DEF EngineInit, EngineTypeInv, EngineTypeOK, BackendTypeInv, LifePC, WorkerPC

\* Lemma: start() and stop() keep the types.
LEMMA LifeTypes ==
  ASSUME EngineTypeInv, StartCall \/ StartStep \/ StopCall \/ StopStep
  PROVE  EngineTypeInv'
<1>1. CallsTyped'
  <2>1. CASE UNCHANGED calls
    BY <2>1, CallsUnchanged
  <2>2. CASE UNCHANGED <<epc, call>> /\ company' = company \cup InCalls
    BY <2>2 DEF EngineTypeInv, EngineTypeOK, InCalls, CallsTyped
  <2> QED
    BY <2>1, <2>2
    DEF StartCall, StartStep, StartGpu, StartLoad, StartThreads, StopCall, StopStep,
        StopClearReady, StopNotify, StopJoin, StopUnload, StopGpu
<1>2. BackendTypeInv'
  <2>1. BackendTypeInv
    BY DEF EngineTypeInv
  <2>2. \/ UNCHANGED backendVars
        \/ LoadModel \/ LoadNoModel \/ LoadStep \/ LoadEnd \/ LoadForgetModel
        \/ UnloadBegin \/ UnloadStep \/ UnloadEnd
    BY DEF StartCall, StartStep, StartGpu, StartLoad, StartThreads, StopCall, StopStep,
           StopClearReady, StopNotify, StopJoin, StopUnload, StopGpu
  <2> QED
    BY <2>1, <2>2, StutterTypes, OwnerTypes
<1>3. /\ config' \in Config /\ life' \in LifePC /\ ready' \in BOOLEAN /\ running' \in BOOLEAN
      /\ generating' \in BOOLEAN /\ gpuUp' \in BOOLEAN /\ wpc' \in WorkerPC
  BY DEF EngineTypeInv, EngineTypeOK, LifePC, WorkerPC, StartCall, StartStep, StartGpu,
         GpuInitialize, StartLoad, StartThreads, StopCall, StopStep, StopClearReady,
         StopNotify, StopJoin, StopUnload, StopGpu, GpuShutdown
<1> QED
  BY <1>1, <1>2, <1>3 DEF EngineTypeInv, EngineTypeOK, BackendTypeInv, CallsTyped

\* Lemma: worker_loop() keeps the types.
LEMMA WorkerTypes ==
  ASSUME EngineTypeInv, WorkerStep
  PROVE  EngineTypeInv'
<1>1. UNCHANGED <<backendVars, control, generating, calls>> /\ wpc' \in WorkerPC
  BY DEF WorkerStep, WorkerTop, WorkerCheck, WorkerBlock, WorkerTimeout, WorkerWoken,
         WorkerMove, WorkerPC
<1>2. BackendTypeInv'
  BY <1>1, StutterTypes DEF EngineTypeInv
<1> QED
  BY <1>1, <1>2, CallsUnchanged DEF EngineTypeInv, EngineTypeOK, BackendTypeInv, CallsTyped, control

\* Lemma: cancel_generation() keeps the types, also when its reset() faults.
LEMMA CancelTypes ==
  ASSUME EngineTypeInv, Cancel
  PROVE  EngineTypeInv'
<1>1. /\ UNCHANGED <<control, wpc>> /\ generating' \in BOOLEAN
      /\ UNCHANGED <<epc, call>> /\ company' = company \cup InCalls
  BY DEF Cancel
<1>2. BackendTypeInv'
  <2>1. BackendTypeInv
    BY DEF EngineTypeInv
  <2>2. CASE Reset
    BY <2>1, <2>2, OwnerTypes
  <2>3. CASE crashed' = TRUE /\ UNCHANGED <<pointers, cache, frames>>
    BY <2>1, <2>3, FramesUnchanged DEF BackendTypeInv, BackendTypeOK, pointers, cache
  <2> QED
    BY <2>2, <2>3 DEF Cancel
<1>3. CallsTyped'
  BY <1>1 DEF EngineTypeInv, EngineTypeOK, InCalls, CallsTyped
<1> QED
  BY <1>1, <1>2, <1>3 DEF EngineTypeInv, EngineTypeOK, BackendTypeInv, CallsTyped, control

\* The steps of a caller thread.
CallerStep(c) ==
  \/ CallStep(c) \/ CallerTakesResult(c)
  \/ \E op \in {"generate", "stream"}, n \in PromptSizes, m \in TokenLimits :
       EngineCall(c, op, n, m)

\* Lemma: the caller-side steps keep the types.
LEMMA CallTypes ==
  ASSUME EngineTypeInv, NEW c \in Callers, CallerStep(c)
  PROVE  EngineTypeInv'
<1> DEFINE RestOK == UNCHANGED <<control, wpc>> /\ generating' \in BOOLEAN
<1>0. /\ BackendTypeInv /\ call[c] \in Call /\ generating \in BOOLEAN
      /\ call[c].prompt \in Nat /\ call[c].limit \in Int /\ call[c].told \in Nat
  BY DEF EngineTypeInv, EngineTypeOK, Call
<1>a. ASSUME BackendTypeInv', CallsTyped', RestOK PROVE EngineTypeInv'
  BY <1>a DEF EngineTypeInv, EngineTypeOK, BackendTypeInv, CallsTyped, control
<1>b. ASSUME UNCHANGED backendVars PROVE BackendTypeInv'
  BY <1>0, <1>b, StutterTypes
<1>c. ASSUME crashed' = TRUE, UNCHANGED <<pointers, cache, frames>> PROVE BackendTypeInv'
  BY <1>0, <1>c, FramesUnchanged DEF BackendTypeInv, BackendTypeOK, pointers, cache
<1>d. ASSUME NEW k \in Call, SampledTokens(c, k)
      PROVE  CallsTyped' /\ generating' \in BOOLEAN
  <2>1. PICK pc \in {"decode", "deliver"} : CallMove(c, pc, k)
    BY <1>d DEF SampledTokens
  <2>2. pc \in CallPC
    BY DEF CallPC
  <2> QED
    BY <1>0, <1>d, <2>1, <2>2, CallMoveTypes DEF SampledTokens
<1>e. /\ [call[c] EXCEPT !.origin = "model"] \in Call
      /\ [call[c] EXCEPT !.decoder = Decoder] \in Call
      /\ Told(c) \in Call
  <2>1. Decoder \in Source /\ "model" \in Source
    BY DEF Decoder, Source
  <2>2. call[c].told + 1 \in Nat
    BY <1>0
  <2> DEFINE t == call[c].told + 1
  <2>3. Told(c) = [call[c] EXCEPT !.told = t, !.decoder = Decoder]
    BY DEF Told
  <2> HIDE DEF t
  <2>4. t \in Nat
    BY <2>2 DEF t
  <2> QED
    BY <1>0, <2>1, <2>3, <2>4 DEF Call
<1> HIDE DEF RestOK
<1>1. ASSUME NEW op \in {"generate", "stream"}, NEW n \in PromptSizes, NEW m \in TokenLimits,
             EngineCall(c, op, n, m)
      PROVE  EngineTypeInv'
  <2>1. /\ [NoCall EXCEPT !.op = op] \in Call
        /\ [NoCall EXCEPT !.op = op, !.prompt = n, !.limit = m] \in Call
    <3>1. n \in Nat /\ m \in Int
      BY BackendAssumption
    <3>2. NoCall \in Call
      BY DEF NoCall, Call, Source, EndReason
    <3> QED
      BY <3>1, <3>2 DEF Call
  <2>2. CallsTyped'
    <3>1. CASE CallMove(c, "threw", [NoCall EXCEPT !.op = op])
      BY <2>1, <3>1, CallMoveTypes DEF CallPC
    <3>2. CASE /\ CallTo(c, "tokenize", [NoCall EXCEPT !.op = op, !.prompt = n, !.limit = m])
               /\ company' = Accompanied(c)
      <4>1. epc' \in [Callers -> CallPC] /\ call' \in [Callers -> Call]
        BY <2>1, <3>2, CallToTypes DEF CallPC
      <4>2. company' \subseteq Callers
        BY <3>2 DEF Accompanied, InCalls, EngineTypeInv, EngineTypeOK
      <4> QED
        BY <4>1, <4>2 DEF CallsTyped
    <3> QED
      BY <1>1, <3>1, <3>2 DEF EngineCall
  <2>3. RestOK
    BY <1>0, <1>1 DEF EngineCall, RestOK
  <2> QED
    BY <1>a, <1>b, <1>1, <2>2, <2>3 DEF EngineCall
<1>2. CASE TokenizePrompt(c)
  <2>1. CallsTyped'
    BY <1>0, <1>2, CallMoveTypes DEF TokenizePrompt, AfterTokenize, CallPC
  <2> QED
    BY <1>0, <1>a, <1>b, <1>2, <2>1 DEF TokenizePrompt, RestOK
<1>3. CASE TokenizeModel(c)
  <2>1. PICK n \in {0, call[c].prompt} :
          CallMove(c, AfterTokenize(c), [call[c] EXCEPT !.prompt = n])
    BY <1>3 DEF TokenizeModel, ModelTokens
  <2>2. [call[c] EXCEPT !.prompt = n] \in Call
    BY <1>0 DEF Call
  <2>3. AfterTokenize(c) \in CallPC
    BY DEF AfterTokenize, CallPC
  <2>4. CallsTyped'
    BY <2>1, <2>2, <2>3, CallMoveTypes
  <2> QED
    BY <1>0, <1>a, <1>b, <1>3, <2>4 DEF TokenizeModel, RestOK
<1>4. CASE ChooseStream(c) \/ ChooseSource(c)
  <2>1. CASE EnterGenerate(c, NewJob(call[c].prompt, call[c].limit))
    <3>1. BackendTypeInv'
      BY <1>0, <2>1, EnterTypes
    <3>2. CallsTyped'
      <4>1. bpc' # bpc
        <5>1. bpc \in [Callers -> GeneratePC] /\ bpc[c] = "out"
          BY <1>0, <2>1 DEF BackendTypeInv, BackendTypeOK, EnterGenerate
        <5>2. bpc'[c] # "out"
          BY <2>1, <5>1 DEF EnterGenerate, MoveTo
        <5> QED
          BY <5>1, <5>2
      <4>2. PICK pc \in {"backend", "streaming"} :
              CallMove(c, pc, [call[c] EXCEPT !.origin = "model"])
        BY <1>4, <4>1 DEF ChooseStream, ChooseSource, backendVars, frames
      <4>3. pc \in CallPC
        BY DEF CallPC
      <4> QED
        BY <1>e, <4>2, <4>3, CallMoveTypes
    <3> QED
      BY <1>0, <1>a, <1>4, <3>1, <3>2 DEF ChooseStream, ChooseSource, RestOK
  <2>2. CASE /\ CallMove(c, "choose", call[c]) \/ CallMove(c, "placeholder", call[c])
             /\ UNCHANGED backendVars
    <3>1. CallsTyped'
      BY <1>0, <2>2, CallMoveTypes DEF CallPC
    <3> QED
      BY <1>0, <1>a, <1>b, <1>4, <2>2, <3>1 DEF ChooseStream, ChooseSource, RestOK
  <2> QED
    BY <1>4, <2>1, <2>2 DEF ChooseStream, ChooseSource
<1>5. CASE Placeholder(c)
  <2>1. PICK n \in {0, StubSize} :
          SampledTokens(c, [call[c] EXCEPT !.origin = "stub", !.made = StubTokens(c, n)])
    BY <1>5 DEF Placeholder, ModelTokens
  <2>2. StubTokens(c, n) \in Nat
    BY <1>0, StubAssumption DEF StubTokens
  <2>3. [call[c] EXCEPT !.origin = "stub", !.made = StubTokens(c, n)] \in Call
    BY <1>0, <2>2 DEF Call, Source
  <2>4. CallsTyped' /\ generating' \in BOOLEAN
    BY <1>d, <2>1, <2>3
  <2> QED
    BY <1>a, <1>b, <1>5, <2>4 DEF Placeholder, RestOK
<1>6. CASE GenerateStep(c) /\ UNCHANGED engineOnly
  <2>1. BackendTypeInv'
    BY <1>0, <1>6, GenerateTypes
  <2>2. CallsTyped' /\ RestOK
    BY <1>0, <1>6, CallsUnchanged DEF engineOnly, RestOK
  <2> QED
    BY <1>a, <2>1, <2>2
<1>7. CASE BackendReturns(c)
  <2> DEFINE k == [call[c] EXCEPT !.made = job[c].made, !.end = job[c].end]
  <2>1. BackendTypeInv'
    BY <1>0, <1>7, GenerateTypes DEF BackendReturns
  <2>2. job[c].made \in Nat /\ job[c].end \in EndReason
    BY <1>0 DEF BackendTypeInv, BackendTypeOK, Job
  <2>3. k \in Call
    BY <1>0, <2>2 DEF Call
  <2>4. \/ SampledTokens(c, k)
        \/ CallMove(c, "ret", k) /\ generating' = FALSE
        \/ CallMove(c, "threw", call[c]) /\ UNCHANGED generating
    BY <1>7 DEF BackendReturns
  <2> HIDE DEF k
  <2>5. CallsTyped' /\ generating' \in BOOLEAN
    BY <1>0, <1>d, <2>3, <2>4, CallMoveTypes DEF CallPC
  <2> QED
    BY <1>a, <1>7, <2>1, <2>5 DEF BackendReturns, RestOK
<1>8. CASE StreamToken(c) \/ DeliverToken(c)
  <2>1. PICK pc \in {"streaming", "deliver", "ret"}, k \in {call[c], Told(c)} : CallMove(c, pc, k)
    BY <1>8 DEF StreamToken, DeliverToken
  <2>2. pc \in CallPC /\ k \in Call
    BY <1>0, <1>e DEF CallPC
  <2>3. CallsTyped'
    BY <2>1, <2>2, CallMoveTypes
  <2> QED
    BY <1>0, <1>a, <1>b, <1>8, <2>3 DEF StreamToken, DeliverToken, RestOK
<1>9. CASE DecodeResponse(c) \/ DecodePieces(c)
  <2>1. PICK pc \in {"ret", "pieces"}, k \in {call[c], [call[c] EXCEPT !.decoder = Decoder]} :
          CallMove(c, pc, k)
    BY <1>9 DEF DecodeResponse, DecodePieces
  <2>2. pc \in CallPC /\ k \in Call
    BY <1>0, <1>e DEF CallPC
  <2>3. CallsTyped'
    BY <2>1, <2>2, CallMoveTypes
  <2> QED
    BY <1>0, <1>a, <1>b, <1>9, <2>3 DEF DecodeResponse, DecodePieces, RestOK
<1>10. CASE EngineFault(c)
  <2>1. CallsTyped' /\ RestOK
    BY <1>0, <1>10, CallsUnchanged DEF EngineFault, engineOnly, RestOK
  <2> QED
    BY <1>a, <1>c, <1>10, <2>1 DEF EngineFault
<1>11. CASE CallerTakesResult(c)
  <2>1. NoCall \in Call
    BY DEF NoCall, Call, Source, EndReason
  <2>2. epc' \in [Callers -> CallPC] /\ call' \in [Callers -> Call]
    BY <1>11, <2>1, CallToTypes DEF CallerTakesResult, CallPC
  <2>3. CallsTyped'
    BY <1>11, <2>2 DEF CallerTakesResult, CallsTyped, EngineTypeInv, EngineTypeOK
  <2> QED
    BY <1>0, <1>a, <1>b, <1>11, <2>3 DEF CallerTakesResult, RestOK
<1> QED
  BY <1>1, <1>2, <1>3, <1>4, <1>5, <1>6, <1>7, <1>8, <1>9, <1>10, <1>11
  DEF CallerStep, CallStep

\* Lemma: every step of the engine keeps the types and the bounds of BackendTypeInv.
LEMMA EngineTypesKept ==
  ASSUME EngineTypeInv, [EngineNext]_engineVars
  PROVE  EngineTypeInv'
<1>1. CASE UNCHANGED engineVars
  <2>1. BackendTypeInv'
    BY <1>1, StutterTypes DEF EngineTypeInv, engineVars
  <2> QED
    BY <1>1, <2>1 DEF EngineTypeInv, EngineTypeOK, BackendTypeInv, engineVars, engineOnly,
                      control, calls
<1> QED
  BY <1>1, LifeTypes, WorkerTypes, CancelTypes, CallTypes DEF EngineNext, OwnerStarts, CallerStep

\* Lemma: the types are inductive together with the bounds of BackendTypeInv.
LEMMA EngineTypes == EngineSpec => []EngineTypeInv
<1>1. EngineTypeInv /\ [EngineNext]_engineVars => EngineTypeInv'
  BY EngineTypesKept
<1> QED
  BY <1>1, EngineInitTypes, PTL DEF EngineSpec

\* EngineTypeOK for any number of callers, prompts, limits and context sizes.
THEOREM EngineTypeCorrect == EngineSpec => []EngineTypeOK
<1>1. EngineTypeInv => EngineTypeOK
  BY DEF EngineTypeInv
<1> QED
  BY <1>1, EngineTypes, PTL

-----------------------------------------------------------------------------
(* What start() and stop() guarantee *)

\* Lemma: a new engine object is unloaded, unready and has no worker.
LEMMA EngineInvInit == EngineInit => EngineInv
BY DEF EngineInit, BackendInit, EngineInv, EngineStages, PointerStages, LifeStages, NoModelNoCalls,
       CallStages, InCall, AloneOwnDecoder, AloneNeverFaults, Unloaded

\* Lemma: no caller moves the pointers or the engine's flags.
LEMMA CallersKeepControl ==
  ASSUME NEW c \in Callers, CallerStep(c)
  PROVE  UNCHANGED <<pointers, control, wpc>>
<1>1. CASE \/ TokenizePrompt(c) \/ TokenizeModel(c) \/ ChooseStream(c) \/ ChooseSource(c)
           \/ Placeholder(c) \/ StreamToken(c) \/ DeliverToken(c) \/ DecodeResponse(c)
           \/ DecodePieces(c) \/ EngineFault(c) \/ CallerTakesResult(c)
  BY <1>1 DEF TokenizePrompt, TokenizeModel, ChooseStream, ChooseSource, EnterGenerate,
              Placeholder, StreamToken, DeliverToken, DecodeResponse, DecodePieces, EngineFault,
              CallerTakesResult, engineOnly, backendVars
<1>2. CASE GenerateStep(c) /\ UNCHANGED engineOnly
  BY <1>2, CallersKeepPointers DEF engineOnly
<1>3. CASE BackendReturns(c)
  BY <1>3 DEF BackendReturns, LeaveGenerate
<1>4. CASE \E op \in {"generate", "stream"}, n \in PromptSizes, m \in TokenLimits :
             EngineCall(c, op, n, m)
  BY <1>4 DEF EngineCall, backendVars
<1> QED
  BY <1>1, <1>2, <1>3, <1>4 DEF CallerStep, CallStep

\* Lemma: the place in start() and stop() tells the state of the rest.
LEMMA LifeStagesKept ==
  ASSUME EngineTypeInv, EngineInv, [EngineNext]_engineVars
  PROVE  LifeStages' /\ PointerStages'
<1> USE DEF EngineInv, EngineStages
<1>1. ASSUME UNCHANGED <<pointers, control>>, wpc = "none" => wpc' = "none"
      PROVE  LifeStages' /\ PointerStages'
  BY <1>1 DEF LifeStages, PointerStages, Loaded, Unloaded, pointers, control
<1>2. CASE OwnerStarts \/ StartGpu \/ StartThreads \/ StopCall \/ StopClearReady \/ StopNotify
           \/ StopJoin \/ StopGpu
  <2>1. UNCHANGED backendVars
    BY <1>2 DEF OwnerStarts, StartCall, StartGpu, StartThreads, StopCall, StopClearReady, StopNotify,
                StopJoin, StopGpu
  <2>2. PointerStages'
    BY <2>1 DEF PointerStages, backendVars, pointers
  <2>3. UNCHANGED <<modelLoaded, opc>>
    BY <2>1 DEF backendVars, pointers
  <2>4. CASE OwnerStarts \/ StartGpu \/ StartThreads
    <3>1. LifeStages'
      BY <2>3, <2>4 DEF LifeStages, Loaded, Unloaded, OwnerStarts, StartCall, StartGpu, GpuInitialize,
                        StartThreads, Config, EngineTypeInv, EngineTypeOK
    <3> QED
      BY <2>2, <3>1
  <2>5. CASE StopCall \/ StopClearReady \/ StopNotify \/ StopJoin
    <3>1. LifeStages'
      BY <2>3, <2>5 DEF LifeStages, Loaded, Unloaded, StopCall, StopClearReady, StopNotify,
                        StopJoin
    <3> QED
      BY <2>2, <3>1
  <2>6. CASE StopGpu
    <3>1. /\ life = "gpuDown" /\ life' = "off" /\ UNCHANGED <<config, ready, running, wpc>>
          /\ gpuUp' = FALSE
      BY <2>6 DEF StopGpu, GpuShutdown, LifeStages, EngineTypeInv, EngineTypeOK
    <3>2. LifeStages'
      BY <2>3, <3>1 DEF LifeStages, Loaded, Unloaded
    <3> QED
      BY <2>2, <3>2
  <2> QED
    BY <1>2, <2>4, <2>5, <2>6
<1>3. CASE StartLoad
  <2>1. PointerStages'
    BY <1>3, PointerStagesKept DEF StartLoad, LifeStages, backendVars
  <2>2. LifeStages'
    BY <1>3 DEF StartLoad, LifeStages, PointerStages, Loaded, Unloaded, LoadModel, LoadNoModel,
                LoadStep, LoadContext, LoadNoContext, LoadDropModel, LoadEnd, LoadForgetModel,
                backendVars, pointers, EngineTypeInv, EngineTypeOK, Config
  <2> QED
    BY <2>1, <2>2
<1>4. CASE StopUnload
  <2>1. PointerStages'
    BY <1>4, PointerStagesKept DEF StopUnload, backendVars
  <2>2. life = "unload" /\ UNCHANGED <<config, ready, running, gpuUp, wpc>>
    BY <1>4 DEF StopUnload
  <2>3. CASE (UnloadBegin \/ UnloadStep) /\ UNCHANGED life
    <3>1. modelLoaded /\ UNCHANGED modelLoaded /\ config.model
      BY <2>2, <2>3 DEF LifeStages, Unloaded, UnloadBegin, UnloadStep, UnloadFreeCtx,
                        UnloadNullCtx, UnloadFreeModel, UnloadNullModel
    <3>2. LifeStages'
      BY <2>2, <2>3, <3>1 DEF LifeStages, Loaded, Unloaded
    <3> QED
      BY <2>1, <3>2
  <2>4. CASE UnloadEnd /\ life' = "gpuDown"
    <3>1. ~modelLoaded' /\ opc' = "idle"
      BY <2>4 DEF UnloadEnd
    <3>2. LifeStages'
      BY <2>2, <2>4, <3>1 DEF LifeStages, Loaded, Unloaded
    <3> QED
      BY <2>1, <3>2
  <2>5. CASE ~modelLoaded /\ UNCHANGED backendVars /\ life' = "gpuDown"
    <3>1. ~modelLoaded' /\ opc' = "idle"
      BY <2>2, <2>5 DEF LifeStages, backendVars, pointers
    <3>2. LifeStages'
      BY <2>2, <2>5, <3>1 DEF LifeStages, Loaded, Unloaded
    <3> QED
      BY <2>1, <3>2
  <2> QED
    BY <1>4, <2>3, <2>4, <2>5 DEF StopUnload
<1>5. CASE WorkerStep
  <2>1. UNCHANGED <<pointers, control>> /\ wpc # "none"
    BY <1>5 DEF WorkerStep, WorkerTop, WorkerCheck, WorkerBlock, WorkerTimeout, WorkerWoken,
                WorkerMove, backendVars
  <2> QED
    BY <1>1, <2>1
<1>6. CASE Cancel
  BY <1>1, <1>6 DEF Cancel, Reset
<1>7. ASSUME NEW c \in Callers, CallerStep(c)
      PROVE  LifeStages' /\ PointerStages'
  BY <1>1, <1>7, CallersKeepControl
<1>8. CASE UNCHANGED engineVars
  BY <1>1, <1>8 DEF engineVars, engineOnly, backendVars
<1> QED
  BY <1>2, <1>3, <1>4, <1>5, <1>6, <1>7, <1>8 DEF EngineNext, StartStep, StopStep, CallerStep

\* The steps of the controlling thread and of the worker.
ThreadStep == OwnerStarts \/ StartStep \/ StopCall \/ StopStep \/ WorkerStep

\* Lemma: they leave the calls where they are, and only stop() is company.
LEMMA ThreadsKeepCalls ==
  ASSUME ThreadStep
  PROVE  /\ UNCHANGED <<crashed, frames, epc, call, config>>
         /\ company' = company \/ company' = company \cup InCalls
<1>1. CASE StartLoad \/ StopUnload
  <2>1. UNCHANGED <<crashed, frames>>
    BY <1>1
    DEF StartLoad, StopUnload, backendVars, LoadModel, LoadNoModel, LoadStep, LoadContext,
        LoadNoContext, LoadDropModel, LoadEnd, LoadForgetModel, UnloadBegin, UnloadStep,
        UnloadFreeCtx, UnloadNullCtx, UnloadFreeModel, UnloadNullModel, UnloadEnd
  <2> QED
    BY <1>1, <2>1 DEF StartLoad, StopUnload, calls
<1>2. CASE \/ OwnerStarts \/ StartGpu \/ StartThreads \/ StopCall \/ StopClearReady
           \/ StopNotify \/ StopJoin \/ StopGpu
  BY <1>2 DEF OwnerStarts, StartCall, StartGpu, StartThreads, StopCall, StopClearReady,
              StopNotify, StopJoin, StopGpu, backendVars, calls
<1>3. CASE WorkerStep
  BY <1>3 DEF WorkerStep, WorkerTop, WorkerCheck, WorkerBlock, WorkerTimeout, WorkerWoken,
              WorkerMove, backendVars, control, calls
<1> QED
  BY <1>1, <1>2, <1>3 DEF ThreadStep, StartStep, StopStep

\* Lemma: without a model no caller gets past the tests that look for one.
LEMMA NoModelNoCallsKept ==
  ASSUME EngineTypeInv, EngineInv, [EngineNext]_engineVars
  PROVE  NoModelNoCalls'
<1> DEFINE Deep == {"tokenizeModel", "backend", "streaming", "pieces"}
<1> SUFFICES ASSUME ~config'.model PROVE NoModelNoCalls'
  BY DEF NoModelNoCalls
<1>1. config' = config
  <2>1. CASE ThreadStep
    BY <2>1, ThreadsKeepCalls
  <2>2. CASE Cancel \/ UNCHANGED engineVars
    BY <2>2 DEF Cancel, control, engineVars, engineOnly
  <2> QED
    BY <2>1, <2>2, CallersKeepControl DEF EngineNext, ThreadStep, CallerStep, control
<1>2. /\ model = "null" /\ ctx = "null"
      /\ \A d \in Callers : bpc[d] = "out" /\ epc[d] \notin Deep
  BY <1>1 DEF EngineInv, EngineStages, LifeStages, Unloaded, PointerStages, NoModelNoCalls
<1>3. ASSUME UNCHANGED <<bpc, epc>> PROVE NoModelNoCalls'
  BY <1>2, <1>3 DEF NoModelNoCalls
<1>4. CASE ThreadStep
  BY <1>3, <1>4, ThreadsKeepCalls DEF frames
<1>5. CASE Cancel
  BY <1>3, <1>5 DEF Cancel, Reset, frames
<1>6. CASE UNCHANGED engineVars
  BY <1>3, <1>6 DEF engineVars, engineOnly, backendVars, frames, calls
<1>7. ASSUME NEW c \in Callers, CallerStep(c) PROVE NoModelNoCalls'
  <2>1. /\ ~GenerateStep(c) /\ ~BackendReturns(c) /\ ~TokenizeModel(c) /\ ~DecodePieces(c)
        /\ ~StreamToken(c)
    BY <1>2 DEF GenerateStep, ClearCache, PrefillBatch, Sample, Emit, DecodeToken, Fault,
                UsesContext, BackendReturns, TokenizeModel, DecodePieces, StreamToken, Telling
  <2>2. CASE EngineFault(c)
    BY <1>3, <2>2 DEF EngineFault, frames, engineOnly, calls
  <2>3. ASSUME UNCHANGED bpc,
               NEW pc \in {"idle", "tokenize", "stream", "choose", "placeholder", "decode",
                           "deliver", "ret", "threw"},
               NEW k, CallTo(c, pc, k)
        PROVE  NoModelNoCalls'
    BY <1>2, <2>3 DEF CallTo, NoModelNoCalls, EngineTypeInv, EngineTypeOK
  <2>4. CASE CallerTakesResult(c)
    BY <2>3, <2>4 DEF CallerTakesResult, backendVars, frames
  <2>5. ASSUME NEW op \in {"generate", "stream"}, NEW n \in PromptSizes, NEW m \in TokenLimits,
               EngineCall(c, op, n, m)
        PROVE  NoModelNoCalls'
    BY <2>3, <2>5 DEF EngineCall, CallMove, backendVars, frames
  <2>6. CASE TokenizePrompt(c)
    BY <1>2, <2>3, <2>6 DEF TokenizePrompt, AfterTokenize, CallMove, backendVars, frames
  <2>7. CASE ChooseStream(c)
    BY <1>2, <2>3, <2>7 DEF ChooseStream, CallMove, backendVars, frames
  <2>8. CASE ChooseSource(c)
    BY <1>2, <2>3, <2>8 DEF ChooseSource, CallMove, backendVars, frames
  <2>9. CASE Placeholder(c)
    BY <2>3, <2>9 DEF Placeholder, SampledTokens, CallMove, backendVars, frames
  <2>10. CASE DeliverToken(c)
    BY <2>3, <2>10 DEF DeliverToken, CallMove, backendVars, frames
  <2>11. CASE DecodeResponse(c)
    BY <1>2, <2>3, <2>11 DEF DecodeResponse, CallMove, backendVars, frames
  <2> QED
    BY <1>7, <2>1, <2>2, <2>4, <2>5, <2>6, <2>7, <2>8, <2>9, <2>10, <2>11
    DEF CallerStep, CallStep
<1> QED
  BY <1>4, <1>5, <1>6, <1>7 DEF EngineNext, ThreadStep, CallerStep

\* Lemma: until stop() wakes the worker no pointer a caller looks at is dangling,
\* and none is null where the caller has already found a model.
LEMMA PointersWhileUp ==
  ASSUME EngineStages, life \in {"up", "clearReady"}, NEW c \in Callers
  PROVE  /\ ~EngineFault(c) /\ ctx # "dangling" /\ model # "dangling"
         /\ config.model => ctx = "valid" /\ model = "valid"
         /\ ~config.model => /\ ctx = "null" /\ model = "null" /\ bpc[c] = "out"
                             /\ epc[c] \notin {"backend", "streaming"}
<1>1. CASE config.model
  <2>1. ctx = "valid" /\ model = "valid"
    BY <1>1 DEF EngineStages, LifeStages, Loaded, PointerStages
  <2> QED
    BY <1>1, <2>1 DEF EngineFault
<1>2. CASE ~config.model
  <2>1. /\ ctx = "null" /\ model = "null" /\ bpc[c] = "out"
        /\ epc[c] \notin {"tokenizeModel", "backend", "streaming", "pieces"}
    BY <1>2 DEF EngineStages, LifeStages, Unloaded, PointerStages, NoModelNoCalls
  <2> QED
    BY <1>2, <2>1 DEF EngineFault
<1> QED
  BY <1>1, <1>2

-----------------------------------------------------------------------------
(* A call that is alone in the engine *)

\* What a step of a call keeps for the call itself, while it is alone.
StaysAlone(c) ==
  /\ InCall(c) => /\ Holds(c) /\ call[c].decoder \in {"none", Maker}
                  /\ epc[c] \in {"backend", "streaming", "decode", "pieces", "deliver"} =>
                       call[c].origin = Maker
                  /\ epc[c] = "placeholder" => Maker = "stub"
  /\ epc[c] = "ret" => call[c].decoder \in {"none", call[c].origin}

\* Lemma: the step of a call that is alone does not fault, and keeps all that is
\* known of it: nobody else touches the cache, and the pointers stay.
LEMMA AloneCallStep ==
  ASSUME EngineTypeInv, EngineStages, CallStages, ~crashed,
         NEW c \in Callers \ company, CallStep(c)
  PROVE  ~crashed' /\ StaysAlone(c)'
<1>1. InCall(c)
  BY DEF CallStep, InCall, TokenizePrompt, TokenizeModel, ChooseStream, ChooseSource, Placeholder,
         StreamToken, Telling, BackendReturns, DeliverToken, DecodeResponse, DecodePieces,
         EngineFault
<1>2. /\ life = "up" /\ Holds(c) /\ call[c].decoder \in {"none", Maker}
      /\ epc[c] \in {"backend", "streaming", "decode", "pieces", "deliver"} => call[c].origin = Maker
      /\ epc[c] = "placeholder" => Maker = "stub"
      /\ \A d \in Callers \ {c} : ~InCall(d)
      /\ \A d \in Callers : bpc[d] # "out" => epc[d] \in {"backend", "streaming"}
  BY <1>1 DEF CallStages, Alone
<1>3. /\ ~EngineFault(c)
      /\ config.model => ctx = "valid" /\ model = "valid"
      /\ ~config.model => /\ ctx = "null" /\ model = "null" /\ bpc[c] = "out"
                          /\ epc[c] \notin {"backend", "streaming"}
  BY <1>2, PointersWhileUp
<1>4. UNCHANGED config
  BY CallersKeepControl DEF CallerStep, control
<1>5. /\ epc \in [Callers -> CallPC] /\ call \in [Callers -> Call] /\ call[c] \in Call
      /\ bpc \in [Callers -> GeneratePC] /\ job \in [Callers -> Job]
  BY DEF EngineTypeInv, EngineTypeOK, BackendTypeOK
<1>6. Maker' = Maker /\ Decoder = Maker
  BY <1>3, <1>4 DEF Maker, Decoder
<1>7. ASSUME NEW pc, NEW k, CallMove(c, pc, k)
      PROVE  epc'[c] = pc /\ call'[c] = k
  BY <1>5, <1>7 DEF CallMove, CallTo
<1>8. ASSUME UNCHANGED frames, bpc[c] = "out"
      PROVE  Holds(c)'
  BY <1>8 DEF Holds, frames
<1>9. ASSUME NEW pc, NEW k, CallMove(c, pc, k), Holds(c)',
             k.decoder \in {"none", Maker}, pc = "placeholder" => Maker = "stub",
             pc \in {"backend", "streaming", "decode", "pieces", "deliver", "ret"} =>
               k.origin = Maker
      PROVE  StaysAlone(c)'
  <2>1. epc'[c] = pc /\ call'[c] = k
    BY <1>7, <1>9
  <2> QED
    BY <1>6, <1>9, <2>1 DEF StaysAlone, InCall
<1>10. CASE TokenizePrompt(c) \/ TokenizeModel(c)
  <2>1. UNCHANGED backendVars /\ bpc[c] = "out"
    BY <1>2, <1>10 DEF TokenizePrompt, TokenizeModel
  <2>2. PICK pc \in {"tokenizeModel", "stream", "choose"}, k \in Call :
          CallMove(c, pc, k) /\ k.decoder = call[c].decoder
    <3>1. CASE TokenizePrompt(c)
      BY <1>5, <3>1 DEF TokenizePrompt, AfterTokenize
    <3>2. CASE TokenizeModel(c)
      <4>1. PICK n \in {0, call[c].prompt} :
              CallMove(c, AfterTokenize(c), [call[c] EXCEPT !.prompt = n])
        BY <3>2 DEF TokenizeModel, ModelTokens
      <4>2. /\ [call[c] EXCEPT !.prompt = n] \in Call
            /\ [call[c] EXCEPT !.prompt = n].decoder = call[c].decoder
        BY <1>5 DEF Call
      <4> QED
        BY <4>1, <4>2 DEF AfterTokenize
    <3> QED
      BY <1>10, <3>1, <3>2
  <2>3. Holds(c)'
    BY <1>8, <2>1 DEF backendVars
  <2> QED
    BY <1>2, <1>9, <2>1, <2>2, <2>3 DEF backendVars
<1>11. CASE ChooseStream(c) \/ ChooseSource(c)
  <2>1. bpc[c] = "out" /\ UNCHANGED control
    BY <1>2, <1>11 DEF ChooseStream, ChooseSource
  <2>2. CASE model # "null"
    <3> DEFINE k == [call[c] EXCEPT !.origin = "model"]
               j == NewJob(call[c].prompt, call[c].limit)
    <3>1. PICK pc \in {"backend", "streaming"} : CallMove(c, pc, k)
      BY <1>11, <2>2 DEF ChooseStream, ChooseSource
    <3>2. k.origin = "model" /\ k.decoder = call[c].decoder /\ Maker = "model"
      BY <1>3, <1>5, <2>2 DEF Call, Maker
    <3>3. EnterGenerate(c, j)
      BY <1>11, <2>2 DEF ChooseStream, ChooseSource
    <3>4. Holds(c)'
      <4>1. CASE bpc'[c] # "clear"
        <5>1. bpc'[c] \in {"ret", "threw", "clear"}
          BY <1>5, <3>3 DEF EnterGenerate, MoveTo
        <5> QED
          BY <4>1, <5>1 DEF Holds
      <4>2. CASE bpc'[c] = "clear"
        <5>1. job'[c] = j /\ j.prompt > 0
          BY <1>5, <3>3, <4>2 DEF EnterGenerate, MoveTo
        <5>2. j.fed = 0 /\ j.made = 0
          BY DEF NewJob
        <5> HIDE DEF j
        <5> QED
          BY <4>2, <5>1, <5>2 DEF Holds
      <4> QED
        BY <4>1, <4>2
    <3>5. ~crashed'
      BY <3>3 DEF EnterGenerate
    <3> HIDE DEF k
    <3> QED
      BY <1>2, <1>9, <3>1, <3>2, <3>4, <3>5
  <2>3. CASE model = "null"
    <3>1. UNCHANGED backendVars
      BY <1>11, <2>3 DEF ChooseStream, ChooseSource
    <3>2. PICK pc \in {"choose", "placeholder"} : CallMove(c, pc, call[c])
      BY <1>11, <2>3 DEF ChooseStream, ChooseSource
    <3>3. Holds(c)'
      BY <1>8, <2>1, <3>1 DEF backendVars
    <3>4. Maker = "stub"
      BY <1>3, <2>3 DEF Maker
    <3> QED
      BY <1>2, <1>9, <3>1, <3>2, <3>3, <3>4 DEF backendVars
  <2> QED
    BY <2>2, <2>3
<1>12. ASSUME NEW k, SampledTokens(c, k), Holds(c)', k.decoder \in {"none", Maker}, k.origin = Maker
       PROVE  StaysAlone(c)'
  <2>1. PICK pc \in {"decode", "deliver"} : CallMove(c, pc, k)
    BY <1>12 DEF SampledTokens
  <2> QED
    BY <1>9, <1>12, <2>1
<1>13. CASE Placeholder(c)
  <2>1. UNCHANGED backendVars /\ bpc[c] = "out"
    BY <1>2, <1>13 DEF Placeholder
  <2>2. PICK n : SampledTokens(c, [call[c] EXCEPT !.origin = "stub", !.made = StubTokens(c, n)])
    BY <1>13 DEF Placeholder
  <2> DEFINE k == [call[c] EXCEPT !.origin = "stub", !.made = StubTokens(c, n)]
  <2>3. k.origin = "stub" /\ k.decoder = call[c].decoder
    BY <1>5 DEF Call
  <2>4. SampledTokens(c, k)
    BY <2>2
  <2>5. Holds(c)' /\ Maker = "stub"
    BY <1>2, <1>8, <1>13, <2>1 DEF backendVars, Placeholder
  <2>6. ~crashed'
    BY <2>1 DEF backendVars
  <2> HIDE DEF k
  <2>7. StaysAlone(c)'
    BY <1>2, <1>12, <2>3, <2>4, <2>5
  <2> QED
    BY <2>6, <2>7
<1>14. CASE StreamToken(c) \/ DeliverToken(c)
  <2>1. UNCHANGED backendVars
    BY <1>14 DEF StreamToken, DeliverToken
  <2>2. Holds(c)'
    BY <1>2, <2>1 DEF Holds, LogitsNull, LogitsRow, Cells, backendVars, cache, frames
  <2>3. PICK pc \in {"streaming", "deliver", "ret"}, k \in {call[c], Told(c)} : CallMove(c, pc, k)
    BY <1>14 DEF StreamToken, DeliverToken
  <2>4. /\ Told(c).decoder = Maker /\ Told(c).origin = call[c].origin
        /\ call[c].origin = Maker
    BY <1>2, <1>5, <1>6, <1>14 DEF StreamToken, DeliverToken, Telling, Told, Call
  <2> QED
    BY <1>2, <1>9, <2>1, <2>2, <2>3, <2>4 DEF backendVars
<1>15. CASE epc[c] \in {"backend", "streaming"} /\ GenerateStep(c) /\ UNCHANGED engineOnly
  <2>1. \A d \in Callers \ {c} : ~Active(d)
    BY <1>2 DEF InCall, Active
  <2>2. ~crashed' /\ Holds(c)'
    BY <1>2, <1>3, <1>15, <2>1, SoleStepKeeps DEF EngineTypeInv
  <2>3. epc' = epc /\ call' = call
    BY <1>15 DEF engineOnly, calls
  <2> QED
    BY <1>2, <1>6, <1>15, <2>2, <2>3 DEF StaysAlone, InCall
<1>16. CASE BackendReturns(c)
  <2> DEFINE k == [call[c] EXCEPT !.made = job[c].made, !.end = job[c].end]
  <2>1. bpc'[c] = "out" /\ ~crashed'
    BY <1>5, <1>16 DEF BackendReturns, LeaveGenerate, MoveTo
  <2>2. Holds(c)'
    BY <2>1 DEF Holds
  <2>3. k.origin = call[c].origin /\ k.decoder = call[c].decoder
    BY <1>5 DEF Call
  <2>4. \/ SampledTokens(c, k) \/ CallMove(c, "ret", k) \/ CallMove(c, "threw", call[c])
    BY <1>16 DEF BackendReturns
  <2>5. call[c].origin = Maker
    BY <1>2, <1>16 DEF BackendReturns
  <2> HIDE DEF k
  <2> QED
    BY <1>2, <1>9, <1>12, <2>1, <2>2, <2>3, <2>4, <2>5
<1>17. CASE DecodeResponse(c) \/ DecodePieces(c)
  <2>1. UNCHANGED backendVars /\ bpc[c] = "out" /\ call[c].origin = Maker
    BY <1>2, <1>17 DEF DecodeResponse, DecodePieces
  <2>2. Holds(c)'
    BY <1>8, <2>1 DEF backendVars
  <2> DEFINE k == [call[c] EXCEPT !.decoder = Decoder]
  <2>3. k.decoder = Maker /\ k.origin = Maker
    BY <1>5, <1>6, <2>1 DEF Call
  <2>4. PICK pc \in {"ret", "pieces"}, l \in {call[c], k} : CallMove(c, pc, l)
    BY <1>17 DEF DecodeResponse, DecodePieces
  <2> HIDE DEF k
  <2> QED
    BY <1>2, <1>9, <2>1, <2>2, <2>3, <2>4 DEF backendVars
<1> QED
  BY <1>3, <1>10, <1>11, <1>13, <1>14, <1>15, <1>16, <1>17 DEF CallStep


\* Lemma: a caller's step leaves the other callers where they are.
LEMMA CallerStepsAlone ==
  ASSUME EngineTypeInv, NEW c \in Callers, CallerStep(c), NEW d \in Callers, d # c
  PROVE  epc'[d] = epc[d] /\ call'[d] = call[d] /\ bpc'[d] = bpc[d] /\ job'[d] = job[d]
<1>0. /\ epc \in [Callers -> CallPC] /\ call \in [Callers -> Call]
      /\ bpc \in [Callers -> GeneratePC] /\ job \in [Callers -> Job]
  BY DEF EngineTypeInv, EngineTypeOK, BackendTypeOK
<1>1. ASSUME NEW pc, NEW k, CallTo(c, pc, k)
      PROVE  epc'[d] = epc[d] /\ call'[d] = call[d]
  BY <1>0, <1>1 DEF CallTo
<1>2. ASSUME NEW pc, NEW j, MoveTo(c, pc, j)
      PROVE  bpc'[d] = bpc[d] /\ job'[d] = job[d]
  BY <1>0, <1>2 DEF MoveTo
<1>3. ASSUME NEW pc, NEW k, CallMove(c, pc, k)
      PROVE  epc'[d] = epc[d] /\ call'[d] = call[d]
  BY <1>1, <1>3 DEF CallMove
<1>4. CASE CallerTakesResult(c)
  BY <1>1, <1>4 DEF CallerTakesResult, backendVars, frames
<1>5. ASSUME NEW op, NEW n, NEW m, EngineCall(c, op, n, m)
      PROVE  epc'[d] = epc[d] /\ call'[d] = call[d] /\ bpc'[d] = bpc[d] /\ job'[d] = job[d]
  BY <1>1, <1>3, <1>5 DEF EngineCall, backendVars, frames
<1>6. CASE TokenizePrompt(c) \/ TokenizeModel(c)
  BY <1>3, <1>6 DEF TokenizePrompt, TokenizeModel, backendVars, frames
<1>7. CASE ChooseStream(c) \/ ChooseSource(c)
  <2>1. epc'[d] = epc[d] /\ call'[d] = call[d]
    BY <1>3, <1>7 DEF ChooseStream, ChooseSource
  <2>2. UNCHANGED frames \/ \E j : EnterGenerate(c, j)
    BY <1>7 DEF ChooseStream, ChooseSource, backendVars
  <2> QED
    BY <2>1, <2>2, <1>2 DEF EnterGenerate, frames
<1>8. CASE Placeholder(c) \/ DeliverToken(c)
  BY <1>3, <1>8 DEF Placeholder, DeliverToken, SampledTokens, backendVars, frames
<1>9. CASE StreamToken(c) \/ DecodeResponse(c) \/ DecodePieces(c)
  BY <1>3, <1>9 DEF StreamToken, DecodeResponse, DecodePieces, backendVars, frames
<1>10. CASE GenerateStep(c) /\ UNCHANGED engineOnly
  BY <1>10, <1>2 DEF GenerateStep, ClearCache, PrefillBatch, Sample, Emit, DecodeToken, Fault,
                     Finish, engineOnly, calls, frames
<1>11. CASE BackendReturns(c)
  BY <1>11, <1>2, <1>3 DEF BackendReturns, SampledTokens, LeaveGenerate
<1>12. CASE EngineFault(c)
  BY <1>12 DEF EngineFault, engineOnly, calls, frames
<1> QED
  BY <1>4, <1>5, <1>6, <1>7, <1>8, <1>9, <1>10, <1>11, <1>12 DEF CallerStep, CallStep

\* Lemma: no step of an admitted call gives or takes company.
LEMMA CallStepCompany ==
  ASSUME NEW c \in Callers, CallStep(c)
  PROVE  company' = company
<1>1. CASE GenerateStep(c) /\ UNCHANGED engineOnly
  BY <1>1 DEF engineOnly, calls
<1>2. CASE ~(GenerateStep(c) /\ UNCHANGED engineOnly)
  BY <1>2 DEF CallStep, TokenizePrompt, TokenizeModel, ChooseStream, ChooseSource, Placeholder,
              SampledTokens, StreamToken, BackendReturns, DeliverToken, DecodeResponse,
              DecodePieces, EngineFault, CallMove, engineOnly, calls
<1> QED
  BY <1>1, <1>2

\* A caller has a frame in the backend only while its call is at the backend.
FrameAtBackend(c) == bpc[c] # "out" => epc[c] \in {"backend", "streaming"}

\* Lemma: a caller's step keeps its frames that way.
LEMMA CallerFrames ==
  ASSUME EngineTypeInv, NEW c \in Callers, CallerStep(c), FrameAtBackend(c)
  PROVE  FrameAtBackend(c)'
<1>0. /\ epc \in [Callers -> CallPC] /\ bpc \in [Callers -> GeneratePC]
  BY DEF EngineTypeInv, EngineTypeOK, BackendTypeOK
<1>1. CASE UNCHANGED bpc /\ epc[c] \notin {"backend", "streaming"}
  BY <1>1 DEF FrameAtBackend
<1>2. CASE UNCHANGED <<bpc, epc>>
  BY <1>2 DEF FrameAtBackend
<1>3. CASE \/ CallerTakesResult(c) \/ TokenizePrompt(c) \/ TokenizeModel(c) \/ Placeholder(c)
           \/ DeliverToken(c) \/ DecodeResponse(c) \/ DecodePieces(c)
  BY <1>1, <1>3 DEF CallerTakesResult, TokenizePrompt, TokenizeModel, Placeholder, DeliverToken,
                    DecodeResponse, DecodePieces, backendVars, frames
<1>4. ASSUME NEW op, NEW n, NEW m, EngineCall(c, op, n, m)
      PROVE  FrameAtBackend(c)'
  BY <1>1, <1>4 DEF EngineCall, backendVars, frames
<1>5. CASE ChooseStream(c) \/ ChooseSource(c)
  <2>1. CASE model = "null"
    BY <1>1, <1>5, <2>1 DEF ChooseStream, ChooseSource, backendVars, frames
  <2>2. CASE model # "null"
    BY <1>0, <1>5, <2>2 DEF ChooseStream, ChooseSource, CallMove, CallTo, FrameAtBackend
  <2> QED
    BY <2>1, <2>2
<1>6. CASE StreamToken(c)
  BY <1>0, <1>6 DEF StreamToken, CallMove, CallTo, FrameAtBackend
<1>7. CASE epc[c] \in {"backend", "streaming"} /\ GenerateStep(c) /\ UNCHANGED engineOnly
  BY <1>7 DEF FrameAtBackend, engineOnly, calls
<1>8. CASE BackendReturns(c)
  BY <1>0, <1>8 DEF BackendReturns, LeaveGenerate, MoveTo, FrameAtBackend
<1>9. CASE EngineFault(c)
  BY <1>2, <1>9 DEF EngineFault, engineOnly, calls, frames
<1> QED
  BY <1>3, <1>4, <1>5, <1>6, <1>7, <1>8, <1>9 DEF CallerStep, CallStep

\* Lemma: whatever a caller does, a call without company stays alone in the
\* engine, and only a call with company can fault.
LEMMA CallerKeepsCallStages ==
  ASSUME EngineTypeInv, EngineStages, CallStages, ~crashed, NEW c \in Callers, CallerStep(c)
  PROVE  CallStages' /\ (crashed' => company' # {})
<1> DEFINE Others == \A d \in Callers \ {c} :
                       /\ epc'[d] = epc[d] /\ call'[d] = call[d]
                       /\ bpc'[d] = bpc[d] /\ job'[d] = job[d]
<1>0. Others
  BY CallerStepsAlone
<1>1. \A d \in Callers : bpc'[d] # "out" => epc'[d] \in {"backend", "streaming"}
  BY <1>0, CallerFrames DEF CallStages, FrameAtBackend
<1>2. UNCHANGED control
  BY CallersKeepControl
<1>3. /\ epc \in [Callers -> CallPC] /\ call \in [Callers -> Call] /\ company \subseteq Callers
      /\ bpc \in [Callers -> GeneratePC]
  BY DEF EngineTypeInv, EngineTypeOK, BackendTypeOK
<1>4. ASSUME company' = company, StaysAlone(c)' \/ c \in company, InCall(c)
      PROVE  CallStages'
  <2>1. ASSUME NEW d \in Callers \ company', InCall(d)'
        PROVE  Alone(d)'
    <3>1. CASE d = c
      <4>1. life = "up" /\ \A e \in Callers \ {c} : ~InCall(e)
        BY <1>4, <2>1, <3>1 DEF CallStages, Alone
      <4>2. life' = "up" /\ \A e \in Callers \ {c} : ~InCall(e)'
        BY <1>0, <1>2, <4>1 DEF InCall, control
      <4>3. StaysAlone(c)' /\ InCall(c)'
        BY <1>4, <2>1, <3>1
      <4> QED
        BY <3>1, <4>2, <4>3 DEF StaysAlone, Alone
    <3>2. CASE d # c
      <4>1. InCall(d)
        BY <1>0, <2>1, <3>2 DEF InCall
      <4>2. ~InCall(c)
        BY <1>4, <2>1, <3>2, <4>1 DEF CallStages, Alone
      <4> QED
        BY <1>4, <4>2
    <3> QED
      BY <3>1, <3>2
  <2>2. AloneOwnDecoder'
    <3>1. ASSUME NEW d \in Callers \ company', epc'[d] = "ret"
          PROVE  call'[d].decoder \in {"none", call'[d].origin}
      <4>1. CASE d = c
        BY <1>4, <3>1, <4>1 DEF StaysAlone
      <4>2. CASE d # c
        BY <1>0, <1>4, <3>1, <4>2 DEF CallStages, AloneOwnDecoder
      <4> QED
        BY <4>1, <4>2
    <3> QED
      BY <3>1 DEF AloneOwnDecoder
  <2> QED
    BY <1>1, <2>1, <2>2 DEF CallStages
<1>5. CASE CallStep(c)
  <2>1. company' = company
    BY <1>5, CallStepCompany
  <2>2. InCall(c)
    BY <1>5 DEF CallStep, InCall, TokenizePrompt, TokenizeModel, ChooseStream, ChooseSource,
                Placeholder, StreamToken, Telling, BackendReturns, DeliverToken, DecodeResponse,
                DecodePieces, EngineFault
  <2>3. CASE c \in company
    BY <1>4, <2>1, <2>2, <2>3
  <2>4. CASE c \notin company
    <3>1. ~crashed' /\ StaysAlone(c)'
      BY <1>5, <2>4, AloneCallStep
    <3> QED
      BY <1>4, <2>1, <2>2, <3>1
  <2> QED
    BY <2>3, <2>4
<1>6. CASE CallerTakesResult(c)
  <2>1. /\ epc' = [epc EXCEPT ![c] = "idle"] /\ company' = company \ {c}
        /\ UNCHANGED <<backendVars, control>>
    BY <1>6 DEF CallerTakesResult, CallTo
  <2>2. ASSUME NEW d \in Callers \ company', InCall(d)'
        PROVE  Alone(d)'
    <3>1. d # c
      BY <1>3, <2>1, <2>2 DEF InCall
    <3>2. InCall(d) /\ d \notin company
      BY <1>0, <2>1, <2>2, <3>1 DEF InCall
    <3>3. Alone(d)
      BY <3>2 DEF CallStages
    <3>4. Holds(d)'
      BY <2>1, <3>3 DEF Alone, Holds, LogitsNull, LogitsRow, Cells, backendVars, cache, frames
    <3>5. \A e \in Callers \ {d} : ~InCall(e)'
      <4>1. \A e \in Callers \ {d} : ~InCall(e)
        BY <3>3 DEF Alone
      <4>2. ~InCall(c)'
        BY <1>3, <2>1 DEF InCall
      <4> QED
        BY <1>0, <4>1, <4>2 DEF InCall
    <3> QED
      BY <1>0, <2>1, <3>1, <3>3, <3>4, <3>5 DEF Alone, Maker, control
  <2>3. AloneOwnDecoder'
    BY <1>0, <1>3, <2>1 DEF CallStages, AloneOwnDecoder
  <2>4. ~crashed'
    BY <2>1 DEF backendVars
  <2> QED
    BY <1>1, <2>2, <2>3, <2>4 DEF CallStages
<1>7. ASSUME NEW op, NEW n, NEW m, EngineCall(c, op, n, m)
      PROVE  CallStages' /\ ~crashed'
  <2>1. UNCHANGED backendVars /\ epc[c] = "idle" /\ ~InCall(c) /\ bpc[c] = "out"
    BY <1>7 DEF EngineCall, InCall, CallStages
  <2>2. CASE ~ready
    <3>1. epc'[c] = "threw" /\ company' = company
      BY <1>3, <1>7, <2>2, PointersWhileUp DEF EngineCall, CallMove, CallTo, EngineStages, LifeStages
    <3>2. ASSUME NEW d \in Callers \ company', InCall(d)'
          PROVE  FALSE
      <4>1. d # c /\ InCall(d)
        BY <1>0, <3>1, <3>2 DEF InCall
      <4>2. life = "up"
        BY <3>1, <3>2, <4>1 DEF CallStages, Alone
      <4> QED
        BY <2>2, <4>2 DEF EngineStages, LifeStages
    <3>3. AloneOwnDecoder'
      BY <1>0, <3>1 DEF CallStages, AloneOwnDecoder
    <3> QED
      BY <1>1, <2>1, <3>2, <3>3 DEF CallStages, backendVars
  <2>3. CASE ready
    <3>1. /\ epc' = [epc EXCEPT ![c] = "tokenize"]
          /\ call'[c] = [NoCall EXCEPT !.op = op, !.prompt = n, !.limit = m]
          /\ company' = Accompanied(c)
      BY <1>3, <1>7, <2>3 DEF EngineCall, CallMove, CallTo
    <3>2. epc'[c] = "tokenize" /\ call'[c].decoder = "none"
      BY <1>3, <3>1 DEF NoCall
    <3>3. Holds(c)'
      BY <2>1 DEF Holds, backendVars, frames
    <3>4. ASSUME NEW d \in Callers \ company', InCall(d)'
          PROVE  Alone(d)'
      <4>1. CASE InCalls = {} /\ life = "up"
        <5>1. \A e \in Callers : ~InCall(e)
          BY <4>1 DEF InCalls
        <5>2. d = c
          BY <1>0, <3>4, <5>1 DEF InCall
        <5>3. \A e \in Callers \ {c} : ~InCall(e)'
          BY <1>0, <5>1 DEF InCall
        <5> QED
          BY <1>2, <3>2, <3>3, <4>1, <5>2, <5>3 DEF Alone, control
      <4>2. CASE ~(InCalls = {} /\ life = "up")
        <5>1. company' = company \cup InCalls \cup {c}
          BY <3>1, <4>2 DEF Accompanied
        <5>2. d # c /\ ~InCall(d)
          BY <3>4, <5>1 DEF InCalls
        <5> QED
          BY <1>0, <3>4, <5>2 DEF InCall
      <4> QED
        BY <4>1, <4>2
    <3>5. AloneOwnDecoder'
      <4>1. company \subseteq company'
        BY <3>1 DEF Accompanied
      <4> QED
        BY <1>0, <3>2, <4>1 DEF CallStages, AloneOwnDecoder
    <3> QED
      BY <1>1, <2>1, <3>4, <3>5 DEF CallStages, backendVars
  <2> QED
    BY <2>2, <2>3
<1> QED
  BY <1>5, <1>6, <1>7 DEF CallerStep

\* Lemma: start() never runs beside a call without company, and stop() gives
\* company to every call it finds.
LEMMA ThreadsKeepCallStages ==
  ASSUME EngineTypeInv, EngineStages, CallStages, ThreadStep
  PROVE  CallStages'
<1>1. /\ UNCHANGED <<crashed, frames, epc, call, config>>
      /\ company' = company \/ company' = company \cup InCalls
  BY ThreadsKeepCalls
<1>2. \A d \in Callers : bpc'[d] # "out" => epc'[d] \in {"backend", "streaming"}
  BY <1>1 DEF CallStages, frames
<1>3. AloneOwnDecoder'
  BY <1>1 DEF CallStages, AloneOwnDecoder
<1>4. ASSUME NEW d \in Callers \ company', InCall(d)'
      PROVE  Alone(d)'
  <2>1. InCall(d) /\ d \notin company
    BY <1>1, <1>4 DEF InCall
  <2>2. Alone(d)
    BY <2>1 DEF CallStages
  <2>3. company' # company \cup InCalls
    BY <1>4, <2>1 DEF InCalls
  <2>4. life = "up"
    BY <2>2 DEF Alone
  <2>5. WorkerStep
    BY <2>3, <2>4 DEF ThreadStep, OwnerStarts, StartStep, StartGpu, StartLoad, StartThreads,
                      StopCall, StopStep, StopClearReady, StopNotify, StopJoin, StopUnload, StopGpu
  <2>6. UNCHANGED <<backendVars, control, calls>>
    BY <2>5 DEF WorkerStep, WorkerTop, WorkerCheck, WorkerBlock, WorkerTimeout, WorkerWoken,
                WorkerMove
  <2>7. Holds(d)'
    BY <2>2, <2>6 DEF Alone, Holds, LogitsNull, LogitsRow, Cells, backendVars, cache, frames
  <2> QED
    BY <2>2, <2>6, <2>7 DEF Alone, InCall, Maker, control, calls
<1> QED
  BY <1>2, <1>3, <1>4 DEF CallStages

\* Lemma: so does cancel_generation(), which faults only beside a call that is
\* in the cache or after a stop().
LEMMA CancelKeepsCallStages ==
  ASSUME EngineTypeInv, EngineStages, CallStages, ~crashed, Cancel
  PROVE  CallStages' /\ (crashed' => company' # {} \/ ~ready')
<1>1. /\ company' = company \cup InCalls /\ UNCHANGED <<frames, epc, call, control>>
  BY DEF Cancel, Reset
<1>2. ASSUME NEW d \in Callers \ company' PROVE ~InCall(d)'
  BY <1>1, <1>2 DEF InCalls, InCall
<1>3. CallStages'
  BY <1>1, <1>2 DEF CallStages, AloneOwnDecoder, frames
<1>4. ASSUME crashed', ready PROVE company' # {}
  <2>1. ctx # "dangling"
    BY <1>4 DEF EngineStages, LifeStages, Loaded, Unloaded, PointerStages
  <2>2. PICK d \in Callers : ChangesContext(d)
    BY <1>4, <2>1 DEF Cancel, Reset
  <2>3. InCall(d)
    BY <2>2 DEF ChangesContext, CallStages, InCall
  <2> QED
    BY <1>1, <2>3 DEF InCalls
<1> QED
  BY <1>1, <1>3, <1>4 DEF control

\* Lemma: a step that leaves the engine alone keeps what is known of the calls.
LEMMA StutterKeepsCallStages ==
  ASSUME CallStages, UNCHANGED <<cache, frames, engineOnly>>
  PROVE  CallStages'
BY DEF CallStages, Alone, InCall, Holds, LogitsNull, LogitsRow, Cells, Maker, AloneOwnDecoder,
       engineOnly, control, calls, cache, frames

\* Lemma: the stages of the pointers, of start() and stop() and of the calls are
\* inductive, and together they keep faults away from a call that is alone.
LEMMA EngineInvKept ==
  ASSUME EngineTypeInv, EngineInv, [EngineNext]_engineVars
  PROVE  EngineInv'
<1>0. EngineStages /\ CallStages /\ AloneNeverFaults
  BY DEF EngineInv
<1>1. EngineStages'
  BY LifeStagesKept, NoModelNoCallsKept DEF EngineStages
<1>2. CASE ThreadStep /\ ~crashed
  BY <1>0, <1>1, <1>2, ThreadsKeepCallStages, ThreadsKeepCalls DEF EngineInv, AloneNeverFaults
<1>3. ASSUME NEW c \in Callers, CallerStep(c), ~crashed PROVE EngineInv'
  BY <1>0, <1>1, <1>3, CallerKeepsCallStages DEF EngineInv, AloneNeverFaults
<1>4. CASE Cancel /\ ~crashed
  BY <1>0, <1>1, <1>4, CancelKeepsCallStages DEF EngineInv, AloneNeverFaults
<1>5. CASE UNCHANGED engineVars
  <2>1. AloneNeverFaults'
    BY <1>0, <1>5 DEF AloneNeverFaults, engineVars, engineOnly, control, calls, backendVars
  <2>2. CallStages'
    BY <1>0, <1>5, StutterKeepsCallStages DEF engineVars, backendVars
  <2> QED
    BY <1>1, <2>1, <2>2 DEF EngineInv
<1> QED
  BY <1>2, <1>3, <1>4, <1>5 DEF EngineNext, ThreadStep, CallerStep

\* Lemma: so EngineInv holds of every engine.
LEMMA EngineInvHolds == EngineSpec => []EngineInv
<1>1. EngineTypeInv /\ EngineInv /\ [EngineNext]_engineVars => EngineInv'
  BY EngineInvKept
<1> QED
  BY <1>1, EngineTypes, EngineInvInit, PTL DEF EngineSpec

\* While callers are admitted the configured model is usable, over failed
\* starts and restarts, whatever callers and cancels do.
THEOREM EngineReadyMeansLoaded == EngineSpec => []ReadyMeansLoaded
<1>1. EngineInv => ReadyMeansLoaded
  BY DEF EngineInv, EngineStages, LifeStages, Loaded, PointerStages, ReadyMeansLoaded
<1> QED
  BY <1>1, EngineInvHolds, PTL

\* A stop() that returned, of an engine that was up or of one whose start()
\* failed, left no thread, flag, model, context or dead pointer.
THEOREM EngineStoppedMeansReleased == EngineSpec => []StoppedMeansReleased
<1>1. EngineTypeInv /\ EngineInv => StoppedMeansReleased
  BY DEF EngineInv, EngineStages, EngineTypeInv, EngineTypeOK, LifeStages, Unloaded, PointerStages,
         StoppedMeansReleased
<1> QED
  BY <1>1, EngineTypes, EngineInvHolds, PTL

\* Whatever the engine went through, a fault needs a call with another call, a
\* cancel or a stop beside it, or a stop under way.
THEOREM EngineAloneNeverFaults == EngineSpec => []AloneNeverFaults
<1>1. EngineInv => AloneNeverFaults
  BY DEF EngineInv
<1> QED
  BY <1>1, EngineInvHolds, PTL

\* A call without company samples from its own sequence, whatever earlier calls
\* left in the cache.
THEOREM EngineAloneOwnContext == EngineSpec => []AloneOwnContext
<1>1. EngineInv => AloneOwnContext
  <2> SUFFICES ASSUME EngineInv, NEW c \in Callers \ company, bpc[c] = "emit"
               PROVE  job[c].from = Cells(c, 0, job[c].prompt + job[c].made)
    BY DEF AloneOwnContext
  <2>1. InCall(c)
    BY DEF EngineInv, CallStages, InCall
  <2>2. Holds(c)
    BY <2>1 DEF EngineInv, CallStages, Alone
  <2> QED
    BY <2>2 DEF Holds
<1> QED
  BY <1>1, EngineInvHolds, PTL

\* And the party that made its tokens is the one that turns them into text.
THEOREM EngineAloneOwnDecoder == EngineSpec => []AloneOwnDecoder
<1>1. EngineInv => AloneOwnDecoder
  BY DEF EngineInv, CallStages
<1> QED
  BY <1>1, EngineInvHolds, PTL

=============================================================================
