------------------------------- MODULE Sampler -------------------------------
(***************************************************************************)
(* The sampling part of src/engine/llama_backend.cpp.  A logit counts only *)
(* through its order and its share of the probability, so a token has a    *)
(* weight: exp() of its logit after the temperature, 0 for -infinity.  The *)
(* threshold top_p is p / PSteps.  Tokens and ranks both start at 0, as    *)
(* the indices of the code do.  Sums are exact here, floats in the code.   *)
(***************************************************************************)
EXTENDS Integers, FiniteSets, FiniteSetsExt

CONSTANTS NVocab,    \* llama_n_vocab()
          Weights,   \* weights of single tokens
          PSteps     \* the grain of top_p

ASSUME SamplerAssumption == NVocab \in Nat \ {0} /\ Weights \subseteq Nat \ {0} /\ PSteps \in Nat \ {0}

Token == 0..(NVocab - 1)

VARIABLES spl,       \* where sample_token() is
          logits,    \* logits, as weights
          weight,    \* logits_copy, likewise
          topK, topP,
          indices,   \* tokens by rank
          probs,     \* probabilities by rank, not yet divided by their sum
          cutAt,     \* the rank at which the loop of top-p stops, NVocab if none
          sampled

samplerVars == <<spl, logits, weight, topK, topP, indices, probs, cutAt, sampled>>

ById == [t \in Token |-> t]
Zero == [t \in Token |-> 0]

SamplerInit ==
  /\ spl = "idle" /\ logits = Zero /\ weight = Zero /\ topK = 0 /\ topP = 0
  /\ indices = ById /\ probs = Zero /\ cutAt = NVocab /\ sampled = 0

Descending(order, w) == \A r, s \in Token : r < s => w[order[r]] >= w[order[s]]
Orders == {f \in [Token -> Token] : \A r, s \in Token : r # s => f[r] # f[s]}
WeightOf(R, f) == MapThenSumSet(LAMBDA r : f[r], R)

\* A temperature of zero, or hardly more, takes the first of the largest.
SampleGreedy ==
  CHOOSE t \in Token : \A u \in Token : logits'[u] <= logits'[t] /\ (u < t => logits'[u] < logits'[t])

SampleToken(greedy, k, p) ==
  /\ spl = "idle"
  /\ logits' \in [Token -> Weights] /\ weight' = logits' /\ topK' = k /\ topP' = p
  /\ IF greedy THEN spl' = "greedy" /\ sampled' = SampleGreedy
               ELSE spl' = "topK" /\ UNCHANGED sampled
  /\ UNCHANGED <<indices, probs, cutAt>>

\* apply_top_k(): k tokens of the largest weights survive; ties go either way.
Survivors_Smallest ==
  {S \in SUBSET Token : Cardinality(S) = topK /\ \A t \in S, u \in Token \ S : weight[t] <= weight[u]}
Survivors_OneMore ==
  {S \in SUBSET Token : Cardinality(S) = topK + 1 /\ \A t \in S, u \in Token \ S : weight[t] >= weight[u]}
Survivors ==
  {S \in SUBSET Token : Cardinality(S) = topK /\ \A t \in S, u \in Token \ S : weight[t] >= weight[u]}

ApplyTopK ==
  /\ spl = "topK" /\ spl' = "sort"
  /\ IF topK > 0 /\ topK < NVocab
     THEN \E S \in Survivors : weight' = [t \in Token |-> IF t \in S THEN weight[t] ELSE 0]
     ELSE UNCHANGED weight
  /\ UNCHANGED <<logits, topK, topP, indices, probs, cutAt, sampled>>

\* sample_top_p(): the order, which std::sort may choose among equals, and the
\* probabilities in that order.
SortTokens ==
  /\ spl = "sort" /\ spl' = "cut"
  /\ indices' \in {f \in Orders : Descending(f, weight)}
  /\ probs' = [r \in Token |-> weight[indices'[r]]]
  /\ UNCHANGED <<logits, weight, topK, topP, cutAt, sampled>>

\* The first rank at which the sum so far reaches top_p ends the nucleus.  The
\* loop then clears probs at the tokens of the later ranks, not at the ranks.
Cleared(r) == {indices[s] : s \in {s \in Token : s > r}}

CutTail ==
  /\ spl = "cut" /\ spl' = "draw"
  /\ LET reached == {r \in Token : WeightOf(0..r, probs) * PSteps >= topP * WeightOf(Token, probs)}
     IN  IF reached = {} THEN UNCHANGED <<probs, cutAt>>
         ELSE /\ cutAt' = Min(reached)
              /\ probs' = [r \in Token |-> IF r \in Cleared(Min(reached)) THEN 0 ELSE probs[r]]
  /\ UNCHANGED <<logits, weight, topK, topP, indices, sampled>>

\* A distribution of which all weights are zero is undefined: any rank.
Drawable == LET positive == {r \in Token : probs[r] > 0}
            IN  IF positive = {} THEN Token ELSE positive

DrawToken ==
  /\ spl = "draw" /\ spl' = "sampled"
  /\ \E r \in Drawable : sampled' = indices[r]
  /\ UNCHANGED <<logits, weight, topK, topP, indices, probs, cutAt>>

TakeSample ==
  /\ spl \in {"greedy", "sampled"} /\ spl' = "idle"
  /\ logits' = Zero /\ weight' = Zero /\ topK' = 0 /\ topP' = 0 /\ indices' = ById /\ probs' = Zero
  /\ cutAt' = NVocab /\ sampled' = 0

SamplerNext ==
  \/ \E greedy \in BOOLEAN, k \in -1..(NVocab + 1), p \in 0..PSteps : SampleToken(greedy, k, p)
  \/ ApplyTopK \/ SortTokens \/ CutTail \/ DrawToken \/ TakeSample

SamplerSpec == SamplerInit /\ [][SamplerNext]_samplerVars

-----------------------------------------------------------------------------
(* Properties *)

SamplerTypeOK ==
  /\ spl \in {"idle", "greedy", "topK", "sort", "cut", "draw", "sampled"}
  /\ logits \in [Token -> Nat] /\ weight \in [Token -> Nat]
  /\ probs \in [Token -> Nat] /\ indices \in Orders
  /\ cutAt \in 0..NVocab /\ sampled \in Token

\* After top-k and the sort, the first k ranks hold tokens with the k largest
\* logits and nothing else can be drawn, however ties were ordered.
TopKKeepsLargest ==
  spl = "cut" /\ topK \in 1..NVocab =>
    \A r \in Token : /\ probs[r] > 0 <=> r < topK
                     /\ r < topK => \A s \in Token : s >= topK => logits[indices[r]] >= logits[indices[s]]

\* The token returned has one of the k largest logits, unless top-p cleared
\* every weight and the distribution is undefined; a greedy one has the largest.
SampledSurvives ==
  LET better == {t \in Token : logits[t] > logits[sampled]}
  IN  /\ spl = "sampled" /\ topK > 0 /\ (\E r \in Token : probs[r] > 0) => Cardinality(better) < topK
      /\ spl = "greedy" => better = {}

\* "Set all remaining to -inf" (llama_backend.cpp:460): no token behind the rank
\* at which the sum reached top_p is sampled.
SampledInNucleus ==
  spl = "sampled" /\ cutAt < NVocab => \E r \in 0..cutAt : sampled = indices[r]

-----------------------------------------------------------------------------
(* What makes them inductive *)

\* Every logit is finite, and top-k starts from the logits as they are.
LogitsPositive ==
  /\ topK \in Int
  /\ spl # "idle" => \A t \in Token : logits[t] > 0
  /\ spl = "topK" => weight = logits

\* From top-k on the tokens that still weigh anything are the min(k, NVocab)
\* largest, with the weight of their logits.
Kept == {t \in Token : weight[t] > 0}
KeptAreLargest ==
  spl \in {"sort", "cut", "draw", "sampled"} =>
    /\ \A t \in Kept : weight[t] = logits[t] /\ \A u \in Token \ Kept : logits[t] >= logits[u]
    /\ topK > 0 => Cardinality(Kept) = IF topK < NVocab THEN topK ELSE NVocab

\* The sort sets the weights out by rank; the cut only takes ranks away, and
\* what is drawn was left.
RanksFollowWeights ==
  /\ spl = "cut" => Descending(indices, weight) /\ \A r \in Token : probs[r] = weight[indices[r]]
  /\ spl \in {"draw", "sampled"} => \A r \in Token : probs[r] > 0 => indices[r] \in Kept
  /\ spl = "sampled" /\ (\E r \in Token : probs[r] > 0) => sampled \in Kept
  /\ spl = "greedy" => \A t \in Token : logits[t] <= logits[sampled]

SamplerInv == LogitsPositive /\ KeptAreLargest /\ RanksFollowWeights

=============================================================================
