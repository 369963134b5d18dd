---------------------------- MODULE Tokens_proofs ----------------------------
(***************************************************************************)
(* Proofs about tokens: the sampler draws one of the k largest, encoding   *)
(* merges every word to the end, and loading a vocabulary file twice is    *)
(* loading it once.  The least number of a set stands in for induction.    *)
(***************************************************************************)
EXTENDS Sampler, Tokenizer, SequenceLemmas

-----------------------------------------------------------------------------
(* Tokens of the sampler *)

\* Tokens are finitely many naturals, and there is one.
LEMMA TokensFinite ==
  /\ Token \subseteq Nat /\ 0 \in Token
  /\ IsFiniteSet(Token) /\ Cardinality(Token) = NVocab
<1>1. NVocab - 1 \in Int /\ 0 \in Int /\ ~(0 > NVocab - 1) /\ NVocab - 1 - 0 + 1 = NVocab
  BY SamplerAssumption
<1>2. IsFiniteSet(0..(NVocab - 1)) /\ Cardinality(0..(NVocab - 1)) = NVocab
  BY <1>1, FS_Interval
<1> QED
  BY <1>2, SamplerAssumption DEF Token

\* Some token is the first with the largest weight.
LEMMA FirstLargestExists ==
  ASSUME NEW f \in [Token -> Nat]
  PROVE  \E t \in Token : \A u \in Token : f[u] <= f[t] /\ (u < t => f[u] < f[t])
<1> DEFINE Upto(n) == \E t \in 0..n : \A u \in 0..n : f[u] <= f[t] /\ (u < t => f[u] < f[t])
           Failing == {n \in Token : ~Upto(n)}
<1>1. Failing = {}
  <2>1. SUFFICES ASSUME Failing # {} PROVE FALSE
    OBVIOUS
  <2>2. PICK m \in Failing : \A n \in Failing : m <= n
    BY <2>1, LeastNumber, TokensFinite
  <2>3. CASE m = 0
    <3>1. 0..0 = {0} /\ f[0] \in Nat
      BY TokensFinite
    <3>2. Upto(0)
      BY <3>1
    <3> QED
      BY <2>2, <2>3, <3>2
  <2>4. CASE m > 0
    <3>1. m - 1 \in Token /\ m \in Token /\ m - 1 < m /\ 0..m \subseteq Token
      BY <2>2, <2>4, SamplerAssumption DEF Token
    <3>2. Upto(m - 1)
      <4>1. ~(m <= m - 1)
        BY <3>1, TokensFinite
      <4>2. m - 1 \notin Failing
        BY <2>2, <4>1
      <4> HIDE DEF Upto
      <4> QED
        BY <3>1, <4>2
    <3>3. PICK t \in 0..(m - 1) : \A u \in 0..(m - 1) : f[u] <= f[t] /\ (u < t => f[u] < f[t])
      BY <3>2
    <3>4. \A u \in 0..m : u \in 0..(m - 1) \/ u = m
      BY <3>1 DEF Token
    <3>5. t \in 0..m /\ m \in 0..m /\ t < m /\ \A u \in 0..m : f[u] \in Nat
      BY <3>1, <3>3 DEF Token
    <3>6. CASE f[m] > f[t]
      <4>1. \A u \in 0..m : f[u] <= f[m] /\ (u < m => f[u] < f[m])
        BY <3>3, <3>4, <3>5, <3>6
      <4> QED
        BY <2>2, <3>5, <4>1
    <3>7. CASE f[m] <= f[t]
      <4>1. \A u \in 0..m : f[u] <= f[t] /\ (u < t => f[u] < f[t])
        BY <3>3, <3>4, <3>5, <3>7
      <4> QED
        BY <2>2, <3>5, <4>1
    <3> QED
      BY <3>5, <3>6, <3>7
  <2> QED
    BY <2>2, <2>3, <2>4, TokensFinite
<1>2. NVocab - 1 \in Token /\ 0..(NVocab - 1) = Token
  BY SamplerAssumption DEF Token
<1>3. Upto(NVocab - 1)
  BY <1>1, <1>2
<1> QED
  BY <1>2, <1>3

\* Ranks that reach down to 0 without a gap are the first ones.
LEMMA RanksFromZero ==
  ASSUME NEW P \in SUBSET Token, \A r, s \in Token : r < s /\ s \in P => r \in P
  PROVE  P = 0..(Cardinality(P) - 1)
<1>1. CASE P = Token
  BY <1>1, TokensFinite DEF Token
<1>2. CASE P # Token
  <2>1. PICK m \in Token \ P : \A n \in Token \ P : m <= n
    BY <1>2, LeastNumber, TokensFinite
  <2>2. P = 0..(m - 1)
    <3>1. \A r \in Token : r \notin P <=> m <= r
      <4>1. \A r \in Token : m < r => r \notin P
        BY <2>1
      <4> QED
        BY <2>1, <4>1, TokensFinite
    <3>2. \A r : r \in 0..(m - 1) <=> r \in Token /\ ~(m <= r)
      BY <2>1, SamplerAssumption DEF Token
    <3> QED
      BY <3>1, <3>2
  <2>3. Cardinality(0..(m - 1)) = m
    <3>1. m - 1 \in Int /\ 0 \in Int /\ m \in Nat
      BY <2>1, TokensFinite
    <3>2. Cardinality(0..(m - 1)) = IF 0 > m - 1 THEN 0 ELSE m - 1 - 0 + 1
      BY <3>1, FS_Interval
    <3> QED
      BY <3>1, <3>2
  <2> QED
    BY <2>2, <2>3
<1> QED
  BY <1>1, <1>2

\* An order of the tokens has as many ranks in a set of tokens as there are.
LEMMA OrderKeepsCount ==
  ASSUME NEW f \in Orders, NEW S \in SUBSET Token
  PROVE  Cardinality({r \in Token : f[r] \in S}) = Cardinality(S)
<1> DEFINE R == {r \in Token : f[r] \in S}
           g == [r \in R |-> f[r]]
<1>1. f \in Injection(Token, Token)
  BY DEF Orders, Injection, IsInjective
<1>2. f \in Surjection(Token, Token)
  BY <1>1, FS_Injection, TokensFinite
<1>3. g \in Injection(R, S)
  BY DEF Orders, Injection, IsInjective
<1>4. g \in Surjection(R, S)
  BY <1>2 DEF Surjection
<1>5. IsFiniteSet(S)
  BY FS_Subset, TokensFinite
<1> HIDE DEF R, g
<1>6. Cardinality(R) = Cardinality(S)
  BY <1>3, <1>4, <1>5, FS_Injection
<1> QED
  BY <1>6 DEF R

-----------------------------------------------------------------------------
(* Types *)

\* A call is given weights, an order and a token at the start.
LEMMA SamplerInitTypes ==
  ASSUME SamplerInit
  PROVE  SamplerTypeOK
<1>1. ById \in Orders /\ Zero \in [Token -> Nat]
  BY TokensFinite DEF ById, Zero, Orders
<1> QED
  BY <1>1, TokensFinite, SamplerAssumption DEF SamplerInit, SamplerTypeOK

\* Every step keeps the types; a greedy sample exists because some token is the
\* first of the largest.
LEMMA SamplerTypesKept ==
  ASSUME SamplerTypeOK, [SamplerNext]_samplerVars
  PROVE  SamplerTypeOK'
<1> USE DEF SamplerTypeOK
<1>0. ById \in Orders /\ Zero \in [Token -> Nat] /\ 0 \in Token /\ NVocab \in 0..NVocab
  BY TokensFinite, SamplerAssumption DEF ById, Zero, Orders
<1>1. ASSUME NEW greedy \in BOOLEAN, NEW k \in -1..(NVocab + 1), NEW p \in 0..PSteps,
             SampleToken(greedy, k, p)
      PROVE  SamplerTypeOK'
  <2>1. logits' \in [Token -> Nat] /\ weight' \in [Token -> Nat]
    BY <1>1, SamplerAssumption DEF SampleToken
  <2>2. \E t \in Token : \A u \in Token : logits'[u] <= logits'[t] /\ (u < t => logits'[u] < logits'[t])
    BY <2>1, FirstLargestExists
  <2>3. SampleGreedy \in Token
    BY <2>2 DEF SampleGreedy
  <2> QED
    BY <1>1, <2>1, <2>3 DEF SampleToken
<1>2. CASE ApplyTopK
  <2>1. weight' \in [Token -> Nat]
    <3>1. CASE topK > 0 /\ topK < NVocab
      <4>1. PICK S \in Survivors : weight' = [t \in Token |-> IF t \in S THEN weight[t] ELSE 0]
        BY <1>2, <3>1 DEF ApplyTopK
      <4> QED
        BY <4>1
    <3> QED
      BY <1>2, <3>1 DEF ApplyTopK
  <2> QED
    BY <1>2, <2>1 DEF ApplyTopK
<1>3. CASE SortTokens
  <2>1. indices' \in Orders /\ indices' \in [Token -> Token]
    BY <1>3 DEF SortTokens, Orders
  <2>2. probs' \in [Token -> Nat]
    BY <1>3, <2>1 DEF SortTokens
  <2> QED
    BY <1>3, <2>1, <2>2 DEF SortTokens
<1>4. CASE CutTail
  <2> DEFINE reached == {r \in Token : WeightOf(0..r, probs) * PSteps >= topP * WeightOf(Token, probs)}
  <2> HIDE DEF reached
  <2>1. reached \in SUBSET Token
    BY DEF reached
  <2>2. CASE reached = {}
    <3>1. UNCHANGED <<probs, cutAt>>
      BY <1>4, <2>2 DEF CutTail, reached
    <3> QED
      BY <1>4, <3>1 DEF CutTail
  <2>3. CASE reached # {}
    <3>1. /\ cutAt' = Min(reached)
          /\ probs' = [r \in Token |-> IF r \in Cleared(Min(reached)) THEN 0 ELSE probs[r]]
      BY <1>4, <2>3 DEF CutTail, reached
    <3>2. Min(reached) \in Token
      BY <2>1, <2>3, MinIndex, TokensFinite
    <3>3. cutAt' \in 0..NVocab
      BY <3>1, <3>2, SamplerAssumption DEF Token
    <3>4. probs' \in [Token -> Nat]
      BY <3>1
    <3> QED
      BY <1>4, <3>3, <3>4 DEF CutTail
  <2> QED
    BY <2>2, <2>3
<1>5. CASE DrawToken
  <2>1. \A r \in Drawable : r \in Token
    BY DEF Drawable
  <2>2. sampled' \in Token
    BY <1>5, <2>1 DEF DrawToken, Orders
  <2> QED
    BY <1>5, <2>2 DEF DrawToken
<1>6. CASE TakeSample
  BY <1>0, <1>6 DEF TakeSample
<1>7. CASE UNCHANGED samplerVars
  BY <1>7 DEF samplerVars
<1> QED
  BY <1>1, <1>2, <1>3, <1>4, <1>5, <1>6, <1>7 DEF SamplerNext

-----------------------------------------------------------------------------
(* What top-k keeps *)

\* apply_top_k() leaves the k largest logits and takes the weight of the rest;
\* a k outside 1..NVocab-1 leaves all.
LEMMA TopKKeeps ==
  ASSUME SamplerTypeOK, LogitsPositive, ApplyTopK
  PROVE  KeptAreLargest'
<1>1. /\ spl = "topK" /\ weight = logits /\ logits' = logits /\ topK' = topK /\ topK \in Int
      /\ \A t \in Token : logits[t] > 0
      /\ logits \in [Token -> Nat]
  BY DEF ApplyTopK, LogitsPositive, SamplerTypeOK
<1>2. CASE topK > 0 /\ topK < NVocab
  <2>1. PICK S \in Survivors : weight' = [t \in Token |-> IF t \in S THEN weight[t] ELSE 0]
    BY <1>2 DEF ApplyTopK
  <2>2. /\ S \subseteq Token /\ Cardinality(S) = topK
        /\ \A t \in S, u \in Token \ S : logits[t] >= logits[u]
    BY <1>1 DEF Survivors
  <2>3. Kept' = S
    BY <1>1, <2>1, <2>2 DEF Kept
  <2>4. \A t \in S : weight'[t] = logits[t]
    BY <1>1, <2>1, <2>2
  <2> QED
    BY <1>1, <1>2, <2>2, <2>3, <2>4 DEF KeptAreLargest
<1>3. CASE ~(topK > 0 /\ topK < NVocab)
  <2>1. weight' = weight
    BY <1>3 DEF ApplyTopK
  <2>2. Kept' = Token
    BY <1>1, <2>1 DEF Kept
  <2>3. topK > 0 => ~(topK < NVocab)
    BY <1>3
  <2>4. Cardinality(Token) = NVocab
    BY TokensFinite
  <2> QED
    BY <1>1, <2>1, <2>2, <2>3, <2>4 DEF KeptAreLargest
<1> QED
  BY <1>2, <1>3

\* Nothing after top-k touches the weights until the next call.
LEMMA KeptAreLargestKept ==
  ASSUME SamplerTypeOK, LogitsPositive, KeptAreLargest, [SamplerNext]_samplerVars
  PROVE  KeptAreLargest'
<1>1. ASSUME NEW greedy \in BOOLEAN, NEW k \in -1..(NVocab + 1), NEW p \in 0..PSteps,
             SampleToken(greedy, k, p)
      PROVE  KeptAreLargest'
  <2>1. spl' \in {"greedy", "topK"}
    BY <1>1 DEF SampleToken
  <2> QED
    BY <2>1 DEF KeptAreLargest
<1>2. CASE ApplyTopK
  BY <1>2, TopKKeeps
<1>3. CASE SortTokens \/ CutTail \/ DrawToken \/ UNCHANGED samplerVars
  <2>1. logits' = logits /\ weight' = weight /\ topK' = topK
    BY <1>3 DEF SortTokens, CutTail, DrawToken, samplerVars
  <2>2. spl' \in {"sort", "cut", "draw", "sampled"} => spl \in {"sort", "cut", "draw", "sampled"}
    BY <1>3 DEF SortTokens, CutTail, DrawToken, samplerVars
  <2>3. Kept' = Kept
    BY <2>1 DEF Kept
  <2> QED
    BY <2>1, <2>2, <2>3 DEF KeptAreLargest
<1>4. CASE TakeSample
  BY <1>4 DEF TakeSample, KeptAreLargest
<1> QED
  BY <1>1, <1>2, <1>3, <1>4 DEF SamplerNext

\* The logits of a call stay as they were read.
LEMMA LogitsPositiveKept ==
  ASSUME SamplerTypeOK, LogitsPositive, [SamplerNext]_samplerVars
  PROVE  LogitsPositive'
<1>1. ASSUME NEW greedy \in BOOLEAN, NEW k \in -1..(NVocab + 1), NEW p \in 0..PSteps,
             SampleToken(greedy, k, p)
      PROVE  LogitsPositive'
  <2>1. \A t \in Token : logits'[t] > 0
    <3>1. logits' \in [Token -> Weights]
      BY <1>1 DEF SampleToken
    <3>2. \A w \in Weights : w > 0
      BY SamplerAssumption
    <3> QED
      BY <3>1, <3>2
  <2>2. weight' = logits' /\ topK' \in Int
    BY <1>1, SamplerAssumption DEF SampleToken
  <2> QED
    BY <2>1, <2>2 DEF LogitsPositive
<1>2. CASE ApplyTopK \/ SortTokens \/ CutTail \/ DrawToken
  BY <1>2 DEF ApplyTopK, SortTokens, CutTail, DrawToken, LogitsPositive
<1>3. CASE TakeSample
  BY <1>3 DEF TakeSample, LogitsPositive
<1>4. CASE UNCHANGED samplerVars
  BY <1>4 DEF samplerVars, LogitsPositive
<1> QED
  BY <1>1, <1>2, <1>3, <1>4 DEF SamplerNext

\* The cut clears ranks and fills none; the draw takes a rank that is left.
LEMMA RanksFollowWeightsKept ==
  ASSUME SamplerTypeOK, LogitsPositive, RanksFollowWeights, [SamplerNext]_samplerVars
  PROVE  RanksFollowWeights'
<1>1. ASSUME NEW greedy \in BOOLEAN, NEW k \in -1..(NVocab + 1), NEW p \in 0..PSteps,
             SampleToken(greedy, k, p)
      PROVE  RanksFollowWeights'
  <2>1. logits' \in [Token -> Nat]
    BY <1>1, SamplerAssumption DEF SampleToken
  <2>2. \E t \in Token : \A u \in Token : logits'[u] <= logits'[t] /\ (u < t => logits'[u] < logits'[t])
    BY <2>1, FirstLargestExists
  <2>3. \A u \in Token : logits'[u] <= logits'[SampleGreedy]
    BY <2>2 DEF SampleGreedy
  <2>4. spl' = "greedy" => sampled' = SampleGreedy
    BY <1>1 DEF SampleToken
  <2>5. spl' \in {"greedy", "topK"}
    BY <1>1 DEF SampleToken
  <2> QED
    BY <2>3, <2>4, <2>5 DEF RanksFollowWeights
<1>2. CASE ApplyTopK
  BY <1>2 DEF ApplyTopK, RanksFollowWeights
<1>3. CASE SortTokens
  <2>1. indices' \in Orders /\ Descending(indices', weight) /\ weight' = weight /\ spl' = "cut"
    BY <1>3 DEF SortTokens
  <2>2. \A r \in Token : probs'[r] = weight'[indices'[r]]
    BY <1>3 DEF SortTokens
  <2>3. Descending(indices, weight)'
    BY <2>1 DEF Descending
  <2> QED
    BY <2>1, <2>2, <2>3 DEF RanksFollowWeights
<1>4. CASE CutTail
  <2>1. spl = "cut" /\ spl' = "draw" /\ UNCHANGED <<weight, indices>>
    BY <1>4 DEF CutTail
  <2>2. \A r \in Token : probs'[r] = probs[r] \/ probs'[r] = 0
    BY <1>4 DEF CutTail
  <2>3. \A r \in Token : indices[r] \in Token /\ (probs[r] > 0 => indices[r] \in Kept)
    BY <2>1 DEF RanksFollowWeights, Kept, SamplerTypeOK, Orders
  <2>4. Kept' = Kept
    BY <2>1 DEF Kept
  <2> QED
    BY <2>1, <2>2, <2>3, <2>4 DEF RanksFollowWeights
<1>5. CASE DrawToken
  <2>1. spl = "draw" /\ spl' = "sampled" /\ UNCHANGED <<weight, indices, probs>>
    BY <1>5 DEF DrawToken
  <2>2. PICK r \in Drawable : sampled' = indices[r]
    BY <1>5 DEF DrawToken
  <2>3. Kept' = Kept
    BY <2>1 DEF Kept
  <2>4. (\E s \in Token : probs[s] > 0) => r \in Token /\ probs[r] > 0
    BY <2>2 DEF Drawable
  <2> QED
    BY <2>1, <2>2, <2>3, <2>4 DEF RanksFollowWeights
<1>6. CASE TakeSample
  BY <1>6 DEF TakeSample, RanksFollowWeights
<1>7. CASE UNCHANGED samplerVars
  BY <1>7 DEF samplerVars, RanksFollowWeights, Descending, Kept
<1> QED
  BY <1>1, <1>2, <1>3, <1>4, <1>5, <1>6, <1>7 DEF SamplerNext

\* Types and the three parts together are inductive.
LEMMA SamplerInvHolds == SamplerSpec => [](SamplerTypeOK /\ SamplerInv)
<1>1. SamplerInit => SamplerTypeOK /\ SamplerInv
  <2>1. SamplerInit => SamplerInv
    BY DEF SamplerInit, SamplerInv, LogitsPositive, KeptAreLargest, RanksFollowWeights
  <2> QED
    BY <2>1, SamplerInitTypes
<1>2. SamplerTypeOK /\ SamplerInv /\ [SamplerNext]_samplerVars => (SamplerTypeOK /\ SamplerInv)'
  BY SamplerTypesKept, LogitsPositiveKept, KeptAreLargestKept, RanksFollowWeightsKept DEF SamplerInv
<1> QED
  BY <1>1, <1>2, PTL DEF SamplerSpec

-----------------------------------------------------------------------------
(* Theorems *)

\* sample_token() keeps its buffers in their types, whatever the logits and
\* the options are.
THEOREM SamplerTypeCorrect == SamplerSpec => []SamplerTypeOK
BY SamplerInvHolds, PTL

\* Sorted by weight, the tokens that survived top-k fill the first k ranks: what
\* sample_top_p() works on is the k largest logits and nothing else.
THEOREM SamplerTopKKeepsLargest == SamplerSpec => []TopKKeepsLargest
<1>1. ASSUME SamplerTypeOK, SamplerInv
      PROVE  TopKKeepsLargest
  <2>1. SUFFICES ASSUME spl = "cut", topK \in 1..NVocab
                 PROVE  \A r \in Token :
                          /\ probs[r] > 0 <=> r < topK
                          /\ r < topK => \A s \in Token : s >= topK => logits[indices[r]] >= logits[indices[s]]
    BY DEF TopKKeepsLargest
  <2> DEFINE P == {r \in Token : indices[r] \in Kept}
  <2>2. /\ indices \in Orders /\ \A r \in Token : indices[r] \in Token
        /\ weight \in [Token -> Nat] /\ Kept \in SUBSET Token
    BY <1>1 DEF SamplerTypeOK, Orders, Kept
  <2>3. \A r \in Token : probs[r] > 0 <=> indices[r] \in Kept
    BY <1>1, <2>1, <2>2 DEF SamplerInv, RanksFollowWeights, Kept
  <2>4. \A r, s \in Token : r < s /\ s \in P => r \in P
    <3>1. \A r, s \in Token : r < s => weight[indices[r]] >= weight[indices[s]]
      BY <1>1, <2>1 DEF SamplerInv, RanksFollowWeights, Descending
    <3>2. \A t \in Token : weight[t] \in Nat
      BY <2>2
    <3> QED
      BY <2>2, <3>1, <3>2 DEF Kept
  <2>5. Cardinality(P) = topK
    <3>1. Cardinality(P) = Cardinality(Kept)
      BY <2>2, OrderKeepsCount
    <3>2. Cardinality(Kept) = IF topK < NVocab THEN topK ELSE NVocab
      BY <1>1, <2>1, SamplerAssumption DEF SamplerInv, KeptAreLargest
    <3> QED
      BY <2>1, <3>1, <3>2, SamplerAssumption
  <2> HIDE DEF P
  <2>6. P \in SUBSET Token
    BY DEF P
  <2>7. P = 0..(topK - 1)
    BY <2>4, <2>5, <2>6, RanksFromZero
  <2>8. \A r \in Token : indices[r] \in Kept <=> r < topK
    BY <2>1, <2>7, TokensFinite DEF P
  <2>9. \A t \in Kept, u \in Token \ Kept : logits[t] >= logits[u]
    BY <1>1, <2>1 DEF SamplerInv, KeptAreLargest
  <2>10. \A s \in Token : s >= topK => ~(s < topK)
    BY <2>1, TokensFinite
  <2> QED
    BY <2>2, <2>3, <2>8, <2>9, <2>10
<1> QED
  BY <1>1, SamplerInvHolds, PTL

\* A sampled token is one of the k largest unless top-p cleared everything, and
\* a greedy one is the largest: fewer than k tokens have a larger logit.
THEOREM SamplerSampledSurvives == SamplerSpec => []SampledSurvives
<1>1. ASSUME SamplerTypeOK, SamplerInv
      PROVE  SampledSurvives
  <2> DEFINE better == {t \in Token : logits[t] > logits[sampled]}
  <2>0. logits \in [Token -> Nat] /\ sampled \in Token /\ topK \in Int
    BY <1>1 DEF SamplerTypeOK, SamplerInv, LogitsPositive
  <2>1. spl = "greedy" => better = {}
    BY <1>1, <2>0 DEF SamplerInv, RanksFollowWeights
  <2>2. ASSUME spl = "sampled", topK > 0, \E r \in Token : probs[r] > 0
        PROVE  Cardinality(better) < topK
    <3>1. sampled \in Kept /\ Kept \in SUBSET Token
      BY <1>1, <2>2 DEF SamplerInv, RanksFollowWeights, Kept
    <3>2. Cardinality(Kept) <= topK
      BY <1>1, <2>0, <2>2, SamplerAssumption DEF SamplerInv, KeptAreLargest
    <3>3. better \in SUBSET (Kept \ {sampled})
      BY <1>1, <2>0, <2>2, <3>1 DEF SamplerInv, KeptAreLargest
    <3>4. IsFiniteSet(Kept) /\ Cardinality(Kept) \in Nat
      BY <3>1, FS_Subset, FS_CardinalityType, TokensFinite
    <3>5. IsFiniteSet(Kept \ {sampled}) /\ Cardinality(Kept \ {sampled}) = Cardinality(Kept) - 1
      BY <3>1, <3>4, FS_RemoveElement
    <3> HIDE DEF better
    <3>6. IsFiniteSet(better) /\ Cardinality(better) <= Cardinality(Kept \ {sampled})
      BY <3>3, <3>5, FS_Subset
    <3>7. Cardinality(better) \in Nat
      BY <3>6, FS_CardinalityType
    <3> QED
      BY <2>0, <3>2, <3>4, <3>5, <3>6, <3>7
  <2> QED
    BY <2>1, <2>2 DEF SampledSurvives
<1> QED
  BY <1>1, SamplerInvHolds, PTL

-----------------------------------------------------------------------------
(* Texts *)

\* The letters of a word, one by one, spell it.
LEMMA LettersSpell ==
  ASSUME NEW C, NEW w \in Seq(C)
  PROVE  /\ [i \in 1..Len(w) |-> <<w[i]>>] \in Seq(Seq(C))
         /\ FlattenSeq([i \in 1..Len(w) |-> <<w[i]>>]) = w
<1> DEFINE p == [i \in 1..Len(w) |-> <<w[i]>>]
           F == [i \in 0..Len(w) |-> SubSeq(w, 1, i)]
<1>1. Len(w) \in Nat /\ \A i \in 1..Len(w) : w[i] \in C
  OBVIOUS
<1>2. p \in Seq(Seq(C)) /\ Len(p) = Len(w) /\ \A i \in 1..Len(w) : p[i] = <<w[i]>>
  BY <1>1
<1>3. SubSeq(w, 1, 0) = <<>> /\ SubSeq(w, 1, Len(w)) = w
  BY SubSeqEmpty, SubSeqFull
<1>4. \A i \in 1..Len(w) : SubSeq(w, 1, i) = SubSeq(w, 1, i - 1) \o <<w[i]>>
  <2>1. SUFFICES ASSUME NEW i \in 1..Len(w)
                 PROVE  SubSeq(w, 1, i) = SubSeq(w, 1, i - 1) \o <<w[i]>>
    OBVIOUS
  <2>2. 1 \in 1..Len(w) /\ i \in 1..Len(w)
    BY <1>1
  <2> QED
    BY <2>2, SubSeqRecursiveSecond
<1>5. /\ F[0] = SubSeq(w, 1, 0) /\ F[Len(w)] = SubSeq(w, 1, Len(w))
      /\ \A i \in 1..Len(w) : F[i] = SubSeq(w, 1, i) /\ F[i - 1] = SubSeq(w, 1, i - 1)
  BY <1>1
<1> HIDE DEF F, p
<1>6. Flattens(F, p)
  BY <1>2, <1>3, <1>4, <1>5 DEF Flattens
<1>7. FlattenSeq(p) = F[Len(p)]
  BY <1>2, <1>6, FlattenSeqIs
<1>8. FlattenSeq(p) = w
  BY <1>2, <1>3, <1>5, <1>7
<1> QED
  BY <1>2, <1>8 DEF p

\* What MergePieces makes of the pieces, place by place.
MergeAt(s, i) == ReplaceAt(RemoveAt(s, i + 1), i, s[i] \o s[i + 1])

LEMMA MergeAtIs ==
  ASSUME NEW C, NEW s \in Seq(Seq(C)), NEW i \in 1..(Len(s) - 1)
  PROVE  /\ MergeAt(s, i) \in Seq(Seq(C)) /\ Len(MergeAt(s, i)) = Len(s) - 1
         /\ \A j \in 1..(Len(s) - 1) :
              MergeAt(s, i)[j] = IF j < i THEN s[j] ELSE IF j = i THEN s[i] \o s[i + 1] ELSE s[j + 1]
<1> DEFINE n == Len(s)
           l == SubSeq(s, 1, i)
           r == SubSeq(s, i + 2, n)
           m == s[i] \o s[i + 1]
<1>1. n \in Nat /\ i \in Nat /\ i \in 1..n /\ i + 1 \in 1..n /\ \A j \in 1..n : s[j] \in Seq(C)
  OBVIOUS
<1>2. l \in Seq(Seq(C)) /\ Len(l) = i /\ \A j \in 1..i : l[j] = s[j]
  <2>1. \A j \in 1..i : s[j] \in Seq(C)
    BY <1>1
  <2>2. /\ SubSeq(s, 1, i) \in Seq(Seq(C)) /\ Len(SubSeq(s, 1, i)) = IF 1 <= i THEN i - 1 + 1 ELSE 0
        /\ \A j \in 1..(i - 1 + 1) : SubSeq(s, 1, i)[j] = s[1 + j - 1]
    BY <1>1, <2>1, SubSeqProperties
  <2>3. i - 1 + 1 = i /\ 1 <= i /\ \A j \in 1..i : 1 + j - 1 = j
    BY <1>1
  <2> QED
    BY <2>2, <2>3
<1>3. r \in Seq(Seq(C)) /\ Len(r) = n - i - 1 /\ \A j \in 1..(n - i - 1) : r[j] = s[i + 1 + j]
  <2>1. \A j \in (i + 2)..n : s[j] \in Seq(C)
    BY <1>1
  <2>2. i + 2 \in Int /\ n \in Int
    BY <1>1
  <2>3. /\ SubSeq(s, i + 2, n) \in Seq(Seq(C))
        /\ Len(SubSeq(s, i + 2, n)) = IF i + 2 <= n THEN n - (i + 2) + 1 ELSE 0
        /\ \A j \in 1..(n - (i + 2) + 1) : SubSeq(s, i + 2, n)[j] = s[i + 2 + j - 1]
    BY <2>1, <2>2, SubSeqProperties
  <2>4. /\ n - (i + 2) + 1 = n - i - 1 /\ (~(i + 2 <= n) => n - i - 1 = 0)
        /\ \A j \in 1..(n - i - 1) : i + 2 + j - 1 = i + 1 + j
    BY <1>1
  <2> QED
    BY <2>3, <2>4
<1>4. m \in Seq(C)
  BY <1>1, ConcatProperties
<1>5. RemoveAt(s, i + 1) = l \o r
  <2>1. i + 1 - 1 = i /\ i + 1 + 1 = i + 2
    BY <1>1
  <2> QED
    BY <2>1 DEF RemoveAt
<1> HIDE DEF l, r, m
<1>6. /\ l \o r \in Seq(Seq(C)) /\ Len(l \o r) = n - 1
      /\ \A j \in 1..(n - 1) : (l \o r)[j] = IF j <= i THEN s[j] ELSE s[j + 1]
  <2>1. /\ l \o r \in Seq(Seq(C)) /\ Len(l \o r) = Len(l) + Len(r)
        /\ \A j \in 1..(Len(l) + Len(r)) : (l \o r)[j] = IF j <= Len(l) THEN l[j] ELSE r[j - Len(l)]
    BY <1>2, <1>3, ConcatProperties
  <2>2. Len(l) + Len(r) = n - 1
    BY <1>1, <1>2, <1>3
  <2>3. ASSUME NEW j \in 1..(n - 1)
        PROVE  (l \o r)[j] = IF j <= i THEN s[j] ELSE s[j + 1]
    <3>1. (l \o r)[j] = IF j <= i THEN l[j] ELSE r[j - i]
      BY <1>2, <2>1, <2>2
    <3>2. CASE j <= i
      <4>1. j \in 1..i
        BY <3>2
      <4> QED
        BY <1>2, <3>1, <3>2, <4>1
    <3>3. CASE ~(j <= i)
      <4>1. j - i \in 1..(n - i - 1) /\ i + 1 + (j - i) = j + 1
        BY <1>1, <3>3
      <4> QED
        BY <1>3, <3>1, <3>3, <4>1
    <3> QED
      BY <3>2, <3>3
  <2> QED
    BY <2>1, <2>2, <2>3
<1> DEFINE u == l \o r
<1> HIDE DEF u
<1>7. MergeAt(s, i) = [u EXCEPT ![i] = m]
  BY <1>5 DEF MergeAt, ReplaceAt, u, m
<1>8. u \in Seq(Seq(C)) /\ Len(u) = n - 1 /\ i \in 1..Len(u)
  BY <1>1, <1>6 DEF u
<1>9. /\ [u EXCEPT ![i] = m] \in Seq(Seq(C)) /\ Len([u EXCEPT ![i] = m]) = Len(u)
      /\ \A j \in 1..Len(u) : [u EXCEPT ![i] = m][j] = IF j = i THEN m ELSE u[j]
  BY <1>4, <1>8, ExceptSeq
<1>10. \A j \in 1..(n - 1) :
         [u EXCEPT ![i] = m][j] = IF j < i THEN s[j] ELSE IF j = i THEN m ELSE s[j + 1]
  <2>1. SUFFICES ASSUME NEW j \in 1..(n - 1)
                 PROVE  [u EXCEPT ![i] = m][j] = IF j < i THEN s[j] ELSE IF j = i THEN m ELSE s[j + 1]
    OBVIOUS
  <2>2. u[j] = IF j <= i THEN s[j] ELSE s[j + 1]
    BY <1>6 DEF u
  <2>3. [u EXCEPT ![i] = m][j] = IF j = i THEN m ELSE u[j]
    BY <1>8, <1>9
  <2> QED
    BY <1>1, <2>2, <2>3
<1> QED
  BY <1>7, <1>8, <1>9, <1>10 DEF m

\* Merging two neighbours changes nothing of what the pieces spell.
LEMMA MergeKeepsText ==
  ASSUME NEW C, NEW s \in Seq(Seq(C)), NEW i \in 1..(Len(s) - 1)
  PROVE  FlattenSeq(MergeAt(s, i)) = FlattenSeq(s)
<1> DEFINE n == Len(s)
           t == MergeAt(s, i)
<1>1. n \in Nat /\ i \in 1..(n - 1) /\ \A j \in 1..n : s[j] \in Seq(C)
  OBVIOUS
<1>2. /\ t \in Seq(Seq(C)) /\ Len(t) = n - 1
      /\ \A j \in 1..(n - 1) : t[j] = IF j < i THEN s[j] ELSE IF j = i THEN s[i] \o s[i + 1] ELSE s[j + 1]
  BY MergeAtIs
<1> HIDE DEF t
<1>3. PICK F \in [0..n -> Seq(C)] : Flattens(F, s)
  BY FlatteningExists
<1>4. F[0] = <<>> /\ \A j \in 1..n : F[j] = F[j - 1] \o s[j]
  BY <1>3 DEF Flattens
<1>4a. \A j \in 0..(n - 1) : F[j + 1] = F[j] \o s[j + 1]
  <2>1. ASSUME NEW j \in 0..(n - 1), NEW k, k = j + 1
        PROVE  F[k] = F[j] \o s[k]
    <3>1. k \in 1..n /\ k - 1 = j
      BY <1>1, <2>1
    <3> QED
      BY <1>4, <3>1
  <2> QED
    BY <2>1
<1> DEFINE G == [j \in 0..(n - 1) |-> IF j < i THEN F[j] ELSE F[j + 1]]
<1>5. ASSUME NEW j \in 1..(n - 1)
      PROVE  G[j] = G[j - 1] \o t[j]
  <2>1. j - 1 \in 0..(n - 1) /\ j \in 0..(n - 1)
    BY <1>1
  <2>2. CASE j < i
    <3>1. G[j] = F[j] /\ G[j - 1] = F[j - 1] /\ t[j] = s[j] /\ j \in 1..n
      BY <1>1, <1>2, <2>1, <2>2
    <3> QED
      BY <1>4, <3>1
  <2>3. CASE j = i
    <3>1. i - 1 \in 0..(n - 1) /\ i - 1 \in 0..n /\ i \in 0..(n - 1) /\ i \in 1..n /\ i + 1 \in 1..n
      BY <1>1
    <3>2. PICK a \in Seq(C) : a = F[i - 1]
      BY <1>3, <3>1
    <3>3. PICK b \in Seq(C) : b = s[i]
      BY <1>1, <3>1
    <3>4. PICK c \in Seq(C) : c = s[i + 1]
      BY <1>1, <3>1
    <3>5. (a \o b) \o c = a \o (b \o c)
      <4>1. Cat(Cat(a, b), c) = Cat(a, Cat(b, c))
        BY CatAssociative, SMT
      <4> QED
        BY <4>1, Zenon DEF Cat
    <3>6. F[i] = a \o b
      BY <1>4, <3>1, <3>2, <3>3
    <3>7. F[i + 1] = (a \o b) \o c
      BY <1>4a, <3>1, <3>4, <3>6, Zenon
    <3>8. G[j] = F[i + 1] /\ G[j - 1] = a
      BY <1>1, <2>1, <2>3, <3>2
    <3>9. t[j] = b \o c
      <4>1. ~(i < i)
        BY <1>1
      <4> QED
        BY <1>1, <1>2, <2>3, <3>3, <3>4, <4>1, Zenon
    <3> HIDE DEF G
    <3> QED
      BY <3>5, <3>7, <3>8, <3>9, Zenon
  <2>4. CASE j > i
    <3>1. ~(j < i) /\ ~(j - 1 < i) /\ j - 1 + 1 = j
      BY <1>1, <2>4
    <3>2. G[j] = F[j + 1] /\ G[j - 1] = F[j]
      BY <1>1, <2>1, <3>1
    <3>3. t[j] = s[j + 1]
      <4>1. ~(j < i) /\ ~(j = i)
        BY <1>1, <2>4
      <4> QED
        BY <1>2, <4>1, Zenon
    <3>4. F[j + 1] = F[j] \o s[j + 1]
      BY <1>4a, <2>1, Zenon
    <3> DEFINE x == F[j]
               y == s[j + 1]
    <3>5. G[j] = x \o y
      BY <3>2, <3>4, Zenon
    <3>6. G[j - 1] = x /\ t[j] = y
      BY <3>2, <3>3
    <3> HIDE DEF G, x, y
    <3> QED
      BY <3>5, <3>6
  <2>5. j < i \/ j = i \/ j > i
    BY <1>1
  <2> HIDE DEF G
  <2> QED
    BY <2>2, <2>3, <2>4, <2>5, Zenon
<1>6. G[0] = <<>> /\ G[n - 1] = F[n]
  <2>1. 0 \in 0..(n - 1) /\ n - 1 \in 0..(n - 1) /\ 0 < i /\ ~(n - 1 < i) /\ n - 1 + 1 = n
    BY <1>1
  <2> QED
    BY <1>4, <2>1
<1> HIDE DEF G
<1>7. Flattens(G, t)
  BY <1>2, <1>5, <1>6 DEF Flattens
<1>8. FlattenSeq(t) = G[Len(t)] /\ FlattenSeq(s) = F[n]
  BY <1>2, <1>3, <1>7, FlattenSeqIs
<1> QED
  BY <1>2, <1>6, <1>8 DEF t

-----------------------------------------------------------------------------
(* The best merge *)

\* A pair has a rule exactly when it is one of the merges.
LEMMA RuleOfIs ==
  ASSUME NEW X, NEW rules \in Seq(X), NEW left, NEW right
  PROVE  /\ RuleOf(left, right, rules) \in Nat
         /\ RuleOf(left, right, rules) = 0 <=> <<left, right>> \notin ToSet(rules)
<1> DEFINE matching == {m \in 1..Len(rules) : rules[m] = <<left, right>>}
<1>1. matching \in SUBSET Nat /\ 0 \notin matching /\ DOMAIN rules = 1..Len(rules)
  OBVIOUS
<1>2. matching # {} => Min(matching) \in matching
  <2> HIDE DEF matching
  <2> QED
    BY <1>1, MinIndex
<1>3. matching = {} <=> <<left, right>> \notin ToSet(rules)
  BY <1>1 DEF ToSet
<1>4. RuleOf(left, right, rules) = IF matching = {} THEN 0 ELSE Min(matching)
  BY DEF RuleOf
<1> HIDE DEF matching
<1>5. CASE matching = {}
  BY <1>3, <1>4, <1>5
<1>6. CASE matching # {}
  <2>1. RuleOf(left, right, rules) \in matching
    BY <1>2, <1>4, <1>6
  <2> QED
    BY <1>1, <1>3, <1>6, <2>1
<1> QED
  BY <1>5, <1>6

\* find_best_merge() finds a position when there is one.
LEMMA BestMergeIs ==
  ASSUME Len(pieces) \in Nat, NEW X, merges \in Seq(X)
  PROVE  /\ BestMerge # 0 => BestMerge \in 1..(Len(pieces) - 1) /\ RuleAt(BestMerge) > 0
         /\ BestMerge = 0 => \A i \in 1..(Len(pieces) - 1) : RuleAt(i) = 0
<1> DEFINE here == {i \in 1..(Len(pieces) - 1) : RuleAt(i) > 0}
           Best(i) == \A j \in here : RuleAt(i) < RuleAt(j) \/ (RuleAt(i) = RuleAt(j) /\ i <= j)
<1>1. \A i : RuleAt(i) \in Nat
  BY RuleOfIs DEF RuleAt
<1>2. here \in SUBSET Nat /\ here \subseteq 1..(Len(pieces) - 1)
  OBVIOUS
<1>3. BestMerge = IF here = {} THEN 0 ELSE CHOOSE i \in here : Best(i)
  BY DEF BestMerge
<1>4. CASE here = {}
  BY <1>1, <1>3, <1>4
<1>5. CASE here # {}
  <2> DEFINE R == {RuleAt(i) : i \in here}
  <2> HIDE DEF here
  <2>1. R \in SUBSET Nat /\ R # {}
    BY <1>1, <1>5
  <2>2. PICK r \in R : \A q \in R : r <= q
    <3> HIDE DEF R
    <3> QED
      BY <2>1, LeastNumber
  <2> DEFINE J == {i \in here : RuleAt(i) = r}
  <2>3. J \in SUBSET Nat /\ J # {}
    BY <1>2, <2>2
  <2>4. PICK i \in J : \A j \in J : i <= j
    <3> HIDE DEF J
    <3> QED
      BY <2>3, LeastNumber
  <2>5. Best(i)
    <3>1. SUFFICES ASSUME NEW j \in here
                   PROVE  RuleAt(i) < RuleAt(j) \/ (RuleAt(i) = RuleAt(j) /\ i <= j)
      OBVIOUS
    <3>2. r <= RuleAt(j) /\ RuleAt(i) = r
      BY <2>2, <2>4
    <3>3. RuleAt(j) = r => i <= j
      BY <2>4
    <3> QED
      BY <1>1, <3>2, <3>3
  <2> HIDE DEF Best
  <2>6. (CHOOSE k \in here : Best(k)) \in here
    BY <2>4, <2>5
  <2>7. BestMerge \in here /\ 0 \notin here
    BY <1>2, <1>3, <1>5, <2>6
  <2>8. RuleAt(BestMerge) > 0
    BY <2>7 DEF here
  <2> QED
    BY <1>2, <2>7, <2>8
<1> QED
  BY <1>4, <1>5

-----------------------------------------------------------------------------
(* The locals of load() and encode() *)

\* A part of a line is a text.
LEMMA PartOfLine ==
  ASSUME NEW C, NEW l \in Seq(C), NEW m \in Nat \ {0}, NEW n \in Int, n <= Len(l)
  PROVE  SubSeq(l, m, n) \in Seq(C)
<1>1. m \in Int /\ \A i \in m..n : l[i] \in C
  <2>1. \A i \in m..n : i \in 1..Len(l)
    OBVIOUS
  <2> QED
    BY <2>1
<1> QED
  BY <1>1, SubSeqProperties

\* load() leaves a sequence of rules, whatever lines it meets.
LEMMA MergesShapeKept ==
  ASSUME MergesShape, [TokenizerNext]_tokenizerVars
  PROVE  MergesShape'
<1> DEFINE Rule == Seq(FileChar) \X Seq(FileChar)
<1>0. file \in Seq(Seq(FileChar)) /\ line \in Nat \ {0} /\ merges \in Seq(Rule)
  BY DEF MergesShape
<1> HIDE DEF Rule
<1>1. ASSUME NEW f \in VocabFiles, LoadCall(f)
      PROVE  MergesShape'
  <2>1. file' = f /\ line' = 1 /\ merges' = merges
    BY <1>1 DEF LoadCall, tables
  <2>2. f \in Seq(Seq(FileChar))
    BY TokenizerAssumption
  <2> QED
    BY <1>0, <2>1, <2>2 DEF MergesShape, Rule
<1>2. CASE LoadFirstLine
  <2>1. file' = file /\ line' = 2 /\ merges' = merges
    BY <1>2 DEF LoadFirstLine, tables
  <2> QED
    BY <1>0, <2>1 DEF MergesShape, Rule
<1>3. CASE LoadLine
  <2> DEFINE l == file[line]
             blank == {i \in 1..Len(l) : l[i] = " "}
             rule == <<SubSeq(l, 1, Min(blank) - 1), SubSeq(l, Min(blank) + 1, Len(l))>>
  <2>1. /\ file' = file /\ line' = line + 1 /\ line <= Len(file)
        /\ merges' = merges \/ (merges' = Append(merges, rule) /\ blank # {})
    BY <1>3 DEF LoadLine, tables, Enter
  <2>2. l \in Seq(FileChar)
    <3> HIDE DEF l, blank, rule
    <3>1. Len(file) \in Nat /\ line <= Len(file)
      BY <1>0, <2>1
    <3>2. line \in 1..Len(file)
      BY <1>0, <3>1
    <3> QED
      BY <1>0, <3>2 DEF l
  <2>3. blank # {} => rule \in Rule
    <3>1. SUFFICES ASSUME blank # {} PROVE rule \in Rule
      OBVIOUS
    <3>2. Len(l) \in Nat
      BY <2>2
    <3>3. blank \in SUBSET Nat /\ blank \subseteq 1..Len(l)
      <4> HIDE DEF l
      <4>1. blank \subseteq 1..Len(l)
        BY Zenon
      <4> HIDE DEF blank
      <4> QED
        BY <3>2, <4>1
    <3> HIDE DEF l, blank
    <3>4. Min(blank) \in 1..Len(l)
      BY <3>1, <3>3, MinIndex
    <3>5. /\ Min(blank) - 1 \in Int /\ Min(blank) - 1 <= Len(l) /\ 1 \in Nat \ {0}
          /\ Min(blank) + 1 \in Nat \ {0} /\ Len(l) \in Int /\ Len(l) <= Len(l)
      BY <3>2, <3>4
    <3>6. SubSeq(l, 1, Min(blank) - 1) \in Seq(FileChar)
      BY <2>2, <3>5, PartOfLine
    <3>7. SubSeq(l, Min(blank) + 1, Len(l)) \in Seq(FileChar)
      BY <2>2, <3>5, PartOfLine
    <3> QED
      BY <3>6, <3>7 DEF Rule
  <2> HIDE DEF l, blank, rule
  <2>4. merges' \in Seq(Rule)
    <3>1. CASE merges' = merges
      BY <1>0, <3>1
    <3>2. CASE merges' = Append(merges, rule) /\ blank # {}
      BY <1>0, <2>3, <3>2
    <3> QED
      BY <2>1, <3>1, <3>2
  <2> QED
    BY <1>0, <2>1, <2>4 DEF MergesShape, Rule
<1>4. CASE LoadEnd
  BY <1>4 DEF LoadEnd, MergesShape
<1>5. ASSUME NEW a \in AddedTokens, AddToken(a[1], a[2])
      PROVE  MergesShape'
  BY <1>5 DEF AddToken, MergesShape
<1>6. CASE \/ \E t \in Texts : EncodeCall(t)
           \/ ScanChar \/ ScanEnd \/ NextWord \/ MergePieces \/ EmitWord \/ TakeTokens
           \/ UNCHANGED tokenizerVars
  <2>1. file' = file /\ line' = line /\ merges' = merges
    BY <1>6 DEF EncodeCall, ScanChar, ScanEnd, NextWord, MergePieces, EmitWord, TakeTokens, tokenizerVars,
                tables, loading
  <2> QED
    BY <2>1 DEF MergesShape
<1> QED
  BY <1>1, <1>2, <1>3, <1>4, <1>5, <1>6 DEF TokenizerNext

\* encode() moves characters of the text into words and words into pieces.
LEMMA EncodeShapeKept ==
  ASSUME EncodeShape, MergesShape, [TokenizerNext]_tokenizerVars
  PROVE  EncodeShape'
<1> DEFINE Word == Seq(TextChar)
<1>0. /\ text \in Word /\ current \in Word /\ place \in Nat \ {0}
      /\ words \in Seq(Word) /\ pieces \in Seq(Word)
      /\ encpc \in {"merge", "emit"} => place <= Len(words)
  BY DEF EncodeShape
<1>e. \A X : <<>> \in Seq(X)
  OBVIOUS
<1>a. ASSUME NEW t \in Texts, EncodeCall(t)
      PROVE  EncodeShape'
  <2>1. text' = t /\ place' = 1 /\ encpc' \in {"done", "scan"} /\ UNCHANGED <<current, words, pieces>>
    BY <1>a DEF EncodeCall
  <2>2. t \in Word
    BY TokenizerAssumption
  <2> QED
    BY <1>0, <2>1, <2>2 DEF EncodeShape
<1>1. EndWord => words' \in Seq(Word)
  BY <1>0 DEF EndWord
<1>2. CASE ScanChar
  <2>1. /\ text' = text /\ place' = place + 1 /\ place <= Len(text) /\ pieces' = pieces
        /\ encpc' = encpc /\ encpc = "scan"
    BY <1>2 DEF ScanChar
  <2>2. text[place] \in TextChar
    BY <1>0, <2>1
  <2>3. \/ current' = <<>> /\ EndWord
        \/ current' = Append(current, text[place]) /\ words' = words
    BY <1>2 DEF ScanChar
  <2>4. current' \in Word /\ words' \in Seq(Word)
    <3>1. CASE current' = <<>> /\ EndWord
      BY <1>1, <1>e, <3>1
    <3>2. CASE current' = Append(current, text[place]) /\ words' = words
      BY <1>0, <2>2, <3>2
    <3> QED
      BY <2>3, <3>1, <3>2
  <2> QED
    BY <1>0, <2>1, <2>4 DEF EncodeShape
<1>3. CASE ScanEnd
  <2>1. /\ EndWord /\ current' = <<>> /\ place' = 1 /\ encpc' = "word"
        /\ text' = text /\ pieces' = pieces
    BY <1>3 DEF ScanEnd
  <2> QED
    BY <1>0, <1>1, <1>e, <2>1 DEF EncodeShape
<1>4. CASE NextWord
  <2>1. /\ UNCHANGED <<text, place, current, words>>
        /\ \/ encpc' = "done" /\ pieces' = pieces
           \/ /\ ~(place > Len(words)) /\ encpc' = "merge"
              /\ pieces' = [i \in 1..Len(words[place]) |-> <<words[place][i]>>]
    BY <1>4 DEF NextWord
  <2>2. CASE encpc' = "done" /\ pieces' = pieces
    BY <1>0, <2>1, <2>2 DEF EncodeShape
  <2>3. CASE /\ ~(place > Len(words)) /\ encpc' = "merge"
             /\ pieces' = [i \in 1..Len(words[place]) |-> <<words[place][i]>>]
    <3>1. Len(words) \in Nat /\ place <= Len(words)
      BY <1>0, <2>3
    <3>2. words[place] \in Word
      BY <1>0, <3>1
    <3>3. pieces' \in Seq(Word)
      BY <2>3, <3>2, LettersSpell
    <3> QED
      BY <1>0, <2>1, <2>3, <3>1, <3>3 DEF EncodeShape
  <2> QED
    BY <2>1, <2>2, <2>3
<1>5. CASE MergePieces
  <2>1. /\ encpc = "merge" /\ encpc' \in {"merge", "emit"} /\ UNCHANGED <<text, place, current, words>>
        /\ pieces' = pieces \/ (BestMerge # 0 /\ pieces' = MergeAt(pieces, BestMerge))
    BY <1>5 DEF MergePieces, MergeAt
  <2>2. Len(pieces) \in Nat /\ merges \in Seq(Seq(FileChar) \X Seq(FileChar))
    BY <1>0 DEF MergesShape
  <2>3. BestMerge # 0 => MergeAt(pieces, BestMerge) \in Seq(Word)
    BY <1>0, <2>2, BestMergeIs, MergeAtIs
  <2>4. pieces' \in Seq(Word)
    BY <1>0, <2>1, <2>3
  <2> QED
    BY <1>0, <2>1, <2>4 DEF EncodeShape
<1>6. CASE EmitWord
  <2>1. encpc' = "word" /\ place' = place + 1 /\ UNCHANGED <<text, current, words, pieces>>
    BY <1>6 DEF EmitWord
  <2> QED
    BY <1>0, <2>1 DEF EncodeShape
<1>7. CASE TakeTokens
  <2>1. /\ encpc' = "idle" /\ text' = <<>> /\ place' = 1 /\ current' = <<>> /\ words' = <<>> /\ pieces' = <<>>
    BY <1>7 DEF TakeTokens
  <2> QED
    BY <1>e, <2>1 DEF EncodeShape
<1>8. CASE \/ \E f \in VocabFiles : LoadCall(f)
           \/ LoadFirstLine \/ LoadLine \/ LoadEnd
           \/ \E a \in AddedTokens : AddToken(a[1], a[2])
           \/ UNCHANGED tokenizerVars
  <2>1. UNCHANGED encoding
    BY <1>8 DEF LoadCall, LoadFirstLine, LoadLine, LoadEnd, AddToken, tokenizerVars
  <2> QED
    BY <2>1 DEF EncodeShape, encoding
<1> QED
  BY <1>a, <1>2, <1>3, <1>4, <1>5, <1>6, <1>7, <1>8 DEF TokenizerNext

-----------------------------------------------------------------------------
(* Theorems *)

\* The pieces of a word spell it and, once no merge is found, no rule applies.
LEMMA WordFullyMergedKept ==
  ASSUME OneCall, EncodeShape, MergesShape, WordFullyMerged, [TokenizerNext]_tokenizerVars
  PROVE  WordFullyMerged'
<1>0. /\ place \in Nat \ {0} /\ words \in Seq(Seq(TextChar)) /\ pieces \in Seq(Seq(TextChar))
      /\ encpc \in {"merge", "emit"} => place <= Len(words)
      /\ merges \in Seq(Seq(FileChar) \X Seq(FileChar))
  BY DEF EncodeShape, MergesShape
<1>1. CASE NextWord
  <2>1. CASE encpc' = "merge"
    <3>1. /\ ~(place > Len(words)) /\ UNCHANGED <<place, words>>
          /\ pieces' = [i \in 1..Len(words[place]) |-> <<words[place][i]>>]
      BY <1>1, <2>1 DEF NextWord
    <3>2. Len(words) \in Nat /\ place \in 1..Len(words)
      BY <1>0, <3>1
    <3>3. words[place] \in Seq(TextChar)
      BY <1>0, <3>2
    <3>4. FlattenSeq(pieces') = words[place]
      BY <3>1, <3>3, LettersSpell
    <3> QED
      BY <2>1, <3>1, <3>4 DEF WordFullyMerged
  <2>2. CASE encpc' # "merge"
    <3>1. encpc' = "done"
      BY <1>1, <2>2 DEF NextWord
    <3> QED
      BY <3>1 DEF WordFullyMerged
  <2> QED
    BY <2>1, <2>2
<1>2. CASE MergePieces
  <2>1. encpc = "merge" /\ UNCHANGED <<place, words, merges>>
    BY <1>2 DEF MergePieces, tables
  <2>2. FlattenSeq(pieces) = words[place]
    BY <2>1 DEF WordFullyMerged
  <2>3. CASE BestMerge = 0
    <3>1. encpc' = "emit" /\ pieces' = pieces
      BY <1>2, <2>3 DEF MergePieces
    <3>2. \A i \in 1..(Len(pieces) - 1) : RuleAt(i) = 0
      <4>1. Len(pieces) \in Nat
        BY <1>0
      <4> QED
        BY <1>0, <2>3, <4>1, BestMergeIs
    <3>3. \A i \in 1..(Len(pieces) - 1) : <<pieces[i], pieces[i + 1]>> \notin ToSet(merges)
      BY <1>0, <3>2, RuleOfIs DEF RuleAt
    <3> QED
      BY <2>1, <2>2, <3>1, <3>3 DEF WordFullyMerged
  <2>4. CASE BestMerge # 0
    <3>1. encpc' = "merge" /\ pieces' = MergeAt(pieces, BestMerge)
      BY <1>2, <2>1, <2>4 DEF MergePieces, MergeAt
    <3>2. BestMerge \in 1..(Len(pieces) - 1)
      <4>1. Len(pieces) \in Nat
        BY <1>0
      <4> QED
        BY <1>0, <2>4, <4>1, BestMergeIs
    <3>3. FlattenSeq(pieces') = FlattenSeq(pieces)
      BY <1>0, <3>1, <3>2, MergeKeepsText
    <3> QED
      BY <2>1, <2>2, <3>1, <3>3 DEF WordFullyMerged
  <2> QED
    BY <2>3, <2>4
<1>3. CASE \/ \E t \in Texts : EncodeCall(t)
           \/ ScanChar \/ ScanEnd \/ EmitWord \/ TakeTokens
  <2>1. encpc' \notin {"merge", "emit"}
    BY <1>3 DEF EncodeCall, ScanChar, ScanEnd, EmitWord, TakeTokens
  <2> QED
    BY <2>1 DEF WordFullyMerged
<1>4. CASE \/ \E f \in VocabFiles : LoadCall(f)
           \/ LoadFirstLine \/ LoadLine \/ LoadEnd
           \/ \E a \in AddedTokens : AddToken(a[1], a[2])
  <2>1. encpc' = encpc /\ encpc \notin {"merge", "emit"}
    BY <1>4 DEF OneCall, LoadCall, LoadFirstLine, LoadLine, LoadEnd, AddToken, encoding
  <2> QED
    BY <2>1 DEF WordFullyMerged
<1>5. CASE UNCHANGED tokenizerVars
  BY <1>5 DEF tokenizerVars, encoding, tables, WordFullyMerged
<1> QED
  BY <1>1, <1>2, <1>3, <1>4, <1>5 DEF TokenizerNext

\* A call of the tokenizer starts when none is running.
LEMMA OneCallKept ==
  ASSUME OneCall, [TokenizerNext]_tokenizerVars
  PROVE  OneCall'
<1>1. CASE \/ \E f \in VocabFiles : LoadCall(f)
           \/ LoadFirstLine \/ LoadLine \/ LoadEnd
           \/ \E a \in AddedTokens : AddToken(a[1], a[2])
  <2>1. encpc' = encpc /\ (lpc' = "idle" \/ encpc = "idle")
    BY <1>1 DEF OneCall, LoadCall, LoadFirstLine, LoadLine, LoadEnd, AddToken, encoding
  <2> QED
    BY <2>1 DEF OneCall
<1>2. CASE \/ \E t \in Texts : EncodeCall(t)
           \/ ScanChar \/ ScanEnd \/ NextWord \/ MergePieces \/ EmitWord \/ TakeTokens
  <2>1. lpc' = lpc /\ (lpc = "idle" \/ encpc' = "idle")
    BY <1>2 DEF OneCall, EncodeCall, ScanChar, ScanEnd, NextWord, MergePieces, EmitWord, TakeTokens, loading
  <2> QED
    BY <2>1 DEF OneCall
<1>3. CASE UNCHANGED tokenizerVars
  BY <1>3 DEF tokenizerVars, loading, encoding, OneCall
<1> QED
  BY <1>1, <1>2, <1>3 DEF TokenizerNext

\* Lemma: the strengthened invariant of the tokenizer.
LEMMA TokenizerInvariant == TokenizerSpec => []TokenizerInv
<1>1. TokenizerInit => TokenizerInv
  <2>1. \A X : <<>> \in Seq(X)
    OBVIOUS
  <2> QED
    BY <2>1 DEF TokenizerInit, TokenizerInv, OneCall, EncodeShape, MergesShape, WordFullyMerged
<1>2. TokenizerInv /\ [TokenizerNext]_tokenizerVars => TokenizerInv'
  BY OneCallKept, EncodeShapeKept, MergesShapeKept, WordFullyMergedKept DEF TokenizerInv
<1> QED
  BY <1>1, <1>2, PTL DEF TokenizerSpec

\* bpe_encode() loses and adds no character of a word, and stops only when no
\* rule applies to two neighbours, for every vocabulary file and every text.
THEOREM TokenizerWordFullyMerged == TokenizerSpec => []WordFullyMerged
BY TokenizerInvariant, PTL DEF TokenizerInv

-----------------------------------------------------------------------------
(* Loading a file twice: what the lines say *)

\* The first line is a header, with a number or not, or a token.
HasHeader(f) == f # <<>> /\ Contains(f[1], "vocab_size")
HasNumber(f) == HasHeader(f) /\ Contains(f[1], ":")
Declared(f) == ToInt(SubSeq(f[1], 3, Len(f[1])))

\* Any other line is a bare token, a numbered one, a rule, or begins with a
\* space and ends in a number.
Blanks(l) == {i \in 1..Len(l) : l[i] = " "}
UpToFirst(l) == SubSeq(l, 1, Min(Blanks(l)) - 1)
AfterFirst(l) == SubSeq(l, Min(Blanks(l)) + 1, Len(l))
UpToLast(l) == SubSeq(l, 1, Max(Blanks(l)) - 1)
AfterLast(l) == SubSeq(l, Max(Blanks(l)) + 1, Len(l))
Short(s) == IsNumber(s) /\ Len(s) < 6

IsBare(l) == l # <<>> /\ Blanks(l) = {}
IsNumbered(l) == Blanks(l) # {} /\ l[1] # " " /\ Short(AfterFirst(l))
IsRule(l) == Blanks(l) # {} /\ l[1] # " " /\ ~Short(AfterFirst(l))
IsSpaced(l) == Blanks(l) # {} /\ l[1] = " "
RuleOn(l) == <<UpToFirst(l), AfterFirst(l)>>

\* The lines that enter a token, with the token and its id; the bare lines
\* before a line count its automatic id.
EntriesOf(f) ==
  {i \in 1..Len(f) : IF i = 1 THEN ~HasHeader(f)
                     ELSE IsBare(f[i]) \/ IsNumbered(f[i]) \/ IsSpaced(f[i])}
BareBefore(f, n) == {i \in 2..(n - 1) : IsBare(f[i])}
AutoIdAt(f, n) == (IF f = <<>> \/ HasHeader(f) THEN 0 ELSE 1) + Cardinality(BareBefore(f, n))

TokenOn(f) == [i \in 1..Len(f) |->
                 IF i = 1 \/ IsBare(f[i]) THEN f[i]
                 ELSE IF IsNumbered(f[i]) THEN UpToFirst(f[i]) ELSE UpToLast(f[i])]
IdOn(f) == [i \in 1..Len(f) |->
              IF i = 1 THEN 0
              ELSE IF IsBare(f[i]) THEN AutoIdAt(f, i)
              ELSE IF IsNumbered(f[i]) THEN ToInt(AfterFirst(f[i])) ELSE ToInt(AfterLast(f[i]))]

\* The entries and the rules before line n.
EntriesBefore(f, n) == {i \in EntriesOf(f) : i < n}
RulesBefore(f, n, rules) == \A i \in 2..Len(f) : i < n /\ IsRule(f[i]) => RuleOn(f[i]) \in ToSet(rules)

-----------------------------------------------------------------------------
(* Loading a file twice: what the tables hold *)

\* Of the entries in P with the same key the last one holds in table t, with
\* keys K and values V.
Holds(t, K, V, P) ==
  \A i \in P : /\ K[i] \in DOMAIN t
               /\ (\A j \in P : i < j => K[j] # K[i]) => t[K[i]] = V[i]

\* Table t has the keys of s, and its values but where an entry of P was made.
Redone(t, s, K, P) ==
  /\ DOMAIN t = DOMAIN s
  /\ \A x \in DOMAIN t : t[x] = s[x] \/ \E i \in P : K[i] = x

\* rules begins with old and repeats some of it.
Repeats(rules, old) ==
  /\ Len(old) <= Len(rules) /\ \A i \in 1..Len(old) : rules[i] = old[i]
  /\ \A i \in 1..Len(rules) : rules[i] \in ToSet(old)

IsTable(t) == t = [x \in DOMAIN t |-> t[x]]

\* While a file is loaded the tables hold what has been read of it.
LinesHold ==
  lpc = "lines" =>
    /\ line >= 2 /\ autoId = AutoIdAt(file, line)
    /\ Holds(vocab, TokenOn(file), IdOn(file), EntriesBefore(file, line))
    /\ Holds(reverseVocab, IdOn(file), TokenOn(file), EntriesBefore(file, line))
    /\ RulesBefore(file, line, merges)
    /\ HasNumber(file) => vocabSize = Declared(file)

\* The tables after the first load hold the whole file.
FirstHolds ==
  /\ IsTable(first.vocab) /\ IsTable(first.reverseVocab)
  /\ Holds(first.vocab, TokenOn(file), IdOn(file), EntriesOf(file))
  /\ Holds(first.reverseVocab, IdOn(file), TokenOn(file), EntriesOf(file))
  /\ first.merges \in Seq(Seq(FileChar) \X Seq(FileChar))
  /\ RulesBefore(file, Len(file) + 1, first.merges)
  /\ HasNumber(file) =>
       first.vocabSize = IF Declared(file) = 0 THEN Cardinality(DOMAIN first.vocab) ELSE Declared(file)
  /\ first.vocabSize = 0 => Cardinality(DOMAIN first.vocab) = 0

\* Between the loads the tables are these; the second load redoes them line by
\* line, and adds only rules that they have.
SecondRedoes ==
  /\ lpc \in {"idle", "first"} =>
       vocab = first.vocab /\ reverseVocab = first.reverseVocab /\ vocabSize = first.vocabSize
  /\ lpc = "lines" =>
       /\ Redone(vocab, first.vocab, TokenOn(file), EntriesBefore(file, line))
       /\ Redone(reverseVocab, first.reverseVocab, IdOn(file), EntriesBefore(file, line))
       /\ vocabSize = IF HasNumber(file) THEN Declared(file) ELSE first.vocabSize
  /\ lpc # "threw" => Repeats(merges, first.merges)

LoadShape ==
  /\ lpc \in {"idle", "first", "lines", "threw"}
  /\ loads \in {0, 1, 2} /\ (loads = 0 => first = NoTables) /\ (loads = 2 => lpc = "idle")
  /\ lpc = "first" => line = 1 /\ autoId = 0
  /\ IsTable(vocab) /\ IsTable(reverseVocab)

ReloadInv == LoadShape /\ LinesHold /\ (first # NoTables => FirstHolds /\ SecondRedoes)

\* Entering a pair leaves a table.
LEMMA WithIsTable == \A t, key, value : IsTable(With(t, key, value))
BY DEF With, IsTable

\* Entering the next entry keeps what holds.
LEMMA WithHolds ==
  ASSUME NEW t, NEW u, NEW K, NEW V, NEW P \in SUBSET Nat, NEW n \in Nat, \A i \in P : i < n,
         NEW key, NEW value, key = K[n], value = V[n], u = With(t, key, value),
         Holds(t, K, V, P)
  PROVE  Holds(u, K, V, P \cup {n})
<1>1. /\ DOMAIN u = DOMAIN t \cup {key} /\ u[key] = value
      /\ \A x \in DOMAIN t : x # key => u[x] = t[x]
  BY DEF With
<1>2. ASSUME NEW i \in P \cup {n}
      PROVE  /\ K[i] \in DOMAIN u
             /\ (\A j \in P \cup {n} : i < j => K[j] # K[i]) => u[K[i]] = V[i]
  <2>1. CASE i = n
    BY <1>1, <2>1
  <2>2. CASE i # n
    <3>1. i \in P /\ i < n
      BY <2>2
    <3>2. K[i] \in DOMAIN t /\ ((\A j \in P : i < j => K[j] # K[i]) => t[K[i]] = V[i])
      BY <3>1, Zenon DEF Holds
    <3> QED
      BY <1>1, <3>1, <3>2, Zenon
  <2> QED
    BY <2>1, <2>2
<1> QED
  BY <1>2 DEF Holds

\* Entering an entry that is in the old table redoes it.
LEMMA WithRedone ==
  ASSUME NEW t, NEW u, NEW s, NEW K, NEW P, NEW n, NEW key, NEW value,
         key = K[n], key \in DOMAIN s, u = With(t, key, value),
         Redone(t, s, K, P)
  PROVE  Redone(u, s, K, P \cup {n})
<1>1. /\ DOMAIN u = DOMAIN t \cup {key}
      /\ \A x \in DOMAIN t : x # key => u[x] = t[x]
  BY DEF With
<1>2. DOMAIN t = DOMAIN s /\ \A x \in DOMAIN t : t[x] = s[x] \/ \E i \in P : K[i] = x
  BY DEF Redone
<1>3. DOMAIN u = DOMAIN s
  BY <1>1, <1>2
<1>4. ASSUME NEW x \in DOMAIN u
      PROVE  u[x] = s[x] \/ \E i \in P \cup {n} : K[i] = x
  <2>1. CASE x = K[n]
    BY <2>1
  <2>2. CASE x # K[n]
    <3>1. x \in DOMAIN t /\ u[x] = t[x]
      BY <1>1, <2>2, Zenon
    <3> QED
      BY <1>2, <3>1
  <2> QED
    BY <2>1, <2>2
<1> QED
  BY <1>3, <1>4 DEF Redone

\* Indices up to a bound, if there are any, have a greatest.
LEMMA GreatestIndex ==
  ASSUME NEW n \in Nat, NEW R \in SUBSET (1..n), R # {}
  PROVE  \E m \in R : \A i \in R : i <= m
<1> DEFINE Bounds == {k \in Nat : \A i \in R : i <= k}
<1>1. R \subseteq Nat /\ \A i \in R : 1 <= i /\ i <= n
  OBVIOUS
<1>2. Bounds \in SUBSET Nat /\ n \in Bounds
  BY <1>1
<1>3. PICK m \in Bounds : \A k \in Bounds : m <= k
  <2> HIDE DEF Bounds
  <2> QED
    BY <1>2, LeastNumber
<1>4. m \in Nat /\ \A i \in R : i <= m
  OBVIOUS
<1>5. m \in R
  <2>1. SUFFICES ASSUME m \notin R PROVE FALSE
    OBVIOUS
  <2>2. \A i \in R : i <= m - 1
    BY <1>1, <1>4, <2>1
  <2>3. m - 1 \in Nat
    <3>1. PICK i \in R : TRUE
      OBVIOUS
    <3>2. i \in Nat /\ 1 <= i /\ i <= m - 1
      BY <1>1, <2>2
    <3> QED
      BY <1>4, <3>2
  <2>4. m - 1 \in Bounds
    BY <2>2, <2>3
  <2> HIDE DEF Bounds
  <2>5. m <= m - 1
    BY <1>3, <2>4
  <2> QED
    BY <1>4, <2>5
<1> QED
  BY <1>4, <1>5

\* Two tables that hold the same entries, one redone from the other with them,
\* are equal.
LEMMA RedoneIsSame ==
  ASSUME NEW t, NEW s, NEW K, NEW V, NEW n \in Nat, NEW P \in SUBSET (1..n),
         IsTable(t), IsTable(s), Holds(t, K, V, P), Holds(s, K, V, P), Redone(t, s, K, P)
  PROVE  t = s
<1>1. DOMAIN t = DOMAIN s /\ \A x \in DOMAIN t : t[x] = s[x] \/ \E i \in P : K[i] = x
  BY DEF Redone
<1>2. ASSUME NEW x \in DOMAIN t
      PROVE  t[x] = s[x]
  <2>1. CASE \E i \in P : K[i] = x
    <3> DEFINE R == {i \in P : K[i] = x}
    <3>1. R \in SUBSET (1..n) /\ R # {}
      BY <2>1
    <3>2. PICK m \in R : \A i \in R : i <= m
      <4> HIDE DEF R
      <4> QED
        BY <3>1, GreatestIndex
    <3>3. m \in P /\ K[m] = x
      OBVIOUS
    <3>4. \A j \in P : m < j => K[j] # K[m]
      <4>1. ASSUME NEW j \in P, m < j, K[j] = K[m] PROVE FALSE
        <5>1. j \in R /\ j \in Nat /\ m \in Nat
          BY <3>3, <4>1
        <5>2. j <= m
          BY <3>2, <5>1
        <5> QED
          BY <4>1, <5>1, <5>2
      <4> QED
        BY <4>1
    <3>5. t[K[m]] = V[m] /\ s[K[m]] = V[m]
      BY <3>3, <3>4 DEF Holds
    <3> QED
      BY <3>3, <3>5
  <2> QED
    BY <1>1, <2>1
<1>3. [x \in DOMAIN t |-> t[x]] = [x \in DOMAIN s |-> s[x]]
  BY <1>1, <1>2
<1> QED
  BY <1>3 DEF IsTable

\* Repeating rules at the end does not change which one comes first.
LEMMA RepeatsSameRule ==
  ASSUME NEW X, NEW old \in Seq(X), NEW rules \in Seq(X), Repeats(rules, old),
         NEW left, NEW right, <<left, right>> \in ToSet(rules)
  PROVE  RuleOf(left, right, rules) = RuleOf(left, right, old)
<1> DEFINE inRules == {m \in 1..Len(rules) : rules[m] = <<left, right>>}
           inOld == {m \in 1..Len(old) : old[m] = <<left, right>>}
<1>1. /\ Len(old) \in Nat /\ Len(rules) \in Nat /\ Len(old) <= Len(rules)
      /\ \A i \in 1..Len(old) : rules[i] = old[i]
      /\ \A i \in 1..Len(rules) : rules[i] \in ToSet(old)
  BY DEF Repeats
<1>2. inOld \in SUBSET Nat /\ inRules \in SUBSET Nat /\ inOld \subseteq inRules
  BY <1>1
<1>3. PICK i \in 1..Len(rules) : rules[i] = <<left, right>>
  BY DEF ToSet
<1>4. inOld # {} /\ inRules # {}
  <2>1. <<left, right>> \in ToSet(old)
    BY <1>1, <1>3
  <2>2. PICK k \in 1..Len(old) : old[k] = <<left, right>>
    BY <2>1 DEF ToSet
  <2>3. k \in inOld
    BY <2>2
  <2> QED
    BY <1>2, <2>3
<1>5. \A m \in inRules : m <= Len(old) => m \in inOld
  BY <1>1
<1>5a. \A m \in inOld : m <= Len(old)
  BY <1>1
<1>6. /\ RuleOf(left, right, rules) = IF inRules = {} THEN 0 ELSE Min(inRules)
      /\ RuleOf(left, right, old) = IF inOld = {} THEN 0 ELSE Min(inOld)
  BY DEF RuleOf
<1> HIDE DEF inRules, inOld
<1>7. /\ Min(inOld) \in inOld /\ \A m \in inOld : Min(inOld) <= m
      /\ Min(inRules) \in inRules /\ \A m \in inRules : Min(inRules) <= m
  BY <1>2, <1>4, MinIndex
<1>8. Min(inRules) <= Min(inOld) /\ Min(inOld) <= Len(old)
  BY <1>2, <1>5a, <1>7
<1>9. Min(inRules) \in inOld
  <2>1. Min(inRules) \in Nat /\ Min(inOld) \in Nat
    BY <1>2, <1>7
  <2>2. Min(inRules) <= Len(old)
    BY <1>1, <1>8, <2>1
  <2> QED
    BY <1>5, <1>7, <2>2
<1>10. Min(inOld) = Min(inRules)
  <2>1. Min(inOld) <= Min(inRules)
    BY <1>7, <1>9
  <2>2. Min(inRules) \in Nat /\ Min(inOld) \in Nat
    BY <1>2, <1>7
  <2> QED
    BY <1>8, <2>1, <2>2
<1> QED
  BY <1>4, <1>6, <1>10

\* A rule that is already there may be repeated.
LEMMA AppendRepeats ==
  ASSUME NEW X, NEW old \in Seq(X), NEW rules \in Seq(X), Repeats(rules, old),
         NEW r \in ToSet(old)
  PROVE  Repeats(Append(rules, r), old)
<1>1. /\ Len(old) \in Nat /\ Len(rules) \in Nat /\ Len(Append(rules, r)) = Len(rules) + 1
      /\ \A i \in 1..Len(rules) : Append(rules, r)[i] = rules[i]
      /\ Append(rules, r)[Len(rules) + 1] = r
  OBVIOUS
<1>2. /\ Len(old) <= Len(rules) /\ \A i \in 1..Len(old) : rules[i] = old[i]
      /\ \A i \in 1..Len(rules) : rules[i] \in ToSet(old)
  BY DEF Repeats
<1> DEFINE u == Append(rules, r)
<1> HIDE DEF u
<1>3. Len(old) <= Len(u) /\ \A i \in 1..Len(old) : u[i] = old[i]
  BY <1>1, <1>2 DEF u
<1>4. ASSUME NEW i \in 1..Len(u)
      PROVE  u[i] \in ToSet(old)
  <2>1. i \in 1..Len(rules) \/ i = Len(rules) + 1
    BY <1>1 DEF u
  <2>2. CASE i \in 1..Len(rules)
    BY <1>1, <1>2, <2>2 DEF u
  <2>3. CASE i = Len(rules) + 1
    BY <1>1, <2>3 DEF u
  <2> QED
    BY <2>1, <2>2, <2>3
<1> QED
  BY <1>3, <1>4 DEF Repeats, u

\* The entries before the next line.
LEMMA EntriesStep ==
  ASSUME NEW C, NEW f \in Seq(C), NEW n \in Nat
  PROVE  /\ EntriesOf(f) \subseteq 1..Len(f) /\ EntriesBefore(f, n) \subseteq EntriesOf(f)
         /\ n \in EntriesOf(f) => EntriesBefore(f, n + 1) = EntriesBefore(f, n) \cup {n}
         /\ n \notin EntriesOf(f) => EntriesBefore(f, n + 1) = EntriesBefore(f, n)
<1>1. Len(f) \in Nat /\ EntriesOf(f) \subseteq 1..Len(f)
  BY DEF EntriesOf
<1>2. \A i \in EntriesOf(f) : i < n + 1 <=> i < n \/ i = n
  BY <1>1
<1> QED
  BY <1>1, <1>2 DEF EntriesBefore

\* A table goes on holding what has been read.
LEMMA HoldsStep ==
  ASSUME NEW C, NEW f \in Seq(C), NEW n \in Nat, NEW t, NEW u, NEW K, NEW V,
         Holds(t, K, V, EntriesBefore(f, n)),
         n \in EntriesOf(f) => u = With(t, K[n], V[n]),
         n \notin EntriesOf(f) => u = t
  PROVE  Holds(u, K, V, EntriesBefore(f, n + 1))
<1>1. /\ EntriesOf(f) \subseteq 1..Len(f) /\ EntriesBefore(f, n) \subseteq EntriesOf(f)
      /\ n \in EntriesOf(f) => EntriesBefore(f, n + 1) = EntriesBefore(f, n) \cup {n}
      /\ n \notin EntriesOf(f) => EntriesBefore(f, n + 1) = EntriesBefore(f, n)
  BY EntriesStep
<1>2. EntriesBefore(f, n) \in SUBSET Nat /\ \A i \in EntriesBefore(f, n) : i < n
  BY <1>1 DEF EntriesBefore
<1>3. CASE n \in EntriesOf(f)
  <2>1. PICK key, value : key = K[n] /\ value = V[n]
    OBVIOUS
  <2>2. u = With(t, key, value)
    BY <1>3, <2>1, Zenon
  <2>3. Holds(u, K, V, EntriesBefore(f, n) \cup {n})
    BY <1>2, <2>1, <2>2, WithHolds
  <2> QED
    BY <1>1, <1>3, <2>3
<1>4. CASE n \notin EntriesOf(f)
  BY <1>1, <1>4
<1> QED
  BY <1>3, <1>4

\* And on being redone.
LEMMA RedoneStep ==
  ASSUME NEW C, NEW f \in Seq(C), NEW n \in Nat, NEW t, NEW u, NEW s, NEW K, NEW V,
         Holds(s, K, V, EntriesOf(f)), Redone(t, s, K, EntriesBefore(f, n)),
         n \in EntriesOf(f) => u = With(t, K[n], V[n]),
         n \notin EntriesOf(f) => u = t
  PROVE  Redone(u, s, K, EntriesBefore(f, n + 1))
<1>1. /\ n \in EntriesOf(f) => EntriesBefore(f, n + 1) = EntriesBefore(f, n) \cup {n}
      /\ n \notin EntriesOf(f) => EntriesBefore(f, n + 1) = EntriesBefore(f, n)
  BY EntriesStep
<1>2. CASE n \in EntriesOf(f)
  <2>1. PICK key, value : key = K[n] /\ value = V[n]
    OBVIOUS
  <2>2. u = With(t, key, value)
    BY <1>2, <2>1, Zenon
  <2>3. key \in DOMAIN s
    BY <1>2, <2>1, Zenon DEF Holds
  <2>4. Redone(u, s, K, EntriesBefore(f, n) \cup {n})
    BY <2>1, <2>2, <2>3, WithRedone
  <2> QED
    BY <1>1, <1>2, <2>4
<1>3. CASE n \notin EntriesOf(f)
  BY <1>1, <1>3
<1> QED
  BY <1>2, <1>3

\* Past the end of the file all entries have been read.
LEMMA EntriesAtEnd ==
  ASSUME NEW C, NEW f \in Seq(C), NEW n \in Nat, n > Len(f)
  PROVE  EntriesBefore(f, n) = EntriesOf(f)
BY DEF EntriesBefore, EntriesOf

\* The automatic id counts the bare lines.
LEMMA AutoIdStep ==
  ASSUME NEW f, NEW n \in Nat, n >= 2
  PROVE  AutoIdAt(f, n + 1) = IF IsBare(f[n]) THEN AutoIdAt(f, n) + 1 ELSE AutoIdAt(f, n)
<1> DEFINE B == BareBefore(f, n)
<1>1. B \subseteq 2..(n - 1) /\ n \notin B
  BY DEF BareBefore
<1>2. IsFiniteSet(B)
  <2>1. IsFiniteSet(2..(n - 1))
    BY FS_Interval
  <2> QED
    BY <1>1, <2>1, FS_Subset
<1>3. BareBefore(f, n + 1) = IF IsBare(f[n]) THEN B \cup {n} ELSE B
  <2>1. \A i : i \in 2..n <=> i \in 2..(n - 1) \/ i = n
    OBVIOUS
  <2>2. n + 1 - 1 = n
    OBVIOUS
  <2> QED
    BY <2>1, <2>2 DEF BareBefore
<1> HIDE DEF B
<1>4. Cardinality(B) \in Nat /\ Cardinality(B \cup {n}) = Cardinality(B) + 1
  BY <1>1, <1>2, FS_CardinalityType, FS_AddElement
<1>5. AutoIdAt(f, n) = (IF f = <<>> \/ HasHeader(f) THEN 0 ELSE 1) + Cardinality(B)
  BY DEF AutoIdAt, B
<1>6. AutoIdAt(f, n + 1) = (IF f = <<>> \/ HasHeader(f) THEN 0 ELSE 1)
                             + Cardinality(IF IsBare(f[n]) THEN B \cup {n} ELSE B)
  BY <1>3 DEF AutoIdAt
<1> QED
  BY <1>4, <1>5, <1>6

\* It starts after the first line.
LEMMA AutoIdStarts ==
  ASSUME NEW f
  PROVE  AutoIdAt(f, 2) = IF f = <<>> \/ HasHeader(f) THEN 0 ELSE 1
<1>1. BareBefore(f, 2) = {}
  <2>1. 2..(2 - 1) = {}
    OBVIOUS
  <2> QED
    BY <2>1 DEF BareBefore
<1>2. Cardinality(BareBefore(f, 2)) = 0
  BY <1>1, FS_EmptySet
<1> QED
  BY <1>2 DEF AutoIdAt

-----------------------------------------------------------------------------
(* Loading a file twice: the steps *)

\* The first line enters its token unless it is a header.
LEMMA FirstLineReads ==
  ASSUME LoadFirstLine, lpc' # "threw", file \in Seq(Seq(FileChar)), autoId = 0
  PROVE  /\ lpc = "first" /\ lpc' = "lines" /\ line' = 2
         /\ file' = file /\ loads' = loads /\ first' = first /\ merges' = merges
         /\ autoId' = AutoIdAt(file, 2)
         /\ 1 \in EntriesOf(file) => /\ vocab' = With(vocab, TokenOn(file)[1], IdOn(file)[1])
                                     /\ reverseVocab' = With(reverseVocab, IdOn(file)[1], TokenOn(file)[1])
         /\ 1 \notin EntriesOf(file) => vocab' = vocab /\ reverseVocab' = reverseVocab
         /\ vocabSize' = IF HasNumber(file) THEN Declared(file) ELSE vocabSize
<1>1. lpc = "first" /\ line' = 2 /\ file' = file /\ loads' = loads /\ first' = first
  BY DEF LoadFirstLine
<1>2. CASE file = <<>>
  <2>1. EntriesOf(file) = {} /\ ~HasNumber(file)
    BY <1>2 DEF EntriesOf, HasNumber, HasHeader
  <2>2. AutoIdAt(file, 2) = 0
    BY <1>2, AutoIdStarts
  <2>3. lpc' = "lines" /\ UNCHANGED <<tables, autoId>>
    BY <1>2 DEF LoadFirstLine
  <2> QED
    BY <1>1, <2>1, <2>2, <2>3 DEF tables
<1>3. CASE HasHeader(file)
  <2>1. 1 \notin EntriesOf(file)
    BY <1>3 DEF EntriesOf
  <2>2. AutoIdAt(file, 2) = 0
    BY <1>3, AutoIdStarts
  <2>3. /\ autoId' = 0 /\ lpc' = "lines"
        /\ vocabSize' = IF Contains(file[1], ":") THEN Declared(file) ELSE vocabSize
        /\ UNCHANGED <<vocab, reverseVocab, merges>>
    BY <1>3 DEF LoadFirstLine, HasHeader, Declared
  <2> QED
    BY <1>1, <1>3, <2>1, <2>2, <2>3 DEF HasNumber
<1>4. CASE file # <<>> /\ ~HasHeader(file)
  <2>1. 1 \in 1..Len(file)
    BY <1>4
  <2>2. 1 \in EntriesOf(file) /\ TokenOn(file)[1] = file[1] /\ IdOn(file)[1] = 0 /\ ~HasNumber(file)
    BY <1>4, <2>1 DEF EntriesOf, TokenOn, IdOn, HasNumber
  <2>3. AutoIdAt(file, 2) = 1
    BY <1>4, AutoIdStarts
  <2>4. /\ autoId' = 1 /\ lpc' = "lines" /\ UNCHANGED <<merges, vocabSize>>
        /\ vocab' = With(vocab, file[1], 0) /\ reverseVocab' = With(reverseVocab, 0, file[1])
    BY <1>4 DEF LoadFirstLine, HasHeader, Enter
  <2> QED
    BY <1>1, <2>2, <2>3, <2>4
<1> QED
  BY <1>2, <1>3, <1>4

\* A line enters its token, or adds its rule, or does nothing.
LEMMA LineReads ==
  ASSUME LoadLine, lpc' # "threw", file \in Seq(Seq(FileChar)),
         line \in Nat, line >= 2, autoId = AutoIdAt(file, line)
  PROVE  /\ lpc = "lines" /\ lpc' = "lines" /\ line \in 2..Len(file) /\ line' = line + 1
         /\ file' = file /\ loads' = loads /\ first' = first /\ vocabSize' = vocabSize
         /\ autoId' = AutoIdAt(file, line + 1)
         /\ line \in EntriesOf(file) =>
              /\ vocab' = With(vocab, TokenOn(file)[line], IdOn(file)[line])
              /\ reverseVocab' = With(reverseVocab, IdOn(file)[line], TokenOn(file)[line])
         /\ line \notin EntriesOf(file) => vocab' = vocab /\ reverseVocab' = reverseVocab
         /\ merges' = IF IsRule(file[line]) THEN Append(merges, RuleOn(file[line])) ELSE merges
<1> DEFINE l == file[line]
           enters == /\ vocab' = With(vocab, TokenOn(file)[line], IdOn(file)[line])
                     /\ reverseVocab' = With(reverseVocab, IdOn(file)[line], TokenOn(file)[line])
                     /\ merges' = merges
<1>1. lpc = "lines" /\ line' = line + 1 /\ file' = file /\ loads' = loads /\ first' = first
  BY DEF LoadLine
<1>2. line <= Len(file)
  BY DEF LoadLine
<1>3. line \in 2..Len(file) /\ line \in 1..Len(file) /\ line # 1
  BY <1>2
<1>4. /\ line \in EntriesOf(file) <=> IsBare(l) \/ IsNumbered(l) \/ IsSpaced(l)
      /\ TokenOn(file)[line] = IF IsBare(l) THEN l ELSE IF IsNumbered(l) THEN UpToFirst(l) ELSE UpToLast(l)
      /\ IdOn(file)[line] = IF IsBare(l) THEN AutoIdAt(file, line)
                            ELSE IF IsNumbered(l) THEN ToInt(AfterFirst(l)) ELSE ToInt(AfterLast(l))
  BY <1>3 DEF EntriesOf, TokenOn, IdOn
<1>5. AutoIdAt(file, line + 1) = IF IsBare(l) THEN autoId + 1 ELSE autoId
  BY AutoIdStep
<1>6. \/ l = <<>> /\ UNCHANGED <<tables, autoId, lpc>>
      \/ /\ l # <<>> /\ Blanks(l) = {}
         /\ Enter(l, autoId) /\ autoId' = autoId + 1
         /\ UNCHANGED <<merges, vocabSize, lpc>>
      \/ /\ Blanks(l) # {} /\ l[1] # " " /\ Short(AfterFirst(l))
         /\ Enter(UpToFirst(l), ToInt(AfterFirst(l))) /\ UNCHANGED <<merges, vocabSize, autoId, lpc>>
      \/ /\ Blanks(l) # {} /\ l[1] # " " /\ ~Short(AfterFirst(l))
         /\ merges' = Append(merges, RuleOn(l))
         /\ UNCHANGED <<vocab, reverseVocab, vocabSize, autoId, lpc>>
      \/ /\ Blanks(l) # {} /\ l[1] = " "
         /\ Enter(UpToLast(l), ToInt(AfterLast(l))) /\ UNCHANGED <<merges, vocabSize, autoId, lpc>>
  BY DEF LoadLine, NextAutoId, Short, UpToFirst, AfterFirst, UpToLast, AfterLast, Blanks, RuleOn
<1> HIDE DEF l
<1>7. CASE l = <<>> /\ UNCHANGED <<tables, autoId, lpc>>
  <2>1. ~IsBare(l) /\ ~IsNumbered(l) /\ ~IsSpaced(l) /\ ~IsRule(l)
    <3>1. Blanks(l) = {}
      BY <1>7 DEF Blanks
    <3> QED
      BY <1>7, <3>1 DEF IsBare, IsNumbered, IsSpaced, IsRule
  <2> QED
    BY <1>1, <1>3, <1>4, <1>5, <1>7, <2>1 DEF tables, l
<1>8. CASE /\ l # <<>> /\ Blanks(l) = {}
           /\ Enter(l, autoId) /\ autoId' = autoId + 1
           /\ UNCHANGED <<merges, vocabSize, lpc>>
  <2>1. IsBare(l) /\ ~IsRule(l)
    BY <1>8 DEF IsBare, IsRule
  <2> QED
    BY <1>1, <1>3, <1>4, <1>5, <1>8, <2>1 DEF Enter, l
<1>9. CASE /\ Blanks(l) # {} /\ l[1] # " " /\ Short(AfterFirst(l))
           /\ Enter(UpToFirst(l), ToInt(AfterFirst(l))) /\ UNCHANGED <<merges, vocabSize, autoId, lpc>>
  <2>1. IsNumbered(l) /\ ~IsRule(l) /\ ~IsBare(l)
    BY <1>9 DEF IsNumbered, IsBare, IsRule
  <2> QED
    BY <1>1, <1>3, <1>4, <1>5, <1>9, <2>1 DEF Enter, l
<1>10. CASE /\ Blanks(l) # {} /\ l[1] # " " /\ ~Short(AfterFirst(l))
            /\ merges' = Append(merges, RuleOn(l))
            /\ UNCHANGED <<vocab, reverseVocab, vocabSize, autoId, lpc>>
  <2>1. IsRule(l) /\ ~IsNumbered(l) /\ ~IsBare(l) /\ ~IsSpaced(l)
    BY <1>10 DEF IsNumbered, IsBare, IsRule, IsSpaced
  <2> QED
    BY <1>1, <1>3, <1>4, <1>5, <1>10, <2>1 DEF l
<1>11. CASE /\ Blanks(l) # {} /\ l[1] = " "
            /\ Enter(UpToLast(l), ToInt(AfterLast(l))) /\ UNCHANGED <<merges, vocabSize, autoId, lpc>>
  <2>1. IsSpaced(l) /\ ~IsRule(l) /\ ~IsBare(l) /\ ~IsNumbered(l)
    BY <1>11 DEF IsNumbered, IsBare, IsRule, IsSpaced
  <2> QED
    BY <1>1, <1>3, <1>4, <1>5, <1>11, <2>1 DEF Enter, l
<1> QED
  BY <1>6, <1>7, <1>8, <1>9, <1>10, <1>11

\* Nothing is claimed of a load that threw.
LEMMA ThrowKeepsReload ==
  ASSUME ReloadInv, LoadFirstLine \/ LoadLine, lpc' = "threw"
  PROVE  ReloadInv'
<1>1. /\ lpc \in {"first", "lines"}
      /\ file' = file /\ loads' = loads /\ first' = first
  BY DEF LoadFirstLine, LoadLine
<1>2. vocab' = vocab /\ reverseVocab' = reverseVocab
  <2>1. CASE LoadFirstLine
    BY <2>1 DEF LoadFirstLine, tables
  <2>2. CASE LoadLine
    BY <2>2 DEF LoadLine, tables
  <2> QED
    BY <2>1, <2>2
<1>3. LoadShape'
  BY <1>1, <1>2 DEF ReloadInv, LoadShape
<1>4. LinesHold'
  BY DEF LinesHold
<1>5. first # NoTables => FirstHolds'
  BY <1>1 DEF ReloadInv, FirstHolds
<1>6. SecondRedoes'
  BY DEF SecondRedoes
<1> QED
  BY <1>1, <1>3, <1>4, <1>5, <1>6 DEF ReloadInv

LEMMA FirstLineKeepsReload ==
  ASSUME ReloadInv, MergesShape, LoadFirstLine, lpc' # "threw"
  PROVE  ReloadInv'
<1>1. file \in Seq(Seq(FileChar)) /\ line = 1 /\ autoId = 0 /\ lpc = "first"
  BY DEF MergesShape, ReloadInv, LoadShape, LoadFirstLine
<1>2. /\ lpc' = "lines" /\ line' = 2
      /\ file' = file /\ loads' = loads /\ first' = first /\ merges' = merges
      /\ autoId' = AutoIdAt(file, 2)
      /\ vocabSize' = IF HasNumber(file) THEN Declared(file) ELSE vocabSize
  BY <1>1, FirstLineReads
<1>3. /\ 1 \in EntriesOf(file) => /\ vocab' = With(vocab, TokenOn(file)[1], IdOn(file)[1])
                                  /\ reverseVocab' = With(reverseVocab, IdOn(file)[1], TokenOn(file)[1])
      /\ 1 \notin EntriesOf(file) => vocab' = vocab /\ reverseVocab' = reverseVocab
  BY <1>1, FirstLineReads
<1>4. EntriesBefore(file, 1) = {}
  BY <1>1 DEF EntriesBefore, EntriesOf
<1>5. /\ Holds(vocab', TokenOn(file), IdOn(file), EntriesBefore(file, 2))
      /\ Holds(reverseVocab', IdOn(file), TokenOn(file), EntriesBefore(file, 2))
  <2>1. /\ Holds(vocab, TokenOn(file), IdOn(file), EntriesBefore(file, 1))
        /\ Holds(reverseVocab, IdOn(file), TokenOn(file), EntriesBefore(file, 1))
    BY <1>4 DEF Holds
  <2>2. /\ Holds(vocab', TokenOn(file), IdOn(file), EntriesBefore(file, 1 + 1))
        /\ Holds(reverseVocab', IdOn(file), TokenOn(file), EntriesBefore(file, 1 + 1))
    BY <1>1, <1>3, <2>1, HoldsStep
  <2> QED
    BY <2>2
<1>6. LoadShape'
  <2>1. IsTable(vocab') /\ IsTable(reverseVocab')
    BY <1>3, WithIsTable DEF ReloadInv, LoadShape
  <2> QED
    BY <1>1, <1>2, <2>1 DEF ReloadInv, LoadShape
<1>7. LinesHold'
  <2>1. RulesBefore(file, 2, merges)
    BY <1>1 DEF RulesBefore
  <2> QED
    BY <1>2, <1>5, <2>1 DEF LinesHold
<1>8. ASSUME first # NoTables
      PROVE  FirstHolds' /\ SecondRedoes'
  <2>1. FirstHolds /\ SecondRedoes
    BY <1>8 DEF ReloadInv
  <2>2. FirstHolds'
    BY <1>2, <2>1 DEF FirstHolds
  <2>3. /\ vocab = first.vocab /\ reverseVocab = first.reverseVocab /\ vocabSize = first.vocabSize
        /\ Repeats(merges, first.merges)
    BY <1>1, <2>1 DEF SecondRedoes
  <2>4. /\ Redone(vocab, first.vocab, TokenOn(file), EntriesBefore(file, 1))
        /\ Redone(reverseVocab, first.reverseVocab, IdOn(file), EntriesBefore(file, 1))
    BY <2>3 DEF Redone
  <2>5. /\ Holds(first.vocab, TokenOn(file), IdOn(file), EntriesOf(file))
        /\ Holds(first.reverseVocab, IdOn(file), TokenOn(file), EntriesOf(file))
    BY <2>1 DEF FirstHolds
  <2>6. /\ Redone(vocab', first.vocab, TokenOn(file), EntriesBefore(file, 1 + 1))
        /\ Redone(reverseVocab', first.reverseVocab, IdOn(file), EntriesBefore(file, 1 + 1))
    <3>1. Redone(vocab', first.vocab, TokenOn(file), EntriesBefore(file, 1 + 1))
      BY <1>1, <1>3, <2>4, <2>5, RedoneStep
    <3>2. Redone(reverseVocab', first.reverseVocab, IdOn(file), EntriesBefore(file, 1 + 1))
      BY <1>1, <1>3, <2>4, <2>5, RedoneStep
    <3> QED
      BY <3>1, <3>2
  <2>7. SecondRedoes'
    BY <1>2, <2>3, <2>6 DEF SecondRedoes
  <2> QED
    BY <2>2, <2>7
<1> QED
  BY <1>2, <1>6, <1>7, <1>8 DEF ReloadInv

LEMMA LineKeepsReload ==
  ASSUME ReloadInv, MergesShape, LoadLine, lpc' # "threw"
  PROVE  ReloadInv'
<1>1. /\ file \in Seq(Seq(FileChar)) /\ lpc = "lines" /\ line \in Nat /\ line >= 2
      /\ autoId = AutoIdAt(file, line) /\ merges \in Seq(Seq(FileChar) \X Seq(FileChar))
  BY DEF MergesShape, ReloadInv, LinesHold, LoadLine
<1>2. /\ lpc' = "lines" /\ line \in 2..Len(file) /\ line' = line + 1
      /\ file' = file /\ loads' = loads /\ first' = first /\ vocabSize' = vocabSize
      /\ autoId' = AutoIdAt(file, line + 1)
      /\ merges' = IF IsRule(file[line]) THEN Append(merges, RuleOn(file[line])) ELSE merges
  BY <1>1, LineReads
<1>3. /\ line \in EntriesOf(file) =>
           /\ vocab' = With(vocab, TokenOn(file)[line], IdOn(file)[line])
           /\ reverseVocab' = With(reverseVocab, IdOn(file)[line], TokenOn(file)[line])
      /\ line \notin EntriesOf(file) => vocab' = vocab /\ reverseVocab' = reverseVocab
  BY <1>1, LineReads
<1>4. /\ Holds(vocab', TokenOn(file), IdOn(file), EntriesBefore(file, line + 1))
      /\ Holds(reverseVocab', IdOn(file), TokenOn(file), EntriesBefore(file, line + 1))
  <2>1. /\ Holds(vocab, TokenOn(file), IdOn(file), EntriesBefore(file, line))
        /\ Holds(reverseVocab, IdOn(file), TokenOn(file), EntriesBefore(file, line))
    BY <1>1 DEF ReloadInv, LinesHold
  <2> QED
    BY <1>1, <1>3, <2>1, HoldsStep
<1>5. LoadShape'
  <2>1. IsTable(vocab') /\ IsTable(reverseVocab')
    BY <1>3, WithIsTable DEF ReloadInv, LoadShape
  <2> QED
    BY <1>1, <1>2, <2>1 DEF ReloadInv, LoadShape
<1>6. RulesBefore(file, line + 1, merges')
  <2>1. RulesBefore(file, line, merges)
    BY <1>1 DEF ReloadInv, LinesHold
  <2>2. ToSet(merges) \subseteq ToSet(merges') /\ (IsRule(file[line]) => RuleOn(file[line]) \in ToSet(merges'))
    <3>1. CASE IsRule(file[line])
      <4>1. PICK r : r = RuleOn(file[line])
        OBVIOUS
      <4>2. merges' = Append(merges, r)
        BY <1>2, <3>1, <4>1
      <4>3. /\ Len(merges) \in Nat /\ Len(merges') = Len(merges) + 1 /\ merges'[Len(merges) + 1] = r
            /\ \A i \in 1..Len(merges) : merges'[i] = merges[i]
        BY <1>1, <4>2
      <4>4. DOMAIN merges = 1..Len(merges) /\ DOMAIN merges' = 1..Len(merges')
        BY <1>1, <4>2
      <4> QED
        BY <4>1, <4>3, <4>4 DEF ToSet
    <3>2. CASE ~IsRule(file[line])
      BY <1>2, <3>2
    <3> QED
      BY <3>1, <3>2
  <2>3. ASSUME NEW i \in 2..Len(file), i < line + 1, IsRule(file[i])
        PROVE  RuleOn(file[i]) \in ToSet(merges')
    <3>1. CASE i = line
      BY <2>2, <2>3, <3>1
    <3>2. CASE i < line
      BY <2>1, <2>2, <2>3, <3>2 DEF RulesBefore
    <3> QED
      BY <1>1, <2>3, <3>1, <3>2
  <2> QED
    BY <2>3 DEF RulesBefore
<1>7. LinesHold'
  <2>1. HasNumber(file) => vocabSize = Declared(file)
    BY <1>1 DEF ReloadInv, LinesHold
  <2>2. line + 1 >= 2
    BY <1>1
  <2> QED
    BY <1>2, <1>4, <1>6, <2>1, <2>2 DEF LinesHold
<1>8. ASSUME first # NoTables
      PROVE  FirstHolds' /\ SecondRedoes'
  <2>1. FirstHolds /\ SecondRedoes
    BY <1>8 DEF ReloadInv
  <2>2. FirstHolds'
    BY <1>2, <2>1 DEF FirstHolds
  <2>3. /\ Redone(vocab, first.vocab, TokenOn(file), EntriesBefore(file, line))
        /\ Redone(reverseVocab, first.reverseVocab, IdOn(file), EntriesBefore(file, line))
        /\ vocabSize = IF HasNumber(file) THEN Declared(file) ELSE first.vocabSize
        /\ Repeats(merges, first.merges)
    BY <1>1, <2>1 DEF SecondRedoes
  <2>4. /\ Holds(first.vocab, TokenOn(file), IdOn(file), EntriesOf(file))
        /\ Holds(first.reverseVocab, IdOn(file), TokenOn(file), EntriesOf(file))
        /\ first.merges \in Seq(Seq(FileChar) \X Seq(FileChar))
        /\ RulesBefore(file, Len(file) + 1, first.merges)
    BY <2>1 DEF FirstHolds
  <2>5. Redone(vocab', first.vocab, TokenOn(file), EntriesBefore(file, line + 1))
    BY <1>1, <1>3, <2>3, <2>4, RedoneStep
  <2>6. Redone(reverseVocab', first.reverseVocab, IdOn(file), EntriesBefore(file, line + 1))
    BY <1>1, <1>3, <2>3, <2>4, RedoneStep
  <2>7. Repeats(merges', first.merges)
    <3>1. CASE IsRule(file[line])
      <4>1. line < Len(file) + 1
        BY <1>2
      <4>2. PICK r : r = RuleOn(file[line])
        OBVIOUS
      <4>3. r \in ToSet(first.merges) /\ merges' = Append(merges, r)
        BY <1>2, <2>4, <3>1, <4>1, <4>2 DEF RulesBefore
      <4> QED
        BY <1>1, <2>3, <2>4, <4>3, AppendRepeats
    <3>2. CASE ~IsRule(file[line])
      BY <1>2, <2>3, <3>2
    <3> QED
      BY <3>1, <3>2
  <2>8. SecondRedoes'
    BY <1>2, <2>3, <2>5, <2>6, <2>7 DEF SecondRedoes
  <2> QED
    BY <2>2, <2>8
<1> QED
  BY <1>2, <1>5, <1>7, <1>8 DEF ReloadInv

\* At its end the second load has made the tables of the first.
LEMMA EndKeepsReload ==
  ASSUME ReloadInv, MergesShape, LoadEnd
  PROVE  ReloadInv'
<1>1. /\ file \in Seq(Seq(FileChar)) /\ merges \in Seq(Seq(FileChar) \X Seq(FileChar)) /\ line \in Nat
      /\ Len(file) \in Nat
  BY DEF MergesShape
<1>2. /\ lpc = "lines" /\ line > Len(file)
      /\ vocabSize' = (IF vocabSize = 0 THEN Cardinality(DOMAIN vocab) ELSE vocabSize)
      /\ lpc' = "idle" /\ loads' = loads + 1
      /\ vocab' = vocab /\ reverseVocab' = reverseVocab /\ merges' = merges /\ file' = file
  BY DEF LoadEnd
<1>3. EntriesBefore(file, line) = EntriesOf(file) /\ EntriesOf(file) \subseteq 1..Len(file)
  BY <1>1, <1>2, EntriesAtEnd DEF EntriesOf
<1>4. /\ Holds(vocab, TokenOn(file), IdOn(file), EntriesOf(file))
      /\ Holds(reverseVocab, IdOn(file), TokenOn(file), EntriesOf(file))
      /\ RulesBefore(file, line, merges)
      /\ HasNumber(file) => vocabSize = Declared(file)
      /\ IsTable(vocab) /\ IsTable(reverseVocab)
      /\ loads \in {0, 1} /\ (loads = 0 => first = NoTables)
  BY <1>2, <1>3 DEF ReloadInv, LoadShape, LinesHold
<1>5. LinesHold'
  BY <1>2 DEF LinesHold
<1>6. CASE loads = 0
  <2>1. first' = [vocab |-> vocab, reverseVocab |-> reverseVocab, merges |-> merges, vocabSize |-> vocabSize']
    BY <1>6 DEF LoadEnd
  <2>2. /\ first'.vocab = vocab /\ first'.reverseVocab = reverseVocab /\ first'.merges = merges
        /\ first'.vocabSize = vocabSize'
    BY <2>1
  <2>3. RulesBefore(file, Len(file) + 1, merges)
    BY <1>1, <1>2, <1>4 DEF RulesBefore
  <2>4. /\ HasNumber(file) =>
             vocabSize' = IF Declared(file) = 0 THEN Cardinality(DOMAIN vocab) ELSE Declared(file)
        /\ vocabSize' = 0 => Cardinality(DOMAIN vocab) = 0
    BY <1>2, <1>4
  <2>5. FirstHolds'
    BY <1>1, <1>2, <1>4, <2>2, <2>3, <2>4 DEF FirstHolds
  <2>6. Repeats(merges, merges)
    BY <1>1 DEF Repeats, ToSet
  <2>7. SecondRedoes'
    BY <1>2, <2>2, <2>6 DEF SecondRedoes
  <2>8. LoadShape'
    BY <1>2, <1>4, <1>6 DEF LoadShape
  <2> QED
    BY <1>5, <2>5, <2>7, <2>8 DEF ReloadInv
<1>7. CASE loads = 1
  <2>1. first' = first
    BY <1>7 DEF LoadEnd
  <2>2. LoadShape'
    BY <1>2, <1>4, <1>7 DEF LoadShape
  <2>3. ASSUME first # NoTables
        PROVE  FirstHolds' /\ SecondRedoes'
    <3>1. FirstHolds /\ SecondRedoes
      BY <2>3 DEF ReloadInv
    <3>2. FirstHolds'
      BY <1>2, <2>1, <3>1 DEF FirstHolds
    <3>3. /\ Redone(vocab, first.vocab, TokenOn(file), EntriesOf(file))
          /\ Redone(reverseVocab, first.reverseVocab, IdOn(file), EntriesOf(file))
          /\ vocabSize = IF HasNumber(file) THEN Declared(file) ELSE first.vocabSize
          /\ Repeats(merges, first.merges)
      BY <1>2, <1>3, <3>1 DEF SecondRedoes
    <3>4. /\ Holds(first.vocab, TokenOn(file), IdOn(file), EntriesOf(file))
          /\ Holds(first.reverseVocab, IdOn(file), TokenOn(file), EntriesOf(file))
          /\ IsTable(first.vocab) /\ IsTable(first.reverseVocab)
      BY <3>1 DEF FirstHolds
    <3>5. vocab = first.vocab
      BY <1>1, <1>3, <1>4, <3>3, <3>4, RedoneIsSame
    <3>6. reverseVocab = first.reverseVocab
      BY <1>1, <1>3, <1>4, <3>3, <3>4, RedoneIsSame
    <3>7. vocabSize' = first.vocabSize
      <4>1. /\ HasNumber(file) =>
                 first.vocabSize = IF Declared(file) = 0 THEN Cardinality(DOMAIN first.vocab) ELSE Declared(file)
            /\ first.vocabSize = 0 => Cardinality(DOMAIN first.vocab) = 0
        BY <3>1 DEF FirstHolds
      <4> QED
        BY <1>2, <3>3, <3>5, <4>1
    <3>8. SecondRedoes'
      BY <1>2, <2>1, <3>3, <3>5, <3>6, <3>7 DEF SecondRedoes
    <3> QED
      BY <3>2, <3>8
  <2> QED
    BY <1>5, <2>1, <2>2, <2>3 DEF ReloadInv
<1> QED
  BY <1>4, <1>6, <1>7

LEMMA CallKeepsReload ==
  ASSUME ReloadInv, NEW f, LoadCall(f)
  PROVE  ReloadInv'
<1>1. /\ lpc = "idle" /\ lpc' = "first" /\ line' = 1 /\ autoId' = 0 /\ file' = f
      /\ loads' = loads /\ first' = first /\ loads < 2 /\ (loads = 1 => f = file)
      /\ vocab' = vocab /\ reverseVocab' = reverseVocab /\ merges' = merges /\ vocabSize' = vocabSize
  BY DEF LoadCall, tables
<1>2. loads \in {0, 1} /\ (loads = 0 => first = NoTables)
  BY <1>1 DEF ReloadInv, LoadShape
<1>3. LoadShape'
  BY <1>1, <1>2 DEF ReloadInv, LoadShape
<1>4. LinesHold'
  BY <1>1 DEF LinesHold
<1>5. ASSUME first # NoTables
      PROVE  FirstHolds' /\ SecondRedoes'
  <2>1. file' = file
    BY <1>1, <1>2, <1>5
  <2>2. FirstHolds'
    BY <1>1, <1>5, <2>1 DEF ReloadInv, FirstHolds
  <2>3. SecondRedoes'
    BY <1>1, <1>5 DEF ReloadInv, SecondRedoes
  <2> QED
    BY <2>2, <2>3
<1> QED
  BY <1>1, <1>3, <1>4, <1>5 DEF ReloadInv

LEMMA AddKeepsReload ==
  ASSUME ReloadInv, NEW token, NEW id, AddToken(token, id)
  PROVE  ReloadInv'
<1>1. /\ lpc = "idle" /\ lpc' = "idle" /\ loads' = loads /\ first' = NoTables
      /\ vocab' = With(vocab, token, id) /\ reverseVocab' = With(reverseVocab, id, token)
  BY DEF AddToken, Enter
<1>2. IsTable(vocab') /\ IsTable(reverseVocab')
  BY <1>1, WithIsTable
<1>3. LoadShape' /\ LinesHold'
  BY <1>1, <1>2 DEF ReloadInv, LoadShape, LinesHold
<1> QED
  BY <1>1, <1>3 DEF ReloadInv

\* encode() changes nothing of this.
LEMMA RestKeepsReload ==
  ASSUME ReloadInv, UNCHANGED <<tables, loading>>
  PROVE  ReloadInv'
<1>1. /\ lpc' = lpc /\ file' = file /\ line' = line /\ autoId' = autoId /\ loads' = loads /\ first' = first
      /\ vocab' = vocab /\ reverseVocab' = reverseVocab /\ merges' = merges /\ vocabSize' = vocabSize
  BY DEF tables, loading
<1>2. LoadShape' /\ LinesHold'
  BY <1>1 DEF ReloadInv, LoadShape, LinesHold
<1>3. first # NoTables => FirstHolds' /\ SecondRedoes'
  BY <1>1 DEF ReloadInv, FirstHolds, SecondRedoes
<1> QED
  BY <1>1, <1>2, <1>3 DEF ReloadInv

\* Lemma: whatever is done with the tokenizer, a second load redoes the first.
LEMMA ReloadInvKept ==
  ASSUME ReloadInv, MergesShape, [TokenizerNext]_tokenizerVars
  PROVE  ReloadInv'
<1>1. CASE \E f \in VocabFiles : LoadCall(f)
  BY <1>1, CallKeepsReload
<1>2. CASE LoadFirstLine
  BY <1>2, ThrowKeepsReload, FirstLineKeepsReload
<1>3. CASE LoadLine
  BY <1>3, ThrowKeepsReload, LineKeepsReload
<1>4. CASE LoadEnd
  BY <1>4, EndKeepsReload
<1>5. CASE \E a \in AddedTokens : AddToken(a[1], a[2])
  BY <1>5, AddKeepsReload
<1>6. CASE (\E t \in Texts : EncodeCall(t)) \/ ScanChar \/ ScanEnd \/ NextWord \/ MergePieces \/ EmitWord
             \/ TakeTokens \/ UNCHANGED tokenizerVars
  <2>1. UNCHANGED <<tables, loading>>
    BY <1>6 DEF EncodeCall, ScanChar, ScanEnd, NextWord, MergePieces, EmitWord, TakeTokens, tokenizerVars
  <2> QED
    BY <2>1, RestKeepsReload
<1> QED
  BY <1>1, <1>2, <1>3, <1>4, <1>5, <1>6 DEF TokenizerNext

\* Lemma: the tables hold what was read, and a second load redoes it.
LEMMA TokenizerReloads == TokenizerSpec => []ReloadInv
<1>1. TokenizerInit => ReloadInv
  <2>1. ASSUME TokenizerInit PROVE ReloadInv
    BY <2>1 DEF TokenizerInit, ReloadInv, LoadShape, LinesHold, IsTable
  <2> QED
    BY <2>1
<1>2. ReloadInv /\ MergesShape /\ [TokenizerNext]_tokenizerVars => ReloadInv'
  BY ReloadInvKept
<1>3. TokenizerSpec => []MergesShape
  BY TokenizerInvariant, PTL DEF TokenizerInv
<1> QED
  BY <1>1, <1>2, <1>3, PTL DEF TokenizerSpec

\* Theorem: for every file, a second load() of it leaves what decode() and
\* encode() look at as the first one left it, however often tokens repeat, ids
\* collide and rules compete in it.
THEOREM TokenizerReloadChangesNothing == TokenizerSpec => []ReloadChangesNothing
<1>1. ReloadInv /\ MergesShape => ReloadChangesNothing
  <2>1. SUFFICES ASSUME ReloadInv, MergesShape, loads = 2, first # NoTables
                 PROVE  /\ vocab = first.vocab /\ reverseVocab = first.reverseVocab
                        /\ vocabSize = first.vocabSize
                        /\ \A m \in ToSet(merges) : RuleOf(m[1], m[2], merges) = RuleOf(m[1], m[2], first.merges)
    BY DEF ReloadChangesNothing
  <2>2. lpc = "idle" /\ FirstHolds /\ SecondRedoes
    BY <2>1 DEF ReloadInv, LoadShape
  <2>3. /\ vocab = first.vocab /\ reverseVocab = first.reverseVocab /\ vocabSize = first.vocabSize
        /\ Repeats(merges, first.merges)
    BY <2>2 DEF SecondRedoes
  <2>4. /\ merges \in Seq(Seq(FileChar) \X Seq(FileChar))
        /\ first.merges \in Seq(Seq(FileChar) \X Seq(FileChar))
    BY <2>1, <2>2 DEF MergesShape, FirstHolds
  <2>5. ASSUME NEW m \in ToSet(merges)
        PROVE  RuleOf(m[1], m[2], merges) = RuleOf(m[1], m[2], first.merges)
    <3>1. m \in Seq(FileChar) \X Seq(FileChar)
      BY <2>4 DEF ToSet
    <3>2. m = <<m[1], m[2]>>
      BY <3>1
    <3>3. PICK left, right : left = m[1] /\ right = m[2]
      OBVIOUS
    <3>4. <<left, right>> \in ToSet(merges)
      BY <3>2, <3>3
    <3>5. RuleOf(left, right, merges) = RuleOf(left, right, first.merges)
      BY <2>3, <2>4, <3>4, RepeatsSameRule
    <3> QED
      BY <3>3, <3>5
  <2> QED
    BY <2>3, <2>5
<1>2. TokenizerSpec => []MergesShape
  BY TokenizerInvariant, PTL DEF TokenizerInv
<1> QED
  BY <1>1, <1>2, TokenizerReloads, PTL

-----------------------------------------------------------------------------
(* The types of load() and encode() *)

\* Digits can be read one after the other.
LEMMA ValuesExist ==
  ASSUME NEW d, NEW n \in Nat, \A i \in 1..n : d[i] \in Nat
  PROVE  \E f \in [0..n -> Nat] : f[0] = 0 /\ \A i \in 1..n : f[i] = 10 * f[i - 1] + d[i]
<1> DEFINE Reads(f, k) == f[0] = 0 /\ \A i \in 1..k : f[i] = 10 * f[i - 1] + d[i]
           Failing == {k \in 0..n : ~ \E f \in [0..k -> Nat] : Reads(f, k)}
<1>1. SUFFICES ASSUME Failing # {} PROVE FALSE
  <2>1. n \in 0..n
    OBVIOUS
  <2> QED
    BY <2>1
<1>2. PICK m \in Failing : \A k \in Failing : m <= k
  <2> HIDE DEF Reads
  <2>1. Failing \in SUBSET Nat
    OBVIOUS
  <2> HIDE DEF Failing
  <2> QED
    BY <1>1, <2>1, LeastNumber
<1>3. CASE m = 0
  <2>1. [i \in 0..0 |-> 0] \in [0..0 -> Nat] /\ Reads([i \in 0..0 |-> 0], 0)
    OBVIOUS
  <2> QED
    BY <1>2, <1>3, <2>1
<1>4. CASE m > 0
  <2>1. m \in 1..n /\ m - 1 \in 0..n /\ ~(m <= m - 1)
    BY <1>2, <1>4
  <2>2. PICK f \in [0..(m - 1) -> Nat] : Reads(f, m - 1)
    <3>1. m - 1 \notin Failing
      BY <1>2, <2>1
    <3> HIDE DEF Reads
    <3> QED
      BY <2>1, <3>1
  <2> DEFINE end == 10 * f[m - 1] + d[m]
             g == [i \in 0..m |-> IF i = m THEN end ELSE f[i]]
  <2>3. end \in Nat
    <3>1. f[m - 1] \in Nat /\ d[m] \in Nat
      BY <2>1
    <3> QED
      BY <3>1
  <2> HIDE DEF end
  <2>4. \A i \in 0..m : i = m \/ i \in 0..(m - 1)
    BY <2>1
  <2>5. g \in [0..m -> Nat]
    BY <2>3, <2>4
  <2>6. \A i \in 0..(m - 1) : g[i] = f[i]
    BY <2>1
  <2>7. g[m] = end /\ 0 \in 0..(m - 1) /\ m - 1 \in 0..(m - 1)
    BY <2>1
  <2> HIDE DEF g
  <2>8. ASSUME NEW i \in 1..m
        PROVE  g[i] = 10 * g[i - 1] + d[i]
    <3>1. CASE i = m
      BY <2>6, <2>7, <3>1 DEF end
    <3>2. CASE i # m
      <4>1. i \in 1..(m - 1) /\ i \in 0..(m - 1) /\ i - 1 \in 0..(m - 1)
        BY <2>1, <3>2
      <4> QED
        BY <2>2, <2>6, <4>1
    <3> QED
      BY <3>1, <3>2
  <2>9. Reads(g, m)
    BY <2>2, <2>6, <2>7, <2>8
  <2> HIDE DEF Reads
  <2> QED
    BY <1>2, <2>5, <2>9
<1>5. m \in Nat
  BY <1>2
<1> QED
  BY <1>3, <1>4, <1>5

\* The number that a string starts with is a natural, whatever follows it.
LEMMA ToIntIsNatural ==
  ASSUME NEW C, NEW s \in Seq(C)
  PROVE  ToInt(s) \in Nat
<1> DEFINE Leading == {n \in 0..Len(s) : IsNumber(SubSeq(s, 1, n))}
           leading == Max(Leading)
           Is(f) == f = [n \in 0..leading |-> IF n = 0 THEN 0 ELSE 10 * f[n - 1] + Digits[s[n]]]
           value == CHOOSE f : Is(f)
<1>0. Len(s) \in Nat
  OBVIOUS
<1>1. leading \in Leading
  <2> DEFINE some == Leading \ {0}
  <2>1. 0 \in Leading
    <3>1. Len(SubSeq(s, 1, 0)) = 0
      OBVIOUS
    <3> QED
      BY <1>0, <3>1 DEF IsNumber
  <2>2. Leading \subseteq 0..Len(s)
    OBVIOUS
  <2> HIDE DEF Leading
  <2>3. some \in SUBSET (1..Len(s)) /\ \A n \in Leading : n \in some \/ n = 0
    BY <1>0, <2>2
  <2>4. \E m \in Leading : \A n \in Leading : m >= n
    <3>1. CASE some = {}
      BY <2>1, <2>3, <3>1
    <3>2. CASE some # {}
      <4>1. PICK m \in some : \A i \in some : i <= m
        <5> HIDE DEF some
        <5> QED
          BY <1>0, <2>3, <3>2, GreatestIndex
      <4>2. m \in Leading /\ m \in 1..Len(s)
        BY <2>3
      <4>3. \A n \in Leading : n \in Int /\ (n \in some => n <= m)
        BY <2>2, <4>1
      <4> HIDE DEF some
      <4> QED
        BY <2>3, <4>2, <4>3
    <3> QED
      BY <3>1, <3>2
  <2> QED
    BY <2>4 DEF Max
<1>2. leading \in Nat /\ leading <= Len(s) /\ IsNumber(SubSeq(s, 1, leading))
  <2> HIDE DEF leading
  <2> QED
    BY <1>0, <1>1
<1>3. ToInt(s) = value[leading]
  BY DEF ToInt
<1> HIDE DEF leading
<1>4. \A n \in 1..leading : Digits[s[n]] \in Nat
  <2>1. SUFFICES ASSUME NEW n \in 1..leading PROVE Digits[s[n]] \in Nat
    OBVIOUS
  <2>2. Len(SubSeq(s, 1, leading)) = leading /\ SubSeq(s, 1, leading)[n] = s[n]
    BY <1>0, <1>2, FrontIs
  <2>3. s[n] \in DOMAIN Digits
    BY <1>2, <2>2 DEF IsNumber
  <2> QED
    BY <2>3 DEF Digits
<1> DEFINE d == [i \in 1..leading |-> Digits[s[i]]]
<1>5. PICK f \in [0..leading -> Nat] : f[0] = 0 /\ \A i \in 1..leading : f[i] = 10 * f[i - 1] + d[i]
  <2>1. \A i \in 1..leading : d[i] \in Nat
    BY <1>4
  <2> HIDE DEF d
  <2> QED
    BY <1>2, <2>1, ValuesExist
<1>6. Is(f)
  <2>1. \A n \in 1..leading : d[n] = Digits[s[n]]
    OBVIOUS
  <2>2. \A n \in 0..leading : n = 0 \/ n \in 1..leading
    BY <1>2
  <2> HIDE DEF d
  <2> QED
    BY <1>5, <2>1, <2>2
<1>7. Is(value)
  BY <1>6
<1> HIDE DEF value
<1>8. \A n \in 0..leading : value[n] = IF n = 0 THEN 0 ELSE 10 * value[n - 1] + Digits[s[n]]
  BY <1>7
<1> DEFINE Failing == {n \in 0..leading : value[n] \notin Nat}
<1>9. Failing = {}
  <2>1. SUFFICES ASSUME Failing # {} PROVE FALSE
    OBVIOUS
  <2>2. PICK m \in Failing : \A k \in Failing : m <= k
    <3>1. Failing \in SUBSET Nat
      OBVIOUS
    <3> HIDE DEF Failing
    <3> QED
      BY <2>1, <3>1, LeastNumber
  <2>3. m # 0
    BY <1>8, <2>2
  <2>4. m \in 1..leading /\ m - 1 \in 0..leading /\ ~(m <= m - 1)
    BY <1>2, <2>2, <2>3
  <2>5. value[m - 1] \in Nat
    BY <2>2, <2>4
  <2>6. value[m] = 10 * value[m - 1] + Digits[s[m]]
    BY <1>8, <2>4
  <2>7. value[m] \in Nat
    BY <1>4, <2>4, <2>5, <2>6
  <2> QED
    BY <2>2, <2>7
<1> QED
  BY <1>2, <1>3, <1>9


\* Entering a token keeps a table finite and its ids numbers.
LEMMA EnterCounted ==
  ASSUME TablesCounted, NEW token, NEW id \in Int, vocab' = With(vocab, token, id)
  PROVE  IsFiniteSet(DOMAIN vocab)' /\ (\A w \in DOMAIN vocab : vocab[w] \in Int)'
<1>1. DOMAIN vocab' = DOMAIN vocab \cup {token}
  BY DEF With
<1>2. IsFiniteSet(DOMAIN vocab')
  BY <1>1, FS_AddElement DEF TablesCounted
<1>3. ASSUME NEW w \in DOMAIN vocab'
      PROVE  vocab'[w] \in Int
  <2>1. vocab'[w] = IF w = token THEN id ELSE vocab[w]
    BY <1>1 DEF With
  <2>2. CASE w = token
    BY <2>1, <2>2
  <2>3. CASE w # token
    BY <1>1, <2>1, <2>3 DEF TablesCounted
  <2> QED
    BY <2>2, <2>3
<1> QED
  BY <1>2, <1>3

\* load() and add_token() keep the tables finite and their ids numbers.
LEMMA TablesCountedKept ==
  ASSUME TablesCounted, MergesShape, [TokenizerNext]_tokenizerVars
  PROVE  TablesCounted'
<1>0. /\ IsFiniteSet(DOMAIN vocab) /\ vocabSize \in Nat /\ autoId \in Nat /\ Cardinality(DOMAIN vocab) \in Nat
      /\ file \in Seq(Seq(FileChar)) /\ line \in Nat \ {0} /\ Len(file) \in Nat
  BY FS_CardinalityType DEF TablesCounted, MergesShape
<1>1. CASE LoadFirstLine
  <2> DEFINE l == file[1]
  <2>1. \/ UNCHANGED <<tables, autoId>>
        \/ autoId' = 0 /\ UNCHANGED tables
        \/ /\ file # <<>> /\ autoId' = 0 /\ vocab' = vocab
           /\ vocabSize' = ToInt(SubSeq(l, 3, Len(l))) \/ vocabSize' = vocabSize
        \/ vocab' = With(vocab, l, autoId) /\ autoId' = 1 /\ vocabSize' = vocabSize
    <3> HIDE DEF l
    <3>1. l = file[1]
      BY DEF l
    <3> QED
      BY <1>1, <3>1 DEF LoadFirstLine, Enter
  <2>2. CASE UNCHANGED <<tables, autoId>>
    BY <2>2 DEF tables, TablesCounted
  <2>3. CASE autoId' = 0 /\ UNCHANGED tables
    BY <2>3 DEF tables, TablesCounted
  <2>4. CASE /\ file # <<>> /\ autoId' = 0 /\ vocab' = vocab
             /\ vocabSize' = ToInt(SubSeq(l, 3, Len(l))) \/ vocabSize' = vocabSize
    <3>1. l \in Seq(FileChar)
      BY <1>0, <2>4
    <3>2. SubSeq(l, 3, Len(l)) \in Seq(FileChar)
      BY <3>1, PartOfLine
    <3>3. ToInt(SubSeq(l, 3, Len(l))) \in Nat
      BY <3>2, ToIntIsNatural
    <3> HIDE DEF l
    <3> QED
      BY <1>0, <2>4, <3>3 DEF TablesCounted
  <2>5. CASE vocab' = With(vocab, l, autoId) /\ autoId' = 1 /\ vocabSize' = vocabSize
    BY <1>0, <2>5, EnterCounted DEF TablesCounted
  <2> QED
    BY <2>1, <2>2, <2>3, <2>4, <2>5
<1>2. CASE LoadLine
  <2> DEFINE l == file[line]
  <2>1. line <= Len(file) /\ vocabSize' = vocabSize
    BY <1>2 DEF LoadLine, tables, Enter
  <2>2. l \in Seq(FileChar) /\ Len(l) \in Nat
    BY <1>0, <2>1
  <2>3. \/ vocab' = vocab /\ autoId' = autoId
        \/ Enter(l, autoId) /\ autoId' = autoId + 1
        \/ Blanks(l) # {} /\ Enter(UpToFirst(l), ToInt(AfterFirst(l))) /\ autoId' = autoId
        \/ Blanks(l) # {} /\ Enter(UpToLast(l), ToInt(AfterLast(l))) /\ autoId' = autoId
    <3>1. \/ UNCHANGED <<vocab, autoId>>
          \/ Enter(l, autoId) /\ autoId' = autoId + 1
          \/ Blanks(l) # {} /\ Enter(UpToFirst(l), ToInt(AfterFirst(l))) /\ UNCHANGED autoId
          \/ Blanks(l) # {} /\ Enter(UpToLast(l), ToInt(AfterLast(l))) /\ UNCHANGED autoId
      BY <1>2 DEF LoadLine, NextAutoId, UpToFirst, AfterFirst, UpToLast, AfterLast, Blanks, tables
    <3> QED
      BY <3>1
  <2> HIDE DEF l
  <2>4. Blanks(l) # {} => ToInt(AfterFirst(l)) \in Int /\ ToInt(AfterLast(l)) \in Int
    <3>1. SUFFICES ASSUME Blanks(l) # {} PROVE ToInt(AfterFirst(l)) \in Int /\ ToInt(AfterLast(l)) \in Int
      OBVIOUS
    <3>2. Blanks(l) \in SUBSET (1..Len(l)) /\ Blanks(l) \in SUBSET Nat
      <4>1. Blanks(l) \subseteq 1..Len(l)
        BY Zenon DEF Blanks
      <4> QED
        BY <2>2, <4>1
    <3>3. Min(Blanks(l)) \in 1..Len(l)
      BY <3>1, <3>2, MinIndex
    <3>4. Max(Blanks(l)) \in 1..Len(l)
      <4>1. PICK m \in Blanks(l) : \A i \in Blanks(l) : i <= m
        BY <2>2, <3>1, <3>2, GreatestIndex
      <4>2. \A i \in Blanks(l) : m >= i
        BY <3>2, <4>1
      <4>3. Max(Blanks(l)) \in Blanks(l)
        BY <4>1, <4>2 DEF Max
      <4> QED
        BY <3>2, <4>3
    <3>5. /\ Min(Blanks(l)) + 1 \in Nat \ {0} /\ Max(Blanks(l)) + 1 \in Nat \ {0}
          /\ Len(l) \in Int /\ Len(l) <= Len(l)
      BY <2>2, <3>3, <3>4
    <3>6. AfterFirst(l) \in Seq(FileChar)
      BY <2>2, <3>5, PartOfLine DEF AfterFirst
    <3>7. AfterLast(l) \in Seq(FileChar)
      BY <2>2, <3>5, PartOfLine DEF AfterLast
    <3>8. ToInt(AfterFirst(l)) \in Nat /\ ToInt(AfterLast(l)) \in Nat
      BY <3>6, <3>7, ToIntIsNatural
    <3> QED
      BY <3>8
  <2>5. CASE vocab' = vocab /\ autoId' = autoId
    BY <2>1, <2>5 DEF TablesCounted
  <2>6. CASE Enter(l, autoId) /\ autoId' = autoId + 1
    <3>1. vocab' = With(vocab, l, autoId) /\ autoId \in Int
      BY <1>0, <2>6 DEF Enter
    <3>2. IsFiniteSet(DOMAIN vocab)' /\ (\A w \in DOMAIN vocab : vocab[w] \in Int)'
      BY <3>1, EnterCounted
    <3> QED
      BY <1>0, <2>1, <2>6, <3>2 DEF TablesCounted
  <2>7. CASE Blanks(l) # {} /\ Enter(UpToFirst(l), ToInt(AfterFirst(l))) /\ autoId' = autoId
    <3>1. vocab' = With(vocab, UpToFirst(l), ToInt(AfterFirst(l)))
      BY <2>7 DEF Enter
    <3>2. IsFiniteSet(DOMAIN vocab)' /\ (\A w \in DOMAIN vocab : vocab[w] \in Int)'
      BY <2>4, <2>7, <3>1, EnterCounted
    <3> QED
      BY <1>0, <2>1, <2>7, <3>2 DEF TablesCounted
  <2>8. CASE Blanks(l) # {} /\ Enter(UpToLast(l), ToInt(AfterLast(l))) /\ autoId' = autoId
    <3>1. vocab' = With(vocab, UpToLast(l), ToInt(AfterLast(l)))
      BY <2>8 DEF Enter
    <3>2. IsFiniteSet(DOMAIN vocab)' /\ (\A w \in DOMAIN vocab : vocab[w] \in Int)'
      BY <2>4, <2>8, <3>1, EnterCounted
    <3> QED
      BY <1>0, <2>1, <2>8, <3>2 DEF TablesCounted
  <2> QED
    BY <2>3, <2>5, <2>6, <2>7, <2>8
<1>3. CASE LoadEnd
  BY <1>0, <1>3 DEF LoadEnd, TablesCounted
<1>4. ASSUME NEW f \in VocabFiles, LoadCall(f)
      PROVE  TablesCounted'
  BY <1>4 DEF LoadCall, tables, TablesCounted
<1>5. ASSUME NEW a \in AddedTokens, AddToken(a[1], a[2])
      PROVE  TablesCounted'
  <2>1. a[2] \in Int
    BY TokenizerAssumption
  <2>2. /\ vocab' = With(vocab, a[1], a[2]) /\ autoId' = autoId
        /\ vocabSize' = IF a[2] >= vocabSize THEN a[2] + 1 ELSE vocabSize
    BY <1>5 DEF AddToken, Enter
  <2>3. vocabSize' \in Nat
    BY <1>0, <2>1, <2>2
  <2>4. IsFiniteSet(DOMAIN vocab)' /\ (\A w \in DOMAIN vocab : vocab[w] \in Int)'
    BY <2>1, <2>2, EnterCounted
  <2> QED
    BY <1>0, <2>2, <2>3, <2>4 DEF TablesCounted
<1>6. CASE \/ \E t \in Texts : EncodeCall(t)
           \/ ScanChar \/ ScanEnd \/ NextWord \/ MergePieces \/ EmitWord \/ TakeTokens
           \/ UNCHANGED tokenizerVars
  <2>1. UNCHANGED <<tables, loading>>
    BY <1>6 DEF EncodeCall, ScanChar, ScanEnd, NextWord, MergePieces, EmitWord, TakeTokens, tokenizerVars
  <2> QED
    BY <2>1 DEF tables, loading, TablesCounted
<1> QED
  BY <1>1, <1>2, <1>3, <1>4, <1>5, <1>6 DEF TokenizerNext

\* encode() finds no more words than characters.
LEMMA WordsCountedKept ==
  ASSUME WordsCounted, EncodeShape, [TokenizerNext]_tokenizerVars
  PROVE  WordsCounted'
<1>0. /\ Len(text) \in Nat /\ Len(words) \in Nat /\ place \in Nat \ {0}
      /\ words \in Seq(Seq(TextChar)) /\ current \in Seq(TextChar)
      /\ encpc \in {"merge", "emit"} => place <= Len(words)
  BY DEF EncodeShape
<1>1. ASSUME NEW t \in Texts, EncodeCall(t)
      PROVE  WordsCounted'
  <2>1. /\ words' = <<>> /\ current' = <<>> /\ place' = 1 /\ text' = t
        /\ encpc' = IF t = <<>> THEN "done" ELSE "scan"
    BY <1>1 DEF EncodeCall, WordsCounted
  <2>2. Len(words') = 0 /\ Len(t) \in Nat
    BY <2>1, TokenizerAssumption
  <2> QED
    BY <2>1, <2>2 DEF WordsCounted
<1>2. CASE ScanChar
  <2>1. /\ encpc = "scan" /\ encpc' = "scan" /\ text' = text /\ place <= Len(text) /\ place' = place + 1
        /\ \/ EndWord /\ current' = <<>>
           \/ words' = words
    BY <1>2 DEF ScanChar
  <2>2. Len(words) < place /\ (current # <<>> => Len(words) + 1 < place)
    BY <2>1 DEF WordsCounted
  <2>3. CASE EndWord /\ current' = <<>>
    <3>1. \/ current = <<>> /\ words' = words
          \/ current # <<>> /\ Len(words') = Len(words) + 1
      BY <1>0, <2>3 DEF EndWord
    <3> QED
      BY <1>0, <2>1, <2>2, <2>3, <3>1 DEF WordsCounted
  <2>4. CASE words' = words
    BY <1>0, <2>1, <2>2, <2>4 DEF WordsCounted
  <2> QED
    BY <2>1, <2>3, <2>4
<1>3. CASE ScanEnd
  <2>1. encpc = "scan" /\ encpc' = "word" /\ text' = text /\ place' = 1 /\ EndWord
    BY <1>3 DEF ScanEnd
  <2>2. place <= Len(text) + 1 /\ Len(words) < place /\ (current # <<>> => Len(words) + 1 < place)
    BY <2>1 DEF WordsCounted
  <2>3. \/ current = <<>> /\ words' = words
        \/ current # <<>> /\ Len(words') = Len(words) + 1
    BY <1>0, <2>1 DEF EndWord
  <2> QED
    BY <1>0, <2>1, <2>2, <2>3 DEF WordsCounted
<1>4. CASE NextWord \/ MergePieces
  <2>1. /\ encpc \in {"word", "merge"} /\ encpc' \in {"done", "merge", "emit"}
        /\ UNCHANGED <<text, words, place>>
    BY <1>4 DEF NextWord, MergePieces
  <2> QED
    BY <2>1 DEF WordsCounted
<1>5. CASE EmitWord
  <2>1. encpc = "emit" /\ encpc' = "word" /\ place' = place + 1 /\ UNCHANGED <<text, words>>
    BY <1>5 DEF EmitWord
  <2>2. place <= Len(words) /\ Len(words) <= Len(text)
    BY <1>0, <2>1 DEF WordsCounted
  <2> QED
    BY <1>0, <2>1, <2>2 DEF WordsCounted
<1>6. CASE TakeTokens
  BY <1>6 DEF TakeTokens, WordsCounted
<1>7. CASE \/ \E f \in VocabFiles : LoadCall(f)
           \/ LoadFirstLine \/ LoadLine \/ LoadEnd
           \/ \E a \in AddedTokens : AddToken(a[1], a[2])
           \/ UNCHANGED tokenizerVars
  <2>1. UNCHANGED encoding
    <3>1. CASE LoadLine
      BY <3>1 DEF LoadLine
    <3>2. CASE UNCHANGED tokenizerVars
      BY <3>2 DEF tokenizerVars
    <3>3. CASE ~LoadLine /\ ~UNCHANGED tokenizerVars
      BY <1>7, <3>3 DEF LoadCall, LoadFirstLine, LoadEnd, AddToken
    <3> QED
      BY <3>1, <3>2, <3>3
  <2> QED
    BY <2>1 DEF WordsCounted, encoding
<1> QED
  BY <1>1, <1>2, <1>3, <1>4, <1>5, <1>6, <1>7 DEF TokenizerNext

\* A piece becomes a number: that of a token, or 0.
LEMMA PieceTokenIsInt ==
  ASSUME TablesCounted, NEW p \in Seq(TextChar)
  PROVE  PieceToken(p) \in Int
<1> DEFINE known == {n \in 1..Len(p) : SubSeq(p, 1, n) \in DOMAIN vocab}
<1>1. PieceToken(p) = IF known = {} THEN 0 ELSE vocab[SubSeq(p, 1, Max(known))]
  BY DEF PieceToken
<1>2. CASE known = {}
  BY <1>1, <1>2
<1>3. CASE known # {}
  <2>1. known \in SUBSET (1..Len(p)) /\ Len(p) \in Nat
    OBVIOUS
  <2> HIDE DEF known
  <2>2. PICK m \in known : \A i \in known : i <= m
    BY <1>3, <2>1, GreatestIndex
  <2>3. \A i \in known : m >= i
    BY <2>1, <2>2
  <2>4. Max(known) \in known
    BY <2>2, <2>3 DEF Max
  <2>5. SubSeq(p, 1, Max(known)) \in DOMAIN vocab
    BY <2>4 DEF known
  <2> QED
    BY <1>1, <1>3, <2>5 DEF TablesCounted
<1> QED
  BY <1>2, <1>3

\* encode() returns numbers.
LEMMA TokensKept ==
  ASSUME TablesCounted, EncodeShape, tokens \in Seq(Int), [TokenizerNext]_tokenizerVars
  PROVE  tokens' \in Seq(Int)
<1>1. CASE ScanChar
  <2> DEFINE c == text[place]
             token == IF <<c>> \in DOMAIN vocab THEN vocab[<<c>>] ELSE Special[c] + 256
  <2>1. tokens' = tokens \/ (c \in DOMAIN Special /\ tokens' = Append(tokens, token))
    BY <1>1 DEF ScanChar
  <2>2. c \in DOMAIN Special => token \in Int
    <3>1. c \in DOMAIN Special => Special[c] \in Int
      <4> HIDE DEF c
      <4>1. \A x \in DOMAIN Special : Special[x] = 32 \/ Special[x] = 46
        BY DEF Special
      <4> QED
        BY <4>1
    <3>2. <<c>> \in DOMAIN vocab => vocab[<<c>>] \in Int
      BY DEF TablesCounted
    <3> HIDE DEF c
    <3> QED
      BY <3>1, <3>2
  <2> HIDE DEF c, token
  <2> QED
    BY <2>1, <2>2
<1>2. CASE EmitWord
  <2> DEFINE emitted == [i \in 1..Len(pieces) |-> PieceToken(pieces[i])]
  <2>1. Len(pieces) \in Nat /\ \A i \in 1..Len(pieces) : pieces[i] \in Seq(TextChar)
    BY DEF EncodeShape
  <2>2. \A i \in 1..Len(pieces) : PieceToken(pieces[i]) \in Int
    BY <2>1, PieceTokenIsInt
  <2>3. emitted \in Seq(Int)
    BY <2>1, <2>2
  <2>4. tokens' = tokens \o emitted
    BY <1>2 DEF EmitWord
  <2> HIDE DEF emitted
  <2> QED
    BY <2>3, <2>4, ConcatProperties
<1>3. CASE TakeTokens
  BY <1>3 DEF TakeTokens
<1>4. CASE \/ \E t \in Texts : EncodeCall(t)
           \/ ScanEnd \/ NextWord \/ MergePieces
  BY <1>4 DEF EncodeCall, ScanEnd, NextWord, MergePieces
<1>5. CASE \/ \E f \in VocabFiles : LoadCall(f)
           \/ LoadFirstLine \/ LoadEnd
           \/ \E a \in AddedTokens : AddToken(a[1], a[2])
  BY <1>5 DEF LoadCall, LoadFirstLine, LoadEnd, AddToken, encoding
<1>6. CASE LoadLine
  BY <1>6 DEF LoadLine, encoding
<1>7. CASE UNCHANGED tokenizerVars
  BY <1>7 DEF tokenizerVars, encoding
<1> QED
  BY <1>1, <1>2, <1>3, <1>4, <1>5, <1>6, <1>7 DEF TokenizerNext

\* The places of load() and encode(), and the number of loads.
PlacesOK ==
  /\ lpc \in {"idle", "first", "lines", "threw"} /\ loads \in 0..2 /\ (lpc \in {"first", "lines"} => loads < 2)
  /\ encpc \in {"idle", "scan", "word", "merge", "emit", "done"}

LEMMA PlacesKept ==
  ASSUME PlacesOK, [TokenizerNext]_tokenizerVars
  PROVE  PlacesOK'
<1>1. CASE \/ \E f \in VocabFiles : LoadCall(f)
           \/ \E a \in AddedTokens : AddToken(a[1], a[2])
  BY <1>1 DEF LoadCall, AddToken, encoding, PlacesOK
<1>5. CASE LoadFirstLine
  BY <1>5 DEF LoadFirstLine, encoding, PlacesOK
<1>6. CASE LoadLine
  <2>1. encpc' = encpc /\ loads' = loads /\ lpc = "lines"
    BY <1>6 DEF LoadLine, encoding
  <2>2. lpc' = lpc \/ lpc' = "threw"
    BY <1>6 DEF LoadLine
  <2> QED
    BY <2>1, <2>2 DEF PlacesOK
<1>2. CASE LoadEnd
  BY <1>2 DEF LoadEnd, PlacesOK, encoding
<1>3. CASE \/ \E t \in Texts : EncodeCall(t)
           \/ ScanChar \/ ScanEnd \/ NextWord \/ MergePieces \/ EmitWord \/ TakeTokens
  <2>1. /\ UNCHANGED <<lpc, loads>>
        /\ encpc' = encpc \/ encpc' \in {"idle", "scan", "word", "merge", "emit", "done"}
    BY <1>3 DEF EncodeCall, ScanChar, ScanEnd, NextWord, MergePieces, EmitWord, TakeTokens, loading
  <2> QED
    BY <2>1 DEF PlacesOK
<1>4. CASE UNCHANGED tokenizerVars
  BY <1>4 DEF tokenizerVars, loading, encoding, PlacesOK
<1> QED
  BY <1>1, <1>2, <1>3, <1>4, <1>5, <1>6 DEF TokenizerNext

\* Lemma: the places, the tables, the words and the tokens keep their bounds.
Counted == PlacesOK /\ TablesCounted /\ WordsCounted /\ tokens \in Seq(Int)

LEMMA TokenizerCounted == TokenizerSpec => []Counted
<1>1. TokenizerInit => Counted
  <2>1. IsFiniteSet({})
    BY FS_EmptySet
  <2>2. SUFFICES ASSUME TokenizerInit PROVE Counted
    OBVIOUS
  <2>3. DOMAIN vocab = {} /\ vocabSize = 0 /\ autoId = 0
    BY <2>2 DEF TokenizerInit
  <2>4. TablesCounted
    BY <2>1, <2>3 DEF TablesCounted
  <2> QED
    BY <2>2, <2>4 DEF TokenizerInit, PlacesOK, WordsCounted, Counted
<1>2. TokenizerInv /\ Counted /\ [TokenizerNext]_tokenizerVars => Counted'
  BY PlacesKept, TablesCountedKept, WordsCountedKept, TokensKept DEF TokenizerInv, Counted
<1> QED
  BY <1>1, <1>2, TokenizerInvariant, PTL DEF TokenizerSpec

\* load(), add_token() and encode() keep their types: ids are numbers, for every
\* file, and encode() never looks past its text.
THEOREM TokenizerTypeCorrect == TokenizerSpec => []TokenizerTypeOK
<1>1. TokenizerInv /\ Counted => TokenizerTypeOK
  <2>1. SUFFICES ASSUME TokenizerInv, Counted PROVE TokenizerTypeOK
    OBVIOUS
  <2>2. /\ Len(text) \in Nat /\ Len(words) \in Nat /\ place \in Nat \ {0}
    BY <2>1 DEF TokenizerInv, EncodeShape
  <2>3. place \in 1..(Len(text) + 1)
    BY <2>1, <2>2 DEF WordsCounted, PlacesOK, Counted
  <2> QED
    BY <2>1, <2>3 DEF PlacesOK, TablesCounted, TokenizerTypeOK, Counted
<1> QED
  BY <1>1, TokenizerCounted, TokenizerInvariant, PTL

-----------------------------------------------------------------------------
(* Decoding what was encoded: what a plain file says *)

\* Every rule stands on a line of the file that is loaded.
RulesFromFile ==
  /\ \A m \in ToSet(merges) : \E i \in 2..Len(file) : IsRule(file[i]) /\ m = RuleOn(file[i])
  /\ loads = 0 /\ lpc \in {"idle", "first"} => merges = <<>>

\* Appending adds one element.
LEMMA ToSetAppend ==
  ASSUME NEW C, NEW s \in Seq(C), NEW x \in C
  PROVE  \A y \in ToSet(Append(s, x)) : y \in ToSet(s) \/ y = x
<1>1. /\ Len(Append(s, x)) = Len(s) + 1
      /\ \A i \in 1..(Len(s) + 1) : Append(s, x)[i] = IF i <= Len(s) THEN s[i] ELSE x
  OBVIOUS
<1> QED
  BY <1>1 DEF ToSet

\* Lemma: only load() adds rules, and those of its lines.
LEMMA RulesFromFileKept ==
  ASSUME RulesFromFile, ReloadInv, MergesShape, MergesShape', [TokenizerNext]_tokenizerVars
  PROVE  RulesFromFile'
<1>1. CASE \E f \in VocabFiles : LoadCall(f)
  <2>1. PICK f \in VocabFiles : LoadCall(f)
    BY <1>1
  <2>2. merges' = merges /\ loads' = loads /\ lpc = "idle" /\ (loads = 1 => file' = file) /\ loads < 2
    BY <2>1 DEF LoadCall, tables
  <2>3. CASE loads = 0
    <3>1. merges' = <<>>
      BY <2>2, <2>3 DEF RulesFromFile
    <3>2. ToSet(merges') = {}
      BY <3>1 DEF ToSet
    <3> QED
      BY <3>1, <3>2 DEF RulesFromFile
  <2>4. CASE loads # 0
    <3>1. loads = 1
      BY <2>2, <2>4 DEF ReloadInv, LoadShape
    <3> QED
      BY <2>2, <3>1 DEF RulesFromFile
  <2> QED
    BY <2>3, <2>4
<1>2. CASE LoadFirstLine
  <2>1. merges' = merges /\ file' = file /\ lpc' \in {"lines", "threw"}
    BY <1>2 DEF LoadFirstLine, tables
  <2> QED
    BY <2>1 DEF RulesFromFile
<1>3. CASE LoadLine
  <2>1. file' = file /\ lpc' \in {"lines", "threw"}
    BY <1>3 DEF LoadLine
  <2>2. CASE lpc' = "threw"
    <3>1. merges' = merges
      BY <1>3, <2>2 DEF LoadLine, tables
    <3> QED
      BY <2>1, <2>2, <3>1 DEF RulesFromFile
  <2>3. CASE lpc' # "threw"
    <3>1. line \in Nat /\ line >= 2 /\ autoId = AutoIdAt(file, line) /\ file \in Seq(Seq(FileChar))
      <4>1. lpc = "lines"
        BY <1>3 DEF LoadLine
      <4> QED
        BY <4>1 DEF ReloadInv, LinesHold, MergesShape
    <3>2. /\ line \in 2..Len(file)
          /\ merges' = IF IsRule(file[line]) THEN Append(merges, RuleOn(file[line])) ELSE merges
      BY <1>3, <2>3, <3>1, LineReads
    <3>3. ASSUME NEW m \in ToSet(merges')
          PROVE  \E i \in 2..Len(file) : IsRule(file[i]) /\ m = RuleOn(file[i])
      <4>1. CASE m \in ToSet(merges)
        BY <4>1 DEF RulesFromFile
      <4>2. CASE m \notin ToSet(merges)
        <5>1. PICK x : x = RuleOn(file[line])
          OBVIOUS
        <5>2. IsRule(file[line]) /\ merges' = Append(merges, x)
          BY <3>2, <3>3, <4>2, <5>1
        <5>3. merges \in Seq(ToSet(merges) \cup {x})
          BY DEF MergesShape, ToSet
        <5>4. m = x
          BY <3>3, <4>2, <5>2, <5>3, ToSetAppend
        <5> QED
          BY <3>2, <5>1, <5>2, <5>4
      <4> QED
        BY <4>1, <4>2
    <3> QED
      BY <2>1, <3>3 DEF RulesFromFile
  <2> QED
    BY <2>2, <2>3
<1>4. CASE LoadEnd
  <2>1. merges' = merges /\ file' = file /\ loads' # 0
    BY <1>4 DEF LoadEnd, ReloadInv, LoadShape
  <2> QED
    BY <2>1 DEF RulesFromFile
<1>5. CASE \E a \in AddedTokens : AddToken(a[1], a[2])
  <2>1. merges' = merges /\ file' = file /\ loads' = loads /\ lpc' = lpc
    BY <1>5 DEF AddToken
  <2> QED
    BY <2>1 DEF RulesFromFile
<1>6. CASE (\E t \in Texts : EncodeCall(t)) \/ ScanChar \/ ScanEnd \/ NextWord \/ MergePieces \/ EmitWord
             \/ TakeTokens \/ UNCHANGED tokenizerVars
  <2>1. merges' = merges /\ file' = file /\ loads' = loads /\ lpc' = lpc
    BY <1>6 DEF EncodeCall, ScanChar, ScanEnd, NextWord, MergePieces, EmitWord, TakeTokens, tokenizerVars,
                tables, loading
  <2> QED
    BY <2>1 DEF RulesFromFile
<1> QED
  BY <1>1, <1>2, <1>3, <1>4, <1>5, <1>6 DEF TokenizerNext

\* The entries of a file and its rules agree: each is a bare line, none is
\* repeated, every character is one and so is every merged pair.
PlainLines(f) ==
  /\ f # <<>>
  /\ \A i \in EntriesOf(f) : IsBare(f[i])
  /\ \A i, j \in EntriesOf(f) : f[i] = f[j] => i = j
  /\ \A i \in 2..Len(f) : IsRule(f[i]) =>
       \E j \in EntriesOf(f) : f[j] = UpToFirst(f[i]) \o AfterFirst(f[i])
  /\ \A c \in TextChar : \E j \in EntriesOf(f) : f[j] = <<c>>

\* What PlainFile says of the lines of a file without its header.
BareLines(b) == {i \in 1..Len(b) : b[i] # <<>> /\ ~Contains(b[i], " ")}
PlainBody(b) ==
  /\ b # <<>> /\ 1 \in BareLines(b)
  /\ \A i, j \in BareLines(b) : b[i] = b[j] => i = j
  /\ \A i \in 1..Len(b) \ BareLines(b) :
       /\ b[i][1] # " " /\ Last(b[i]) \notin DOMAIN Digits \cup {" "}
       /\ \E j \in BareLines(b) : b[j] = UpToFirst(b[i]) \o AfterFirst(b[i])
  /\ \A c \in TextChar : \E j \in BareLines(b) : b[j] = <<c>>

LEMMA PlainBodyIs ==
  ASSUME NEW f, PlainFile(f)
  PROVE  PlainBody(IF HasHeader(f) THEN Tail(f) ELSE f)
<1> DEFINE b == IF HasHeader(f) THEN Tail(f) ELSE f
<1>1. /\ b # <<>> /\ 1 \in BareLines(b)
      /\ \A i, j \in BareLines(b) : b[i] = b[j] => i = j
      /\ \A i \in 1..Len(b) \ BareLines(b) :
           /\ b[i][1] # " " /\ Last(b[i]) \notin DOMAIN Digits \cup {" "}
           /\ \E j \in BareLines(b) : b[j] = Merged(b[i])
      /\ \A t \in Texts : \A c \in ToSet(t) : \E j \in BareLines(b) : b[j] = <<c>>
  BY Zenon DEF PlainFile, HasHeader, BareLines
<1> HIDE DEF b
<1>2. \A c \in TextChar : \E j \in BareLines(b) : b[j] = <<c>>
  BY <1>1, Zenon DEF TextChar
<1>3. \A l : Merged(l) = UpToFirst(l) \o AfterFirst(l)
  BY Zenon DEF Merged, UpToFirst, AfterFirst, Blanks
<1>4. PlainBody(b)
  BY <1>1, <1>2, <1>3, Zenon DEF PlainBody
<1> QED
  BY <1>4 DEF b

\* A line is bare when it holds no space.
LEMMA BareLineIs == \A l : (l # <<>> /\ ~Contains(l, " ")) <=> IsBare(l)
BY Zenon DEF Contains, IsBare, Blanks

\* The first space of a line is in it.
LEMMA FirstBlank ==
  ASSUME NEW C, NEW l \in Seq(C), Blanks(l) # {}
  PROVE  Min(Blanks(l)) \in 1..Len(l) /\ l[Min(Blanks(l))] = " "
<1>1. \A i \in Blanks(l) : i \in 1..Len(l) /\ l[i] = " "
  BY Zenon DEF Blanks
<1>2. Min(Blanks(l)) \in Blanks(l)
  <2>1. \A i \in Blanks(l) : i \in 1..Len(l)
    BY <1>1, Zenon
  <2>2. Blanks(l) \in SUBSET Nat
    BY <2>1
  <2> QED
    BY <2>2, MinIndex
<1> QED
  BY <1>1, <1>2, Zenon

\* What follows a place in a line ends as the line does.
LEMMA EndsInDigit ==
  ASSUME NEW C, NEW l \in Seq(C), NEW lo \in 1..Len(l), IsNumber(SubSeq(l, lo + 1, Len(l)))
  PROVE  l[lo] = Last(l) \/ Last(l) \in DOMAIN Digits
<1>1. CASE lo = Len(l)
  BY <1>1 DEF Last
<1>2. CASE lo # Len(l)
  <2>1. PICK right, k : right = SubSeq(l, lo + 1, Len(l)) /\ k = Len(l) - lo
    OBVIOUS
  <2>2. k \in Nat \ {0} /\ lo + k = Len(l) /\ lo \in Nat
    BY <1>2, <2>1
  <2>3. Len(right) = k /\ \A i \in 1..k : right[i] = l[lo + i]
    BY <2>1, <2>2
  <2>4. k \in 1..Len(right) /\ right[k] = l[Len(l)]
    BY <2>2, <2>3
  <2>5. right[k] \in DOMAIN Digits
    BY <2>1, <2>4 DEF IsNumber
  <2> QED
    BY <2>4, <2>5 DEF Last
<1> QED
  BY <1>1, <1>2

\* A line that ends in no digit and no space, and does not begin with a space,
\* is no entry with a number.
LEMMA NotNumbered ==
  ASSUME NEW C, NEW l \in Seq(C), l[1] # " ", Last(l) \notin DOMAIN Digits \cup {" "}
  PROVE  ~IsNumbered(l) /\ ~IsSpaced(l)
<1>1. ~IsSpaced(l)
  BY Zenon DEF IsSpaced
<1>2. ASSUME IsNumbered(l) PROVE FALSE
  <2>1. Blanks(l) # {} /\ IsNumber(AfterFirst(l))
    BY <1>2, Zenon DEF IsNumbered, Short
  <2>2. Min(Blanks(l)) \in 1..Len(l) /\ l[Min(Blanks(l))] = " "
    BY <2>1, FirstBlank, Zenon
  <2>3. IsNumber(SubSeq(l, Min(Blanks(l)) + 1, Len(l)))
    BY <2>1, Zenon DEF AfterFirst
  <2>4. l[Min(Blanks(l))] = Last(l) \/ Last(l) \in DOMAIN Digits
    BY <2>2, <2>3, EndsInDigit, Zenon
  <2> QED
    BY <2>2, <2>4, Zenon
<1> QED
  BY <1>1, <1>2

\* Lemma: what PlainFile says of the body, said of the entries of the file.
LEMMA PlainFileSays ==
  ASSUME NEW f \in Seq(Seq(FileChar)), PlainFile(f)
  PROVE  PlainLines(f)
<1> DEFINE b == IF HasHeader(f) THEN Tail(f) ELSE f
           d == IF HasHeader(f) THEN 1 ELSE 0
<1>1. PlainBody(b)
  BY PlainBodyIs
<1>0. b # <<>> /\ 1 \in BareLines(b)
  BY <1>1, Zenon DEF PlainBody
<1>2. BareLines(b) = {i \in 1..Len(b) : IsBare(b[i])}
  BY BareLineIs, Zenon DEF BareLines
<1>3. /\ d \in {0, 1} /\ (d = 1 <=> HasHeader(f)) /\ f # <<>>
      /\ b \in Seq(Seq(FileChar)) /\ Len(f) = Len(b) + d /\ \A i \in 1..Len(b) : b[i] = f[i + d]
  <2>1. CASE HasHeader(f)
    <3>1. f # <<>>
      BY <2>1 DEF HasHeader
    <3> QED
      BY <2>1, <3>1
  <2>2. CASE ~HasHeader(f)
    BY <1>0, <2>2
  <2> QED
    BY <2>1, <2>2
<1> HIDE DEF b, d
<1>4. Len(b) \in Nat /\ Len(f) \in Nat
  BY <1>3
<1>5. ASSUME NEW i \in 1..Len(b)
      PROVE  (i + d) \in 1..Len(f) /\ (IsBare(f[i + d]) \/ (~IsNumbered(f[i + d]) /\ ~IsSpaced(f[i + d])))
  <2>1. (i + d) \in 1..Len(f) /\ b[i] = f[i + d] /\ b[i] \in Seq(FileChar)
    BY <1>3, <1>4
  <2>2. i \in BareLines(b) \/ (b[i][1] # " " /\ Last(b[i]) \notin DOMAIN Digits \cup {" "})
    BY <1>1 DEF PlainBody
  <2>3. IsBare(b[i]) \/ (~IsNumbered(b[i]) /\ ~IsSpaced(b[i]))
    BY <1>2, <2>1, <2>2, NotNumbered
  <2> QED
    BY <2>1, <2>3
<1>6. \A k \in 1..Len(f) : k \in EntriesOf(f) <=> k - d \in BareLines(b)
  <2>1. SUFFICES ASSUME NEW k \in 1..Len(f)
                 PROVE  k \in EntriesOf(f) <=> k - d \in BareLines(b)
    OBVIOUS
  <2>2. PICK i : i = k - d
    OBVIOUS
  <2>3. CASE i \in 1..Len(b)
    <3>1. k = i + d /\ b[i] = f[k] /\ (k = 1 => i = 1 /\ d = 0)
      <4>1. i + d = k /\ (k = 1 => i = 1 /\ d = 0)
        BY <1>3, <1>4, <2>2, <2>3
      <4> QED
        BY <1>3, <2>3, <4>1
    <3>2. i \in BareLines(b) <=> IsBare(f[k])
      BY <1>2, <2>3, <3>1
    <3>3. IsBare(f[k]) \/ (~IsNumbered(f[k]) /\ ~IsSpaced(f[k]))
      BY <1>5, <2>3, <3>1
    <3>4. CASE k = 1
      <4>1. ~HasHeader(f) /\ 1 \in BareLines(b) /\ i = 1
        BY <1>0, <1>3, <3>1, <3>4
      <4>2. 1 \in EntriesOf(f)
        BY <3>4, <4>1 DEF EntriesOf
      <4> QED
        BY <2>2, <3>4, <4>1, <4>2
    <3>5. CASE k # 1
      <4>1. k \in EntriesOf(f) <=> IsBare(f[k]) \/ IsNumbered(f[k]) \/ IsSpaced(f[k])
        BY <3>5 DEF EntriesOf
      <4> QED
        BY <2>2, <3>2, <3>3, <4>1
    <3> QED
      BY <3>4, <3>5
  <2>4. CASE i \notin 1..Len(b)
    <3>1. k = 1 /\ d = 1
      BY <1>3, <1>4, <2>2, <2>4
    <3>2. k \notin EntriesOf(f)
      BY <1>3, <3>1 DEF EntriesOf
    <3>3. i \notin BareLines(b)
      BY <2>4 DEF BareLines
    <3> QED
      BY <2>2, <3>2, <3>3
  <2> QED
    BY <2>3, <2>4
<1>7. ASSUME NEW k \in EntriesOf(f)
      PROVE  \E i \in BareLines(b) : k = i + d /\ f[k] = b[i] /\ IsBare(f[k])
  <2>1. k \in 1..Len(f)
    BY DEF EntriesOf
  <2>2. PICK i : i = k - d
    OBVIOUS
  <2>3. i \in BareLines(b) /\ i \in 1..Len(b) /\ IsBare(b[i])
    BY <1>2, <1>6, <2>1, <2>2
  <2>4. k = i + d
    BY <1>3, <2>1, <2>2, <2>3
  <2> QED
    BY <1>3, <2>3, <2>4
<1>8. ASSUME NEW i \in BareLines(b)
      PROVE  i + d \in EntriesOf(f) /\ f[i + d] = b[i]
  <2>1. i \in 1..Len(b)
    BY DEF BareLines
  <2>2. PICK k : k = i + d
    OBVIOUS
  <2>3. k \in 1..Len(f) /\ k - d = i /\ f[k] = b[i]
    BY <1>3, <1>4, <2>1, <2>2
  <2> QED
    BY <1>6, <2>2, <2>3
<1>9. \A i \in EntriesOf(f) : IsBare(f[i])
  BY <1>7
<1>10. \A i, j \in EntriesOf(f) : f[i] = f[j] => i = j
  <2>1. SUFFICES ASSUME NEW i \in EntriesOf(f), NEW j \in EntriesOf(f), f[i] = f[j]
                 PROVE  i = j
    OBVIOUS
  <2>2. PICK i0 \in BareLines(b) : i = i0 + d /\ f[i] = b[i0]
    BY <1>7
  <2>3. PICK j0 \in BareLines(b) : j = j0 + d /\ f[j] = b[j0]
    BY <1>7
  <2>4. i0 = j0
    BY <1>1, <2>1, <2>2, <2>3 DEF PlainBody
  <2> QED
    BY <2>2, <2>3, <2>4
<1>11. ASSUME NEW k \in 2..Len(f), IsRule(f[k])
       PROVE  \E j \in EntriesOf(f) : f[j] = UpToFirst(f[k]) \o AfterFirst(f[k])
  <2>1. PICK i : i = k - d
    OBVIOUS
  <2>2. i \in 1..Len(b) /\ k = i + d
    BY <1>3, <1>4, <2>1
  <2>3. b[i] = f[k]
    BY <1>3, <2>2
  <2>4. i \notin BareLines(b)
    BY <1>2, <1>11, <2>3 DEF IsRule, IsBare
  <2>5. PICK j \in BareLines(b) : b[j] = UpToFirst(f[k]) \o AfterFirst(f[k])
    BY <1>1, <2>2, <2>3, <2>4 DEF PlainBody
  <2>6. j + d \in EntriesOf(f) /\ f[j + d] = b[j]
    BY <1>8
  <2> QED
    BY <2>5, <2>6
<1>12. ASSUME NEW c \in TextChar
       PROVE  \E j \in EntriesOf(f) : f[j] = <<c>>
  <2>1. PICK j \in BareLines(b) : b[j] = <<c>>
    BY <1>1 DEF PlainBody
  <2>2. j + d \in EntriesOf(f) /\ f[j + d] = b[j]
    BY <1>8
  <2> QED
    BY <2>1, <2>2
<1> QED
  BY <1>3, <1>9, <1>10, <1>11, <1>12 DEF PlainLines

\* Lemma: with a plain file no id is given twice.
LEMMA PlainIdsDiffer ==
  ASSUME NEW f \in Seq(Seq(FileChar)), PlainLines(f),
         NEW i \in EntriesOf(f), NEW j \in EntriesOf(f), i < j
  PROVE  IdOn(f)[i] # IdOn(f)[j]
<1>1. /\ i \in 1..Len(f) /\ j \in 1..Len(f) /\ j # 1 /\ IsBare(f[i]) /\ IsBare(f[j])
      /\ (i = 1 => ~HasHeader(f)) /\ f # <<>>
  <2>1. i \in 1..Len(f) /\ j \in 1..Len(f) /\ (i = 1 => ~HasHeader(f))
    BY DEF EntriesOf
  <2> QED
    BY <2>1 DEF PlainLines
<1> DEFINE B == BareBefore(f, i)
           D == BareBefore(f, j)
           z == IF HasHeader(f) THEN 0 ELSE 1
<1>2. IdOn(f)[i] = (IF i = 1 THEN 0 ELSE z + Cardinality(B)) /\ IdOn(f)[j] = z + Cardinality(D)
  BY <1>1 DEF IdOn, AutoIdAt
<1>3. D \subseteq 2..(j - 1) /\ B \subseteq 2..(i - 1)
  BY DEF BareBefore
<1>4. IsFiniteSet(2..(j - 1)) /\ IsFiniteSet(2..(i - 1))
  <2>1. i - 1 \in Int /\ j - 1 \in Int
    BY <1>1
  <2> QED
    BY <2>1, FS_Interval
<1>5. IsFiniteSet(D) /\ IsFiniteSet(B)
  BY <1>3, <1>4, FS_Subset
<1>6. i \notin B /\ (i # 1 => B \cup {i} \subseteq D)
  <2>1. i \notin B
    BY <1>1, <1>3
  <2>2. ASSUME i # 1 PROVE B \cup {i} \subseteq D
    <3>1. i \in 2..(j - 1) /\ \A k \in 2..(i - 1) : k \in 2..(j - 1)
      BY <1>1, <2>2
    <3> QED
      BY <1>1, <3>1 DEF BareBefore
  <2> QED
    BY <2>1, <2>2
<1>7. Cardinality(D) \in Nat /\ Cardinality(B) \in Nat
  BY <1>5, FS_CardinalityType
<1>8. i # 1 => Cardinality(B) + 1 <= Cardinality(D)
  <2>1. Cardinality(B \cup {i}) = Cardinality(B) + 1
    BY <1>5, <1>6, FS_AddElement
  <2>2. i # 1 => Cardinality(B \cup {i}) <= Cardinality(D)
    BY <1>5, <1>6, FS_Subset
  <2> QED
    BY <2>1, <2>2, Zenon
<1>9. z \in {0, 1} /\ (i = 1 => z = 1)
  BY <1>1
<1> HIDE DEF B, D, z
<1>10. CASE i = 1
  BY <1>2, <1>7, <1>9, <1>10
<1>11. CASE i # 1
  BY <1>2, <1>7, <1>8, <1>9, <1>11
<1> QED
  BY <1>10, <1>11

\* The entries of a plain file are known.
LEMMA EntriesKnown ==
  ASSUME lpc = "idle", first # NoTables, ReloadInv, MergesShape, PlainFile(file)
  PROVE  \A i \in EntriesOf(file) : Known(file[i])
<1>1. PlainLines(file)
  BY PlainFileSays DEF MergesShape
<1>2. /\ Holds(vocab, TokenOn(file), IdOn(file), EntriesOf(file))
      /\ Holds(reverseVocab, IdOn(file), TokenOn(file), EntriesOf(file))
  BY DEF ReloadInv, FirstHolds, SecondRedoes
<1>3. \A i \in EntriesOf(file) : i \in 1..Len(file) /\ IsBare(file[i]) /\ TokenOn(file)[i] = file[i]
  <2>1. \A i \in EntriesOf(file) : i \in 1..Len(file)
    BY DEF EntriesOf
  <2>2. \A i \in EntriesOf(file) : IsBare(file[i])
    BY <1>1 DEF PlainLines
  <2> QED
    BY <2>1, <2>2 DEF TokenOn
<1>4. \A i, j \in EntriesOf(file) : file[i] = file[j] => i = j
  BY <1>1 DEF PlainLines
<1>5. ASSUME NEW i \in EntriesOf(file), NEW j \in EntriesOf(file), i < j
      PROVE  TokenOn(file)[j] # TokenOn(file)[i] /\ IdOn(file)[j] # IdOn(file)[i]
  <2>1. IdOn(file)[i] # IdOn(file)[j]
    BY <1>1, <1>5, PlainIdsDiffer DEF MergesShape
  <2>2. i # j
    BY <1>3, <1>5
  <2>3. file[i] # file[j]
    BY <1>4, <2>2
  <2> QED
    BY <1>3, <2>1, <2>3
<1>6. ASSUME NEW i \in EntriesOf(file)
      PROVE  Known(file[i])
  <2>1. PICK w, id : w = file[i] /\ id = IdOn(file)[i]
    OBVIOUS
  <2>2. w \in DOMAIN vocab /\ vocab[w] = id
    BY <1>2, <1>3, <1>5, <2>1, Zenon DEF Holds
  <2>3. id \in DOMAIN reverseVocab /\ reverseVocab[id] = w
    BY <1>2, <1>3, <1>5, <2>1, Zenon DEF Holds
  <2>4. w # <<>>
    BY <1>3, <2>1, Zenon DEF IsBare
  <2> QED
    BY <2>1, <2>2, <2>3, <2>4, Zenon DEF Known
<1> QED
  BY <1>6

\* Every character and every merged pair is known.
PlainKnown ==
  /\ \A c \in TextChar : Known(<<c>>)
  /\ \A left, right : <<left, right>> \in ToSet(merges) => Known(left \o right)

LEMMA PlainFileKnown ==
  ASSUME lpc = "idle", first # NoTables, ReloadInv, MergesShape, RulesFromFile, PlainFile(file)
  PROVE  PlainKnown
<1>1. PlainLines(file)
  BY PlainFileSays DEF MergesShape
<1>2. \A i \in EntriesOf(file) : Known(file[i])
  BY EntriesKnown
<1>3. ASSUME NEW c \in TextChar
      PROVE  Known(<<c>>)
  <2>1. PICK j \in EntriesOf(file) : file[j] = <<c>>
    BY <1>1, Zenon DEF PlainLines
  <2>2. Known(file[j])
    BY <1>2
  <2> QED
    BY <2>1, <2>2, Zenon
<1>4. ASSUME NEW left, NEW right, <<left, right>> \in ToSet(merges)
      PROVE  Known(left \o right)
  <2>1. PICK i \in 2..Len(file) : IsRule(file[i]) /\ <<left, right>> = RuleOn(file[i])
    BY <1>4, Zenon DEF RulesFromFile
  <2>2. PICK a, b : a = UpToFirst(file[i]) /\ b = AfterFirst(file[i])
    OBVIOUS
  <2>3. <<left, right>> = <<a, b>>
    BY <2>1, <2>2, Zenon DEF RuleOn
  <2>4. left = a /\ right = b
    BY <2>3
  <2>5. PICK j \in EntriesOf(file) : file[j] = left \o right
    BY <1>1, <2>1, <2>2, <2>4, Zenon DEF PlainLines
  <2>6. Known(file[j])
    BY <1>2
  <2> QED
    BY <2>5, <2>6, Zenon
<1> QED
  BY <1>3, <1>4 DEF PlainKnown

-----------------------------------------------------------------------------
(* Decoding what was encoded: the steps of encode() *)

\* A known piece is its own token, and decode() gives it back.
LEMMA KnownToken ==
  ASSUME NEW p \in Seq(TextChar), Known(p)
  PROVE  PieceToken(p) = vocab[p] /\ TokenText(vocab[p]) = p
<1>1. p # <<>> /\ p \in DOMAIN vocab /\ vocab[p] \in DOMAIN reverseVocab /\ reverseVocab[vocab[p]] = p
  BY DEF Known
<1>2. TokenText(vocab[p]) = p
  BY <1>1, Zenon DEF TokenText
<1>3. PieceToken(p) = vocab[p]
  <2> DEFINE known == {n \in 1..Len(p) : SubSeq(p, 1, n) \in DOMAIN vocab}
  <2>1. Len(p) \in 1..Len(p) /\ SubSeq(p, 1, Len(p)) = p
    BY <1>1
  <2>2. Len(p) \in known /\ known \subseteq 1..Len(p)
    BY <1>1, <2>1
  <2> HIDE DEF known
  <2>3. Max(known) = Len(p)
    <3>1. \A n \in known : n <= Len(p) /\ n \in Nat
      BY <2>2
    <3>2. PICK m : m = Len(p) /\ m \in known /\ m \in Nat
      BY <2>2, <3>1
    <3>3. \A x \in known : (\A y \in known : x >= y) <=> x = m
      BY <3>1, <3>2
    <3>4. Max(known) = m
      BY <3>2, <3>3 DEF Max
    <3> QED
      BY <3>2, <3>4
  <2>4. PieceToken(p) = vocab[SubSeq(p, 1, Max(known))]
    <3>1. known # {}
      BY <2>2
    <3> QED
      BY <3>1, Zenon DEF PieceToken, known
  <2> QED
    BY <2>1, <2>3, <2>4, Zenon
<1> QED
  BY <1>2, <1>3

\* Appending and concatenating, place by place.
LEMMA AppendIs ==
  ASSUME NEW C, NEW s \in Seq(C), NEW x \in C
  PROVE  Append(s, x) = [i \in 1..(Len(s) + 1) |-> IF i <= Len(s) THEN s[i] ELSE x]
<1> DEFINE u == [i \in 1..(Len(s) + 1) |-> IF i <= Len(s) THEN s[i] ELSE x]
<1>1. /\ Append(s, x) \in Seq(C) /\ Len(Append(s, x)) = Len(s) + 1 /\ Len(s) \in Nat
      /\ \A i \in 1..(Len(s) + 1) : Append(s, x)[i] = IF i <= Len(s) THEN s[i] ELSE x
  OBVIOUS
<1>2. u \in Seq(C) /\ Len(u) = Len(s) + 1 /\ \A i \in 1..(Len(s) + 1) : u[i] = IF i <= Len(s) THEN s[i] ELSE x
  <2>1. \A i \in 1..(Len(s) + 1) : (IF i <= Len(s) THEN s[i] ELSE x) \in C
    OBVIOUS
  <2> QED
    BY <1>1, <2>1
<1> HIDE DEF u
<1>3. \A i \in 1..Len(u) : Append(s, x)[i] = u[i]
  BY <1>1, <1>2
<1>4. Append(s, x) = u
  BY <1>1, <1>2, <1>3, SeqEqual
<1> QED
  BY <1>4 DEF u

LEMMA CatIs ==
  ASSUME NEW C, NEW s \in Seq(C), NEW t \in Seq(C)
  PROVE  /\ Len(s) \in Nat /\ Len(t) \in Nat /\ s \o t \in Seq(C) /\ Len(s \o t) = Len(s) + Len(t)
         /\ s \o t = [i \in 1..(Len(s) + Len(t)) |-> IF i <= Len(s) THEN s[i] ELSE t[i - Len(s)]]
<1> DEFINE u == [i \in 1..(Len(s) + Len(t)) |-> IF i <= Len(s) THEN s[i] ELSE t[i - Len(s)]]
<1>1. /\ Len(s) \in Nat /\ Len(t) \in Nat /\ s \o t \in Seq(C) /\ Len(s \o t) = Len(s) + Len(t)
      /\ \A i \in 1..(Len(s) + Len(t)) : (s \o t)[i] = IF i <= Len(s) THEN s[i] ELSE t[i - Len(s)]
  BY ConcatProperties
<1>2. /\ u \in Seq(C) /\ Len(u) = Len(s) + Len(t)
      /\ \A i \in 1..(Len(s) + Len(t)) : u[i] = IF i <= Len(s) THEN s[i] ELSE t[i - Len(s)]
  <2>1. \A i \in 1..(Len(s) + Len(t)) : (IF i <= Len(s) THEN s[i] ELSE t[i - Len(s)]) \in C
    <3>1. \A i \in 1..(Len(s) + Len(t)) : IF i <= Len(s) THEN i \in 1..Len(s) ELSE i - Len(s) \in 1..Len(t)
      BY <1>1
    <3>2. (\A i \in 1..Len(s) : s[i] \in C) /\ \A i \in 1..Len(t) : t[i] \in C
      OBVIOUS
    <3> QED
      BY <3>1, <3>2, Zenon
  <2> QED
    BY <1>1, <2>1
<1> HIDE DEF u
<1>3. \A i \in 1..Len(u) : (s \o t)[i] = u[i]
  BY <1>1, <1>2, Zenon
<1>4. s \o t = u
  BY <1>1, <1>2, <1>3, SeqEqual
<1> QED
  BY <1>1, <1>4 DEF u

\* A token more is a text more.
LEMMA DecodeAppend ==
  ASSUME NEW ids \in Seq(Int), Said(ids) \in Seq(Seq(TextChar)),
         NEW id \in Int, NEW p \in Seq(TextChar), TokenText(id) = p
  PROVE  /\ Decode(Append(ids, id)) = Decode(ids) \o p
         /\ Said(Append(ids, id)) \in Seq(Seq(TextChar))
<1>1. /\ Len(Append(ids, id)) = Len(ids) + 1 /\ Len(ids) \in Nat
      /\ \A i \in 1..(Len(ids) + 1) : Append(ids, id)[i] = IF i <= Len(ids) THEN ids[i] ELSE id
  OBVIOUS
<1>2. /\ Len(Said(ids)) = Len(ids) /\ \A i \in 1..Len(ids) : Said(ids)[i] = TokenText(ids[i])
  BY DEF Said
<1>3. Said(Append(ids, id)) = [i \in 1..(Len(ids) + 1) |-> IF i <= Len(ids) THEN Said(ids)[i] ELSE p]
  <2>1. ASSUME NEW i \in 1..(Len(ids) + 1)
        PROVE  TokenText(Append(ids, id)[i]) = IF i <= Len(ids) THEN Said(ids)[i] ELSE p
    <3>1. CASE i <= Len(ids)
      <4>1. i \in 1..Len(ids) /\ Append(ids, id)[i] = ids[i]
        BY <1>1, <3>1
      <4> QED
        BY <1>2, <3>1, <4>1
    <3>2. CASE ~(i <= Len(ids))
      BY <1>1, <3>2
    <3> QED
      BY <3>1, <3>2
  <2> QED
    BY <1>1, <2>1, Zenon DEF Said
<1>4. Append(Said(ids), p) = [i \in 1..(Len(ids) + 1) |-> IF i <= Len(ids) THEN Said(ids)[i] ELSE p]
  <2>1. Append(Said(ids), p) = [i \in 1..(Len(Said(ids)) + 1) |-> IF i <= Len(Said(ids)) THEN Said(ids)[i] ELSE p]
    BY AppendIs
  <2> QED
    BY <1>2, <2>1
<1>5. Said(Append(ids, id)) = Append(Said(ids), p)
  BY <1>3, <1>4
<1>6. FlattenSeq(Append(Said(ids), p)) = FlattenSeq(Said(ids)) \o p
  BY FlattenAppend
<1>7. \A x : Decode(x) = FlattenSeq(Said(x))
  BY DEF Decode, Said
<1>8. Append(Said(ids), p) \in Seq(Seq(TextChar))
  BY AppendProperties
<1> QED
  BY <1>5, <1>6, <1>7, <1>8, Zenon

\* Many tokens more are as many texts more.
LEMMA DecodeCat ==
  ASSUME NEW ids \in Seq(Int), Said(ids) \in Seq(Seq(TextChar)),
         NEW more \in Seq(Int), NEW s \in Seq(Seq(TextChar)), Len(more) = Len(s),
         \A i \in 1..Len(s) : TokenText(more[i]) = s[i]
  PROVE  /\ Decode(ids \o more) = Decode(ids) \o FlattenSeq(s)
         /\ Said(ids \o more) \in Seq(Seq(TextChar))
<1>1. PICK m, n, all : m = Len(ids) /\ n = Len(more) /\ all = ids \o more
  OBVIOUS
<1>2. /\ m \in Nat /\ n \in Nat /\ all \in Seq(Int) /\ Len(all) = m + n
      /\ \A i \in 1..(m + n) : all[i] = IF i <= m THEN ids[i] ELSE more[i - m]
  <2>1. /\ Len(ids) \in Nat /\ Len(more) \in Nat /\ ids \o more \in Seq(Int)
        /\ Len(ids \o more) = Len(ids) + Len(more)
        /\ ids \o more = [i \in 1..(Len(ids) + Len(more)) |-> IF i <= Len(ids) THEN ids[i] ELSE more[i - Len(ids)]]
    BY CatIs
  <2> QED
    BY <1>1, <2>1
<1>3. Len(Said(ids)) = m /\ \A i \in 1..m : Said(ids)[i] = TokenText(ids[i])
  BY <1>1 DEF Said
<1>4. Said(all) = [i \in 1..(m + n) |-> IF i <= m THEN Said(ids)[i] ELSE s[i - m]]
  <2>1. ASSUME NEW i \in 1..(m + n)
        PROVE  TokenText(all[i]) = IF i <= m THEN Said(ids)[i] ELSE s[i - m]
    <3>1. CASE i <= m
      <4>1. i \in 1..m /\ all[i] = ids[i]
        BY <1>2, <3>1
      <4> QED
        BY <1>3, <3>1, <4>1
    <3>2. CASE ~(i <= m)
      <4>1. PICK k : k = i - m
        OBVIOUS
      <4>2. k \in 1..Len(s) /\ all[i] = more[k]
        BY <1>1, <1>2, <3>2, <4>1
      <4>3. TokenText(more[k]) = s[k]
        BY <4>2
      <4> QED
        BY <3>2, <4>1, <4>2, <4>3
    <3> QED
      BY <3>1, <3>2
  <2> QED
    BY <1>2, <2>1, Zenon DEF Said
<1>5. Said(ids) \o s = [i \in 1..(m + n) |-> IF i <= m THEN Said(ids)[i] ELSE s[i - m]]
  <2>1. Said(ids) \o s = [i \in 1..(Len(Said(ids)) + Len(s)) |->
                             IF i <= Len(Said(ids)) THEN Said(ids)[i] ELSE s[i - Len(Said(ids))]]
    BY CatIs
  <2> QED
    BY <1>1, <1>3, <2>1
<1>6. Said(all) = Said(ids) \o s
  BY <1>4, <1>5
<1>7. FlattenSeq(Said(ids) \o s) = FlattenSeq(Said(ids)) \o FlattenSeq(s)
  BY FlattenCat
<1>8. \A x : Decode(x) = FlattenSeq(Said(x))
  BY DEF Decode, Said
<1>9. Said(ids) \o s \in Seq(Seq(TextChar))
  BY CatIs
<1> QED
  BY <1>1, <1>6, <1>7, <1>8, <1>9, Zenon

\* One character more.
LEMMA OnlyAppend ==
  ASSUME NEW t \in Seq(TextChar), NEW c \in TextChar, NEW S
  PROVE  /\ Only(Append(t, c), S) = IF c \in S THEN Append(Only(t, S), c) ELSE Only(t, S)
         /\ Only(t, S) \in Seq(TextChar)
<1> DEFINE Picked(u) == [i \in 1..Len(u) |-> IF u[i] \in S THEN <<u[i]>> ELSE <<>>]
           x == IF c \in S THEN <<c>> ELSE <<>>
<1>1. /\ Len(Append(t, c)) = Len(t) + 1 /\ Len(t) \in Nat
      /\ \A i \in 1..(Len(t) + 1) : Append(t, c)[i] = IF i <= Len(t) THEN t[i] ELSE c
  OBVIOUS
<1>2. \A u : Only(u, S) = FlattenSeq(Picked(u))
  BY Zenon DEF Only
<1>3. \A u \in Seq(TextChar) : Picked(u) \in Seq(Seq(TextChar))
  <2>1. ASSUME NEW u \in Seq(TextChar)
        PROVE  Picked(u) \in Seq(Seq(TextChar))
    <3>1. \A i \in 1..Len(u) : u[i] \in TextChar
      OBVIOUS
    <3>2. \A y \in TextChar : <<y>> \in Seq(TextChar)
      OBVIOUS
    <3>3. \A i \in 1..Len(u) : (IF u[i] \in S THEN <<u[i]>> ELSE <<>>) \in Seq(TextChar)
      BY <3>1, <3>2
    <3> QED
      BY <3>3
  <2> QED
    BY <2>1
<1>4. Picked(Append(t, c)) = Append(Picked(t), x)
  <2>1. Len(Picked(t)) = Len(t) /\ \A i \in 1..Len(t) : Picked(t)[i] = IF t[i] \in S THEN <<t[i]>> ELSE <<>>
    OBVIOUS
  <2>2. Picked(Append(t, c)) = [i \in 1..(Len(t) + 1) |-> IF i <= Len(t) THEN Picked(t)[i] ELSE x]
    <3>1. ASSUME NEW i \in 1..(Len(t) + 1)
          PROVE  (IF Append(t, c)[i] \in S THEN <<Append(t, c)[i]>> ELSE <<>>)
                   = IF i <= Len(t) THEN Picked(t)[i] ELSE x
      <4>1. CASE i <= Len(t)
        <5>1. i \in 1..Len(t) /\ Append(t, c)[i] = t[i]
          BY <1>1, <4>1
        <5> QED
          BY <4>1, <5>1
      <4>2. CASE ~(i <= Len(t))
        <5>1. Append(t, c)[i] = c
          BY <1>1, <4>2
        <5> QED
          BY <4>2, <5>1
      <4> QED
        BY <4>1, <4>2
    <3> QED
      BY <1>1, <3>1, Zenon
  <2>3. Append(Picked(t), x) = [i \in 1..(Len(t) + 1) |-> IF i <= Len(t) THEN Picked(t)[i] ELSE x]
    <3>1. Picked(t) \in Seq(Seq(TextChar))
      BY <1>3
    <3>2. x \in Seq(TextChar)
      OBVIOUS
    <3> HIDE DEF Picked, x
    <3>3. Append(Picked(t), x) = [i \in 1..(Len(Picked(t)) + 1) |-> IF i <= Len(Picked(t)) THEN Picked(t)[i] ELSE x]
      BY <3>1, <3>2, AppendIs
    <3> QED
      BY <2>1, <3>3
  <2> QED
    BY <2>2, <2>3
<1>5. x \in Seq(TextChar)
  OBVIOUS
<1>6. Picked(t) \in Seq(Seq(TextChar))
  BY <1>3
<1> HIDE DEF Picked
<1>7. FlattenSeq(Append(Picked(t), x)) = FlattenSeq(Picked(t)) \o x /\ FlattenSeq(Picked(t)) \in Seq(TextChar)
  BY <1>5, <1>6, FlattenAppend, FlattenCat
<1>8. Only(Append(t, c), S) = Only(t, S) \o x /\ Only(t, S) \in Seq(TextChar)
  BY <1>2, <1>4, <1>7
<1> QED
  BY <1>8

\* What Only() leaves of a text is a text.
LEMMA OnlyType ==
  ASSUME NEW t \in Seq(TextChar), NEW S
  PROVE  Only(t, S) \in Seq(TextChar)
<1> DEFINE u == [i \in 1..Len(t) |-> IF t[i] \in S THEN <<t[i]>> ELSE <<>>]
<1>1. u \in Seq(Seq(TextChar))
  <2>1. \A i \in 1..Len(t) : t[i] \in TextChar
    OBVIOUS
  <2>2. \A y \in TextChar : <<y>> \in Seq(TextChar)
    OBVIOUS
  <2>3. \A i \in 1..Len(t) : (IF t[i] \in S THEN <<t[i]>> ELSE <<>>) \in Seq(TextChar)
    BY <2>1, <2>2
  <2> QED
    BY <2>3
<1> HIDE DEF u
<1>2. FlattenSeq(u) \in Seq(TextChar)
  BY <1>1, FlattenCat
<1> QED
  BY <1>2 DEF Only, u

\* No character at all, and what the characters are.
LEMMA OnlyOfNone ==
  \A S : Only(<<>>, S) = <<>>
<1>1. \A S : [i \in 1..Len(<<>>) |-> IF <<>>[i] \in S THEN <<<<>>[i]>> ELSE <<>>] = <<>>
  OBVIOUS
<1> QED
  BY <1>1, FlattenNone DEF Only

\* A front grows by the element after it.
LEMMA FrontGrows ==
  ASSUME NEW C, NEW s \in Seq(C), NEW i \in 1..Len(s)
  PROVE  SubSeq(s, 1, i) = Append(SubSeq(s, 1, i - 1), s[i]) /\ SubSeq(s, 1, i - 1) \in Seq(C)
<1>1. SubSeq(s, 1, i) = SubSeq(s, 1, i - 1) \o <<s[i]>>
  <2>1. 1 \in 1..Len(s)
    OBVIOUS
  <2> QED
    BY <2>1, SubSeqRecursiveSecond
<1>2. i - 1 \in 0..Len(s) /\ s[i] \in C
  OBVIOUS
<1>3. SubSeq(s, 1, i - 1) \in Seq(C)
  BY <1>2, FrontIs
<1>4. Append(SubSeq(s, 1, i - 1), s[i]) = SubSeq(s, 1, i - 1) \o <<s[i]>>
  BY <1>2, <1>3, AppendIsConcat
<1> QED
  BY <1>1, <1>3, <1>4

\* Appending goes through concatenation.
LEMMA CatThenAppend ==
  ASSUME NEW C, NEW s \in Seq(C), NEW t \in Seq(C), NEW x \in C
  PROVE  s \o Append(t, x) = Append(s \o t, x)
<1>1. PICK u : u = <<x>>
  OBVIOUS
<1>2. u \in Seq(C)
  BY <1>1
<1>3. Append(t, x) = t \o u /\ s \o t \in Seq(C)
  BY <1>1, AppendIsConcat, ConcatProperties
<1>4. Append(s \o t, x) = (s \o t) \o u
  BY <1>1, <1>3, AppendIsConcat
<1>5. Cat(Cat(s, t), u) = Cat(s, Cat(t, u))
  BY <1>2, CatAssociative, SMT
<1> QED
  BY <1>3, <1>4, <1>5, Zenon DEF Cat

\* What encode() relies on while a plain file is loaded.
Reliable ==
  /\ lpc = "idle" /\ PlainKnown /\ EncodeShape /\ WordsCounted /\ WordFullyMerged
  /\ tokens \in Seq(Int) /\ TablesCounted /\ merges \in Seq(Seq(FileChar) \X Seq(FileChar))

\* What its tokens say, up to the end.
Finished == encpc = "done" => Decode(tokens) = Only(text, Punctuation) \o Only(text, Letters)
Spoken == Scanned /\ Spelled /\ PiecesKnown /\ Finished /\ Said(tokens) \in Seq(Seq(TextChar))

\* Ending a word loses nothing of it.
LEMMA EndWordKeepsText ==
  ASSUME EndWord, words \in Seq(Seq(TextChar)), current \in Seq(TextChar)
  PROVE  FlattenSeq(words') = FlattenSeq(words) \o current
<1>1. CASE current = <<>>
  <2>1. words' = words
    BY <1>1 DEF EndWord
  <2>2. FlattenSeq(words) \in Seq(TextChar)
    BY FlattenCat
  <2>3. FlattenSeq(words) \o <<>> = FlattenSeq(words)
    BY <2>2, ConcatEmptySeq
  <2> QED
    BY <1>1, <2>1, <2>3
<1>2. CASE current # <<>>
  <2>1. words' = Append(words, current)
    BY <1>2 DEF EndWord
  <2>2. FlattenSeq(Append(words, current)) = FlattenSeq(words) \o current
    BY FlattenAppend
  <2> QED
    BY <2>1, <2>2
<1> QED
  BY <1>1, <1>2

LEMMA CallSpeaks ==
  ASSUME NEW t \in Texts, EncodeCall(t), Reliable, tokens = <<>>, encpc = "idle"
  PROVE  Spoken'
<1>1. /\ text' = t /\ place' = 1 /\ UNCHANGED <<current, words, tokens, tables>>
      /\ encpc' = IF t = <<>> THEN "done" ELSE "scan"
  BY DEF EncodeCall
<1>2. words = <<>> /\ current = <<>>
  BY DEF Reliable, WordsCounted
<1>3. Said(<<>>) = <<>> /\ Decode(<<>>) = <<>>
  <2>1. Said(<<>>) = <<>>
    BY DEF Said
  <2>2. Decode(<<>>) = FlattenSeq(Said(<<>>))
    BY DEF Decode, Said
  <2> QED
    BY <2>1, <2>2, FlattenNone
<1>4. \A X : <<>> \in Seq(X)
  OBVIOUS
<1>5. Said(tokens)' \in Seq(Seq(TextChar))
  <2>1. Len(tokens') = 0 /\ tokens' = <<>>
    BY <1>1
  <2>2. Said(tokens)' = <<>>
    BY <2>1 DEF Said
  <2> QED
    BY <1>4, <2>2
<1>6. Decode(tokens)' = <<>>
  <2>1. Said(tokens)' = <<>>
    <3>1. Len(tokens') = 0 /\ tokens' = <<>>
      BY <1>1
    <3> QED
      BY <3>1 DEF Said
  <2>2. Decode(tokens)' = FlattenSeq(Said(tokens)')
    BY DEF Decode, Said
  <2> QED
    BY <2>1, <2>2, FlattenNone
<1>7. SubSeq(t, 1, 0) = <<>>
  <2>1. t \in Seq(TextChar)
    BY TokenizerAssumption
  <2> QED
    BY <2>1, SubSeqEmpty
<1>8. <<>> \o <<>> = <<>>
  OBVIOUS
<1>9. CASE t = <<>>
  <2>1. encpc' = "done"
    BY <1>1, <1>9
  <2>2. Finished'
    BY <1>1, <1>6, <1>8, <1>9, OnlyOfNone, Zenon DEF Finished, Letters, Punctuation
  <2> QED
    BY <1>5, <2>1, <2>2 DEF Spoken, Scanned, Spelled, PiecesKnown
<1>10. CASE t # <<>>
  <2>1. encpc' = "scan" /\ place' - 1 = 0
    BY <1>1, <1>10
  <2>2. SubSeq(text', 1, place' - 1) = <<>>
    BY <1>1, <1>7, <2>1
  <2>3. FlattenSeq(words') \o current' = <<>>
    BY <1>1, <1>2, <1>8, FlattenNone
  <2>4. Scanned'
    BY <1>6, <2>2, <2>3, OnlyOfNone, Zenon DEF Scanned, Letters, Punctuation
  <2> QED
    BY <1>5, <2>1, <2>4 DEF Spoken, Finished, Spelled, PiecesKnown
<1> QED
  BY <1>9, <1>10

\* While the tables stay, so does what tokens say.
TextIn(table, id) ==
  CASE id \in DOMAIN table -> table[id]
    [] id \notin DOMAIN table /\ id \in 256..511 ->
         <<IF \E c \in DOMAIN Special : Special[c] = id - 256
           THEN CHOOSE c \in DOMAIN Special : Special[c] = id - 256 ELSE "?">>
    [] OTHER -> <<"<UNK>">>
SaidIn(table, ids) == [i \in 1..Len(ids) |-> TextIn(table, ids[i])]

LEMMA TablesSay ==
  ASSUME reverseVocab' = reverseVocab
  PROVE  Decode(tokens)' = Decode(tokens') /\ Said(tokens)' = Said(tokens')
<1>1. Said(tokens)' = SaidIn(reverseVocab', tokens')
  BY Zenon DEF Said, SaidIn, TokenText, TextIn
<1>2. Said(tokens') = SaidIn(reverseVocab, tokens')
  BY Zenon DEF Said, SaidIn, TokenText, TextIn
<1>3. Decode(tokens)' = FlattenSeq(SaidIn(reverseVocab', tokens'))
  BY Zenon DEF Decode, SaidIn, TokenText, TextIn
<1>4. Decode(tokens') = FlattenSeq(SaidIn(reverseVocab, tokens'))
  BY Zenon DEF Decode, SaidIn, TokenText, TextIn
<1> QED
  BY <1>1, <1>2, <1>3, <1>4, Zenon

LEMMA ScanSpeaks ==
  ASSUME ScanChar, Reliable, Spoken
  PROVE  Spoken'
<1> DEFINE c == text[place]
           seen == SubSeq(text, 1, place - 1)
<1>0. /\ text \in Seq(TextChar) /\ current \in Seq(TextChar) /\ place \in Nat \ {0}
      /\ words \in Seq(Seq(TextChar)) /\ tokens \in Seq(Int)
  BY DEF Reliable, EncodeShape
<1>1. /\ encpc = "scan" /\ encpc' = "scan" /\ place \in 1..Len(text) /\ place' - 1 = place
      /\ text' = text /\ UNCHANGED tables
  BY <1>0 DEF ScanChar
<1>2. c \in TextChar /\ seen \in Seq(TextChar) /\ SubSeq(text, 1, place) = Append(seen, c)
  BY <1>0, <1>1, FrontGrows
<1>3. Decode(tokens) = Only(seen, Punctuation) /\ FlattenSeq(words) \o current = Only(seen, Letters)
  BY <1>1 DEF Spoken, Scanned
<1>4. \/ /\ c \in Punctuation /\ EndWord /\ current' = <<>>
         /\ tokens' = Append(tokens, IF <<c>> \in DOMAIN vocab THEN vocab[<<c>>] ELSE Special[c] + 256)
      \/ c \notin Punctuation /\ current' = Append(current, c) /\ UNCHANGED <<words, tokens>>
  BY DEF ScanChar, Punctuation
<1>5. FlattenSeq(words) \in Seq(TextChar) /\ \A x : x \in Letters <=> x \in TextChar /\ x \notin Punctuation
  BY <1>0, FlattenCat DEF Letters
<1>6. Known(<<c>>) /\ <<c>> \in Seq(TextChar)
  BY <1>2 DEF Reliable, PlainKnown
<1>7. /\ Only(Append(seen, c), Punctuation)
           = IF c \in Punctuation THEN Append(Only(seen, Punctuation), c) ELSE Only(seen, Punctuation)
      /\ Only(Append(seen, c), Letters) = IF c \in Letters THEN Append(Only(seen, Letters), c) ELSE Only(seen, Letters)
      /\ Only(seen, Punctuation) \in Seq(TextChar) /\ Only(seen, Letters) \in Seq(TextChar)
  BY <1>2, OnlyAppend
<1>8. Said(tokens) \in Seq(Seq(TextChar))
  BY DEF Spoken
<1>9. reverseVocab' = reverseVocab
  BY <1>1 DEF tables
<1>s. SubSeq(text', 1, place' - 1) = Append(seen, c)
  BY <1>1, <1>2
<1>t. Decode(tokens)' = Decode(tokens') /\ Said(tokens)' = Said(tokens')
  BY <1>9, TablesSay
<1> HIDE DEF c, seen
<1>10. CASE /\ c \in Punctuation /\ EndWord /\ current' = <<>>
            /\ tokens' = Append(tokens, IF <<c>> \in DOMAIN vocab THEN vocab[<<c>>] ELSE Special[c] + 256)
  <2>1. PICK p, id : p = <<c>> /\ id = vocab[p]
    OBVIOUS
  <2>2. p \in Seq(TextChar) /\ Known(p)
    BY <1>6, <2>1
  <2>3. TokenText(id) = p /\ p \in DOMAIN vocab
    BY <2>1, <2>2, KnownToken DEF Known
  <2>4. id \in Int
    BY <2>1, <2>3 DEF Reliable, TablesCounted
  <2>5. tokens' = Append(tokens, id)
    BY <1>10, <2>1, <2>3
  <2>6. Decode(Append(tokens, id)) = Decode(tokens) \o p /\ Said(Append(tokens, id)) \in Seq(Seq(TextChar))
    BY <1>0, <1>8, <2>2, <2>3, <2>4, DecodeAppend
  <2>7. Only(seen, Punctuation) \o <<c>> = Append(Only(seen, Punctuation), c)
    BY <1>2, <1>7, AppendIsConcat
  <2>8. FlattenSeq(words') \o <<>> = FlattenSeq(words')
    <3>1. FlattenSeq(words') = Only(seen, Letters)
      BY <1>0, <1>3, <1>10, EndWordKeepsText
    <3> QED
      BY <1>7, <3>1, ConcatEmptySeq
  <2>9. FlattenSeq(words') \o current' = Only(seen, Letters)
    BY <1>0, <1>3, <1>10, <2>8, EndWordKeepsText
  <2>10. Only(Append(seen, c), Letters) = Only(seen, Letters)
    BY <1>5, <1>7, <1>10
  <2>11. Decode(tokens') = Only(Append(seen, c), Punctuation)
    BY <1>3, <1>7, <1>10, <2>1, <2>5, <2>6, <2>7, Zenon
  <2> QED
    BY <1>1, <1>s, <1>t, <1>7, <2>5, <2>6, <2>9, <2>10, <2>11
       DEF Spoken, Scanned, Spelled, PiecesKnown, Finished
<1>11. CASE c \notin Punctuation /\ current' = Append(current, c) /\ UNCHANGED <<words, tokens>>
  <2>1. PICK w : w = FlattenSeq(words)
    OBVIOUS
  <2>2. w \in Seq(TextChar) /\ w \o current = Only(seen, Letters) /\ FlattenSeq(words') = w
    BY <1>3, <1>5, <1>11, <2>1
  <2>3. w \o Append(current, c) = Append(w \o current, c)
    BY <1>0, <1>2, <2>2, CatThenAppend
  <2>4. FlattenSeq(words') \o current' = Only(Append(seen, c), Letters)
    <3>1. c \in Letters
      BY <1>2, <1>5, <1>11
    <3> QED
      BY <1>7, <1>11, <2>2, <2>3, <3>1, Zenon
  <2>5. Decode(tokens') = Only(Append(seen, c), Punctuation)
    BY <1>3, <1>7, <1>11
  <2> QED
    BY <1>1, <1>s, <1>t, <1>8, <1>11, <2>4, <2>5
       DEF Spoken, Scanned, Spelled, PiecesKnown, Finished
<1> QED
  BY <1>4, <1>10, <1>11

LEMMA ScanEndSpeaks ==
  ASSUME ScanEnd, Reliable, Spoken
  PROVE  Spoken'
<1>0. /\ text \in Seq(TextChar) /\ current \in Seq(TextChar) /\ place \in Nat \ {0}
      /\ words \in Seq(Seq(TextChar)) /\ tokens \in Seq(Int) /\ Len(text) \in Nat
  BY DEF Reliable, EncodeShape
<1>1. /\ encpc = "scan" /\ encpc' = "word" /\ place > Len(text) /\ place' = 1
      /\ EndWord /\ text' = text /\ tokens' = tokens /\ reverseVocab' = reverseVocab
  BY DEF ScanEnd, tables
<1>2. place - 1 = Len(text)
  <2>1. place <= Len(text) + 1
    BY <1>1 DEF Reliable, WordsCounted
  <2> QED
    BY <1>0, <1>1, <2>1
<1>3. SubSeq(text, 1, place - 1) = text
  BY <1>0, <1>2, SubSeqFull
<1>4. Decode(tokens) = Only(text, Punctuation) /\ FlattenSeq(words) \o current = Only(text, Letters)
  BY <1>1, <1>3 DEF Spoken, Scanned
<1>5. FlattenSeq(words') = Only(text, Letters)
  BY <1>0, <1>1, <1>4, EndWordKeepsText
<1>6. words' \in Seq(Seq(TextChar))
  BY <1>0, <1>1 DEF EndWord
<1>7. place' - 1 = 0 /\ SubSeq(words', 1, 0) = <<>>
  BY <1>1, <1>6, SubSeqEmpty
<1>8. FlattenSeq(SubSeq(words', 1, place' - 1)) = <<>>
  BY <1>7, FlattenNone
<1>9. Decode(tokens) \in Seq(TextChar)
  <2>1. Said(tokens) \in Seq(Seq(TextChar))
    BY DEF Spoken
  <2>2. Decode(tokens) = FlattenSeq(Said(tokens))
    BY Zenon DEF Decode, Said
  <2> QED
    BY <2>1, <2>2, FlattenCat
<1>10. Only(text, Punctuation) \o <<>> = Only(text, Punctuation)
  BY <1>4, <1>9, ConcatEmptySeq
<1>11. Decode(tokens)' = Decode(tokens') /\ Said(tokens)' = Said(tokens')
  BY <1>1, TablesSay
<1>12. Spelled'
  BY <1>1, <1>4, <1>5, <1>8, <1>10, <1>11 DEF Spelled
<1> QED
  BY <1>1, <1>11, <1>12 DEF Spoken, Scanned, PiecesKnown, Finished

LEMMA NextWordSpeaks ==
  ASSUME NextWord, Reliable, Spoken
  PROVE  Spoken'
<1>0. /\ text \in Seq(TextChar) /\ place \in Nat \ {0}
      /\ words \in Seq(Seq(TextChar)) /\ Len(words) \in Nat
  BY DEF Reliable, EncodeShape
<1>1. /\ encpc = "word" /\ UNCHANGED <<text, place, words, tokens, vocab, reverseVocab>>
      /\ \/ place > Len(words) /\ encpc' = "done"
         \/ /\ ~(place > Len(words)) /\ encpc' = "merge"
            /\ pieces' = [i \in 1..Len(words[place]) |-> <<words[place][i]>>]
  BY DEF NextWord, tables
<1>2. Decode(tokens)' = Decode(tokens') /\ Said(tokens)' = Said(tokens')
  BY <1>1, TablesSay
<1>3. /\ FlattenSeq(words) = Only(text, Letters)
      /\ Decode(tokens) = Only(text, Punctuation) \o FlattenSeq(SubSeq(words, 1, place - 1))
      /\ Said(tokens) \in Seq(Seq(TextChar))
  BY <1>1 DEF Spoken, Spelled
<1>4. CASE place > Len(words) /\ encpc' = "done"
  <2>1. place - 1 = Len(words)
    BY <1>0, <1>1, <1>4 DEF Reliable, WordsCounted
  <2>2. SubSeq(words, 1, place - 1) = words
    BY <1>0, <2>1, SubSeqFull
  <2>3. Finished'
    BY <1>1, <1>2, <1>3, <2>2 DEF Finished
  <2> QED
    BY <1>1, <1>2, <1>3, <1>4, <2>3 DEF Spoken, Scanned, Spelled, PiecesKnown
<1>5. CASE /\ ~(place > Len(words)) /\ encpc' = "merge"
           /\ pieces' = [i \in 1..Len(words[place]) |-> <<words[place][i]>>]
  <2>1. PICK w \in Seq(TextChar) : w = words[place]
    <3>1. place \in 1..Len(words)
      BY <1>0, <1>5
    <3>2. words[place] \in Seq(TextChar)
      BY <1>0, <3>1
    <3> QED
      BY <3>2
  <2>2. pieces' = [i \in 1..Len(w) |-> <<w[i]>>]
    BY <1>5, <2>1
  <2>3. ASSUME NEW p \in ToSet(pieces')
        PROVE  Known(p)'
    <3>1. PICK i \in 1..Len(w) : p = <<w[i]>>
      BY <2>2 DEF ToSet
    <3>2. w[i] \in TextChar
      OBVIOUS
    <3>3. Known(p)
      BY <3>1, <3>2 DEF Reliable, PlainKnown
    <3> QED
      BY <1>1, <3>3 DEF Known
  <2>4. PiecesKnown'
    BY <2>3 DEF PiecesKnown
  <2>5. Spelled'
    BY <1>1, <1>2, <1>3 DEF Spelled
  <2> QED
    BY <1>1, <1>2, <1>3, <1>5, <2>4, <2>5 DEF Spoken, Scanned, Finished
<1> QED
  BY <1>1, <1>4, <1>5

LEMMA MergeSpeaks ==
  ASSUME MergePieces, Reliable, Spoken
  PROVE  Spoken'
<1>0. /\ pieces \in Seq(Seq(TextChar)) /\ Len(pieces) \in Nat
      /\ merges \in Seq(Seq(FileChar) \X Seq(FileChar))
  BY DEF Reliable, EncodeShape
<1>1. /\ encpc = "merge" /\ encpc' \in {"merge", "emit"}
      /\ UNCHANGED <<text, place, words, tokens, vocab, reverseVocab>>
      /\ pieces' = pieces \/ (BestMerge # 0 /\ pieces' = MergeAt(pieces, BestMerge))
  BY DEF MergePieces, MergeAt, tables
<1>2. Decode(tokens)' = Decode(tokens') /\ Said(tokens)' = Said(tokens')
  BY <1>1, TablesSay
<1>3. \A p \in ToSet(pieces) : Known(p)
  BY <1>1 DEF Spoken, PiecesKnown
<1>4. ASSUME BestMerge # 0, pieces' = MergeAt(pieces, BestMerge), NEW p \in ToSet(pieces')
      PROVE  Known(p)
  <2>1. PICK b : b = BestMerge
    OBVIOUS
  <2>2. b \in 1..(Len(pieces) - 1) /\ RuleAt(b) # 0
    BY <1>0, <1>4, <2>1, BestMergeIs
  <2>3. <<pieces[b], pieces[b + 1]>> \in ToSet(merges)
    BY <1>0, <2>2, RuleOfIs DEF RuleAt
  <2>4. Known(pieces[b] \o pieces[b + 1])
    BY <2>3 DEF Reliable, PlainKnown
  <2>5. /\ Len(MergeAt(pieces, b)) = Len(pieces) - 1
        /\ \A j \in 1..(Len(pieces) - 1) :
             MergeAt(pieces, b)[j] = IF j < b THEN pieces[j]
                                     ELSE IF j = b THEN pieces[b] \o pieces[b + 1] ELSE pieces[j + 1]
    BY <1>0, <2>2, MergeAtIs
  <2>6. MergeAt(pieces, b) \in Seq(Seq(TextChar))
    BY <1>0, <2>2, MergeAtIs
  <2>7. PICK j \in 1..(Len(pieces) - 1) : p = MergeAt(pieces, b)[j]
    BY <1>4, <2>1, <2>5, <2>6 DEF ToSet
  <2>8. j \in 1..Len(pieces) /\ j + 1 \in 1..Len(pieces)
    BY <1>0
  <2>9. pieces[j] \in ToSet(pieces) /\ pieces[j + 1] \in ToSet(pieces)
    BY <1>0, <2>8 DEF ToSet
  <2> QED
    BY <1>3, <2>4, <2>5, <2>7, <2>9, Zenon
<1>5. \A p \in ToSet(pieces') : Known(p)
  BY <1>1, <1>3, <1>4
<1>6. PiecesKnown'
  BY <1>1, <1>5 DEF PiecesKnown, Known
<1>7. Spelled'
  BY <1>1, <1>2 DEF Spelled, Spoken
<1> QED
  BY <1>1, <1>2, <1>6, <1>7 DEF Spoken, Scanned, Finished

LEMMA EmitSpeaks ==
  ASSUME EmitWord, Reliable, Spoken
  PROVE  Spoken'
<1>0. /\ text \in Seq(TextChar) /\ place \in Nat \ {0} /\ tokens \in Seq(Int)
      /\ words \in Seq(Seq(TextChar)) /\ Len(words) \in Nat /\ pieces \in Seq(Seq(TextChar))
  BY DEF Reliable, EncodeShape
<1> DEFINE more == [i \in 1..Len(pieces) |-> PieceToken(pieces[i])]
<1>1. /\ encpc = "emit" /\ encpc' = "word" /\ place' = place + 1 /\ tokens' = tokens \o more
      /\ UNCHANGED <<text, words, reverseVocab>>
  BY DEF EmitWord, tables
<1>2. Decode(tokens)' = Decode(tokens') /\ Said(tokens)' = Said(tokens')
  BY <1>1, TablesSay
<1>3. /\ FlattenSeq(words) = Only(text, Letters)
      /\ Decode(tokens) = Only(text, Punctuation) \o FlattenSeq(SubSeq(words, 1, place - 1))
      /\ Said(tokens) \in Seq(Seq(TextChar))
  BY <1>1 DEF Spoken, Spelled
<1>4. Len(pieces) \in Nat /\ \A i \in 1..Len(pieces) : pieces[i] \in Seq(TextChar) /\ pieces[i] \in ToSet(pieces)
  BY <1>0 DEF ToSet
<1>5. ASSUME NEW i \in 1..Len(pieces)
      PROVE  PieceToken(pieces[i]) \in Int /\ TokenText(PieceToken(pieces[i])) = pieces[i]
  <2>1. PICK p \in Seq(TextChar) : p = pieces[i] /\ Known(p)
    BY <1>1, <1>4 DEF Spoken, PiecesKnown
  <2>2. PieceToken(p) = vocab[p] /\ TokenText(vocab[p]) = p
    BY <2>1, KnownToken
  <2>3. PieceToken(p) \in Int
    BY PieceTokenIsInt DEF Reliable
  <2>4. TokenText(PieceToken(p)) = p
    BY <2>2, Zenon
  <2> QED
    BY <2>1, <2>3, <2>4, Zenon
<1>6. more \in Seq(Int) /\ Len(more) = Len(pieces) /\ \A i \in 1..Len(pieces) : TokenText(more[i]) = pieces[i]
  <2>1. \A i \in 1..Len(pieces) : more[i] = PieceToken(pieces[i])
    OBVIOUS
  <2>2. \A i \in 1..Len(pieces) : TokenText(more[i]) = pieces[i]
    BY <1>5, <2>1, Zenon
  <2>3. more \in Seq(Int) /\ Len(more) = Len(pieces)
    BY <1>4, <1>5
  <2> QED
    BY <2>2, <2>3
<1> HIDE DEF more
<1>7. Decode(tokens \o more) = Decode(tokens) \o FlattenSeq(pieces) /\ Said(tokens \o more) \in Seq(Seq(TextChar))
  BY <1>0, <1>3, <1>6, DecodeCat
<1>8. PICK w, front : w = words[place] /\ front = SubSeq(words, 1, place - 1)
  OBVIOUS
<1>9. place \in 1..Len(words)
  BY <1>0, <1>1 DEF Reliable, EncodeShape
<1>10. w \in Seq(TextChar) /\ front \in Seq(Seq(TextChar)) /\ SubSeq(words, 1, place) = Append(front, w)
  BY <1>0, <1>8, <1>9, FrontGrows
<1>11. FlattenSeq(pieces) = w
  BY <1>1, <1>8 DEF Reliable, WordFullyMerged
<1>12. FlattenSeq(Append(front, w)) = FlattenSeq(front) \o w
  BY <1>10, FlattenAppend
<1>13. PICK a, b : a = Only(text, Punctuation) /\ b = FlattenSeq(front)
  OBVIOUS
<1>14. a \in Seq(TextChar) /\ b \in Seq(TextChar)
  <2>1. b \in Seq(TextChar)
    BY <1>10, <1>13, FlattenCat
  <2>2. a \in Seq(TextChar)
    BY <1>0, <1>13, OnlyType
  <2> QED
    BY <2>1, <2>2
<1>15. (a \o b) \o w = a \o (b \o w)
  <2>1. Cat(Cat(a, b), w) = Cat(a, Cat(b, w))
    BY <1>10, <1>14, CatAssociative, SMT
  <2> QED
    BY <2>1, Zenon DEF Cat
<1>16. place' - 1 = place
  BY <1>0, <1>1
<1>17. Decode(tokens)' = Only(text', Punctuation) \o FlattenSeq(SubSeq(words', 1, place' - 1))
  BY <1>1, <1>2, <1>3, <1>7, <1>8, <1>10, <1>11, <1>12, <1>13, <1>15, <1>16, Zenon
<1>18. Spelled'
  BY <1>1, <1>3, <1>17, Zenon DEF Spelled, Letters, Punctuation
<1> QED
  BY <1>1, <1>2, <1>7, <1>18 DEF Spoken, Scanned, PiecesKnown, Finished

\* Lemma: every step keeps what the tokens say, and at the end that is the text.
LEMMA EncodedSoFarKept ==
  ASSUME EncodedSoFar, RoundTripReorders, RulesFromFile, ReloadInv, TokenizerInv,
         WordsCounted, TablesCounted, tokens \in Seq(Int), [TokenizerNext]_tokenizerVars
  PROVE  EncodedSoFar' /\ RoundTripReorders'
<1>1. CASE \/ \E f \in VocabFiles : LoadCall(f)
           \/ LoadFirstLine \/ LoadLine \/ LoadEnd
           \/ \E a \in AddedTokens : AddToken(a[1], a[2])
  <2>1. encpc = "idle" /\ encpc' = "idle" /\ tokens' = tokens
    <3>1. CASE LoadLine
      BY <3>1 DEF LoadLine, encoding, TokenizerInv, OneCall
    <3>2. CASE ~LoadLine
      BY <1>1, <3>2 DEF LoadCall, LoadFirstLine, LoadEnd, AddToken, encoding, TokenizerInv, OneCall
    <3> QED
      BY <3>1, <3>2
  <2>2. tokens' = <<>>
    BY <2>1 DEF EncodedSoFar
  <2>3. Said(tokens)' \in Seq(Seq(TextChar))
    <3>1. Said(tokens)' = <<>>
      BY <2>2 DEF Said
    <3>2. \A X : <<>> \in Seq(X)
      OBVIOUS
    <3> QED
      BY <3>1, <3>2
  <2> QED
    BY <2>1, <2>2, <2>3 DEF EncodedSoFar, RoundTripReorders, Scanned, Spelled, PiecesKnown
<1>2. CASE \/ \E t \in Texts : EncodeCall(t)
           \/ ScanChar \/ ScanEnd \/ NextWord \/ MergePieces \/ EmitWord \/ TakeTokens
           \/ UNCHANGED tokenizerVars
  <2>1. first' = first /\ file' = file /\ UNCHANGED tables
    BY <1>2 DEF EncodeCall, ScanChar, ScanEnd, NextWord, MergePieces, EmitWord, TakeTokens, tokenizerVars, loading
  <2>2. encpc' = "idle" => tokens' = <<>>
    <3>1. CASE UNCHANGED tokenizerVars
      BY <3>1 DEF tokenizerVars, encoding, EncodedSoFar
    <3>2. CASE ~UNCHANGED tokenizerVars
      BY <1>2, <3>2 DEF EncodeCall, ScanChar, ScanEnd, NextWord, MergePieces, EmitWord, TakeTokens
    <3> QED
      BY <3>1, <3>2
  <2>3. ASSUME first # NoTables, PlainFile(file)
        PROVE  Spoken'
    <3>1. Spoken
      BY <2>3 DEF EncodedSoFar, RoundTripReorders, Spoken, Finished
    <3>2. CASE ~UNCHANGED tokenizerVars
      <4>1. lpc = "idle"
        BY <1>2, <3>2 DEF EncodeCall, ScanChar, ScanEnd, NextWord, MergePieces, EmitWord, TakeTokens,
                          TokenizerInv, OneCall
      <4>2. PlainKnown
        BY <2>3, <4>1, PlainFileKnown DEF TokenizerInv
      <4>3. Reliable
        BY <4>1, <4>2 DEF Reliable, TokenizerInv, MergesShape
      <4>4. CASE \E t \in Texts : EncodeCall(t)
        <5>1. PICK t \in Texts : EncodeCall(t)
          BY <4>4
        <5>2. encpc = "idle" /\ tokens = <<>>
          BY <5>1 DEF EncodeCall, EncodedSoFar
        <5> QED
          BY <4>3, <5>1, <5>2, CallSpeaks
      <4>5. CASE TakeTokens
        <5>1. tokens' = <<>> /\ encpc' = "idle"
          BY <4>5 DEF TakeTokens
        <5>2. Said(tokens)' = <<>>
          BY <5>1 DEF Said
        <5>3. \A X : <<>> \in Seq(X)
          OBVIOUS
        <5> QED
          BY <5>1, <5>2, <5>3 DEF Spoken, Scanned, Spelled, PiecesKnown, Finished
      <4> QED
        BY <1>2, <3>1, <3>2, <4>3, <4>4, <4>5, ScanSpeaks, ScanEndSpeaks, NextWordSpeaks, MergeSpeaks, EmitSpeaks
    <3>3. CASE UNCHANGED tokenizerVars
      <4>1. Decode(tokens)' = Decode(tokens') /\ Said(tokens)' = Said(tokens')
        BY <2>1, TablesSay DEF tables
      <4>2. UNCHANGED <<encpc, text, place, current, words, pieces, tokens, vocab, reverseVocab>>
        BY <3>3 DEF tokenizerVars, encoding, tables
      <4> QED
        BY <3>1, <4>1, <4>2 DEF Spoken, Scanned, Spelled, PiecesKnown, Finished, Known
    <3> QED
      BY <3>2, <3>3
  <2>4. (first # NoTables /\ PlainFile(file))' => Spoken'
    BY <2>1, <2>3
  <2> QED
    BY <2>2, <2>4 DEF EncodedSoFar, RoundTripReorders, Spoken, Finished
<1> QED
  BY <1>1, <1>2 DEF TokenizerNext

\* For every plain vocabulary file and every text, decode() gives back what
\* encode() was given, with all spaces and punctuation before all words: no
\* character is lost, none is added, and the words keep their order.
THEOREM TokenizerRoundTripReorders == TokenizerSpec => []RoundTripReorders
<1> DEFINE R == EncodedSoFar /\ RoundTripReorders /\ RulesFromFile
<1>1. TokenizerInit => R
  <2>1. SUFFICES ASSUME TokenizerInit PROVE R
    OBVIOUS
  <2>2. merges = <<>> /\ encpc = "idle" /\ tokens = <<>> /\ first = NoTables
    BY <2>1 DEF TokenizerInit
  <2>3. ToSet(merges) = {}
    BY <2>2 DEF ToSet
  <2> QED
    BY <2>2, <2>3 DEF EncodedSoFar, RoundTripReorders, RulesFromFile
<1>2. R /\ Counted /\ ReloadInv /\ TokenizerInv /\ TokenizerInv' /\ [TokenizerNext]_tokenizerVars => R'
  BY EncodedSoFarKept, RulesFromFileKept DEF TokenizerInv, Counted
<1> QED
  BY <1>1, <1>2, TokenizerCounted, TokenizerReloads, TokenizerInvariant, PTL DEF TokenizerSpec

=============================================================================
