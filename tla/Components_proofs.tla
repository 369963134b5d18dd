------------------------- MODULE Components_proofs --------------------------
(***************************************************************************)
(* Every behaviour in which the components run side by side, each under    *)
(* its own owner, is one of each component alone: what is proved of a      *)
(* component holds of the behaviours that TLC checks.                      *)
(***************************************************************************)
EXTENDS MCComponents, Startup_proofs, RequestParser_proofs, Tokens_proofs, Tools_proofs

\* Lemma: a step is a step of one component, and the others stay.
LEMMA StepsApart ==
  ASSUME [Next]_vars
  PROVE  /\ [ConfigurationNext]_configurationVars /\ [GpuNext]_gpuVars /\ [RequestNext]_requestVars
         /\ [TokenizerNext]_tokenizerVars /\ [SamplerNext]_samplerVars
         /\ [ToolNext]_toolVars /\ [NatsNext]_natsVars
BY DEF Next, OnlyConfiguration, OnlyGpu, OnlyRequest, OnlyTokenizer, OnlySampler, OnlyTools, OnlyNats,
       vars, components

\* The command line, the GPUs, the body of a request, the tokenizer, the
\* sampler, the tool loop and the bus share no state: together they are each
\* what they are alone.
THEOREM ComponentsApart ==
  Spec => /\ ConfigurationSpec /\ GpuSpec /\ RequestSpec /\ TokenizerSpec
          /\ SamplerSpec /\ ToolSpec /\ NatsSpec
<1>1. Init => /\ ConfigurationInit /\ GpuInit /\ RequestInit /\ TokenizerInit
              /\ SamplerInit /\ ToolInit /\ NatsInit
  BY DEF Init
<1>2. [Next]_vars => /\ [ConfigurationNext]_configurationVars /\ [GpuNext]_gpuVars /\ [RequestNext]_requestVars
                     /\ [TokenizerNext]_tokenizerVars /\ [SamplerNext]_samplerVars
                     /\ [ToolNext]_toolVars /\ [NatsNext]_natsVars
  BY StepsApart
<1> QED
  BY <1>1, <1>2, PTL DEF Spec, ConfigurationSpec, GpuSpec, RequestSpec, TokenizerSpec, SamplerSpec, ToolSpec, NatsSpec

\* The types of all components, for every value of their constants.
THEOREM ComponentsTypeCorrect == Spec => []ComponentsTypeOK
<1>1. GpuInv /\ NatsInv => GpuTypeOK /\ NatsTypeOK
  BY DEF GpuInv, GpuTypes, NatsInv, NatsTypes
<1>2. /\ ConfigurationTypeOK /\ GpuTypeOK /\ RequestTypeOK /\ TokenizerTypeOK
      /\ SamplerTypeOK /\ ToolTypeOK /\ NatsTypeOK
      => ComponentsTypeOK
  BY DEF ComponentsTypeOK
<1> QED
  BY <1>1, <1>2, ComponentsApart, ConfigurationTypeCorrect, GpuInvariant, RequestTypeCorrect, TokenizerTypeCorrect,
     SamplerTypeCorrect, ToolTypeCorrect, NatsInvariant, PTL

=============================================================================
