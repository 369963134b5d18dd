---------------------------- MODULE MCComponents ----------------------------
(***************************************************************************)
(* The components that do their work inside one call or under one owner,   *)
(* each on a small instance of its own: the command line, the GPUs, the    *)
(* body of a request, the tokenizer, the sampler, the tool loop and the    *)
(* NATS client.  They share no state, so each behaviour is one of a single *)
(* component, the focus, with the others at rest.                          *)
(***************************************************************************)
EXTENDS Configuration, GpuManager, RequestParser, Tokenizer, Sampler, ToolLoop, NatsClient

VARIABLE focus

components == <<configurationVars, gpuVars, requestVars, tokenizerVars, samplerVars, toolVars, natsVars>>

\* The command line: options of every kind, words that are numbers or not, the
\* empty word, and what the environment may add.
MCEnvironments == [model : {Unset, "e"}, mode : {Unset, "cuda"}, nats : {Unset, "nats://e"},
                   port : {Unset, "9", "x"}]

\* Two devices with room for no pool, hardly one, and two; the sizes of half a
\* pool, of a bit more, of too much, and one that wraps.
MCFreeMemory == {4, 8, 20}
MCGpuDevices == {-1, 0, 1, 2}
MCSizes == {4, 5, 20, 30}

\* Flat objects with punctuation inside strings, numbers quoted and not, and
\* other bodies: the example of README.md:108-113 and whatever is short.
Pair(key, quoted, value) == [key |-> key, quoted |-> quoted, value |-> value]

MCPairs ==
  {Pair(<<"prompt">>, TRUE, v) : v \in {<<>>, <<"Hello!">>, <<"a", ",", ":">>, <<"}", Blank, "{">>}}
    \cup {Pair(<<"max_tokens">>, FALSE, <<v>>) : v \in {"100", "null"}}
    \cup {Pair(<<"temperature">>, TRUE, <<"0.7">>), Pair(<<>>, FALSE, <<"true">>)}

MCObjects == UNION {[1..n -> MCPairs] : n \in 0..2}

ReadmeExample ==
  <<"{">> \o WrittenPair(Pair(<<"model">>, TRUE, <<"sovalune-model">>), <<Blank>>) \o
  <<",">> \o Quoted(<<"messages">>) \o <<":", Blank, "[", "{">> \o
  WrittenPair(Pair(<<"role">>, TRUE, <<"user">>), <<Blank>>) \o <<",">> \o
  WrittenPair(Pair(<<"content">>, TRUE, <<"Hello!">>), <<Blank>>) \o <<"}", "]", ",">> \o
  WrittenPair(Pair(<<"max_tokens">>, FALSE, <<"100">>), <<Blank>>) \o <<",">> \o
  WrittenPair(Pair(<<"temperature">>, FALSE, <<"0.7">>), <<Blank>>) \o <<Blank, "}">>

MCBodies == {ReadmeExample} \cup UNION {[1..n -> {Quote, ":", ",", "a"}] : n \in 0..4}

\* Vocabulary files: none of the lines, tokens and merges in plain order, a
\* header and rules that compete, numbered entries that collide with automatic
\* ids, a number of six digits, and lines that make stoi throw.
MCVocabFiles == {
  <<>>,
  << <<"a">>, <<"b">>, <<".">>, <<"a", "b">>, <<"a", " ", "b">> >>,
  << <<"vocab_size", ":", "7">>, <<"b">>, <<"a">>, <<".">>, <<"b", "a">>, <<"a", "b">>, <<"b", "a", "b">>,
     <<"b", "a", " ", "b">>, <<"b", " ", "a">>, <<"a", " ", "b">> >>,
  << <<"a">>, <<"b", " ", "0">>, <<" ", " ", "7">>, <<"a", "b", " ", "3", "0", "2">> >>,
  << <<"vocab_size">>, <<"a", " ", "1", "1", "1", "1", "1", "1">>, <<>>, <<"a">> >>,
  << <<"vocab_size", ":", "b">> >>,
  << <<"a">>, <<" ", "b">> >>,
  << <<"a">>, <<"b", " ">> >> }
MCTexts == UNION {[1..n -> {"a", "b", "."}] : n \in 0..4}
MCAddedTokens == {<< <<".">>, 1>>}

MCWeights == {1, 2, 6}

\* Answers without a call, with one, with ones that are not parsed, and with
\* several.
MCTools == <<"memory_search", "memory_write", "code_execute">>
Asks(tool, arguments) == [tool |-> tool, arguments |-> arguments]
MCAnswers == {<<>>, <<Asks("memory_search", "plain")>>, <<Asks("shell", "nested")>>,
              <<Asks("memory_search", "empty")>>, <<Asks("memory_search", "inside")>>,
              <<Asks("memory_search", "inside"), Asks("code_execute", "nested"), Asks("shell", "plain")>>}

Init ==
  /\ focus \in {"configuration", "gpu", "request", "tokenizer", "sampler", "tools", "nats"}
  /\ ConfigurationInit /\ GpuInit /\ RequestInit /\ TokenizerInit /\ SamplerInit /\ ToolInit
  /\ NatsInit

OnlyConfiguration == UNCHANGED <<gpuVars, requestVars, tokenizerVars, samplerVars, toolVars, natsVars>>
OnlyGpu == UNCHANGED <<configurationVars, requestVars, tokenizerVars, samplerVars, toolVars, natsVars>>
OnlyRequest == UNCHANGED <<configurationVars, gpuVars, tokenizerVars, samplerVars, toolVars, natsVars>>
OnlyTokenizer == UNCHANGED <<configurationVars, gpuVars, requestVars, samplerVars, toolVars, natsVars>>
OnlySampler == UNCHANGED <<configurationVars, gpuVars, requestVars, tokenizerVars, toolVars, natsVars>>
OnlyTools == UNCHANGED <<configurationVars, gpuVars, requestVars, tokenizerVars, samplerVars, natsVars>>
OnlyNats == UNCHANGED <<configurationVars, gpuVars, requestVars, tokenizerVars, samplerVars, toolVars>>

Next ==
  /\ UNCHANGED focus
  /\ \/ focus = "configuration" /\ ConfigurationNext /\ OnlyConfiguration
     \/ focus = "gpu" /\ GpuNext /\ OnlyGpu
     \/ focus = "request" /\ RequestNext /\ OnlyRequest
     \/ focus = "tokenizer" /\ TokenizerNext /\ OnlyTokenizer
     \/ focus = "sampler" /\ SamplerNext /\ OnlySampler
     \/ focus = "tools" /\ ToolNext /\ OnlyTools
     \/ focus = "nats" /\ NatsNext /\ OnlyNats

vars == <<focus, components>>
Spec == Init /\ [][Next]_vars /\ ToolFairness

\* The types of all components.
ComponentsTypeOK ==
  /\ ConfigurationTypeOK /\ GpuTypeOK /\ RequestTypeOK
  /\ TokenizerTypeOK /\ SamplerTypeOK /\ ToolTypeOK /\ NatsTypeOK

=============================================================================
