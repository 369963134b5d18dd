------------------------------- MODULE ToolLoop -------------------------------
(***************************************************************************)
(* InferenceEngine::generate_with_tools() and the ToolCaller              *)
(* (src/engine/inference_engine.cpp, src/tool_calling/tool_caller.hpp),    *)
(* next to an owner that starts and stops the engine.  The registry of     *)
(* tools is filled by start() and read by the loop, without a lock; two    *)
(* callers only read it, so one is modelled.  generate() answers anything. *)
(***************************************************************************)
EXTENDS Integers, Sequences, FiniteSets, SequencesExt

CONSTANTS Tools,          \* the names start() registers, in its order
          OtherTools,     \* names nobody registers
          Answers,        \* what generate() may answer, see Call
          MaxToolCalls,   \* config_.max_tool_calls
          MaxStarts       \* bounds the number of starts

ASSUME ToolAssumption ==
  /\ MaxToolCalls \in Nat /\ MaxStarts \in Nat
  /\ Tools \in Seq(ToSet(Tools)) /\ ToSet(Tools) \cap OtherTools = {}

\* A tool call in an answer, by its arguments: an object as usual, one without
\* members, one whose last member is an object, or one where a member follows
\* such an object.  An answer is a sequence of calls.
Call == [tool : ToSet(Tools) \cup OtherTools, arguments : {"plain", "empty", "nested", "inside"}]

VARIABLES life,           \* where the owner's start() is
          starts,         \* how often it was called
          ready,          \* ready_
          handlers,       \* handlers_
          entry,          \* the tool register_tool() is assigning, 0 for none
          tpc,            \* where generate_with_tools() is
          admittedIn,     \* the start the caller was admitted in
          iterations, toolCall, result,      \* its locals
          fullResponse, currentPrompt,       \* the answers, and the results added
          announced       \* the calls on_tool_call was told of

toolVars == <<life, starts, ready, handlers, entry, tpc, admittedIn, iterations,
              toolCall, result, fullResponse, currentPrompt, announced>>
engineSide == <<life, starts, ready, handlers, entry>>
callerLog == <<fullResponse, currentPrompt, announced>>

NoTool == "none"
NoToolCall == [tool |-> NoTool, arguments |-> "plain"]

ToolInit ==
  /\ life = "off" /\ starts = 0 /\ ready = FALSE /\ handlers = {} /\ entry = 0
  /\ tpc = "idle" /\ admittedIn = 0 /\ iterations = 0 /\ toolCall = NoToolCall /\ result = <<>>
  /\ fullResponse = <<>> /\ currentPrompt = <<>> /\ announced = <<>>

-----------------------------------------------------------------------------
(* start() and stop(), as far as the loop sees them *)

OwnerMove == UNCHANGED <<tpc, admittedIn, iterations, toolCall, result, callerLog>>

\* A start() that fails returns before the first register_tool() and leaves
\* everything here as it was.  One that gets there does not test whether it was
\* called before (see OwnerStarts).
StartTools_ReadyFirst ==
  /\ life \in {"off", "up"} /\ starts < MaxStarts
  /\ life' = "registering" /\ starts' = starts + 1 /\ entry' = 1 /\ ready' = TRUE
  /\ UNCHANGED handlers /\ OwnerMove

StartTools ==
  /\ life \in {"off", "up"} /\ starts < MaxStarts
  /\ life' = "registering" /\ starts' = starts + 1 /\ entry' = 1
  /\ UNCHANGED <<ready, handlers>> /\ OwnerMove

\* register_tool(): the assignment ends, and the next one begins.
RegisterTool ==
  /\ entry \in 1..Len(Tools)
  /\ handlers' = handlers \cup {Tools[entry]} /\ entry' = entry + 1
  /\ UNCHANGED <<life, starts, ready>> /\ OwnerMove

StartEnd ==
  /\ entry = Len(Tools) + 1 /\ entry' = 0
  /\ life' = "up" /\ ready' = TRUE
  /\ UNCHANGED <<starts, handlers>> /\ OwnerMove

StopTools ==
  /\ life = "up" /\ life' = "off" /\ ready' = FALSE
  /\ UNCHANGED <<starts, handlers, entry>> /\ OwnerMove

\* The owner's contract, which main() keeps: no start() while the engine is up
\* (it would assign worker_ over a running thread: std::terminate).
OwnerStarts == life # "up" /\ StartTools

EngineStep == OwnerStarts \/ RegisterTool \/ StartEnd \/ StopTools

-----------------------------------------------------------------------------
(* generate_with_tools() *)

ToolsCall ==
  /\ tpc = "idle" /\ UNCHANGED <<engineSide, iterations, toolCall, result, callerLog>>
  /\ IF ready THEN tpc' = "loop" /\ admittedIn' = starts
              ELSE tpc' = "threw" /\ UNCHANGED admittedIn

MoreRounds_OneMore == iterations <= MaxToolCalls
MoreRounds == iterations < MaxToolCalls

LoopOver ==
  /\ tpc = "loop" /\ ~MoreRounds /\ tpc' = "returned"
  /\ UNCHANGED <<engineSide, admittedIn, iterations, toolCall, result, callerLog>>

\* generate() throws when the engine was stopped meanwhile, and of itself
\* (reserve() of a negative limit): the answers so far are lost.
GenerateThrows_Waits ==
  /\ tpc = "loop" /\ MoreRounds /\ ~ready /\ tpc' = "loop"
  /\ UNCHANGED <<engineSide, admittedIn, iterations, toolCall, result, callerLog>>

GenerateThrows ==
  /\ tpc = "loop" /\ MoreRounds /\ tpc' = "threw"
  /\ UNCHANGED <<engineSide, admittedIn, iterations, toolCall, result, callerLog>>

\* try_parse_tool_call(): the first call whose arguments are not empty and have
\* nothing but the end of the call behind their first "}".
Parsed(answer) == SelectSeq(answer, LAMBDA c : c.arguments \in {"plain", "nested"})

GenerateAnswers(answer) ==
  /\ tpc = "loop" /\ MoreRounds /\ ready
  /\ fullResponse' = Append(fullResponse, answer)
  /\ IF Parsed(answer) = <<>> THEN tpc' = "returned" /\ UNCHANGED toolCall
                              ELSE tpc' = "announce" /\ toolCall' = Head(Parsed(answer))
  /\ UNCHANGED <<engineSide, admittedIn, iterations, result, currentPrompt, announced>>

\* on_tool_call() is told of the call, and may throw.
AnnounceTool ==
  /\ tpc = "announce" /\ tpc' \in {"find", "threw"}
  /\ announced' = Append(announced, toolCall)
  /\ UNCHANGED <<engineSide, admittedIn, iterations, toolCall, result, fullResponse, currentPrompt>>

\* execute_tool(): the handler is found, and then called.
FindTool ==
  /\ tpc = "find"
  /\ IF toolCall.tool \in handlers THEN tpc' = "call" /\ UNCHANGED result
     ELSE tpc' = "result" /\ result' = <<"unknown tool", toolCall.tool>>
  /\ UNCHANGED <<engineSide, admittedIn, iterations, toolCall, callerLog>>

CallTool ==
  /\ tpc = "call" /\ tpc' = "result" /\ result' = <<"ok", toolCall.tool>>
  /\ UNCHANGED <<engineSide, admittedIn, iterations, toolCall, callerLog>>

\* A handler is inserted while the map is searched, or replaced while it runs:
\* undefined, a crash among others.
Racing ==
  /\ entry \in 1..Len(Tools)
  /\ \/ tpc = "find" /\ Tools[entry] \notin handlers
     \/ tpc = "call" /\ Tools[entry] = toolCall.tool

RegistryCrash ==
  /\ Racing /\ tpc' = "crashed"
  /\ UNCHANGED <<engineSide, admittedIn, iterations, toolCall, result, callerLog>>

AddResult_Replacing ==
  /\ tpc = "result" /\ tpc' = "loop"
  /\ currentPrompt' = <<result>> /\ result' = <<>> /\ iterations' = iterations + 1
  /\ UNCHANGED <<engineSide, admittedIn, toolCall, fullResponse, announced>>

AddResult ==
  /\ tpc = "result" /\ tpc' = "loop"
  /\ currentPrompt' = Append(currentPrompt, result) /\ result' = <<>>
  /\ iterations' = iterations + 1
  /\ UNCHANGED <<engineSide, admittedIn, toolCall, fullResponse, announced>>

CallerLeaves ==
  /\ tpc \in {"returned", "threw"} /\ tpc' = "idle"
  /\ admittedIn' = 0 /\ iterations' = 0 /\ toolCall' = NoToolCall /\ result' = <<>>
  /\ fullResponse' = <<>> /\ currentPrompt' = <<>> /\ announced' = <<>>
  /\ UNCHANGED engineSide

LoopStep ==
  \/ LoopOver \/ GenerateThrows
  \/ \E answer \in Answers : GenerateAnswers(answer)
  \/ AnnounceTool \/ FindTool \/ CallTool \/ AddResult

ToolNext == EngineStep \/ ToolsCall \/ LoopStep \/ RegistryCrash \/ CallerLeaves

\* The thread of a call is scheduled, and on_tool_call and the model come to an
\* end, by a return or by an exception.
ToolFairness == WF_toolVars(LoopStep)

ToolSpec == ToolInit /\ [][ToolNext]_toolVars /\ ToolFairness

-----------------------------------------------------------------------------
(* Properties *)

ToolTypeOK ==
  /\ life \in {"off", "registering", "up"} /\ starts \in 0..MaxStarts /\ ready \in BOOLEAN
  /\ handlers \subseteq ToSet(Tools) /\ entry \in 0..(Len(Tools) + 1)
  /\ tpc \in {"idle", "loop", "announce", "find", "call", "result", "returned", "threw", "crashed"}
  /\ iterations \in 0..MaxToolCalls

Rounds == Len(currentPrompt)

\* What the client was told, what the model was told and what the client gets
\* agree (inference_engine.cpp:233-253): the i-th result answers the i-th
\* announced call, which is the first usable call of the i-th answer.
ResultsAnswerCalls ==
  /\ \A i \in 1..Rounds : currentPrompt[i][2] = announced[i].tool
  /\ \A i \in 1..Len(announced) : announced[i] = Head(Parsed(fullResponse[i]))
  /\ tpc \in {"loop", "returned"} => Rounds = Len(announced)

\* A call returns after an answer without a usable tool call, or when the limit
\* of tool calls is reached: then the last result was never shown to the model,
\* and the response ends in the text of a tool call.
LastResultSeenBelowLimit ==
  tpc = "returned" =>
    IF Rounds < MaxToolCalls
    THEN Len(fullResponse) = Rounds + 1 /\ Parsed(Last(fullResponse)) = <<>>
    ELSE Len(fullResponse) = MaxToolCalls

\* The registry is settled for a caller that ready_ admitted: no registered tool
\* is unknown to it, and it meets no assignment, unless a stop() and another
\* start() came between.
RegistrySettled ==
  /\ tpc = "result" /\ result[1] = "unknown tool" => result[2] \notin ToSet(Tools)
  /\ Racing \/ tpc = "crashed" => admittedIn < starts

\* Whatever the model answers and the owner does, the loop ends.
LoopReturns == tpc = "loop" ~> tpc \in {"returned", "threw", "crashed"}

=============================================================================
