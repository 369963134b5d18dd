---------------------------- MODULE Tools_proofs ----------------------------
(***************************************************************************)
(* Proofs about the tool-calling loop and the bus. For every registry, every*)
(* set of answers and every limit: which tools a caller finds, what the    *)
(* results answer, and where the limit cuts. For every set of request ids and*)
(* any number of messages: the order of a response and its       *)
(* completion survives losses.                                             *)
(***************************************************************************)
EXTENDS ToolLoop, NatsClient, TLAPS

-----------------------------------------------------------------------------
(* The tool-calling loop *)

Usable == {NoToolCall} \cup {Head(Parsed(a)) : a \in Answers}
Result == {"ok", "unknown tool"} \X {c.tool : c \in Usable}

ToolTypes ==
  /\ life \in {"off", "registering", "up"} /\ starts \in Nat /\ ready \in BOOLEAN
  /\ entry \in 0..(Len(Tools) + 1) /\ admittedIn \in Nat /\ iterations \in Nat
  /\ fullResponse \in Seq(Answers) /\ announced \in Seq(Usable) /\ toolCall \in Usable
  /\ currentPrompt \in Seq(Result) /\ result \in Result \cup {<<>>}

\* The registry: tools are entered in order while start() runs, and none is
\* ever taken out.
Registering ==
  /\ entry # 0 => life = "registering" /\ \A i \in 1..(entry - 1) : Tools[i] \in handlers
  /\ life = "up" => ToSet(Tools) \subseteq handlers
  /\ ready => life = "up"

\* A caller that was admitted has all tools; it meets an assignment only of a
\* later start().
Admitted ==
  /\ tpc \in {"loop", "announce", "find", "call", "result", "returned", "crashed"} =>
       /\ ToSet(Tools) \subseteq handlers
       /\ admittedIn <= starts /\ (life = "registering" => admittedIn < starts)
  /\ tpc = "crashed" => admittedIn < starts
  /\ tpc = "result" => (result[1] = "unknown tool" => result[2] \notin ToSet(Tools))

\* How far the answers, the announced calls and the results are at each place.
Answered == Len(fullResponse)
Told == Len(announced)
Progress ==
  /\ Rounds = iterations
  /\ tpc \in {"idle", "loop"} => Answered = Rounds /\ Told = Rounds
  /\ tpc = "announce" => /\ Answered = Rounds + 1 /\ Told = Rounds
                         /\ toolCall = Head(Parsed(fullResponse[Answered]))
  /\ tpc \in {"find", "call", "result", "crashed"} =>
       Answered = Rounds + 1 /\ Told = Rounds + 1 /\ toolCall = announced[Told]
  /\ tpc = "result" => result \in Result /\ result[2] = toolCall.tool
  /\ tpc = "returned" => Told = Rounds
  /\ Told <= Answered
  /\ iterations <= MaxToolCalls
  /\ tpc \in {"announce", "find", "call", "result"} => iterations < MaxToolCalls

ToolInv == ToolTypes /\ Registering /\ Admitted /\ Progress /\ ResultsAnswerCalls /\ LastResultSeenBelowLimit

-----------------------------------------------------------------------------

LEMMA ToolInitInv == ToolInit => ToolInv
<1> SUFFICES ASSUME ToolInit PROVE ToolInv
  OBVIOUS
<1>1. /\ fullResponse = <<>> /\ announced = <<>> /\ currentPrompt = <<>>
      /\ Answered = 0 /\ Told = 0 /\ Rounds = 0
  BY DEF ToolInit, Answered, Told, Rounds
<1>2. ToolTypes
  <2>1. 0 \in 0..(Len(Tools) + 1)
    BY ToolAssumption
  <2>2. fullResponse \in Seq(Answers) /\ announced \in Seq(Usable) /\ currentPrompt \in Seq(Result)
    BY <1>1
  <2>3. toolCall \in Usable /\ result \in Result \cup {<<>>}
    BY DEF ToolInit, Usable
  <2>4. /\ life \in {"off", "registering", "up"} /\ starts \in Nat /\ ready \in BOOLEAN
        /\ admittedIn \in Nat /\ iterations \in Nat
    BY DEF ToolInit
  <2> QED
    BY <2>1, <2>2, <2>3, <2>4 DEF ToolInit, ToolTypes
<1>3. Registering /\ Admitted
  BY DEF ToolInit, Registering, Admitted
<1>4. Progress
  BY <1>1, ToolAssumption DEF ToolInit, Progress
<1>5. ResultsAnswerCalls /\ LastResultSeenBelowLimit
  BY <1>1 DEF ToolInit, ResultsAnswerCalls, LastResultSeenBelowLimit, Told
<1> QED
  BY <1>2, <1>3, <1>4, <1>5 DEF ToolInv

\* Assigning a handler adds the next tool.
LEMMA RegistryGrows ==
  ASSUME ToolInv, EngineStep
  PROVE  Registering' /\ handlers \subseteq handlers'
<1> USE DEF ToolInv, Registering, ToolTypes
<1>1. \A t \in ToSet(Tools) : \E i \in 1..Len(Tools) : Tools[i] = t
  BY ToolAssumption DEF ToSet
<1>2. Len(Tools) \in Nat
  BY ToolAssumption
<1>3. CASE OwnerStarts
  BY <1>3 DEF OwnerStarts, StartTools
<1>4. CASE RegisterTool
  BY <1>2, <1>4 DEF RegisterTool
<1>5. CASE StartEnd
  BY <1>1, <1>2, <1>5 DEF StartEnd
<1>6. CASE StopTools
  BY <1>6 DEF StopTools
<1> QED
  BY <1>3, <1>4, <1>5, <1>6 DEF EngineStep

\* The owner: the locals of the caller stay, the registry only grows.
LEMMA OwnerKeeps ==
  ASSUME ToolInv, EngineStep
  PROVE  ToolInv'
<1>1. UNCHANGED <<tpc, admittedIn, iterations, toolCall, result, callerLog>>
  BY DEF EngineStep, OwnerStarts, StartTools, RegisterTool, StartEnd, StopTools, OwnerMove
<1>2. Registering' /\ handlers \subseteq handlers'
  BY RegistryGrows
<1>3. /\ life' \in {"off", "registering", "up"} /\ starts' \in Nat /\ ready' \in BOOLEAN
      /\ entry' \in 0..(Len(Tools) + 1)
      /\ starts <= starts' /\ (life' = "registering" => life = "registering" \/ starts < starts')
  <2>1. Len(Tools) \in Nat /\ starts \in Nat /\ entry \in 0..(Len(Tools) + 1)
        /\ life \in {"off", "registering", "up"} /\ ready \in BOOLEAN
    BY ToolAssumption DEF ToolInv, ToolTypes
  <2>2. CASE OwnerStarts
    BY <2>1, <2>2 DEF OwnerStarts, StartTools
  <2>3. CASE RegisterTool
    BY <2>1, <2>3 DEF RegisterTool
  <2>4. CASE StartEnd
    BY <2>1, <2>4 DEF StartEnd
  <2>5. CASE StopTools
    <3>1. life' = "off" /\ ready' = FALSE /\ starts' = starts /\ entry' = entry
      BY <2>5 DEF StopTools
    <3>2. entry' \in 0..(Len(Tools) + 1)
      BY <2>1, <3>1
    <3>3. starts' \in Nat /\ starts <= starts'
      BY <2>1, <3>1
    <3> QED
      BY <3>1, <3>2, <3>3
  <2> QED
    BY <2>2, <2>3, <2>4, <2>5 DEF EngineStep
<1>6. ToolTypes'
  BY <1>1, <1>3 DEF ToolInv, ToolTypes, callerLog
<1>4. Admitted'
  <2>1. starts \in Nat /\ starts' \in Nat /\ admittedIn \in Nat /\ starts <= starts'
    BY <1>3 DEF ToolInv, ToolTypes
  <2>2. tpc' = tpc /\ admittedIn' = admittedIn /\ result' = result
    BY <1>1
  <2>3. ToSet(Tools) \subseteq handlers => ToSet(Tools) \subseteq handlers'
    BY <1>2
  <2>4. admittedIn <= starts => admittedIn <= starts'
    BY <2>1
  <2>5. admittedIn < starts => admittedIn < starts'
    BY <2>1
  <2>6. admittedIn <= starts /\ (life = "registering" => admittedIn < starts)
          => (life' = "registering" => admittedIn < starts')
    BY <1>3, <2>1
  <2> QED
    BY <2>2, <2>3, <2>4, <2>5, <2>6 DEF ToolInv, Admitted
<1>5. Progress' /\ ResultsAnswerCalls' /\ LastResultSeenBelowLimit'
  BY <1>1 DEF ToolInv, Progress, ResultsAnswerCalls, LastResultSeenBelowLimit, callerLog, Rounds, Answered, Told
<1> QED
  BY <1>2, <1>4, <1>5, <1>6 DEF ToolInv

-----------------------------------------------------------------------------
(* The caller: the registry stays. *)

LEMMA CallAdmitted ==
  ASSUME ToolInv, ToolsCall
  PROVE  ToolInv'
<1> USE DEF ToolsCall, engineSide, callerLog
<1>1. ToolTypes' /\ Registering'
  BY DEF ToolInv, ToolTypes, Registering
<1>2. Admitted'
  <2>1. CASE ready
    <3>1. ToSet(Tools) \subseteq handlers /\ life = "up" /\ starts \in Nat
      BY <2>1 DEF ToolInv, Registering, ToolTypes
    <3>2. tpc' = "loop" /\ admittedIn' = starts /\ UNCHANGED <<life, starts, handlers>>
      BY <2>1
    <3> QED
      BY <3>1, <3>2 DEF Admitted
  <2>2. CASE ~ready
    BY <2>2 DEF Admitted
  <2> QED
    BY <2>1, <2>2
<1>3. Progress' /\ ResultsAnswerCalls' /\ LastResultSeenBelowLimit'
  BY DEF ToolInv, Progress, Rounds, Answered, Told, ResultsAnswerCalls, LastResultSeenBelowLimit
<1> QED
  BY <1>1, <1>2, <1>3 DEF ToolInv

\* The ends of the loop: what was answered, told and added is not touched.
LEMMA EndsKeep ==
  ASSUME ToolInv, LoopOver \/ GenerateThrows \/ RegistryCrash
  PROVE  ToolInv'
<1> USE DEF engineSide, callerLog
<1>1. /\ UNCHANGED <<engineSide, admittedIn, iterations, toolCall, result, callerLog>>
      /\ \/ tpc = "loop" /\ iterations >= MaxToolCalls /\ tpc' = "returned"
         \/ tpc = "loop" /\ tpc' = "threw"
         \/ tpc \in {"find", "call"} /\ entry # 0 /\ tpc' = "crashed"
  BY ToolAssumption DEF LoopOver, GenerateThrows, RegistryCrash, MoreRounds, Racing, ToolInv, ToolTypes
<1>2. ToolTypes' /\ Registering'
  BY <1>1 DEF ToolInv, ToolTypes, Registering
<1>3. Admitted'
  <2>1. tpc \in {"loop", "find", "call"} /\ UNCHANGED <<handlers, admittedIn, starts, life, entry>>
    BY <1>1
  <2>2. ToSet(Tools) \subseteq handlers /\ admittedIn <= starts /\ (life = "registering" => admittedIn < starts)
    BY <2>1 DEF ToolInv, Admitted
  <2>3. tpc' = "crashed" => admittedIn < starts
    BY <1>1, <2>2 DEF ToolInv, Registering
  <2>4. tpc' # "result"
    BY <1>1
  <2> QED
    BY <2>1, <2>2, <2>3, <2>4 DEF Admitted
<1>4. Progress' /\ ResultsAnswerCalls'
  BY <1>1 DEF ToolInv, Progress, Rounds, Answered, Told, ResultsAnswerCalls
<1>5. LastResultSeenBelowLimit'
  BY <1>1, ToolAssumption DEF ToolInv, ToolTypes, Progress, Rounds, Answered, Told, LastResultSeenBelowLimit
<1> QED
  BY <1>2, <1>3, <1>4, <1>5 DEF ToolInv

\* An answer goes to the end of the response.
LEMMA AnswerKeeps ==
  ASSUME ToolInv, NEW answer \in Answers, GenerateAnswers(answer)
  PROVE  ToolInv'
<1> USE DEF engineSide
<1>1. /\ tpc = "loop" /\ iterations < MaxToolCalls /\ fullResponse' = Append(fullResponse, answer)
      /\ UNCHANGED <<engineSide, admittedIn, iterations, result, currentPrompt, announced>>
  BY DEF GenerateAnswers, MoreRounds
<1>2. \/ Parsed(answer) = <<>> /\ tpc' = "returned" /\ toolCall' = toolCall
      \/ tpc' = "announce" /\ toolCall' = Head(Parsed(answer))
  BY DEF GenerateAnswers
<1>3. /\ fullResponse \in Seq(Answers) /\ announced \in Seq(Usable) /\ currentPrompt \in Seq(Result)
      /\ Answered = iterations /\ Told = iterations /\ Rounds = iterations /\ iterations \in Nat
  BY <1>1 DEF ToolInv, ToolTypes, Progress
<1>4. /\ fullResponse' \in Seq(Answers) /\ Answered' = Answered + 1 /\ fullResponse'[Answered'] = answer
      /\ \A i \in 1..Answered : fullResponse'[i] = fullResponse[i]
      /\ Told' = Told /\ Rounds' = Rounds
  BY <1>1, <1>3 DEF Answered, Told, Rounds
<1>5. ToolTypes' /\ Registering'
  <2>1. Head(Parsed(answer)) \in Usable
    BY DEF Usable
  <2> QED
    BY <1>1, <1>2, <1>4, <2>1 DEF ToolInv, ToolTypes, Registering
<1>6. Admitted'
  BY <1>1, <1>2 DEF ToolInv, Admitted
<1>7. Progress'
  BY <1>1, <1>2, <1>3, <1>4, ToolAssumption DEF ToolInv, Progress
<1>8. ResultsAnswerCalls'
  BY <1>1, <1>2, <1>3, <1>4 DEF ToolInv, ResultsAnswerCalls, Told, Rounds
<1>9. LastResultSeenBelowLimit'
  <2>1. Last(fullResponse') = answer
    BY <1>4 DEF Last, Answered
  <2> QED
    BY <1>1, <1>2, <1>3, <1>4, <2>1 DEF LastResultSeenBelowLimit, Answered
<1> QED
  BY <1>5, <1>6, <1>7, <1>8, <1>9 DEF ToolInv

\* A call is announced before it is looked up.
LEMMA AnnounceKeeps ==
  ASSUME ToolInv, AnnounceTool
  PROVE  ToolInv'
<1> USE DEF engineSide
<1>1. /\ tpc = "announce" /\ tpc' \in {"find", "threw"} /\ announced' = Append(announced, toolCall)
      /\ UNCHANGED <<engineSide, admittedIn, iterations, toolCall, result, fullResponse, currentPrompt>>
  BY DEF AnnounceTool
<1>2. /\ announced \in Seq(Usable) /\ toolCall \in Usable /\ fullResponse \in Seq(Answers)
      /\ Answered = iterations + 1 /\ Told = iterations /\ Rounds = iterations /\ iterations \in Nat
      /\ iterations < MaxToolCalls /\ toolCall = Head(Parsed(fullResponse[Answered]))
  BY <1>1 DEF ToolInv, ToolTypes, Progress
<1>3. /\ announced' \in Seq(Usable) /\ Told' = Told + 1 /\ announced'[Told'] = toolCall
      /\ \A i \in 1..Told : announced'[i] = announced[i]
      /\ Answered' = Answered /\ Rounds' = Rounds
  BY <1>1, <1>2 DEF Answered, Told, Rounds
<1>4. ToolTypes' /\ Registering' /\ Admitted'
  BY <1>1, <1>3 DEF ToolInv, ToolTypes, Registering, Admitted
<1>5. Progress'
  <2>1. Rounds' = iterations' /\ iterations' = iterations /\ iterations < MaxToolCalls
    BY <1>1, <1>2, <1>3
  <2>2. Answered' = Rounds' + 1 /\ Told' = Rounds' + 1 /\ toolCall' = announced'[Told']
    BY <1>1, <1>2, <1>3
  <2> QED
    <3>1. Rounds' \in Nat /\ iterations' <= MaxToolCalls /\ iterations' < MaxToolCalls /\ Told' <= Answered'
      BY <1>2, <1>3, <2>1, <2>2, ToolAssumption
    <3> QED
      BY <1>1, <2>1, <2>2, <3>1 DEF Progress
<1>6. ResultsAnswerCalls'
  BY <1>1, <1>2, <1>3 DEF ToolInv, ResultsAnswerCalls, Told, Rounds, Answered
<1>7. LastResultSeenBelowLimit'
  BY <1>1 DEF LastResultSeenBelowLimit
<1> QED
  BY <1>4, <1>5, <1>6, <1>7 DEF ToolInv

\* What is found, or run, answers the announced call.
LEMMA ExecuteKeeps ==
  ASSUME ToolInv, FindTool \/ CallTool
  PROVE  ToolInv'
<1> USE DEF engineSide, callerLog
<1>1. /\ tpc \in {"find", "call"}
      /\ UNCHANGED <<engineSide, admittedIn, iterations, toolCall, callerLog>>
      /\ \/ tpc' = "call" /\ UNCHANGED result
         \/ tpc' = "result" /\ result' = <<"unknown tool", toolCall.tool>> /\ toolCall.tool \notin handlers
         \/ tpc' = "result" /\ result' = <<"ok", toolCall.tool>>
  BY DEF FindTool, CallTool
<1>2. toolCall \in Usable
  BY DEF ToolInv, ToolTypes
<1>3. result' \in Result \cup {<<>>} /\ (tpc' = "result" => result' \in Result /\ result'[2] = toolCall.tool)
  <2>1. <<"unknown tool", toolCall.tool>> \in Result /\ <<"ok", toolCall.tool>> \in Result
    BY <1>2 DEF Result
  <2>2. CASE UNCHANGED result /\ tpc' = "call"
    BY <2>2 DEF ToolInv, ToolTypes
  <2>3. CASE tpc' = "result" /\ result' = <<"unknown tool", toolCall.tool>>
    BY <2>1, <2>3
  <2>4. CASE tpc' = "result" /\ result' = <<"ok", toolCall.tool>>
    BY <2>1, <2>4
  <2> QED
    BY <1>1, <2>2, <2>3, <2>4
<1>4. ToolTypes' /\ Registering'
  BY <1>1, <1>3 DEF ToolInv, ToolTypes, Registering
<1>5. ToSet(Tools) \subseteq handlers
  BY <1>1 DEF ToolInv, Admitted
<1>6. Admitted'
  <2>1. UNCHANGED <<handlers, admittedIn, starts, life>>
    BY <1>1
  <2>2. tpc' = "result" /\ result'[1] = "unknown tool" => result'[2] \notin ToSet(Tools)
    <3>1. CASE result' = <<"unknown tool", toolCall.tool>> /\ toolCall.tool \notin handlers
      BY <1>5, <3>1
    <3>2. CASE result' = <<"ok", toolCall.tool>>
      BY <3>2
    <3>3. CASE tpc' = "call"
      BY <3>3
    <3> QED
      BY <1>1, <3>1, <3>2, <3>3
  <2>3. tpc' # "crashed" /\ admittedIn <= starts /\ (life = "registering" => admittedIn < starts)
    BY <1>1 DEF ToolInv, Admitted
  <2> QED
    BY <1>5, <2>1, <2>2, <2>3 DEF Admitted
<1>7. Progress'
  BY <1>1, <1>3 DEF ToolInv, Progress, Rounds, Answered, Told
<1>8. ResultsAnswerCalls' /\ LastResultSeenBelowLimit'
  BY <1>1 DEF ToolInv, ResultsAnswerCalls, LastResultSeenBelowLimit, Rounds
<1> QED
  BY <1>4, <1>6, <1>7, <1>8 DEF ToolInv

\* The result goes to the end of the prompt.
LEMMA AddResultKeeps ==
  ASSUME ToolInv, AddResult
  PROVE  ToolInv'
<1> USE DEF engineSide
<1>1. /\ tpc = "result" /\ tpc' = "loop" /\ currentPrompt' = Append(currentPrompt, result)
      /\ result' = <<>> /\ iterations' = iterations + 1
      /\ UNCHANGED <<engineSide, admittedIn, toolCall, fullResponse, announced>>
  BY DEF AddResult
<1>2. /\ currentPrompt \in Seq(Result) /\ result \in Result /\ result[2] = announced[Told].tool
      /\ Answered = iterations + 1 /\ Told = iterations + 1 /\ Rounds = iterations /\ iterations \in Nat
      /\ iterations < MaxToolCalls
  BY <1>1 DEF ToolInv, ToolTypes, Progress
<1>3. /\ currentPrompt' \in Seq(Result) /\ Rounds' = Rounds + 1 /\ currentPrompt'[Rounds'] = result
      /\ \A i \in 1..Rounds : currentPrompt'[i] = currentPrompt[i]
      /\ Answered' = Answered /\ Told' = Told
  BY <1>1, <1>2 DEF Answered, Told, Rounds
<1>4. ToolTypes' /\ Registering' /\ Admitted'
  <2>1. ToolTypes'
    BY <1>1, <1>2, <1>3 DEF ToolInv, ToolTypes
  <2>2. Registering'
    BY <1>1 DEF ToolInv, Registering
  <2>3. Admitted'
    BY <1>1 DEF ToolInv, Admitted
  <2> QED
    BY <2>1, <2>2, <2>3
<1>5. Progress'
  BY <1>1, <1>2, <1>3, ToolAssumption DEF ToolInv, Progress
<1>6. ResultsAnswerCalls'
  <2>1. \A i \in 1..Rounds : currentPrompt[i][2] = announced[i].tool
    BY DEF ToolInv, ResultsAnswerCalls
  <2>2. \A i \in 1..Rounds' : currentPrompt'[i][2] = announced'[i].tool
    <3> SUFFICES ASSUME NEW i \in 1..Rounds' PROVE currentPrompt'[i][2] = announced[i].tool
      BY <1>1
    <3>1. CASE i \in 1..Rounds
      BY <1>3, <2>1, <3>1
    <3>2. CASE i = Rounds'
      BY <1>2, <1>3, <3>2
    <3> QED
      BY <1>2, <1>3, <3>1, <3>2
  <2>3. \A i \in 1..Len(announced') : announced'[i] = Head(Parsed(fullResponse'[i]))
    BY <1>1 DEF ToolInv, ResultsAnswerCalls
  <2>4. Rounds' = Len(announced')
    BY <1>2, <1>3 DEF Told
  <2> QED
    BY <2>2, <2>3, <2>4 DEF ResultsAnswerCalls
<1>7. LastResultSeenBelowLimit'
  BY <1>1 DEF LastResultSeenBelowLimit
<1> QED
  BY <1>4, <1>5, <1>6, <1>7 DEF ToolInv

LEMMA LeaveKeeps ==
  ASSUME ToolInv, CallerLeaves
  PROVE  ToolInv'
<1> USE DEF CallerLeaves, engineSide
<1>1. /\ tpc' = "idle" /\ Answered' = 0 /\ Told' = 0 /\ Rounds' = 0 /\ iterations' = 0
      /\ fullResponse' \in Seq(Answers) /\ announced' \in Seq(Usable) /\ currentPrompt' \in Seq(Result)
      /\ toolCall' \in Usable /\ result' = <<>> /\ admittedIn' = 0
  BY DEF Answered, Told, Rounds, Usable
<1>2. ToolTypes' /\ Registering' /\ Admitted'
  <2>1. ToolTypes'
    BY <1>1 DEF ToolInv, ToolTypes
  <2>2. Registering'
    BY DEF ToolInv, Registering
  <2>3. Admitted'
    BY <1>1 DEF Admitted
  <2> QED
    BY <2>1, <2>2, <2>3
<1>3. Progress'
  BY <1>1, ToolAssumption DEF Progress
<1>4. ResultsAnswerCalls' /\ LastResultSeenBelowLimit'
  BY <1>1 DEF ResultsAnswerCalls, LastResultSeenBelowLimit, Told
<1> QED
  BY <1>2, <1>3, <1>4 DEF ToolInv

LEMMA ToolStep ==
  ASSUME ToolInv, [ToolNext]_toolVars
  PROVE  ToolInv'
<1>1. CASE EngineStep
  BY <1>1, OwnerKeeps
<1>2. CASE ToolsCall
  BY <1>2, CallAdmitted
<1>3. CASE LoopOver \/ GenerateThrows \/ RegistryCrash
  BY <1>3, EndsKeep
<1>4. CASE \E answer \in Answers : GenerateAnswers(answer)
  BY <1>4, AnswerKeeps
<1>5. CASE AnnounceTool
  BY <1>5, AnnounceKeeps
<1>6. CASE FindTool \/ CallTool
  BY <1>6, ExecuteKeeps
<1>7. CASE AddResult
  BY <1>7, AddResultKeeps
<1>8. CASE CallerLeaves
  BY <1>8, LeaveKeeps
<1>9. CASE UNCHANGED toolVars
  BY <1>9 DEF toolVars, ToolInv, ToolTypes, Registering, Admitted, Progress, ResultsAnswerCalls,
              LastResultSeenBelowLimit, Rounds, Answered, Told
<1> QED
  BY <1>1, <1>2, <1>3, <1>4, <1>5, <1>6, <1>7, <1>8, <1>9 DEF ToolNext, LoopStep

LEMMA ToolInvariant == ToolSpec => []ToolInv
<1>1. ToolInv /\ [ToolNext]_toolVars => ToolInv'
  BY ToolStep
<1> QED
  BY ToolInitInv, <1>1, PTL DEF ToolSpec

\* In generate_with_tools() the i-th result answers the i-th announced call,
\* which is the first usable call of the i-th answer.
THEOREM ToolResultsAnswerCalls == ToolSpec => []ResultsAnswerCalls
<1>1. ToolInv => ResultsAnswerCalls
  BY DEF ToolInv
<1> QED
  BY ToolInvariant, <1>1, PTL

\* The loop of generate_with_tools() returns at an answer without a call, or at
\* the limit, with the last result unseen.
THEOREM ToolLastResultSeenBelowLimit == ToolSpec => []LastResultSeenBelowLimit
<1>1. ToolInv => LastResultSeenBelowLimit
  BY DEF ToolInv
<1> QED
  BY ToolInvariant, <1>1, PTL

\* A caller that ready_ admitted finds every tool that start() registers, and
\* meets an assignment to the registry only after a restart.
THEOREM ToolRegistrySettled == ToolSpec => []RegistrySettled
<1>1. ToolInv => RegistrySettled
  <2>1. ToolInv /\ Racing => admittedIn < starts
    <3>1. ToolInv /\ Racing => entry # 0 /\ tpc \in {"find", "call"}
      BY ToolAssumption DEF Racing
    <3> QED
      BY <3>1 DEF ToolInv, Registering, Admitted
  <2> QED
    BY <2>1 DEF ToolInv, Admitted, RegistrySettled
<1> QED
  BY ToolInvariant, <1>1, PTL

\* start() and the loop stay at their places, and only tools of the registry
\* have handlers.
RegistryTypes ==
  /\ starts \in 0..MaxStarts /\ handlers \subseteq ToSet(Tools)
  /\ tpc \in {"idle", "loop", "announce", "find", "call", "result", "returned", "threw", "crashed"}

LEMMA RegistryTypesKept ==
  ASSUME RegistryTypes, [ToolNext]_toolVars
  PROVE  RegistryTypes'
<1>0. MaxStarts \in Nat /\ Len(Tools) \in Nat /\ \A i \in 1..Len(Tools) : Tools[i] \in ToSet(Tools)
  BY ToolAssumption DEF ToSet
<1>1. CASE EngineStep
  <2>1. tpc' = tpc
    BY <1>1 DEF EngineStep, OwnerStarts, StartTools, RegisterTool, StartEnd, StopTools, OwnerMove
  <2>2. starts' \in 0..MaxStarts
    BY <1>0, <1>1 DEF EngineStep, OwnerStarts, StartTools, RegisterTool, StartEnd, StopTools, RegistryTypes
  <2>3. handlers' \subseteq ToSet(Tools)
    BY <1>0, <1>1 DEF EngineStep, OwnerStarts, StartTools, RegisterTool, StartEnd, StopTools, RegistryTypes
  <2> QED
    BY <2>1, <2>2, <2>3 DEF RegistryTypes
<1>2. CASE ToolsCall \/ LoopStep \/ RegistryCrash \/ CallerLeaves
  <2>1. UNCHANGED engineSide
    BY <1>2 DEF ToolsCall, LoopStep, LoopOver, GenerateThrows, GenerateAnswers, AnnounceTool, FindTool, CallTool,
                AddResult, RegistryCrash, CallerLeaves
  <2>2. tpc' \in {"idle", "loop", "announce", "find", "call", "result", "returned", "threw", "crashed"}
    BY <1>2 DEF ToolsCall, LoopStep, LoopOver, GenerateThrows, GenerateAnswers, AnnounceTool, FindTool, CallTool,
                AddResult, RegistryCrash, CallerLeaves
  <2> QED
    BY <2>1, <2>2 DEF RegistryTypes, engineSide
<1>3. CASE UNCHANGED toolVars
  BY <1>3 DEF toolVars, engineSide, RegistryTypes
<1> QED
  BY <1>1, <1>2, <1>3 DEF ToolNext

\* The registry and the loop keep their types: the registry holds tools of
\* start() alone, and the loop never makes more than MaxToolCalls rounds.
THEOREM ToolTypeCorrect == ToolSpec => []ToolTypeOK
<1>1. ToolInit => RegistryTypes
  BY ToolAssumption DEF ToolInit, RegistryTypes
<1>2. RegistryTypes /\ [ToolNext]_toolVars => RegistryTypes'
  BY RegistryTypesKept
<1>3. ToolInv /\ RegistryTypes => ToolTypeOK
  BY ToolAssumption DEF ToolInv, ToolTypes, Progress, RegistryTypes, ToolTypeOK
<1> QED
  BY <1>1, <1>2, <1>3, ToolInvariant, PTL DEF ToolSpec

-----------------------------------------------------------------------------
(* The bus *)

Subject == {"inference.responses", "inference.completed", "inference.tool_calls"}
Message == [subject : Subject, id : RequestIds]
Response(id) == [subject |-> "inference.responses", id |-> id]
Caller == RequestIds \cup {Nobody}

NatsTypes == NatsTypeOK /\ wire \in Seq(Message) /\ completing \in Caller

\* The response of a pending completion is on the wire, or lost.
CompletingHeard ==
  completing # Nobody =>
    completing \in lost \/ \E j \in 1..Len(wire) : wire[j] = Response(completing)

NatsInv == NatsTypes /\ CompletingHeard /\ CompletionFollowsResponse

-----------------------------------------------------------------------------

LEMMA NatsInitInv == NatsInit => NatsInv
<1> SUFFICES ASSUME NatsInit PROVE NatsInv
  OBVIOUS
<1>1. Len(wire) = 0 /\ wire \in Seq(Message)
  BY DEF NatsInit
<1>2. NatsTypes
  <2>1. Len(wire) \in 0..MaxWire
    BY <1>1, NatsAssumption
  <2> QED
    BY <1>1, <2>1 DEF NatsInit, NatsTypes, NatsTypeOK, Caller
<1>3. CompletingHeard /\ CompletionFollowsResponse
  BY <1>1 DEF NatsInit, CompletingHeard, CompletionFollowsResponse
<1> QED
  BY <1>2, <1>3 DEF NatsInv

\* What publishing adds to the wire.
LEMMA Published ==
  ASSUME NatsTypes, NEW subject \in Subject, NEW id \in RequestIds, Publish(subject, id)
  PROVE  /\ wire' \in Seq(Message) /\ Len(wire') = Len(wire) + 1 /\ Len(wire') \in 0..MaxWire
         /\ \A i \in 1..Len(wire) : wire'[i] = wire[i]
         /\ wire'[Len(wire')] = [subject |-> subject, id |-> id]
<1>1. [subject |-> subject, id |-> id] \in Message /\ wire \in Seq(Message) /\ Len(wire) \in Nat
  BY DEF Message, NatsTypes
<1> QED
  BY <1>1, NatsAssumption DEF Publish

\* A response is published, and its completion is then to be told.
LEMMA PublishResponseKeeps ==
  ASSUME NatsInv, NEW id \in RequestIds, NEW done \in BOOLEAN, PublishResponse(id, done)
  PROVE  NatsInv'
<1> USE DEF NatsInv
<1>1. conn = "open" /\ completing = Nobody /\ completing' = (IF done THEN id ELSE Nobody)
  BY DEF PublishResponse
<1>3. Len(wire) \in Nat
  BY DEF NatsTypes
<1>4. CASE Publish("inference.responses", id) /\ UNCHANGED lost
  <2>1. /\ wire' \in Seq(Message) /\ Len(wire') = Len(wire) + 1 /\ Len(wire') \in 0..MaxWire
        /\ \A i \in 1..Len(wire) : wire'[i] = wire[i]
        /\ wire'[Len(wire')] = Response(id)
    BY <1>4, Published DEF Response, Subject
  <2>2. NatsTypes'
    BY <1>1, <2>1 DEF PublishResponse, NatsTypes, NatsTypeOK, Caller
  <2>3. CompletingHeard'
    BY <1>1, <1>3, <2>1 DEF CompletingHeard
  <2>4. CompletionFollowsResponse'
    BY <1>3, <1>4, <2>1 DEF CompletionFollowsResponse, Response
  <2> QED
    BY <2>2, <2>3, <2>4
<1>5. CASE UNCHANGED wire /\ lost' = IF done THEN lost \cup {id} ELSE lost
  <2>1. NatsTypes'
    BY <1>1, <1>5 DEF PublishResponse, NatsTypes, NatsTypeOK, Caller
  <2>2. CompletingHeard' /\ CompletionFollowsResponse'
    BY <1>1, <1>5 DEF CompletingHeard, CompletionFollowsResponse
  <2> QED
    BY <2>1, <2>2
<1> QED
  BY <1>4, <1>5 DEF PublishResponse

\* The completion is told where the response is, unless that was lost.
LEMMA PublishCompletedKeeps ==
  ASSUME NatsInv, PublishCompleted
  PROVE  NatsInv'
<1> USE DEF NatsInv
<1>1. completing # Nobody /\ completing \in RequestIds /\ completing' = Nobody /\ UNCHANGED lost
  BY DEF PublishCompleted, NatsTypes, Caller
<1>2. CompletingHeard'
  BY <1>1 DEF CompletingHeard
<1>3. Len(wire) \in Nat
  BY DEF NatsTypes
<1>4. CASE Publish("inference.completed", completing)
  <2>1. /\ wire' \in Seq(Message) /\ Len(wire') = Len(wire) + 1 /\ Len(wire') \in 0..MaxWire
        /\ \A i \in 1..Len(wire) : wire'[i] = wire[i]
        /\ wire'[Len(wire')] = [subject |-> "inference.completed", id |-> completing]
    BY <1>1, <1>4, Published DEF Subject
  <2>2. NatsTypes'
    BY <1>1, <2>1 DEF PublishCompleted, NatsTypes, NatsTypeOK, Caller
  <2>3. ASSUME NEW i \in 1..Len(wire'), wire'[i].subject = "inference.completed", wire'[i].id \notin lost
        PROVE  \E j \in 1..(i - 1) : wire'[j] = Response(wire'[i].id)
    <3>1. CASE i = Len(wire')
      <4>1. wire'[i].id = completing /\ i - 1 = Len(wire)
        BY <1>3, <2>1, <3>1
      <4>2. PICK j \in 1..Len(wire) : wire[j] = Response(completing)
        BY <1>1, <2>3, <4>1 DEF CompletingHeard
      <4> QED
        BY <2>1, <4>1, <4>2
    <3>2. CASE i # Len(wire')
      <4>1. i \in 1..Len(wire) /\ wire'[i] = wire[i] /\ 1..(i - 1) \subseteq 1..Len(wire)
        BY <1>3, <2>1, <3>2
      <4>2. PICK j \in 1..(i - 1) : wire[j] = Response(wire[i].id)
        BY <2>3, <4>1 DEF CompletionFollowsResponse, Response
      <4> QED
        BY <2>1, <4>1, <4>2
    <3> QED
      BY <3>1, <3>2
  <2>4. CompletionFollowsResponse'
    BY <1>1, <2>3 DEF CompletionFollowsResponse, Response
  <2> QED
    BY <1>2, <2>2, <2>4
<1>5. CASE UNCHANGED wire
  BY <1>1, <1>2, <1>5 DEF PublishCompleted, NatsTypes, NatsTypeOK, Caller, CompletionFollowsResponse
<1> QED
  BY <1>4, <1>5 DEF PublishCompleted

LEMMA PublishToolCallKeeps ==
  ASSUME NatsInv, NEW id \in RequestIds, PublishToolCall(id)
  PROVE  NatsInv'
<1> USE DEF NatsInv
<1>1. Len(wire) \in Nat /\ UNCHANGED <<completing, lost>>
  BY DEF NatsTypes, PublishToolCall
<1>2. /\ wire' \in Seq(Message) /\ Len(wire') = Len(wire) + 1 /\ Len(wire') \in 0..MaxWire
      /\ \A i \in 1..Len(wire) : wire'[i] = wire[i]
      /\ wire'[Len(wire')] = [subject |-> "inference.tool_calls", id |-> id]
  BY Published DEF PublishToolCall, Subject
<1>3. NatsTypes'
  BY <1>2 DEF PublishToolCall, NatsTypes, NatsTypeOK
<1>4. CompletingHeard' /\ CompletionFollowsResponse'
  BY <1>1, <1>2 DEF CompletingHeard, CompletionFollowsResponse
<1> QED
  BY <1>3, <1>4

LEMMA NatsStep ==
  ASSUME NatsInv, [NatsNext]_natsVars
  PROVE  NatsInv'
<1>1. CASE ConnectNats \/ SubscribeInference \/ UNCHANGED natsVars
  <2>1. UNCHANGED <<completing, wire, lost>> /\ conn' \in {"none", "open", "null"} /\ subscribed' \in BOOLEAN
    BY <1>1 DEF ConnectNats, SubscribeInference, natsVars, NatsInv, NatsTypes, NatsTypeOK
  <2> QED
    BY <2>1 DEF NatsInv, NatsTypes, NatsTypeOK, CompletingHeard, CompletionFollowsResponse
<1>2. ASSUME NEW id \in RequestIds, NEW done \in BOOLEAN, PublishResponse(id, done) PROVE NatsInv'
  BY <1>2, PublishResponseKeeps
<1>3. ASSUME NEW id \in RequestIds, PublishToolCall(id) PROVE NatsInv'
  BY <1>3, PublishToolCallKeeps
<1>4. CASE PublishCompleted
  BY <1>4, PublishCompletedKeeps
<1> QED
  BY <1>1, <1>2, <1>3, <1>4 DEF NatsNext

LEMMA NatsInvariant == NatsSpec => []NatsInv
<1>1. NatsInv /\ [NatsNext]_natsVars => NatsInv'
  BY NatsStep
<1> QED
  BY NatsInitInv, <1>1, PTL DEF NatsSpec

\* Who hears that a request is completed could hear its response before, unless
\* that publication of publish_response() was lost.
THEOREM NatsCompletionFollowsResponse == NatsSpec => []CompletionFollowsResponse
<1>1. NatsInv => CompletionFollowsResponse
  BY DEF NatsInv
<1> QED
  BY NatsInvariant, <1>1, PTL

=============================================================================
