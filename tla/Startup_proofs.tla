--------------------------- MODULE Startup_proofs ---------------------------
(***************************************************************************)
(* Proofs about the way to an engine. Configuration: the loop over argv reads*)
(* the command line as the recursive definition of an option does, so an   *)
(* engine is built only from a well-formed one, and from the values Precedence*)
(* names; the definition has to be shown to define something first. GpuManager,*)
(* for every number of devices, amount of memory and pool size: no device  *)
(* memory is lost or counted twice, wherever the guards put the pools.     *)
(***************************************************************************)
EXTENDS Configuration, GpuManager, SequenceLemmas, FiniteSetTheorems

-----------------------------------------------------------------------------
(* The recursive definition of an option *)

\* For every length there is a function that says of each word whether it is an
\* option.
LEMMA OptionsExist ==
  ASSUME NEW a, NEW n \in Nat
  PROVE  \E f \in [1..n -> BOOLEAN] :
           \A i \in 1..n : f[i] = (i = 1 \/ ~(f[i - 1] /\ a[i - 1] \in ValueOptions))
<1> DEFINE Reads(f, k) == \A i \in 1..k : f[i] = (i = 1 \/ ~(f[i - 1] /\ a[i - 1] \in ValueOptions))
           Failing == {k \in Nat : ~ \E f \in [1..k -> BOOLEAN] : Reads(f, k)}
<1>1. SUFFICES ASSUME Failing # {} PROVE FALSE
  OBVIOUS
<1>2. PICK m \in Failing : \A k \in Failing : m <= k
  BY <1>1, LeastNumber
<1>3. CASE m = 0
  <2>1. [i \in 1..0 |-> TRUE] \in [1..0 -> BOOLEAN] /\ Reads([i \in 1..0 |-> TRUE], 0)
    OBVIOUS
  <2> QED
    BY <1>2, <1>3, <2>1
<1>4. CASE m > 0
  <2>1. m - 1 \in Nat /\ ~(m <= m - 1)
    BY <1>2, <1>4
  <2>2. m - 1 \notin Failing
    BY <1>2, <2>1
  <2>3. PICK f \in [1..(m - 1) -> BOOLEAN] : Reads(f, m - 1)
    BY <2>1, <2>2
  <2> DEFINE last == m = 1 \/ ~(f[m - 1] /\ a[m - 1] \in ValueOptions)
             g == [i \in 1..m |-> IF i = m THEN last ELSE f[i]]
  <2>4. \A i \in 1..m : i = m \/ i \in 1..(m - 1)
    BY <2>1
  <2>5. last \in BOOLEAN
    OBVIOUS
  <2>6. g \in [1..m -> BOOLEAN]
    BY <2>4, <2>5
  <2> HIDE DEF last
  <2>7. \A i \in 1..(m - 1) : g[i] = f[i]
    BY <2>1
  <2>8. g[m] = last /\ (m = 1 \/ g[m - 1] = f[m - 1])
    BY <2>1, <2>7
  <2> HIDE DEF g
  <2>9. \A i \in 1..(m - 1) : i = 1 \/ g[i - 1] = f[i - 1]
    BY <2>1, <2>7
  <2>10. Reads(g, m)
    <3>1. SUFFICES ASSUME NEW i \in 1..m
                   PROVE  g[i] = (i = 1 \/ ~(g[i - 1] /\ a[i - 1] \in ValueOptions))
      OBVIOUS
    <3>2. CASE i = m
      BY <2>8, <3>2 DEF last
    <3>3. CASE i \in 1..(m - 1)
      <4>1. f[i] = (i = 1 \/ ~(f[i - 1] /\ a[i - 1] \in ValueOptions))
        BY <2>3, <3>3
      <4> QED
        BY <2>7, <2>9, <3>3, <4>1
    <3> QED
      BY <2>4, <3>2, <3>3
  <2> QED
    BY <1>2, <2>6, <2>10
<1> QED
  BY <1>2, <1>3, <1>4

\* So the recursion holds: the first word is an option, and a word is one unless
\* the word before it is an option that takes a value.
LEMMA OptionsRead ==
  ASSUME Len(argv) \in Nat
  PROVE  /\ IsOption \in [1..Len(argv) -> BOOLEAN]
         /\ \A i \in 1..Len(argv) :
              IsOption[i] = (i = 1 \/ ~(IsOption[i - 1] /\ argv[i - 1] \in ValueOptions))
<1> DEFINE Is(f) == f = [i \in 1..Len(argv) |-> i = 1 \/ ~(f[i - 1] /\ argv[i - 1] \in ValueOptions)]
<1>0. \A n \in Nat : \E f \in [1..n -> BOOLEAN] :
        \A i \in 1..n : f[i] = (i = 1 \/ ~(f[i - 1] /\ argv[i - 1] \in ValueOptions))
  BY OptionsExist, Zenon
<1>1. PICK f \in [1..Len(argv) -> BOOLEAN] :
        \A i \in 1..Len(argv) : f[i] = (i = 1 \/ ~(f[i - 1] /\ argv[i - 1] \in ValueOptions))
  BY <1>0, Zenon
<1>2. Is(f)
  BY <1>1
<1>3. IsOption = CHOOSE g : Is(g)
  BY DEF IsOption
<1>4. Is(IsOption)
  BY <1>2, <1>3
<1> QED
  BY <1>4

\* Which words are options depends on argv alone.
LEMMA OptionsStay ==
  ASSUME argv' = argv
  PROVE  IsOption' = IsOption /\ \A o : Given(o)' = Given(o)
<1>1. IsOption' = IsOption
  BY DEF IsOption
<1> QED
  BY <1>1 DEF Given

\* After an option comes its value, if it takes one, and then an option.
LEMMA NextOption ==
  ASSUME Len(argv) \in Nat, arg \in 1..Len(argv), IsOption[arg]
  PROVE  /\ arg + 1 <= Len(argv) => (IsOption[arg + 1] <=> argv[arg] \notin ValueOptions)
         /\ argv[arg] \in ValueOptions /\ arg + 2 <= Len(argv) => IsOption[arg + 2]
<1>1. ASSUME arg + 1 <= Len(argv)
      PROVE  IsOption[arg + 1] <=> argv[arg] \notin ValueOptions
  <2>1. arg + 1 \in 1..Len(argv) /\ arg + 1 # 1 /\ arg + 1 - 1 = arg
    BY <1>1
  <2> QED
    BY <2>1, OptionsRead
<1>2. ASSUME argv[arg] \in ValueOptions, arg + 2 <= Len(argv)
      PROVE  IsOption[arg + 2]
  <2>1. arg + 2 \in 1..Len(argv) /\ arg + 2 # 1 /\ arg + 2 - 1 = arg + 1 /\ arg + 1 <= Len(argv)
    BY <1>2
  <2>2. ~IsOption[arg + 1]
    BY <1>1, <1>2, <2>1
  <2> QED
    BY <2>1, <2>2, OptionsRead
<1> QED
  BY <1>1, <1>2

\* The value of the last of some options is the word after it.
LEMMA LastCounts ==
  ASSUME NEW n \in Nat, NEW G \in SUBSET (1..n), NEW k \in 1..n, NEW default,
         \A i \in G : i < k
  PROVE  ValueOfLast(G \cup {k}, default) = argv[k + 1]
<1> DEFINE H == G \cup {k}
<1>1. k \in H /\ \A j \in H : j <= k
  OBVIOUS
<1>2. \A i \in H : (\A j \in H : j <= i) => i = k
  OBVIOUS
<1> HIDE DEF H
<1>3. (CHOOSE i \in H : \A j \in H : j <= i) = k
  BY <1>1, <1>2
<1>4. H # {} /\ 1 + k = k + 1
  BY <1>1
<1>5. ValueOfLast(H, default) = argv[k + 1]
  BY <1>3, <1>4 DEF ValueOfLast
<1> QED
  BY <1>5 DEF H

-----------------------------------------------------------------------------
(* Types *)

\* An empty command line and the defaults of EngineConfig.
LEMMA ConfigurationInitTypes ==
  ASSUME ConfigurationInit
  PROVE  ConfigurationTypeOK /\ SettingsTypeOK
<1>1. SettingsTypeOK
  BY DEF ConfigurationInit, NoSettings, SettingsTypeOK
<1>2. argv \in Seq(Words) /\ arg \in 1..(Len(argv) + 2)
  <2>1. argv = <<>> /\ arg = 1 /\ Len(argv) = 0
    BY DEF ConfigurationInit
  <2>2. 1 \in 1..(0 + 2) /\ <<>> \in Seq(Words)
    OBVIOUS
  <2> QED
    BY <2>1, <2>2
<1> QED
  BY <1>1, <1>2 DEF ConfigurationInit, ConfigurationTypeOK, SettingsTypeOK

\* A new command line is a sequence of words.
LEMMA LaunchTypes ==
  ASSUME Launch, LoopAtOption
  PROVE  argv' \in Seq(Words) /\ arg' = 1 /\ mainpc' = "parse"
<1>1. PICK n \in 0..MaxArgs : argv' \in [1..n -> Words]
  BY DEF Launch
<1> QED
  BY <1>1, ConfigurationAssumption DEF Launch, LoopAtOption

\* One round of the loop passes a well-formed option and its value, or leaves.
LEMMA RoundPasses ==
  ASSUME ParseArgument, ConfigurationTypeOK, mainpc' = "parse"
  PROVE  /\ mainpc = "parse" /\ argv' = argv /\ arg \in 1..Len(argv) /\ WellFormed(arg)
         /\ arg' = IF argv[arg] \in ValueOptions THEN arg + 2 ELSE arg + 1
         /\ argv[arg] \in ValueOptions => arg < Len(argv)
         /\ \/ argv[arg] = "-m" /\ settings' = [settings EXCEPT !.model = argv[arg + 1]]
            \/ /\ argv[arg] \in IntOptions /\ argv[arg + 1] \in Words
               /\ settings' = [settings EXCEPT !.number[argv[arg]] = argv[arg + 1]]
            \/ argv[arg] = "--no-nats" /\ settings' = [settings EXCEPT !.nats = ""]
            \/ argv[arg] = "--verbose" /\ settings' = [settings EXCEPT !.verbose = TRUE]
<1>1. /\ mainpc = "parse" /\ argv' = argv /\ arg \in Nat /\ Len(argv) \in Nat
      /\ arg \in 1..Len(argv)
  <2>1. mainpc = "parse" /\ argv' = argv /\ arg <= Len(argv)
    BY DEF ParseArgument
  <2>2. argv \in Seq(Words) /\ arg \in 1..(Len(argv) + 2)
    BY DEF ConfigurationTypeOK
  <2>3. Len(argv) \in Nat
    BY <2>2
  <2> QED
    BY <2>1, <2>2, <2>3
<1>2. CASE Word = "-m" /\ HasValue /\ Set([settings EXCEPT !.model = Value], 2)
  BY <1>1, <1>2 DEF Word, Value, HasValue, Set, WellFormed, ValueOptions, IntOptions
<1>3. CASE /\ Word \in IntOptions /\ HasValue /\ Value \in Numbers
           /\ Set([settings EXCEPT !.number[Word] = Value], 2)
  BY <1>1, <1>3, ConfigurationAssumption DEF Word, Value, HasValue, Set, WellFormed, ValueOptions
<1>4. CASE Word = "--no-nats" /\ Set([settings EXCEPT !.nats = ""], 1)
  BY <1>1, <1>4 DEF Word, Set, WellFormed, ValueOptions, IntOptions, FlagOptions
<1>5. CASE Word = "--verbose" /\ Set([settings EXCEPT !.verbose = TRUE], 1)
  BY <1>1, <1>5 DEF Word, Set, WellFormed, ValueOptions, IntOptions, FlagOptions
<1>6. <1>2!1 \/ <1>3!1 \/ <1>4!1 \/ <1>5!1
  BY DEF ParseArgument, Leave, UnknownArgument
<1> QED
  BY <1>2, <1>3, <1>4, <1>5, <1>6

\* A round that does not go on leaves the program.
LEMMA RoundLeaves ==
  ASSUME ParseArgument, mainpc' # "parse"
  PROVE  /\ mainpc' \in {"exit0", "exit1", "terminated"}
         /\ UNCHANGED <<argv, arg, settings, env, engineUrl>>
BY DEF ParseArgument, Set, Leave, UnknownArgument

\* What a step changes of the record of settings is of the type of its field.
LEMMA SettingsTypesKept ==
  ASSUME ConfigurationTypeOK, SettingsTypeOK, [ConfigurationNext]_configurationVars
  PROVE  SettingsTypeOK'
<1>0. argv \in Seq(Words) /\ Len(argv) \in Nat
  BY DEF ConfigurationTypeOK
<1> USE DEF SettingsTypeOK
<1>1. CASE ParseArgument
  <2>1. CASE mainpc' = "parse"
    <3>2. /\ arg \in 1..Len(argv)
          /\ argv[arg] \in ValueOptions => arg < Len(argv)
          /\ \/ argv[arg] = "-m" /\ settings' = [settings EXCEPT !.model = argv[arg + 1]]
             \/ /\ argv[arg] \in IntOptions /\ argv[arg + 1] \in Words
                /\ settings' = [settings EXCEPT !.number[argv[arg]] = argv[arg + 1]]
             \/ argv[arg] = "--no-nats" /\ settings' = [settings EXCEPT !.nats = ""]
             \/ argv[arg] = "--verbose" /\ settings' = [settings EXCEPT !.verbose = TRUE]
      BY <1>1, <2>1, RoundPasses
    <3>3. CASE argv[arg] = "-m" /\ settings' = [settings EXCEPT !.model = argv[arg + 1]]
      <4>1. argv[arg + 1] \in Words
        <5> HIDE DEF SettingsTypeOK
        <5>1. arg \in 1..Len(argv) /\ arg < Len(argv)
          BY <3>2, <3>3 DEF ValueOptions
        <5>2. arg + 1 \in 1..Len(argv)
          BY <1>0, <5>1
        <5> QED
          BY <1>0, <5>2
      <4> QED
        BY <3>3, <4>1
    <3>4. CASE /\ argv[arg] \in IntOptions /\ argv[arg + 1] \in Words
               /\ settings' = [settings EXCEPT !.number[argv[arg]] = argv[arg + 1]]
      <4> DEFINE o == argv[arg]
                 v == argv[arg + 1]
      <4> HIDE DEF o, v
      <4>1. o \in IntOptions /\ v \in Words /\ settings' = [settings EXCEPT !.number[o] = v]
        BY <3>4 DEF o, v
      <4> QED
        BY <4>1
    <3>5. CASE \/ argv[arg] = "--no-nats" /\ settings' = [settings EXCEPT !.nats = ""]
               \/ argv[arg] = "--verbose" /\ settings' = [settings EXCEPT !.verbose = TRUE]
      BY <3>5
    <3> QED
      BY <3>2, <3>3, <3>4, <3>5
  <2>2. CASE mainpc' # "parse"
    BY <1>1, <2>2, RoundLeaves
  <2> QED
    BY <2>1, <2>2
<1>2. CASE ReadEnvironment
  <2>1. env' \in Environments /\ settings' = FromEnvironment(env')
    BY <1>2 DEF ReadEnvironment
  <2>2. "--port" \in IntOptions
    BY DEF IntOptions
  <2> QED
    BY <2>1, <2>2 DEF FromEnvironment, OrElse
<1>3. CASE Launch \/ ConstructEngine \/ UNCHANGED configurationVars
  BY <1>3 DEF Launch, ConstructEngine, configurationVars
<1> QED
  BY <1>1, <1>2, <1>3 DEF ConfigurationNext

\* The index of the loop stays within the command line, or one word behind its
\* end after a last option and its value.
LEMMA ConfigurationTypesKept ==
  ASSUME ConfigurationTypeOK, SettingsTypeOK, LoopAtOption, [ConfigurationNext]_configurationVars
  PROVE  ConfigurationTypeOK'
<1>1. (settings.number \in [IntOptions -> Words \cup {Default} \cup {e.port : e \in Environments}])'
  BY SettingsTypesKept DEF SettingsTypeOK
<1>2. argv \in Seq(Words) /\ Len(argv) \in Nat /\ arg \in 1..(Len(argv) + 2)
  BY DEF ConfigurationTypeOK
<1>3. CASE Launch
  <2>1. argv' \in Seq(Words) /\ arg' = 1 /\ mainpc' = "parse"
    BY <1>3, LaunchTypes
  <2>2. Len(argv') \in Nat
    BY <2>1
  <2>3. 1 \in 1..(Len(argv') + 2)
    BY <2>2
  <2> QED
    BY <1>1, <2>1, <2>3 DEF ConfigurationTypeOK
<1>4. CASE ParseArgument
  <2>1. CASE mainpc' = "parse"
    <3>1. argv' = argv /\ arg \in 1..Len(argv)
          /\ arg' = IF argv[arg] \in ValueOptions THEN arg + 2 ELSE arg + 1
      BY <1>4, <2>1, RoundPasses
    <3> QED
      BY <1>1, <1>2, <2>1, <3>1 DEF ConfigurationTypeOK
  <2>2. CASE mainpc' # "parse"
    <3>1. /\ mainpc' \in {"exit0", "exit1", "terminated"}
          /\ UNCHANGED <<argv, arg, settings, env, engineUrl>>
      BY <1>4, <2>2, RoundLeaves
    <3> QED
      BY <1>1, <1>2, <3>1 DEF ConfigurationTypeOK
  <2> QED
    BY <2>1, <2>2
<1>5. CASE ReadEnvironment \/ ConstructEngine
  <2>1. argv' = argv /\ arg' = arg /\ mainpc' \in {"construct", "constructed", "terminated"}
    BY <1>5 DEF ReadEnvironment, ConstructEngine
  <2> QED
    BY <1>1, <1>2, <2>1 DEF ConfigurationTypeOK
<1>6. CASE UNCHANGED configurationVars
  BY <1>6 DEF configurationVars, ConfigurationTypeOK
<1> QED
  BY <1>3, <1>4, <1>5, <1>6 DEF ConfigurationNext

-----------------------------------------------------------------------------
(* The loop *)

\* The loop begins at an option.
LEMMA FirstIsOption == Len(argv) \in Nat /\ 1 <= Len(argv) => IsOption[1]
<1>1. Len(argv) \in Nat /\ 1 <= Len(argv) => 1 \in 1..Len(argv)
  OBVIOUS
<1> QED
  BY <1>1, OptionsRead

\* What is well formed stays so.
LEMMA WellFormedStays ==
  ASSUME argv' = argv
  PROVE  \A i : WellFormed(i)' <=> WellFormed(i)
BY DEF WellFormed

\* A round that goes on ends at the next option, and what it passed was well
\* formed; the value in between is no option.
LEMMA LoopAtOptionKept ==
  ASSUME ConfigurationTypeOK, LoopAtOption, [ConfigurationNext]_configurationVars
  PROVE  LoopAtOption'
<1>0. argv \in Seq(Words) /\ Len(argv) \in Nat /\ arg \in 1..(Len(argv) + 2)
  BY DEF ConfigurationTypeOK
<1>1. CASE Launch
  <2>1. argv' \in Seq(Words) /\ arg' = 1 /\ mainpc' = "parse"
    BY <1>1, LaunchTypes
  <2>2. Len(argv') \in Nat
    BY <2>1
  <2>3. (Len(argv) \in Nat /\ 1 <= Len(argv) => IsOption[1])'
    BY FirstIsOption, PTL
  <2>4. \A i \in 1..Len(argv') : ~(i < 1)
    BY <2>2
  <2> QED
    BY <2>1, <2>2, <2>3, <2>4 DEF LoopAtOption
<1>2. CASE ParseArgument
  <2>1. CASE mainpc' = "parse"
    <3>1. /\ mainpc = "parse" /\ argv' = argv /\ arg \in 1..Len(argv) /\ WellFormed(arg)
          /\ arg' = IF argv[arg] \in ValueOptions THEN arg + 2 ELSE arg + 1
          /\ argv[arg] \in ValueOptions => arg < Len(argv)
      BY <1>2, <2>1, RoundPasses
    <3>2. IsOption[arg] /\ \A i \in 1..Len(argv) : i < arg /\ IsOption[i] => WellFormed(i)
      BY <3>1 DEF LoopAtOption
    <3>3. /\ arg + 1 <= Len(argv) => (IsOption[arg + 1] <=> argv[arg] \notin ValueOptions)
          /\ argv[arg] \in ValueOptions /\ arg + 2 <= Len(argv) => IsOption[arg + 2]
      BY <1>0, <3>1, <3>2, NextOption
    <3>4. arg' \in 1..(Len(argv) + 1) /\ (arg' <= Len(argv) => IsOption[arg'])
      BY <1>0, <3>1, <3>3
    <3>5. ASSUME NEW i \in 1..Len(argv), i < arg', IsOption[i]
          PROVE  WellFormed(i)
      <4>1. i < arg \/ i = arg \/ (i = arg + 1 /\ argv[arg] \in ValueOptions)
        BY <1>0, <3>1, <3>5
      <4>2. i # arg + 1 \/ argv[arg] \notin ValueOptions
        BY <1>0, <3>1, <3>3, <3>5
      <4> QED
        BY <3>1, <3>2, <3>5, <4>1, <4>2
    <3>6. IsOption' = IsOption /\ \A i : WellFormed(i)' <=> WellFormed(i)
      BY <3>1, OptionsStay, WellFormedStays
    <3> QED
      BY <2>1, <3>1, <3>4, <3>5, <3>6 DEF LoopAtOption
  <2>2. CASE mainpc' # "parse"
    BY <1>2, <2>2, RoundLeaves DEF LoopAtOption
  <2> QED
    BY <2>1, <2>2
<1>3. CASE ReadEnvironment
  <2>1. mainpc = "parse" /\ arg > Len(argv) /\ argv' = argv /\ mainpc' \in {"construct", "terminated"}
    BY <1>3 DEF ReadEnvironment
  <2>2. \A i \in 1..Len(argv) : IsOption[i] => WellFormed(i)
    BY <1>0, <2>1 DEF LoopAtOption
  <2>3. IsOption' = IsOption /\ \A i : WellFormed(i)' <=> WellFormed(i)
    BY <2>1, OptionsStay, WellFormedStays
  <2> QED
    BY <2>1, <2>2, <2>3 DEF LoopAtOption
<1>4. CASE ConstructEngine \/ UNCHANGED configurationVars
  <2>1. /\ argv' = argv /\ arg' = arg
        /\ mainpc' = mainpc \/ (mainpc = "construct" /\ mainpc' = "constructed")
    BY <1>4 DEF ConstructEngine, configurationVars
  <2>2. IsOption' = IsOption /\ \A i : WellFormed(i)' <=> WellFormed(i)
    BY <2>1, OptionsStay, WellFormedStays
  <2>3. CASE mainpc' = mainpc
    BY <2>1, <2>2, <2>3 DEF LoopAtOption
  <2>4. CASE mainpc = "construct" /\ mainpc' = "constructed"
    BY <2>1, <2>2, <2>4 DEF LoopAtOption
  <2> QED
    BY <2>1, <2>3, <2>4
<1> QED
  BY <1>1, <1>2, <1>3, <1>4 DEF ConfigurationNext

-----------------------------------------------------------------------------
(* The settings *)

\* A round adds the option it stands at to those it has passed.
LEMMA PassedNext ==
  ASSUME ConfigurationTypeOK, LoopAtOption, ParseArgument, mainpc' = "parse", NEW o
  PROVE  Passed(o)' = IF argv[arg] = o THEN Passed(o) \cup {arg} ELSE Passed(o)
<1>0. argv \in Seq(Words) /\ Len(argv) \in Nat
  BY DEF ConfigurationTypeOK
<1>1. /\ mainpc = "parse" /\ argv' = argv /\ arg \in 1..Len(argv)
      /\ arg' = IF argv[arg] \in ValueOptions THEN arg + 2 ELSE arg + 1
  BY RoundPasses
<1>2. IsOption[arg]
  BY <1>1 DEF LoopAtOption
<1>3. arg + 1 <= Len(argv) => (IsOption[arg + 1] <=> argv[arg] \notin ValueOptions)
  BY <1>0, <1>1, <1>2, NextOption
<1>4. Given(o)' = Given(o)
  BY <1>1, OptionsStay
<1>5. \A i \in Given(o) : i < arg' <=> i < arg \/ i = arg
  <2>1. SUFFICES ASSUME NEW i \in Given(o)
                 PROVE  i < arg' <=> i < arg \/ i = arg
    OBVIOUS
  <2>2. i \in 1..Len(argv) /\ IsOption[i]
    BY DEF Given
  <2>3. i = arg + 1 => argv[arg] \notin ValueOptions
    BY <1>0, <1>3, <2>2
  <2> QED
    BY <1>0, <1>1, <2>2, <2>3
<1>6. arg \in Given(o) <=> argv[arg] = o
  BY <1>1, <1>2 DEF Given
<1>7. \A i \in Given(o) : ~(i = arg) \/ ~(i < arg)
  BY <1>0, <1>1
<1> QED
  BY <1>4, <1>5, <1>6 DEF Passed

\* So the value of the last one passed is the word that follows, or what it was.
LEMMA ValueNext ==
  ASSUME ConfigurationTypeOK, LoopAtOption, ParseArgument, mainpc' = "parse", NEW o, NEW default
  PROVE  ValueOfLast(Passed(o), default)' =
           IF argv[arg] = o THEN argv[arg + 1] ELSE ValueOfLast(Passed(o), default)
<1>1. argv' = argv /\ arg \in 1..Len(argv)
  BY RoundPasses
<1>2. Len(argv) \in Nat
  BY DEF ConfigurationTypeOK
<1>3. \A H : Passed(o)' = H => ValueOfLast(Passed(o), default)' = ValueOfLast(H, default)
  BY <1>1 DEF ValueOfLast
<1>4. CASE argv[arg] = o
  <2>1. Passed(o)' = Passed(o) \cup {arg}
    BY <1>4, PassedNext
  <2>2. Passed(o) \in SUBSET (1..Len(argv)) /\ \A i \in Passed(o) : i < arg
    BY DEF Passed, Given
  <2>3. ValueOfLast(Passed(o) \cup {arg}, default) = argv[arg + 1]
    BY <1>1, <1>2, <2>2, LastCounts
  <2> QED
    BY <1>3, <1>4, <2>1, <2>3
<1>5. CASE argv[arg] # o
  <2>1. Passed(o)' = Passed(o)
    BY <1>5, PassedNext
  <2> QED
    BY <1>3, <1>5, <2>1
<1> QED
  BY <1>4, <1>5

\* When argv and the index stay, so do the options passed and their values.
LEMMA PassedStays ==
  ASSUME argv' = argv, arg' = arg, NEW o, NEW default
  PROVE  /\ Passed(o)' = Passed(o)
         /\ ValueOfLast(Passed(o), default)' = ValueOfLast(Passed(o), default)
<1>1. Passed(o)' = Passed(o)
  BY OptionsStay DEF Passed
<1>2. \A H : Passed(o)' = H => ValueOfLast(Passed(o), default)' = ValueOfLast(H, default)
  BY DEF ValueOfLast
<1> QED
  BY <1>1, <1>2

\* Before the first round nothing has been passed.
LEMMA NonePassed ==
  ASSUME Len(argv) \in Nat, arg = 1, NEW o, NEW default
  PROVE  Passed(o) = {} /\ ValueOfLast(Passed(o), default) = default
<1>1. Passed(o) = {}
  BY DEF Passed, Given
<1> QED
  BY <1>1 DEF ValueOfLast

\* A round sets the one setting its option is about.
LEMMA SettingsFromPassedKept ==
  ASSUME ConfigurationTypeOK, SettingsTypeOK, LoopAtOption, SettingsFromPassed, ParseArgument
  PROVE  SettingsFromPassed'
<1>1. CASE mainpc' = "parse"
  <2>1. /\ mainpc = "parse"
        /\ \/ argv[arg] = "-m" /\ settings' = [settings EXCEPT !.model = argv[arg + 1]]
           \/ /\ argv[arg] \in IntOptions
              /\ settings' = [settings EXCEPT !.number[argv[arg]] = argv[arg + 1]]
           \/ argv[arg] = "--no-nats" /\ settings' = [settings EXCEPT !.nats = ""]
           \/ argv[arg] = "--verbose" /\ settings' = [settings EXCEPT !.verbose = TRUE]
    BY <1>1, RoundPasses
  <2>2. /\ settings.model = ValueOfLast(Passed("-m"), "") /\ settings.mode = "cpu"
        /\ \A o \in IntOptions : settings.number[o] = ValueOfLast(Passed(o), Default)
    BY <2>1 DEF SettingsFromPassed
  <2>3. \A o, default : ValueOfLast(Passed(o), default)' =
          IF argv[arg] = o THEN argv[arg + 1] ELSE ValueOfLast(Passed(o), default)
    BY <1>1, ValueNext
  <2>5. "-m" \notin IntOptions /\ "--no-nats" \notin IntOptions /\ "--verbose" \notin IntOptions
    BY DEF IntOptions
  <2> DEFINE w == argv[arg]
             v == argv[arg + 1]
  <2>6. /\ settings'.mode = settings.mode
        /\ settings'.model = IF w = "-m" THEN v ELSE settings.model
        /\ \A o \in IntOptions : settings'.number[o] = IF w = o THEN v ELSE settings.number[o]
    <3> HIDE DEF w, v
    <3>1. CASE w = "-m" /\ settings' = [settings EXCEPT !.model = v]
      BY <2>5, <3>1 DEF SettingsTypeOK
    <3>2. CASE w \in IntOptions /\ settings' = [settings EXCEPT !.number[w] = v]
      BY <2>5, <3>2 DEF SettingsTypeOK
    <3>3. CASE w = "--no-nats" /\ settings' = [settings EXCEPT !.nats = ""]
      BY <2>5, <3>3 DEF SettingsTypeOK
    <3>4. CASE w = "--verbose" /\ settings' = [settings EXCEPT !.verbose = TRUE]
      BY <2>5, <3>4 DEF SettingsTypeOK
    <3> QED
      BY <2>1, <3>1, <3>2, <3>3, <3>4 DEF w, v
  <2> HIDE DEF v
  <2>7. settings'.model = ValueOfLast(Passed("-m"), "")' /\ settings'.mode = "cpu"
    BY <2>2, <2>3, <2>6 DEF v
  <2>8. \A o \in IntOptions : settings'.number[o] = ValueOfLast(Passed(o), Default)'
    <3>1. SUFFICES ASSUME NEW o \in IntOptions
                   PROVE  settings'.number[o] = ValueOfLast(Passed(o), Default)'
      OBVIOUS
    <3>2. settings'.number[o] = IF w = o THEN v ELSE ValueOfLast(Passed(o), Default)
      BY <2>2, <2>6
    <3>3. ValueOfLast(Passed(o), Default)' = IF w = o THEN v ELSE ValueOfLast(Passed(o), Default)
      BY <2>3 DEF v
    <3> QED
      BY <3>2, <3>3
  <2> QED
    BY <2>7, <2>8 DEF SettingsFromPassed
<1>2. CASE mainpc' # "parse"
  BY <1>2, RoundLeaves DEF SettingsFromPassed
<1> QED
  BY <1>1, <1>2

\* When the loop has ended, all the options have been passed; the environment
\* then gives way to them, or overrides them, setting by setting.
LEMMA EnvironmentAfterLoop ==
  ASSUME ConfigurationTypeOK, SettingsTypeOK, SettingsFromPassed, ReadEnvironment
  PROVE  SettingsFromBoth'
<1>1. /\ mainpc = "parse" /\ arg > Len(argv) /\ UNCHANGED <<argv, arg>>
      /\ env' \in Environments /\ settings' = FromEnvironment(env')
  BY DEF ReadEnvironment
<1>2. \A o : Passed(o) = Given(o)
  <2>1. Len(argv) \in Nat /\ arg \in Nat
    BY DEF ConfigurationTypeOK
  <2> QED
    BY <1>1, <2>1 DEF Passed, Given
<1>3. /\ settings.model = LastGiven("-m", "") /\ settings.mode = "cpu"
      /\ \A o \in IntOptions : settings.number[o] = LastGiven(o, Default)
  BY <1>1, <1>2 DEF SettingsFromPassed, LastGiven
<1>4. \A o, default : Given(o)' = Given(o) /\ LastGiven(o, default)' = LastGiven(o, default)
  <2>1. \A o : Given(o)' = Given(o)
    BY <1>1, OptionsStay
  <2>2. \A o, default, H : Given(o)' = H =>
          ValueOfLast(Given(o), default)' = ValueOfLast(H, default)
    BY <1>1 DEF ValueOfLast
  <2> QED
    BY <2>1, <2>2 DEF LastGiven
<1>5. /\ settings'.model = IF settings.model = "" THEN OrElse(env'.model, settings.model) ELSE settings.model
      /\ settings'.mode = OrElse(env'.mode, settings.mode)
      /\ \A o \in IntOptions : settings'.number[o] =
           IF o = "--port" THEN OrElse(env'.port, settings.number[o]) ELSE settings.number[o]
  BY <1>1 DEF SettingsTypeOK, FromEnvironment
<1>6. settings'.model = IF LastGiven("-m", "") # "" THEN LastGiven("-m", "") ELSE OrElse(env'.model, "")
  BY <1>3, <1>5
<1>8. \A o \in IntOptions :
        settings'.number[o] = LET given == LastGiven(o, Default)
                              IN  IF o = "--port" THEN OrElse(env'.port, given) ELSE given
  BY <1>3, <1>5
<1> QED
  BY <1>3, <1>4, <1>5, <1>6, <1>8 DEF SettingsFromBoth, OrElse

-----------------------------------------------------------------------------
(* Theorems *)

\* The defaults are what an empty command line gives.
LEMMA ConfigurationInvInit == ConfigurationInit => ConfigurationTypeOK /\ ConfigurationInv
<1> SUFFICES ASSUME ConfigurationInit PROVE ConfigurationTypeOK /\ ConfigurationInv
  OBVIOUS
<1>1. mainpc = "off" /\ argv = <<>> /\ arg = 1 /\ settings = NoSettings
  BY DEF ConfigurationInit
<1>2. LoopAtOption /\ SettingsFromBoth
  BY <1>1 DEF LoopAtOption, SettingsFromBoth
<1>3. Len(argv) \in Nat
  BY <1>1
<1>4. \A o, default : ValueOfLast(Passed(o), default) = default
  BY <1>1, <1>3, NonePassed
<1>5. NoSettings.mode = "cpu" /\ NoSettings.model = "" /\ \A o \in IntOptions : NoSettings.number[o] = Default
  BY DEF NoSettings
<1>6. SettingsFromPassed
  BY <1>1, <1>4, <1>5 DEF SettingsFromPassed
<1> QED
  BY <1>1, <1>2, <1>6, ConfigurationInitTypes DEF ConfigurationInv

\* A launch passes no option, a round adds one, and reading the environment and
\* constructing the engine use what the loop has left.
LEMMA ConfigurationInvNext ==
  ASSUME ConfigurationTypeOK, ConfigurationInv, [ConfigurationNext]_configurationVars
  PROVE  ConfigurationTypeOK' /\ ConfigurationInv'
<1>1. /\ SettingsTypeOK /\ LoopAtOption /\ SettingsFromPassed /\ SettingsFromBoth
      /\ mainpc = "constructed" =>
           engineUrl = IF settings.nats = "" THEN NoSettings.nats ELSE settings.nats
  BY DEF ConfigurationInv
<1>2. ConfigurationTypeOK' /\ SettingsTypeOK' /\ LoopAtOption'
  BY <1>1, ConfigurationTypesKept, SettingsTypesKept, LoopAtOptionKept
<1>3. CASE Launch
  <2>1. argv' \in Seq(Words) /\ arg' = 1 /\ arg = 1 /\ mainpc' = "parse" /\ mainpc = "off" /\ settings' = settings
    BY <1>1, <1>3, LaunchTypes DEF Launch, LoopAtOption
  <2>2. Len(argv) \in Nat /\ Len(argv') \in Nat
    BY <2>1 DEF ConfigurationTypeOK
  <2>3. \A o, default : Passed(o) = {} /\ ValueOfLast(Passed(o), default) = default
    BY <2>1, <2>2, NonePassed
  <2>4. \A o, default : Passed(o)' = {} /\ ValueOfLast(Passed(o), default)' = default
    <3>1. \A o : Passed(o)' = {}
      BY <2>1, <2>2 DEF Passed, Given
    <3> QED
      BY <3>1 DEF ValueOfLast
  <2>5. SettingsFromPassed'
    BY <1>1, <2>1, <2>3, <2>4 DEF SettingsFromPassed
  <2>6. SettingsFromBoth' /\ mainpc' # "constructed"
    BY <2>1 DEF SettingsFromBoth
  <2> QED
    BY <1>2, <2>5, <2>6 DEF ConfigurationInv
<1>4. CASE ParseArgument
  <2>1. SettingsFromPassed'
    BY <1>1, <1>4, SettingsFromPassedKept
  <2>2. mainpc' \in {"parse", "exit0", "exit1", "terminated"}
    BY <1>4, RoundLeaves
  <2>3. SettingsFromBoth'
    BY <2>2 DEF SettingsFromBoth
  <2> QED
    BY <1>2, <2>1, <2>2, <2>3 DEF ConfigurationInv
<1>5. CASE ReadEnvironment
  <2>1. SettingsFromBoth'
    BY <1>1, <1>5, EnvironmentAfterLoop
  <2>2. mainpc' \in {"construct", "terminated"}
    BY <1>5 DEF ReadEnvironment
  <2>3. SettingsFromPassed'
    BY <2>2 DEF SettingsFromPassed
  <2> QED
    BY <1>2, <2>1, <2>2, <2>3 DEF ConfigurationInv
<1>6. CASE ConstructEngine \/ UNCHANGED configurationVars
  <2>1. /\ UNCHANGED <<argv, arg, env, settings>>
        /\ mainpc' = mainpc \/ (mainpc = "construct" /\ mainpc' = "constructed")
        /\ mainpc' = "constructed" =>
             engineUrl' = IF settings.nats = "" THEN NoSettings.nats ELSE settings.nats
    BY <1>1, <1>6 DEF ConstructEngine, configurationVars
  <2>2. \A o, default : /\ Passed(o)' = Passed(o)
                        /\ ValueOfLast(Passed(o), default)' = ValueOfLast(Passed(o), default)
    BY <2>1, PassedStays
  <2>3. \A o, default : Given(o)' = Given(o) /\ LastGiven(o, default)' = LastGiven(o, default)
    <3>1. \A o : Given(o)' = Given(o)
      BY <2>1, OptionsStay
    <3>2. argv' = argv
      BY <2>1
    <3>3. \A o, default, H : Given(o)' = H =>
            ValueOfLast(Given(o), default)' = ValueOfLast(H, default)
      BY <3>2 DEF ValueOfLast
    <3> QED
      BY <3>1, <3>3 DEF LastGiven
  <2>4. SettingsFromPassed'
    BY <1>1, <2>1, <2>2 DEF SettingsFromPassed
  <2>5. SettingsFromBoth'
    BY <1>1, <2>1, <2>3 DEF SettingsFromBoth
  <2> QED
    BY <1>2, <2>1, <2>4, <2>5 DEF ConfigurationInv
<1> QED
  BY <1>3, <1>4, <1>5, <1>6 DEF ConfigurationNext

\* Types and the invariant of the loop are inductive together.
LEMMA ConfigurationInvHolds == ConfigurationSpec => [](ConfigurationTypeOK /\ ConfigurationInv)
BY ConfigurationInvInit, ConfigurationInvNext, PTL DEF ConfigurationSpec

\* main() keeps argv, its index and the numbers of EngineConfig in their types;
\* the index never runs further than one word past the end.
THEOREM ConfigurationTypeCorrect == ConfigurationSpec => []ConfigurationTypeOK
BY ConfigurationInvHolds, PTL

\* An engine is built only from a command line in which every option is known,
\* has its value, a number where one is read, and none asks to quit.
THEOREM ConfigurationOnlyWellFormedStarts == ConfigurationSpec => []OnlyWellFormedStarts
<1>1. ConfigurationInv => OnlyWellFormedStarts
  BY DEF ConfigurationInv, LoopAtOption, OnlyWellFormedStarts
<1> QED
  BY <1>1, ConfigurationInvHolds, PTL

\* The engine is built from the values that the options and the environment give
\* with the precedence of main.cpp: the model of the command line, the mode and
\* the port of the environment.
THEOREM ConfigurationPrecedence == ConfigurationSpec => []Precedence
<1>1. ConfigurationInv => Precedence
  <2> SUFFICES ASSUME ConfigurationInv, mainpc = "constructed"
               PROVE  Precedence
    BY DEF Precedence
  <2> QED
    BY DEF ConfigurationInv, SettingsFromBoth, Precedence
<1> QED
  BY <1>1, ConfigurationInvHolds, PTL

-----------------------------------------------------------------------------
(* Devices and their pools *)

GpuBlock == [from : Nat, size : Nat]

\* The types, with what TLC need not be told.
GpuTypes ==
  /\ GpuTypeOK
  /\ cudaBuild \in BOOLEAN /\ gpuReady \in BOOLEAN
  /\ freeAtBoot \in [Device -> Nat] /\ blocks \subseteq GpuBlock
  /\ currentDevice \in Device \cup {0}

\* A device has a pool only when initialize() has passed it or has ended, and
\* the pool lies on a device.
PoolsTaken ==
  /\ gpuReady => gpc \notin {"off", "probe"}
  /\ \A d \in Device : pool[d].base =>
       pool[d].on \in Device /\ (gpuReady \/ (gpc = "probe" /\ d < probe))

GpuInv == GpuTypes /\ MemoryAccounted /\ PoolsTaken

-----------------------------------------------------------------------------

\* One pool more takes PoolSize more.
LEMMA OneMorePool ==
  ASSUME NEW n \in Nat
  PROVE  PoolSize * n \in Nat /\ PoolSize * (n + 1) = PoolSize * n + PoolSize
BY GpuAssumption

\* The devices are finitely many, and so are the pools on one.
LEMMA PoolsCounted ==
  ASSUME NEW S \in SUBSET Device
  PROVE  IsFiniteSet(S) /\ Cardinality(S) \in Nat
<1>1. IsFiniteSet(Device)
  BY GpuAssumption, FS_Interval DEF Device
<1>2. IsFiniteSet(S)
  BY <1>1, FS_Subset
<1> QED
  BY <1>2, FS_CardinalityType

\* Without pools no memory is taken.
LEMMA NoPools ==
  ASSUME \A d \in Device : ~pool[d].base
  PROVE  \A d \in Device : PoolsOn(d) = {} /\ PoolSize * Cardinality(PoolsOn(d)) = 0
<1>1. \A d \in Device : PoolsOn(d) = {}
  BY DEF PoolsOn
<1>2. Cardinality({}) = 0
  BY FS_EmptySet
<1>3. PoolSize * 0 = 0
  BY GpuAssumption
<1> QED
  BY <1>1, <1>2, <1>3

LEMMA GpuInitInv == GpuInit => GpuInv
<1> SUFFICES ASSUME GpuInit PROVE GpuInv
  OBVIOUS
<1>1. GpuTypes
  <2>1. NoPool \in Pool
    BY DEF Pool, NoPool
  <2>2. pool \in [Device -> Pool] /\ free \in [Device -> Nat] /\ infoFree \in [Device -> Nat]
    BY <2>1 DEF GpuInit
  <2>3. GpuTypeOK
    BY <2>2, GpuAssumption DEF GpuInit, GpuTypeOK
  <2>4. freeAtBoot \in [Device -> Nat] /\ blocks \subseteq GpuBlock
    BY <2>2 DEF GpuInit
  <2> QED
    BY <2>3, <2>4 DEF GpuInit, GpuTypes
<1>2. \A d \in Device : ~pool[d].base
  BY DEF GpuInit, NoPool
<1>3. MemoryAccounted
  <2>1. \A d \in Device : free[d] = 0 /\ freeAtBoot[d] = 0
    BY DEF GpuInit
  <2> QED
    BY <1>2, <2>1, NoPools DEF MemoryAccounted
<1>4. PoolsTaken
  BY <1>2 DEF GpuInit, PoolsTaken
<1> QED
  BY <1>1, <1>3, <1>4 DEF GpuInv

\* A guard leaves one of the two devices current.
LEMMA GuardedDevices ==
  ASSUME GpuTypes, NEW d \in Device, NEW g \in Guarded(d)
  PROVE  g[1] \in Device /\ g[2] \in Device
<1>1. 0 \in Device /\ currentDevice \in Device
  BY GpuAssumption DEF GpuTypes, Device
<1>2. g \in {d, currentDevice} \X {d, currentDevice}
  BY DEF Guarded
<1> QED
  BY <1>1, <1>2

\* The pool of a device is taken from the memory some device has free, or not
\* at all.
LEMMA TakeKeeps ==
  ASSUME GpuTypes, MemoryAccounted, NEW d \in Device, ~pool[d].base, NEW on \in Device,
         TakePool(d, on), freeAtBoot' = freeAtBoot
  PROVE  /\ free' \in [Device -> Nat] /\ pool' \in [Device -> Pool] /\ MemoryAccounted'
         /\ \A e \in Device : e # d => pool'[e] = pool[e]
         /\ pool'[d].base => pool'[d].on = on
<1>1. CASE UNCHANGED <<free, pool>>
  <2>1. MemoryAccounted'
    BY <1>1 DEF MemoryAccounted, PoolsOn
  <2> QED
    BY <1>1, <2>1 DEF GpuTypes, GpuTypeOK
<1>2. CASE /\ free[on] >= PoolSize
           /\ free' = [free EXCEPT ![on] = @ - PoolSize]
           /\ pool' = [pool EXCEPT ![d] = [base |-> TRUE, on |-> on, total |-> PoolSize, used |-> 0]]
  <2> DEFINE new == [base |-> TRUE, on |-> on, total |-> PoolSize, used |-> 0]
  <2>1. new \in Pool
    BY GpuAssumption DEF Pool, Device
  <2>2. /\ pool' \in [Device -> Pool] /\ pool'[d] = new
        /\ \A e \in Device : e # d => pool'[e] = pool[e]
    BY <1>2, <2>1 DEF GpuTypes, GpuTypeOK
  <2>3. /\ free' \in [Device -> Nat] /\ free'[on] = free[on] - PoolSize
        /\ \A e \in Device : e # on => free'[e] = free[e]
    BY <1>2, GpuAssumption DEF GpuTypes, GpuTypeOK
  <2>4. ASSUME NEW e \in Device
        PROVE  free'[e] + PoolSize * Cardinality(PoolsOn(e)') = freeAtBoot[e]
    <3>1. free[e] \in Nat /\ free[e] + PoolSize * Cardinality(PoolsOn(e)) = freeAtBoot[e]
      BY DEF MemoryAccounted, GpuTypes, GpuTypeOK
    <3>2. CASE e # on
      <4>1. PoolsOn(e)' = PoolsOn(e)
        BY <2>2, <3>2 DEF PoolsOn
      <4> QED
        BY <2>3, <3>1, <3>2, <4>1
    <3>3. CASE e = on
      <4>1. PoolsOn(on)' = PoolsOn(on) \cup {d} /\ d \notin PoolsOn(on)
        BY <2>2 DEF PoolsOn
      <4>2. PoolsOn(on) \in SUBSET Device
        BY DEF PoolsOn
      <4>3. IsFiniteSet(PoolsOn(on)) /\ Cardinality(PoolsOn(on)) \in Nat
        BY <4>2, PoolsCounted
      <4>4. Cardinality(PoolsOn(on)') = Cardinality(PoolsOn(on)) + 1
        BY <4>1, <4>3, FS_AddElement
      <4>5. PICK n \in Nat : n = Cardinality(PoolsOn(on))
        BY <4>3
      <4>6. Cardinality(PoolsOn(on)') = n + 1
        BY <4>4, <4>5
      <4>7. PoolSize * n \in Nat /\ PoolSize * (n + 1) = PoolSize * n + PoolSize
        BY OneMorePool
      <4>8. free[on] \in Nat /\ PoolSize \in Nat /\ free[on] + PoolSize * n = freeAtBoot[on]
        BY <3>1, <3>3, <4>5, GpuAssumption
      <4>9. free'[on] + (PoolSize * n + PoolSize) = freeAtBoot[on]
        <5>1. PICK m : m = PoolSize * n
          OBVIOUS
        <5>2. m \in Nat /\ free[on] + m = freeAtBoot[on]
          BY <4>7, <4>8, <5>1
        <5>3. free'[on] + (m + PoolSize) = freeAtBoot[on]
          BY <2>3, <4>8, <5>2
        <5> QED
          BY <5>1, <5>3
      <4> QED
        BY <3>3, <4>6, <4>7, <4>9
    <3> QED
      BY <3>2, <3>3
  <2>5. MemoryAccounted'
    BY <2>4 DEF MemoryAccounted
  <2> QED
    BY <2>2, <2>3, <2>5
<1> QED
  BY <1>1, <1>2 DEF TakePool

LEMMA ProbeKeeps ==
  ASSUME GpuInv, ProbeDevice
  PROVE  GpuInv'
<1> USE DEF GpuInv, machine
<1>1. /\ probe \in Device /\ probe \in Nat /\ probe' = probe + 1 /\ probe' \in 0..DeviceCount
      /\ ~pool[probe].base /\ ~gpuReady /\ gpc = "probe" /\ currentDevice \in Device
      /\ UNCHANGED <<cudaBuild, freeAtBoot, gpuDevice, gpc, gpuReady, blocks>>
  BY GpuAssumption DEF ProbeDevice, GpuTypes, GpuTypeOK, PoolsTaken, Device
<1>2. PICK g \in Guarded(probe) : TakePool(probe, g[1]) /\ currentDevice' = g[2]
  BY DEF ProbeDevice
<1>3. g[1] \in Device /\ currentDevice' \in Device
  BY <1>1, <1>2, GuardedDevices
<1>4. /\ free' \in [Device -> Nat] /\ pool' \in [Device -> Pool] /\ MemoryAccounted'
      /\ \A e \in Device : e # probe => pool'[e] = pool[e]
      /\ pool'[probe].base => pool'[probe].on = g[1]
  BY <1>1, <1>2, <1>3, TakeKeeps
<1>5. infoFree' \in [Device -> Nat]
  <2>1. PICK m \in {0, free[currentDevice]} : infoFree' = [infoFree EXCEPT ![probe] = m]
    BY DEF ProbeDevice
  <2>2. m \in Nat
    BY <1>1 DEF GpuTypes, GpuTypeOK
  <2> QED
    BY <2>1, <2>2 DEF GpuTypes, GpuTypeOK
<1>6. GpuTypes'
  BY <1>1, <1>3, <1>4, <1>5 DEF GpuTypes, GpuTypeOK, Device
<1>7. PoolsTaken'
  BY <1>1, <1>3, <1>4 DEF PoolsTaken, Device
<1> QED
  BY <1>4, <1>6, <1>7

LEMMA BestDeviceIsInt == BestDevice \in Int
BY DEF BestDevice, Device

LEMMA SelectKeeps ==
  ASSUME GpuInv, SelectDevice
  PROVE  GpuInv'
<1> USE DEF GpuInv, SelectDevice, machine
<1>1. gpuDevice' \in Int
  BY BestDeviceIsInt DEF GpuTypes, GpuTypeOK
<1>2. currentDevice' \in Nat /\ currentDevice' \in Device \cup {0}
  BY DEF SetDevice, GpuTypes, GpuTypeOK, Device
<1>3. GpuTypes'
  BY <1>1, <1>2 DEF GpuTypes, GpuTypeOK
<1>4. MemoryAccounted' /\ PoolsTaken'
  BY DEF MemoryAccounted, PoolsOn, PoolsTaken
<1> QED
  BY <1>3, <1>4

\* shutdown() gives back what the pools hold.
LEMMA ShutdownKeeps ==
  ASSUME GpuInv, ShutdownGpu
  PROVE  GpuInv'
<1> USE DEF GpuInv, machine
<1>1. /\ \A d \in Device : ~pool'[d].base
      /\ pool' \in [Device -> Pool] /\ infoFree' \in [Device -> Nat]
  <2>1. NoPool \in Pool /\ ~NoPool.base
    BY DEF Pool, NoPool
  <2> QED
    BY <2>1 DEF ShutdownGpu
<1>2. \A d \in Device : free[d] + PoolSize * Cardinality(PoolsOn(d)) = freeAtBoot[d]
  BY DEF MemoryAccounted
<1>3. free' = [d \in Device |-> freeAtBoot[d]]
  BY <1>2 DEF ShutdownGpu, FreePools
<1>4. free' \in [Device -> Nat] /\ \A d \in Device : free'[d] = freeAtBoot[d]
  BY <1>3 DEF GpuTypes
<1>5. GpuTypes'
  <2>1. currentDevice' \in Device \cup {0} /\ currentDevice' \in Nat
    BY DEF ShutdownGpu, GpuTypes, GpuTypeOK, Device
  <2> QED
    BY <1>1, <1>4, <2>1 DEF ShutdownGpu, GpuTypes, GpuTypeOK
<1>6. MemoryAccounted'
  <2>1. \A d \in Device : (PoolSize * Cardinality(PoolsOn(d)))' = 0
    <3>1. \A d \in Device : PoolsOn(d)' = {}
      BY <1>1 DEF PoolsOn
    <3>2. Cardinality({}) = 0 /\ PoolSize * 0 = 0
      BY FS_EmptySet, GpuAssumption
    <3> QED
      BY <3>1, <3>2
  <2>2. freeAtBoot' = freeAtBoot /\ \A d \in Device : freeAtBoot[d] \in Nat
    BY DEF ShutdownGpu, GpuTypes
  <2> QED
    BY <1>4, <2>1, <2>2 DEF MemoryAccounted
<1>7. PoolsTaken'
  BY <1>1 DEF ShutdownGpu, PoolsTaken
<1> QED
  BY <1>5, <1>6, <1>7

\* The mark of a pool moves; the pools stay where they are.
LEMMA MarkMoves ==
  ASSUME GpuInv, NEW end \in Nat, gpuDevice \in Device,
         pool' = [pool EXCEPT ![gpuDevice].used = end],
         UNCHANGED <<cudaBuild, freeAtBoot, free, gpuDevice, gpc, probe, gpuReady, infoFree, currentDevice>>,
         blocks' \subseteq GpuBlock
  PROVE  GpuInv'
<1> USE DEF GpuInv
<1>1. /\ pool' \in [Device -> Pool]
      /\ \A d \in Device : pool'[d].base = pool[d].base /\ pool'[d].on = pool[d].on
  BY DEF GpuTypes, GpuTypeOK, Pool
<1>2. \A d \in Device : PoolsOn(d)' = PoolsOn(d)
  BY <1>1 DEF PoolsOn
<1>3. GpuTypes'
  BY <1>1 DEF GpuTypes, GpuTypeOK
<1>4. MemoryAccounted'
  BY <1>2 DEF MemoryAccounted
<1>5. PoolsTaken'
  BY <1>1 DEF PoolsTaken
<1> QED
  BY <1>3, <1>4, <1>5

LEMMA Remainder ==
  ASSUME NEW n \in Nat, NEW w \in Nat \ {0}
  PROVE  n % w \in Nat
OBVIOUS

LEMMA RoundedDown ==
  ASSUME NEW n \in Nat, NEW a \in Nat \ {0}
  PROVE  (n \div a) * a \in Nat
OBVIOUS

\* allocate(): whatever is asked for, the new mark is a size.
LEMMA AllocateKeeps ==
  ASSUME GpuInv, NEW n \in Requests, Allocate(n)
  PROVE  GpuInv'
<1> DEFINE p == pool[gpuDevice]
           end == (p.used + AlignUp(n)) % Width
           block == [from |-> p.used, size |-> n]
<1>1. gpuDevice \in Device /\ p.used \in Nat /\ n \in Nat
  BY GpuAssumption DEF Allocate, PoolInUse, GpuInv, GpuTypes, GpuTypeOK, Pool
<1>2. Width \in Nat \ {0} /\ Align \in Nat \ {0}
  BY GpuAssumption
<1>3. AlignUp(n) \in Nat
  <2>1. PICK m \in Nat : m = n + Align - 1
    BY <1>1, <1>2
  <2>2. PICK k \in Nat : k = m % Width
    BY <1>2, <2>1, Remainder
  <2>3. AlignUp(n) = (k \div Align) * Align
    BY <2>1, <2>2 DEF AlignUp
  <2> QED
    BY <1>2, <2>2, <2>3, RoundedDown
<1>4. end \in Nat
  <2>1. PICK m \in Nat : m = p.used + AlignUp(n)
    BY <1>1, <1>3
  <2> QED
    BY <1>2, <2>1, Remainder
<1>5. blocks' \subseteq GpuBlock
  BY <1>1 DEF Allocate, GpuBlock, GpuInv, GpuTypes
<1>6. /\ pool' = [pool EXCEPT ![gpuDevice].used = end]
      /\ UNCHANGED <<cudaBuild, freeAtBoot, free, gpuDevice, gpc, probe, gpuReady, infoFree, currentDevice>>
  BY DEF Allocate, machine
<1> HIDE DEF end
<1> QED
  BY <1>1, <1>4, <1>5, <1>6, MarkMoves

LEMMA GpuStep ==
  ASSUME GpuInv, [GpuNext]_gpuVars
  PROVE  GpuInv'
<1> USE DEF machine
<1>1. CASE Boot
  <2>1. \A d \in Device : ~pool[d].base
    BY <1>1 DEF Boot, GpuInv, PoolsTaken
  <2>2. /\ freeAtBoot' \in [Device -> Nat] /\ free' = freeAtBoot' /\ UNCHANGED pool
        /\ gpuDevice' \in Int /\ cudaBuild' \in BOOLEAN
    BY <1>1, GpuAssumption DEF Boot
  <2>3. GpuTypes'
    BY <1>1, <2>2 DEF Boot, GpuInv, GpuTypes, GpuTypeOK
  <2>4. MemoryAccounted'
    <3>1. \A d \in Device : PoolsOn(d)' = {}
      BY <2>1, <2>2 DEF PoolsOn
    <3>2. Cardinality({}) = 0 /\ PoolSize * 0 = 0
      BY FS_EmptySet, GpuAssumption
    <3>3. \A d \in Device : (PoolSize * Cardinality(PoolsOn(d)))' = 0
      BY <3>1, <3>2
    <3> QED
      BY <2>2, <3>3 DEF MemoryAccounted
  <2>5. PoolsTaken'
    BY <1>1, <2>1 DEF Boot, GpuInv, PoolsTaken
  <2> QED
    BY <2>3, <2>4, <2>5 DEF GpuInv
<1>2. CASE InitializeGpu \/ EndInitialize \/ LoadOnDevice \/ StartAgain
           \/ UNCHANGED gpuVars
  <2>1. UNCHANGED <<cudaBuild, freeAtBoot, free, gpuDevice, infoFree, pool, currentDevice>>
    BY <1>2 DEF InitializeGpu, EndInitialize, LoadOnDevice, StartAgain, gpuVars
  <2>2. MemoryAccounted'
    BY <2>1 DEF GpuInv, MemoryAccounted, PoolsOn
  <2>3. GpuTypes'
    <3>1. /\ gpc' \in {"off", "idle", "probe", "select", "load", "using", "failed"}
          /\ probe' \in 0..DeviceCount /\ gpuReady' \in BOOLEAN /\ blocks' \subseteq GpuBlock
      <4>0. 0 \in 0..DeviceCount
        BY GpuAssumption
      <4>1. CASE InitializeGpu
        BY <4>0, <4>1 DEF InitializeGpu, GpuInv, GpuTypes
      <4>2. CASE EndInitialize \/ LoadOnDevice \/ StartAgain
        BY <4>2 DEF EndInitialize, LoadOnDevice, StartAgain, GpuInv, GpuTypes, GpuTypeOK
      <4>3. CASE UNCHANGED gpuVars
        BY <4>3 DEF gpuVars, GpuInv, GpuTypes, GpuTypeOK
      <4> QED
        BY <1>2, <4>1, <4>2, <4>3
    <3> QED
      BY <2>1, <3>1 DEF GpuInv, GpuTypes, GpuTypeOK
  <2>4. PoolsTaken'
    BY <1>2, <2>1 DEF InitializeGpu, EndInitialize, LoadOnDevice, StartAgain, gpuVars,
                      GpuInv, PoolsTaken, GpuTypes, GpuTypeOK, Device
  <2> QED
    BY <2>2, <2>3, <2>4 DEF GpuInv
<1>3. CASE ProbeDevice
  BY <1>3, ProbeKeeps
<1>4. CASE SelectDevice
  BY <1>4, SelectKeeps
<1>5. CASE ShutdownGpu
  BY <1>5, ShutdownKeeps
<1>6. CASE \E n \in Requests : Allocate(n)
  BY <1>6, AllocateKeeps
<1>7. CASE ResetPool
  <2>1. /\ gpuDevice \in Device /\ 0 \in Nat /\ blocks' \subseteq GpuBlock
        /\ pool' = [pool EXCEPT ![gpuDevice].used = 0]
        /\ UNCHANGED <<cudaBuild, freeAtBoot, free, gpuDevice, gpc, probe, gpuReady, infoFree, currentDevice>>
    BY <1>7 DEF ResetPool, PoolInUse
  <2> QED
    BY <2>1, MarkMoves
<1> QED
  BY <1>1, <1>2, <1>3, <1>4, <1>5, <1>6, <1>7 DEF GpuNext

LEMMA GpuInvariant == GpuSpec => []GpuInv
<1>1. GpuInv /\ [GpuNext]_gpuVars => GpuInv'
  BY GpuStep
<1> QED
  BY GpuInitInv, <1>1, PTL DEF GpuSpec

\* No device memory is lost or counted twice over failed starts and restarts,
\* on whatever device a guard has put a pool: initialize() takes a pool only
\* where there is none, shutdown() frees all.
THEOREM GpuMemoryAccounted == GpuSpec => []MemoryAccounted
<1>1. GpuInv => MemoryAccounted
  BY DEF GpuInv
<1> QED
  BY GpuInvariant, <1>1, PTL

-----------------------------------------------------------------------------
(* The blocks of the pool in use *)

\* The mark of a pool stays inside it; blocks are of the pool in use, and as long
\* as no size wraps they end below its mark, each where the next one begins.
MarksInside == \A d \in Device : pool[d].used <= pool[d].total /\ pool[d].total <= PoolSize

BlocksBelowMark ==
  /\ MarksInside
  /\ blocks # {} => PoolInUse
  /\ (\A b \in blocks : ~MayWrap(b.size)) =>
       /\ \A b \in blocks : b.from + b.size <= pool[gpuDevice].used
       /\ \A b, c \in blocks : b # c => b.from + b.size <= c.from \/ c.from + c.size <= b.from

\* Lemma: division by a positive number, with its remainder.
LEMMA Division ==
  ASSUME NEW n \in Nat, NEW a \in Nat \ {0}
  PROVE  /\ (n \div a) * a \in Nat
         /\ (n \div a) * a <= n /\ n < (n \div a) * a + a
OBVIOUS

LEMMA NoWrap ==
  ASSUME NEW n \in Nat, NEW w \in Nat, n < w
  PROVE  n % w = n
OBVIOUS

\* Lemma: a size is rounded up, and neither sum of allocate() wraps.
LEMMA AlignUpBounds ==
  ASSUME NEW n \in Nat, ~MayWrap(n)
  PROVE  AlignUp(n) \in Nat /\ n <= AlignUp(n) /\ AlignUp(n) < Width - PoolSize
<1> DEFINE m == n + Align - 1
<1>1. m \in Nat /\ m < Width - PoolSize
  BY GpuAssumption DEF MayWrap
<1> HIDE DEF m
<1>2. m % Width = m
  <2>1. Width \in Nat /\ m < Width
    BY <1>1, GpuAssumption
  <2> QED
    BY <1>1, <2>1, NoWrap
<1>3. AlignUp(n) = (m \div Align) * Align
  BY <1>2 DEF AlignUp, m
<1>4. (m \div Align) * Align \in Nat /\ (m \div Align) * Align <= m /\ m < (m \div Align) * Align + Align
  BY <1>1, GpuAssumption, Division
<1> QED
  BY <1>1, <1>3, <1>4, GpuAssumption DEF m

\* Lemma: a new block starts at the mark, where all others have ended.
LEMMA AllocateBlocks ==
  ASSUME GpuInv, GpuInv', BlocksBelowMark, NEW n \in Requests, Allocate(n)
  PROVE  BlocksBelowMark'
<1> DEFINE p == pool[gpuDevice]
           end == (p.used + AlignUp(n)) % Width
           block == [from |-> p.used, size |-> n]
<1>1. /\ PoolInUse /\ gpuDevice \in Device /\ p \in Pool /\ n \in Nat
      /\ p.used \in Nat /\ p.total \in Nat /\ p.used <= p.total /\ p.total <= PoolSize
  BY GpuAssumption DEF Allocate, PoolInUse, GpuInv, GpuTypes, GpuTypeOK, Pool, BlocksBelowMark, MarksInside
<1>2. /\ end <= p.total
      /\ pool' = [pool EXCEPT ![gpuDevice].used = end]
      /\ blocks' = blocks \cup {block}
      /\ UNCHANGED <<cudaBuild, gpuDevice, gpc>>
  BY DEF Allocate, machine
<1>3. ~MayWrap(n) => p.used + n <= end
  <2> SUFFICES ASSUME ~MayWrap(n) PROVE p.used + n <= end
    OBVIOUS
  <2> DEFINE sum == p.used + AlignUp(n)
  <2>1. sum \in Nat /\ sum < Width /\ p.used + n <= sum
    BY <1>1, AlignUpBounds, GpuAssumption
  <2> HIDE DEF sum
  <2>2. sum % Width = sum
    <3>1. Width \in Nat
      BY GpuAssumption
    <3> QED
      BY <2>1, <3>1, NoWrap
  <2> QED
    BY <2>1, <2>2 DEF sum
<1> HIDE DEF end
<1>4. /\ \A d \in Device : pool'[d].total = pool[d].total
      /\ \A d \in Device : d # gpuDevice => pool'[d].used = pool[d].used
      /\ pool'[gpuDevice].used = end
  BY <1>1, <1>2 DEF GpuInv, GpuTypes, GpuTypeOK, Pool
<1>5. MarksInside'
  BY <1>1, <1>2, <1>4 DEF BlocksBelowMark, MarksInside
<1>6. PoolInUse'
  BY <1>1, <1>2 DEF PoolInUse
<1>7. ASSUME \A b \in blocks' : ~MayWrap(b.size)
      PROVE  /\ \A b \in blocks' : b.from + b.size <= end
             /\ \A b, c \in blocks' : b # c => b.from + b.size <= c.from \/ c.from + c.size <= b.from
  <2>1. ~MayWrap(n) /\ \A b \in blocks : ~MayWrap(b.size)
    <3>1. block \in blocks' /\ block.size = n /\ \A b \in blocks : b \in blocks'
      BY <1>2
    <3>2. \A b \in blocks' : ~MayWrap(b.size)
      BY <1>7
    <3> HIDE DEF block
    <3>3. ~MayWrap(block.size)
      BY <3>1, <3>2
    <3> QED
      BY <3>1, <3>2, <3>3
  <2>2. \A b \in blocks : b \in GpuBlock /\ b.from + b.size <= p.used
    BY <2>1 DEF BlocksBelowMark, GpuInv, GpuTypes
  <2>3. block.from = p.used /\ block.from + block.size <= end /\ end \in Nat
    BY <1>1, <1>3, <1>4, <2>1 DEF GpuInv, GpuTypes, GpuTypeOK, Pool
  <2>4. p.used <= end
    BY <1>1, <1>3, <2>1, <2>3
  <2>5. \A b \in blocks' : b.from + b.size <= end
    BY <1>1, <1>2, <2>2, <2>3, <2>4 DEF GpuBlock
  <2>6. \A b, c \in blocks' : b # c => b.from + b.size <= c.from \/ c.from + c.size <= b.from
    BY <1>2, <2>1, <2>2, <2>3 DEF BlocksBelowMark
  <2> QED
    BY <2>5, <2>6
<1>8. (\A b \in blocks : ~MayWrap(b.size))' => \A b \in blocks' : ~MayWrap(b.size)
  BY DEF MayWrap
<1> QED
  BY <1>1, <1>2, <1>4, <1>5, <1>6, <1>7, <1>8 DEF BlocksBelowMark

\* Lemma: where there are no blocks, only the marks count.
LEMMA BlocksStep ==
  ASSUME GpuInv, GpuInv', BlocksBelowMark, [GpuNext]_gpuVars
  PROVE  BlocksBelowMark'
<1>1. CASE \E n \in Requests : Allocate(n)
  BY <1>1, AllocateBlocks
<1>2. CASE UNCHANGED gpuVars
  BY <1>2 DEF gpuVars, BlocksBelowMark, MarksInside, PoolInUse, MayWrap
<1>3. ASSUME blocks' = {}, MarksInside' PROVE BlocksBelowMark'
  BY <1>3 DEF BlocksBelowMark
<1>4. CASE gpc # "using" /\ UNCHANGED <<pool, blocks>>
  BY <1>3, <1>4 DEF BlocksBelowMark, MarksInside, PoolInUse
<1>5. CASE ProbeDevice
  <2>1. blocks' = {}
    BY <1>5 DEF ProbeDevice, BlocksBelowMark, PoolInUse
  <2>2. PICK g \in Guarded(probe) : TakePool(probe, g[1])
    BY <1>5 DEF ProbeDevice
  <2>3. pool' = pool \/ pool' = [pool EXCEPT ![probe] = [base |-> TRUE, on |-> g[1], total |-> PoolSize, used |-> 0]]
    BY <2>2 DEF TakePool
  <2>4. MarksInside'
    BY <2>3, GpuAssumption DEF BlocksBelowMark, MarksInside, GpuInv, GpuTypes, GpuTypeOK
  <2> QED
    BY <1>3, <2>1, <2>4
<1>6. CASE ShutdownGpu
  BY <1>3, <1>6, GpuAssumption DEF ShutdownGpu, MarksInside, NoPool
<1>7. CASE ResetPool
  <2>1. blocks' = {} /\ pool' = [pool EXCEPT ![gpuDevice].used = 0]
    BY <1>7 DEF ResetPool
  <2>2. MarksInside'
    BY <2>1 DEF BlocksBelowMark, MarksInside, GpuInv, GpuTypes, GpuTypeOK, Pool
  <2> QED
    BY <1>3, <2>1, <2>2
<1>8. CASE Boot \/ InitializeGpu \/ EndInitialize \/ SelectDevice \/ LoadOnDevice \/ StartAgain
  BY <1>4, <1>8 DEF Boot, InitializeGpu, EndInitialize, SelectDevice, LoadOnDevice, StartAgain
<1> QED
  BY <1>1, <1>2, <1>5, <1>6, <1>7, <1>8 DEF GpuNext

\* What GpuMemoryPool::allocate() has handed out since the last reset() lies in
\* the pool and apart, over failed starts and restarts, unless a size was asked
\* for that wraps.
THEOREM GpuBlocksApart == GpuSpec => []BlocksApart
<1>1. GpuInit => BlocksBelowMark
  BY GpuAssumption DEF GpuInit, BlocksBelowMark, MarksInside, NoPool
<1>2. GpuInv /\ GpuInv' /\ BlocksBelowMark /\ [GpuNext]_gpuVars => BlocksBelowMark'
  BY BlocksStep
<1>3. GpuInv /\ BlocksBelowMark => BlocksApart
  <2> SUFFICES ASSUME GpuInv, BlocksBelowMark, \A b \in blocks : ~MayWrap(b.size), NEW b \in blocks
               PROVE  b.from + b.size <= PoolSize
    BY DEF BlocksBelowMark, BlocksApart
  <2>1. gpuDevice \in Device /\ b \in GpuBlock /\ b.from + b.size <= pool[gpuDevice].used
    BY DEF GpuInv, BlocksBelowMark, PoolInUse, GpuTypes
  <2>2. pool[gpuDevice] \in Pool /\ pool[gpuDevice].used <= pool[gpuDevice].total /\ pool[gpuDevice].total <= PoolSize
    BY <2>1 DEF GpuInv, BlocksBelowMark, MarksInside, GpuTypes, GpuTypeOK
  <2> QED
    BY <2>1, <2>2, GpuAssumption DEF GpuBlock, Pool
<1> QED
  BY <1>1, <1>2, <1>3, GpuInvariant, PTL DEF GpuSpec

=============================================================================
