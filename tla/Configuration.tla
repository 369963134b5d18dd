---------------------------- MODULE Configuration ----------------------------
(***************************************************************************)
(* src/main.cpp: from argv and the environment to the settings the engine  *)
(* is built with, and the NATS connection its constructor opens.  Words    *)
(* stands for the strings a command line may hold, Numbers for those that  *)
(* std::stoi converts; the other conversions throw, and nothing in main()  *)
(* catches.                                                                *)
(***************************************************************************)
EXTENDS Integers, Sequences, FiniteSets

CONSTANTS Words, Numbers, MaxArgs,   \* MaxArgs bounds the length of argv
          Environments               \* what getenv() may return, see ReadEnvironment

ASSUME ConfigurationAssumption ==
  /\ Numbers \subseteq Words
  /\ MaxArgs \in Nat

VARIABLES mainpc,      \* where main() is
          argv, arg,   \* the arguments and the index of the parsing loop
          env,         \* the environment, once it has been read
          settings,    \* the EngineConfig being filled in
          engineUrl    \* the URL the engine's NatsClient connects to

configurationVars == <<mainpc, argv, arg, env, settings, engineUrl>>

Unset == "(unset)"
Default == "(default)"

IntOptions == {"-c", "-t", "--gpu-layers", "--gpu-device", "--port"}
ValueOptions == IntOptions \cup {"-m"}
QuitOptions == {"-h", "-v"}
FlagOptions == {"--no-nats", "--verbose"}

\* The defaults of EngineConfig; Default is the initializer of an int.
NoSettings == [model |-> "", mode |-> "cpu", nats |-> "nats://localhost:4222",
               number |-> [o \in IntOptions |-> Default], verbose |-> FALSE]

ConfigurationInit ==
  /\ mainpc = "off" /\ argv = <<>> /\ arg = 1 /\ settings = NoSettings
  /\ env = [model |-> Unset, mode |-> Unset, nats |-> Unset, port |-> Unset]
  /\ engineUrl = ""

Launch ==
  /\ mainpc = "off" /\ mainpc' = "parse"
  /\ argv' \in UNION {[1..n -> Words] : n \in 0..MaxArgs}
  /\ UNCHANGED <<arg, env, settings, engineUrl>>

-----------------------------------------------------------------------------
(* One round of the parsing loop.  An option takes the next word as its     *)
(* value whatever that word is.                                             *)

Word == argv[arg]
Value == argv[arg + 1]
HasValue == arg < Len(argv)

Set(s, step) == settings' = s /\ arg' = arg + step /\ UNCHANGED mainpc
Leave(pc) == mainpc' = pc /\ UNCHANGED <<arg, settings>>

UnknownArgument_Ignored ==
  /\ Word \notin QuitOptions \cup ValueOptions \cup FlagOptions
  /\ Set(settings, 1)

UnknownArgument ==
  /\ Word \notin QuitOptions \cup ValueOptions \cup FlagOptions
  /\ Leave("exit1")

ParseArgument ==
  /\ mainpc = "parse" /\ arg <= Len(argv)
  /\ \/ Word \in QuitOptions /\ Leave("exit0")
     \/ Word \in ValueOptions /\ ~HasValue /\ Leave("exit1")
     \/ Word = "-m" /\ HasValue /\ Set([settings EXCEPT !.model = Value], 2)
     \/ /\ Word \in IntOptions /\ HasValue
        /\ IF Value \in Numbers THEN Set([settings EXCEPT !.number[Word] = Value], 2)
                                ELSE Leave("terminated")
     \/ Word = "--no-nats" /\ Set([settings EXCEPT !.nats = ""], 1)
     \/ Word = "--verbose" /\ Set([settings EXCEPT !.verbose = TRUE], 1)
     \/ UnknownArgument
  /\ UNCHANGED <<argv, env, engineUrl>>

\* The environment gives way to the command line for the model, and the other
\* way round for the port.  It was there all along and is chosen when it is
\* read.
OrElse(variable, value) == IF variable # Unset THEN variable ELSE value

FromEnvironment_ModelOverrides(e) ==
  [settings EXCEPT
     !.model = OrElse(e.model, @),
     !.mode = OrElse(e.mode, @),
     !.nats = IF @ = "" THEN OrElse(e.nats, @) ELSE @,
     !.number["--port"] = OrElse(e.port, @)]

FromEnvironment(e) ==
  [settings EXCEPT
     !.model = IF @ = "" THEN OrElse(e.model, @) ELSE @,
     !.mode = OrElse(e.mode, @),
     !.nats = IF @ = "" THEN OrElse(e.nats, @) ELSE @,
     !.number["--port"] = OrElse(e.port, @)]

ReadEnvironment ==
  /\ mainpc = "parse" /\ arg > Len(argv)
  /\ env' \in Environments
  /\ settings' = FromEnvironment(env')
  /\ mainpc' = IF env'.port \in Numbers \cup {Unset} THEN "construct" ELSE "terminated"
  /\ UNCHANGED <<argv, arg, engineUrl>>

\* The constructor of InferenceEngine: an empty URL is replaced.
ConstructEngine ==
  /\ mainpc = "construct" /\ mainpc' = "constructed"
  /\ engineUrl' = IF settings.nats = "" THEN NoSettings.nats ELSE settings.nats
  /\ UNCHANGED <<argv, arg, env, settings>>

ConfigurationNext == Launch \/ ParseArgument \/ ReadEnvironment \/ ConstructEngine

ConfigurationSpec == ConfigurationInit /\ [][ConfigurationNext]_configurationVars

-----------------------------------------------------------------------------
(* Properties.  A reading of the command line as a whole, to compare the    *)
(* loop with: a word is an option unless the option before it takes it.     *)

IsOption ==
  LET option[i \in 1..Len(argv)] ==
        i = 1 \/ ~(option[i - 1] /\ argv[i - 1] \in ValueOptions)
  IN  option

Given(o) == {i \in 1..Len(argv) : IsOption[i] /\ argv[i] = o}

\* The value of the last of some options.
ValueOfLast(G, default) ==
  IF G = {} THEN default ELSE argv[1 + CHOOSE i \in G : \A j \in G : j <= i]

LastGiven(o, default) == ValueOfLast(Given(o), default)

WellFormed(i) == /\ argv[i] \in ValueOptions \cup FlagOptions
                 /\ argv[i] \in ValueOptions => i < Len(argv)
                 /\ argv[i] \in IntOptions => argv[i + 1] \in Numbers

ConfigurationTypeOK ==
  /\ mainpc \in {"off", "parse", "construct", "constructed", "exit0", "exit1", "terminated"}
  /\ argv \in Seq(Words) /\ arg \in 1..(Len(argv) + 2)
  /\ settings.number \in [IntOptions -> Words \cup {Default} \cup {e.port : e \in Environments}]

\* What main.cpp:62-142 makes of the two sources: the last of several values
\* counts, the model of the command line wins over the environment's, and the
\* mode and the port of the environment over everything else.
Precedence ==
  mainpc = "constructed" =>
    /\ settings.model = IF LastGiven("-m", "") # "" THEN LastGiven("-m", "")
                        ELSE OrElse(env.model, "")
    /\ settings.mode = OrElse(env.mode, "cpu")
    /\ \A o \in IntOptions :
         settings.number[o] = LET given == LastGiven(o, Default)
                              IN  IF o = "--port" THEN OrElse(env.port, given) ELSE given

\* An engine is built only from a command line in which every option is known
\* and has its value, a number where one is read, and none asks to quit.
OnlyWellFormedStarts ==
  mainpc = "constructed" =>
    \A i \in 1..Len(argv) : IsOption[i] => WellFormed(i)

\* "`SOVALUNE_NATS_URL` | `nats://localhost:4222` | NATS connection URL"
\* (README.md:122; docker-compose.yml:13 sets it and nothing else) and "--no-nats
\* Disable NATS" (main.cpp:36): the engine connects to the URL of the environment
\* or else to the default one, and with the option to none.
NatsUrlAsDocumented ==
  mainpc = "constructed" =>
    engineUrl = IF Given("--no-nats") # {} THEN "" ELSE OrElse(env.nats, NoSettings.nats)

-----------------------------------------------------------------------------
(* What makes them inductive *)

\* The settings are a record, whose port may come from the environment.
SettingsTypeOK ==
  settings \in [model : Words \cup {""} \cup {e.model : e \in Environments},
               mode : {"cpu"} \cup {e.mode : e \in Environments},
               nats : {"", NoSettings.nats} \cup {e.nats : e \in Environments},
               number : [IntOptions -> Words \cup {Default} \cup {e.port : e \in Environments}],
               verbose : BOOLEAN]

\* The loop stands at an option, never at the value of one, and every option it
\* has passed was well formed.
LoopAtOption ==
  /\ mainpc = "off" => arg = 1 /\ argv = <<>>
  /\ mainpc = "parse" =>
       /\ arg \in 1..(Len(argv) + 1) /\ (arg <= Len(argv) => IsOption[arg])
       /\ \A i \in 1..Len(argv) : i < arg /\ IsOption[i] => WellFormed(i)
  /\ mainpc \in {"construct", "constructed"} =>
       \A i \in 1..Len(argv) : IsOption[i] => WellFormed(i)

\* The loop has made of the options it has passed what Precedence makes of all.
Passed(o) == {i \in Given(o) : i < arg}

SettingsFromPassed ==
  mainpc \in {"off", "parse"} =>
    /\ settings.model = ValueOfLast(Passed("-m"), "") /\ settings.mode = "cpu"
    /\ \A o \in IntOptions : settings.number[o] = ValueOfLast(Passed(o), Default)

SettingsFromBoth ==
  mainpc \in {"construct", "constructed"} =>
    /\ settings.model = IF LastGiven("-m", "") # "" THEN LastGiven("-m", "")
                        ELSE OrElse(env.model, "")
    /\ settings.mode = OrElse(env.mode, "cpu")
    /\ \A o \in IntOptions :
         settings.number[o] = LET given == LastGiven(o, Default)
                              IN  IF o = "--port" THEN OrElse(env.port, given) ELSE given

ConfigurationInv ==
  /\ SettingsTypeOK /\ LoopAtOption /\ SettingsFromPassed /\ SettingsFromBoth
  /\ mainpc = "constructed" =>
       engineUrl = IF settings.nats = "" THEN NoSettings.nats ELSE settings.nats

=============================================================================
