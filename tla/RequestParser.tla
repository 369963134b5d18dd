---------------------------- MODULE RequestParser ----------------------------
(***************************************************************************)
(* src/server/rest_api_server.cpp, from the bytes recv() returned to the   *)
(* arguments of generate_response(): the body of a request, which may have *)
(* been cut anywhere, is scanned by parse_json(), pair by pair, and the    *)
(* handlers of the two completion routes read the parameters they know.    *)
(* A body is a sequence of symbols: quotes, punctuation, blanks and words. *)
(***************************************************************************)
EXTENDS Integers, Sequences, FiniteSetsExt, SequencesExt

CONSTANTS Objects,    \* flat objects: sequences of pairs, see Written
          Bodies,     \* bodies that are not written from one of them
          Numerals    \* the words that start with a number of the int's range

VARIABLES rpc,        \* where the handler is
          origin,     \* where the body is from: an object, whole or cut, or not
          sent,       \* the object the client wrote
          json, pos,  \* the body and the position of the scan
          params,     \* result: keys to values
          prompt, maxTokens   \* what generate_response() is given

Quote == "quote"
Blank == " "
Colon == ":"
Comma == ","
Open == "{"
Close == "}"

\* A flat object has strings without a quote in them, for parse_json() knows no
\* escapes, and bare values: numbers, true, null.
Symbol == {Quote, Blank, Colon, Comma, Open, Close} \cup UNION {ToSet(body) : body \in Bodies} \cup
          UNION {UNION {ToSet(object[i].key) \cup ToSet(object[i].value) : i \in 1..Len(object)} :
                 object \in Objects}
FlatPair ==
  {pair \in [key : Seq(Symbol), quoted : BOOLEAN, value : Seq(Symbol)] :
     /\ Quote \notin ToSet(pair.key)
     /\ pair.quoted => Quote \notin ToSet(pair.value)
     /\ ~pair.quoted => /\ pair.value # <<>> /\ pair.value[1] # Blank
                        /\ {Quote, Comma, Close} \cap ToSet(pair.value) = {}}

ASSUME RequestAssumption == Objects \subseteq Seq(FlatPair) /\ Bodies \subseteq Seq(Symbol)

requestVars == <<rpc, origin, sent, json, pos, params, prompt, maxTokens>>

NoParams == [k \in {} |-> <<>>]

RequestInit ==
  /\ rpc = "idle" /\ origin = "none" /\ sent = <<>> /\ json = <<>> /\ pos = 1
  /\ params = NoParams /\ prompt = <<>> /\ maxTokens = <<>>

-----------------------------------------------------------------------------
(* How a client writes an object, compact or with blanks. A value is quoted *)
(* or bare.                                                                 *)

Quoted(s) == <<Quote>> \o s \o <<Quote>>

WrittenPair(pair, blanks) ==
  Quoted(pair.key) \o <<Colon>> \o blanks \o (IF pair.quoted THEN Quoted(pair.value) ELSE pair.value)

WrittenPairs(object, blanks) ==
  [i \in 1..Len(object) |->
     blanks \o WrittenPair(object[i], blanks) \o (IF i < Len(object) THEN <<Comma>> ELSE blanks)]

Written(object, blanks) == <<Open>> \o FlattenSeq(WrittenPairs(object, blanks)) \o <<Close>>

\* handle_client() and parse_request(): what one recv() returned of the body,
\* to which the end of its last line is added.
Body(bytes, n) == IF n = 0 THEN <<>> ELSE SubSeq(bytes, 1, n) \o <<Blank>>

ReceiveBody(from, object, bytes, n) ==
  /\ rpc = "idle" /\ rpc' = "scan"
  /\ origin' = from /\ sent' = object /\ json' = Body(bytes, n)
  /\ pos' = 1 /\ params' = NoParams
  /\ UNCHANGED <<prompt, maxTokens>>

-----------------------------------------------------------------------------
(* parse_json(): one round of the loop.  A search that finds nothing gives  *)
(* None, from where every further search finds nothing.                     *)

None == Len(json) + 1
Find(symbols, from) == Min({i \in from..Len(json) : json[i] \in symbols} \cup {None})
FindNot(symbols, from) == Min({i \in from..Len(json) : json[i] \notin symbols} \cup {None})
Between(from, to) == SubSeq(json, from + 1, to - 1)

EndOfBare_CommaOnly(start) == Find({Comma}, start)
EndOfBare(start) == Find({Comma, Close}, start)

KeyStart == Find({Quote}, pos)
KeyEnd == Find({Quote}, KeyStart + 1)
ValueStart == FindNot({Blank}, Find({Colon}, KeyEnd + 1) + 1)
IsString == ValueStart # None /\ json[ValueStart] = Quote
ValueEnd == IF IsString THEN Find({Quote}, ValueStart + 1) ELSE EndOfBare(ValueStart)
AfterValue == IF IsString THEN ValueEnd + 1 ELSE ValueEnd

ParsePair ==
  LET key == Between(KeyStart, KeyEnd)
      value == Between(IF IsString THEN ValueStart ELSE ValueStart - 1, ValueEnd)
  IN  /\ rpc = "scan" /\ ValueEnd # None
      /\ params' = [k \in DOMAIN params \cup {key} |-> IF k = key THEN value ELSE params[k]]
      /\ pos' = IF AfterValue < None /\ json[AfterValue] = Comma THEN AfterValue + 1 ELSE AfterValue
      /\ UNCHANGED <<rpc, origin, sent, json, prompt, maxTokens>>

\* The loop ends with the body, or with the first search that fails.
ParseEnd ==
  /\ rpc = "scan" /\ ValueEnd = None
  /\ rpc' = "parsed"
  /\ UNCHANGED <<origin, sent, json, pos, params, prompt, maxTokens>>

\* handle_completions() and handle_chat_completions(): a number that does not
\* convert throws, and the answer is a 500.
Param(name, default) == IF <<name>> \in DOMAIN params THEN params[<<name>>] ELSE default

Converts(value) ==
  LET digits == {i \in 1..Len(value) : value[i] # Blank}
  IN  digits # {} /\ value[Min(digits)] \in Numerals

ReadParams ==
  LET numbers == {<<"max_tokens">>, <<"temperature">>} \cap DOMAIN params
  IN  /\ rpc = "parsed"
      /\ IF \A k \in numbers : Converts(params[k])
         THEN /\ rpc' = "generate"
              /\ prompt' = Param("prompt", <<>>) /\ maxTokens' = Param("max_tokens", <<"1024">>)
         ELSE rpc' = "error500" /\ UNCHANGED <<prompt, maxTokens>>
      /\ UNCHANGED <<origin, sent, json, pos, params>>

\* The response is sent; the thread of the next request starts from nothing.
Responded ==
  /\ rpc \in {"generate", "error500"} /\ rpc' = "idle"
  /\ origin' = "none" /\ sent' = <<>> /\ json' = <<>> /\ pos' = 1
  /\ params' = NoParams /\ prompt' = <<>> /\ maxTokens' = <<>>

RequestNext ==
  \/ \E object \in Objects, blanks \in {<<>>, <<Blank>>} :
       LET bytes == Written(object, blanks)
       IN  \E n \in 0..Len(bytes) : ReceiveBody(IF n < Len(bytes) THEN "cut" ELSE "whole", object, bytes, n)
  \/ \E bytes \in Bodies : ReceiveBody("other", <<>>, bytes, Len(bytes))
  \/ ParsePair \/ ParseEnd \/ ReadParams \/ Responded

RequestSpec == RequestInit /\ [][RequestNext]_requestVars

-----------------------------------------------------------------------------
(* Properties *)

RequestTypeOK ==
  /\ rpc \in {"idle", "scan", "parsed", "generate", "error500"}
  /\ origin \in {"none", "whole", "cut", "other"} /\ json \in Seq(Symbol) /\ pos \in 1..(Len(json) + 1)

\* The map that the first n pairs of an object say, the last of equal keys
\* winning; a bare value has the blanks that follow it as well.
SameValue(pair, value) ==
  IF pair.quoted THEN value = pair.value
                 ELSE value \in {pair.value, Append(pair.value, Blank)}

Says(object, n, map) ==
  /\ DOMAIN map = {object[i].key : i \in 1..n}
  /\ \A i \in 1..n : (\A j \in (i + 1)..n : object[j].key # object[i].key)
                       => SameValue(object[i], map[object[i].key])

\* parse_json() of a flat object that one recv() cut anywhere
\* (rest_api_server.cpp:145) loses pairs from the end and garbles none, whatever
\* punctuation its strings hold; nothing is lost of one that came whole.
CutBodyOnlyLoses ==
  /\ rpc = "parsed" /\ origin \in {"whole", "cut"} => \E n \in 0..Len(sent) : Says(sent, n, params)
  /\ rpc = "parsed" /\ origin = "whole" => Says(sent, Len(sent), params)

-----------------------------------------------------------------------------
(* What makes them inductive *)

\* Where the first m pairs of an object end in the text.
EndOfPairs(object, blanks, m) == 1 + Len(FlattenSeq(SubSeq(WrittenPairs(object, blanks), 1, m)))

\* The scan has read some pairs, and no string begins before the next one.
PairsRead(text, object, blanks) ==
  \E m \in 0..Len(object) :
    /\ Says(object, m, params)
    /\ pos \in 1..(EndOfPairs(object, blanks, m) + 1)
    /\ \A i \in pos..EndOfPairs(object, blanks, m) : text[i] # Quote

ScanFollowsPairs ==
  origin \in {"whole", "cut"} =>
    /\ sent \in Objects
    /\ \E blanks \in {<<>>, <<Blank>>} :
         LET bytes == Written(sent, blanks)
         IN  /\ \E n \in 0..Len(bytes) : json = Body(bytes, n) /\ (origin = "whole" => n = Len(bytes))
             /\ rpc = "scan" => PairsRead(bytes, sent, blanks)

RequestInv == ScanFollowsPairs /\ CutBodyOnlyLoses

=============================================================================
