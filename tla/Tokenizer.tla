------------------------------ MODULE Tokenizer ------------------------------
(***************************************************************************)
(* src/tokenizer/tokenizer.cpp: the vocabulary file, read line by line,    *)
(* and encoding, character by character and merge by merge.  A text is a   *)
(* sequence of characters; the header of a file is a line holding the one  *)
(* symbol "vocab_size", then ":" and a number or not.                      *)
(***************************************************************************)
EXTENDS Integers, Sequences, FiniteSets, SequencesExt

CONSTANTS VocabFiles,   \* the files: sequences of lines
          Texts,        \* what is encoded
          AddedTokens   \* arguments of add_token(): pairs of a text and an id

TextChar == UNION {ToSet(t) : t \in Texts}
FileChar == UNION {UNION {ToSet(l) : l \in ToSet(f)} : f \in VocabFiles}

ASSUME TokenizerAssumption ==
  /\ \A t \in Texts : t \in Seq(TextChar)
  /\ \A f \in VocabFiles : f \in Seq(Seq(FileChar))
  /\ \A a \in AddedTokens : a[2] \in Int

VARIABLES lpc, file, line,       \* where load() is
          autoId,                \* its local id
          vocab, reverseVocab, merges, vocabSize,
          loads, first,          \* loads done, and the tables after the first one
          encpc, text, place,    \* where encode() is
          current, words, pieces, tokens   \* its locals

tables == <<vocab, reverseVocab, merges, vocabSize>>
loading == <<lpc, file, line, autoId, loads, first>>
encoding == <<encpc, text, place, current, words, pieces, tokens>>
tokenizerVars == <<tables, loading, encoding>>

Digits == [c \in {"0", "1", "2", "3", "7"} |->
             CASE c = "0" -> 0 [] c = "1" -> 1 [] c = "2" -> 2 [] c = "3" -> 3 [] c = "7" -> 7]
Special == [c \in {" ", "."} |-> IF c = " " THEN 32 ELSE 46]   \* their bytes

NoTables == [vocab |-> <<>>, reverseVocab |-> <<>>, merges |-> <<>>, vocabSize |-> 0]

TokenizerInit ==
  /\ vocab = <<>> /\ reverseVocab = <<>> /\ merges = <<>> /\ vocabSize = 0
  /\ lpc = "idle" /\ file = <<>> /\ line = 1 /\ autoId = 0 /\ loads = 0 /\ first = NoTables
  /\ encpc = "idle" /\ text = <<>> /\ place = 1
  /\ current = <<>> /\ words = <<>> /\ pieces = <<>> /\ tokens = <<>>

-----------------------------------------------------------------------------
(* load() *)

With(f, key, value) == [x \in DOMAIN f \cup {key} |-> IF x = key THEN value ELSE f[x]]

IsNumber(s) == \A i \in 1..Len(s) : s[i] \in DOMAIN Digits

\* std::stoi: the number a string starts with; without one it throws.
Stoiable(s) == s # <<>> /\ s[1] \in DOMAIN Digits
ToInt(s) ==
  LET leading == Max({n \in 0..Len(s) : IsNumber(SubSeq(s, 1, n))})
      value[n \in 0..leading] == IF n = 0 THEN 0 ELSE 10 * value[n - 1] + Digits[s[n]]
  IN  value[leading]

Enter(token, id) ==
  /\ vocab' = With(vocab, token, id)
  /\ reverseVocab' = With(reverseVocab, id, token)

LoadCall(f) ==
  /\ lpc = "idle" /\ encpc = "idle" /\ loads < 2
  /\ loads = 1 => f = file
  /\ lpc' = "first" /\ file' = f /\ line' = 1 /\ autoId' = 0
  /\ UNCHANGED <<tables, loads, first, encoding>>

\* The first line is a header or a token, whatever else it looks like.
LoadFirstLine ==
  LET l == file[1]
  IN  /\ lpc = "first" /\ line' = 2
      /\ \/ /\ file = <<>> /\ lpc' = "lines" /\ UNCHANGED <<tables, autoId>>
         \/ /\ file # <<>> /\ Contains(l, "vocab_size") /\ autoId' = 0
            /\ IF Contains(l, ":") /\ ~Stoiable(SubSeq(l, 3, Len(l)))
               THEN lpc' = "threw" /\ UNCHANGED tables
               ELSE /\ lpc' = "lines"
                    /\ vocabSize' = IF Contains(l, ":") THEN ToInt(SubSeq(l, 3, Len(l))) ELSE vocabSize
                    /\ UNCHANGED <<vocab, reverseVocab, merges>>
         \/ /\ file # <<>> /\ ~Contains(l, "vocab_size")
            /\ Enter(l, autoId) /\ autoId' = 1 /\ lpc' = "lines"
            /\ UNCHANGED <<merges, vocabSize>>
  /\ UNCHANGED <<file, loads, first, encoding>>

NextAutoId_AfterVocab == Cardinality(DOMAIN vocab')
NextAutoId == autoId + 1

\* "token number" is an entry, "left right" a merge; a number has five digits
\* at most.  A line that starts with a space must end in a number, or stoi
\* throws, and so it does when nothing follows the space.
LoadLine ==
  LET l == file[line]
      blank == {i \in 1..Len(l) : l[i] = " "}
      lo == Min(blank) hi == Max(blank)
      right == SubSeq(l, lo + 1, Len(l))
      tail == SubSeq(l, hi + 1, Len(l))
      Throw == lpc' = "threw" /\ UNCHANGED <<tables, autoId>>
      NewEntry(token, id) ==
        Enter(token, id) /\ UNCHANGED <<merges, vocabSize, autoId, lpc>>
  IN  /\ lpc = "lines" /\ line <= Len(file) /\ line' = line + 1
      /\ \/ l = <<>> /\ UNCHANGED <<tables, autoId, lpc>>
         \/ /\ l # <<>> /\ blank = {}
            /\ Enter(l, autoId) /\ autoId' = NextAutoId
            /\ UNCHANGED <<merges, vocabSize, lpc>>
         \/ /\ blank # {} /\ l[1] # " "
            /\ IF IsNumber(right) /\ Len(right) < 6
               THEN IF right = <<>> THEN Throw ELSE NewEntry(SubSeq(l, 1, lo - 1), ToInt(right))
               ELSE /\ merges' = Append(merges, <<SubSeq(l, 1, lo - 1), right>>)
                    /\ UNCHANGED <<vocab, reverseVocab, vocabSize, autoId, lpc>>
         \/ /\ blank # {} /\ l[1] = " "
            /\ IF Stoiable(tail) THEN NewEntry(SubSeq(l, 1, hi - 1), ToInt(tail)) ELSE Throw
      /\ UNCHANGED <<file, loads, first, encoding>>

LoadEnd ==
  /\ lpc = "lines" /\ line > Len(file)
  /\ vocabSize' = IF vocabSize = 0 THEN Cardinality(DOMAIN vocab) ELSE vocabSize
  /\ lpc' = "idle" /\ loads' = loads + 1
  /\ first' = IF loads = 0 THEN [vocab |-> vocab, reverseVocab |-> reverseVocab,
                                 merges |-> merges, vocabSize |-> vocabSize'] ELSE first
  /\ UNCHANGED <<vocab, reverseVocab, merges, file, line, autoId, encoding>>

\* first is forgotten: the file no longer says everything.
AddToken(token, id) ==
  /\ lpc = "idle" /\ encpc = "idle"
  /\ Enter(token, id)
  /\ vocabSize' = IF id >= vocabSize THEN id + 1 ELSE vocabSize
  /\ first' = NoTables
  /\ UNCHANGED <<merges, lpc, file, line, autoId, loads, encoding>>

-----------------------------------------------------------------------------
(* encode() and bpe_encode() *)

EncodeCall(t) ==
  /\ encpc = "idle" /\ lpc = "idle"
  /\ text' = t /\ place' = 1 /\ encpc' = IF t = <<>> THEN "done" ELSE "scan"
  /\ UNCHANGED <<tables, loading, current, words, pieces, tokens>>

EndWord == words' = IF current = <<>> THEN words ELSE Append(words, current)

\* Spaces and punctuation become tokens at once, the words wait.
ScanChar ==
  LET c == text[place]
  IN  /\ encpc = "scan" /\ place <= Len(text) /\ place' = place + 1
      /\ \/ /\ c \in DOMAIN Special
            /\ EndWord /\ current' = <<>>
            /\ tokens' = Append(tokens, IF <<c>> \in DOMAIN vocab THEN vocab[<<c>>]
                                                               ELSE Special[c] + 256)
         \/ /\ c \notin DOMAIN Special
            /\ current' = Append(current, c) /\ UNCHANGED <<words, tokens>>
      /\ UNCHANGED <<tables, loading, encpc, text, pieces>>

ScanEnd ==
  /\ encpc = "scan" /\ place > Len(text)
  /\ EndWord /\ current' = <<>> /\ place' = 1 /\ encpc' = "word"
  /\ UNCHANGED <<tables, loading, text, pieces, tokens>>

NextWord ==
  /\ encpc = "word"
  /\ IF place > Len(words) THEN encpc' = "done" /\ UNCHANGED pieces
     ELSE encpc' = "merge" /\ pieces' = [i \in 1..Len(words[place]) |-> <<words[place][i]>>]
  /\ UNCHANGED <<tables, loading, text, place, current, words, tokens>>

\* find_best_merge(): the position whose first matching rule comes earliest in
\* the file, the leftmost of several; 0 when no rule matches.
RuleOf(left, right, rules) ==
  LET matching == {m \in 1..Len(rules) : rules[m] = <<left, right>>}
  IN  IF matching = {} THEN 0 ELSE Min(matching)

RuleAt(i) == RuleOf(pieces[i], pieces[i + 1], merges)

BestMerge_First ==
  IF Len(pieces) > 1 /\ RuleAt(1) > 0 THEN 1 ELSE 0

BestMerge ==
  LET here == {i \in 1..(Len(pieces) - 1) : RuleAt(i) > 0}
  IN  IF here = {} THEN 0
      ELSE CHOOSE i \in here : \A j \in here : RuleAt(i) < RuleAt(j) \/ (RuleAt(i) = RuleAt(j) /\ i <= j)

MergePieces ==
  /\ encpc = "merge"
  /\ IF BestMerge = 0 THEN encpc' = "emit" /\ UNCHANGED pieces
     ELSE /\ pieces' = ReplaceAt(RemoveAt(pieces, BestMerge + 1), BestMerge,
                                 pieces[BestMerge] \o pieces[BestMerge + 1])
          /\ UNCHANGED encpc
  /\ UNCHANGED <<tables, loading, text, place, current, words, tokens>>

\* A piece is its own token, or that of its longest prefix in the vocabulary,
\* whose rest is dropped, or 0.
PieceToken_Shortest(p) ==
  LET known == {n \in 1..Len(p) : SubSeq(p, 1, n) \in DOMAIN vocab}
  IN  IF known = {} THEN 0 ELSE vocab[SubSeq(p, 1, Min(known))]

PieceToken(p) ==
  LET known == {n \in 1..Len(p) : SubSeq(p, 1, n) \in DOMAIN vocab}
  IN  IF known = {} THEN 0 ELSE vocab[SubSeq(p, 1, Max(known))]

EmitWord ==
  /\ encpc = "emit" /\ encpc' = "word" /\ place' = place + 1
  /\ tokens' = tokens \o [i \in 1..Len(pieces) |-> PieceToken(pieces[i])]
  /\ UNCHANGED <<tables, loading, text, current, words, pieces>>

TakeTokens ==
  /\ encpc = "done" /\ encpc' = "idle"
  /\ text' = <<>> /\ place' = 1 /\ current' = <<>> /\ words' = <<>> /\ pieces' = <<>> /\ tokens' = <<>>
  /\ UNCHANGED <<tables, loading>>

TokenizerNext ==
  \/ \E f \in VocabFiles : LoadCall(f)
  \/ LoadFirstLine \/ LoadLine \/ LoadEnd
  \/ \E a \in AddedTokens : AddToken(a[1], a[2])
  \/ \E t \in Texts : EncodeCall(t)
  \/ ScanChar \/ ScanEnd \/ NextWord \/ MergePieces \/ EmitWord \/ TakeTokens

TokenizerSpec == TokenizerInit /\ [][TokenizerNext]_tokenizerVars

\* decode(): the vocabulary first, then bytes.
TokenText(id) ==
  CASE id \in DOMAIN reverseVocab -> reverseVocab[id]
    [] id \notin DOMAIN reverseVocab /\ id \in 256..511 ->
         <<IF \E c \in DOMAIN Special : Special[c] = id - 256
           THEN CHOOSE c \in DOMAIN Special : Special[c] = id - 256 ELSE "?">>
    [] OTHER -> <<"<UNK>">>

Decode(ids) == FlattenSeq([i \in 1..Len(ids) |-> TokenText(ids[i])])

-----------------------------------------------------------------------------
(* Properties *)

TokenizerTypeOK ==
  /\ lpc \in {"idle", "first", "lines", "threw"} /\ loads \in 0..2
  /\ encpc \in {"idle", "scan", "word", "merge", "emit", "done"}
  /\ \A w \in DOMAIN vocab : vocab[w] \in Int
  /\ vocabSize \in Nat /\ tokens \in Seq(Int) /\ place \in 1..(Len(text) + 1)

\* The pieces of a word spell it while they are merged, and in the end no rule
\* applies to two neighbours.
WordFullyMerged ==
  /\ encpc \in {"merge", "emit"} => FlattenSeq(pieces) = words[place]
  /\ encpc = "emit" => \A i \in 1..(Len(pieces) - 1) : <<pieces[i], pieces[i + 1]>> \notin ToSet(merges)

\* A file with a token on every line, without repetition, or a merge of two
\* tokens of the file into a third.
Merged(l) == LET at == Min({i \in 1..Len(l) : l[i] = " "})
             IN  SubSeq(l, 1, at - 1) \o SubSeq(l, at + 1, Len(l))

PlainFile(f) ==
  LET body == IF f # <<>> /\ Contains(f[1], "vocab_size") THEN Tail(f) ELSE f
      bare == {i \in 1..Len(body) : body[i] # <<>> /\ ~Contains(body[i], " ")}
  IN  /\ body # <<>> /\ 1 \in bare
      /\ \A i, j \in bare : body[i] = body[j] => i = j
      /\ \A i \in 1..Len(body) \ bare :
           /\ body[i][1] # " " /\ Last(body[i]) \notin DOMAIN Digits \cup {" "}
           /\ \E j \in bare : body[j] = Merged(body[i])
      /\ \A t \in Texts : \A c \in ToSet(t) : \E j \in bare : body[j] = <<c>>

\* What encode() makes tokens of at once, and what it puts into words.
Punctuation == DOMAIN Special
Letters == TextChar \ Punctuation

\* The characters of a text that are in S, in order.
Only(t, S) == FlattenSeq([i \in 1..Len(t) |-> IF t[i] \in S THEN <<t[i]>> ELSE <<>>])

\* With such a file, what load(), encode() and decode() make of a text
\* (tokenizer.hpp:20-27) are its characters, but all spaces and punctuation
\* first and then the words.
RoundTripReorders ==
  encpc = "done" /\ first # NoTables /\ PlainFile(file) =>
    Decode(tokens) = Only(text, Punctuation) \o Only(text, Letters)

\* A second start() loads the file into the same tokenizer again: it doubles
\* the rules, and nothing that encode() and decode() look at changes.
ReloadChangesNothing ==
  loads = 2 /\ first # NoTables =>
    /\ vocab = first.vocab /\ reverseVocab = first.reverseVocab /\ vocabSize = first.vocabSize
    /\ \A m \in ToSet(merges) : RuleOf(m[1], m[2], merges) = RuleOf(m[1], m[2], first.merges)

-----------------------------------------------------------------------------
(* What makes them inductive *)

\* The locals of encode() are texts, and place is at a word while it is merged.
EncodeShape ==
  /\ text \in Seq(TextChar) /\ current \in Seq(TextChar) /\ place \in Nat \ {0}
  /\ words \in Seq(Seq(TextChar)) /\ pieces \in Seq(Seq(TextChar))
  /\ encpc \in {"merge", "emit"} => place <= Len(words)

\* load() and encode() are calls of one owner, never at the same time.
OneCall == lpc = "idle" \/ encpc = "idle"

\* A rule is a pair of texts of a line of the file.
MergesShape ==
  /\ file \in Seq(Seq(FileChar)) /\ line \in Nat \ {0}
  /\ merges \in Seq(Seq(FileChar) \X Seq(FileChar))

TokenizerInv == OneCall /\ EncodeShape /\ MergesShape /\ WordFullyMerged

\* The tables are finite, and every id in them a number.
TablesCounted ==
  /\ IsFiniteSet(DOMAIN vocab) /\ \A w \in DOMAIN vocab : vocab[w] \in Int
  /\ vocabSize \in Nat /\ autoId \in Nat

\* There are no more words than characters scanned, so that a place among the
\* words is one in the text.
WordsCounted ==
  /\ encpc = "idle" => words = <<>> /\ current = <<>> /\ place = 1
  /\ encpc = "scan" =>
       /\ place <= Len(text) + 1
       /\ Len(words) < place /\ (current # <<>> => Len(words) + 1 < place)
  /\ encpc \in {"word", "merge", "emit", "done"} =>
       Len(words) <= Len(text) /\ place <= Len(words) + 1

\* decode() gives a text back that it knows the id of.
Known(w) ==
  /\ w # <<>> /\ w \in DOMAIN vocab
  /\ vocab[w] \in DOMAIN reverseVocab /\ reverseVocab[vocab[w]] = w

\* The texts of the tokens, one by one.
Said(ids) == [i \in 1..Len(ids) |-> TokenText(ids[i])]

\* With a plain file the tokens of encode() always say what it has read: first
\* the spaces and the punctuation, while the words wait, then the words, of
\* which every piece is a text that decode() gives back.
Scanned ==
  encpc = "scan" =>
    /\ Decode(tokens) = Only(SubSeq(text, 1, place - 1), Punctuation)
    /\ FlattenSeq(words) \o current = Only(SubSeq(text, 1, place - 1), Letters)

Spelled ==
  encpc \in {"word", "merge", "emit"} =>
    /\ FlattenSeq(words) = Only(text, Letters)
    /\ Decode(tokens) = Only(text, Punctuation) \o FlattenSeq(SubSeq(words, 1, place - 1))

PiecesKnown == encpc \in {"merge", "emit"} => \A p \in ToSet(pieces) : Known(p)

EncodedSoFar ==
  /\ encpc = "idle" => tokens = <<>>
  /\ first # NoTables /\ PlainFile(file) =>
       Scanned /\ Spelled /\ PiecesKnown /\ Said(tokens) \in Seq(Seq(TextChar))

=============================================================================
