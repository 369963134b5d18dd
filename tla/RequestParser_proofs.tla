------------------------ MODULE RequestParser_proofs ------------------------
(***************************************************************************)
(* parse_json() of a flat object that was cut anywhere loses pairs from    *)
(* the end and garbles none: for every set of objects, compact or with     *)
(* blanks. The text of an object is the flattening of its pairs; a search  *)
(* of a round ends at the place of the pair where it ends in the whole     *)
(* text, or behind the cut.                                                *)
(***************************************************************************)
EXTENDS RequestParser, SequenceLemmas

-----------------------------------------------------------------------------
(* Searching *)

\* A search finds the first place there is, or nothing.
LEMMA FindIs ==
  ASSUME NEW symbols, NEW from \in Nat \ {0}, NEW i \in Nat, from <= i, json \in Seq(Symbol),
         \A j \in 1..Len(json) : from <= j /\ j < i => json[j] \notin symbols
  PROVE  /\ i <= Len(json) /\ json[i] \in symbols => Find(symbols, from) = i
         /\ i > Len(json) => Find(symbols, from) = None
<1> DEFINE here == {j \in from..Len(json) : json[j] \in symbols}
           R == here \cup {None}
<1>1. Len(json) \in Nat /\ None = Len(json) + 1
  BY DEF None
<1>2. R \in SUBSET Nat /\ R # {}
  BY <1>1
<1>3. Find(symbols, from) = Min(R)
  BY DEF Find
<1>4. \A j \in R : j \in here \/ j = None
  OBVIOUS
<1>5. \A j \in here : i <= j /\ j <= Len(json)
  BY <1>1
<1>6. i <= Len(json) /\ json[i] \in symbols => i \in here
  BY <1>1
<1> HIDE DEF here
<1>7. None \in R /\ here \subseteq R
  OBVIOUS
<1> HIDE DEF R
<1>8. Min(R) \in R /\ \A j \in R : Min(R) <= j
  BY <1>2, MinIndex
<1>9. CASE i <= Len(json) /\ json[i] \in symbols
  <2>1. i \in R /\ Min(R) <= i
    BY <1>6, <1>7, <1>8, <1>9
  <2>2. i <= Min(R)
    BY <1>1, <1>4, <1>5, <1>8, <1>9
  <2>3. Min(R) \in Nat
    BY <1>2, <1>8
  <2> QED
    BY <1>3, <1>9, <2>1, <2>2, <2>3
<1>10. CASE i > Len(json)
  <2>1. ASSUME Min(R) \in here PROVE FALSE
    <3>1. i <= Min(R) /\ Min(R) <= Len(json)
      BY <1>5, <2>1
    <3>2. Min(R) \in Nat
      BY <1>2, <1>8
    <3> QED
      BY <1>1, <1>10, <3>1, <3>2
  <2> QED
    BY <1>1, <1>3, <1>4, <1>8, <1>10, <2>1
<1> QED
  BY <1>1, <1>9, <1>10

\* Searching for what is not a symbol is searching for the others.
LEMMA FindNotIs ==
  ASSUME NEW symbols, NEW from \in Nat \ {0}, NEW i \in Nat, from <= i, json \in Seq(Symbol),
         \A j \in 1..Len(json) : from <= j /\ j < i => json[j] \in symbols
  PROVE  /\ i <= Len(json) /\ json[i] \notin symbols => FindNot(symbols, from) = i
         /\ i > Len(json) => FindNot(symbols, from) = None
<1>1. FindNot(symbols, from) = Find(Symbol \ symbols, from)
  <2>1. \A j \in 1..Len(json) : json[j] \in Symbol
    OBVIOUS
  <2>2. \A j \in from..Len(json) : json[j] \notin symbols <=> json[j] \in Symbol \ symbols
    BY <2>1
  <2>3. {j \in from..Len(json) : json[j] \notin symbols} = {j \in from..Len(json) : json[j] \in Symbol \ symbols}
    BY <2>2
  <2> QED
    BY <2>3 DEF Find, FindNot
<1>2. \A j \in 1..Len(json) : from <= j /\ j < i => json[j] \notin Symbol \ symbols
  OBVIOUS
<1>3. i <= Len(json) /\ json[i] \notin symbols => json[i] \in Symbol \ symbols
  OBVIOUS
<1>4. /\ i <= Len(json) /\ json[i] \in Symbol \ symbols => Find(Symbol \ symbols, from) = i
      /\ i > Len(json) => Find(Symbol \ symbols, from) = None
  BY <1>2, FindIs
<1> QED
  BY <1>1, <1>3, <1>4

\* json holds the first n symbols of a text, and the blank that ends the line.
CutAt(text, n) ==
  /\ json \in Seq(Symbol) /\ n \in 0..Len(text)
  /\ Len(json) = IF n = 0 THEN 0 ELSE n + 1
  /\ \A i \in 1..n : json[i] = text[i]
  /\ n > 0 => json[n + 1] = Blank

LEMMA BodyIsCut ==
  ASSUME NEW text \in Seq(Symbol), NEW n \in 0..Len(text), json = Body(text, n)
  PROVE  CutAt(text, n)
<1>1. Len(text) \in Nat /\ Blank \in Symbol /\ n \in Nat
  <2>1. Blank \in Symbol
    BY DEF Symbol
  <2> QED
    BY <2>1
<1>2. CASE n = 0
  BY <1>1, <1>2 DEF Body, CutAt
<1>3. CASE n # 0
  <2> DEFINE s == SubSeq(text, 1, n)
  <2>1. s \in Seq(Symbol) /\ Len(s) = n /\ \A i \in 1..n : s[i] = text[i]
    BY <1>1
  <2>2. json = s \o <<Blank>>
    BY <1>3 DEF Body
  <2> HIDE DEF s
  <2>3. <<Blank>> \in Seq(Symbol) /\ Len(<<Blank>>) = 1 /\ <<Blank>>[1] = Blank
    BY <1>1
  <2>4. json \in Seq(Symbol) /\ Len(json) = n + 1 /\ (\A i \in 1..n : json[i] = s[i])
    BY <2>1, <2>2, <2>3
  <2>5. json[n + 1] = Blank
    BY <1>1, <2>1, <2>2
  <2> QED
    BY <1>3, <2>1, <2>4, <2>5 DEF CutAt
<1> QED
  BY <1>2, <1>3

\* Where a search of the text ends: where that of json does, or behind the cut.
Reach(n, i) == IF i <= n THEN i ELSE None

LEMMA CutFind ==
  ASSUME NEW text \in Seq(Symbol), NEW n, CutAt(text, n),
         NEW symbols, Blank \notin symbols, NEW from \in Nat \ {0}, NEW i \in 1..Len(text), from <= i,
         text[i] \in symbols, \A j \in 1..Len(text) : from <= j /\ j < i => text[j] \notin symbols
  PROVE  Find(symbols, from) = Reach(n, i)
<1>1. /\ json \in Seq(Symbol) /\ n \in Nat /\ n <= Len(text) /\ i \in Nat /\ Len(text) \in Nat
      /\ Len(json) = IF n = 0 THEN 0 ELSE n + 1
      /\ \A j \in 1..n : json[j] = text[j]
      /\ n > 0 => json[n + 1] = Blank
  BY DEF CutAt
<1>2. ASSUME NEW j \in 1..Len(json), from <= j, j < i
      PROVE  json[j] \notin symbols
  <2>1. CASE j <= n
    BY <1>1, <1>2, <2>1
  <2>2. CASE j > n
    <3>1. n > 0 /\ j = n + 1
      BY <1>1, <2>2
    <3> QED
      BY <1>1, <3>1
  <2> QED
    BY <1>1, <2>1, <2>2
<1>3. /\ i <= Len(json) /\ json[i] \in symbols => Find(symbols, from) = i
      /\ i > Len(json) => Find(symbols, from) = None
  BY <1>1, <1>2, FindIs
<1>4. CASE i <= n
  BY <1>1, <1>3, <1>4 DEF Reach
<1>5. CASE i > n
  <2>1. CASE i > Len(json)
    BY <1>1, <1>3, <1>5, <2>1 DEF Reach
  <2>2. CASE i <= Len(json)
    <3>1. n > 0 /\ i = n + 1 /\ Len(json) = n + 1 /\ json[i] = Blank
      BY <1>1, <1>5, <2>2
    <3>2. \A j \in 1..Len(json) : from <= j /\ j < i + 1 => json[j] \notin symbols
      <4>1. ASSUME NEW j \in 1..Len(json), from <= j, j < i + 1
            PROVE  json[j] \notin symbols
        <5>1. j < i \/ j = i
          BY <1>1, <4>1
        <5> QED
          BY <1>2, <3>1, <4>1, <5>1
      <4> QED
        BY <4>1
    <3>3. i + 1 \in Nat /\ from <= i + 1 /\ i + 1 > Len(json)
      BY <1>1, <3>1
    <3>4. Find(symbols, from) = None
      BY <1>1, <3>2, <3>3, FindIs
    <3> QED
      BY <1>1, <1>5, <3>4 DEF Reach
  <2> QED
    BY <1>1, <2>1, <2>2
<1> QED
  BY <1>1, <1>4, <1>5

\* Behind the end nothing is found.
LEMMA FindPast ==
  ASSUME NEW symbols, NEW from \in Nat, from >= None, json \in Seq(Symbol)
  PROVE  Find(symbols, from) = None /\ FindNot(symbols, from) = None
<1>1. Len(json) \in Nat /\ None = Len(json) + 1
  BY DEF None
<1>2. from \in Nat \ {0} /\ from > Len(json) /\ \A j \in 1..Len(json) : ~(from <= j)
  BY <1>1
<1> QED
  BY <1>2, FindIs, FindNotIs

\* The first symbol that is no blank.
LEMMA CutFindNot ==
  ASSUME NEW text \in Seq(Symbol), NEW n, CutAt(text, n),
         NEW from \in Nat \ {0}, NEW i \in 1..Len(text), from <= i,
         text[i] # Blank, \A j \in 1..Len(text) : from <= j /\ j < i => text[j] = Blank
  PROVE  FindNot({Blank}, from) = Reach(n, i)
<1>1. /\ json \in Seq(Symbol) /\ n \in Nat /\ n <= Len(text) /\ i \in Nat /\ Len(text) \in Nat
      /\ Len(json) = IF n = 0 THEN 0 ELSE n + 1
      /\ \A j \in 1..n : json[j] = text[j]
      /\ n > 0 => json[n + 1] = Blank
  BY DEF CutAt
<1>2. ASSUME NEW j \in 1..Len(json), from <= j, j < i \/ i > n
      PROVE  json[j] \in {Blank}
  <2>1. CASE j <= n
    <3>1. j \in 1..Len(text) /\ j < i /\ json[j] = text[j]
      BY <1>1, <1>2, <2>1
    <3> QED
      BY <1>2, <3>1
  <2>2. CASE j > n
    <3>1. n > 0 /\ j = n + 1
      BY <1>1, <2>2
    <3> QED
      BY <1>1, <3>1
  <2> QED
    BY <1>1, <2>1, <2>2
<1>3. CASE i <= n
  <2>1. i <= Len(json) /\ json[i] \notin {Blank}
    BY <1>1, <1>3
  <2>2. \A j \in 1..Len(json) : from <= j /\ j < i => json[j] \in {Blank}
    BY <1>2
  <2>3. FindNot({Blank}, from) = i
    BY <1>1, <2>1, <2>2, FindNotIs
  <2> QED
    BY <1>3, <2>3 DEF Reach
<1>4. CASE i > n
  <2>1. PICK k \in Nat : k = IF from > Len(json) + 1 THEN from ELSE Len(json) + 1
    BY <1>1
  <2>2. k > Len(json) /\ from <= k
    BY <1>1, <2>1
  <2>3. \A j \in 1..Len(json) : from <= j /\ j < k => json[j] \in {Blank}
    BY <1>2, <1>4
  <2>4. FindNot({Blank}, from) = None
    BY <1>1, <2>2, <2>3, FindNotIs
  <2> QED
    BY <1>1, <1>4, <2>4 DEF Reach
<1> QED
  BY <1>1, <1>3, <1>4

-----------------------------------------------------------------------------
(* How an object is laid out *)

Blanked == {<<>>, <<Blank>>}

WrittenAs(key, quoted, value, blanks) ==
  Quoted(key) \o <<Colon>> \o blanks \o (IF quoted THEN Quoted(value) ELSE value)

\* A pair occurs behind a place, up to another one, with what follows it.
PairWritten(text, from, key, quoted, value, blanks, last, to) ==
  \E tail \in Seq(Symbol) :
    LET whole == blanks \o WrittenAs(key, quoted, value, blanks) \o tail
    IN  /\ OccursAt(text, from, whole) /\ to = from + Len(whole)
        /\ last => tail = blanks /\ OccursAt(text, to, <<Close>>)
        /\ ~last => tail = <<Comma>>

\* So its parts are there, one behind the other.
PairAt(text, from, key, quoted, value, blanks, last, to) ==
  LET b == Len(blanks)
      start == from + b + Len(key) + 3 + b
      end == IF quoted THEN start + Len(value) + 2 ELSE start + Len(value)
  IN  /\ OccursAt(text, from, blanks)
      /\ OccursAt(text, from + b, <<Quote>>)
      /\ OccursAt(text, from + b + 1, key)
      /\ OccursAt(text, from + b + 1 + Len(key), <<Quote>>)
      /\ OccursAt(text, from + b + 2 + Len(key), <<Colon>>)
      /\ OccursAt(text, from + b + 3 + Len(key), blanks)
      /\ quoted => /\ OccursAt(text, start, <<Quote>>)
                   /\ OccursAt(text, start + 1, value)
                   /\ OccursAt(text, start + 1 + Len(value), <<Quote>>)
      /\ ~quoted => OccursAt(text, start, value)
      /\ last => OccursAt(text, end, blanks) /\ OccursAt(text, end + b, <<Close>>) /\ to = end + b
      /\ ~last => OccursAt(text, end, <<Comma>>) /\ to = end + 1

LEMMA Marks ==
  /\ Quote \in Symbol /\ Blank \in Symbol /\ Colon \in Symbol /\ Comma \in Symbol /\ Open \in Symbol /\ Close \in Symbol
  /\ Blanked \subseteq Seq(Symbol)
  /\ <<Quote>> \in Seq(Symbol) /\ <<Colon>> \in Seq(Symbol) /\ <<Comma>> \in Seq(Symbol)
  /\ <<Close>> \in Seq(Symbol) /\ <<Open>> \in Seq(Symbol) /\ <<Blank>> \in Seq(Symbol)
<1>1. Quote \in Symbol /\ Blank \in Symbol /\ Colon \in Symbol /\ Comma \in Symbol /\ Open \in Symbol /\ Close \in Symbol
  BY DEF Symbol
<1>2. \A c \in Symbol : <<c>> \in Seq(Symbol)
  OBVIOUS
<1>3. <<>> \in Seq(Symbol)
  OBVIOUS
<1> QED
  BY <1>1, <1>2, <1>3 DEF Blanked

\* A string in the text is a quote, its symbols and a quote.
LEMMA QuotedAt ==
  ASSUME NEW text \in Seq(Symbol), NEW s \in Seq(Symbol), NEW from \in Nat, OccursAt(text, from, Quoted(s))
  PROVE  /\ OccursAt(text, from, <<Quote>>) /\ OccursAt(text, from + 1, s)
         /\ OccursAt(text, from + 1 + Len(s), <<Quote>>) /\ Len(Quoted(s)) = Len(s) + 2
<1>1. <<Quote>> \in Seq(Symbol) /\ Len(<<Quote>>) = 1 /\ Len(s) \in Nat
  BY Marks
<1> DEFINE open == <<Quote>> \o s
<1>2. open \in Seq(Symbol)
  BY <1>1
<1>3. Quoted(s) = open \o <<Quote>>
  BY DEF Quoted
<1> HIDE DEF open
<1>4. /\ OccursAt(text, from, open) /\ OccursAt(text, from + Len(open), <<Quote>>)
      /\ Len(open \o <<Quote>>) = Len(open) + 1
  BY <1>2, <1>3, Marks, OccursCatOne
<1>5. /\ OccursAt(text, from, <<Quote>>) /\ OccursAt(text, from + 1, s)
      /\ Len(open) = 1 + Len(s)
  BY <1>1, <1>4, OccursCat DEF open
<1>6. from + Len(open) = from + 1 + Len(s)
  BY <1>1, <1>5
<1> QED
  BY <1>1, <1>3, <1>4, <1>5, <1>6

\* A pair that occurs in the text is laid out like that.
LEMMA PairIsAt ==
  ASSUME NEW text \in Seq(Symbol), NEW key \in Seq(Symbol), NEW quoted \in BOOLEAN, NEW value \in Seq(Symbol),
         NEW blanks \in Blanked, NEW from \in Nat,
         NEW last \in BOOLEAN, NEW to, PairWritten(text, from, key, quoted, value, blanks, last, to)
  PROVE  PairAt(text, from, key, quoted, value, blanks, last, to)
<1> DEFINE w == WrittenAs(key, quoted, value, blanks)
<1>tail. PICK tail \in Seq(Symbol) :
      /\ OccursAt(text, from, blanks \o w \o tail) /\ to = from + Len(blanks \o w \o tail)
      /\ last => tail = blanks /\ OccursAt(text, to, <<Close>>)
      /\ ~last => tail = <<Comma>>
  BY DEF PairWritten
<1> HIDE DEF w
<1> DEFINE b == Len(blanks)
           K == Quoted(key)
           V == IF quoted THEN Quoted(value) ELSE value
           KC == K \o <<Colon>>
           KB == KC \o blanks
           W == KB \o V
           BW == blanks \o W
           start == from + b + Len(key) + 3 + b
<1>0. b \in Nat /\ Len(key) \in Nat /\ Len(value) \in Nat /\ from + b \in Nat /\ start \in Nat
  <2>1. blanks \in Seq(Symbol) /\ key \in Seq(Symbol) /\ value \in Seq(Symbol)
    BY Marks
  <2>2. Len(blanks) \in Nat /\ Len(key) \in Nat /\ Len(value) \in Nat
    BY <2>1
  <2> QED
    BY <2>2
<1>1. /\ key \in Seq(Symbol) /\ value \in Seq(Symbol) /\ quoted \in BOOLEAN
      /\ blanks \in Seq(Symbol) /\ b \in Nat
      /\ Len(key) \in Nat /\ Len(value) \in Nat
  BY Marks
<1>2. K \in Seq(Symbol) /\ V \in Seq(Symbol) /\ <<Colon>> \in Seq(Symbol) /\ Len(<<Colon>>) = 1
  BY <1>1, Marks DEF Quoted
<1>3. KC \in Seq(Symbol) /\ KB \in Seq(Symbol) /\ W \in Seq(Symbol) /\ BW \in Seq(Symbol)
  <2> HIDE DEF K, V
  <2> QED
    BY <1>1, <1>2
<1>4. w = W
  BY DEF w, WrittenAs
<1>5. OccursAt(text, from, BW \o tail) /\ to = from + Len(BW \o tail)
  BY <1>4, <1>tail
<1> HIDE DEF BW
<1>8. OccursAt(text, from, BW) /\ OccursAt(text, from + Len(BW), tail) /\ Len(BW \o tail) = Len(BW) + Len(tail)
  BY <1>2, <1>3, <1>5, OccursCat
<1> HIDE DEF W
<1>9. OccursAt(text, from, blanks) /\ OccursAt(text, from + b, W) /\ Len(BW) = b + Len(W)
  BY <1>1, <1>3, <1>8, OccursCat DEF BW
<1> HIDE DEF KB, V
<1>10. OccursAt(text, from + b, KB) /\ OccursAt(text, from + b + Len(KB), V) /\ Len(W) = Len(KB) + Len(V)
  BY <1>1, <1>2, <1>3, <1>9, OccursCat DEF W
<1> HIDE DEF KC
<1>11. /\ OccursAt(text, from + b, KC) /\ OccursAt(text, from + b + Len(KC), blanks)
       /\ Len(KB) = Len(KC) + b
  BY <1>1, <1>3, <1>10, OccursCat DEF KB
<1> HIDE DEF K
<1>12. /\ OccursAt(text, from + b, K) /\ OccursAt(text, from + b + Len(K), <<Colon>>)
       /\ Len(KC) = Len(K) + 1
  <2>1. from + b \in Nat
    BY <1>0
  <2>2. OccursAt(text, from + b, K \o <<Colon>>)
    BY <1>11 DEF KC
  <2> QED
    BY <1>2, <2>1, <2>2, Marks, OccursCatOne DEF KC
<1>13. /\ OccursAt(text, from + b, <<Quote>>) /\ OccursAt(text, from + b + 1, key)
       /\ OccursAt(text, from + b + 1 + Len(key), <<Quote>>) /\ Len(K) = Len(key) + 2
  <2>1. OccursAt(text, from + b, Quoted(key)) /\ K = Quoted(key)
    BY <1>12 DEF K
  <2> QED
    BY <1>0, <1>1, <2>1, QuotedAt
<1>14. /\ from + b + Len(K) = from + b + 2 + Len(key)
       /\ from + b + Len(KC) = from + b + 3 + Len(key)
       /\ from + b + Len(KB) = start
  BY <1>0, <1>11, <1>12, <1>13
<1>15. /\ quoted => /\ OccursAt(text, start, <<Quote>>)
                    /\ OccursAt(text, start + 1, value)
                    /\ OccursAt(text, start + 1 + Len(value), <<Quote>>)
                    /\ Len(V) = Len(value) + 2
       /\ ~quoted => OccursAt(text, start, value) /\ Len(V) = Len(value)
  <2>1. OccursAt(text, start, V)
    BY <1>10, <1>14
  <2>2. CASE quoted
    <3>1. V = Quoted(value)
      BY <2>2 DEF V
    <3> HIDE DEF start
    <3> QED
      BY <1>0, <1>1, <2>1, <2>2, <3>1, QuotedAt
  <2>3. CASE ~quoted
    BY <2>1, <2>3 DEF V
  <2> QED
    BY <2>2, <2>3
<1> DEFINE end == IF quoted THEN start + Len(value) + 2 ELSE start + Len(value)
<1>16. from + Len(BW) = end
  <2>1. from + Len(BW) = start + Len(V)
    <3>1. Len(KB) \in Nat /\ Len(V) \in Nat /\ Len(W) \in Nat /\ Len(BW) \in Nat
      BY <1>2, <1>3
    <3>2. Len(BW) = b + Len(W) /\ Len(W) = Len(KB) + Len(V) /\ start = from + b + Len(KB)
      BY <1>9, <1>10, <1>14
    <3>3. PICK lenBW, lenW, lenKB \in Nat, lenV \in Nat, lenb \in Nat :
            lenBW = Len(BW) /\ lenW = Len(W) /\ lenKB = Len(KB) /\ lenV = Len(V) /\ lenb = b
      BY <1>0, <3>1
    <3> HIDE DEF start, b
    <3>4. lenBW = lenb + lenW /\ lenW = lenKB + lenV /\ start = from + lenb + lenKB
      BY <3>2, <3>3
    <3>5. from + lenBW = start + lenV
      BY <3>4
    <3> QED
      BY <3>3, <3>5
  <2> HIDE DEF start
  <2>2. CASE quoted
    <3>1. end = start + Len(value) + 2 /\ Len(V) = Len(value) + 2
      BY <1>15, <2>2
    <3> HIDE DEF end
    <3> QED
      BY <1>0, <2>1, <3>1
  <2>3. CASE ~quoted
    <3>1. end = start + Len(value) /\ Len(V) = Len(value)
      BY <1>15, <2>3
    <3> HIDE DEF end
    <3> QED
      BY <1>0, <2>1, <3>1
  <2> QED
    BY <2>2, <2>3
<1>17. OccursAt(text, end, tail) /\ to = end + Len(tail)
  <2>1. Len(BW) \in Nat /\ Len(tail) \in Nat
    BY <1>3
  <2> HIDE DEF end
  <2> QED
    BY <1>5, <1>8, <1>16, <2>1
<1>18. last => OccursAt(text, end, blanks) /\ OccursAt(text, end + b, <<Close>>) /\ to = end + b
  BY <1>17, <1>tail
<1>19. ~last => OccursAt(text, end, <<Comma>>) /\ to = end + 1
  <2>1. SUFFICES ASSUME ~last PROVE OccursAt(text, end, <<Comma>>) /\ to = end + 1
    OBVIOUS
  <2>2. tail = <<Comma>> /\ Len(tail) = 1
    BY <2>1, <1>tail
  <2> QED
    BY <1>17, <2>2
<1> HIDE DEF end, start
<1> QED
  BY <1>9, <1>11, <1>12, <1>13, <1>14, <1>15, <1>18, <1>19 DEF PairAt, end, start

\* An object is a brace, its pairs one behind the other, and a brace.
LEMMA ObjectAt ==
  ASSUME NEW object \in Objects, NEW blanks \in Blanked, NEW text, text = Written(object, blanks)
  PROVE  /\ text \in Seq(Symbol) /\ Len(object) \in Nat
         /\ EndOfPairs(object, blanks, 0) = 1 /\ text[1] # Quote
         /\ EndOfPairs(object, blanks, Len(object)) + 1 = Len(text) /\ text[Len(text)] = Close
         /\ \A m \in 0..Len(object) : EndOfPairs(object, blanks, m) \in 1..(Len(text) - 1)
         /\ \A m \in 1..Len(object) :
              PairAt(text, EndOfPairs(object, blanks, m - 1), object[m].key, object[m].quoted, object[m].value,
                     blanks, m = Len(object), EndOfPairs(object, blanks, m))
<1> DEFINE L == Len(object)
           pairs == WrittenPairs(object, blanks)
           e(m) == EndOfPairs(object, blanks, m)
           T(i) == IF i < L THEN <<Comma>> ELSE blanks
<1>1. L \in Nat /\ \A i \in 1..L : object[i] \in FlatPair
  <2>1. object \in Seq(FlatPair)
    BY RequestAssumption
  <2> QED
    BY <2>1
<1>2. ASSUME NEW i \in 1..L
      PROVE  /\ object[i].key \in Seq(Symbol) /\ object[i].quoted \in BOOLEAN /\ object[i].value \in Seq(Symbol)
             /\ WrittenPair(object[i], blanks)
                  = WrittenAs(object[i].key, object[i].quoted, object[i].value, blanks)
             /\ WrittenPair(object[i], blanks) \in Seq(Symbol)
             /\ pairs[i] = blanks \o WrittenPair(object[i], blanks) \o T(i)
             /\ pairs[i] \in Seq(Symbol)
  <2>1. object[i].key \in Seq(Symbol) /\ object[i].quoted \in BOOLEAN /\ object[i].value \in Seq(Symbol)
    BY <1>1 DEF FlatPair
  <2>2. WrittenPair(object[i], blanks) = WrittenAs(object[i].key, object[i].quoted, object[i].value, blanks)
    BY DEF WrittenPair, WrittenAs
  <2>3. pairs[i] = blanks \o WrittenPair(object[i], blanks) \o T(i)
    BY DEF WrittenPairs
  <2>4. WrittenAs(object[i].key, object[i].quoted, object[i].value, blanks) \in Seq(Symbol)
    <3>1. PICK key \in Seq(Symbol), value \in Seq(Symbol), quoted \in BOOLEAN :
            key = object[i].key /\ value = object[i].value /\ quoted = object[i].quoted
      BY <2>1
    <3>2. Quoted(key) \in Seq(Symbol) /\ Quoted(value) \in Seq(Symbol)
      BY Marks DEF Quoted
    <3>3. WrittenAs(key, quoted, value, blanks) \in Seq(Symbol)
      BY <3>2, Marks DEF WrittenAs
    <3> QED
      BY <3>1, <3>3
  <2>5. T(i) \in Seq(Symbol) /\ blanks \in Seq(Symbol)
    BY Marks
  <2> HIDE DEF T, pairs
  <2>6. pairs[i] \in Seq(Symbol)
    BY <2>2, <2>3, <2>4, <2>5
  <2> QED
    BY <2>1, <2>2, <2>3, <2>4, <2>6
<1>3. pairs \in Seq(Seq(Symbol)) /\ Len(pairs) = L
  <2>1. pairs = [i \in 1..L |-> pairs[i]]
    BY DEF WrittenPairs
  <2> HIDE DEF pairs
  <2>2. pairs \in [1..L -> Seq(Symbol)]
    BY <1>2, <2>1
  <2> QED
    BY <1>1, <2>2
<1> HIDE DEF pairs
<1>4. PICK F \in [0..L -> Seq(Symbol)] : Flattens(F, pairs)
  BY <1>3, FlatteningExists
<1>5. \A m \in 0..L : F[m] \in Seq(Symbol) /\ Len(F[m]) \in Nat
  OBVIOUS
<1>6. ASSUME NEW m \in 0..L
      PROVE  e(m) = 1 + Len(F[m])
  <2>1. PICK front \in Seq(Seq(Symbol)) : front = SubSeq(pairs, 1, m) /\ Len(front) = m
                                         /\ \A i \in 1..m : front[i] = pairs[i]
    <3>1. PICK sq \in Seq(Seq(Symbol)) : sq = pairs /\ m \in 0..Len(sq)
      BY <1>3
    <3>2. SubSeq(sq, 1, m) \in Seq(Seq(Symbol)) /\ Len(SubSeq(sq, 1, m)) = m
          /\ \A i \in 1..m : SubSeq(sq, 1, m)[i] = sq[i]
      BY <3>1, FrontIs
    <3> QED
      BY <3>1, <3>2
  <2>2. Flattens(F, front)
    <3>1. \A i \in 1..m : i \in 1..Len(pairs)
      BY <1>1, <1>3
    <3> QED
      BY <1>4, <2>1, <3>1 DEF Flattens
  <2>3. FlattenSeq(front) = F[m]
    BY <2>1, <2>2, FlattenSeqIs
  <2> QED
    BY <2>1, <2>3 DEF EndOfPairs, pairs
<1> DEFINE inner == F[L]
           front == <<Open>> \o inner
<1>7. text = front \o <<Close>>
  <2>1. FlattenSeq(pairs) = F[L]
    BY <1>3, <1>4, FlattenSeqIs
  <2> QED
    BY <2>1 DEF Written, pairs
<1>8. inner \in Seq(Symbol) /\ Len(inner) \in Nat
  BY <1>1, <1>5
<1>9. e(L) = 1 + Len(inner)
  BY <1>1, <1>6
<1> HIDE DEF inner
<1>10. front \in Seq(Symbol) /\ Len(front) = 1 + Len(inner)
  BY <1>8, Marks
<1> HIDE DEF front
<1>11. text \in Seq(Symbol)
  BY <1>7, <1>10, Marks
<1>12. OccursAt(text, 0, front \o <<Close>>)
  BY <1>7, <1>11, OccursInItself
<1>13. OccursAt(text, 0, front) /\ OccursAt(text, Len(front), <<Close>>) /\ Len(text) = Len(front) + 1
  <2>1. OccursAt(text, 0, front) /\ OccursAt(text, 0 + Len(front), <<Close>>) /\ Len(front \o <<Close>>) = Len(front) + 1
    BY <1>10, <1>11, <1>12, Marks, OccursCatOne
  <2>2. 0 + Len(front) = Len(front)
    BY <1>10
  <2> QED
    BY <1>7, <2>1, <2>2
<1>14. OccursAt(text, 0, <<Open>>) /\ OccursAt(text, 1, inner)
  <2>1. Len(<<Open>>) = 1 /\ <<Open>> \in Seq(Symbol)
    BY Marks
  <2>2. PICK open \in Seq(Symbol) : open = <<Open>> /\ Len(open) = 1
    BY <2>1
  <2>3. OccursAt(text, 0, open \o inner)
    BY <1>13, <2>2 DEF front
  <2>4. OccursAt(text, 0, open) /\ OccursAt(text, 0 + Len(open), inner)
    BY <1>8, <1>11, <2>2, <2>3, OccursCat
  <2> QED
    BY <2>2, <2>4
<1>15. text[1] # Quote
  <2>1. text[0 + 1] = Open
    BY <1>11, <1>14, Marks, OccursOne
  <2>2. Open # Quote
    BY DEF Open, Quote
  <2> QED
    BY <2>1, <2>2
<1>16. text[Len(text)] = Close
  <2>1. Len(front) \in Nat
    BY <1>10
  <2>2. text[Len(front) + 1] = Close
    BY <1>11, <1>13, <2>1, Marks, OccursOne
  <2> QED
    BY <1>13, <2>2
<1>17. e(L) + 1 = Len(text)
  BY <1>8, <1>9, <1>10, <1>13
<1>18. e(0) = 1
  <2>1. 0 \in 0..L /\ F[0] = <<>>
    BY <1>1, <1>4 DEF Flattens
  <2>2. Len(F[0]) = 0
    BY <2>1
  <2> QED
    BY <1>6, <2>1, <2>2
<1>19. \A m \in 0..L : e(m) \in Nat /\ e(m) >= 1
  BY <1>5, <1>6
<1>20. ASSUME NEW m \in 1..L
       PROVE  /\ OccursAt(text, e(m - 1), pairs[m]) /\ e(m) = e(m - 1) + Len(pairs[m])
  <2>1. PICK sq \in Seq(Seq(Symbol)) : sq = pairs
    BY <1>3
  <2>2. m - 1 \in 0..L /\ m \in 0..L
    BY <1>1
  <2>3. PICK before \in Seq(Symbol), piece \in Seq(Symbol), upto \in Seq(Symbol) :
          before = F[m - 1] /\ piece = sq[m] /\ upto = F[m]
    BY <1>2, <1>5, <2>1, <2>2
  <2>4. OccursAt(text, 1 + Len(before), piece)
    <3>1. PICK whole \in Seq(Symbol) : whole = F[Len(sq)] /\ OccursAt(text, 1, whole)
      BY <1>3, <1>8, <1>14, <2>1 DEF inner
    <3>2. m \in 1..Len(sq) /\ F \in [0..Len(sq) -> Seq(Symbol)] /\ Flattens(F, sq) /\ 1 \in Nat
      BY <1>3, <1>4, <2>1
    <3> QED
      BY <1>11, <2>3, <3>1, <3>2, OccursFlattened
  <2>0. Len(upto) = Len(before) + Len(piece)
    <3>1. upto = before \o piece
      BY <1>3, <1>4, <2>1, <2>3 DEF Flattens
    <3> QED
      BY <3>1
  <2>5. e(m - 1) = 1 + Len(before) /\ e(m) = 1 + Len(upto)
    BY <1>6, <2>2, <2>3
  <2> HIDE DEF e
  <2>6. e(m) = e(m - 1) + Len(piece)
    BY <2>0, <2>5
  <2> QED
    BY <2>1, <2>3, <2>4, <2>5, <2>6
<1>21. ASSUME NEW m \in 1..L
       PROVE  PairAt(text, e(m - 1), object[m].key, object[m].quoted, object[m].value, blanks, m = L, e(m))
  <2>1. PICK key \in Seq(Symbol), value \in Seq(Symbol), quoted \in BOOLEAN :
          key = object[m].key /\ value = object[m].value /\ quoted = object[m].quoted
    BY <1>2
  <2>2. PICK w \in Seq(Symbol) : w = WrittenPair(object[m], blanks) /\ w = WrittenAs(key, quoted, value, blanks)
    BY <1>2, <2>1
  <2>3. PICK last \in BOOLEAN : last <=> m = L
    OBVIOUS
  <2>4. PICK tail \in Seq(Symbol) : /\ last => tail = blanks
                                    /\ ~last => tail = <<Comma>>
                                    /\ pairs[m] = blanks \o w \o tail
    <3>1. T(m) \in Seq(Symbol) /\ (last => T(m) = blanks) /\ (~last => T(m) = <<Comma>>)
      BY <1>1, <2>3, Marks
    <3> HIDE DEF T
    <3> QED
      BY <1>2, <2>2, <3>1
  <2>5. PICK from, to : from \in Nat /\ from = e(m - 1) /\ to = e(m)
    <3>1. m - 1 \in 0..L
      BY <1>1
    <3> QED
      BY <1>19, <3>1
  <2>6. OccursAt(text, from, blanks \o w \o tail) /\ to = from + Len(blanks \o w \o tail)
    <3> HIDE DEF e
    <3> QED
      BY <1>20, <2>4, <2>5
  <2>7. last => OccursAt(text, to, <<Close>>)
    <3>1. SUFFICES ASSUME last PROVE OccursAt(text, to, <<Close>>)
      OBVIOUS
    <3>2. to = Len(front)
      BY <1>9, <1>10, <2>3, <2>5, <3>1
    <3> QED
      BY <1>13, <3>2
  <2>8. PairAt(text, from, key, quoted, value, blanks, last, to)
    <3>1. PairWritten(text, from, key, quoted, value, blanks, last, to)
      BY <2>2, <2>4, <2>6, <2>7 DEF PairWritten
    <3> QED
      BY <1>11, <2>5, <3>1, PairIsAt
  <2>9. last = (m = L)
    BY <2>3
  <2> QED
    BY <2>1, <2>5, <2>8, <2>9
<1>22. ASSUME NEW m \in 0..L
       PROVE  e(m) \in 1..(Len(text) - 1)
  <2>1. e(m) \in Nat /\ e(m) >= 1 /\ Len(text) \in Nat
    BY <1>11, <1>19
  <2>2. CASE m = L
    BY <1>17, <2>1, <2>2
  <2>3. CASE m # L
    <3>1. PICK k \in 1..L : k = m + 1 /\ k - 1 = m
      BY <1>1, <2>3
    <3>2. OccursAt(text, e(m) + Len(blanks), <<Quote>>)
      <4>1. PairAt(text, e(m), object[k].key, object[k].quoted, object[k].value, blanks, k = L, e(k))
        BY <1>21, <3>1
      <4> HIDE DEF e
      <4> QED
        BY <4>1 DEF PairAt
    <3>3. Len(blanks) \in Nat
      BY Marks
    <3>4. e(m) + Len(blanks) + 1 <= Len(text)
      <4>1. Len(<<Quote>>) = 1
        OBVIOUS
      <4> HIDE DEF e
      <4> QED
        BY <3>2, <4>1 DEF OccursAt
    <3> HIDE DEF e
    <3> QED
      BY <2>1, <3>3, <3>4
  <2> QED
    BY <2>2, <2>3
<1> QED
  BY <1>1, <1>11, <1>15, <1>16, <1>17, <1>18, <1>21, <1>22

\* What a flat object has for a key and a value.
FlatWords(key, quoted, value) ==
  /\ key \in Seq(Symbol) /\ value \in Seq(Symbol) /\ quoted \in BOOLEAN
  /\ Quote \notin ToSet(key)
  /\ quoted => Quote \notin ToSet(value)
  /\ ~quoted => /\ value # <<>> /\ value[1] # Blank
                /\ Quote \notin ToSet(value) /\ Comma \notin ToSet(value) /\ Close \notin ToSet(value)

\* Where the key begins and ends, where the value begins, and what ends it.
Places(text, from, key, quoted, value, last, to, k, l, s, q) ==
  /\ from < k /\ k < l /\ l + 1 < s /\ s < q /\ q <= Len(text)
  /\ text[k] = Quote /\ \A j \in 1..Len(text) : from < j /\ j < k => text[j] # Quote
  /\ text[l] = Quote /\ \A j \in 1..Len(text) : k < j /\ j < l => text[j] # Quote
  /\ OccursAt(text, k, key) /\ l = k + Len(key) + 1
  /\ text[l + 1] = Colon
  /\ text[s] # Blank /\ \A j \in 1..Len(text) : l + 1 < j /\ j < s => text[j] = Blank
  /\ quoted => /\ text[s] = Quote /\ text[q] = Quote
               /\ \A j \in 1..Len(text) : s < j /\ j < q => text[j] # Quote
               /\ OccursAt(text, s, value) /\ q = s + Len(value) + 1
  /\ ~quoted => /\ text[s] # Quote /\ text[q] \in {Comma, Close}
                /\ \A j \in 1..Len(text) : s <= j /\ j < q => text[j] \notin {Comma, Close}

\* The rest of a pair: a bare value with the blanks behind it, and what follows.
EndsAt(text, quoted, value, last, to, s, q) ==
  /\ ~quoted => \E v \in Seq(Symbol) : /\ v = value \/ v = Append(value, Blank)
                                      /\ OccursAt(text, s - 1, v) /\ q = s + Len(v)
  /\ ~quoted => q = IF last THEN to + 1 ELSE to
  /\ quoted => IF last THEN q <= to ELSE to = q + 1
  /\ ~last => text[to] = Comma
  /\ last => /\ q <= to + 1 /\ text[to + 1] = Close
             /\ \A j \in 1..Len(text) : q < j /\ j <= to => text[j] = Blank
  /\ to \in Nat /\ to <= Len(text) /\ (last => to + 1 <= Len(text))

LEMMA Different ==
  /\ Quote # Blank /\ Quote # Comma /\ Quote # Close /\ Quote # Colon
  /\ Blank # Comma /\ Blank # Close /\ Blank # Colon /\ Comma # Close
BY DEF Quote, Blank, Comma, Close, Colon

\* Where blanks occur there are blanks.
LEMMA BlanksAt ==
  ASSUME NEW text \in Seq(Symbol), NEW blanks \in Blanked, NEW f \in Nat, OccursAt(text, f, blanks)
  PROVE  \A j \in 1..Len(text) : f < j /\ j <= f + Len(blanks) => text[j] = Blank
<1>1. blanks \in Seq(Symbol) /\ Len(blanks) \in Nat
  BY Marks
<1>2. \A i \in 1..Len(blanks) : blanks[i] = Blank
  BY DEF Blanked
<1>3. ASSUME NEW j \in 1..Len(text), f < j, j <= f + Len(blanks)
      PROVE  text[j] = Blank
  <2>1. PICK i \in 1..Len(blanks) : j = f + i
    <3>1. j - f \in 1..Len(blanks) /\ j = f + (j - f)
      BY <1>1, <1>3
    <3> QED
      BY <3>1
  <2>2. text[j] = blanks[i]
    BY <2>1 DEF OccursAt
  <2> QED
    BY <1>2, <2>2
<1> QED
  BY <1>3

\* What a sequence does not hold is not where it occurs.
LEMMA NoneOf ==
  ASSUME NEW text \in Seq(Symbol), NEW w \in Seq(Symbol), NEW f \in Nat, OccursAt(text, f, w),
         NEW c, c \notin ToSet(w)
  PROVE  \A j \in 1..Len(text) : f < j /\ j <= f + Len(w) => text[j] # c
<1>1. \A j \in 1..Len(text) : j \in Nat
  OBVIOUS
<1> QED
  BY <1>1, OccursWithout

\* A mark that occurs in the text is the next symbol.
LEMMA MarkAt ==
  ASSUME NEW text \in Seq(Symbol), NEW c \in Symbol, NEW f \in Nat, OccursAt(text, f, <<c>>)
  PROVE  f + 1 <= Len(text) /\ text[f + 1] = c
BY OccursOne

LEMMA PairPlaces ==
  ASSUME NEW text \in Seq(Symbol), NEW from \in Nat, NEW key, NEW quoted, NEW value, FlatWords(key, quoted, value),
         NEW blanks \in Blanked, NEW last \in BOOLEAN, NEW to,
         PairAt(text, from, key, quoted, value, blanks, last, to)
  PROVE  \E k, l, s, q \in Nat : /\ Places(text, from, key, quoted, value, last, to, k, l, s, q)
                                 /\ EndsAt(text, quoted, value, last, to, s, q)
<1>1. key \in Seq(Symbol) /\ value \in Seq(Symbol) /\ blanks \in Seq(Symbol)
  BY Marks DEF FlatWords
<1>2. PICK b \in Nat, m \in Nat, v \in Nat : b = Len(blanks) /\ m = Len(key) /\ v = Len(value)
  BY <1>1
<1>3. PICK k \in Nat, l \in Nat, s \in Nat : k = from + b + 1 /\ l = k + m + 1 /\ s = l + 1 + b + 1
  OBVIOUS
<1>4. /\ OccursAt(text, from, blanks)
      /\ OccursAt(text, k - 1, <<Quote>>) /\ OccursAt(text, k, key) /\ OccursAt(text, l - 1, <<Quote>>)
      /\ OccursAt(text, l, <<Colon>>) /\ OccursAt(text, l + 1, blanks)
      /\ quoted => /\ OccursAt(text, s - 1, <<Quote>>) /\ OccursAt(text, s, value)
                   /\ OccursAt(text, s + v, <<Quote>>)
      /\ ~quoted => OccursAt(text, s - 1, value)
  <2>1. /\ k - 1 = from + b /\ k = from + b + 1 /\ l - 1 = from + b + 1 + m /\ l = from + b + 2 + m
        /\ l + 1 = from + b + 3 + m /\ s - 1 = from + b + m + 3 + b /\ s = from + b + m + 3 + b + 1
        /\ s + v = from + b + m + 3 + b + 1 + v
    BY <1>3
  <2>2. /\ OccursAt(text, from, blanks)
        /\ OccursAt(text, from + b, <<Quote>>) /\ OccursAt(text, from + b + 1, key)
        /\ OccursAt(text, from + b + 1 + m, <<Quote>>)
        /\ OccursAt(text, from + b + 2 + m, <<Colon>>) /\ OccursAt(text, from + b + 3 + m, blanks)
        /\ quoted => /\ OccursAt(text, from + b + m + 3 + b, <<Quote>>)
                     /\ OccursAt(text, from + b + m + 3 + b + 1, value)
                     /\ OccursAt(text, from + b + m + 3 + b + 1 + v, <<Quote>>)
        /\ ~quoted => OccursAt(text, from + b + m + 3 + b, value)
    BY <1>2 DEF PairAt
  <2> QED
    BY <2>1, <2>2
<1>5. PICK e \in Nat : /\ quoted => e = s + v + 1
                       /\ ~quoted => e = s - 1 + v
  <2>1. s + v + 1 \in Nat /\ s - 1 + v \in Nat
    BY <1>3
  <2> QED
    BY <2>1, Zenon
<1>6. /\ last => OccursAt(text, e, blanks) /\ OccursAt(text, e + b, <<Close>>) /\ to = e + b
      /\ ~last => OccursAt(text, e, <<Comma>>) /\ to = e + 1
  <2>1. CASE quoted
    <3>1. e = from + b + m + 3 + b + v + 2
      BY <1>3, <1>5, <2>1
    <3>2. LET end == from + b + m + 3 + b + v + 2
          IN  /\ last => OccursAt(text, end, blanks) /\ OccursAt(text, end + b, <<Close>>) /\ to = end + b
              /\ ~last => OccursAt(text, end, <<Comma>>) /\ to = end + 1
      BY <1>2, <2>1 DEF PairAt
    <3> QED
      BY <3>1, <3>2
  <2>2. CASE ~quoted
    <3>1. e = from + b + m + 3 + b + v
      BY <1>3, <1>5, <2>2
    <3>2. LET end == from + b + m + 3 + b + v
          IN  /\ last => OccursAt(text, end, blanks) /\ OccursAt(text, end + b, <<Close>>) /\ to = end + b
              /\ ~last => OccursAt(text, end, <<Comma>>) /\ to = end + 1
      BY <1>2, <2>2 DEF PairAt
    <3> QED
      BY <3>1, <3>2
  <2> QED
    BY <2>1, <2>2
<1>7. text[k] = Quote /\ text[l] = Quote /\ text[l + 1] = Colon /\ (quoted => text[s] = Quote)
  <2>1. k - 1 \in Nat /\ l - 1 \in Nat /\ s - 1 \in Nat /\ k - 1 + 1 = k /\ l - 1 + 1 = l /\ s - 1 + 1 = s
    BY <1>3
  <2>2. text[k - 1 + 1] = Quote /\ text[l - 1 + 1] = Quote /\ text[l + 1] = Colon
    BY <1>4, <2>1, Marks, MarkAt
  <2>3. quoted => text[s - 1 + 1] = Quote
    BY <1>4, <2>1, Marks, MarkAt
  <2> QED
    BY <2>1, <2>2, <2>3
<1>8. \A j \in 1..Len(text) : from < j /\ j < k => text[j] # Quote
  <2>1. \A j \in 1..Len(text) : from < j /\ j <= from + b => text[j] = Blank
    BY <1>2, <1>4, BlanksAt
  <2> QED
    BY <1>3, <2>1, Different
<1>9. \A j \in 1..Len(text) : k < j /\ j < l => text[j] # Quote
  <2>1. \A j \in 1..Len(text) : k < j /\ j <= k + m => text[j] # Quote
    BY <1>1, <1>2, <1>4, NoneOf DEF FlatWords
  <2> QED
    BY <1>3, <2>1
<1>10. \A j \in 1..Len(text) : l + 1 < j /\ j < s => text[j] = Blank
  <2>1. \A j \in 1..Len(text) : l + 1 < j /\ j <= l + 1 + b => text[j] = Blank
    BY <1>2, <1>4, BlanksAt
  <2> QED
    BY <1>3, <2>1
<1>11. /\ ~last => e + 1 <= Len(text) /\ text[e + 1] = Comma
       /\ last => /\ e + b + 1 <= Len(text) /\ text[e + b + 1] = Close
                  /\ \A j \in 1..Len(text) : e < j /\ j <= e + b => text[j] = Blank
  <2>1. CASE last
    <3>1. e + b + 1 <= Len(text) /\ text[e + b + 1] = Close
      BY <1>6, <2>1, Marks, MarkAt
    <3>2. \A j \in 1..Len(text) : e < j /\ j <= e + b => text[j] = Blank
      BY <1>2, <1>6, <2>1, BlanksAt
    <3> QED
      BY <2>1, <3>1, <3>2
  <2>2. CASE ~last
    BY <1>6, <2>2, Marks, MarkAt
  <2> QED
    BY <2>1, <2>2
<1>12. Len(text) \in Nat /\ from < k /\ k < l /\ l + 1 < s
  BY <1>3
<1>13. CASE quoted
  <2>1. text[e] = Quote /\ e <= Len(text)
    <3>1. s + v \in Nat /\ e = s + v + 1
      BY <1>5, <1>13
    <3> QED
      BY <1>4, <1>13, <3>1, Marks, MarkAt
  <2>2. \A j \in 1..Len(text) : s < j /\ j < e => text[j] # Quote
    <3>1. \A j \in 1..Len(text) : s < j /\ j <= s + v => text[j] # Quote
      BY <1>1, <1>2, <1>4, <1>13, NoneOf DEF FlatWords
    <3> QED
      BY <1>5, <1>13, <3>1
  <2>3. text[s] # Blank /\ s < e
    BY <1>5, <1>7, <1>13, Different
  <2>4. Places(text, from, key, quoted, value, last, to, k, l, s, e)
    BY <1>2, <1>3, <1>4, <1>5, <1>7, <1>8, <1>9, <1>10, <1>12, <1>13, <2>1, <2>2, <2>3 DEF Places
  <2>5. EndsAt(text, quoted, value, last, to, s, e)
    BY <1>6, <1>11, <1>12, <1>13 DEF EndsAt
  <2> QED
    BY <2>4, <2>5
<1>14. CASE ~quoted
  <2>1. PICK q \in Nat : q = IF last THEN e + b + 1 ELSE e + 1
    OBVIOUS
  <2>2. v > 0 /\ text[s] = value[1] /\ value[1] \in ToSet(value)
    <3>1. v > 0
      <4>1. value # <<>>
        BY <1>14 DEF FlatWords
      <4> QED
        BY <1>1, <1>2, <4>1
    <3>2. 1 \in 1..Len(value) /\ s - 1 + 1 = s
      BY <1>2, <1>3, <3>1
    <3>3. text[s - 1 + 1] = value[1]
      BY <1>4, <1>14, <3>2 DEF OccursAt
    <3> QED
      BY <3>1, <3>2, <3>3 DEF ToSet
  <2>3. text[s] # Blank /\ text[s] # Quote
    BY <1>14, <2>2 DEF FlatWords
  <2>4. text[q] \in {Comma, Close} /\ q <= Len(text) /\ s < q
    <3>1. CASE last
      BY <1>5, <1>11, <1>14, <2>1, <2>2, <3>1
    <3>2. CASE ~last
      BY <1>5, <1>11, <1>14, <2>1, <2>2, <3>2
    <3> QED
      BY <3>1, <3>2
  <2>5. ASSUME NEW j \in 1..Len(text), s <= j, j < q
        PROVE  text[j] \notin {Comma, Close}
    <3>1. CASE j <= e
      <4>1. \A i \in 1..Len(text) : s - 1 < i /\ i <= s - 1 + v => text[i] # Comma /\ text[i] # Close
        <5>1. s - 1 \in Nat /\ Comma \notin ToSet(value) /\ Close \notin ToSet(value)
          BY <1>3, <1>14 DEF FlatWords
        <5>2. /\ \A i \in 1..Len(text) : s - 1 < i /\ i <= s - 1 + v => text[i] # Comma
              /\ \A i \in 1..Len(text) : s - 1 < i /\ i <= s - 1 + v => text[i] # Close
          BY <1>1, <1>2, <1>4, <1>14, <5>1, NoneOf
        <5> QED
          BY <5>2
      <4>2. s - 1 < j /\ j <= s - 1 + v
        BY <1>5, <1>14, <2>5, <3>1
      <4> QED
        BY <4>1, <4>2
    <3>2. CASE j > e
      <4>1. last /\ j <= e + b
        BY <2>1, <2>5, <3>2
      <4>2. text[j] = Blank
        BY <1>11, <3>2, <4>1
      <4> QED
        BY <4>2, Different
    <3> QED
      BY <3>1, <3>2
  <2>6. Places(text, from, key, quoted, value, last, to, k, l, s, q)
    BY <1>2, <1>3, <1>4, <1>7, <1>8, <1>9, <1>10, <1>12, <1>14, <2>3, <2>4, <2>5 DEF Places
  <2>7. \E w \in Seq(Symbol) : /\ w = value \/ w = Append(value, Blank)
                              /\ OccursAt(text, s - 1, w) /\ q = s + Len(w)
    <3>1. CASE last /\ b = 1
      <4>1. blanks = <<Blank>>
        <5>1. Len(<<>>) = 0 /\ Len(blanks) = 1
          BY <1>2, <3>1
        <5> QED
          BY <5>1 DEF Blanked
      <4>2. s - 1 + v = e /\ s - 1 \in Nat
        BY <1>3, <1>5, <1>14
      <4>3. OccursAt(text, s - 1, value \o blanks) /\ Len(value \o blanks) = v + b
        <5>1. PICK f \in Nat : f = s - 1
          BY <4>2
        <5>2. OccursAt(text, f, value) /\ OccursAt(text, f + Len(value), blanks)
          BY <1>2, <1>4, <1>6, <1>14, <3>1, <4>2, <5>1
        <5>3. OccursAt(text, f, value \o blanks) /\ Len(value \o blanks) = Len(value) + Len(blanks)
          BY <1>1, <5>2, CatOccurs
        <5> QED
          BY <1>2, <5>1, <5>3
      <4>4. Append(value, Blank) = value \o blanks /\ Append(value, Blank) \in Seq(Symbol)
        BY <1>1, <4>1, Marks
      <4>5. PICK w \in Seq(Symbol) : w = Append(value, Blank) /\ w = value \o blanks
        BY <4>4
      <4>6. OccursAt(text, s - 1, w) /\ Len(w) = v + b
        BY <4>3, <4>5
      <4>7. q = s + Len(w)
        <5>1. q = s + v + b
          BY <2>1, <3>1, <4>2
        <5> QED
          BY <4>6, <5>1
      <4> QED
        BY <4>5, <4>6, <4>7
    <3>2. CASE ~(last /\ b = 1)
      <4>1. b = 0 \/ b = 1
        BY <1>2 DEF Blanked
      <4>2. q = e + 1
        BY <2>1, <3>2, <4>1
      <4>3. q = s + v
        BY <1>3, <1>5, <1>14, <4>2
      <4>4. value \in Seq(Symbol) /\ OccursAt(text, s - 1, value) /\ q = s + Len(value)
        BY <1>1, <1>2, <1>4, <1>14, <4>3
      <4> QED
        BY <4>4
    <3> QED
      BY <3>1, <3>2
  <2>8. EndsAt(text, quoted, value, last, to, s, q)
    <3>1. \A j \in 1..Len(text) : last => ~(q < j /\ j <= to)
      BY <1>6, <2>1
    <3>2. q = IF last THEN to + 1 ELSE to
      BY <1>6, <2>1
    <3>3. ~last => text[to] = Comma
      BY <1>6, <1>11
    <3>4. last => q <= to + 1 /\ text[to + 1] = Close
      BY <1>6, <1>11, <2>1
    <3>5. to \in Nat /\ to <= Len(text) /\ (last => to + 1 <= Len(text))
      <4>1. CASE last
        BY <1>6, <1>11, <1>12, <4>1
      <4>2. CASE ~last
        BY <1>6, <1>11, <1>12, <4>2
      <4> QED
        BY <4>1, <4>2
    <3> QED
      BY <1>14, <2>7, <3>1, <3>2, <3>3, <3>4, <3>5 DEF EndsAt
  <2> QED
    BY <2>6, <2>8
<1> QED
  BY <1>13, <1>14 DEF FlatWords

-----------------------------------------------------------------------------
(* One round of the scan *)

\* A search behind the end of the last one: it ends where it ends in the text.
LEMMA FindNext ==
  ASSUME NEW text \in Seq(Symbol), NEW n, CutAt(text, n), NEW symbols, Blank \notin symbols,
         NEW prev \in Nat \ {0}, NEW i \in 1..Len(text), prev < i, text[i] \in symbols,
         \A j \in 1..Len(text) : prev < j /\ j < i => text[j] \notin symbols
  PROVE  Find(symbols, Reach(n, prev) + 1) = Reach(n, i)
<1>1. json \in Seq(Symbol) /\ Len(json) \in Nat /\ n \in Nat /\ None = Len(json) + 1
  BY DEF CutAt, None
<1>2. CASE prev <= n
  <2>1. prev + 1 \in Nat \ {0} /\ prev + 1 <= i /\ Reach(n, prev) = prev
    BY <1>2 DEF Reach
  <2>2. \A j \in 1..Len(text) : prev + 1 <= j /\ j < i => text[j] \notin symbols
    OBVIOUS
  <2> QED
    BY <2>1, <2>2, CutFind
<1>3. CASE prev > n
  <2>1. Reach(n, prev) = None /\ Reach(n, i) = None
    BY <1>1, <1>3 DEF Reach
  <2>2. None + 1 \in Nat /\ None + 1 >= None
    BY <1>1
  <2>3. Find(symbols, None + 1) = None
    BY <1>1, <2>2, FindPast
  <2> QED
    BY <2>1, <2>3
<1> QED
  BY <1>1, <1>2, <1>3

\* A search from where the last one ended.
LEMMA FindFrom ==
  ASSUME NEW text \in Seq(Symbol), NEW n, CutAt(text, n), NEW symbols, Blank \notin symbols,
         NEW prev \in Nat \ {0}, NEW i \in 1..Len(text), prev < i, text[i] \in symbols,
         \A j \in 1..Len(text) : prev <= j /\ j < i => text[j] \notin symbols
  PROVE  Find(symbols, Reach(n, prev)) = Reach(n, i)
<1>1. json \in Seq(Symbol) /\ Len(json) \in Nat /\ n \in Nat /\ None = Len(json) + 1
  BY DEF CutAt, None
<1>2. CASE prev <= n
  <2>1. prev <= i /\ Reach(n, prev) = prev
    BY <1>2 DEF Reach
  <2> QED
    BY <2>1, CutFind
<1>3. CASE prev > n
  <2>1. Reach(n, prev) = None /\ Reach(n, i) = None
    BY <1>1, <1>3 DEF Reach
  <2>2. None \in Nat /\ None >= None
    BY <1>1
  <2>3. Find(symbols, None) = None
    BY <1>1, <2>2, FindPast
  <2> QED
    BY <2>1, <2>3
<1> QED
  BY <1>1, <1>2, <1>3

LEMMA FindNotNext ==
  ASSUME NEW text \in Seq(Symbol), NEW n, CutAt(text, n),
         NEW prev \in Nat \ {0}, NEW i \in 1..Len(text), prev < i, text[i] # Blank,
         \A j \in 1..Len(text) : prev < j /\ j < i => text[j] = Blank
  PROVE  FindNot({Blank}, Reach(n, prev) + 1) = Reach(n, i)
<1>1. json \in Seq(Symbol) /\ Len(json) \in Nat /\ n \in Nat /\ None = Len(json) + 1
  BY DEF CutAt, None
<1>2. CASE prev <= n
  <2>1. prev + 1 \in Nat \ {0} /\ prev + 1 <= i /\ Reach(n, prev) = prev
    BY <1>2 DEF Reach
  <2>2. \A j \in 1..Len(text) : prev + 1 <= j /\ j < i => text[j] = Blank
    OBVIOUS
  <2> QED
    BY <2>1, <2>2, CutFindNot
<1>3. CASE prev > n
  <2>1. Reach(n, prev) = None /\ Reach(n, i) = None
    BY <1>1, <1>3 DEF Reach
  <2>2. None + 1 \in Nat /\ None + 1 >= None
    BY <1>1
  <2>3. FindNot({Blank}, None + 1) = None
    BY <1>1, <2>2, FindPast
  <2> QED
    BY <2>1, <2>3
<1> QED
  BY <1>1, <1>2, <1>3

\* The searches of a round end at the places of the pair, as far as the cut is
\* behind them.
LEMMA SearchesReach ==
  ASSUME NEW text \in Seq(Symbol), NEW n, CutAt(text, n), NEW from \in Nat,
         NEW key, NEW quoted \in BOOLEAN, NEW value, NEW last, NEW to,
         NEW k \in Nat, NEW l \in Nat, NEW s \in Nat, NEW q \in Nat,
         Places(text, from, key, quoted, value, last, to, k, l, s, q),
         pos \in 1..(from + 1), \A i \in pos..from : text[i] # Quote
  PROVE  /\ KeyStart = Reach(n, k) /\ KeyEnd = Reach(n, l)
         /\ ValueStart = Reach(n, s) /\ ValueEnd = Reach(n, q)
         /\ s <= n => (IsString <=> quoted)
<1>1. /\ from < k /\ k < l /\ l + 1 < s /\ s < q /\ q <= Len(text)
      /\ text[k] = Quote /\ text[l] = Quote /\ text[l + 1] = Colon /\ text[s] # Blank
  BY DEF Places
<1>2. /\ k \in 1..Len(text) /\ l \in 1..Len(text) /\ l + 1 \in 1..Len(text) /\ s \in 1..Len(text)
      /\ q \in 1..Len(text)
  BY <1>1
<1>3. KeyStart = Reach(n, k)
  <2>1. \A j \in 1..Len(text) : pos <= j /\ j < k => text[j] \notin {Quote}
    <3>1. \A j \in 1..Len(text) : from < j /\ j < k => text[j] # Quote
      BY DEF Places
    <3>2. \A j \in 1..Len(text) : j <= from \/ from < j
      OBVIOUS
    <3> QED
      BY <3>1, <3>2
  <2>2. pos \in Nat \ {0} /\ pos <= k /\ Blank \notin {Quote} /\ text[k] \in {Quote}
    BY <1>1, Different
  <2>3. PICK symbols : symbols = {Quote}
    OBVIOUS
  <2>4. /\ Blank \notin symbols /\ text[k] \in symbols /\ KeyStart = Find(symbols, pos)
        /\ \A j \in 1..Len(text) : pos <= j /\ j < k => text[j] \notin symbols
    BY <2>1, <2>2, <2>3 DEF KeyStart
  <2> QED
    BY <1>2, <2>2, <2>4, CutFind
<1>4. KeyEnd = Reach(n, l)
  <2>1. \A j \in 1..Len(text) : k < j /\ j < l => text[j] \notin {Quote}
    BY DEF Places
  <2>2. k \in Nat \ {0} /\ Blank \notin {Quote} /\ text[l] \in {Quote}
    BY <1>1, Different
  <2>3. PICK symbols : symbols = {Quote}
    OBVIOUS
  <2>4. /\ Blank \notin symbols /\ text[l] \in symbols /\ KeyEnd = Find(symbols, Reach(n, k) + 1)
        /\ \A j \in 1..Len(text) : k < j /\ j < l => text[j] \notin symbols
    BY <1>3, <2>1, <2>2, <2>3 DEF KeyEnd
  <2> QED
    BY <1>1, <1>2, <2>2, <2>4, FindNext
<1>5. Find({Colon}, KeyEnd + 1) = Reach(n, l + 1)
  <2>1. \A j \in 1..Len(text) : l < j /\ j < l + 1 => text[j] \notin {Colon}
    OBVIOUS
  <2>2. l \in Nat \ {0} /\ l < l + 1 /\ Blank \notin {Colon} /\ text[l + 1] \in {Colon}
    BY <1>1, <1>2, Different
  <2>3. PICK symbols : symbols = {Colon}
    OBVIOUS
  <2>4. /\ Blank \notin symbols /\ text[l + 1] \in symbols /\ Find({Colon}, KeyEnd + 1) = Find(symbols, Reach(n, l) + 1)
        /\ \A j \in 1..Len(text) : l < j /\ j < l + 1 => text[j] \notin symbols
    BY <1>4, <2>1, <2>2, <2>3
  <2>5. PICK i \in 1..Len(text) : i = l + 1
    BY <1>2
  <2> QED
    BY <2>2, <2>4, <2>5, FindNext
<1>6. ValueStart = Reach(n, s)
  <2>1. \A j \in 1..Len(text) : l + 1 < j /\ j < s => text[j] = Blank
    BY DEF Places
  <2>2. l + 1 \in Nat \ {0}
    OBVIOUS
  <2>3. PICK prev \in Nat \ {0} : prev = l + 1
    BY <2>2
  <2>4. FindNot({Blank}, Reach(n, prev) + 1) = Reach(n, s)
    BY <1>1, <1>2, <2>1, <2>3, FindNotNext
  <2> QED
    BY <1>5, <2>3, <2>4 DEF ValueStart
<1>7. n \in Nat /\ None = Len(json) + 1 /\ Len(json) \in Nat /\ (\A i \in 1..n : json[i] = text[i])
      /\ n <= Len(json)
  BY DEF CutAt, None
<1>8. ASSUME s <= n PROVE IsString <=> quoted
  <2>1. ValueStart = s /\ s # None /\ json[s] = text[s]
    BY <1>1, <1>6, <1>7, <1>8 DEF Reach
  <2>2. IsString <=> text[s] = Quote
    BY <2>1 DEF IsString
  <2>3. quoted <=> text[s] = Quote
    BY DEF Places
  <2> QED
    BY <2>2, <2>3
<1>9. ValueEnd = Reach(n, q)
  <2>1. CASE s > n
    <3>1. ValueStart = None /\ Reach(n, q) = None
      BY <1>1, <1>6, <1>7, <2>1 DEF Reach
    <3>2. ~IsString
      BY <3>1 DEF IsString
    <3>3. ValueEnd = Find({Comma, Close}, None)
      BY <3>1, <3>2 DEF ValueEnd, EndOfBare
    <3>4. json \in Seq(Symbol) /\ None \in Nat /\ None >= None
      BY <1>7 DEF CutAt
    <3>5. Find({Comma, Close}, None) = None
      BY <3>4, FindPast
    <3> QED
      BY <3>1, <3>3, <3>5
  <2>2. CASE s <= n /\ quoted
    <3>1. ValueEnd = Find({Quote}, ValueStart + 1)
      BY <1>8, <2>2 DEF ValueEnd
    <3>2. \A j \in 1..Len(text) : s < j /\ j < q => text[j] \notin {Quote}
      BY <2>2 DEF Places
    <3>3. s \in Nat \ {0} /\ Blank \notin {Quote} /\ text[q] \in {Quote}
      BY <1>1, <2>2, Different DEF Places
    <3>4. PICK symbols : symbols = {Quote}
      OBVIOUS
    <3>5. /\ Blank \notin symbols /\ text[q] \in symbols /\ ValueEnd = Find(symbols, Reach(n, s) + 1)
          /\ \A j \in 1..Len(text) : s < j /\ j < q => text[j] \notin symbols
      BY <1>6, <3>1, <3>2, <3>3, <3>4
    <3> QED
      BY <1>1, <1>2, <3>3, <3>5, FindNext
  <2>3. CASE s <= n /\ ~quoted
    <3>1. ValueEnd = Find({Comma, Close}, ValueStart)
      BY <1>8, <2>3 DEF ValueEnd, EndOfBare
    <3>2. \A j \in 1..Len(text) : s <= j /\ j < q => text[j] \notin {Comma, Close}
      BY <2>3 DEF Places
    <3>3. s \in Nat \ {0} /\ Blank \notin {Comma, Close} /\ text[q] \in {Comma, Close}
      BY <1>1, <2>3, Different DEF Places
    <3>4. PICK symbols : symbols = {Comma, Close}
      OBVIOUS
    <3>5. /\ Blank \notin symbols /\ text[q] \in symbols /\ ValueEnd = Find(symbols, Reach(n, s))
          /\ \A j \in 1..Len(text) : s <= j /\ j < q => text[j] \notin symbols
      BY <1>6, <3>1, <3>2, <3>3, <3>4
    <3> QED
      BY <1>1, <1>2, <3>3, <3>5, FindFrom
  <2> QED
    BY <1>7, <2>1, <2>2, <2>3
<1> QED
  BY <1>3, <1>4, <1>6, <1>8, <1>9

\* What occurs in front of the cut occurs in json.
LEMMA CutOccurs ==
  ASSUME NEW text \in Seq(Symbol), NEW n, CutAt(text, n), NEW w \in Seq(Symbol), NEW f \in Nat,
         OccursAt(text, f, w), f + Len(w) <= n
  PROVE  OccursAt(json, f, w) /\ SubSeq(json, f + 1, f + Len(w)) = w
<1>1. json \in Seq(Symbol) /\ n \in Nat /\ n <= Len(json) /\ (\A i \in 1..n : json[i] = text[i])
  BY DEF CutAt
<1>2. ASSUME NEW j \in 1..Len(w)
      PROVE  json[f + j] = w[j]
  <2>1. f + j \in 1..n
    BY <1>1
  <2>2. text[f + j] = w[j]
    BY DEF OccursAt
  <2> QED
    BY <1>1, <2>1, <2>2
<1>3. f + Len(w) <= Len(json)
  BY <1>1
<1>4. OccursAt(json, f, w)
  BY <1>2, <1>3 DEF OccursAt
<1> QED
  BY <1>1, <1>4, SubSeqOfOccurrence

\* A round that finds the end of a value has read the pair, and ends where no
\* string begins before the next one; another one has come to the cut.
LEMMA PairRead ==
  ASSUME NEW text \in Seq(Symbol), NEW n, CutAt(text, n), NEW from \in Nat,
         NEW key, NEW quoted, NEW value, FlatWords(key, quoted, value),
         NEW blanks \in Blanked, NEW last \in BOOLEAN, NEW to,
         PairAt(text, from, key, quoted, value, blanks, last, to),
         pos \in 1..(from + 1), \A i \in pos..from : text[i] # Quote
  PROVE  /\ ValueEnd = None => n < Len(text)
         /\ ValueEnd # None =>
              /\ Between(KeyStart, KeyEnd) = key
              /\ quoted => Between(IF IsString THEN ValueStart ELSE ValueStart - 1, ValueEnd) = value
              /\ ~quoted => Between(IF IsString THEN ValueStart ELSE ValueStart - 1, ValueEnd)
                              \in {value, Append(value, Blank)}
              /\ LET next == IF AfterValue < None /\ json[AfterValue] = Comma THEN AfterValue + 1 ELSE AfterValue
                 IN  next \in 1..(to + 1) /\ \A i \in next..to : text[i] # Quote
<1>1. PICK k \in Nat, l \in Nat, s \in Nat, q \in Nat :
        /\ Places(text, from, key, quoted, value, last, to, k, l, s, q)
        /\ EndsAt(text, quoted, value, last, to, s, q)
  BY PairPlaces
<1>2. quoted \in BOOLEAN /\ key \in Seq(Symbol) /\ value \in Seq(Symbol)
  BY DEF FlatWords
<1>3. /\ KeyStart = Reach(n, k) /\ KeyEnd = Reach(n, l)
      /\ ValueStart = Reach(n, s) /\ ValueEnd = Reach(n, q)
      /\ s <= n => (IsString <=> quoted)
  BY <1>1, <1>2, SearchesReach
<1>4. /\ from < k /\ k < l /\ l + 1 < s /\ s < q /\ q <= Len(text) /\ Len(text) \in Nat
  BY <1>1 DEF Places
<1>5. /\ json \in Seq(Symbol) /\ n \in Nat /\ Len(json) \in Nat /\ None = Len(json) + 1
      /\ (\A i \in 1..n : json[i] = text[i])
      /\ (n > 0 => Len(json) = n + 1 /\ json[n + 1] = Blank) /\ n <= Len(json)
  BY DEF CutAt, None
<1>6. CASE q > n
  <2>1. ValueEnd = None
    BY <1>3, <1>5, <1>6 DEF Reach
  <2> QED
    BY <1>4, <1>5, <1>6, <2>1
<1>7. CASE q <= n
  <2>1. /\ KeyStart = k /\ KeyEnd = l /\ ValueStart = s /\ ValueEnd = q
        /\ (IsString <=> quoted) /\ ValueEnd # None
    BY <1>3, <1>4, <1>5, <1>7 DEF Reach
  <2>2. Between(KeyStart, KeyEnd) = key
    <3>1. OccursAt(text, k, key) /\ l = k + Len(key) + 1 /\ Len(key) \in Nat
      BY <1>1, <1>2 DEF Places
    <3>2. l - 1 = k + Len(key) /\ k + Len(key) <= n
      BY <1>4, <1>5, <1>7, <3>1
    <3>3. SubSeq(json, k + 1, k + Len(key)) = key
      BY <1>2, <3>1, <3>2, CutOccurs
    <3> QED
      BY <2>1, <3>2, <3>3 DEF Between
  <2>3. ASSUME quoted PROVE Between(IF IsString THEN ValueStart ELSE ValueStart - 1, ValueEnd) = value
    <3>1. OccursAt(text, s, value) /\ q = s + Len(value) + 1 /\ Len(value) \in Nat
      BY <1>1, <1>2, <2>3 DEF Places
    <3>2. q - 1 = s + Len(value) /\ s + Len(value) <= n
      BY <1>5, <1>7, <3>1
    <3>3. SubSeq(json, s + 1, s + Len(value)) = value
      BY <1>2, <3>1, <3>2, CutOccurs
    <3> QED
      BY <2>1, <2>3, <3>2, <3>3 DEF Between
  <2>4. ASSUME ~quoted
        PROVE  Between(IF IsString THEN ValueStart ELSE ValueStart - 1, ValueEnd) \in {value, Append(value, Blank)}
    <3>1. PICK v \in Seq(Symbol) : /\ v = value \/ v = Append(value, Blank)
                                   /\ OccursAt(text, s - 1, v) /\ q = s + Len(v)
      BY <1>1, <2>4 DEF EndsAt
    <3>2. PICK f \in Nat : f = s - 1
      BY <1>4
    <3>3. Len(v) \in Nat /\ q - 1 = f + Len(v) /\ f + Len(v) <= n /\ f + 1 = s
      BY <1>5, <1>7, <3>1, <3>2
    <3>4. SubSeq(json, f + 1, f + Len(v)) = v
      BY <3>1, <3>2, <3>3, CutOccurs
    <3>5. Between(f, q) = v
      BY <3>3, <3>4 DEF Between
    <3> QED
      BY <2>1, <2>4, <3>1, <3>2, <3>5
  <2> DEFINE a == IF quoted THEN q + 1 ELSE q
             next == IF AfterValue < None /\ json[AfterValue] = Comma THEN AfterValue + 1 ELSE AfterValue
  <2>5. a \in Nat /\ a > 0 /\ AfterValue = a
    <3>1. q + 1 \in Nat /\ q > 0
      BY <1>4
    <3> QED
      BY <1>2, <2>1, <3>1 DEF AfterValue
  <2>6. to \in Nat /\ to <= Len(text)
    BY <1>1 DEF EndsAt
  <2>7. next \in 1..(to + 1) /\ \A i \in next..to : text[i] # Quote
    <3>1. CASE ~last
      <4>1. a = to /\ text[to] = Comma /\ to > 0
        BY <1>1, <1>2, <2>5, <3>1 DEF EndsAt
      <4> HIDE DEF a
      <4>2. next \in {to, to + 1}
        BY <2>5, <4>1
      <4> HIDE DEF next
      <4>3. text[to] # Quote
        BY <4>1, Different
      <4> QED
        BY <2>6, <4>1, <4>2, <4>3
    <3>2. CASE last
      <4>1. /\ q <= to + 1 /\ text[to + 1] = Close /\ to + 1 <= Len(text)
            /\ \A j \in 1..Len(text) : q < j /\ j <= to => text[j] = Blank
        BY <1>1, <3>2 DEF EndsAt
      <4>2. quoted => q <= to
        BY <1>1, <3>2 DEF EndsAt
      <4>3. ~quoted => q = to + 1
        BY <1>1, <3>2 DEF EndsAt
      <4>4. a <= to + 1 /\ \A j \in 1..Len(text) : a <= j /\ j <= to => text[j] = Blank
        <5>1. CASE quoted
          BY <1>4, <2>6, <4>1, <4>2, <5>1
        <5>2. CASE ~quoted
          BY <1>4, <2>6, <4>3, <5>2
        <5> QED
          BY <1>2, <5>1, <5>2
      <4> HIDE DEF a
      <4>5. text[a] # Comma /\ a \in 1..Len(text)
        <5>1. a \in 1..Len(text)
          <6>1. a <= Len(text)
            BY <1>4, <2>5, <2>6, <4>1, <4>4
          <6> QED
            BY <1>4, <2>5, <6>1
        <5>2. a = to + 1 \/ text[a] = Blank
          BY <2>6, <4>4, <5>1
        <5> QED
          BY <4>1, <5>1, <5>2, Different
      <4>6. ASSUME AfterValue < None PROVE json[AfterValue] # Comma
        <5>1. CASE a <= n
          BY <1>5, <2>5, <4>5, <5>1
        <5>2. CASE a > n
          <6>1. n > 0 /\ a = n + 1
            BY <1>4, <1>5, <1>7, <2>5, <4>6, <5>2
          <6> QED
            BY <1>5, <2>5, <6>1, Different
        <5> QED
          BY <1>5, <2>5, <5>1, <5>2
      <4>7. next = a
        BY <2>5, <4>6
      <4> HIDE DEF next
      <4>8. \A i \in a..to : text[i] # Quote
        <5>1. \A i \in a..to : i \in 1..Len(text) /\ a <= i /\ i <= to
          BY <2>5, <2>6
        <5> QED
          BY <4>4, <5>1, Different
      <4> QED
        BY <2>5, <2>6, <4>4, <4>7, <4>8
    <3> QED
      BY <3>1, <3>2
  <2> QED
    BY <1>7, <2>1, <2>2, <2>3, <2>4, <2>7
<1> QED
  BY <1>4, <1>5, <1>6, <1>7

\* A scan in front of which no string begins ends at once.
LEMMA NothingLeft ==
  ASSUME NEW text \in Seq(Symbol), NEW n, CutAt(text, n), pos \in Nat \ {0},
         \A i \in 1..Len(text) : pos <= i => text[i] # Quote
  PROVE  ValueEnd = None
<1>1. json \in Seq(Symbol) /\ Len(json) \in Nat /\ n \in Nat /\ n <= Len(text) /\ None = Len(json) + 1
      /\ (Len(json) = IF n = 0 THEN 0 ELSE n + 1) /\ (\A i \in 1..n : json[i] = text[i])
      /\ (n > 0 => json[n + 1] = Blank) /\ Len(text) \in Nat
  BY DEF CutAt, None
<1>2. ASSUME NEW j \in 1..Len(json), pos <= j
      PROVE  json[j] # Quote
  <2>1. CASE j <= n
    BY <1>1, <1>2, <2>1
  <2>2. CASE j > n
    <3>1. n > 0 /\ j = n + 1
      BY <1>1, <2>2
    <3> QED
      BY <1>1, <3>1, Different
  <2> QED
    BY <1>1, <2>1, <2>2
<1>3. KeyStart = None
  <2>1. PICK i \in Nat : i > Len(json) /\ pos <= i
    <3>1. pos + Len(json) + 1 \in Nat /\ pos + Len(json) + 1 > Len(json) /\ pos <= pos + Len(json) + 1
      BY <1>1
    <3> QED
      BY <3>1
  <2>2. PICK symbols : symbols = {Quote}
    OBVIOUS
  <2>3. \A j \in 1..Len(json) : pos <= j /\ j < i => json[j] \notin symbols
    BY <1>2, <2>2
  <2>4. Find(symbols, pos) = None
    BY <1>1, <2>1, <2>3, FindIs
  <2> QED
    BY <2>2, <2>4 DEF KeyStart
<1>4. \A symbols : Find(symbols, None + 1) = None /\ FindNot(symbols, None + 1) = None
                   /\ Find(symbols, None) = None
  <2>1. None + 1 \in Nat /\ None + 1 >= None /\ None \in Nat /\ None >= None
    BY <1>1
  <2> QED
    BY <1>1, <2>1, FindPast
<1>5. KeyEnd = None
  BY <1>3, <1>4 DEF KeyEnd
<1>6. ValueStart = None
  BY <1>4, <1>5 DEF ValueStart
<1> QED
  BY <1>4, <1>6 DEF ValueEnd, IsString, EndOfBare

-----------------------------------------------------------------------------
(* What the map says *)

LEMMA SaysNothing ==
  ASSUME NEW object
  PROVE  Says(object, 0, NoParams)
BY DEF Says, NoParams

\* Reading the next pair says one pair more.
LEMMA SaysNext ==
  ASSUME NEW object, NEW m \in Nat, NEW next \in Nat, next = m + 1, NEW map, Says(object, m, map),
         NEW key, key = object[next].key, NEW value, SameValue(object[next], value), NEW after,
         DOMAIN after = DOMAIN map \cup {key}, after[key] = value,
         \A k \in DOMAIN map : k # key => after[k] = map[k]
  PROVE  Says(object, next, after)
<1>1. DOMAIN map = {object[i].key : i \in 1..m} /\ DOMAIN after = DOMAIN map \cup {key}
  BY DEF Says
<1>2. \A i \in 1..next : i \in 1..m \/ i = next
  OBVIOUS
<1>3. 1..m \subseteq 1..next /\ next \in 1..next
  OBVIOUS
<1>4. DOMAIN after = {object[i].key : i \in 1..next}
  BY <1>1, <1>2, <1>3
<1>5. ASSUME NEW i \in 1..next, \A j \in (i + 1)..next : object[j].key # object[i].key
      PROVE  SameValue(object[i], after[object[i].key])
  <2>1. CASE i = next
    BY <2>1
  <2>2. CASE i # next
    <3>1. i \in 1..m /\ next \in (i + 1)..next
      BY <1>2, <2>2
    <3>2. object[i].key # key /\ object[i].key \in DOMAIN map
      BY <1>1, <1>5, <3>1
    <3>3. after[object[i].key] = map[object[i].key]
      BY <3>2
    <3>4. \A j \in (i + 1)..m : object[j].key # object[i].key
      <4>1. \A j \in (i + 1)..m : j \in (i + 1)..next
        OBVIOUS
      <4> QED
        BY <1>5, <4>1
    <3> QED
      BY <3>1, <3>3, <3>4 DEF Says
  <2> QED
    BY <2>1, <2>2
<1> QED
  BY <1>4, <1>5 DEF Says

-----------------------------------------------------------------------------
(* The scan of an object *)

\* What a round reads of the next pair of an object.
LEMMA NextPair ==
  ASSUME NEW object \in Objects, NEW blanks \in Blanked, NEW text, text = Written(object, blanks),
         NEW n, CutAt(text, n), NEW m \in Nat, NEW next \in 1..Len(object), next = m + 1,
         pos \in 1..(EndOfPairs(object, blanks, m) + 1),
         \A i \in pos..EndOfPairs(object, blanks, m) : text[i] # Quote
  PROVE  /\ ValueEnd = None => n < Len(text)
         /\ ValueEnd # None =>
              /\ Between(KeyStart, KeyEnd) = object[next].key
              /\ SameValue(object[next], Between(IF IsString THEN ValueStart ELSE ValueStart - 1, ValueEnd))
              /\ LET place == IF AfterValue < None /\ json[AfterValue] = Comma THEN AfterValue + 1 ELSE AfterValue
                 IN  /\ place \in 1..(EndOfPairs(object, blanks, next) + 1)
                     /\ \A i \in place..EndOfPairs(object, blanks, next) : text[i] # Quote
<1>1. /\ text \in Seq(Symbol) /\ Len(object) \in Nat
      /\ EndOfPairs(object, blanks, m) \in 1..(Len(text) - 1)
      /\ PairAt(text, EndOfPairs(object, blanks, next - 1), object[next].key, object[next].quoted,
                object[next].value, blanks, next = Len(object), EndOfPairs(object, blanks, next))
  <2>1. m \in 0..Len(object) /\ next - 1 = m
    OBVIOUS
  <2> QED
    BY <2>1, ObjectAt
<1>2. object[next] \in FlatPair
  <2>1. object \in Seq(FlatPair)
    BY RequestAssumption
  <2> QED
    BY <2>1
<1>3. FlatWords(object[next].key, object[next].quoted, object[next].value)
  BY <1>2 DEF FlatWords, FlatPair
<1>0. PICK from \in Nat : from = EndOfPairs(object, blanks, m)
  BY <1>1
<1>a. PICK last \in BOOLEAN : last = (next = Len(object))
  OBVIOUS
<1>4. PICK key, quoted, value, to :
        /\ key = object[next].key /\ quoted = object[next].quoted /\ value = object[next].value
        /\ to = EndOfPairs(object, blanks, next)
  OBVIOUS
<1>5. FlatWords(key, quoted, value) /\ quoted \in BOOLEAN
  BY <1>3, <1>4 DEF FlatWords
<1>6. PairAt(text, from, key, quoted, value, blanks, last, to)
  <2>1. next - 1 = m
    OBVIOUS
  <2> QED
    BY <1>0, <1>1, <1>4, <1>a, <2>1
<1>7. pos \in 1..(from + 1) /\ \A i \in pos..from : text[i] # Quote
  BY <1>0
<1> DEFINE read == Between(IF IsString THEN ValueStart ELSE ValueStart - 1, ValueEnd)
           place == IF AfterValue < None /\ json[AfterValue] = Comma THEN AfterValue + 1 ELSE AfterValue
<1>8. /\ ValueEnd = None => n < Len(text)
      /\ ValueEnd # None =>
           /\ Between(KeyStart, KeyEnd) = key
           /\ quoted => read = value
           /\ ~quoted => read \in {value, Append(value, Blank)}
           /\ place \in 1..(to + 1) /\ \A i \in place..to : text[i] # Quote
  BY <1>1, <1>5, <1>6, <1>7, PairRead
<1> HIDE DEF read, place
<1>9. ASSUME ValueEnd # None PROVE SameValue(object[next], read)
  BY <1>4, <1>5, <1>8, <1>9 DEF SameValue
<1> QED
  BY <1>4, <1>8, <1>9 DEF read, place

\* Behind the last pair there is no string.
LEMMA LastPair ==
  ASSUME NEW object \in Objects, NEW blanks \in Blanked, NEW text, text = Written(object, blanks),
         NEW n, CutAt(text, n), pos \in 1..(EndOfPairs(object, blanks, Len(object)) + 1),
         \A i \in pos..EndOfPairs(object, blanks, Len(object)) : text[i] # Quote
  PROVE  ValueEnd = None
<1>1. /\ text \in Seq(Symbol) /\ EndOfPairs(object, blanks, Len(object)) + 1 = Len(text)
      /\ text[Len(text)] = Close /\ Len(object) \in Nat
      /\ EndOfPairs(object, blanks, Len(object)) \in 1..(Len(text) - 1)
  <2>1. Len(object) \in Nat
    BY ObjectAt
  <2>2. Len(object) \in 0..Len(object)
    BY <2>1
  <2> QED
    BY <2>1, <2>2, ObjectAt
<1>2. PICK e \in Nat : e = EndOfPairs(object, blanks, Len(object))
  BY <1>1
<1>3. \A i \in 1..Len(text) : pos <= i => i \in pos..e \/ i = Len(text)
  BY <1>1, <1>2
<1>4. \A i \in 1..Len(text) : pos <= i => text[i] # Quote
  BY <1>1, <1>2, <1>3, Different
<1> QED
  BY <1>1, <1>4, NothingLeft

\* A round that reads a pair has read one pair more of the object.
LEMMA ScanPair ==
  ASSUME NEW object \in Objects, NEW blanks \in Blanked, NEW text, text = Written(object, blanks),
         NEW n, CutAt(text, n), PairsRead(text, object, blanks), ParsePair
  PROVE  PairsRead(text, object, blanks)'
<1>1. PICK m \in 0..Len(object) :
        /\ Says(object, m, params) /\ pos \in 1..(EndOfPairs(object, blanks, m) + 1)
        /\ \A i \in pos..EndOfPairs(object, blanks, m) : text[i] # Quote
  BY DEF PairsRead
<1>2. Len(object) \in Nat /\ ValueEnd # None
  BY ObjectAt DEF ParsePair
<1>3. m # Len(object)
  BY <1>1, <1>2, LastPair
<1>4. PICK next \in 1..Len(object) : next = m + 1
  BY <1>2, <1>3
<1> DEFINE read == Between(IF IsString THEN ValueStart ELSE ValueStart - 1, ValueEnd)
           place == IF AfterValue < None /\ json[AfterValue] = Comma THEN AfterValue + 1 ELSE AfterValue
<1>5. /\ Between(KeyStart, KeyEnd) = object[next].key /\ SameValue(object[next], read)
      /\ place \in 1..(EndOfPairs(object, blanks, next) + 1)
      /\ \A i \in place..EndOfPairs(object, blanks, next) : text[i] # Quote
  <2>1. m \in Nat
    BY <1>2
  <2> QED
    BY <1>1, <1>2, <1>4, <2>1, NextPair
<1>6. PICK key : key = Between(KeyStart, KeyEnd)
  OBVIOUS
<1>7. params' = [k \in DOMAIN params \cup {key} |-> IF k = key THEN read ELSE params[k]] /\ pos' = place
  BY <1>6 DEF ParsePair
<1> HIDE DEF read, place
<1>8. Says(object, next, params')
  <2>1. m \in Nat /\ next \in Nat /\ key = object[next].key
    BY <1>2, <1>5, <1>6
  <2>2. PICK value, after : value = read /\ after = params'
    OBVIOUS
  <2>3. /\ SameValue(object[next], value) /\ DOMAIN after = DOMAIN params \cup {key} /\ after[key] = value
        /\ \A k \in DOMAIN params : k # key => after[k] = params[k]
    <3>1. after = [k \in DOMAIN params \cup {key} |-> IF k = key THEN value ELSE params[k]]
      BY <1>7, <2>2
    <3> QED
      BY <1>5, <2>2, <3>1
  <2>4. Says(object, next, after)
    BY <1>1, <1>4, <2>1, <2>3, SaysNext
  <2> QED
    BY <2>2, <2>4
<1>9. next \in 0..Len(object)
  BY <1>2
<1> QED
  BY <1>5, <1>7, <1>8, <1>9 DEF PairsRead

\* One that does not has read all pairs there are, or has come to the cut.
LEMMA ScanStops ==
  ASSUME NEW object \in Objects, NEW blanks \in Blanked, NEW text, text = Written(object, blanks),
         NEW n, CutAt(text, n), PairsRead(text, object, blanks), ValueEnd = None
  PROVE  \E m \in 0..Len(object) : Says(object, m, params) /\ (n = Len(text) => m = Len(object))
<1>1. PICK m \in 0..Len(object) :
        /\ Says(object, m, params) /\ pos \in 1..(EndOfPairs(object, blanks, m) + 1)
        /\ \A i \in pos..EndOfPairs(object, blanks, m) : text[i] # Quote
  BY DEF PairsRead
<1>2. Len(object) \in Nat /\ text \in Seq(Symbol)
  BY ObjectAt
<1>3. CASE m = Len(object)
  BY <1>1, <1>3
<1>4. CASE m # Len(object)
  <2>1. PICK next \in 1..Len(object) : next = m + 1 /\ m \in Nat
    BY <1>2, <1>4
  <2>2. n < Len(text)
    BY <1>1, <2>1, NextPair
  <2>3. n \in Nat /\ Len(text) \in Nat
    BY <1>2 DEF CutAt
  <2> QED
    BY <1>1, <2>2, <2>3
<1> QED
  BY <1>3, <1>4

-----------------------------------------------------------------------------
(* Types *)

LEMMA FindRange ==
  ASSUME NEW symbols, NEW from \in Nat \ {0}, json \in Seq(Symbol)
  PROVE  Find(symbols, from) \in 1..None /\ FindNot(symbols, from) \in 1..None
<1>1. Len(json) \in Nat /\ None = Len(json) + 1
  BY DEF None
<1>2. ASSUME NEW here, here \subseteq from..Len(json)
      PROVE  Min(here \cup {None}) \in 1..None
  <2> DEFINE R == here \cup {None}
  <2>1. R \in SUBSET Nat /\ R # {} /\ R \subseteq 1..None
    <3>1. \A i \in here : i \in 1..None
      <4>1. \A i \in here : i \in from..Len(json)
        BY <1>2
      <4> QED
        BY <1>1, <4>1
    <3>2. None \in 1..None /\ 1..None \subseteq Nat
      BY <1>1
    <3> QED
      BY <3>1, <3>2
  <2> HIDE DEF R
  <2>2. Min(R) \in R
    BY <2>1, MinIndex
  <2>3. Min(R) \in 1..None
    BY <2>1, <2>2
  <2> QED
    BY <2>3 DEF R
<1>3. /\ {i \in from..Len(json) : json[i] \in symbols} \subseteq from..Len(json)
      /\ {i \in from..Len(json) : json[i] \notin symbols} \subseteq from..Len(json)
  OBVIOUS
<1> QED
  BY <1>2, <1>3 DEF Find, FindNot

\* All places of a round are in the body or behind its end.
LEMMA PlacesRange ==
  ASSUME json \in Seq(Symbol), pos \in Nat \ {0}
  PROVE  ValueEnd \in 1..None /\ None = Len(json) + 1 /\ Len(json) \in Nat
<1>1. None \in Nat /\ None = Len(json) + 1 /\ Len(json) \in Nat
  BY DEF None
<1>2. KeyStart \in 1..None
  BY FindRange DEF KeyStart
<1>3. KeyEnd \in 1..None
  <2>1. KeyStart + 1 \in Nat \ {0}
    BY <1>1, <1>2
  <2> QED
    BY <2>1, FindRange DEF KeyEnd
<1>4. Find({Colon}, KeyEnd + 1) \in 1..None
  <2>1. KeyEnd + 1 \in Nat \ {0}
    BY <1>1, <1>3
  <2> QED
    BY <2>1, FindRange
<1>5. ValueStart \in 1..None
  <2>1. Find({Colon}, KeyEnd + 1) + 1 \in Nat \ {0}
    BY <1>1, <1>4
  <2> QED
    BY <2>1, FindRange DEF ValueStart
<1>6. ValueEnd \in 1..None
  <2>1. ValueStart + 1 \in Nat \ {0} /\ ValueStart \in Nat \ {0}
    BY <1>1, <1>5
  <2>2. Find({Quote}, ValueStart + 1) \in 1..None /\ Find({Comma, Close}, ValueStart) \in 1..None
    BY <2>1, FindRange
  <2> QED
    BY <2>2 DEF ValueEnd, EndOfBare
<1> QED
  BY <1>1, <1>6

LEMMA BodyType ==
  ASSUME NEW text \in Seq(Symbol), NEW n \in 0..Len(text)
  PROVE  Body(text, n) \in Seq(Symbol) /\ Len(Body(text, n)) \in Nat
<1>1. Body(text, n) \in Seq(Symbol)
  <2>1. SubSeq(text, 1, n) \in Seq(Symbol)
    OBVIOUS
  <2> QED
    BY <2>1, Marks DEF Body
<1> QED
  BY <1>1

\* What a client sends is a sequence of symbols, and so is what arrives.
LEMMA ReceivedType ==
  ASSUME NEW bytes \in Seq(Symbol), NEW n \in 0..Len(bytes), NEW from \in {"whole", "cut", "other"}, NEW object,
         ReceiveBody(from, object, bytes, n)
  PROVE  RequestTypeOK'
<1>1. json' = Body(bytes, n) /\ pos' = 1 /\ rpc' = "scan" /\ origin' = from
  BY DEF ReceiveBody
<1>2. PICK body : body = Body(bytes, n) /\ body \in Seq(Symbol) /\ Len(body) \in Nat
  BY BodyType
<1>3. json' \in Seq(Symbol) /\ pos' \in 1..(Len(json') + 1)
  BY <1>1, <1>2
<1> QED
  BY <1>1, <1>3 DEF RequestTypeOK

LEMMA RequestInitTypeOK == RequestInit => RequestTypeOK
<1>1. <<>> \in Seq(Symbol) /\ Len(<<>>) = 0
  OBVIOUS
<1> QED
  BY <1>1 DEF RequestInit, RequestTypeOK

LEMMA RequestStepTypeOK ==
  ASSUME RequestTypeOK, [RequestNext]_requestVars
  PROVE  RequestTypeOK'
<1>1. json \in Seq(Symbol) /\ pos \in 1..(Len(json) + 1) /\ Len(json) \in Nat
  BY DEF RequestTypeOK
<1>2. ASSUME NEW object \in Objects, NEW blanks \in {<<>>, <<Blank>>}, NEW n \in 0..Len(Written(object, blanks)),
             ReceiveBody(IF n < Len(Written(object, blanks)) THEN "cut" ELSE "whole",
                         object, Written(object, blanks), n)
      PROVE  RequestTypeOK'
  <2>1. PICK bytes \in Seq(Symbol) : bytes = Written(object, blanks)
    BY ObjectAt DEF Blanked
  <2>2. PICK from \in {"whole", "cut", "other"} : from = IF n < Len(Written(object, blanks)) THEN "cut" ELSE "whole"
    OBVIOUS
  <2> QED
    BY <1>2, <2>1, <2>2, ReceivedType
<1>3. ASSUME NEW bytes \in Bodies, ReceiveBody("other", <<>>, bytes, Len(bytes))
      PROVE  RequestTypeOK'
  <2>1. bytes \in Seq(Symbol) /\ Len(bytes) \in 0..Len(bytes)
    BY RequestAssumption
  <2>2. PICK from, object, n : from \in {"whole", "cut", "other"} /\ from = "other" /\ object = <<>> /\ n = Len(bytes)
    OBVIOUS
  <2> QED
    BY <1>3, <2>1, <2>2, ReceivedType
<1>4. CASE ParsePair
  <2>1. ValueEnd \in 1..None /\ None = Len(json) + 1 /\ ValueEnd # None
    BY <1>1, <1>4, PlacesRange DEF ParsePair
  <2>2. AfterValue \in {ValueEnd, ValueEnd + 1}
    BY DEF AfterValue
  <2>3. AfterValue \in 1..None
    BY <1>1, <2>1, <2>2
  <2>4. pos' \in {AfterValue, AfterValue + 1} /\ (AfterValue = None => pos' = AfterValue)
    BY <1>1, <1>4, <2>1, <2>3 DEF ParsePair
  <2>5. pos' \in 1..(Len(json) + 1)
    BY <1>1, <2>1, <2>3, <2>4
  <2> QED
    BY <1>4, <2>5 DEF ParsePair, RequestTypeOK
<1>5. CASE ParseEnd
  BY <1>5 DEF ParseEnd, RequestTypeOK
<1>6. CASE ReadParams
  BY <1>6 DEF ReadParams, RequestTypeOK
<1>7. CASE Responded
  <2>1. <<>> \in Seq(Symbol) /\ Len(<<>>) = 0
    OBVIOUS
  <2> QED
    BY <1>7, <2>1 DEF Responded, RequestTypeOK
<1>8. CASE UNCHANGED requestVars
  BY <1>8 DEF requestVars, RequestTypeOK
<1> QED
  BY <1>2, <1>3, <1>4, <1>5, <1>6, <1>7, <1>8 DEF RequestNext

\* The scan stays in the body or stops right behind it (pos of parse_json() is
\* only ever compared with the size), for every request.
THEOREM RequestTypeCorrect == RequestSpec => []RequestTypeOK
<1>1. RequestInit => RequestTypeOK
  BY RequestInitTypeOK
<1>2. RequestTypeOK /\ [RequestNext]_requestVars => RequestTypeOK'
  BY RequestStepTypeOK
<1> QED
  BY <1>1, <1>2, PTL DEF RequestSpec

-----------------------------------------------------------------------------
(* The invariant *)

\* The scan of an object that a connection has received, whole or cut.
LEMMA ReceivedFollows ==
  ASSUME NEW object \in Objects, NEW blanks \in Blanked, NEW bytes, bytes = Written(object, blanks),
         NEW n \in 0..Len(bytes),
         ReceiveBody(IF n < Len(bytes) THEN "cut" ELSE "whole", object, bytes, n)
  PROVE  RequestInv'
<1>1. /\ rpc' = "scan" /\ sent' = object /\ json' = Body(bytes, n) /\ pos' = 1 /\ params' = NoParams
      /\ origin' = IF n < Len(bytes) THEN "cut" ELSE "whole"
  BY DEF ReceiveBody
<1>2. /\ bytes \in Seq(Symbol) /\ Len(object) \in Nat /\ EndOfPairs(object, blanks, 0) = 1 /\ bytes[1] # Quote
  BY ObjectAt
<1>3. PairsRead(bytes, object, blanks)'
  <2>1. Says(object, 0, NoParams) /\ 0 \in 0..Len(object)
    BY <1>2, SaysNothing
  <2>2. PICK e \in Nat : e = EndOfPairs(object, blanks, 0) /\ e = 1
    BY <1>2
  <2>3. 1 \in 1..(e + 1) /\ \A i \in 1..e : bytes[i] # Quote
    BY <1>2, <2>2
  <2> QED
    BY <1>1, <2>1, <2>2, <2>3 DEF PairsRead
<1>4. (origin' = "whole") => n = Len(bytes)
  BY <1>1, <1>2
<1>5. ScanFollowsPairs'
  BY <1>1, <1>3, <1>4 DEF ScanFollowsPairs, Blanked
<1>6. CutBodyOnlyLoses'
  BY <1>1 DEF CutBodyOnlyLoses
<1> QED
  BY <1>5, <1>6 DEF RequestInv

\* One round of the scan, and its end.
LEMMA ParsedFollows ==
  ASSUME RequestInv, ParsePair \/ ParseEnd
  PROVE  RequestInv'
<1>1. CASE origin \notin {"whole", "cut"}
  <2>1. origin' \notin {"whole", "cut"}
    BY <1>1 DEF ParsePair, ParseEnd
  <2> QED
    BY <2>1 DEF RequestInv, ScanFollowsPairs, CutBodyOnlyLoses
<1>2. CASE origin \in {"whole", "cut"}
  <2>1. rpc = "scan" /\ sent' = sent /\ json' = json /\ origin' = origin
    BY DEF ParsePair, ParseEnd
  <2>2. sent \in Objects
    BY <1>2 DEF RequestInv, ScanFollowsPairs
  <2>3. PICK blanks \in Blanked :
          /\ \E n \in 0..Len(Written(sent, blanks)) :
               json = Body(Written(sent, blanks), n) /\ (origin = "whole" => n = Len(Written(sent, blanks)))
          /\ PairsRead(Written(sent, blanks), sent, blanks)
    BY <1>2, <2>1 DEF RequestInv, ScanFollowsPairs, Blanked
  <2>4. PICK object, bytes : object \in Objects /\ object = sent /\ bytes = Written(object, blanks)
    BY <2>2
  <2>5. PICK n \in 0..Len(bytes) : json = Body(bytes, n) /\ (origin = "whole" => n = Len(bytes))
    BY <2>3, <2>4
  <2>6. PairsRead(bytes, object, blanks)
    BY <2>3, <2>4
  <2>7. bytes \in Seq(Symbol) /\ CutAt(bytes, n)
    BY <2>4, <2>5, ObjectAt, BodyIsCut
  <2>8. CASE ParsePair
    <3>1. PairsRead(bytes, object, blanks)'
      BY <2>4, <2>6, <2>7, <2>8, ScanPair
    <3>2. sent' = object /\ bytes = Written(object, blanks) /\ rpc' = "scan"
      BY <2>1, <2>4, <2>8 DEF ParsePair
    <3>3. ScanFollowsPairs'
      BY <2>1, <2>4, <2>5, <3>1, <3>2 DEF ScanFollowsPairs, Blanked
    <3>4. CutBodyOnlyLoses'
      BY <3>2 DEF CutBodyOnlyLoses
    <3> QED
      BY <3>3, <3>4 DEF RequestInv
  <2>9. CASE ParseEnd
    <3>1. rpc' = "parsed" /\ params' = params /\ ValueEnd = None
      BY <2>9 DEF ParseEnd
    <3>2. PICK m \in 0..Len(object) : Says(object, m, params) /\ (n = Len(bytes) => m = Len(object))
      BY <2>4, <2>6, <2>7, <3>1, ScanStops
    <3>3. ScanFollowsPairs'
      <4>1. rpc' # "scan"
        BY <3>1
      <4> QED
        BY <2>1, <2>2, <2>4, <2>5, <4>1 DEF ScanFollowsPairs, Blanked
    <3>4. CutBodyOnlyLoses'
      BY <2>1, <2>4, <2>5, <3>1, <3>2 DEF CutBodyOnlyLoses
    <3> QED
      BY <3>3, <3>4 DEF RequestInv
  <2> QED
    BY <2>8, <2>9
<1> QED
  BY <1>1, <1>2

LEMMA RequestInitInv == RequestInit => RequestInv
BY DEF RequestInit, RequestInv, ScanFollowsPairs, CutBodyOnlyLoses

LEMMA RequestStepInv ==
  ASSUME RequestInv, [RequestNext]_requestVars
  PROVE  RequestInv'
<1>1. ASSUME NEW object \in Objects, NEW blanks \in {<<>>, <<Blank>>}, NEW n \in 0..Len(Written(object, blanks)),
             ReceiveBody(IF n < Len(Written(object, blanks)) THEN "cut" ELSE "whole",
                         object, Written(object, blanks), n)
      PROVE  RequestInv'
  <2>1. PICK bytes : bytes = Written(object, blanks)
    OBVIOUS
  <2>2. blanks \in Blanked
    BY DEF Blanked
  <2> QED
    BY <1>1, <2>1, <2>2, ReceivedFollows
<1>2. ASSUME NEW bytes \in Bodies, ReceiveBody("other", <<>>, bytes, Len(bytes))
      PROVE  RequestInv'
  BY <1>2 DEF ReceiveBody, RequestInv, ScanFollowsPairs, CutBodyOnlyLoses
<1>3. CASE ParsePair \/ ParseEnd
  BY <1>3, ParsedFollows
<1>4. CASE ReadParams
  <2>1. /\ rpc' \notin {"scan", "parsed"}
        /\ UNCHANGED <<origin, sent, json>>
    BY <1>4 DEF ReadParams
  <2>2. ScanFollowsPairs'
    BY <2>1 DEF RequestInv, ScanFollowsPairs
  <2>3. CutBodyOnlyLoses'
    BY <2>1 DEF CutBodyOnlyLoses
  <2> QED
    BY <2>2, <2>3 DEF RequestInv
<1>5. CASE Responded
  BY <1>5 DEF Responded, RequestInv, ScanFollowsPairs, CutBodyOnlyLoses
<1>6. CASE UNCHANGED requestVars
  <2>1. ScanFollowsPairs'
    BY <1>6 DEF requestVars, RequestInv, ScanFollowsPairs, PairsRead
  <2>2. CutBodyOnlyLoses'
    BY <1>6 DEF requestVars, RequestInv, CutBodyOnlyLoses
  <2> QED
    BY <2>1, <2>2 DEF RequestInv
<1> QED
  BY <1>1, <1>2, <1>3, <1>4, <1>5, <1>6 DEF RequestNext

\* parse_json() of a flat object that one recv() cut anywhere loses pairs from
\* the end and garbles none, and one that came whole is read completely: for
\* every set of objects, compact or with blanks, and every cut.
THEOREM RequestCutBodyOnlyLoses == RequestSpec => []CutBodyOnlyLoses
<1>1. RequestInit => RequestInv
  BY RequestInitInv
<1>2. RequestInv /\ [RequestNext]_requestVars => RequestInv'
  BY RequestStepInv
<1>3. RequestInv => CutBodyOnlyLoses
  BY DEF RequestInv
<1> QED
  BY <1>1, <1>2, <1>3, PTL DEF RequestSpec

=============================================================================
