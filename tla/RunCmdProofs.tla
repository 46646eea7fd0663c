---------------------------- MODULE RunCmdProofs ----------------------------
(***************************************************************************)
(* Proofs about RunCmd, for any alphabet, any number of parameters, any    *)
(* line that the index can number and any table.                           *)
(*                                                                         *)
(* The scan writes over the line it reads.  The invariant says what it has *)
(* made of the line up to the cell it is at (ReadTo), in terms of the line *)
(* as it was; where the index wraps round, all that is left to know is     *)
(* that no quote is in the cells (Again).                                  *)
(***************************************************************************)
EXTENDS RunCmd, FiniteSetTheorems, SequenceTheorems, WellFoundedInduction, TLAPS

CellOf(i) == IF i = Len(input) THEN Nul ELSE input[i + 1]

(* The character that is read in cell c; the last cell holds no character. *)
Here(c) == IF c > Len(input) THEN Len(input) + 1 ELSE c + 1

(* The cells before c are those of the line, without its delimiters.       *)
CellsTo(c) ==
  \A i \in 0 .. Len(input) :
    szCmd[i] = IF i < c /\ i < Len(input) /\ Delimits(i + 1) THEN Nul ELSE CellOf(i)

(* The flags tell whether a string or a literal is open, and chStartCnt    *)
(* where the open literal began.                                           *)
QuotesTo(c) ==
  /\ \A h \in 1 .. Len(input) + 1 :
       h = Here(c) => (bStrStart <=> Inside(Quot, h)) /\ (bCharStart <=> Inside(Apos, h))
  /\ bCharStart =>
       \E s \in 1 .. Len(input) :
         /\ s = chStartCnt + 1 /\ s <= c /\ input[s] = Apos /\ ~ Inside(Apos, s)
         /\ \A k \in s + 1 .. Len(input) : k <= c => input[k] # Apos

(* A literal of more than one character that ends before cell c.           *)
LongPair(i, j) ==
  /\ i + 2 < j /\ input[i] = Apos /\ input[j] = Apos
  /\ ~ Inside(Apos, i) /\ \A k \in i + 1 .. j - 1 : input[k] # Apos
LongTo(c) == \E i, j \in 1 .. Len(input) : j <= c /\ LongPair(i, j)

(* The words that begin before cell c were taken, in their order.          *)
StartsTo(c) == {k \in WordStarts : k <= c}
WordsTo(c)  ==
  /\ Len(raw) = Cardinality(StartsTo(c))
  /\ \A k \in StartsTo(c) : \E i \in 1 .. Len(raw) : raw[i].at + 1 = k
  /\ \A i \in 1 .. Len(raw) :
       \E k \in StartsTo(c) :
         /\ k = raw[i].at + 1
         /\ raw[i].bInQuote <=> Inside(Quot, k)
         /\ raw[i].bIsChar <=> Inside(Apos, k)
  /\ \A i, j \in 1 .. Len(raw) : i < j => raw[i].at < raw[j].at

ReadTo(c) == count = c /\ CellsTo(c) /\ QuotesTo(c) /\ ~ LongTo(c) /\ WordsTo(c)
Reading   == \E c \in 0 .. cmdLen : ReadTo(c)
Again     == cmdLen = Wrap /\ \A i \in 0 .. Len(input) : szCmd[i] # Apos

Parsed ==
  /\ Reading /\ count >= cmdLen /\ ~ bStrStart /\ ~ bCharStart
  /\ para = [i \in 1 .. MaxParas |-> IF i <= Len(raw) THEN ParamOf(raw[i]) ELSE Zero]

IInv ==
  /\ TypeOK
  /\ pc = "scan" => Reading \/ Again
  /\ pc \in {"parsed"} \cup Ran => Parsed
  /\ pc = "reject" => ~ Balanced \/ LongLiteral
  /\ pc = "corrupt" => Cardinality(WordStarts) > MaxParas \/ cmdLen = Wrap

-----------------------------------------------------------------------------
(* The line                                                                *)

LEMMA LineFacts ==
  ASSUME TypeOK
  PROVE  /\ input \in Seq(Typed) /\ Len(input) \in Nat /\ DOMAIN input = 1 .. Len(input)
         /\ Len(input) <= MaxLine /\ cmdLen = Len(input) + 1 /\ cmdLen \in Nat /\ cmdLen <= Wrap
         /\ Wrap \in Nat /\ Wrap > 0
         /\ \A k \in 1 .. Len(input) : input[k] \in Typed /\ input[k] # Nul
<1>1. PICK n \in 0 .. MaxLine : input \in [1 .. n -> Typed]
  BY DEF TypeOK, Lines
<1>2. Wrap \in Nat /\ Wrap > 0 /\ MaxLine \in Nat /\ MaxLine < Wrap /\ n \in Nat /\ n <= MaxLine
  BY RunCmdAssumption
<1>3. input \in Seq(Typed) /\ Len(input) = n /\ DOMAIN input = 1 .. n
  BY <1>1, <1>2
<1> QED BY <1>1, <1>2, <1>3, RunCmdAssumption DEF cmdLen

(* What RunCmd tells apart.                                                *)
LEMMA Kinds ==
  ASSUME NEW ch \in Char
  PROVE  /\ ch \in {Apos} \/ ch \in {Quot} \/ ch \in Blanks \/ ch \in Others
         /\ ~ (ch \in Others /\ ch \in Blanks \cup {Apos, Quot})
         /\ ~ (ch \in Blanks /\ ch \in {Apos, Quot}) /\ ~ (ch = Apos /\ ch = Quot)
         /\ (ch \in Others /\ ch # Nul) <=> ch \in WordChar
BY RunCmdAssumption DEF Char, Typed, Others, WordChar

LEMMA NulKind ==
  Nul # Naught /\ Nul \in Others /\ Nul # Apos /\ Nul # Quot /\ Nul \notin Blanks
BY RunCmdAssumption DEF Typed, Others, WordChar

(* The line is only read: what is said of it stays.                        *)
LEMMA SameLine ==
  ASSUME input' = input
  PROVE  /\ \A q, k : Inside(q, k)' <=> Inside(q, k)
         /\ \A k : Delimits(k)' <=> Delimits(k)
         /\ \A i : CellOf(i)' = CellOf(i)
         /\ \A c : Here(c)' = Here(c)
         /\ WordStarts' = WordStarts
         /\ \A c : StartsTo(c)' = StartsTo(c)
         /\ \A c : LongTo(c)' <=> LongTo(c)
         /\ cmdLen' = cmdLen /\ (Balanced' <=> Balanced) /\ (LongLiteral' <=> LongLiteral)
<1>1. \A q, k : Inside(q, k)' <=> Inside(q, k)
  BY DEF Inside, QuotesBefore
<1>2. \A k : Delimits(k)' <=> Delimits(k)
  BY DEF Delimits, Inside, QuotesBefore
<1>3. WordStarts' = WordStarts /\ \A c : StartsTo(c)' = StartsTo(c)
  BY <1>2 DEF WordStarts, StartsTo
<1>4. /\ \A i : CellOf(i)' = CellOf(i) /\ cmdLen' = cmdLen
      /\ \A c : Here(c)' = Here(c)
  BY DEF CellOf, cmdLen, Here
<1>5. \A c : LongTo(c)' <=> LongTo(c)
  BY <1>1 DEF LongTo, LongPair
<1>6. LongLiteral' <=> LongLiteral
  BY <1>1 DEF LongLiteral
<1>7. Balanced' <=> Balanced
  BY DEF Balanced, Inside, QuotesBefore
<1> QED BY <1>1, <1>2, <1>3, <1>4, <1>5, <1>6, <1>7

-----------------------------------------------------------------------------
(* Quotes                                                                  *)

(* A quote opens what was closed and closes what was open.                 *)
LEMMA QuoteFlips ==
  ASSUME TypeOK, NEW q, NEW k \in 1 .. Len(input)
  PROVE  /\ QuotesBefore(q, k) \in Nat
         /\ Inside(q, k + 1) <=> ~ (Inside(q, k) <=> input[k] = q)
<1> DEFINE S == {i \in 1 .. k - 1 : input[i] = q}
           T == {i \in 1 .. (k + 1) - 1 : input[i] = q}
<1>1. k \in Nat /\ k >= 1 /\ Len(input) \in Nat
  BY LineFacts
<1>2. IsFiniteSet(S) /\ Cardinality(S) \in Nat
  <2>1. IsFiniteSet(1 .. k - 1)
    BY <1>1, FS_Interval
  <2> QED BY <2>1, FS_Subset, FS_CardinalityType
<1>3. k \notin S
  BY <1>1
<1>4. CASE input[k] = q
  <2>1. T = S \cup {k}
    BY <1>1, <1>4
  <2>2. Cardinality(T) = Cardinality(S) + 1
    BY <1>2, <1>3, <2>1, FS_AddElement
  <2>3. PICK m \in Nat : m = Cardinality(S) /\ Cardinality(T) = m + 1
    BY <1>2, <2>2
  <2>4. (m + 1) % 2 = 1 <=> m % 2 # 1
    BY <2>3
  <2> QED BY <1>2, <1>4, <2>3, <2>4 DEF Inside, QuotesBefore
<1>5. CASE input[k] # q
  <2>1. T = S
    BY <1>1, <1>5
  <2> QED BY <1>2, <1>5, <2>1 DEF Inside, QuotesBefore
<1> QED BY <1>4, <1>5

LEMMA NothingInside ==
  ASSUME NEW q
  PROVE  ~ Inside(q, 1)
<1>1. {i \in 1 .. 1 - 1 : input[i] = q} = {}
  OBVIOUS
<1>2. Cardinality({}) = 0
  BY FS_EmptySet
<1> QED BY <1>1, <1>2 DEF Inside, QuotesBefore

(* Where there is no quote nothing is opened or closed.                    *)
LEMMA NoQuote ==
  ASSUME TypeOK, NEW q, NEW i \in Nat, NEW j \in Nat, 1 <= i, i <= j,
         \A k \in i .. j - 1 : input[k] # q
  PROVE  Inside(q, i) <=> Inside(q, j)
<1>1. {k \in 1 .. i - 1 : input[k] = q} = {k \in 1 .. j - 1 : input[k] = q}
  OBVIOUS
<1> QED BY <1>1 DEF Inside, QuotesBefore

-----------------------------------------------------------------------------
(* One cell of the scan                                                    *)

LEMMA Present ==
  ASSUME TypeOK, NEW c \in 0 .. Len(input), ReadTo(c)
  PROVE  /\ c \in Nat /\ count = c /\ c \in 0 .. Len(input) /\ Here(c) = c + 1
         /\ szCmd[c] = CellOf(c) /\ szCmd[c] \in Char
         /\ c < Len(input) => szCmd[c] = input[c + 1] /\ c + 1 \in 1 .. Len(input)
         /\ c = Len(input) => szCmd[c] = Nul
         /\ bStrStart <=> Inside(Quot, c + 1)
         /\ bCharStart <=> Inside(Apos, c + 1)
<1>1. Len(input) \in Nat
  BY LineFacts
<1>2. c \in Nat /\ Here(c) = c + 1 /\ c + 1 \in 1 .. Len(input) + 1
  BY <1>1 DEF Here
<1>3. szCmd[c] = CellOf(c) /\ szCmd[c] \in Char
  BY <1>1 DEF ReadTo, CellsTo, TypeOK
<1>4. (bStrStart <=> Inside(Quot, c + 1)) /\ (bCharStart <=> Inside(Apos, c + 1))
  BY <1>2 DEF ReadTo, QuotesTo
<1> QED BY <1>1, <1>2, <1>3, <1>4 DEF CellOf, ReadTo

(* A word begins where the code finds one.                                 *)
LEMMA StartsHere ==
  ASSUME TypeOK, NEW c \in 0 .. Len(input), ReadTo(c)
  PROVE  szCmd[c] \in Others /\ BeginsWord <=> c + 1 \in WordStarts
<1>1. c \in Nat /\ Len(input) \in Nat /\ count = c
  BY LineFacts, Present
<1>2. BeginsWord <=> c >= 1 /\ Delimits(c)
  <2>1. CASE c >= 1
    <3>1. c - 1 \in 0 .. Len(input) /\ c - 1 < c /\ c - 1 < Len(input) /\ c \in 1 .. Len(input)
      BY <1>1, <2>1
    <3>2. szCmd[c - 1] = IF Delimits(c) THEN Nul ELSE input[c]
      BY <1>1, <3>1 DEF ReadTo, CellsTo, CellOf
    <3> QED BY <1>1, <2>1, <3>1, <3>2, LineFacts DEF BeginsWord
  <2>2. CASE ~ (c >= 1)
    BY <1>1, <2>2 DEF BeginsWord
  <2> QED BY <2>1, <2>2
<1>3. szCmd[c] \in Others <=> (c + 1 <= Len(input) => input[c + 1] \in WordChar)
  <2>1. CASE c < Len(input)
    <3>1. szCmd[c] = input[c + 1] /\ szCmd[c] # Nul /\ szCmd[c] \in Char
      BY <1>1, <2>1, Present, LineFacts
    <3> QED BY <1>1, <2>1, <3>1, Kinds
  <2>2. CASE c = Len(input)
    BY <1>1, <2>2, Present DEF Others
  <2> QED BY <1>1, <2>1, <2>2
<1>4. c + 1 \in WordStarts <=> c >= 1 /\ Delimits(c) /\ (c + 1 <= Len(input) => input[c + 1] \in WordChar)
  <2>1. c + 1 \in 2 .. Len(input) + 1 <=> c >= 1
    BY <1>1
  <2>2. (c + 1) - 1 = c
    BY <1>1
  <2> QED BY <2>1, <2>2 DEF WordStarts
<1> QED BY <1>2, <1>3, <1>4

LEMMA CellsStep ==
  ASSUME TypeOK, NEW c \in 0 .. Len(input), ReadTo(c), input' = input,
         szCmd' = IF c < Len(input) /\ Delimits(c + 1) THEN [szCmd EXCEPT ![c] = Nul] ELSE szCmd
  PROVE  CellsTo(c + 1)'
<1>1. c \in Nat /\ Len(input) \in Nat /\ DOMAIN szCmd = 0 .. Len(input)
  BY LineFacts, Present DEF TypeOK
<1> SUFFICES ASSUME NEW i \in 0 .. Len(input)
             PROVE  szCmd'[i] = IF i < c + 1 /\ i < Len(input) /\ Delimits(i + 1) THEN Nul ELSE CellOf(i)
  BY SameLine DEF CellsTo
<1>2. szCmd[i] = IF i < c /\ i < Len(input) /\ Delimits(i + 1) THEN Nul ELSE CellOf(i)
  BY DEF ReadTo, CellsTo
<1>3. CASE i = c
  BY <1>1, <1>2, <1>3
<1>4. CASE i # c
  <2>1. szCmd'[i] = szCmd[i] /\ (i < c + 1 <=> i < c)
    BY <1>1, <1>4
  <2> QED BY <1>2, <2>1
<1> QED BY <1>3, <1>4

LEMMA QuotesStep ==
  ASSUME TypeOK, NEW c \in 0 .. Len(input), ReadTo(c), input' = input,
         bStrStart' <=> ~ (bStrStart <=> szCmd[c] = Quot),
         bCharStart' <=> ~ (bCharStart <=> szCmd[c] = Apos),
         chStartCnt' = IF szCmd[c] = Apos /\ ~ bCharStart THEN c ELSE chStartCnt
  PROVE  QuotesTo(c + 1)'
<1>1. /\ c \in Nat /\ Len(input) \in Nat /\ szCmd[c] \in Char
      /\ bStrStart \in BOOLEAN /\ bCharStart \in BOOLEAN
  BY LineFacts, Present DEF TypeOK
<1>2. ASSUME NEW h \in 1 .. Len(input) + 1, h = Here(c + 1)
      PROVE  (bStrStart' <=> Inside(Quot, h)) /\ (bCharStart' <=> Inside(Apos, h))
  <2>1. CASE c < Len(input)
    <3>1. h = (c + 1) + 1 /\ c + 1 \in 1 .. Len(input) /\ szCmd[c] = input[c + 1]
      BY <1>1, <1>2, <2>1, Present DEF Here
    <3>2. /\ Inside(Quot, h) <=> ~ (Inside(Quot, c + 1) <=> input[c + 1] = Quot)
          /\ Inside(Apos, h) <=> ~ (Inside(Apos, c + 1) <=> input[c + 1] = Apos)
      <4>1. PICK k \in 1 .. Len(input) : k = c + 1 /\ h = k + 1
        BY <3>1
      <4>2. \A q : Inside(q, k + 1) <=> ~ (Inside(q, k) <=> input[k] = q)
        BY QuoteFlips
      <4> QED BY <4>1, <4>2, Zenon
    <3>3. (bStrStart <=> Inside(Quot, c + 1)) /\ (bCharStart <=> Inside(Apos, c + 1))
      BY Present
    <3> QED BY <1>1, <3>1, <3>2, <3>3
  <2>2. CASE c = Len(input)
    <3>1. h = c + 1 /\ szCmd[c] = Nul /\ Nul # Apos /\ Nul # Quot
      BY <1>1, <1>2, <2>2, Present, NulKind DEF Here
    <3>2. (bStrStart <=> Inside(Quot, c + 1)) /\ (bCharStart <=> Inside(Apos, c + 1))
      BY Present
    <3> QED BY <1>1, <3>1, <3>2
  <2> QED BY <1>1, <2>1, <2>2
<1>3. ASSUME bCharStart'
      PROVE  \E s \in 1 .. Len(input) :
               /\ s = chStartCnt' + 1 /\ s <= c + 1 /\ input[s] = Apos /\ ~ Inside(Apos, s)
               /\ \A k \in s + 1 .. Len(input) : k <= c + 1 => input[k] # Apos
  <2>1. CASE szCmd[c] = Apos
    <3>1. ~ bCharStart /\ chStartCnt' = c /\ ~ Inside(Apos, c + 1)
      BY <1>1, <1>3, <2>1, Present
    <3>2. c + 1 \in 1 .. Len(input) /\ input[c + 1] = Apos
      <4>1. c < Len(input)
        BY <1>1, <2>1, Present, NulKind
      <4> QED BY <2>1, <4>1, Present
    <3> QED BY <1>1, <3>1, <3>2
  <2>2. CASE szCmd[c] # Apos
    <3>1. bCharStart /\ chStartCnt' = chStartCnt
      BY <1>1, <1>3, <2>2
    <3>2. PICK s \in 1 .. Len(input) :
            /\ s = chStartCnt + 1 /\ s <= c /\ input[s] = Apos /\ ~ Inside(Apos, s)
            /\ \A k \in s + 1 .. Len(input) : k <= c => input[k] # Apos
      BY <3>1 DEF ReadTo, QuotesTo
    <3>3. \A k \in s + 1 .. Len(input) : k <= c + 1 => input[k] # Apos
      <4>1. c + 1 <= Len(input) => input[c + 1] # Apos
        BY <1>1, <2>2, Present
      <4> QED BY <1>1, <3>2, <4>1
    <3> QED BY <1>1, <3>1, <3>2, <3>3
  <2> QED BY <2>1, <2>2
<1> QED BY <1>2, <1>3, SameLine DEF QuotesTo

(* The length of a literal is measured from its first quote.               *)
LEMMA LongHere ==
  ASSUME TypeOK, NEW c \in 0 .. Len(input), ReadTo(c), szCmd[c] = Apos
  PROVE  (\E i \in 1 .. Len(input) : LongPair(i, c + 1)) <=> TooLong
<1>1. /\ c \in Nat /\ Len(input) \in Nat /\ c + 1 \in 1 .. Len(input) /\ input[c + 1] = Apos /\ count = c
      /\ chStartCnt \in Int
  <2>1. c \in Nat /\ Len(input) \in Nat /\ count = c
    BY LineFacts, Present
  <2>2. c # Len(input)
    BY Present, NulKind
  <2> QED BY <2>1, <2>2, Present, RunCmdAssumption DEF TypeOK, Index
<1>2. ASSUME NEW i \in 1 .. Len(input), LongPair(i, c + 1) PROVE TooLong
  <2>1. /\ i + 2 < c + 1 /\ input[i] = Apos /\ ~ Inside(Apos, i)
        /\ \A k \in i + 1 .. (c + 1) - 1 : input[k] # Apos
    BY <1>2 DEF LongPair
  <2>2. bCharStart
    <3>1. Inside(Apos, i + 1)
      BY <2>1, QuoteFlips
    <3>2. Inside(Apos, i + 1) <=> Inside(Apos, c + 1)
      <4>1. PICK j \in Nat, k \in Nat : j = i + 1 /\ k = c + 1
        BY <1>1
      <4> QED BY <1>1, <2>1, <4>1, NoQuote
    <3> QED BY <3>1, <3>2, Present
  <2>3. PICK s \in 1 .. Len(input) :
          /\ s = chStartCnt + 1 /\ s <= c /\ input[s] = Apos
          /\ \A k \in s + 1 .. Len(input) : k <= c => input[k] # Apos
    BY <2>2 DEF ReadTo, QuotesTo
  <2>4. s = i
    BY <1>1, <2>1, <2>3
  <2> QED BY <1>1, <2>1, <2>2, <2>3, <2>4 DEF TooLong
<1>3. ASSUME TooLong PROVE \E i \in 1 .. Len(input) : LongPair(i, c + 1)
  <2>1. PICK s \in 1 .. Len(input) :
          /\ s = chStartCnt + 1 /\ s <= c /\ input[s] = Apos /\ ~ Inside(Apos, s)
          /\ \A k \in s + 1 .. Len(input) : k <= c => input[k] # Apos
    BY <1>3 DEF TooLong, ReadTo, QuotesTo
  <2>2. s + 2 < c + 1
    BY <1>1, <1>3, <2>1 DEF TooLong
  <2>3. LongPair(s, c + 1)
    BY <1>1, <2>1, <2>2 DEF LongPair
  <2> QED BY <2>3
<1> QED BY <1>2, <1>3

LEMMA LongStep ==
  ASSUME TypeOK, NEW c \in 0 .. Len(input), ReadTo(c), ~ (szCmd[c] = Apos /\ TooLong)
  PROVE  ~ LongTo(c + 1)
<1> SUFFICES ASSUME NEW i \in 1 .. Len(input), NEW j \in 1 .. Len(input), j <= c + 1, LongPair(i, j)
             PROVE  FALSE
  BY DEF LongTo
<1>1. c \in Nat /\ Len(input) \in Nat
  BY LineFacts
<1>2. CASE j <= c
  BY <1>2 DEF ReadTo, LongTo
<1>3. CASE j = c + 1
  <2>1. szCmd[c] = Apos
    BY <1>1, <1>3, Present DEF LongPair
  <2> QED BY <1>3, <2>1, LongHere
<1> QED BY <1>1, <1>2, <1>3

LEMMA FiniteStarts ==
  ASSUME TypeOK, NEW c
  PROVE  /\ IsFiniteSet(WordStarts) /\ IsFiniteSet(StartsTo(c)) /\ Cardinality(StartsTo(c)) \in Nat
         /\ Cardinality(WordStarts) \in Nat /\ Cardinality(StartsTo(c)) <= Cardinality(WordStarts)
         /\ WordStarts \subseteq 2 .. Len(input) + 1
<1>1. WordStarts \subseteq 2 .. Len(input) + 1 /\ StartsTo(c) \subseteq WordStarts
  BY DEF WordStarts, StartsTo
<1>2. IsFiniteSet(2 .. Len(input) + 1)
  BY LineFacts, FS_Interval
<1>3. IsFiniteSet(WordStarts)
  BY <1>1, <1>2, FS_Subset
<1> QED BY <1>1, <1>3, FS_Subset, FS_CardinalityType

LEMMA StartsStep ==
  ASSUME TypeOK, NEW c \in 0 .. Len(input)
  PROVE  /\ c + 1 \notin WordStarts => StartsTo(c + 1) = StartsTo(c)
         /\ c + 1 \in WordStarts => /\ StartsTo(c + 1) = StartsTo(c) \cup {c + 1}
                                    /\ c + 1 \notin StartsTo(c)
                                    /\ Cardinality(StartsTo(c + 1)) = Cardinality(StartsTo(c)) + 1
<1>1. c \in Nat /\ Len(input) \in Nat /\ \A k \in WordStarts : k \in Nat /\ k >= 2
  BY LineFacts DEF WordStarts
<1>2. c + 1 \notin WordStarts => StartsTo(c + 1) = StartsTo(c)
  BY <1>1 DEF StartsTo
<1>3. ASSUME c + 1 \in WordStarts
      PROVE  StartsTo(c + 1) = StartsTo(c) \cup {c + 1} /\ c + 1 \notin StartsTo(c)
  BY <1>1, <1>3 DEF StartsTo
<1> QED BY <1>2, <1>3, FiniteStarts, FS_AddElement

(* The first words are the ones that begin first.                          *)
LEMMA WordsStep ==
  ASSUME TypeOK, NEW c \in 0 .. Len(input), ReadTo(c), input' = input,
         IF c + 1 \in WordStarts
         THEN raw' = Append(raw, [at |-> c, bInQuote |-> bStrStart, bIsChar |-> bCharStart])
         ELSE raw' = raw
  PROVE  WordsTo(c + 1)'
<1>1. /\ c \in Nat /\ Len(input) \in Nat /\ Len(raw) \in Nat /\ raw \in Seq(RawPara)
      /\ c \in Index /\ bStrStart \in BOOLEAN /\ bCharStart \in BOOLEAN
  BY LineFacts, RunCmdAssumption DEF TypeOK, Index
<1>2. WordsTo(c)
  BY DEF ReadTo
<1>3. CASE c + 1 \notin WordStarts
  <2>1. raw' = raw /\ StartsTo(c + 1)' = StartsTo(c)
    BY <1>3, StartsStep, SameLine
  <2> QED BY <1>2, <2>1, SameLine DEF WordsTo
<1>4. CASE c + 1 \in WordStarts
  <2> DEFINE word == [at |-> c, bInQuote |-> bStrStart, bIsChar |-> bCharStart]
  <2>1. PICK w \in RawPara : w = word
    BY <1>1 DEF RawPara
  <2>2. raw' = Append(raw, w)
    BY <1>4, <2>1
  <2>3. /\ Len(raw') = Len(raw) + 1
        /\ \A i \in 1 .. Len(raw) : i \in 1 .. Len(raw') /\ raw'[i] = raw[i]
        /\ Len(raw) + 1 \in 1 .. Len(raw') /\ raw'[Len(raw) + 1] = w
        /\ \A i \in 1 .. Len(raw') : i \in 1 .. Len(raw) \/ i = Len(raw) + 1
    BY <1>1, <2>2
  <2>4. w.at = c /\ (w.bInQuote <=> Inside(Quot, c + 1)) /\ (w.bIsChar <=> Inside(Apos, c + 1))
    BY <2>1, Present
  <2>5. /\ StartsTo(c + 1)' = StartsTo(c) \cup {c + 1} /\ c + 1 \notin StartsTo(c)
        /\ Cardinality(StartsTo(c + 1)') = Cardinality(StartsTo(c)) + 1
    BY <1>4, StartsStep, SameLine
  <2>6. Len(raw') = Cardinality(StartsTo(c + 1)')
    BY <1>2, <2>3, <2>5 DEF WordsTo
  <2>7. \A k \in StartsTo(c + 1)' : \E i \in 1 .. Len(raw') : raw'[i].at + 1 = k
    BY <1>2, <2>3, <2>4, <2>5 DEF WordsTo
  <2>8. \A i \in 1 .. Len(raw') :
          \E k \in StartsTo(c + 1)' :
            /\ k = raw'[i].at + 1
            /\ raw'[i].bInQuote <=> Inside(Quot, k)
            /\ raw'[i].bIsChar <=> Inside(Apos, k)
    BY <1>2, <2>3, <2>4, <2>5 DEF WordsTo
  <2>9. \A i, j \in 1 .. Len(raw') : i < j => raw'[i].at < raw'[j].at
    <3>1. \A i \in 1 .. Len(raw) : raw[i].at < c
      <4> SUFFICES ASSUME NEW i \in 1 .. Len(raw) PROVE raw[i].at < c
        OBVIOUS
      <4>1. PICK k \in StartsTo(c) : k = raw[i].at + 1
        BY <1>2 DEF WordsTo
      <4>2. raw[i] \in RawPara
        BY <1>1
      <4>3. k <= c /\ k \in Nat /\ raw[i].at \in Nat
        BY <1>1, <4>1, <4>2, RunCmdAssumption DEF StartsTo, WordStarts, RawPara, Index
      <4> QED BY <1>1, <4>1, <4>3
    <3>2. \A i, j \in 1 .. Len(raw) : i < j => raw[i].at < raw[j].at
      BY <1>2 DEF WordsTo
    <3> QED BY <1>1, <2>3, <2>4, <3>1, <3>2
  <2> HIDE DEF word
  <2> QED BY <2>6, <2>7, <2>8, <2>9, SameLine DEF WordsTo
<1> QED BY <1>3, <1>4

-----------------------------------------------------------------------------
LEMMA InitInv == Init => IInv
<1> SUFFICES ASSUME Init PROVE IInv
  OBVIOUS
<1>1. PICK n \in 0 .. MaxLine : input \in [1 .. n -> Typed]
  BY DEF Init, Lines
<1>2. /\ Wrap \in Nat /\ Wrap > 0 /\ MaxLine \in Nat /\ n \in Nat /\ Len(input) = n /\ input \in Seq(Typed)
      /\ Typed \subseteq Char /\ Nul \in Char /\ 0 \in Index /\ MaxParas \in Nat
  BY <1>1, RunCmdAssumption DEF Char, Index
<1>3. /\ \A i \in 0 .. Len(input) : szCmd[i] = CellOf(i) /\ szCmd[i] \in Char
      /\ szCmd = [i \in 0 .. Len(input) |-> CellOf(i)]
  <2>1. szCmd = [i \in 0 .. Len(input) |-> CellOf(i)]
    BY DEF Init, CellOf
  <2>2. \A i \in 0 .. Len(input) : CellOf(i) \in Char
    BY <1>1, <1>2 DEF CellOf
  <2> QED BY <2>1, <2>2
<1>4. TypeOK
  <2>1. input \in Lines
    BY DEF Init
  <2>2. raw \in Seq(RawPara) /\ para \in Seq(Value) /\ Len(raw) <= MaxParas
    BY <1>2 DEF Init
  <2>3. szCmd \in [0 .. Len(input) -> Char]
    BY <1>3
  <2> QED BY <1>2, <2>1, <2>2, <2>3 DEF TypeOK, Init
<1>5. CellsTo(0) /\ QuotesTo(0) /\ ~ LongTo(0)
  <2>1. Here(0) = 1
    BY <1>2 DEF Here
  <2>2. \A i, j \in 1 .. Len(input) : ~ (j <= 0)
    BY <1>2
  <2> QED BY <1>2, <1>3, <2>1, <2>2, NothingInside DEF CellsTo, QuotesTo, LongTo, Init
<1>6. WordsTo(0)
  <2>1. StartsTo(0) = {}
    BY <1>2 DEF StartsTo, WordStarts
  <2>2. Cardinality({}) = 0
    BY FS_EmptySet
  <2>3. Len(raw) = 0 /\ \A i \in 1 .. Len(raw) : FALSE
    BY DEF Init
  <2>4. Len(raw) = Cardinality(StartsTo(0)) /\ \A k \in StartsTo(0) : FALSE
    BY <2>1, <2>2, <2>3
  <2> QED BY <2>3, <2>4, Zenon DEF WordsTo
<1>7. Reading
  <2>1. 0 \in 0 .. cmdLen
    BY <1>2 DEF cmdLen
  <2> QED BY <1>5, <1>6, <2>1 DEF Reading, ReadTo, Init
<1> QED BY <1>4, <1>7 DEF IInv, Init, Ran

(* The scan goes on to the next cell: to the end, or round to the first    *)
(* cell again.                                                             *)
LEMMA GoesOn ==
  ASSUME TypeOK, NEW c \in 0 .. Len(input), ReadTo(c), input' = input, count' = NextCount,
         CellsTo(c + 1)', QuotesTo(c + 1)', ~ LongTo(c + 1), WordsTo(c + 1)'
  PROVE  Reading' \/ Again'
<1>1. /\ c \in Nat /\ Len(input) \in Nat /\ Wrap \in Nat /\ Wrap > 0 /\ cmdLen = Len(input) + 1
      /\ cmdLen <= Wrap /\ count = c
  BY LineFacts, Present
<1>2. CASE c + 1 < Wrap
  <2>1. count' = c + 1
    BY <1>1, <1>2 DEF NextCount
  <2>2. ~ LongTo(c + 1)'
    BY SameLine
  <2>3. c + 1 \in 0 .. cmdLen'
    BY <1>1, SameLine
  <2> QED BY <2>1, <2>2, <2>3 DEF ReadTo, Reading
<1>3. CASE ~ (c + 1 < Wrap)
  <2>1. cmdLen = Wrap /\ c = Len(input)
    BY <1>1, <1>3
  <2>2. ASSUME NEW i \in 0 .. Len(input) PROVE szCmd'[i] # Apos
    <3>1. szCmd'[i] = IF i < c + 1 /\ i < Len(input) /\ Delimits(i + 1) THEN Nul ELSE CellOf(i)
      BY SameLine DEF CellsTo
    <3>2. CASE i < Len(input)
      <4>1. i < c + 1
        BY <1>1, <2>1, <3>2
      <4> QED BY <3>1, <3>2, <4>1, NulKind DEF CellOf, Delimits
    <3>3. CASE i = Len(input)
      BY <3>1, <3>3, NulKind DEF CellOf
    <3> QED BY <1>1, <3>2, <3>3
  <2> QED BY <2>1, <2>2, SameLine DEF Again
<1> QED BY <1>2, <1>3

-----------------------------------------------------------------------------
(* The branches of the switch.                                             *)


LEMMA ScanTypes == ASSUME TypeOK, Scan PROVE TypeOK'
<1>1. /\ Wrap \in Nat /\ Wrap > 0 /\ NextCount \in Index /\ input \in Seq(Typed) /\ Nul \in Char
      /\ Len(input) \in Nat /\ MaxParas \in Nat /\ input' = input
  <2>1. Wrap \in Nat /\ Wrap > 0 /\ Nul \in Char /\ MaxParas \in Nat
    BY RunCmdAssumption DEF Char
  <2>2. NextCount \in Index
    BY <2>1 DEF NextCount, TypeOK, Index
  <2>3. input' = input
    BY DEF Scan, NoClient, Apostrophe, LiteralTooLong, Quote, Separator, Other, NewWord, WordOverrun,
           Unbalanced, Convert, Scanning
  <2> QED BY <2>1, <2>2, <2>3, LineFacts
<1>2. raw' \in Seq(RawPara) /\ Len(raw') <= MaxParas
  <2>1. CASE NewWord
    <3>1. PICK w \in RawPara : raw' = Append(raw, w)
      <4>1. [at |-> count, bInQuote |-> bStrStart, bIsChar |-> bCharStart] \in RawPara
        BY DEF RawPara, TypeOK
      <4> QED BY <2>1, <4>1 DEF NewWord
    <3>2. raw \in Seq(RawPara) /\ Len(raw) < MaxParas
      BY <1>1, <2>1 DEF NewWord, ArrayFull, TypeOK
    <3> QED BY <1>1, <3>1, <3>2
  <2>2. CASE ~ NewWord
    <3>1. raw' = raw
      BY <2>2 DEF Scan, NoClient, Apostrophe, LiteralTooLong, Quote, Separator, Other, WordOverrun,
                  Unbalanced, Convert
    <3> QED BY <3>1 DEF TypeOK
  <2> QED BY <2>1, <2>2
<1>3. para' \in Seq(Value)
  <2>1. CASE Convert
    <3>1. \A i \in 1 .. MaxParas : (IF i <= Len(raw) THEN ParamOf(raw[i]) ELSE Zero) \in Value
      <4> SUFFICES ASSUME NEW i \in 1 .. MaxParas, i <= Len(raw) PROVE ParamOf(raw[i]) \in Value
        BY DEF Value
      <4>1. raw[i] \in RawPara
        BY <1>1 DEF TypeOK
      <4>2. raw[i].at \in Index
        BY <4>1 DEF RawPara
      <4> QED BY <4>2 DEF ParamOf, WordParse, Value
    <3>2. para' \in [1 .. MaxParas -> Value]
      BY <2>1, <3>1 DEF Convert
    <3> QED BY <1>1, <3>2
  <2>2. CASE ~ Convert
    <3>1. para' = para
      BY <2>2 DEF Scan, NoClient, Apostrophe, LiteralTooLong, Quote, Separator, Other, NewWord,
                  WordOverrun, Unbalanced, Scanning
    <3> QED BY <3>1 DEF TypeOK
  <2> QED BY <2>1, <2>2
<1>4. szCmd' \in [0 .. Len(input') -> Char]
  <2>1. szCmd' = szCmd \/ szCmd' = [szCmd EXCEPT ![count] = Nul]
    BY DEF Scan, NoClient, Apostrophe, LiteralTooLong, Quote, Separator, Other, NewWord, WordOverrun,
           Unbalanced, Convert, Cut
  <2> QED BY <1>1, <2>1 DEF TypeOK
<1>5. /\ count' \in Index /\ chStartCnt' \in Index /\ client' \in BOOLEAN
      /\ bStrStart' \in BOOLEAN /\ bCharStart' \in BOOLEAN
      /\ pc' \in {"scan", "reject", "corrupt", "noclient", "parsed"}
  <2>1. /\ count' \in {count, NextCount} /\ chStartCnt' \in {chStartCnt, count}
        /\ pc' \in {"scan", "reject", "corrupt", "noclient", "parsed"} /\ client' = client
    BY DEF Scan, NoClient, Apostrophe, LiteralTooLong, Quote, Separator, Other, NewWord, WordOverrun,
           Unbalanced, Convert, Scanning
  <2>2. bStrStart' \in BOOLEAN /\ bCharStart' \in BOOLEAN
    BY Zenon DEF TypeOK, Scan, NoClient, Apostrophe, LiteralTooLong, Quote, Separator, Other, NewWord,
           WordOverrun, Unbalanced, Convert, Scanning
  <2> QED BY <1>1, <2>1, <2>2 DEF TypeOK
<1> QED BY <1>1, <1>2, <1>3, <1>4, <1>5 DEF TypeOK

(* Where the cells are read again, no quote is left to act on.             *)
LEMMA AgainStep ==
  ASSUME IInv, Again, pc = "scan", Scan
  PROVE  IInv'
<1>1. /\ cmdLen = Wrap /\ count < cmdLen /\ count \in 0 .. Len(input) /\ szCmd[count] # Apos
      /\ szCmd \in [0 .. Len(input) -> Char]
  BY LineFacts DEF IInv, Again, TypeOK, Index
<1>2. ~ Apostrophe /\ ~ LiteralTooLong /\ ~ Unbalanced /\ ~ Convert
  BY <1>1, LineFacts DEF IInv, TypeOK, Index, Apostrophe, LiteralTooLong, Unbalanced, Convert, Scanning
<1>3. TypeOK' /\ input' = input
  BY <1>2, ScanTypes DEF IInv, Scan, NoClient, Quote, Separator, Other, NewWord, WordOverrun, Scanning
<1>4. CASE NoClient
  BY <1>3, <1>4 DEF NoClient, IInv, Ran
<1>5. CASE WordOverrun
  BY <1>1, <1>3, <1>5, SameLine DEF WordOverrun, IInv, Ran
<1>6. CASE Quote \/ Separator \/ Other \/ NewWord
  <2>1. pc' = "scan" /\ (szCmd' = szCmd \/ szCmd' = [szCmd EXCEPT ![count] = Nul])
    BY <1>6 DEF Quote, Separator, Other, NewWord, Scanning, Cut, IInv
  <2>2. \A i \in 0 .. Len(input') : szCmd'[i] # Apos
    BY <1>1, <1>3, <2>1, NulKind DEF Again
  <2> QED BY <1>1, <1>3, <2>1, <2>2, SameLine DEF IInv, Ran, Again
<1> QED BY <1>2, <1>4, <1>5, <1>6 DEF Scan

(* What the branch that is taken says of the character.                    *)
LEMMA Delimited ==
  ASSUME TypeOK, NEW c \in 0 .. Len(input), ReadTo(c)
  PROVE  /\ szCmd[c] \in {Apos, Quot} => c < Len(input) /\ Delimits(c + 1)
         /\ szCmd[c] \in Blanks => c < Len(input) /\ (Delimits(c + 1) <=> ~ bStrStart)
         /\ szCmd[c] \in Others => ~ (c < Len(input) /\ Delimits(c + 1))
         /\ c + 1 \in WordStarts => szCmd[c] \in Others
<1>1. c \in Nat /\ Len(input) \in Nat
  BY LineFacts
<1>2. c + 1 \in WordStarts => szCmd[c] \in Others
  BY StartsHere
<1>3. CASE c < Len(input)
  <2>1. szCmd[c] = input[c + 1] /\ szCmd[c] \in Char /\ (bStrStart <=> Inside(Quot, c + 1))
    BY <1>1, <1>3, Present
  <2>2. Delimits(c + 1) <=> szCmd[c] \in {Apos, Quot} \/ (szCmd[c] \in Blanks /\ ~ bStrStart)
    BY <2>1 DEF Delimits
  <2> QED BY <1>2, <1>3, <2>1, <2>2, Kinds
<1>4. CASE ~ (c < Len(input))
  <2>1. szCmd[c] = Nul
    BY <1>1, <1>4, Present
  <2> QED BY <1>2, <1>4, <2>1, NulKind
<1> QED BY <1>3, <1>4

(* A branch that goes on leaves the cells and flags as ReadTo says.        *)
LEMMA MovesOn ==
  ASSUME TypeOK, NEW c \in 0 .. Len(input), ReadTo(c), pc = "scan",
         Apostrophe \/ Quote \/ Separator \/ Other \/ NewWord
  PROVE  (Reading' \/ Again') /\ pc' = "scan"
<1>1. /\ count = c /\ szCmd[c] \in Char /\ input' = input /\ count' = NextCount /\ pc' = "scan"
      /\ bStrStart \in BOOLEAN /\ bCharStart \in BOOLEAN
  BY Present DEF TypeOK, Apostrophe, Quote, Separator, Other, NewWord, Scanning
<1>2. szCmd' = IF c < Len(input) /\ Delimits(c + 1) THEN [szCmd EXCEPT ![c] = Nul] ELSE szCmd
  <2>1. CASE Apostrophe \/ Quote
    BY <1>1, <2>1, Delimited DEF Apostrophe, Quote, Scanning, Cut
  <2>2. CASE Separator
    BY <1>1, <2>2, Delimited DEF Separator, Scanning, Cut, Kept
  <2>3. CASE Other \/ NewWord
    BY <1>1, <2>3, Delimited DEF Other, NewWord, Scanning
  <2> QED BY <2>1, <2>2, <2>3
<1>3. CellsTo(c + 1)'
  BY <1>1, <1>2, CellsStep
<1>4. QuotesTo(c + 1)'
  <2>1. CASE Apostrophe
    <3>1. szCmd[c] = Apos /\ szCmd[c] # Quot
      BY <1>1, <2>1, RunCmdAssumption DEF Apostrophe, Scanning
    <3>2. /\ bStrStart' = bStrStart /\ bCharStart' = ~ bCharStart
          /\ chStartCnt' = IF bCharStart THEN chStartCnt ELSE c
      BY <1>1, <2>1 DEF Apostrophe
    <3> QED BY <1>1, <3>1, <3>2, QuotesStep
  <2>2. CASE Quote
    <3>1. szCmd[c] = Quot /\ szCmd[c] # Apos
      BY <1>1, <2>2, RunCmdAssumption DEF Quote, Scanning
    <3>2. bStrStart' = ~ bStrStart /\ bCharStart' = bCharStart /\ chStartCnt' = chStartCnt
      BY <2>2 DEF Quote
    <3> QED BY <1>1, <3>1, <3>2, QuotesStep
  <2>3. CASE Separator \/ Other \/ NewWord
    <3>1. szCmd[c] # Quot /\ szCmd[c] # Apos
      BY <1>1, <2>3, Kinds DEF Separator, Other, NewWord, Scanning
    <3>2. bStrStart' = bStrStart /\ bCharStart' = bCharStart /\ chStartCnt' = chStartCnt
      BY <2>3 DEF Separator, Other, NewWord
    <3> QED BY <1>1, <3>1, <3>2, QuotesStep
  <2> QED BY <2>1, <2>2, <2>3
<1>5. ~ LongTo(c + 1)
  <2>1. ~ (szCmd[c] = Apos /\ TooLong)
    <3>1. CASE Apostrophe
      BY <3>1 DEF Apostrophe
    <3>2. CASE Quote \/ Separator \/ Other \/ NewWord
      BY <1>1, <3>2, Kinds DEF Quote, Separator, Other, NewWord, Scanning
    <3> QED BY <3>1, <3>2
  <2> QED BY <2>1, LongStep
<1>6. WordsTo(c + 1)'
  <2>1. CASE NewWord
    <3>1. /\ c + 1 \in WordStarts
          /\ raw' = Append(raw, [at |-> c, bInQuote |-> bStrStart, bIsChar |-> bCharStart])
      BY <1>1, <2>1, StartsHere DEF NewWord, Scanning
    <3> QED BY <1>1, <3>1, WordsStep
  <2>2. CASE Apostrophe \/ Quote \/ Separator \/ Other
    <3>1. raw' = raw
      BY <2>2 DEF Apostrophe, Quote, Separator, Other
    <3>2. ~ (szCmd[c] \in Others /\ BeginsWord)
      BY <1>1, <2>2, Kinds DEF Apostrophe, Quote, Separator, Other, Scanning
    <3>3. c + 1 \notin WordStarts
      BY <3>2, StartsHere
    <3> QED BY <1>1, <3>1, <3>3, WordsStep
  <2> QED BY <2>1, <2>2
<1> QED BY <1>1, <1>3, <1>4, <1>5, <1>6, GoesOn

(* At the end of the line the flags tell whether its quotes are balanced,  *)
(* no literal was too long and every word was taken.                       *)
LEMMA AtEnd ==
  ASSUME TypeOK, Reading, count >= cmdLen
  PROVE  \E c \in Nat :
           /\ c = Len(input) + 1 /\ ReadTo(c) /\ StartsTo(c) = WordStarts
           /\ ~ LongLiteral /\ (Balanced <=> ~ bStrStart /\ ~ bCharStart)
<1>1. PICK c \in 0 .. cmdLen : ReadTo(c)
  BY DEF Reading
<1>2. c = Len(input) + 1 /\ c \in Nat /\ Len(input) \in Nat
  BY <1>1, LineFacts DEF ReadTo
<1>3. StartsTo(c) = WordStarts
  BY <1>2 DEF StartsTo, WordStarts
<1>4. ~ LongLiteral
  BY <1>1, <1>2 DEF ReadTo, LongTo, LongPair, LongLiteral
<1>5. Balanced <=> ~ bStrStart /\ ~ bCharStart
  <2>1. Here(c) = c /\ c \in 1 .. Len(input) + 1
    BY <1>2 DEF Here
  <2>2. (bStrStart <=> Inside(Quot, c)) /\ (bCharStart <=> Inside(Apos, c))
    BY <1>1, <2>1 DEF ReadTo, QuotesTo
  <2> QED BY <1>2, <2>2 DEF Balanced
<1> QED BY <1>1, <1>2, <1>3, <1>4, <1>5

(* What was read stays when the cells stay.                                *)
LEMMA ReadStays ==
  ASSUME UNCHANGED <<input, szCmd, count, chStartCnt, bStrStart, bCharStart, raw>>
  PROVE  /\ Reading => Reading'
         /\ Again => Again'
         /\ \A i : ParamOf(raw[i])' = ParamOf(raw[i])
<1>1. ASSUME NEW c \in 0 .. cmdLen, ReadTo(c) PROVE ReadTo(c)'
  <2>1. CellsTo(c)' /\ ~ LongTo(c)'
    BY <1>1, SameLine DEF ReadTo, CellsTo
  <2>2. QuotesTo(c)'
    BY <1>1, SameLine DEF ReadTo, QuotesTo
  <2>3. WordsTo(c)'
    BY <1>1, SameLine DEF ReadTo, WordsTo
  <2> QED BY <1>1, <2>1, <2>2, <2>3 DEF ReadTo
<1>2. Reading => Reading'
  BY <1>1, SameLine DEF Reading
<1>3. Again => Again'
  BY SameLine DEF Again
<1>4. \A i : ParamOf(raw[i])' = ParamOf(raw[i])
  <2>1. \A k : CString(k)' = CString(k)
    BY DEF CString, StrEnd
  <2>2. \A k : WordParse(k)' = WordParse(k)
    BY <2>1 DEF WordParse
  <2> QED BY <2>2 DEF ParamOf
<1> QED BY <1>2, <1>3, <1>4

LEMMA ParsedStays ==
  ASSUME UNCHANGED <<input, szCmd, count, chStartCnt, bStrStart, bCharStart, raw, para>>
  PROVE  Parsed => Parsed'
<1> SUFFICES ASSUME Parsed PROVE Parsed'
  OBVIOUS
<1>1. Reading' /\ cmdLen' = cmdLen /\ \A i : ParamOf(raw[i])' = ParamOf(raw[i])
  BY ReadStays, SameLine DEF Parsed
<1>2. para' = [i \in 1 .. MaxParas |-> IF i <= Len(raw') THEN ParamOf(raw[i])' ELSE Zero]
  BY <1>1 DEF Parsed
<1> QED BY <1>1, <1>2 DEF Parsed

LEMMA ReadingStep ==
  ASSUME IInv, Reading, pc = "scan", Scan
  PROVE  IInv'
<1>1. TypeOK /\ TypeOK' /\ input' = input
  BY ScanTypes DEF IInv, Scan, NoClient, Apostrophe, LiteralTooLong, Quote, Separator, Other, NewWord,
                   WordOverrun, Unbalanced, Convert, Scanning
<1>2. CASE NoClient
  BY <1>1, <1>2 DEF NoClient, IInv, Ran
<1>3. CASE count < cmdLen
  <2>1. PICK c \in 0 .. Len(input) : ReadTo(c) /\ count = c
    BY <1>1, <1>3, LineFacts DEF Reading, ReadTo
  <2>2. CASE Apostrophe \/ Quote \/ Separator \/ Other \/ NewWord
    BY <1>1, <2>1, <2>2, MovesOn DEF IInv, Ran
  <2>3. CASE LiteralTooLong
    <3>1. szCmd[c] = Apos /\ TooLong /\ pc' = "reject"
      BY <2>1, <2>3 DEF LiteralTooLong, Scanning
    <3>2. c < Len(input) /\ c \in Nat /\ Len(input) \in Nat
      BY <1>1, <2>1, <3>1, Delimited, LineFacts
    <3>3. PICK i \in 1 .. Len(input) : LongPair(i, c + 1)
      BY <1>1, <2>1, <3>1, LongHere
    <3>4. LongLiteral
      BY <3>2, <3>3 DEF LongLiteral, LongPair
    <3> QED BY <1>1, <3>1, <3>4, SameLine DEF IInv, Ran
  <2>4. CASE WordOverrun
    <3>1. szCmd[c] \in Others /\ BeginsWord /\ Len(raw) >= MaxParas /\ pc' = "corrupt"
      BY <2>1, <2>4 DEF WordOverrun, Scanning, ArrayFull
    <3>2. c + 1 \in WordStarts
      BY <1>1, <2>1, <3>1, StartsHere
    <3>3. Cardinality(StartsTo(c + 1)) = Cardinality(StartsTo(c)) + 1
      BY <1>1, <3>2, StartsStep
    <3>4. Len(raw) = Cardinality(StartsTo(c))
      BY <2>1 DEF ReadTo, WordsTo
    <3>5. /\ Cardinality(StartsTo(c + 1)) <= Cardinality(WordStarts)
          /\ Cardinality(StartsTo(c)) \in Nat /\ Cardinality(WordStarts) \in Nat /\ MaxParas \in Nat
      BY <1>1, FiniteStarts, RunCmdAssumption
    <3>6. Cardinality(WordStarts) > MaxParas
      BY <3>1, <3>3, <3>4, <3>5
    <3> QED BY <1>1, <3>1, <3>6, SameLine DEF IInv, Ran
  <2>5. ~ Unbalanced /\ ~ Convert
    BY <1>1, <1>3, <2>1, LineFacts DEF Unbalanced, Convert
  <2> QED BY <1>2, <2>2, <2>3, <2>4, <2>5 DEF Scan
<1>4. CASE ~ (count < cmdLen)
  <2>1. count >= cmdLen
    BY <1>1, <1>4, LineFacts DEF TypeOK, Index
  <2>2. CASE Unbalanced
    <3>1. ~ Balanced /\ pc' = "reject"
      BY <1>1, <2>1, <2>2, AtEnd DEF Unbalanced
    <3> QED BY <1>1, <3>1, SameLine DEF IInv, Ran
  <2>3. CASE Convert
    <3>1. /\ UNCHANGED <<szCmd, count, chStartCnt, bStrStart, bCharStart, raw>> /\ pc' = "parsed"
          /\ para' = [i \in 1 .. MaxParas |-> IF i <= Len(raw) THEN ParamOf(raw[i]) ELSE Zero]
          /\ ~ bStrStart /\ ~ bCharStart
      BY <2>3 DEF Convert
    <3>2. Parsed'
      <4>1. Reading' /\ \A i : ParamOf(raw[i])' = ParamOf(raw[i])
        BY <1>1, <3>1, ReadStays
      <4>2. para' = [i \in 1 .. MaxParas |-> IF i <= Len(raw') THEN ParamOf(raw[i])' ELSE Zero]
        BY <3>1, <4>1
      <4>3. count' >= cmdLen' /\ ~ bStrStart' /\ ~ bCharStart'
        BY <1>1, <2>1, <3>1, SameLine
      <4> QED BY <4>1, <4>2, <4>3 DEF Parsed
    <3> QED BY <1>1, <3>1, <3>2 DEF IInv, Ran
  <2>4. ~ (Apostrophe \/ LiteralTooLong \/ Quote \/ Separator \/ Other \/ NewWord \/ WordOverrun)
    BY <1>4 DEF Apostrophe, LiteralTooLong, Quote, Separator, Other, NewWord, WordOverrun, Scanning
  <2> QED BY <1>2, <2>2, <2>3, <2>4 DEF Scan
<1> QED BY <1>3, <1>4

-----------------------------------------------------------------------------
LEMMA StepInv == IInv /\ [Next]_vars => IInv'
<1> SUFFICES ASSUME IInv, [Next]_vars PROVE IInv'
  OBVIOUS
<1>1. CASE Scan
  <2>1. pc = "scan"
    BY <1>1 DEF Scan, NoClient, Apostrophe, LiteralTooLong, Quote, Separator, Other, NewWord, WordOverrun,
                Unbalanced, Convert, Scanning
  <2> QED BY <1>1, <2>1, ReadingStep, AgainStep DEF IInv
<1>2. CASE RunBye \/ RunHelp \/ FindCommand \/ NotFound
  <2>1. /\ pc = "parsed" /\ pc' \in Ran /\ pc' \in {"bye", "help", "called", "unknown"}
        /\ UNCHANGED <<input, szCmd, count, chStartCnt, bStrStart, bCharStart, raw, para>>
        /\ client' = (client /\ pc' # "bye")
    BY <1>2 DEF RunBye, RunHelp, FindCommand, NotFound, Run, Ran
  <2>2. client' \in BOOLEAN
    BY <2>1, Zenon
  <2>3. TypeOK'
    BY <2>1, <2>2 DEF IInv, TypeOK, Ran
  <2>4. Parsed'
    BY <2>1, ParsedStays DEF IInv
  <2> QED BY <2>1, <2>3, <2>4 DEF IInv
<1>3. CASE UNCHANGED vars
  <2>1. UNCHANGED <<input, szCmd, count, chStartCnt, bStrStart, bCharStart, raw, para>> /\ pc' = pc
    BY <1>3 DEF vars
  <2>2. TypeOK'
    BY <1>3 DEF IInv, TypeOK, vars
  <2>3. (Parsed => Parsed') /\ (Reading \/ Again => Reading' \/ Again')
    BY <2>1, ParsedStays, ReadStays
  <2> QED BY <2>1, <2>2, <2>3, SameLine DEF IInv
<1> QED BY <1>1, <1>2, <1>3 DEF Next

-----------------------------------------------------------------------------
(* The inductive invariant holds in every reachable state.                 *)
THEOREM Invariance == Spec => []IInv
BY InitInv, StepInv, PTL DEF Spec

(* The index stays in the line, the array of words in its cells and every  *)
(* parameter a value.                                                      *)
THEOREM TypeCorrect == Spec => []TypeOK
<1>1. IInv => TypeOK
  BY DEF IInv
<1> QED BY <1>1, Invariance, PTL

(* What VerdictMatches says of the lines that are refused, run and overrun *)
(* holds for a line of any length that the index can number.               *)
THEOREM VerdictIsRight == Spec => []VerdictMatches
<1>1. IInv => VerdictMatches
  <2> SUFFICES ASSUME IInv PROVE VerdictMatches
    OBVIOUS
  <2>1. pc \in Ran => Balanced /\ ~ LongLiteral
    BY AtEnd DEF IInv, Parsed
  <2> QED BY <2>1 DEF IInv, VerdictMatches
<1> QED BY <1>1, Invariance, PTL

(* Every word has an end, and it is the first delimiter behind it.         *)
LEMMA HasEnd ==
  ASSUME TypeOK, NEW k \in 1 .. Len(input) + 1
  PROVE  \E e \in k .. Len(input) + 1 :
           /\ e = WordEnd(k)
           /\ e <= Len(input) => Delimits(e)
           /\ \A i \in k .. e - 1 : ~ Delimits(i)
<1> DEFINE E == {j \in k .. Len(input) + 1 : j <= Len(input) => Delimits(j)}
<1>1. Len(input) \in Nat /\ k \in Nat
  BY LineFacts
<1>2. Len(input) + 1 \in E /\ E \subseteq Nat
  BY <1>1
<1>3. PICK e \in E : \A j \in E : ~ (<<j, e>> \in OpToRel(<, Nat))
  BY <1>2, NatLessThanWellFounded, WFMin
<1>4. \A j \in E : ~ (j < e)
  BY <1>2, <1>3 DEF OpToRel
<1>5. e \in k .. Len(input) + 1 /\ (e <= Len(input) => Delimits(e)) /\ \A i \in k .. e - 1 : ~ Delimits(i)
  BY <1>1, <1>4
<1> QED BY <1>5 DEF WordEnd

(* The cells of a word hold its text, and a NUL follows.                   *)
LEMMA WordText ==
  ASSUME TypeOK, Parsed, NEW k \in 1 .. Len(input) + 1
  PROVE  CString(k - 1) = SubSeq(input, k, WordEnd(k) - 1)
<1>1. PICK e \in k .. Len(input) + 1 :
        /\ e = WordEnd(k)
        /\ e <= Len(input) => Delimits(e)
        /\ \A i \in k .. e - 1 : ~ Delimits(i)
  BY HasEnd
<1>2. /\ Len(input) \in Nat /\ k \in Nat /\ e \in Nat /\ k >= 1 /\ k <= e /\ e <= Len(input) + 1
      /\ input \in Seq(Typed)
      /\ \A i \in 1 .. Len(input) : input[i] # Nul
  BY LineFacts
<1>3. \A i \in 0 .. Len(input) :
        szCmd[i] = IF i < Len(input) /\ ~ Delimits(i + 1) THEN input[i + 1] ELSE Nul
  <2>1. PICK c \in Nat : c = Len(input) + 1 /\ ReadTo(c)
    BY AtEnd DEF Parsed
  <2> QED BY <1>2, <2>1 DEF ReadTo, CellsTo, CellOf
<1>4. szCmd[e - 1] = Nul /\ \A i \in k - 1 .. e - 2 : szCmd[i] = input[i + 1] /\ szCmd[i] # Nul
  <2>1. e - 1 \in 0 .. Len(input) /\ (e - 1) + 1 = e /\ (e - 1 < Len(input) => e <= Len(input))
    BY <1>2
  <2>2. szCmd[e - 1] = Nul
    BY <1>1, <1>3, <2>1
  <2>3. ASSUME NEW i \in k - 1 .. e - 2 PROVE szCmd[i] = input[i + 1] /\ szCmd[i] # Nul
    <3>1. i \in 0 .. Len(input) /\ i < Len(input) /\ i + 1 \in k .. e - 1 /\ i + 1 \in 1 .. Len(input)
      BY <1>2
    <3> QED BY <1>1, <1>2, <1>3, <3>1
  <2> QED BY <2>2, <2>3
<1>5. StrEnd(k - 1) = e - 1
  <2> DEFINE Ends(j) == szCmd[j] = Nul /\ \A i \in k - 1 .. j - 1 : szCmd[i] # Nul
  <2>1. e - 1 \in k - 1 .. Len(input) /\ Ends(e - 1)
    BY <1>2, <1>4
  <2>2. \A j \in k - 1 .. Len(input) : Ends(j) => j = e - 1
    BY <1>2, <1>4
  <2> HIDE DEF Ends
  <2>3. (CHOOSE j \in k - 1 .. Len(input) : Ends(j)) = e - 1
    BY <2>1, <2>2
  <2> QED BY <2>3 DEF StrEnd, Ends
<1>6. CString(k - 1) = [i \in 1 .. e - k |-> input[k + i - 1]]
  <2>1. CString(k - 1) = [i \in 1 .. (e - 1) - (k - 1) |-> szCmd[(k - 1) + i - 1]]
    BY <1>5 DEF CString
  <2>2. (e - 1) - (k - 1) = e - k
    BY <1>2
  <2>3. \A i \in 1 .. e - k : szCmd[(k - 1) + i - 1] = input[k + i - 1]
    <3> SUFFICES ASSUME NEW i \in 1 .. e - k PROVE szCmd[(k - 1) + i - 1] = input[k + i - 1]
      OBVIOUS
    <3>1. PICK x \in k - 1 .. e - 2 : x = (k - 1) + i - 1 /\ x + 1 = k + i - 1
      BY <1>2
    <3> QED BY <1>4, <3>1
  <2> QED BY <2>1, <2>2, <2>3
<1>7. SubSeq(input, k, e - 1) = [i \in 1 .. e - k |-> input[k + i - 1]]
  <2>1. k \in 1 .. Len(input) + 1 /\ e - 1 \in k - 1 .. Len(input) /\ (e - 1) - k + 1 = e - k
    BY <1>2
  <2> QED BY <1>2, <2>1
<1> QED BY <1>1, <1>6, <1>7

(* atoi and the test for a zero tell the words that begin with a number.   *)
LEMMA NumbersAreSeen ==
  ASSUME NEW word \in Seq(Typed)
  PROVE  NonZero(word) \/ (word # <<>> /\ word[1] = Naught) <=> Numeral(word) /\ ~ SignedZero(word)
<1>1. Len(word) \in Nat /\ (word # <<>> <=> Len(word) >= 1)
  OBVIOUS
<1>2. Naught \notin Digit \cup Sign /\ Sign \cap Digit = {}
  BY RunCmdAssumption
<1>3. CASE word = <<>>
  BY <1>1, <1>3 DEF NonZero, Numeral
<1>4. CASE word # <<>> /\ word[1] \in Sign
  <2>1. ASSUME NonZero(word) PROVE Numeral(word) /\ ~ SignedZero(word)
    <3>1. PICK i \in 1 .. Len(word) :
            /\ word[i] \in Digit
            /\ \A j \in 1 .. i - 1 : word[j] = Naught \/ (j = 1 /\ word[j] \in Sign)
      BY <2>1 DEF NonZero
    <3>2. i # 1
      BY <1>2, <1>4, <3>1
    <3>3. i \in 2 .. Len(word) /\ \A j \in 2 .. i - 1 : word[j] = Naught
      BY <1>1, <3>1, <3>2
    <3>4. 2 <= Len(word) /\ word[2] \in Digit \cup {Naught}
      BY <1>1, <3>1, <3>3
    <3> QED BY <1>4, <3>1, <3>3, <3>4 DEF Numeral, SignedZero
  <2>2. ASSUME ~ SignedZero(word) PROVE NonZero(word)
    <3>1. PICK i \in 2 .. Len(word) : word[i] \in Digit /\ \A j \in 2 .. i - 1 : word[j] = Naught
      BY <1>4, <2>2 DEF SignedZero
    <3>2. i \in 1 .. Len(word) /\ \A j \in 1 .. i - 1 : j = 1 \/ j \in 2 .. i - 1
      BY <1>1, <3>1
    <3> QED BY <1>4, <3>1, <3>2 DEF NonZero
  <2> QED BY <1>2, <1>4, <2>1, <2>2
<1>5. CASE word # <<>> /\ word[1] \notin Sign
  <2>1. ~ SignedZero(word) /\ (Numeral(word) <=> word[1] \in Digit \cup {Naught})
    BY <1>1, <1>5 DEF SignedZero, Numeral
  <2>2. ASSUME NonZero(word) PROVE word[1] \in Digit \cup {Naught}
    <3>1. PICK i \in 1 .. Len(word) :
            /\ word[i] \in Digit
            /\ \A j \in 1 .. i - 1 : word[j] = Naught \/ (j = 1 /\ word[j] \in Sign)
      BY <2>2 DEF NonZero
    <3>2. CASE i = 1
      BY <3>1, <3>2
    <3>3. CASE i # 1
      <4>1. 1 \in 1 .. i - 1
        BY <1>1, <3>1, <3>3
      <4> QED BY <1>5, <3>1, <4>1
    <3> QED BY <3>2, <3>3
  <2>3. ASSUME word[1] \in Digit PROVE NonZero(word)
    <3>1. 1 \in 1 .. Len(word) /\ 1 .. 1 - 1 = {}
      BY <1>1, <1>5
    <3> QED BY <2>3, <3>1 DEF NonZero
  <2> QED BY <1>5, <2>1, <2>2, <2>3
<1> QED BY <1>3, <1>4, <1>5

LEMMA HeadOfWord ==
  ASSUME TypeOK, Parsed, NEW k \in 1 .. Len(input) + 1
  PROVE  LET word == SubSeq(input, k, WordEnd(k) - 1)
         IN  NonZero(word) \/ szCmd[k - 1] = Naught <=> Numeral(word) /\ ~ SignedZero(word)
<1> DEFINE word == SubSeq(input, k, WordEnd(k) - 1)
<1>1. PICK e \in k .. Len(input) + 1 :
        /\ e = WordEnd(k)
        /\ e <= Len(input) => Delimits(e)
        /\ \A i \in k .. e - 1 : ~ Delimits(i)
  BY HasEnd
<1>2. /\ Len(input) \in Nat /\ k \in Nat /\ e \in Nat /\ k >= 1 /\ k <= e /\ e <= Len(input) + 1
      /\ input \in Seq(Typed)
  BY LineFacts
<1>3. word \in Seq(Typed) /\ Len(word) = e - k /\ (k < e => word[1] = input[k])
  <2>1. word = SubSeq(input, k, e - 1) /\ e - 1 \in k - 1 .. Len(input)
    BY <1>1, <1>2
  <2>2. word \in Seq(Typed) /\ Len(word) = e - k /\ \A i \in 1 .. e - k : word[i] = input[k + i - 1]
    <3>1. \A i \in k .. e - 1 : i \in 1 .. Len(input) /\ input[i] \in Typed
      BY <1>2
    <3>2. PICK z \in Int : z = e - 1
      BY <1>2
    <3>3. /\ SubSeq(input, k, z) \in Seq(Typed)
          /\ Len(SubSeq(input, k, z)) = IF k <= z THEN z - k + 1 ELSE 0
          /\ \A i \in 1 .. z - k + 1 : SubSeq(input, k, z)[i] = input[k + i - 1]
      <4>1. k \in Int /\ \A i \in k .. z : input[i] \in Typed
        BY <1>2, <3>1, <3>2
      <4> QED BY <3>2, <4>1, SubSeqProperties
    <3>4. z - k + 1 = e - k /\ (~ (k <= z) => e - k = 0)
      BY <1>2, <3>2
    <3>5. word = SubSeq(input, k, z)
      BY <2>1, <3>2
    <3> HIDE DEF word
    <3> QED BY <3>3, <3>4, <3>5
  <2>3. k < e => 1 \in 1 .. e - k /\ k + 1 - 1 = k
    BY <1>2
  <2> QED BY <2>2, <2>3
<1>4. szCmd[k - 1] = IF k <= Len(input) /\ ~ Delimits(k) THEN input[k] ELSE Nul
  <2>1. PICK c \in Nat : c = Len(input) + 1 /\ ReadTo(c)
    BY AtEnd DEF Parsed
  <2>2. k - 1 \in 0 .. Len(input) /\ (k - 1) + 1 = k /\ (k - 1 < Len(input) <=> k <= Len(input))
    BY <1>2
  <2> QED BY <2>1, <2>2, <1>2 DEF ReadTo, CellsTo, CellOf
<1>5. k < e <=> k <= Len(input) /\ ~ Delimits(k)
  BY <1>1, <1>2
<1>6. szCmd[k - 1] = Naught <=> word # <<>> /\ word[1] = Naught
  <2>1. CASE k < e
    <3>1. szCmd[k - 1] = word[1] /\ word # <<>>
      BY <1>2, <1>3, <1>4, <1>5, <2>1
    <3> QED BY <3>1
  <2>2. CASE ~ (k < e)
    <3>1. szCmd[k - 1] = Nul /\ word = <<>>
      BY <1>2, <1>3, <1>4, <1>5, <2>2
    <3> QED BY <3>1, NulKind
  <2> QED BY <2>1, <2>2
<1>7. NonZero(word) \/ (word # <<>> /\ word[1] = Naught) <=> Numeral(word) /\ ~ SignedZero(word)
  BY <1>3, NumbersAreSeen
<1> QED BY <1>6, <1>7, Zenon

(* What ParamsMatch says of the parameters holds for any line that the     *)
(* index can number, any number of parameters and any alphabet.            *)
THEOREM ParamsAreRight == Spec => []ParamsMatch
<1>1. IInv => ParamsMatch
  <2> SUFFICES ASSUME IInv, pc \in Ran PROVE ParamsMatch
    BY DEF ParamsMatch
  <2>1. /\ TypeOK /\ Parsed /\ Len(raw) \in Nat /\ Len(raw) <= MaxParas /\ raw \in Seq(RawPara)
        /\ MaxParas \in Nat
        /\ para = [i \in 1 .. MaxParas |-> IF i <= Len(raw) THEN ParamOf(raw[i]) ELSE Zero]
    BY RunCmdAssumption DEF IInv, TypeOK, Parsed
  <2>2. PICK c \in Nat : c = Len(input) + 1 /\ ReadTo(c) /\ StartsTo(c) = WordStarts
    BY <2>1, AtEnd DEF Parsed
  <2>3. /\ \A k \in WordStarts : \E i \in 1 .. Len(raw) : raw[i].at + 1 = k
        /\ \A i \in 1 .. Len(raw) :
             \E k \in WordStarts :
               /\ k = raw[i].at + 1
               /\ raw[i].bInQuote <=> Inside(Quot, k)
               /\ raw[i].bIsChar <=> Inside(Apos, k)
        /\ \A i, j \in 1 .. Len(raw) : i < j => raw[i].at < raw[j].at
    BY <2>2 DEF ReadTo, WordsTo
  <2>4. {raw[i].at + 1 : i \in 1 .. Len(raw)} = WordStarts
    BY <2>3
  <2>5. \A i \in 1 .. Len(raw) - 1 : raw[i].at < raw[i + 1].at
    <3> SUFFICES ASSUME NEW i \in 1 .. Len(raw) - 1 PROVE raw[i].at < raw[i + 1].at
      OBVIOUS
    <3>1. PICK j \in 1 .. Len(raw) : j = i + 1 /\ i < j /\ i \in 1 .. Len(raw)
      BY <2>1
    <3> QED BY <2>3, <3>1
  <2>6. ASSUME NEW i \in 1 .. Len(raw)
        PROVE  LET k    == raw[i].at + 1
                   word == SubSeq(input, k, WordEnd(k) - 1)
                   kind == IF Inside(Quot, k) THEN "pointer"
                           ELSE IF Inside(Apos, k) THEN "char"
                           ELSE IF Numeral(word) /\ ~ SignedZero(word) THEN "number"
                           ELSE "truncated"
               IN  CString(raw[i].at) = word /\ para[i] = [kind |-> kind, at |-> k - 1]
    <3>1. PICK k \in WordStarts :
            /\ k = raw[i].at + 1
            /\ raw[i].bInQuote <=> Inside(Quot, k)
            /\ raw[i].bIsChar <=> Inside(Apos, k)
      BY <2>3
    <3>2. k \in 1 .. Len(input) + 1 /\ k \in Nat /\ Len(input) \in Nat
      BY <2>1, LineFacts DEF WordStarts
    <3>3. raw[i] \in RawPara /\ raw[i].at = k - 1 /\ i \in 1 .. MaxParas /\ i <= Len(raw)
      <4>1. raw[i] \in RawPara
        BY <2>1
      <4>2. raw[i].at \in Int
        BY <4>1, RunCmdAssumption DEF RawPara, Index
      <4> QED BY <2>1, <3>1, <4>1, <4>2
    <3> DEFINE word == SubSeq(input, k, WordEnd(k) - 1)
    <3>4. CString(k - 1) = word
      BY <2>1, <3>2, WordText
    <3>5. para[i] = IF Inside(Quot, k) THEN [kind |-> "pointer", at |-> k - 1]
                    ELSE IF Inside(Apos, k) THEN [kind |-> "char", at |-> k - 1]
                    ELSE WordParse(k - 1)
      <4>1. para[i] = ParamOf(raw[i])
        BY <2>1, <3>3
      <4> QED BY <3>1, <3>3, <4>1 DEF ParamOf
    <3>6. NonZero(word) \/ szCmd[k - 1] = Naught <=> Numeral(word) /\ ~ SignedZero(word)
      BY <2>1, <3>2, HeadOfWord, Zenon
    <3>7. WordParse(k - 1) = [kind |-> IF Numeral(word) /\ ~ SignedZero(word) THEN "number" ELSE "truncated",
                              at |-> k - 1]
      BY <3>4, <3>6, Zenon DEF WordParse
    <3> HIDE DEF word
    <3>8. para[i] = [kind |-> IF Inside(Quot, k) THEN "pointer"
                              ELSE IF Inside(Apos, k) THEN "char"
                              ELSE IF Numeral(word) /\ ~ SignedZero(word) THEN "number"
                              ELSE "truncated",
                     at |-> k - 1]
      BY <3>5, <3>7
    <3> QED BY <3>1, <3>3, <3>4, <3>8, Zenon DEF word
  <2>7. \A i \in Len(raw) + 1 .. MaxParas : para[i] = Zero
    BY <2>1
  <2> QED BY <2>4, <2>5, <2>6, <2>7 DEF ParamsMatch
<1> QED BY <1>1, Invariance, PTL
=============================================================================
