------------------------------- MODULE RunCmd -------------------------------
(***************************************************************************)
(* RunCmd: the line that CmdParse hands over is cut into words in place,   *)
(* the words become the ten parameters of a callback, and the first word   *)
(* names the callback.  Quotes and separators are overwritten with NUL, a  *)
(* character behind a NUL begins a word; the first word has no NUL before  *)
(* it and is the name.                                                     *)
(*                                                                         *)
(* The index is an unsigned char, the array of words has MaxParas cells,   *)
(* and the loop runs over the NUL that ends the line, too.                 *)
(***************************************************************************)
EXTENDS Integers, Sequences, FiniteSets

CONSTANTS
  Letter,      (* characters with no meaning for RunCmd or for atoi          *)
  Digit,       (* the digits but 0                                           *)
  Naught,      (* the digit 0                                                *)
  Sign,        (* plus and minus                                             *)
  Blanks,      (* comma, blank, tabulator, new line, parentheses             *)
  Apos, Quot,  (* single and double quote                                    *)
  Nul,
  Wrap,        (* 256, the values of an unsigned char                        *)
  MaxParas,    (* 10                                                         *)
  MaxLine,     (* bound on the length of a line                              *)
  Bye, TelHelp,
  Table        (* the names in cmdFunTable_                                  *)

WordChar == Letter \cup Digit \cup {Naught} \cup Sign
Typed    == WordChar \cup Blanks \cup {Apos, Quot}
Char     == Typed \cup {Nul}

ASSUME RunCmdAssumption ==
  /\ Nul \notin Typed /\ Apos # Quot
  /\ WordChar \cap (Blanks \cup {Apos, Quot}) = {}
  /\ Naught \notin Letter \cup Digit \cup Sign
  /\ Sign \cap Digit = {}
  /\ Blanks \cap {Apos, Quot} = {}
  /\ Wrap \in Nat \ {0} /\ MaxParas \in Nat /\ MaxLine \in 0 .. Wrap - 1
  /\ {Bye, TelHelp} \cup Table \subseteq Seq(WordChar) /\ Bye # TelHelp

VARIABLES
  input,       (* the line                                                   *)
  client,      (* isHaveTelnetClient()                                       *)
  szCmd, count, chStartCnt, bStrStart, bCharStart,
  raw,         (* the cells of atRawPara in use; paraNum is their number     *)
  pc,          (* "scan", then how the call went on                          *)
  para         (* the parameters of the callback                             *)

vars == <<input, client, szCmd, count, chStartCnt, bStrStart, bCharStart, raw, pc, para>>

cmdLen  == Len(input) + 1
Index   == 0 .. Wrap - 1
RawPara == [at : Index, bInQuote : BOOLEAN, bIsChar : BOOLEAN]

(* A parameter: zero, the address of a cell, such an address cut down to   *)
(* an int, a character or a number.                                        *)
Zero  == [kind |-> "zero", at |-> 0]
Value == {Zero} \cup [kind : {"pointer", "truncated", "char", "number"}, at : Index]

(* What a line that was parsed came to. *)
Ran == {"bye", "help", "called", "unknown"}

Lines == UNION {[1 .. n -> Typed] : n \in 0 .. MaxLine}

TypeOK ==
  /\ input \in Lines /\ client \in BOOLEAN
  /\ szCmd \in [0 .. Len(input) -> Char]
  /\ count \in Index /\ chStartCnt \in Index
  /\ bStrStart \in BOOLEAN /\ bCharStart \in BOOLEAN
  /\ raw \in Seq(RawPara) /\ Len(raw) <= MaxParas
  /\ pc \in {"scan", "reject", "corrupt", "noclient", "parsed"} \cup Ran
  /\ para \in Seq(Value)

(* CmdParse has stripped the head: a line is empty or begins with a letter *)
(* or a digit.                                                             *)
Init ==
  /\ input \in {s \in Lines : s = <<>> \/ s[1] \in Letter \cup Digit \cup {Naught}}
  /\ client \in BOOLEAN
  /\ szCmd = [i \in 0 .. Len(input) |-> IF i = Len(input) THEN Nul ELSE input[i + 1]]
  /\ count = 0 /\ chStartCnt = 0
  /\ bStrStart = FALSE /\ bCharStart = FALSE
  /\ raw = <<>> /\ para = <<>>
  /\ pc = "scan"

-----------------------------------------------------------------------------
(* The scan *)

NoClient ==
  /\ pc = "scan" /\ count = 0 /\ ~ client
  /\ pc' = "noclient"
  /\ UNCHANGED <<input, client, szCmd, count, chStartCnt, bStrStart, bCharStart, raw, para>>

(* while (count < cmdLen): with cmdLen = Wrap this never ends.             *)
StuckOnBlank == IF szCmd[count] \in Blanks /\ bStrStart THEN count ELSE (count + 1) % Wrap
NextCount    == (count + 1) % Wrap

(* switch (szCmd[count]) *)
Scanning(kinds) ==
  /\ pc = "scan" /\ client /\ count < cmdLen
  /\ szCmd[count] \in kinds
  /\ UNCHANGED <<input, client, para>>

Cut == szCmd' = [szCmd EXCEPT ![count] = Nul]

(* A character literal holds at most one character. *)
TooLongByTwo == bCharStart /\ count > chStartCnt + 3
TooLong      == bCharStart /\ count > chStartCnt + 2

Apostrophe ==
  /\ Scanning({Apos}) /\ ~ TooLong
  /\ Cut
  /\ chStartCnt' = IF bCharStart THEN chStartCnt ELSE count
  /\ bCharStart' = ~ bCharStart
  /\ count' = NextCount
  /\ UNCHANGED <<bStrStart, raw, pc>>

LiteralTooLong ==
  /\ Scanning({Apos}) /\ TooLong
  /\ Cut
  /\ pc' = "reject"
  /\ UNCHANGED <<count, chStartCnt, bStrStart, bCharStart, raw>>

Quote ==
  /\ Scanning({Quot})
  /\ Cut
  /\ bStrStart' = ~ bStrStart
  /\ count' = NextCount
  /\ UNCHANGED <<chStartCnt, bCharStart, raw, pc>>

(* A separator inside a string stays. *)
NeverKept == FALSE
Kept      == bStrStart

Separator ==
  /\ Scanning(Blanks)
  /\ IF Kept THEN UNCHANGED szCmd ELSE Cut
  /\ count' = NextCount
  /\ UNCHANGED <<chStartCnt, bStrStart, bCharStart, raw, pc>>

(* The default branch, which the NULs also take. *)
Others     == WordChar \cup {Nul}
BeginsWord == count > 0 /\ szCmd[count - 1] = Nul
ArrayFull  == Len(raw) >= MaxParas

Other ==
  /\ Scanning(Others) /\ ~ BeginsWord
  /\ count' = NextCount
  /\ UNCHANGED <<szCmd, chStartCnt, bStrStart, bCharStart, raw, pc>>

NewWord ==
  /\ Scanning(Others) /\ BeginsWord /\ ~ ArrayFull
  /\ raw' = Append(raw, [at |-> count, bInQuote |-> bStrStart, bIsChar |-> bCharStart])
  /\ count' = NextCount
  /\ UNCHANGED <<szCmd, chStartCnt, bStrStart, bCharStart, pc>>

(* The break after the last parameter leaves the switch and not the loop:  *)
(* the next word is written behind the array.                              *)
WordOverrun ==
  /\ Scanning(Others) /\ BeginsWord /\ ArrayFull
  /\ pc' = "corrupt"
  /\ UNCHANGED <<szCmd, count, chStartCnt, bStrStart, bCharStart, raw>>

-----------------------------------------------------------------------------
(* After the scan *)

Unbalanced ==
  /\ pc = "scan" /\ client /\ count >= cmdLen
  /\ bStrStart \/ bCharStart
  /\ pc' = "reject"
  /\ UNCHANGED <<input, client, szCmd, count, chStartCnt, bStrStart, bCharStart, raw, para>>

(* The characters of the C string at cell k. *)
StrEnd(k)  == CHOOSE j \in k .. Len(input) :
                szCmd[j] = Nul /\ \A i \in k .. j - 1 : szCmd[i] # Nul
CString(k) == [i \in 1 .. StrEnd(k) - k |-> szCmd[k + i - 1]]

(* atoi(word) # 0: zeros and one sign may precede the first digit.  The    *)
(* numbers are those of an int.                                            *)
NonZero(word) ==
  \E i \in 1 .. Len(word) :
    /\ word[i] \in Digit
    /\ \A j \in 1 .. i - 1 : word[j] = Naught \/ (j = 1 /\ word[j] \in Sign)

(* A word that is no number gives its address, and the return type is int. *)
WordParse(k) ==
  [kind |-> IF NonZero(CString(k)) \/ szCmd[k] = Naught THEN "number" ELSE "truncated", at |-> k]

ParamOf(r) ==
  IF r.bInQuote THEN [kind |-> "pointer", at |-> r.at]
  ELSE IF r.bIsChar THEN [kind |-> "char", at |-> r.at]
  ELSE WordParse(r.at)

Convert ==
  /\ pc = "scan" /\ client /\ count >= cmdLen
  /\ ~ bStrStart /\ ~ bCharStart
  /\ para' = [i \in 1 .. MaxParas |-> IF i <= Len(raw) THEN ParamOf(raw[i]) ELSE Zero]
  /\ pc' = "parsed"
  /\ UNCHANGED <<input, client, szCmd, count, chStartCnt, bStrStart, bCharStart, raw>>

(* The built-in names come before the table. *)
Run(outcome) ==
  /\ pc = "parsed"
  /\ pc' = outcome
  /\ client' = (client /\ outcome # "bye")
  /\ UNCHANGED <<input, szCmd, count, chStartCnt, bStrStart, bCharStart, raw, para>>

RunBye     == CString(0) = Bye /\ Run("bye")
RunHelp    == CString(0) = TelHelp /\ Run("help")
FindCommand == CString(0) \in Table \ {Bye, TelHelp} /\ Run("called")
NotFound   == CString(0) \notin Table \cup {Bye, TelHelp} /\ Run("unknown")

-----------------------------------------------------------------------------
Scan ==
  \/ NoClient \/ Apostrophe \/ LiteralTooLong \/ Quote \/ Separator
  \/ Other \/ NewWord \/ WordOverrun \/ Unbalanced \/ Convert

Done == pc \in Ran \cup {"reject", "corrupt", "noclient"}

Next == Scan \/ RunBye \/ RunHelp \/ FindCommand \/ NotFound \/ (Done /\ UNCHANGED vars)

Spec == Init /\ [][Next]_vars

FairSpec == Spec /\ WF_vars(Next)

-----------------------------------------------------------------------------
(* The line read as the user means it, without the cells and the index.    *)
QuotesBefore(q, k) == Cardinality({i \in 1 .. k - 1 : input[i] = q})
Inside(q, k)       == QuotesBefore(q, k) % 2 = 1

(* Ends a word. *)
Delimits(k) == input[k] \in {Apos, Quot} \/ (input[k] \in Blanks /\ ~ Inside(Quot, k))

(* Where words begin; a delimiter at the end of the line is followed by an *)
(* empty one.                                                              *)
WordStarts ==
  {k \in 2 .. Len(input) + 1 :
     Delimits(k - 1) /\ (k <= Len(input) => input[k] \in WordChar)}

WordEnd(k) ==
  CHOOSE j \in k .. Len(input) + 1 :
    (j <= Len(input) => Delimits(j)) /\ \A i \in k .. j - 1 : ~ Delimits(i)

Balanced == ~ Inside(Quot, Len(input) + 1) /\ ~ Inside(Apos, Len(input) + 1)

(* A literal with more than one character between its quotes.              *)
LongLiteral ==
  \E i, j \in 1 .. Len(input) :
    /\ i + 2 < j /\ input[i] = Apos /\ input[j] = Apos
    /\ ~ Inside(Apos, i) /\ \A k \in i + 1 .. j - 1 : input[k] # Apos

(* A word that begins with a number, and a number that is a signed zero.   *)
Numeral(word) ==
  \E i \in 1 .. 2 :
    /\ i <= Len(word) /\ word[i] \in Digit \cup {Naught}
    /\ i = 2 => word[1] \in Sign
SignedZero(word) ==
  /\ word # <<>> /\ word[1] \in Sign
  /\ \A i \in 2 .. Len(word) : word[i] \in Digit => \E j \in 2 .. i - 1 : word[j] # Naught

(* The callback gets the words of the line, each once, in their order and  *)
(* in one piece, although the line is overwritten while it is read: a      *)
(* parameter is the text from where the word begins to the next delimiter. *)
(* Only a quoted word comes as an address that can be used; a literal is   *)
(* its character; of the rest exactly the words that begin with a number   *)
(* come as numbers, but a signed zero, and the address of any other is cut *)
(* down to an int, which telnetServ.cc warns of at :472.                   *)
ParamsMatch ==
  pc \in Ran =>
    /\ {raw[i].at + 1 : i \in 1 .. Len(raw)} = WordStarts
    /\ \A i \in 1 .. Len(raw) - 1 : raw[i].at < raw[i + 1].at
    /\ \A i \in 1 .. Len(raw) :
         LET k    == raw[i].at + 1
             word == SubSeq(input, k, WordEnd(k) - 1)
             kind == IF Inside(Quot, k) THEN "pointer"
                     ELSE IF Inside(Apos, k) THEN "char"
                     ELSE IF Numeral(word) /\ ~ SignedZero(word) THEN "number"
                     ELSE "truncated"
         IN  CString(raw[i].at) = word /\ para[i] = [kind |-> kind, at |-> k - 1]
    /\ \A i \in Len(raw) + 1 .. MaxParas : para[i] = Zero

(* A line is refused only for its quotes, and a line with open quotes or a *)
(* long literal is never run; the array of words is overrun only by a line *)
(* with more words than it has cells or by one that the index cannot       *)
(* reach the end of.                                                       *)
VerdictMatches ==
  /\ pc = "reject" => ~ Balanced \/ LongLiteral
  /\ pc \in Ran => Balanced /\ ~ LongLiteral
  /\ pc = "corrupt" => Cardinality(WordStarts) > MaxParas \/ cmdLen = Wrap

(* The scan ends, unless the line is exactly as long as the index counts.  *)
ScanEnds == (pc = "scan" /\ cmdLen < Wrap) ~> pc # "scan"
=============================================================================
