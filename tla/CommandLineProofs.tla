-------------------------- MODULE CommandLineProofs -------------------------
(***************************************************************************)
(* Proofs about CommandLine, for every alphabet, every width of cmdLen and *)
(* lines of every length.                                                  *)
(*                                                                         *)
(* RunsOwnKeys is not inductive.  OwnTail is why it holds: as soon as the  *)
(* first cell of the array is set, the first cmdLen cells are the last     *)
(* cmdLen keys of the line that the present client typed.  A character of  *)
(* an earlier client can only be missing below them, and then the first    *)
(* cell is NUL and the line is not run.                                    *)
(***************************************************************************)
EXTENDS CommandLine, TLAPS, FiniteSetTheorems

OwnTail ==
  command[0] # Nul =>
    /\ cmdLen <= Len(typed)
    /\ \A i \in 0 .. cmdLen - 1 : command[i] = typed[Len(typed) - cmdLen + i + 1]

IInv == TypeOK /\ LineMatches /\ OwnTail /\ RunsOwnKeys /\ CleanLineRuns

-----------------------------------------------------------------------------
(* The head that is stripped is a part of the string.                      *)
LEMMA HeadLenType ==
  ASSUME NEW s, Len(s) \in Nat
  PROVE  HeadLen(s) \in 0 .. Len(s)
<1> DEFINE S == {i \in 1 .. Len(s) : \A j \in 1 .. i : s[j] \notin Alnum}
<1>1. IsFiniteSet(1 .. Len(s)) /\ Cardinality(1 .. Len(s)) = Len(s)
  BY FS_Interval, SMTT(30)
<1>2. S \subseteq 1 .. Len(s)
  OBVIOUS
<1>3. IsFiniteSet(S) /\ Cardinality(S) <= Len(s)
  BY <1>1, <1>2, FS_Subset
<1>4. Cardinality(S) \in Nat
  BY <1>3, FS_CardinalityType
<1> HIDE DEF S
<1>5. Cardinality(S) \in 0 .. Len(s)
  BY <1>3, <1>4
<1> QED
  BY <1>5 DEF HeadLen, S

(* What is read of a string as a C string is a part of it.                 *)
LEMMA StrLenType ==
  ASSUME NEW s, Len(s) \in Nat
  PROVE  StrLen(s) \in 0 .. Len(s)
<1> DEFINE S == {i \in 1 .. Len(s) : \A j \in 1 .. i : s[j] # Nul}
<1>1. IsFiniteSet(1 .. Len(s)) /\ Cardinality(1 .. Len(s)) = Len(s)
  BY FS_Interval, SMTT(30)
<1>2. S \subseteq 1 .. Len(s)
  OBVIOUS
<1>3. IsFiniteSet(S) /\ Cardinality(S) <= Len(s)
  BY <1>1, <1>2, FS_Subset
<1>4. Cardinality(S) \in Nat
  BY <1>3, FS_CardinalityType
<1> HIDE DEF S
<1>5. Cardinality(S) \in 0 .. Len(s)
  BY <1>3, <1>4
<1> QED
  BY <1>5 DEF StrLen, S

(* A subsequence lies in the sequence it is taken from.                    *)
LEMMA SubSeqPart ==
  ASSUME NEW s \in Seq(Key), NEW m \in 1 .. Len(s) + 1, NEW n \in m - 1 .. Len(s)
  PROVE  SubSeq(s, m, n) \in Seq(Key) /\ PartOf(SubSeq(s, m, n), s)
<1> DEFINE r == SubSeq(s, m, n)
           l == Len(s)
<1>1. /\ l \in Nat /\ m \in Int /\ n \in Int /\ 1 <= m /\ m - 1 <= n /\ n <= l
      /\ s \in Seq(Key)
  OBVIOUS
<1>2. /\ r \in Seq(Key) /\ Len(r) = n - m + 1
      /\ \A i \in 1 .. n - m + 1 : r[i] = s[m - 1 + i]
  <2>1. \A i \in 1 .. n - m + 1 : m + i - 1 = m - 1 + i /\ m + i - 1 \in 1 .. l
    BY <1>1
  <2> HIDE DEF l
  <2>2. n - m + 1 \in Nat /\ \A i \in m .. n : i \in 1 .. l
    BY <1>1
  <2>3. r \in Seq(Key)
    BY <1>1, <2>1, <2>2 DEF l
  <2>4. Len(r) = n - m + 1
    BY <1>1, <2>2
  <2>5. \A i \in 1 .. n - m + 1 : r[i] = s[m - 1 + i]
    BY <1>1, <2>1, <2>2
  <2> QED
    BY <2>3, <2>4, <2>5
<1> HIDE DEF r, l
<1>3. m - 1 \in 0 .. l - (n - m + 1)
  BY <1>1
<1> QED
  BY <1>2, <1>3 DEF PartOf, r, l

LEMMA PartTrans ==
  ASSUME NEW r \in Seq(Key), NEW s \in Seq(Key), NEW t \in Seq(Key),
         PartOf(r, s), PartOf(s, t)
  PROVE  PartOf(r, t)
<1> DEFINE a == Len(r)
           b == Len(s)
           c == Len(t)
<1>1. a \in Nat /\ b \in Nat /\ c \in Nat
  OBVIOUS
<1>2. PICK d \in 0 .. b - a : \A i \in 1 .. a : r[i] = s[d + i]
  BY DEF PartOf
<1>3. PICK e \in 0 .. c - b : \A i \in 1 .. b : s[i] = t[e + i]
  BY DEF PartOf
<1> HIDE DEF a, b, c
<1>4. d + e \in 0 .. c - a
  BY <1>1
<1>5. ASSUME NEW i \in 1 .. a PROVE r[i] = t[(d + e) + i]
  <2>1. d + i \in 1 .. b /\ e + (d + i) = (d + e) + i
    BY <1>1
  <2> QED
    BY <2>1, <1>2, <1>3
<1> QED
  BY <1>4, <1>5 DEF PartOf, a, b, c

(* What CmdParse and RunCmd make of a line is a part of the line.          *)
LEMMA ParsedPart ==
  ASSUME NEW s \in Seq(Key)
  PROVE  CString(Stripped(s)) \in Seq(Key) /\ PartOf(CString(Stripped(s)), s)
<1>1. Len(s) \in Nat /\ HeadLen(s) \in 0 .. Len(s)
  BY HeadLenType
<1>2. HeadLen(s) + 1 \in 1 .. Len(s) + 1 /\ Len(s) \in HeadLen(s) + 1 - 1 .. Len(s)
  BY <1>1
<1>3. Stripped(s) \in Seq(Key) /\ PartOf(Stripped(s), s)
  BY <1>2, SubSeqPart DEF Stripped
<1> DEFINE t == Stripped(s)
<1> HIDE DEF t
<1>4. t \in Seq(Key) /\ PartOf(t, s)
  BY <1>3 DEF t
<1>5. Len(t) \in Nat /\ StrLen(t) \in 0 .. Len(t)
  BY <1>4, StrLenType
<1>6. 1 \in 1 .. Len(t) + 1 /\ StrLen(t) \in 1 - 1 .. Len(t)
  BY <1>5
<1>7. CString(t) \in Seq(Key) /\ PartOf(CString(t), t)
  BY <1>4, <1>6, SubSeqPart DEF CString
<1>8. PartOf(CString(t), s)
  BY <1>4, <1>7, PartTrans
<1> QED
  BY <1>7, <1>8 DEF t

-----------------------------------------------------------------------------
LEMMA InitInv == Init => IInv
<1> SUFFICES ASSUME Init PROVE IInv
  OBVIOUS
<1>0. Wrap \in Nat \ {0} /\ 0 \in Cell
  BY CommandLineAssumption DEF Cell
<1>1. TypeOK
  <2>1. <<>> \in Seq(Key)
    OBVIOUS
  <2>2. command \in [Cell -> Key]
    BY DEF Init, Zeroed, Key
  <2> QED
    BY <1>0, <2>1, <2>2 DEF Init, TypeOK
<1>2. LineMatches /\ OwnTail
  BY <1>0 DEF Init, LineMatches, OwnTail, Zeroed, Cell
<1>3. RunsOwnKeys /\ CleanLineRuns
  BY DEF Init, RunsOwnKeys, CleanLineRuns
<1> QED
  BY <1>1, <1>2, <1>3 DEF IInv

LEMMA StepInv == IInv /\ [Next]_vars => IInv'
<1> SUFFICES ASSUME IInv, [Next]_vars PROVE IInv'
  OBVIOUS
<1>0. Wrap \in Nat \ {0} /\ 0 \in Cell /\ Cell = 0 .. Wrap - 1 /\ Nul \in Key
  BY CommandLineAssumption DEF Cell, Key
<1>t. /\ command \in [Cell -> Key] /\ cmdLen \in Cell
      /\ typed \in Seq(Key) /\ fresh \in BOOLEAN /\ wrapped \in BOOLEAN
      /\ line \in [keys : Seq(Key), fresh : BOOLEAN, wrapped : BOOLEAN]
      /\ ran \in [done : BOOLEAN, str : Seq(Key)]
      /\ pc \in {"read", "hung"}
  BY DEF IInv, TypeOK
<1>1. CASE Accept
  <2>1. TypeOK'
    <3>1. Zeroed \in [Cell -> Key] /\ <<>> \in Seq(Key)
      BY DEF Zeroed, Key
    <3> QED
      BY <1>1, <1>t, <3>1 DEF TypeOK, Accept, AcceptCommand
  <2>2. LineMatches' /\ OwnTail'
    <3>1. /\ fresh' => cmdLen = 0
          /\ cmdLen' = cmdLen /\ typed' = <<>> /\ \A i \in Cell : command'[i] = Nul
      BY <1>1 DEF Accept, AcceptCommand, Zeroed
    <3>2. Len(<<>>) = 0 /\ \A i \in Cell : ~ (i < 0)
      BY <1>0
    <3>3. LineMatches'
      BY <3>1, <3>2 DEF LineMatches
    <3>4. OwnTail'
      BY <3>1, <1>0 DEF OwnTail
    <3> QED
      BY <3>3, <3>4
  <2>3. RunsOwnKeys' /\ CleanLineRuns'
    BY <1>1 DEF IInv, Accept, RunsOwnKeys, CleanLineRuns
  <2> QED
    BY <2>1, <2>2, <2>3 DEF IInv
<1>2. ASSUME NEW k \in Key, Put(k) PROVE IInv'
  <2> DEFINE n == Len(typed)
  <2>1. /\ command' = [command EXCEPT ![cmdLen] = k]
        /\ cmdLen' = (cmdLen + 1) % Wrap
        /\ typed' = Append(typed, k)
        /\ wrapped' = (wrapped \/ cmdLen = Wrap - 1)
        /\ UNCHANGED <<pc, fresh, line, ran>>
    BY <1>2 DEF Put, Incr
  <2>2. /\ cmdLen' \in Cell
        /\ cmdLen = Wrap - 1 => cmdLen' = 0
        /\ cmdLen # Wrap - 1 => cmdLen' = cmdLen + 1
    <3>1. cmdLen \in 0 .. Wrap - 1
      BY <1>0, <1>t
    <3>2. CASE cmdLen = Wrap - 1
      <4>1. (cmdLen + 1) % Wrap = 0
        BY <1>0, <3>1, <3>2
      <4> QED
        BY <4>1, <3>2, <2>1, <1>0
    <3>3. CASE cmdLen # Wrap - 1
      <4>1. cmdLen + 1 \in 0 .. Wrap - 1
        BY <1>0, <3>1, <3>3
      <4>2. (cmdLen + 1) % Wrap = cmdLen + 1
        BY <1>0, <4>1
      <4> QED
        BY <4>1, <4>2, <3>3, <2>1, <1>0
    <3> QED
      BY <3>2, <3>3
  <2>3. /\ typed' \in Seq(Key) /\ n \in Nat /\ Len(typed') = n + 1
        /\ \A i \in 1 .. n : typed'[i] = typed[i]
        /\ typed'[n + 1] = k
    BY <2>1, <1>t
  <2>4. TypeOK'
    BY <2>1, <2>2, <2>3, <1>t DEF TypeOK
  <2> HIDE DEF n
  <2>5. LineMatches'
    <3> SUFFICES ASSUME fresh, ~ wrapped, cmdLen # Wrap - 1 PROVE LineMatches'
      BY <2>1, <1>t DEF LineMatches
    <3>1. cmdLen = n /\ \A i \in Cell : command[i] = IF i < cmdLen THEN typed[i + 1] ELSE Nul
      BY DEF IInv, LineMatches, n
    <3>2. cmdLen' = Len(typed')
      BY <2>2, <2>3, <3>1
    <3>3. ASSUME NEW i \in Cell
          PROVE  command'[i] = IF i < cmdLen' THEN typed'[i + 1] ELSE Nul
      <4>1. i \in 0 .. Wrap - 1 /\ cmdLen' = n + 1
        BY <1>0, <2>2, <3>1
      <4>2. CASE i < n
        BY <4>1, <4>2, <3>1, <2>1, <2>3, <1>t
      <4>3. CASE i = n
        BY <4>1, <4>3, <3>1, <2>1, <2>3, <1>t
      <4>4. CASE i > n
        BY <4>1, <4>4, <3>1, <2>1, <2>3, <1>t
      <4> QED
        BY <4>1, <4>2, <4>3, <4>4, <2>3
    <3> QED
      BY <3>2, <3>3 DEF LineMatches
  <2>6. OwnTail'
    <3> SUFFICES ASSUME command'[0] # Nul
                 PROVE  /\ cmdLen' <= Len(typed')
                        /\ \A i \in 0 .. cmdLen' - 1 :
                             command'[i] = typed'[Len(typed') - cmdLen' + i + 1]
      BY DEF OwnTail
    <3>1. CASE cmdLen = Wrap - 1
      BY <3>1, <2>2, <2>3
    <3>2. CASE cmdLen # Wrap - 1
      <4>1. cmdLen \in Nat /\ cmdLen' = cmdLen + 1 /\ cmdLen + 1 \in Cell
        BY <3>2, <2>2, <1>t, <1>0
      <4>2. /\ cmdLen <= n
            /\ \A i \in 0 .. cmdLen - 1 : command[i] = typed[n - cmdLen + i + 1]
        <5>1. CASE cmdLen = 0
          BY <5>1, <2>3
        <5>2. CASE cmdLen # 0
          <6>1. command[0] # Nul
            BY <5>2, <2>1, <1>t, <1>0
          <6> QED
            BY <6>1 DEF IInv, OwnTail, n
        <5> QED
          BY <5>1, <5>2
      <4>3. ASSUME NEW i \in 0 .. cmdLen
            PROVE  command'[i] = typed'[n + 1 - (cmdLen + 1) + i + 1]
        <5>1. CASE i = cmdLen
          BY <5>1, <4>1, <2>1, <2>3, <1>t
        <5>2. CASE i # cmdLen
          <6>1. i \in 0 .. cmdLen - 1 /\ i \in Cell /\ n - cmdLen + i + 1 \in 1 .. n
            BY <5>2, <4>1, <4>2, <2>3, <1>0
          <6>2. command'[i] = command[i]
            BY <5>2, <6>1, <2>1, <1>t
          <6>3. command[i] = typed[n - cmdLen + i + 1]
            BY <6>1, <4>2
          <6>4. n + 1 - (cmdLen + 1) + i + 1 = n - cmdLen + i + 1
            BY <4>1, <2>3
          <6> QED
            BY <6>1, <6>2, <6>3, <6>4, <2>3
        <5> QED
          BY <5>1, <5>2
      <4>4. cmdLen' - 1 = cmdLen
        BY <4>1
      <4> QED
        BY <4>1, <4>2, <4>3, <4>4, <2>3
    <3> QED
      BY <3>1, <3>2
  <2>7. RunsOwnKeys' /\ CleanLineRuns'
    BY <2>1 DEF IInv, RunsOwnKeys, CleanLineRuns
  <2> QED
    BY <2>4, <2>5, <2>6, <2>7 DEF IInv
<1>3. CASE Backspace
  <2> DEFINE n == Len(typed)
             u == SubSeq(typed, 1, n - 1)
  <2>1. /\ cmdLen > 0 /\ cmdLen' = cmdLen - 1
        /\ command' = [command EXCEPT ![cmdLen - 1] = Nul]
        /\ typed' = u
        /\ UNCHANGED <<pc, fresh, wrapped, line, ran>>
    BY <1>3 DEF Backspace, Erased
  <2>2. cmdLen \in Nat /\ cmdLen < Wrap /\ cmdLen - 1 \in Cell
    BY <2>1, <1>t, <1>0
  <2>3. /\ n \in Nat /\ u \in Seq(Key)
        /\ n > 0 => Len(u) = n - 1 /\ \A i \in 1 .. n - 1 : u[i] = typed[i]
    <3>1. n \in Nat
      BY <1>t
    <3>2. CASE n = 0
      <4>1. typed = <<>>
        BY <3>2, <1>t
      <4>2. u = <<>>
        BY <4>1
      <4> QED
        BY <3>1, <3>2, <4>2
    <3>3. CASE n > 0
      <4>1. n - 1 \in Nat /\ \A i \in 1 .. n - 1 : i \in 1 .. n /\ 1 + i - 1 = i
        BY <3>1, <3>3
      <4>2. typed \in Seq(Key) /\ \A i \in 1 .. n : typed[i] \in Key
        BY <1>t
      <4> HIDE DEF n
      <4>3. Len(u) = n - 1 /\ \A i \in 1 .. n - 1 : u[i] = typed[i]
        BY <4>1, <4>2
      <4>4. u \in Seq(Key)
        BY <4>1, <4>2
      <4> QED
        BY <3>1, <4>3, <4>4
    <3> QED
      BY <3>1, <3>2, <3>3
  <2>4. TypeOK'
    BY <2>1, <2>2, <2>3, <1>0, <1>t DEF TypeOK
  <2> HIDE DEF n, u
  <2>5. LineMatches'
    <3> SUFFICES ASSUME fresh, ~ wrapped PROVE LineMatches'
      BY <2>1 DEF LineMatches
    <3>1. cmdLen = n /\ \A i \in Cell : command[i] = IF i < cmdLen THEN typed[i + 1] ELSE Nul
      BY DEF IInv, LineMatches, n
    <3>2. cmdLen' = Len(typed')
      BY <2>1, <2>2, <2>3, <3>1
    <3>3. ASSUME NEW i \in Cell
          PROVE  command'[i] = IF i < cmdLen' THEN typed'[i + 1] ELSE Nul
      <4>1. i \in 0 .. Wrap - 1
        BY <1>0
      <4>2. CASE i < n - 1
        BY <4>1, <4>2, <3>1, <2>1, <2>2, <2>3, <1>t
      <4>3. CASE i = n - 1
        BY <4>1, <4>3, <3>1, <2>1, <2>2, <2>3, <1>t
      <4>4. CASE i > n - 1
        BY <4>1, <4>4, <3>1, <2>1, <2>2, <2>3, <1>t
      <4> QED
        BY <4>1, <4>2, <4>3, <4>4, <2>3
    <3> QED
      BY <3>2, <3>3 DEF LineMatches
  <2>6. OwnTail'
    <3> SUFFICES ASSUME command'[0] # Nul PROVE OwnTail'
      BY DEF OwnTail
    <3>1. command[0] # Nul
      BY <2>1, <2>2, <1>t, <1>0
    <3>2. /\ cmdLen <= n
          /\ \A i \in 0 .. cmdLen - 1 : command[i] = typed[n - cmdLen + i + 1]
      BY <3>1 DEF IInv, OwnTail, n
    <3>3. Len(typed') = n - 1 /\ \A i \in 1 .. n - 1 : typed'[i] = typed[i]
      BY <2>1, <2>2, <2>3, <3>2
    <3>4. ASSUME NEW i \in 0 .. cmdLen - 2
          PROVE  command'[i] = typed'[n - 1 - (cmdLen - 1) + i + 1]
      <4>1. i \in 0 .. cmdLen - 1 /\ i \in Cell /\ i # cmdLen - 1 /\ n - cmdLen + i + 1 \in 1 .. n - 1
        BY <2>2, <2>3, <3>2, <1>0
      <4>2. command'[i] = command[i]
        BY <4>1, <2>1, <1>t
      <4>3. command[i] = typed[n - cmdLen + i + 1]
        BY <4>1, <3>2
      <4>4. n - 1 - (cmdLen - 1) + i + 1 = n - cmdLen + i + 1
        BY <2>2, <2>3
      <4> QED
        BY <4>1, <4>2, <4>3, <4>4, <3>3
    <3>5. cmdLen' <= n - 1 /\ cmdLen' - 1 = cmdLen - 2
      BY <2>1, <2>2, <2>3, <3>2
    <3> QED
      BY <3>3, <3>4, <3>5, <2>1 DEF OwnTail
  <2>7. RunsOwnKeys' /\ CleanLineRuns'
    BY <2>1 DEF IInv, RunsOwnKeys, CleanLineRuns
  <2> QED
    BY <2>4, <2>5, <2>6, <2>7 DEF IInv
<1>4. CASE Return
  <2> DEFINE t == Typein
             n == Len(typed)
  <2>1. /\ command[0] # Nul => ran' = [done |-> TRUE, str |-> CString(Stripped(t))]
        /\ command[0] = Nul => ran' = [done |-> FALSE, str |-> <<>>]
        /\ line' = [keys |-> typed, fresh |-> fresh, wrapped |-> wrapped]
        /\ cmdLen' = 0 /\ command' = Zeroed /\ typed' = <<>>
        /\ fresh' = TRUE /\ wrapped' = FALSE /\ pc' = pc
    BY <1>4 DEF Return, FirstIs, ResetLen
  <2>2. command[0] # Nul =>
          CString(Stripped(t)) \in Seq(Key) /\ PartOf(CString(Stripped(t)), typed)
    <3> SUFFICES ASSUME command[0] # Nul
                 PROVE  /\ CString(Stripped(t)) \in Seq(Key)
                        /\ PartOf(CString(Stripped(t)), typed)
      OBVIOUS
    <3>1. /\ cmdLen \in Nat /\ n \in Nat /\ cmdLen <= n
          /\ \A i \in 0 .. cmdLen - 1 : command[i] = typed[n - cmdLen + i + 1]
      BY <1>t, <1>0 DEF IInv, OwnTail
    <3>2. ASSUME NEW i \in 1 .. cmdLen
          PROVE  command[i - 1] = typed[n - cmdLen + i] /\ command[i - 1] \in Key
      <4>1. i - 1 \in 0 .. cmdLen - 1 /\ n - cmdLen + (i - 1) + 1 = n - cmdLen + i
        BY <3>1
      <4>2. n - cmdLen + i \in 1 .. n
        BY <3>1
      <4> QED
        BY <4>1, <4>2, <3>1, <1>t
    <3>3. t \in Seq(Key) /\ Len(t) = cmdLen /\ \A i \in 1 .. cmdLen : t[i] = command[i - 1]
      BY <3>1, <3>2 DEF Typein
    <3> HIDE DEF t
    <3>4. n - cmdLen \in 0 .. n - cmdLen
      BY <3>1
    <3>5. PartOf(t, typed)
      BY <3>2, <3>3, <3>4 DEF PartOf
    <3> QED
      BY <3>3, <3>5, <1>t, ParsedPart, PartTrans
  <2>3. fresh /\ ~ wrapped =>
          /\ command[0] # Nul <=> (typed # <<>> /\ typed[1] # Nul)
          /\ typed # <<>> => typed[1] # Blank
          /\ command[0] # Nul => t = typed
    <3> SUFFICES ASSUME fresh, ~ wrapped
                 PROVE  /\ command[0] # Nul <=> (typed # <<>> /\ typed[1] # Nul)
                        /\ typed # <<>> => typed[1] # Blank
                        /\ command[0] # Nul => t = typed
      OBVIOUS
    <3>1. /\ n \in Nat /\ cmdLen = n
          /\ \A i \in Cell : command[i] = IF i < cmdLen THEN typed[i + 1] ELSE Nul
      BY <1>t DEF IInv, LineMatches
    <3>2. typed # <<>> <=> n > 0
      BY <1>t
    <3>3. command[0] # Nul <=> (n > 0 /\ typed[1] # Nul)
      <4>1. CASE n > 0
        <5>1. command[0] = typed[1]
          BY <4>1, <3>1, <1>0, <1>t
        <5> QED
          BY <5>1, <4>1
      <4>2. CASE ~ (n > 0)
        BY <4>2, <3>1, <1>0
      <4> QED
        BY <4>1, <4>2
    <3>4. t = typed
      <4>1. \A i \in 1 .. n : command[i - 1] = typed[i]
        <5> SUFFICES ASSUME NEW i \in 1 .. n PROVE command[i - 1] = typed[i]
          OBVIOUS
        <5>1. i - 1 \in Cell /\ i - 1 < cmdLen /\ (i - 1) + 1 = i
          BY <3>1, <1>t, <1>0
        <5> QED
          BY <5>1, <3>1
      <4>2. typed = [i \in 1 .. n |-> typed[i]]
        BY <1>t
      <4>3. [i \in 1 .. n |-> command[i - 1]] = [i \in 1 .. n |-> typed[i]]
        BY <4>1
      <4> QED
        BY <4>2, <4>3, <3>1 DEF Typein
    <3>5. n > 0 => typed[1] # Blank
      <4>1. n > 0 => command[0] = typed[1]
        BY <3>1, <1>0, <1>t
      <4> QED BY <4>1, <1>4 DEF Return, FirstIs
    <3> QED
      BY <3>2, <3>3, <3>4, <3>5
  <2> HIDE DEF t, n
  <2>4. TypeOK'
    <3>1. Zeroed \in [Cell -> Key] /\ <<>> \in Seq(Key)
      BY DEF Zeroed, Key
    <3>2. ran' \in [done : BOOLEAN, str : Seq(Key)]
      <4>1. CASE command[0] # Nul
        <5>1. ran' = [done |-> TRUE, str |-> CString(Stripped(t))] /\ CString(Stripped(t)) \in Seq(Key)
          BY <4>1, <2>1, <2>2
        <5> QED
          BY <5>1
      <4>2. CASE command[0] = Nul
        <5>1. ran' = [done |-> FALSE, str |-> <<>>]
          BY <4>2, <2>1
        <5> QED
          BY <5>1, <3>1
      <4> QED
        BY <4>1, <4>2
    <3>3. line' \in [keys : Seq(Key), fresh : BOOLEAN, wrapped : BOOLEAN]
      BY <2>1, <1>t
    <3> QED
      BY <2>1, <3>1, <3>2, <3>3, <1>0, <1>t DEF TypeOK
  <2>5. LineMatches' /\ OwnTail'
    BY <2>1, <1>0 DEF LineMatches, OwnTail, Zeroed
  <2>6. RunsOwnKeys'
    <3>1. CASE command[0] # Nul
      BY <3>1, <2>1, <2>2 DEF RunsOwnKeys
    <3>2. CASE command[0] = Nul
      BY <3>2, <2>1 DEF RunsOwnKeys
    <3> QED
      BY <3>1, <3>2
  <2>7. CleanLineRuns'
    <3> SUFFICES ASSUME fresh, ~ wrapped
                 PROVE  /\ ~ (typed # <<>> /\ typed[1] = Blank)
                        /\ ran'.done <=> (typed # <<>> /\ typed[1] \notin {Nul, Blank})
                        /\ ran'.done => ran'.str = CString(Stripped(typed))
      <4>1. /\ line'.fresh = fresh /\ line'.wrapped = wrapped /\ line'.keys = typed
            /\ pc' # "hung"
        BY <2>1, <1>4 DEF Return
      <4> QED
        BY <4>1 DEF CleanLineRuns
    <3>1. CASE command[0] # Nul
      BY <3>1, <2>1, <2>3
    <3>2. CASE command[0] = Nul
      BY <3>2, <2>1, <2>3
    <3> QED
      BY <3>1, <3>2
  <2> QED
    BY <2>4, <2>5, <2>6, <2>7 DEF IInv
<1>5. CASE ReturnHangs
  <2>1. /\ command[0] = Blank /\ pc' = "hung" /\ ran' = [done |-> FALSE, str |-> <<>>]
        /\ line' = [keys |-> typed, fresh |-> fresh, wrapped |-> wrapped]
        /\ UNCHANGED <<command, cmdLen, typed, fresh, wrapped>>
    BY <1>5 DEF ReturnHangs, FirstIs
  <2>2. TypeOK'
    <3>1. line' \in [keys : Seq(Key), fresh : BOOLEAN, wrapped : BOOLEAN]
      BY <2>1, <1>t
    <3>2. ran' \in [done : BOOLEAN, str : Seq(Key)]
      BY <2>1
    <3> QED BY <2>1, <3>1, <3>2 DEF IInv, TypeOK
  <2>3. LineMatches' /\ OwnTail' /\ RunsOwnKeys'
    BY <2>1 DEF IInv, LineMatches, OwnTail, RunsOwnKeys
  <2>4. fresh /\ ~ wrapped => typed # <<>> /\ typed[1] = Blank
    <3> SUFFICES ASSUME fresh, ~ wrapped PROVE typed # <<>> /\ typed[1] = Blank
      OBVIOUS
    <3>1. /\ cmdLen = Len(typed) /\ Len(typed) \in Nat
          /\ \A i \in Cell : command[i] = IF i < cmdLen THEN typed[i + 1] ELSE Nul
      BY <1>t DEF IInv, LineMatches
    <3>2. 0 < Len(typed) /\ typed[1] = Blank
      BY <2>1, <3>1, <1>0, CommandLineAssumption
    <3> QED BY <3>2
  <2>5. CleanLineRuns'
    BY <2>1, <2>4 DEF CleanLineRuns
  <2> QED BY <2>2, <2>3, <2>5 DEF IInv
<1>6. CASE UNCHANGED vars
  BY <1>6 DEF IInv, TypeOK, LineMatches, OwnTail, RunsOwnKeys, CleanLineRuns, vars
<1> QED
  BY <1>1, <1>2, <1>3, <1>4, <1>5, <1>6 DEF Next

(* The inductive invariant holds in every state.                           *)
THEOREM Invariance == Spec => []IInv
<1>1. Init => IInv
  BY InitInv
<1>2. IInv /\ [Next]_vars => IInv'
  BY StepInv
<1> QED
  BY <1>1, <1>2, PTL DEF Spec

(* cmdLen always indexes a cell of the array, whatever is typed: the wrap  *)
(* of the unsigned char is what keeps it there, since the length check     *)
(* against MAX_COMMAND_LENGTH can never fail.                              *)
THEOREM TypeCorrect == Spec => []TypeOK
<1>1. IInv => TypeOK
  BY DEF IInv
<1> QED
  BY <1>1, Invariance, PTL

(* A command that is run consists of the last keys of the line its own     *)
(* client typed, whoever was connected before and however long the line.   *)
THEOREM OwnKeysRun == Spec => []RunsOwnKeys
<1>1. IInv => RunsOwnKeys
  BY DEF IInv
<1> QED
  BY <1>1, Invariance, PTL

(* A line begun at cmdLen 0 that did not wrap is run exactly as typed, less *)
(* the head that CmdParse strips, unless it is empty or begins with NUL or  *)
(* a blank; it hangs in isNullStr if and only if a blank begins it.         *)
THEOREM CleanLinesRunAsTyped == Spec => []CleanLineRuns
<1>1. IInv => CleanLineRuns
  BY DEF IInv
<1> QED
  BY <1>1, Invariance, PTL

(* While such a line is typed, the array holds just its characters.        *)
THEOREM ArrayMatchesLine == Spec => []LineMatches
<1>1. IInv => LineMatches
  BY DEF IInv
<1> QED
  BY <1>1, Invariance, PTL
=============================================================================
