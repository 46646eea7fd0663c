---------------------------- MODULE CommandLine -----------------------------
(***************************************************************************)
(* The line the telnet client is typing, as TelnetDaemonFun keeps it: the  *)
(* array command and its length cmdLen.  cmdLen is an unsigned char, so it *)
(* wraps at Wrap, long before MAX_COMMAND_LENGTH: the branch for a full    *)
(* buffer is never taken, and the array is used up to Wrap - 1 only.       *)
(*                                                                         *)
(* A newcomer gets a zeroed array; cmdLen belongs to the thread and stays. *)
(* The keys that TelnetDaemonFun ignores (new line, arrows, control S and  *)
(* R) change nothing and are left out.  A NUL is not ignored: telnet       *)
(* clients that end a line with CR NUL put one at the head of the next.    *)
(***************************************************************************)
EXTENDS Integers, Sequences, FiniteSets

CONSTANTS
  Alnum,       (* letters and digits                                         *)
  Mark,        (* other characters that are put into the line                *)
  Blank,       (* BLANK_CHAR                                                 *)
  Nul,
  Wrap,        (* 256, the values of an unsigned char                        *)
  MaxTyped     (* bound on the characters of one line                        *)

Key  == Alnum \cup Mark \cup {Blank, Nul}
Cell == 0 .. Wrap - 1

ASSUME CommandLineAssumption ==
  /\ Nul # Blank /\ {Nul, Blank} \cap (Alnum \cup Mark) = {} /\ Alnum \cap Mark = {}
  /\ Wrap \in Nat \ {0} /\ MaxTyped \in Nat

VARIABLES
  command, cmdLen,
  pc,          (* "read" a key; "hung" in isNullStr                          *)
  typed,       (* what the client sees on its line: typed and not erased     *)
  fresh,       (* the line began with cmdLen = 0                              *)
  wrapped,     (* cmdLen has wrapped since the line began                    *)
  line,        (* the line that the last return key ended: keys, fresh, wrapped *)
  ran          (* what RunCmd was given for it, if anything                  *)

vars == <<command, cmdLen, pc, typed, fresh, wrapped, line, ran>>

TypeOK ==
  /\ command \in [Cell -> Key]
  /\ cmdLen \in Cell
  /\ pc \in {"read", "hung"}
  /\ typed \in Seq(Key) /\ fresh \in BOOLEAN /\ wrapped \in BOOLEAN
  /\ line \in [keys : Seq(Key), fresh : BOOLEAN, wrapped : BOOLEAN]
  /\ ran \in [done : BOOLEAN, str : Seq(Key)]

Zeroed == [i \in Cell |-> Nul]

-----------------------------------------------------------------------------
(* CmdParse and its helpers *)

(* isNullStr looks at the first character only: it never moves on from a   *)
(* blank.                                                                  *)
FirstIs(s) == s[0]

(* The first cmdLen characters as CmdParse gets them. *)
Typein == [i \in 1 .. cmdLen |-> command[i - 1]]

(* The head is stripped up to the first letter or digit ... *)
HeadLen(s)  == Cardinality({i \in 1 .. Len(s) : \A j \in 1 .. i : s[j] \notin Alnum})
Stripped(s) == SubSeq(s, HeadLen(s) + 1, Len(s))

(* ... and RunCmd reads a C string. *)
StrLen(s)  == Cardinality({i \in 1 .. Len(s) : \A j \in 1 .. i : s[j] # Nul})
CString(s) == SubSeq(s, 1, StrLen(s))

-----------------------------------------------------------------------------
Init ==
  /\ command = Zeroed /\ cmdLen = 0 /\ pc = "read"
  /\ typed = <<>> /\ fresh = TRUE /\ wrapped = FALSE
  /\ line = [keys |-> <<>>, fresh |-> TRUE, wrapped |-> FALSE]
  /\ ran = [done |-> FALSE, str |-> <<>>]

(* A client is accepted, also while another one is typing. *)
KeepsCommand   == command
AcceptCommand  == Zeroed
Accept ==
  /\ pc = "read"
  /\ command' = AcceptCommand
  /\ typed' = <<>> /\ fresh' = (cmdLen = 0) /\ wrapped' = FALSE
  /\ UNCHANGED <<cmdLen, pc, line, ran>>

(* The default case: the character goes to the end of the line. *)
Incr(n) == (n + 1) % Wrap
Put(k) ==
  /\ pc = "read" /\ Len(typed) < MaxTyped
  /\ command' = [command EXCEPT ![cmdLen] = k]
  /\ cmdLen' = Incr(cmdLen)
  /\ typed' = Append(typed, k)
  /\ wrapped' = (wrapped \/ cmdLen = Wrap - 1)
  /\ UNCHANGED <<pc, fresh, line, ran>>

(* BACKSPACE_CHAR: nothing happens at cmdLen 0; otherwise the last         *)
(* character is erased, on the screen too.                                 *)
Erased == [command EXCEPT ![cmdLen - 1] = Nul]
Backspace ==
  /\ pc = "read" /\ cmdLen > 0
  /\ cmdLen' = cmdLen - 1
  /\ command' = Erased
  /\ typed' = SubSeq(typed, 1, Len(typed) - 1)
  /\ UNCHANGED <<pc, fresh, wrapped, line, ran>>

(* RETURN_CHAR: the line is run unless its first character is NUL, and the *)
(* next one begins.                                                        *)
NoReset  == cmdLen
ResetLen == 0
Return ==
  /\ pc = "read" /\ FirstIs(command) # Blank
  /\ ran' = IF FirstIs(command) # Nul
            THEN [done |-> TRUE, str |-> CString(Stripped(Typein))]
            ELSE [done |-> FALSE, str |-> <<>>]
  /\ line' = [keys |-> typed, fresh |-> fresh, wrapped |-> wrapped]
  /\ cmdLen' = ResetLen
  /\ command' = Zeroed
  /\ typed' = <<>> /\ fresh' = TRUE /\ wrapped' = FALSE
  /\ UNCHANGED pc

(* isNullStr loops for ever on a leading blank, and the line is never run. *)
ReturnHangs ==
  /\ pc = "read" /\ FirstIs(command) = Blank
  /\ pc' = "hung"
  /\ ran' = [done |-> FALSE, str |-> <<>>]
  /\ line' = [keys |-> typed, fresh |-> fresh, wrapped |-> wrapped]
  /\ UNCHANGED <<command, cmdLen, typed, fresh, wrapped>>

Next ==
  \/ Accept \/ Backspace \/ Return \/ ReturnHangs
  \/ \E k \in Key : Put(k)
  \/ pc = "hung" /\ UNCHANGED vars

Spec == Init /\ [][Next]_vars

-----------------------------------------------------------------------------
PartOf(s, t) ==
  \E d \in 0 .. Len(t) - Len(s) : \A i \in 1 .. Len(s) : s[i] = t[d + i]

(* What is run for a client is a part of the line that this client typed,  *)
(* in one piece: characters of the client before it, whose length the line *)
(* still counts, and characters overwritten by a wrap or erased never come *)
(* back.                                                                   *)
RunsOwnKeys == ran.done => PartOf(ran.str, line.keys)

(* A line that began at cmdLen 0 and did not wrap runs as it was typed,    *)
(* less its head and up to a NUL, unless it is empty or begins with NUL or *)
(* with a blank.  The blank stops the daemon thread for ever in isNullStr, *)
(* and nothing else that is typed on such a line does.                     *)
CleanLineRuns ==
  line.fresh /\ ~ line.wrapped =>
    /\ pc = "hung" <=> line.keys # <<>> /\ line.keys[1] = Blank
    /\ ran.done <=> line.keys # <<>> /\ line.keys[1] \notin {Nul, Blank}
    /\ ran.done => ran.str = CString(Stripped(line.keys))

(* What the client sees of such a line while it types is what the array    *)
(* holds, with nothing behind it.                                          *)
LineMatches ==
  fresh /\ ~ wrapped =>
    /\ cmdLen = Len(typed)
    /\ \A i \in Cell : command[i] = IF i < cmdLen THEN typed[i + 1] ELSE Nul
=============================================================================
