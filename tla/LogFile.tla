------------------------------ MODULE LogFile -------------------------------
(***************************************************************************)
(* muduo::LogFile over FileUtil::AppendFile: one log file at a time, with  *)
(* the buffer of its stream, which is rolled when it is too large or a new *)
(* day has begun; every roll deletes expired files first.  The operations  *)
(* are pieces of actions of the thread that owns the LogFile, see          *)
(* AsyncLogging.                                                           *)
(*                                                                         *)
(* A record is what one append writes, a sequence of messages; its length  *)
(* is the number of its messages.  A file name is the base name and the    *)
(* local time of opening, which goes back when daylight saving time ends;  *)
(* the host name and the process id behind them are the same for all files *)
(* of a process.  A file that is opened under a name that is there grows.  *)
(* Rolling counts days in UTC, names and expiry count them in local time.  *)
(* stdio may write a stream out before it is flushed, which only puts      *)
(* messages on the disk earlier.                                           *)
(***************************************************************************)
EXTENDS Integers, Sequences, FiniteSets, SequencesExt

CONSTANTS
  Own,         (* rank of basename_ among the base names in the directory    *)
  Foreign,     (* names of other log files that are there from the start     *)
  Depth,       (* components of logFilePath_, none of which exists           *)
  Refusals,    (* the components mkdir may refuse, Depth + 1 for none        *)
  DaySeconds,  (* kRollPerSeconds_                                           *)
  ZoneOffset,  (* local time minus UTC, by the time                          *)
  StartTime, MaxTime,
  rollSize, fileFlushInterval, checkEveryN, keepLogDate,
  MaxBack,     (* bound on the steps of the clock back                       *)
  MaxShort     (* bound on the writes that come out short                    *)

(* The times that localtime_r is asked about.                              *)
Times    == StartTime - keepLogDate * DaySeconds .. MaxTime
Local(t) == t + ZoneOffset[t]

ASSUME LogFileAssumption ==
  /\ Own \in Nat /\ Foreign \subseteq [base : Nat \ {Own}, at : Nat]
  /\ Depth \in Nat \ {0} /\ Refusals \subseteq 1 .. Depth + 1
  /\ DaySeconds \in Nat \ {0} /\ StartTime \in Nat \ {0} /\ MaxTime \in Nat /\ StartTime <= MaxTime
  /\ ZoneOffset \in [Times -> Int] /\ \A t \in StartTime .. MaxTime : Local(t) > 0
  /\ rollSize \in Nat /\ fileFlushInterval \in Nat /\ checkEveryN \in Nat
  /\ keepLogDate \in Nat /\ MaxBack \in Nat /\ MaxShort \in Nat

NoFile == [base |-> Own, at |-> 0]

VARIABLES
  now, backs,                        (* the clock                            *)
  refused, made,                     (* of the path: refused, there          *)
  dir,                               (* the names of log files in the directory *)
  disk,                              (* what was ever written to an own file *)
  file,                              (* file_: its name, NoFile before       *)
  stream,                            (* the buffer of the stream             *)
  writtenBytes, count, startOfPeriod, lastRoll, lastFlush,
  shorts, cut                        (* short writes; the messages they lost *)

clock    == <<now, backs>>
rolling  == <<made, dir, disk, file, stream, writtenBytes, startOfPeriod, lastRoll, lastFlush>>
fileVars == <<clock, refused, rolling, count, shorts, cut>>

FileTypeOK ==
  /\ now \in StartTime .. MaxTime /\ backs \in 0 .. MaxBack /\ refused \in Refusals /\ made \in 0 .. Depth
  /\ dir \subseteq [base : Nat, at : Nat] /\ file \in [base : {Own}, at : Nat]
  /\ \A f \in DOMAIN disk : disk[f] \in Seq(Nat)
  /\ stream \in Seq(Nat) /\ writtenBytes \in Nat /\ count \in 0 .. checkEveryN
  /\ startOfPeriod \in Nat /\ lastRoll \in Nat /\ lastFlush \in Nat
  /\ shorts \in 0 .. MaxShort /\ cut \subseteq Nat

FileInit ==
  /\ now = StartTime /\ backs = 0 /\ refused \in Refusals /\ made = 0
  /\ dir = Foreign /\ disk = [f \in {} |-> <<>>]
  /\ file = NoFile /\ stream = <<>> /\ writtenBytes = 0 /\ count = 0
  /\ startOfPeriod = 0 /\ lastRoll = 0 /\ lastFlush = 0
  /\ shorts = 0 /\ cut = {}

-----------------------------------------------------------------------------
(* Time *)

LocalDay(t)    == Local(t) \div DaySeconds
PeriodOf(t)    == (t \div DaySeconds) * DaySeconds
SecondPasses   == now < MaxTime /\ now' = now + 1 /\ backs' = backs
ClockStepsBack == now > StartTime /\ backs < MaxBack /\ now' = now - 1 /\ backs' = backs + 1
Tick == (SecondPasses \/ ClockStepsBack) /\ UNCHANGED <<refused, rolling, count, shorts, cut>>

-----------------------------------------------------------------------------
(* Rolling *)

(* createDir makes the missing components one by one and stops at the      *)
(* first refusal; it answers TRUE when it made any, or all are there.      *)
Made          == refused - 1
createDirSays == Made = Depth \/ Made > made

(* The assertion of AppendFile: fopen works in the current directory, and  *)
(* in the directory of the path when all of that is there.                 *)
isExistFilePath == made = Depth
FileOpens       == isExistFilePath \/ ~createDirSays \/ Made = Depth

getLogFileName == [base |-> Own, at |-> Local(now)]

(* The names strncmp puts before basename_ and the date of keepLogDate     *)
(* days ago.                                                               *)
Expired ==
  LET cutoff == LocalDay(now - keepLogDate * DaySeconds)
  IN  {f \in dir : f.base < Own \/ (f.base = Own /\ f.at \div DaySeconds < cutoff)}

Written(f)     == IF f \in DOMAIN disk THEN disk[f] ELSE <<>>
Put(f, record) == [g \in DOMAIN disk \cup {f} |->
                     IF g = f THEN Written(f) \o record ELSE disk[g]]

(* rollFile, with content in the stream of the present file and total      *)
(* bytes in the file: a new file is opened in a later second than the last *)
(* only.  Closing a file flushes its stream.                               *)
AnySecond == TRUE
NewSecond == now > lastRoll

rollFile(content, total) ==
  /\ made' = Made
  /\ IF NewSecond
     THEN /\ dir' = (dir \ Expired) \cup {getLogFileName}
          /\ disk' = IF file = NoFile THEN disk ELSE Put(file, content)
          /\ file' = getLogFileName /\ stream' = <<>> /\ writtenBytes' = 0
          /\ lastRoll' = now /\ lastFlush' = now /\ startOfPeriod' = PeriodOf(now)
     ELSE /\ dir' = dir \ Expired
          /\ stream' = content /\ writtenBytes' = total
          /\ UNCHANGED <<disk, file, lastRoll, lastFlush, startOfPeriod>>

-----------------------------------------------------------------------------
(* Appending *)

(* AppendFile::append writes until all is written or a write gives 0, and  *)
(* counts all of the record in both cases.  kept is what the stream takes. *)
Kept(record, kept) ==
  /\ kept \in 0 .. Len(record)
  /\ IF kept = Len(record) THEN UNCHANGED <<shorts, cut>>
     ELSE shorts < MaxShort /\ shorts' = shorts + 1
          /\ cut' = cut \cup ToSet(SubSeq(record, kept + 1, Len(record)))

(* LogFile::append, append_unlocked. *)
append(record) == \E kept \in 0 .. Len(record) :
  LET content  == stream \o SubSeq(record, 1, kept)
      total    == writtenBytes + Len(record)
      checks   == count + 1 >= checkEveryN
      newDay   == PeriodOf(now) # startOfPeriod
      overdue  == now - lastFlush > fileFlushInterval
  IN /\ Kept(record, kept)
     /\ IF total > rollSize \/ (checks /\ newDay)
        THEN rollFile(content, total)
        ELSE /\ IF checks /\ overdue
                THEN disk' = Put(file, content) /\ stream' = <<>> /\ lastFlush' = now
                ELSE disk' = disk /\ stream' = content /\ lastFlush' = lastFlush
             /\ writtenBytes' = total /\ UNCHANGED <<made, dir, file, startOfPeriod, lastRoll>>
     /\ count' = IF total > rollSize THEN count ELSE IF checks THEN 0 ELSE count + 1
     /\ UNCHANGED <<clock, refused>>

(* LogFile::flush *)
LeftToStdio == UNCHANGED fileVars
flush ==
  /\ disk' = Put(file, stream) /\ stream' = <<>>
  /\ UNCHANGED <<clock, refused, made, dir, file, writtenBytes, count, startOfPeriod, lastRoll,
                 lastFlush, shorts, cut>>
=============================================================================
