-------------------------- MODULE AsyncLoggingProofs --------------------------
(***************************************************************************)
(* Proofs about AsyncLogging over LogFile, for any sizes, any number of    *)
(* messages, any other files, any movement of the clock and any time zone. *)
(*                                                                         *)
(* The files are in order because they were opened in order (Named: every  *)
(* name is the local time of a second up to the last roll, which is that   *)
(* of the present file) and because what is on its way is in order and     *)
(* behind what is written (InPipe).  The assertions hold because a spare   *)
(* buffer that is missing has put another one on the list, and every spare *)
(* is empty (Paid).                                                        *)
(***************************************************************************)
EXTENDS AsyncLogging, SequenceTheorems, TLAPS

(* Who is where while the thread starts and stops.                         *)
Phases ==
  /\ caller = "new" <=> pc = "none"
  /\ latch = 1 <=> pc \in {"none", "begin"}
  /\ pc \in {"none", "begin"} => caller \in {"new", "starting"}
  /\ running <=> caller \in {"starting", "started"}
  /\ pc \in {"none", "begin", "aborted"} <=> file = NoFile

(* The spares are there at the head of the loop; of those that are missing *)
(* after the swap, each has a buffer on the list to come from.             *)
Paid ==
  /\ nextBuffer \in {Null, Fresh} /\ newBuffer1 \in {Null, Fresh} /\ newBuffer2 \in {Null, Fresh}
  /\ nextBuffer = Null => buffers # <<>>
  /\ pc \in {"loop", "swap"} => newBuffer1 = Fresh /\ newBuffer2 = Fresh /\ buffersToWrite = <<>>
  /\ pc \in {"drop", "write", "recycle"} =>
       Len(buffersToWrite) >= 1 /\ (newBuffer2 = Null => Len(buffersToWrite) >= 2)
  /\ pc \notin {"write", "recycle"} => next = 1
  /\ pc = "write" => next <= Len(buffersToWrite)
  /\ pc = "recycle" => next = Len(buffersToWrite) + 1
  /\ pc \in {"none", "begin", "aborted"} => buffersToWrite = <<>>

(* Files are named by the local time of the roll that opened them, and a   *)
(* roll needs a later second than the last.                                *)
Named ==
  /\ IF file = NoFile THEN lastRoll = 0 /\ DOMAIN disk = {} /\ stream = <<>>
     ELSE lastRoll \in StartTime .. MaxTime /\ file.at = Local(lastRoll)
  /\ \A f \in DOMAIN disk :
       /\ f \in [base : {Own}, at : Nat]
       /\ \E t \in StartTime .. MaxTime : t <= lastRoll /\ f.at = Local(t)

(* What is on its way to the files, oldest first: the list that is being   *)
(* written, the list of full buffers, the current buffer.                  *)
Ahead(s) == Before(stream, s) /\ \A f \in DOMAIN disk : Before(disk[f], s)
InPipe ==
  /\ \A i \in DOMAIN buffersToWrite :
       /\ Increasing(buffersToWrite[i]) /\ Before(buffersToWrite[i], currentBuffer)
       /\ i >= next => Ahead(buffersToWrite[i])
       /\ \A j \in DOMAIN buffersToWrite : i < j => Before(buffersToWrite[i], buffersToWrite[j])
       /\ \A k \in DOMAIN buffers : Before(buffersToWrite[i], buffers[k])
  /\ \A k \in DOMAIN buffers :
       /\ Increasing(buffers[k]) /\ Before(buffers[k], currentBuffer) /\ Ahead(buffers[k])
       /\ \A l \in DOMAIN buffers : k < l => Before(buffers[k], buffers[l])
  /\ Increasing(currentBuffer) /\ Ahead(currentBuffer)

(* Messages are numbered as they are appended.                             *)
UpTo(s)  == \A i \in DOMAIN s : s[i] <= appended
Numbered ==
  /\ UpTo(stream) /\ \A f \in DOMAIN disk : UpTo(disk[f])
  /\ UpTo(currentBuffer) /\ \A k \in DOMAIN buffers : UpTo(buffers[k])
  /\ \A i \in DOMAIN buffersToWrite : UpTo(buffersToWrite[i])

IInv == TypeOK /\ Phases /\ Paid /\ Named /\ InPipe /\ Numbered /\ FilesInOrder

-----------------------------------------------------------------------------
(* Order of the messages in sequences.                                     *)

LEMMA Shorter ==
  ASSUME NEW s \in Seq(Nat), NEW k \in 0 .. Len(s)
  PROVE  LET t == SubSeq(s, 1, k)
         IN  /\ t \in Seq(Nat) /\ Len(t) = k /\ k \in Nat /\ DOMAIN t = 1 .. k
             /\ \A i \in 1 .. k : i \in DOMAIN s /\ t[i] = s[i]
<1>1. k \in Nat /\ Len(s) \in Nat /\ \A i \in 1 .. k : i \in DOMAIN s /\ s[i] \in Nat
  OBVIOUS
<1> QED BY <1>1, SubSeqProperties

LEMMA ShorterOrder ==
  ASSUME NEW s \in Seq(Nat), NEW k \in 0 .. Len(s)
  PROVE  /\ Increasing(s) => Increasing(SubSeq(s, 1, k))
         /\ UpTo(s) => UpTo(SubSeq(s, 1, k))
         /\ \A t : Before(t, s) => Before(t, SubSeq(s, 1, k))
         /\ \A t : Before(s, t) => Before(SubSeq(s, 1, k), t)
BY Shorter DEF Increasing, Before, UpTo

LEMMA Joined ==
  ASSUME NEW s \in Seq(Nat), NEW t \in Seq(Nat)
  PROVE  /\ s \o t \in Seq(Nat) /\ DOMAIN (s \o t) = 1 .. Len(s) + Len(t)
         /\ \A i \in DOMAIN s : i \in DOMAIN (s \o t) /\ (s \o t)[i] = s[i]
         /\ \A i \in DOMAIN (s \o t) :
              \/ i \in DOMAIN s /\ (s \o t)[i] = s[i]
              \/ i > Len(s) /\ i - Len(s) \in DOMAIN t /\ (s \o t)[i] = t[i - Len(s)]
OBVIOUS

LEMMA JoinedOrder ==
  ASSUME NEW s \in Seq(Nat), NEW t \in Seq(Nat)
  PROVE  /\ Increasing(s) /\ Increasing(t) /\ Before(s, t) => Increasing(s \o t)
         /\ UpTo(s) /\ UpTo(t) => UpTo(s \o t)
         /\ \A u : Before(u, s) /\ Before(u, t) => Before(u, s \o t)
         /\ \A u : Before(s, u) /\ Before(t, u) => Before(s \o t, u)
<1>1. ASSUME Increasing(s), Increasing(t), Before(s, t) PROVE Increasing(s \o t)
  <2> SUFFICES ASSUME NEW i \in DOMAIN (s \o t), NEW j \in DOMAIN (s \o t), i < j,
                      (s \o t)[i] # Notice, (s \o t)[j] # Notice
               PROVE  (s \o t)[i] < (s \o t)[j]
    BY DEF Increasing
  <2>1. Len(s) \in Nat /\ i \in Nat /\ j \in Nat /\ DOMAIN s = 1 .. Len(s)
    BY Joined
  <2>2. CASE j \in DOMAIN s
    BY <1>1, <2>1, <2>2, Joined DEF Increasing
  <2>3. CASE i \in DOMAIN s /\ j \notin DOMAIN s
    BY <1>1, <2>1, <2>3, Joined DEF Before
  <2>4. CASE i \notin DOMAIN s /\ j \notin DOMAIN s
    BY <1>1, <2>1, <2>4, Joined DEF Increasing
  <2>5. i \notin DOMAIN s => j \notin DOMAIN s
    BY <2>1, Joined
  <2> QED BY <2>2, <2>3, <2>4, <2>5
<1>2. UpTo(s) /\ UpTo(t) => UpTo(s \o t)
  BY Joined DEF UpTo
<1>3. \A u : Before(u, s) /\ Before(u, t) => Before(u, s \o t)
  BY Joined DEF Before
<1>4. \A u : Before(s, u) /\ Before(t, u) => Before(s \o t, u)
  BY Joined DEF Before
<1> QED BY <1>1, <1>2, <1>3, <1>4

(* The empty sequence, and the one that has only the notice.               *)
LEMMA NothingOrder ==
  /\ Increasing(<<>>) /\ UpTo(<<>>)
  /\ \A s : Before(s, <<>>) /\ Before(<<>>, s)
  /\ Increasing(<<Notice>>) /\ (appended \in Nat => UpTo(<<Notice>>))
  /\ \A s : Before(s, <<Notice>>) /\ Before(<<Notice>>, s)
BY DEF Increasing, Before, UpTo, Notice

(* The next number is behind all that there are.                           *)
LEMMA NextOrder ==
  ASSUME NEW n \in Nat, n = appended + 1, appended \in Nat, NEW s \in Seq(Nat), UpTo(s)
  PROVE  Before(s, <<n>>) /\ Increasing(<<n>>)
BY DEF Before, Increasing, UpTo

-----------------------------------------------------------------------------
(* What the LogFile does with what it is given: it goes to the file, after *)
(* what the file has, or it stays in the stream.                           *)
Wrote(content) ==
  \/ disk' = Put(file, content) /\ stream' = <<>>
  \/ disk' = disk /\ stream' = content

LEMMA Constants ==
  /\ Own \in Nat /\ Foreign \subseteq [base : Nat, at : Nat] /\ Depth \in Nat
  /\ Refusals \subseteq 1 .. Depth + 1 /\ DaySeconds \in Nat /\ DaySeconds > 0
  /\ StartTime \in Nat /\ StartTime > 0 /\ MaxTime \in Nat /\ StartTime <= MaxTime
  /\ rollSize \in Nat /\ fileFlushInterval \in Nat /\ checkEveryN \in Nat
  /\ keepLogDate \in Nat /\ MaxBack \in Nat /\ MaxShort \in Nat
  /\ BufferSize \in Nat /\ BufferSize > 1 /\ MaxBuffers \in Nat /\ MaxBuffers >= 2 /\ MaxMsgs \in Nat
BY LogFileAssumption, AsyncLoggingAssumption

(* The local time of a second of the run, and a pointer to a spare.        *)
LEMMA LocalIsNat ==
  ASSUME NEW t \in StartTime .. MaxTime
  PROVE  t \in Times /\ t \in Nat /\ t > 0 /\ Local(t) \in Nat /\ Local(t) > 0
<1>1. t \in Nat /\ t > 0
  BY Constants
<1>2. keepLogDate * DaySeconds \in Nat
  BY Constants
<1>3. t \in Times
  BY <1>1, <1>2, Constants DEF Times
<1>4. ZoneOffset[t] \in Int /\ Local(t) > 0
  BY <1>3, LogFileAssumption
<1> QED BY <1>1, <1>3, <1>4 DEF Local

LEMMA Spare ==
  /\ Null \in Seq(Buffer) /\ Fresh \in Seq(Buffer) /\ Null # Fresh
  /\ Fresh[1] = <<>> /\ <<>> \in Buffer
<1>1. <<>> \in Buffer
  BY DEF Buffer
<1>2. Len(Null) = 0 /\ Len(Fresh) = 1
  BY DEF Null, Fresh
<1> QED BY <1>1, <1>2 DEF Null, Fresh

LEMMA PeriodIsNat == ASSUME NEW t \in Nat PROVE PeriodOf(t) \in Nat
<1>1. t \div DaySeconds \in Nat
  BY Constants
<1> QED BY <1>1, Constants DEF PeriodOf

LEMMA PutFacts ==
  ASSUME FileTypeOK, Named, NEW content \in Seq(Nat), disk' = Put(file, content)
  PROVE  /\ DOMAIN disk' = DOMAIN disk \cup {file}
         /\ Written(file) \in Seq(Nat) /\ disk'[file] = Written(file) \o content
         /\ \A f \in DOMAIN disk' : disk'[f] \in Seq(Nat)
         /\ \A f \in DOMAIN disk : f # file => disk'[f] = disk[f]
         /\ Written(file) = <<>> \/ (file \in DOMAIN disk /\ Written(file) = disk[file])
<1>1. Written(file) \in Seq(Nat)
  BY DEF Written, FileTypeOK
<1>2. Written(file) \o content \in Seq(Nat)
  BY <1>1, Joined
<1> QED BY <1>1, <1>2 DEF Put, Written, FileTypeOK

LEMMA WroteOrder ==
  ASSUME FileTypeOK, Named, Numbered, FilesInOrder, NEW content \in Seq(Nat), Wrote(content),
         Increasing(content), UpTo(content), \A f \in DOMAIN disk : Before(disk[f], content),
         appended' = appended
  PROVE  /\ FilesInOrder' /\ UpTo(stream)' /\ \A f \in DOMAIN disk' : UpTo(disk[f])'
         /\ \A s : Ahead(s) /\ Before(content, s) =>
                     Before(stream', s) /\ \A f \in DOMAIN disk' : Before(disk'[f], s)
<1>1. \A s : UpTo(s)' <=> \A i \in DOMAIN s' : s'[i] <= appended
  BY DEF UpTo
<1>2. CASE disk' = disk /\ stream' = content
  BY <1>2 DEF FilesInOrder, Numbered, Ahead, UpTo, Increasing, Before, Turned
<1>3. CASE disk' = Put(file, content) /\ stream' = <<>>
  <2>1. /\ DOMAIN disk' = DOMAIN disk \cup {file}
        /\ Written(file) \in Seq(Nat) /\ disk'[file] = Written(file) \o content
        /\ \A f \in DOMAIN disk : f # file => disk'[f] = disk[f]
        /\ Written(file) = <<>> \/ (file \in DOMAIN disk /\ Written(file) = disk[file])
    BY <1>3, PutFacts
  <2>2. /\ Increasing(Written(file)) /\ Before(Written(file), content) /\ UpTo(Written(file))
        /\ \A s : Ahead(s) => Before(Written(file), s)
    BY <2>1, NothingOrder DEF FilesInOrder, Numbered, Ahead
  <2>3. /\ Increasing(disk'[file]) /\ UpTo(disk'[file])
        /\ \A s : Ahead(s) /\ Before(content, s) => Before(disk'[file], s)
    BY <2>1, <2>2, JoinedOrder
  <2>4. \A f \in DOMAIN disk' : Increasing(disk'[f]) /\ UpTo(disk'[f])
    BY <2>1, <2>3 DEF FilesInOrder, Numbered
  <2>5. ASSUME NEW s, Ahead(s), Before(content, s)
        PROVE  Before(stream', s) /\ \A f \in DOMAIN disk' : Before(disk'[f], s)
    BY <1>3, <2>1, <2>3, <2>5, NothingOrder DEF Ahead
  <2>6. ASSUME NEW f \in DOMAIN disk', NEW g \in DOMAIN disk', f.at < g.at, ~ Turned(f, g)
        PROVE  Before(disk'[f], disk'[g])
    <3>1. ASSUME f = file PROVE FALSE
      <4>1. g \in DOMAIN disk /\ file # NoFile
        <5>1. file.at \in Nat
          BY DEF FileTypeOK
        <5>2. g # file
          BY <2>6, <3>1, <5>1
        <5> QED BY <2>1, <5>2 DEF Named
      <4>2. lastRoll \in StartTime .. MaxTime /\ file.at = Local(lastRoll)
        BY <4>1 DEF Named
      <4>3. PICK t \in StartTime .. MaxTime : t <= lastRoll /\ g.at = Local(t)
        BY <4>1 DEF Named
      <4>4. Local(lastRoll) \in Nat /\ Local(t) \in Nat /\ lastRoll \in Times /\ t \in Times
            /\ lastRoll \in Nat /\ t \in Nat
        BY <4>2, LocalIsNat
      <4>5. t # lastRoll
        BY <2>6, <3>1, <4>2, <4>3, <4>4
      <4> QED BY <2>6, <3>1, <4>2, <4>3, <4>4, <4>5 DEF Turned
    <3>2. f # file /\ f \in DOMAIN disk
      BY <2>1, <3>1
    <3>3. CASE g = file
      <4>1. Before(disk[f], Written(file))
        BY <2>1, <2>6, <3>2, <3>3, NothingOrder DEF FilesInOrder
      <4> QED BY <2>1, <3>2, <3>3, <4>1, JoinedOrder
    <3>4. CASE g # file
      BY <2>1, <2>6, <3>2, <3>4 DEF FilesInOrder
    <3> QED BY <3>3, <3>4
  <2>7. FilesInOrder'
    BY <1>3, <2>4, <2>6, NothingOrder DEF FilesInOrder, Increasing, Before, Turned
  <2> QED BY <1>3, <2>4, <2>5, <2>7 DEF UpTo
<1> QED BY <1>2, <1>3 DEF Wrote

LEMMA PutNamed ==
  ASSUME FileTypeOK, Named, file # NoFile, NEW content \in Seq(Nat), disk' = Put(file, content),
         now' = now, \/ file' = file /\ lastRoll' = lastRoll
                     \/ NewSecond /\ file' = getLogFileName /\ lastRoll' = now
  PROVE  /\ \A f \in DOMAIN disk' : disk'[f] \in Seq(Nat)
         /\ file' \in [base : {Own}, at : Nat] /\ file' # NoFile /\ Named'
<1>1. file \in [base : {Own}, at : Nat] /\ now \in StartTime .. MaxTime /\ now \in Nat /\ lastRoll \in Nat
  BY Constants DEF FileTypeOK
<1>2. DOMAIN disk' = DOMAIN disk \cup {file} /\ \A f \in DOMAIN disk' : disk'[f] \in Seq(Nat)
  BY PutFacts
<1>3. /\ lastRoll \in StartTime .. MaxTime /\ file.at = Local(lastRoll)
      /\ \A f \in DOMAIN disk' :
           /\ f \in [base : {Own}, at : Nat]
           /\ \E t \in StartTime .. MaxTime : t <= lastRoll /\ f.at = Local(t)
  BY <1>1, <1>2 DEF Named
<1>4. CASE file' = file /\ lastRoll' = lastRoll
  BY <1>1, <1>2, <1>3, <1>4 DEF Named, Local
<1>5. CASE NewSecond /\ file' = getLogFileName /\ lastRoll' = now
  <2>1. now > lastRoll
    BY <1>5 DEF NewSecond
  <2>2. file' = [base |-> Own, at |-> Local(now)] /\ file'.at = Local(now)
        /\ Local(now) \in Nat /\ Local(now) > 0
    BY <1>1, <1>5, LocalIsNat DEF getLogFileName
  <2>3. file' \in [base : {Own}, at : Nat] /\ file' # NoFile
    BY <2>2 DEF NoFile
  <2>4. ASSUME NEW f \in DOMAIN disk'
        PROVE  /\ f \in [base : {Own}, at : Nat]
               /\ \E t \in StartTime .. MaxTime : t <= now /\ f.at = Local(t)
    <3>1. PICK t \in StartTime .. MaxTime : t <= lastRoll /\ f.at = Local(t)
      BY <1>3
    <3>2. t <= now
      BY <1>1, <2>1, <3>1, LocalIsNat
    <3> QED BY <1>3, <3>1, <3>2
  <2>5. Named'
    BY <1>1, <1>5, <2>2, <2>3, <2>4 DEF Named, Local
  <2> QED BY <1>2, <2>3, <2>5
<1> QED BY <1>4, <1>5

(* The messages of a sequence. *)
LEMMA Members ==
  ASSUME NEW S, NEW s \in Seq(S)
  PROVE  ToSet(s) \subseteq S
<1>1. \A j \in DOMAIN s : s[j] \in S
  OBVIOUS
<1> QED BY <1>1 DEF ToSet

(* LogFile::append, whichever way it goes.                                 *)
LEMMA AppendWrites ==
  ASSUME FileTypeOK, Named, file # NoFile, NEW record \in Seq(Nat), append(record)
  PROVE  /\ \E k \in 0 .. Len(record) : Kept(record, k) /\ Wrote(stream \o SubSeq(record, 1, k))
         /\ FileTypeOK' /\ Named' /\ file' # NoFile
<1>1. PICK k \in 0 .. Len(record) :
        LET content == stream \o SubSeq(record, 1, k)
            total   == writtenBytes + Len(record)
        IN  /\ Kept(record, k)
            /\ \/ rollFile(content, total)
               \/ /\ \/ disk' = Put(file, content) /\ stream' = <<>> /\ lastFlush' = now
                     \/ disk' = disk /\ stream' = content /\ lastFlush' = lastFlush
                  /\ writtenBytes' = total /\ UNCHANGED <<made, dir, file, startOfPeriod, lastRoll>>
            /\ count' \in {count, 0} \/ (count' = count + 1 /\ ~(count + 1 >= checkEveryN))
            /\ UNCHANGED <<clock, refused>>
  BY DEF append
<1>a. Kept(record, k)
  BY <1>1
<1> DEFINE content == stream \o SubSeq(record, 1, k)
           total   == writtenBytes + Len(record)
<1>2. /\ content \in Seq(Nat) /\ total \in Nat /\ k \in Nat /\ Len(record) \in Nat
      /\ now' = now /\ now \in Nat
  <2>1. SubSeq(record, 1, k) \in Seq(Nat)
    BY Shorter
  <2>2. now' = now /\ now \in Nat
    BY <1>1, Constants DEF FileTypeOK, clock
  <2> QED BY <2>1, <2>2, Joined DEF FileTypeOK
<1>3. PICK c \in Seq(Nat), n \in Nat : c = content /\ n = total
  BY <1>2
<1> HIDE DEF content, total
<1>4. count' \in 0 .. checkEveryN
  BY <1>1, Constants DEF FileTypeOK
<1>5. shorts' \in 0 .. MaxShort /\ cut' \subseteq Nat
  <2>1. ToSet(SubSeq(record, k + 1, Len(record))) \subseteq Nat
    <3>1. \A i \in k + 1 .. Len(record) : record[i] \in Nat
      BY <1>2
    <3>2. SubSeq(record, k + 1, Len(record)) \in Seq(Nat)
      BY <1>2, <3>1, SubSeqProperties
    <3> QED BY <3>2, Members
  <2>2. Kept(record, k)
    BY <1>1
  <2>3. CASE UNCHANGED <<shorts, cut>>
    BY <2>3 DEF FileTypeOK
  <2>4. CASE shorts < MaxShort /\ shorts' = shorts + 1
             /\ cut' = cut \cup ToSet(SubSeq(record, k + 1, Len(record)))
    <3>1. shorts' \in 0 .. MaxShort
      BY <2>4, Constants DEF FileTypeOK
    <3> QED BY <2>1, <2>4, <3>1, Zenon DEF FileTypeOK
  <2> QED BY <2>2, <2>3, <2>4 DEF Kept
<1>6. CASE rollFile(c, n) /\ NewSecond
  <2>1. /\ disk' = Put(file, c) /\ stream' = <<>> /\ file' = getLogFileName /\ writtenBytes' = 0
        /\ dir' = (dir \ Expired) \cup {getLogFileName} /\ made' = Made
        /\ lastRoll' = now /\ lastFlush' = now /\ startOfPeriod' = PeriodOf(now)
    BY <1>6 DEF rollFile
  <2>2. /\ \A f \in DOMAIN disk' : disk'[f] \in Seq(Nat)
        /\ file' \in [base : {Own}, at : Nat] /\ file' # NoFile /\ Named'
    BY <1>2, <1>6, <2>1, PutNamed
  <2>3. startOfPeriod' \in Nat /\ made' \in 0 .. Depth
    BY <1>2, <2>1, PeriodIsNat, Constants DEF Made, FileTypeOK
  <2>4. dir' \subseteq [base : Nat, at : Nat]
    <3>1. Local(now) \in Nat
      BY LocalIsNat DEF FileTypeOK
    <3> QED BY <2>1, <3>1, Constants DEF getLogFileName, FileTypeOK
  <2>5. FileTypeOK'
    BY <1>1, <1>2, <1>4, <1>5, <2>1, <2>2, <2>3, <2>4, SMTT(30) DEF FileTypeOK, clock
  <2>6. Wrote(content)
    BY <1>3, <2>1 DEF Wrote
  <2> QED BY <1>a, <2>2, <2>5, <2>6 DEF content
<1>7. CASE rollFile(c, n) /\ ~NewSecond
  <2>1. /\ stream' = c /\ writtenBytes' = n /\ dir' = dir \ Expired /\ made' = Made
        /\ UNCHANGED <<disk, file, lastRoll, lastFlush, startOfPeriod>>
    BY <1>7 DEF rollFile
  <2>2. made' \in 0 .. Depth
    BY <2>1, Constants DEF Made, FileTypeOK
  <2>3. FileTypeOK'
    BY <1>1, <1>2, <1>3, <1>4, <1>5, <2>1, <2>2 DEF FileTypeOK, clock
  <2> QED BY <1>a, <1>2, <1>3, <2>1, <2>3 DEF Wrote, Named, content
<1>8. CASE writtenBytes' = n /\ UNCHANGED <<made, dir, file, startOfPeriod, lastRoll>>
           /\ disk' = Put(file, c) /\ stream' = <<>> /\ lastFlush' = now
  <2>1. /\ \A f \in DOMAIN disk' : disk'[f] \in Seq(Nat)
        /\ file' # NoFile /\ Named'
    BY <1>2, <1>8, PutNamed
  <2>2. FileTypeOK'
    BY <1>1, <1>2, <1>3, <1>4, <1>5, <1>8, <2>1 DEF FileTypeOK, clock
  <2> QED BY <1>a, <1>3, <1>8, <2>1, <2>2 DEF Wrote, content
<1>9. CASE writtenBytes' = n /\ UNCHANGED <<made, dir, file, startOfPeriod, lastRoll>>
           /\ disk' = disk /\ stream' = c /\ lastFlush' = lastFlush
  <2>1. FileTypeOK'
    BY <1>1, <1>2, <1>3, <1>4, <1>5, <1>9 DEF FileTypeOK, clock
  <2> QED BY <1>a, <1>2, <1>3, <1>9, <2>1 DEF Wrote, Named, content
<1> QED BY <1>1, <1>3, <1>6, <1>7, <1>8, <1>9 DEF content, total

LEMMA FlushWrites ==
  ASSUME FileTypeOK, Named, file # NoFile, flush
  PROVE  Wrote(stream) /\ FileTypeOK' /\ Named' /\ file' # NoFile
<1>1. PICK c \in Seq(Nat) : c = stream /\ disk' = Put(file, c)
  BY DEF flush, FileTypeOK
<1>2. /\ \A f \in DOMAIN disk' : disk'[f] \in Seq(Nat)
      /\ file' # NoFile /\ Named'
  BY <1>1, PutNamed DEF flush, clock
<1> QED BY <1>2 DEF flush, clock, FileTypeOK, Wrote

(* What is in order after a record was given to the file: what comes after *)
(* the record comes after all that is written now.                         *)
OrderKept(record) ==
  /\ FilesInOrder' /\ UpTo(stream)' /\ \A f \in DOMAIN disk' : UpTo(disk[f])'
  /\ \A s : Ahead(s) /\ Before(record, s) =>
              Before(stream', s) /\ \A f \in DOMAIN disk' : Before(disk'[f], s)

LEMMA GivenToFile ==
  ASSUME FileTypeOK, Named, Numbered, FilesInOrder, file # NoFile, appended' = appended,
         NEW record \in Seq(Nat), Increasing(record), UpTo(record), Ahead(record), append(record)
  PROVE  FileTypeOK' /\ Named' /\ file' # NoFile /\ OrderKept(record)
<1>1. /\ FileTypeOK' /\ Named' /\ file' # NoFile
      /\ \E k \in 0 .. Len(record) : Wrote(stream \o SubSeq(record, 1, k))
  BY AppendWrites
<1>2. PICK k \in 0 .. Len(record) : Wrote(stream \o SubSeq(record, 1, k))
  BY <1>1
<1>3. PICK s \in Seq(Nat), r \in Seq(Nat) : s = stream /\ r = SubSeq(record, 1, k)
  BY Shorter DEF FileTypeOK
<1>4. PICK content \in Seq(Nat) : content = s \o r
  BY Joined
<1>5. /\ Increasing(r) /\ UpTo(r) /\ Ahead(r)
      /\ \A t : Before(record, t) => Before(r, t)
  BY <1>3, ShorterOrder DEF Ahead
<1>6. /\ Increasing(s) /\ UpTo(s) /\ \A f \in DOMAIN disk : Before(disk[f], s)
      /\ Before(s, r) /\ \A f \in DOMAIN disk : Before(disk[f], r)
      /\ \A t : Ahead(t) => Before(s, t)
  BY <1>3, <1>5 DEF FilesInOrder, Numbered, Ahead
<1>7. /\ Increasing(content) /\ UpTo(content) /\ \A f \in DOMAIN disk : Before(disk[f], content)
      /\ \A t : Ahead(t) /\ Before(record, t) => Before(content, t)
  BY <1>4, <1>5, <1>6, JoinedOrder
<1>8. Wrote(content)
  BY <1>2, <1>3, <1>4
<1>9. /\ FilesInOrder' /\ UpTo(stream)' /\ \A f \in DOMAIN disk' : UpTo(disk[f])'
      /\ \A t : Ahead(t) /\ Before(content, t) =>
                  Before(stream', t) /\ \A f \in DOMAIN disk' : Before(disk'[f], t)
  BY <1>7, <1>8, WroteOrder
<1> QED BY <1>1, <1>7, <1>9 DEF OrderKept

LEMMA Flushed ==
  ASSUME FileTypeOK, Named, Numbered, FilesInOrder, file # NoFile, appended' = appended, flush
  PROVE  FileTypeOK' /\ Named' /\ file' # NoFile /\ OrderKept(<<>>)
<1>1. FileTypeOK' /\ Named' /\ file' # NoFile /\ Wrote(stream)
  BY FlushWrites
<1>2. PICK content \in Seq(Nat) : content = stream
  BY DEF FileTypeOK
<1>3. /\ Increasing(content) /\ UpTo(content) /\ \A f \in DOMAIN disk : Before(disk[f], content)
      /\ \A t : Ahead(t) => Before(content, t)
  BY <1>2 DEF FilesInOrder, Numbered, Ahead
<1>4. /\ FilesInOrder' /\ UpTo(stream)' /\ \A f \in DOMAIN disk' : UpTo(disk[f])'
      /\ \A t : Ahead(t) /\ Before(content, t) =>
                  Before(stream', t) /\ \A f \in DOMAIN disk' : Before(disk'[f], t)
  BY <1>1, <1>2, <1>3, WroteOrder
<1> QED BY <1>1, <1>3, <1>4 DEF OrderKept

-----------------------------------------------------------------------------
LEMMA BufferIsSeq == ASSUME NEW b \in Buffer PROVE b \in Seq(Nat)
<1>1. 1 .. MaxMsgs \subseteq Nat
  BY Constants
<1> QED BY <1>1, SeqMonotonic DEF Buffer

(* Where neither the pipe nor the files change.                            *)
PipeVars == <<disk, stream, buffersToWrite, next, buffers, currentBuffer, appended>>

LEMMA PipeStill ==
  ASSUME InPipe, Numbered, FilesInOrder, UNCHANGED PipeVars
  PROVE  InPipe' /\ Numbered' /\ FilesInOrder'
BY DEF PipeVars, InPipe, Numbered, FilesInOrder, Ahead, UpTo, Increasing, Before, Turned

LEMMA InitInv == Init => IInv
<1> SUFFICES ASSUME Init PROVE IInv
  OBVIOUS
<1> USE DEF Init, FileInit
<1>1. FileTypeOK
  <2>1. file \in [base : {Own}, at : Nat]
    BY DEF NoFile
  <2>2. made \in 0 .. Depth /\ count \in 0 .. checkEveryN /\ backs \in 0 .. MaxBack
        /\ shorts \in 0 .. MaxShort
    BY Constants
  <2> QED BY <2>1, <2>2, Constants DEF FileTypeOK
<1>2. TypeOK
  <2>1. currentBuffer \in Buffer /\ buffers \in Seq(Buffer) /\ buffersToWrite \in Seq(Buffer)
    BY DEF Buffer
  <2>2. appended \in 0 .. MaxMsgs /\ next \in 1 .. Len(buffersToWrite) + 1
    BY Constants
  <2> QED BY <1>1, <2>1, <2>2, Spare DEF TypeOK
<1>3. Phases /\ Paid /\ Named
  BY Spare DEF Phases, Paid, Named
<1>4. InPipe /\ Numbered /\ FilesInOrder
  BY NothingOrder DEF InPipe, Numbered, FilesInOrder, Ahead
<1> QED BY <1>2, <1>3, <1>4 DEF IInv

-----------------------------------------------------------------------------
(* The callers of start and stop, the head of the loop and the clock.      *)
LEMMA ControlInv ==
  ASSUME IInv, Start \/ StartReturns \/ Stop \/ StopReturns \/ Loop
  PROVE  IInv'
<1> USE DEF Start, StartReturns, LatchOpen, Stop, StopReturns, Loop, fileVars, clock, rolling, front, back
<1>1. TypeOK'
  <2> USE DEF IInv, TypeOK
  <2>1. FileTypeOK'
    BY DEF FileTypeOK
  <2>2. CASE Start
    BY <2>1, <2>2
  <2>3. CASE StartReturns
    BY <2>1, <2>3
  <2>4. CASE Stop
    BY <2>1, <2>4
  <2>5. CASE StopReturns
    BY <2>1, <2>5
  <2>6. CASE Loop
    BY <2>1, <2>6
  <2> QED BY <2>2, <2>3, <2>4, <2>5, <2>6
<1>2. Phases'
  BY DEF IInv, TypeOK, Phases
<1>3. Paid' /\ Named'
  BY DEF IInv, Paid, Named
<1>4. InPipe' /\ Numbered' /\ FilesInOrder'
  BY PipeStill DEF IInv, PipeVars
<1> QED BY <1>1, <1>2, <1>3, <1>4 DEF IInv

LEMMA ClockInv == ASSUME IInv, Clock PROVE IInv'
<1> USE DEF Clock, Tick, SecondPasses, ClockStepsBack, rolling, front, back
<1>1. now' \in StartTime .. MaxTime /\ backs' \in 0 .. MaxBack
  <2>1. now \in StartTime .. MaxTime /\ now \in Nat /\ backs \in 0 .. MaxBack
    BY Constants DEF IInv, TypeOK, FileTypeOK
  <2>2. CASE SecondPasses
    BY <2>1, <2>2, Constants
  <2>3. CASE ClockStepsBack
    BY <2>1, <2>3, Constants
  <2> QED BY <2>2, <2>3
<1>2. TypeOK'
  BY <1>1 DEF IInv, TypeOK, FileTypeOK
<1>3. Phases' /\ Paid' /\ Named'
  BY <1>1 DEF IInv, Phases, Paid, Named
<1>4. InPipe' /\ Numbered' /\ FilesInOrder'
  BY PipeStill DEF IInv, PipeVars
<1> QED BY <1>2, <1>3, <1>4 DEF IInv

-----------------------------------------------------------------------------
(* append: the message is behind all others.                               *)

(* What an Append does to the order. *)
LEMMA AppendOrder ==
  ASSUME NEW s \in Seq(Nat), NEW n \in Nat
  PROVE  /\ Increasing(s) /\ Before(s, <<n>>) /\ Increasing(<<n>>) => Increasing(Append(s, n))
         /\ \A t : Before(t, s) /\ Before(t, <<n>>) => Before(t, Append(s, n))
<1>1. Append(s, n) = s \o <<n>> /\ <<n>> \in Seq(Nat)
  BY AppendIsConcat
<1> QED BY <1>1, JoinedOrder

(* A roll-over puts the message in an empty buffer, a spare or a new one.  *)
LEMMA IntoFresh ==
  ASSUME NEW p \in {Null, Fresh}, NEW n \in Nat
  PROVE  Into(IF p = Null THEN <<>> ELSE p[1], n) = <<n>>
<1>1. (IF p = Null THEN <<>> ELSE p[1]) = <<>>
  BY Spare
<1>2. HasRoom(<<>>) /\ Append(<<>>, n) = <<n>>
  BY Constants DEF HasRoom
<1> QED BY <1>1, <1>2 DEF Into

LEMMA StillUpTo ==
  ASSUME NEW s \in Seq(Nat), UpTo(s), appended \in Nat, appended' = appended + 1
  PROVE  \A i \in DOMAIN s : s[i] <= appended'
BY DEF UpTo

LEMMA AppendMessageInv == ASSUME IInv, AppendMessage PROVE IInv'
<1> USE DEF AppendMessage, back, fileVars, clock, rolling
<1>1. PICK n \in 1 .. MaxMsgs : n = appended + 1 /\ appended' = n /\ appended \in Nat
  BY Constants DEF IInv, TypeOK
<1>2. PICK cur \in Buffer, bufs \in Seq(Buffer) : cur = currentBuffer /\ bufs = buffers
  BY DEF IInv, TypeOK
<1>3. /\ n \in Nat /\ cur \in Seq(Nat) /\ <<n>> \in Seq(Nat) /\ \A k \in DOMAIN bufs : bufs[k] \in Seq(Nat)
      /\ stream \in Seq(Nat) /\ \A f \in DOMAIN disk : disk[f] \in Seq(Nat)
      /\ \A i \in DOMAIN buffersToWrite : buffersToWrite[i] \in Seq(Nat)
  BY <1>2, BufferIsSeq DEF IInv, TypeOK, FileTypeOK
<1>4. /\ Increasing(<<n>>) /\ Ahead(<<n>>) /\ Before(cur, <<n>>)
      /\ \A k \in DOMAIN bufs : Before(bufs[k], <<n>>)
      /\ \A i \in DOMAIN buffersToWrite : Before(buffersToWrite[i], <<n>>)
  BY <1>1, <1>2, <1>3, NextOrder DEF IInv, Numbered, Ahead
<1>5. /\ UpTo(stream)' /\ \A f \in DOMAIN disk' : UpTo(disk[f])'
      /\ \A i \in DOMAIN buffersToWrite' : UpTo(buffersToWrite[i])'
      /\ \A s \in Seq(Nat) : UpTo(s) => \A i \in DOMAIN s : s[i] <= appended'
  BY <1>1, <1>3, StillUpTo DEF IInv, Numbered, UpTo
<1>6. Phases' /\ Named' /\ FilesInOrder'
  BY DEF IInv, Phases, Named, Local, FilesInOrder, Increasing, Before, Turned
<1>7. CASE Fits
  <2>1. currentBuffer' = Append(cur, n) /\ UNCHANGED <<nextBuffer, buffers>>
    BY <1>1, <1>2, <1>7 DEF Fits, Into
  <2>2. Append(cur, n) \in Buffer
    BY <1>2 DEF Buffer
  <2>3. TypeOK'
    BY <1>1, <2>1, <2>2 DEF IInv, TypeOK, FileTypeOK
  <2>4. Paid'
    BY <2>1 DEF IInv, Paid
  <2>5. UpTo(currentBuffer)'
    <3>1. \A i \in DOMAIN Append(cur, n) : \/ i \in DOMAIN cur /\ Append(cur, n)[i] = cur[i]
                                           \/ Append(cur, n)[i] = n
      BY <1>3
    <3>2. \A i \in DOMAIN cur : cur[i] <= n
      BY <1>1, <1>2, <1>3, <1>5 DEF IInv, Numbered
    <3> QED BY <1>1, <2>1, <3>1, <3>2 DEF UpTo
  <2>6. Numbered'
    <3>1. \A k \in DOMAIN buffers : UpTo(buffers[k])'
      BY <1>1, <1>2, <1>3, <1>5, <2>1 DEF IInv, Numbered, UpTo
    <3> QED BY <1>5, <2>1, <2>5, <3>1 DEF Numbered
  <2>7. InPipe'
    <3>1. Increasing(currentBuffer') /\ \A s : Before(s, cur) /\ Before(s, <<n>>) => Before(s, currentBuffer')
      BY <1>2, <1>3, <1>4, <2>1, AppendOrder DEF IInv, InPipe
    <3>2. /\ Ahead(currentBuffer)'
          /\ \A i \in DOMAIN buffersToWrite : Before(buffersToWrite[i], currentBuffer')
          /\ \A k \in DOMAIN buffers : Before(buffers[k], currentBuffer')
      BY <1>2, <1>4, <3>1 DEF IInv, InPipe, Ahead
    <3>3. \A s : Ahead(s) => Before(stream', s) /\ \A f \in DOMAIN disk' : Before(disk'[f], s)
      BY DEF Ahead
    <3> QED BY <2>1, <3>1, <3>2, <3>3 DEF IInv, InPipe, Increasing, Before, Ahead
  <2> QED BY <1>6, <2>3, <2>4, <2>6, <2>7 DEF IInv
<1>8. CASE ~Fits
  <2>1. buffers' = Append(bufs, cur) /\ currentBuffer' = <<n>> /\ nextBuffer' = Null
    BY <1>1, <1>2, <1>8, IntoFresh DEF IInv, Paid
  <2>2. /\ Append(bufs, cur) \in Seq(Buffer) /\ <<n>> \in Buffer /\ Len(bufs) \in Nat
        /\ DOMAIN bufs = 1 .. Len(bufs) /\ DOMAIN buffers' = 1 .. Len(bufs) + 1
        /\ \A k \in DOMAIN bufs : buffers'[k] = bufs[k]
        /\ buffers'[Len(bufs) + 1] = cur
        /\ \A k \in DOMAIN buffers' : k \in DOMAIN bufs \/ (k = Len(bufs) + 1 /\ buffers'[k] = cur)
    BY <1>2, <2>1 DEF Buffer
  <2>3. TypeOK'
    <3>1. /\ buffers' \in Seq(Buffer) /\ currentBuffer' \in Buffer /\ nextBuffer' \in Seq(Buffer)
          /\ appended' \in 0 .. MaxMsgs
      <4>1. buffers' \in Seq(Buffer) /\ currentBuffer' \in Buffer /\ nextBuffer' \in Seq(Buffer)
        BY <2>1, <2>2, Spare
      <4> QED BY <1>1, <4>1, Constants
    <3>2. FileTypeOK'
      BY DEF IInv, TypeOK, FileTypeOK
    <3> QED BY <3>1, <3>2 DEF IInv, TypeOK
  <2>4. Paid'
    <3>1. Len(buffers') # 0 /\ buffers' # <<>>
      BY <2>1, <2>2
    <3> QED BY <2>1, <3>1 DEF IInv, Paid
  <2>5. Numbered'
    <3>1. \A k \in DOMAIN buffers' : UpTo(buffers[k])'
      BY <1>2, <1>3, <1>5, <2>2 DEF IInv, Numbered, UpTo
    <3>2. UpTo(currentBuffer)'
      BY <1>1, <2>1 DEF UpTo
    <3> QED BY <1>5, <3>1, <3>2 DEF Numbered
  <2>6. InPipe'
    <3>1. \A i \in DOMAIN buffersToWrite : \A k \in DOMAIN buffers' : Before(buffersToWrite[i], buffers'[k])
      BY <1>2, <2>2 DEF IInv, InPipe
    <3>2. \A k \in DOMAIN buffers' : Increasing(buffers'[k]) /\ Before(buffers'[k], <<n>>) /\ Ahead(buffers'[k])
      BY <1>2, <1>4, <2>2 DEF IInv, InPipe
    <3>3. \A k, l \in DOMAIN buffers' : k < l => Before(buffers'[k], buffers'[l])
      <4> SUFFICES ASSUME NEW k \in DOMAIN buffers', NEW l \in DOMAIN buffers', k < l
                   PROVE  Before(buffers'[k], buffers'[l])
        OBVIOUS
      <4>1. k \in DOMAIN bufs
        BY <2>2
      <4> QED BY <1>2, <2>2, <4>1 DEF IInv, InPipe
    <3>4. \A s : Ahead(s) => Before(stream', s) /\ \A f \in DOMAIN disk' : Before(disk'[f], s)
      BY DEF Ahead
    <3> QED BY <1>4, <2>1, <3>1, <3>2, <3>3, <3>4 DEF IInv, InPipe, Increasing, Before, Ahead
  <2> QED BY <1>6, <2>3, <2>4, <2>5, <2>6 DEF IInv
<1> QED BY <1>7, <1>8

-----------------------------------------------------------------------------
(* The logging thread.                                                     *)

LEMMA BeginInv == ASSUME IInv, Begin PROVE IInv'
<1> USE DEF Begin, countDown, clock, front
<1>1. /\ file = NoFile /\ lastRoll = 0 /\ DOMAIN disk = {} /\ NewSecond
      /\ now \in StartTime .. MaxTime /\ now \in Nat /\ now > 0
  BY Constants DEF IInv, TypeOK, FileTypeOK, Phases, Named, NewSecond
<1>2. /\ disk' = disk /\ stream' = <<>> /\ file' = getLogFileName /\ writtenBytes' = 0
      /\ dir' = (dir \ Expired) \cup {getLogFileName} /\ made' = Made
      /\ lastRoll' = now /\ lastFlush' = now /\ startOfPeriod' = PeriodOf(now)
  BY <1>1 DEF rollFile
<1>3. /\ file' = [base |-> Own, at |-> Local(now)] /\ file'.at = Local(now)
      /\ Local(now) \in Nat /\ Local(now) > 0
  BY <1>1, <1>2, LocalIsNat DEF getLogFileName
<1>4. file' \in [base : {Own}, at : Nat] /\ file' # NoFile
  BY <1>3 DEF NoFile
<1>5. FileTypeOK'
  <2>1. startOfPeriod' \in Nat /\ made' \in 0 .. Depth
    BY <1>1, <1>2, PeriodIsNat, Constants DEF Made, IInv, TypeOK, FileTypeOK
  <2>2. dir' \subseteq [base : Nat, at : Nat]
    BY <1>1, <1>2, <1>3, Constants DEF getLogFileName, IInv, TypeOK, FileTypeOK
  <2>3. UNCHANGED <<now, backs, refused, count, shorts, cut, disk>> /\ stream' \in Seq(Nat)
    BY <1>2
  <2> QED BY <1>1, <1>2, <1>4, <2>1, <2>2, <2>3 DEF IInv, TypeOK, FileTypeOK
<1>6. TypeOK'
  BY <1>5, Spare DEF IInv, TypeOK, Phases
<1>7. Phases'
  BY <1>4 DEF IInv, TypeOK, Phases
<1>8. Paid'
  BY DEF IInv, Paid
<1>9. Named'
  BY <1>1, <1>2, <1>3, <1>4 DEF IInv, Named, Local
<1>10. InPipe' /\ Numbered' /\ FilesInOrder'
  <2>1. stream' = stream
    BY <1>1, <1>2 DEF IInv, Named
  <2> QED BY <1>2, <2>1, PipeStill DEF IInv, PipeVars
<1> QED BY <1>6, <1>7, <1>8, <1>9, <1>10 DEF IInv

LEMMA AbortInv == ASSUME IInv, Abort PROVE IInv'
<1> USE DEF Abort, countDown, clock, front, back
<1>1. made' \in 0 .. Depth
  BY Constants DEF Made, IInv, TypeOK, FileTypeOK
<1>2. TypeOK'
  BY <1>1 DEF IInv, TypeOK, FileTypeOK, Phases
<1>3. Phases'
  BY DEF IInv, TypeOK, Phases
<1>4. Paid' /\ Named'
  BY DEF IInv, Paid, Named
<1>5. InPipe' /\ Numbered' /\ FilesInOrder'
  BY PipeStill DEF IInv, PipeVars
<1> QED BY <1>2, <1>3, <1>4, <1>5 DEF IInv

LEMMA SwapInv == ASSUME IInv, Swap PROVE IInv'
<1> USE DEF Swap, fileVars, clock, rolling
<1>1. PICK cur \in Buffer, bufs \in Seq(Buffer) : cur = currentBuffer /\ bufs = buffers
  BY DEF IInv, TypeOK
<1>0. newBuffer1[1] = <<>>
  BY Spare DEF IInv, Paid
<1>2. /\ buffersToWrite' = Append(bufs, cur) /\ buffers' = <<>> /\ currentBuffer' = <<>>
      /\ Append(bufs, cur) \in Seq(Buffer) /\ <<>> \in Buffer /\ <<>> \in Seq(Buffer)
      /\ Len(bufs) \in Nat /\ Len(buffersToWrite') = Len(bufs) + 1
      /\ DOMAIN bufs = 1 .. Len(bufs) /\ DOMAIN buffersToWrite' = 1 .. Len(bufs) + 1
      /\ \A k \in DOMAIN bufs : buffersToWrite'[k] = bufs[k]
      /\ buffersToWrite'[Len(bufs) + 1] = cur
      /\ \A k \in DOMAIN buffersToWrite' : k \in DOMAIN bufs \/ (k = Len(bufs) + 1 /\ buffersToWrite'[k] = cur)
  BY <1>0, <1>1 DEF Buffer
<1>3. /\ next = 1 /\ newBuffer1 = Fresh /\ newBuffer2 = Fresh
      /\ nextBuffer = Null => Len(bufs) >= 1
  <2>1. bufs # <<>> => Len(bufs) >= 1
    BY <1>1
  <2> QED BY <1>1, <2>1 DEF IInv, Paid
<1>4. TypeOK'
  <2>1. /\ next' \in 1 .. Len(buffersToWrite') + 1 /\ newBuffer2' \in Seq(Buffer)
        /\ nextBuffer' \in Seq(Buffer) /\ newBuffer1' \in Seq(Buffer)
    <3>1. next' \in 1 .. Len(buffersToWrite') + 1
      BY <1>2, <1>3
    <3>2. newBuffer2 \in Seq(Buffer) /\ nextBuffer \in Seq(Buffer)
      BY DEF IInv, TypeOK
    <3> QED BY <3>1, <3>2, Spare
  <2>2. FileTypeOK'
    BY DEF IInv, TypeOK, FileTypeOK
  <2>3. currentBuffer' \in Buffer /\ buffers' \in Seq(Buffer) /\ buffersToWrite' \in Seq(Buffer)
    BY <1>2
  <2> QED BY <2>1, <2>2, <2>3 DEF IInv, TypeOK
<1>5. Phases' /\ Named' /\ FilesInOrder'
  BY DEF IInv, Phases, Named, Local, FilesInOrder, Increasing, Before, Turned
<1>6. Paid'
  <2>1. /\ newBuffer1' = Null /\ nextBuffer' = Fresh /\ newBuffer2' \in {Null, Fresh}
        /\ newBuffer2' = Null => nextBuffer = Null
    BY <1>3, Spare DEF IInv, Paid
  <2>2. nextBuffer' # Null
    BY <2>1, Spare
  <2> QED BY <1>2, <1>3, <2>1, <2>2 DEF Paid
<1>7. Numbered'
  BY <1>1, <1>2, NothingOrder DEF IInv, Numbered, UpTo
<1>8. InPipe'
  <2>1. \A k \in DOMAIN buffersToWrite' : Increasing(buffersToWrite'[k]) /\ Ahead(buffersToWrite'[k])
    BY <1>1, <1>2 DEF IInv, InPipe
  <2>2. \A k, l \in DOMAIN buffersToWrite' : k < l => Before(buffersToWrite'[k], buffersToWrite'[l])
    <3> SUFFICES ASSUME NEW k \in DOMAIN buffersToWrite', NEW l \in DOMAIN buffersToWrite', k < l
                 PROVE  Before(buffersToWrite'[k], buffersToWrite'[l])
      OBVIOUS
    <3>1. k \in DOMAIN bufs
      BY <1>2
    <3> QED BY <1>1, <1>2, <3>1 DEF IInv, InPipe
  <2>3. \A s : Ahead(s) => Before(stream', s) /\ \A f \in DOMAIN disk' : Before(disk'[f], s)
    BY DEF Ahead
  <2>4. DOMAIN buffers' = {}
    BY <1>2
  <2>5. \A s : Before(s, currentBuffer') /\ Increasing(currentBuffer')
    BY <1>2, NothingOrder
  <2> QED BY <2>1, <2>2, <2>3, <2>4, <2>5 DEF InPipe, Ahead
<1> QED BY <1>4, <1>5, <1>6, <1>7, <1>8 DEF IInv

(* A record goes to the file, and the list is replaced by a part of it.    *)
LEMMA GoesOn ==
  ASSUME IInv, file # NoFile, appended' = appended, UNCHANGED <<currentBuffer, buffers>>,
         NEW record \in Seq(Nat), OrderKept(record),
         Before(record, currentBuffer), \A k \in DOMAIN buffers : Before(record, buffers[k]),
         DOMAIN buffersToWrite' \subseteq DOMAIN buffersToWrite,
         \A i \in DOMAIN buffersToWrite' :
           /\ buffersToWrite'[i] = buffersToWrite[i]
           /\ i >= next' => i >= next /\ Before(record, buffersToWrite[i])
  PROVE  InPipe' /\ Numbered' /\ FilesInOrder'
<1>1. /\ Ahead(currentBuffer)' /\ \A k \in DOMAIN buffers : Ahead(buffers[k])'
      /\ \A i \in DOMAIN buffersToWrite' : i >= next' => Ahead(buffersToWrite[i])'
  BY DEF IInv, InPipe, OrderKept, Ahead, Before
<1>2. InPipe'
  <2>1. \A i \in DOMAIN buffersToWrite' :
          /\ Increasing(buffersToWrite[i])' /\ Before(buffersToWrite[i], currentBuffer)'
          /\ \A j \in DOMAIN buffersToWrite' : i < j => Before(buffersToWrite[i], buffersToWrite[j])'
          /\ \A k \in DOMAIN buffers' : Before(buffersToWrite[i], buffers[k])'
    BY DEF IInv, InPipe, Increasing, Before
  <2>2. \A k \in DOMAIN buffers' :
          /\ Increasing(buffers[k])' /\ Before(buffers[k], currentBuffer)'
          /\ \A l \in DOMAIN buffers' : k < l => Before(buffers[k], buffers[l])'
    BY DEF IInv, InPipe, Increasing, Before
  <2>3. Increasing(currentBuffer)'
    BY DEF IInv, InPipe, Increasing
  <2> QED BY <1>1, <2>1, <2>2, <2>3 DEF InPipe
<1>3. Numbered'
  BY DEF IInv, Numbered, OrderKept, UpTo
<1> QED BY <1>2, <1>3 DEF OrderKept

LEMMA MessagesBound ==
  ASSUME NEW bufs \in Seq(Buffer)
  PROVE  Messages(bufs) \subseteq 1 .. MaxMsgs
<1>1. ASSUME NEW i \in DOMAIN bufs PROVE ToSet(bufs[i]) \subseteq 1 .. MaxMsgs
  <2>1. bufs[i] \in Seq(1 .. MaxMsgs)
    BY DEF Buffer
  <2> QED BY <2>1, Members
<1> QED BY <1>1 DEF Messages

LEMMA DropInv == ASSUME IInv, Drop PROVE IInv'
<1> USE DEF Drop, front
<1>1. /\ file # NoFile /\ next = 1 /\ Len(buffersToWrite) \in Nat /\ Len(buffersToWrite) >= 1
      /\ (newBuffer2 = Null => Len(buffersToWrite) >= 2)
  BY DEF IInv, TypeOK, Phases, Paid
<1>2. CASE Len(buffersToWrite) > MaxBuffers
  <2>1. PICK btw \in Seq(Buffer) : btw = buffersToWrite
    BY DEF IInv, TypeOK
  <2>2. /\ buffersToWrite' = SubSeq(btw, 1, 2) /\ SubSeq(btw, 1, 2) \in Seq(Buffer)
        /\ Len(SubSeq(btw, 1, 2)) = 2 /\ DOMAIN SubSeq(btw, 1, 2) = 1 .. 2
        /\ 1 .. 2 \subseteq DOMAIN btw
        /\ \A i \in 1 .. 2 : SubSeq(btw, 1, 2)[i] = btw[i]
    <3>1. Len(btw) \in Nat /\ Len(btw) >= 2 /\ DOMAIN btw = 1 .. Len(btw)
      BY <1>2, <2>1, Constants
    <3>2. \A i \in 1 .. 2 : i \in DOMAIN btw /\ btw[i] \in Buffer
      BY <3>1
    <3>3. buffersToWrite' = SubSeq(btw, 1, 2)
      BY <1>2, <2>1 DEF KeepsTwo
    <3> QED BY <3>1, <3>2, <3>3, SubSeqProperties
  <2>3. /\ <<Notice>> \in Seq(Nat) /\ Increasing(<<Notice>>) /\ UpTo(<<Notice>>)
        /\ \A s : Before(s, <<Notice>>) /\ Before(<<Notice>>, s)
    BY NothingOrder, Constants DEF Notice, IInv, TypeOK
  <2>4. FileTypeOK' /\ Named' /\ file' # NoFile /\ OrderKept(<<Notice>>)
    BY <1>1, <1>2, <2>3, GivenToFile DEF IInv, TypeOK, Ahead
  <2>5. InPipe' /\ Numbered' /\ FilesInOrder'
    BY <1>1, <2>1, <2>2, <2>3, <2>4, GoesOn
  <2>6. dropped' \subseteq 1 .. MaxMsgs
    BY <1>2, <2>1, MessagesBound DEF IInv, TypeOK
  <2>7. TypeOK'
    <3>1. next' \in 1 .. Len(buffersToWrite') + 1
      BY <1>1, <2>2
    <3>2. /\ currentBuffer' \in Buffer /\ buffers' \in Seq(Buffer) /\ buffersToWrite' \in Seq(Buffer)
          /\ pc' = "write" /\ UNCHANGED <<caller, running, latch, appended, nextBuffer, newBuffer1, newBuffer2>>
      BY <2>2 DEF IInv, TypeOK
    <3> QED BY <2>4, <2>6, <3>1, <3>2 DEF IInv, TypeOK
  <2>8. Phases'
    BY <2>4 DEF IInv, Phases
  <2>9. Paid'
    BY <1>1, <2>2 DEF IInv, Paid
  <2> QED BY <2>4, <2>5, <2>7, <2>8, <2>9 DEF IInv
<1>3. CASE ~(Len(buffersToWrite) > MaxBuffers)
  <2>1. UNCHANGED <<fileVars, buffersToWrite, dropped>>
    BY <1>3
  <2>2. TypeOK' /\ Named'
    BY <2>1 DEF IInv, TypeOK, FileTypeOK, Named, fileVars, clock, rolling
  <2>3. Phases' /\ Paid'
    BY <1>1, <2>1 DEF IInv, Phases, Paid, fileVars, clock, rolling
  <2>4. InPipe' /\ Numbered' /\ FilesInOrder'
    BY <2>1, PipeStill DEF IInv, PipeVars, fileVars, clock, rolling
  <2> QED BY <2>2, <2>3, <2>4 DEF IInv
<1> QED BY <1>2, <1>3

LEMMA WriteInv == ASSUME IInv, Write PROVE IInv'
<1> USE DEF Write, front, InOrder
<1>1. /\ file # NoFile /\ next \in Nat /\ Len(buffersToWrite) \in Nat
      /\ next \in DOMAIN buffersToWrite /\ next' = next + 1
  BY DEF IInv, TypeOK, Phases, Paid
<1>2. PICK record \in Buffer : record = buffersToWrite[next]
  BY <1>1 DEF IInv, TypeOK
<1>3. record \in Seq(Nat) /\ Increasing(record) /\ UpTo(record) /\ Ahead(record)
  BY <1>1, <1>2, BufferIsSeq DEF IInv, InPipe, Numbered
<1>4. FileTypeOK' /\ Named' /\ file' # NoFile /\ OrderKept(record)
  BY <1>1, <1>2, <1>3, GivenToFile DEF IInv, TypeOK
<1>5. InPipe' /\ Numbered' /\ FilesInOrder'
  <2>1. /\ Before(record, currentBuffer) /\ \A k \in DOMAIN buffers : Before(record, buffers[k])
        /\ \A i \in DOMAIN buffersToWrite : i > next => Before(record, buffersToWrite[i])
    BY <1>1, <1>2 DEF IInv, InPipe
  <2>2. \A i \in DOMAIN buffersToWrite : i >= next' => i >= next /\ i > next
    BY <1>1 DEF IInv, TypeOK
  <2> QED BY <1>1, <1>3, <1>4, <2>1, <2>2, GoesOn
<1>6. TypeOK'
  <2>1. next' \in 1 .. Len(buffersToWrite') + 1
    BY <1>1
  <2> QED BY <1>4, <2>1 DEF IInv, TypeOK
<1>7. Phases'
  BY <1>4 DEF IInv, Phases
<1>8. Paid'
  BY <1>1 DEF IInv, Paid
<1> QED BY <1>4, <1>5, <1>6, <1>7, <1>8 DEF IInv

LEMMA RecycleInv == ASSUME IInv, Recycle PROVE IInv'
<1> USE DEF Recycle, front
<1>0. newBuffer1' = Fresh /\ newBuffer2' = Fresh
  BY DEF reset, Fresh, IInv, Paid
<1>1. FileTypeOK' /\ Named' /\ file' # NoFile /\ OrderKept(<<>>) /\ file # NoFile
  BY Flushed DEF IInv, TypeOK, Phases
<1>2. InPipe' /\ Numbered' /\ FilesInOrder'
  <2>1. <<>> \in Seq(Nat) /\ \A s : Before(<<>>, s)
    BY NothingOrder
  <2>2. DOMAIN buffersToWrite' = {}
    OBVIOUS
  <2>3. UNCHANGED <<currentBuffer, buffers, appended>>
    OBVIOUS
  <2> QED BY <1>1, <2>1, <2>2, <2>3, GoesOn
<1>3. TypeOK'
  <2>1. newBuffer1' \in Seq(Buffer) /\ newBuffer2' \in Seq(Buffer)
    BY <1>0, Spare
  <2> QED BY <1>1, <2>1 DEF IInv, TypeOK
<1>4. Phases' /\ Paid'
  BY <1>0, <1>1, Spare DEF IInv, Phases, Paid
<1> QED BY <1>1, <1>2, <1>3, <1>4 DEF IInv

LEMMA ExitInv == ASSUME IInv, Exit PROVE IInv'
<1> USE DEF Exit, front, back
<1>1. FileTypeOK' /\ Named' /\ file' # NoFile /\ OrderKept(<<>>) /\ file # NoFile
  BY Flushed DEF IInv, TypeOK, Phases
<1>2. InPipe' /\ Numbered' /\ FilesInOrder'
  <2>1. <<>> \in Seq(Nat) /\ \A s : Before(<<>>, s)
    BY NothingOrder
  <2> QED BY <1>1, <2>1, GoesOn
<1>3. TypeOK'
  BY <1>1 DEF IInv, TypeOK
<1>4. Phases' /\ Paid'
  BY <1>1 DEF IInv, Phases, Paid
<1> QED BY <1>1, <1>2, <1>3, <1>4 DEF IInv

LEMMA StepInv == IInv /\ [Next]_vars => IInv'
<1> SUFFICES ASSUME IInv, [Next]_vars PROVE IInv'
  OBVIOUS
<1>1. CASE UNCHANGED vars
  <2> USE <1>1 DEF vars, fileVars, clock, rolling, front, back
  <2>1. TypeOK' /\ Phases' /\ Paid' /\ Named'
    BY DEF IInv, TypeOK, FileTypeOK, Phases, Paid, Named
  <2>2. InPipe' /\ Numbered' /\ FilesInOrder'
    BY PipeStill DEF IInv, PipeVars
  <2> QED BY <2>1, <2>2 DEF IInv
<1>2. CASE Next
  BY <1>2, ControlInv, ClockInv, AppendMessageInv, BeginInv, AbortInv, SwapInv, DropInv, WriteInv,
     RecycleInv, ExitInv DEF Next, ThreadStep
<1> QED BY <1>1, <1>2

-----------------------------------------------------------------------------
(* Where the messages are.  Every action takes messages from those that    *)
(* wait and puts them in the files, among the dropped or among the cut.    *)
Apart(waiting, logged, drops, cuts, n) ==
  /\ waiting \cup logged \cup drops \cup (cuts \ {Notice}) = 1 .. n
  /\ waiting \cap (logged \cup drops \cup cuts) = {}
  /\ logged \cap (drops \cup cuts) = {} /\ drops \cap cuts = {}

MessagesApart == Apart(Waiting, Logged, dropped, cut, appended)

LEMMA Moves ==
  ASSUME NEW n \in Nat, NEW w, NEW l, NEW d, NEW c, Apart(w, l, d, c, n),
         NEW L, NEW D, NEW C, L \subseteq w, D \subseteq w, C \subseteq w \cup {Notice},
         L \cap D = {}, L \cap C = {}, D \cap C = {}
  PROVE  Apart(w \ (L \cup D \cup C), l \cup L, d \cup D, c \cup C, n)
<1>1. Notice \notin 1 .. n
  BY DEF Notice
<1> QED BY <1>1 DEF Apart

LEMMA Arrives ==
  ASSUME NEW n \in Nat, NEW w, NEW l, NEW d, NEW c, Apart(w, l, d, c, n)
  PROVE  Apart(w \cup {n + 1}, l, d, c, n + 1)
<1>1. 1 .. n + 1 = (1 .. n) \cup {n + 1} /\ n + 1 \notin 1 .. n /\ n + 1 # Notice
  BY DEF Notice
<1> QED BY <1>1 DEF Apart

LEMMA SetOfJoined ==
  ASSUME NEW s \in Seq(Nat), NEW t \in Seq(Nat)
  PROVE  ToSet(s \o t) = ToSet(s) \cup ToSet(t)
<1>1. \A x \in ToSet(s \o t) : x \in ToSet(s) \cup ToSet(t)
  BY Joined DEF ToSet
<1>2. \A x \in ToSet(s) : x \in ToSet(s \o t)
  BY Joined DEF ToSet
<1>3. ASSUME NEW i \in DOMAIN t PROVE t[i] \in ToSet(s \o t)
  <2>1. Len(s) + i \in DOMAIN (s \o t) /\ (s \o t)[Len(s) + i] = t[i]
    OBVIOUS
  <2> QED BY <2>1 DEF ToSet
<1> QED BY <1>1, <1>2, <1>3 DEF ToSet

LEMMA SetOfAppended ==
  ASSUME NEW S, NEW s \in Seq(S), NEW x \in S
  PROVE  ToSet(Append(s, x)) = ToSet(s) \cup {x}
<1>1. /\ DOMAIN Append(s, x) = DOMAIN s \cup {Len(s) + 1} /\ Append(s, x)[Len(s) + 1] = x
      /\ \A i \in DOMAIN s : Append(s, x)[i] = s[i]
  OBVIOUS
<1> QED BY <1>1 DEF ToSet

(* A record falls into what the stream has taken of it and what is lost.   *)
LEMMA SetOfParts ==
  ASSUME NEW s \in Seq(Nat), NEW k \in 0 .. Len(s)
  PROVE  LET L == ToSet(SubSeq(s, 1, k))
             C == ToSet(SubSeq(s, k + 1, Len(s)))
         IN  /\ ToSet(s) = L \cup C
             /\ Increasing(s) => L \cap C \subseteq {Notice}
             /\ k = Len(s) => C = {}
<1> DEFINE t == SubSeq(s, 1, k)
           u == SubSeq(s, k + 1, Len(s))
<1>1. k \in Nat /\ Len(s) \in Nat /\ k <= Len(s) /\ DOMAIN s = 1 .. Len(s)
  OBVIOUS
<1>2. DOMAIN t = 1 .. k /\ \A i \in 1 .. k : t[i] = s[i]
  BY Shorter
<1>3. DOMAIN u = 1 .. Len(s) - k /\ \A i \in 1 .. Len(s) - k : u[i] = s[k + i]
  BY <1>1
<1> HIDE DEF t, u
<1>4. ToSet(s) \subseteq ToSet(t) \cup ToSet(u)
  <2> SUFFICES ASSUME NEW i \in DOMAIN s PROVE s[i] \in ToSet(t) \cup ToSet(u)
    BY DEF ToSet
  <2>1. CASE i <= k
    BY <1>1, <1>2, <2>1 DEF ToSet
  <2>2. CASE i > k
    <3>1. i - k \in DOMAIN u /\ k + (i - k) = i
      BY <1>1, <1>3, <2>2
    <3> QED BY <1>3, <3>1 DEF ToSet
  <2> QED BY <1>1, <2>1, <2>2
<1>5. ToSet(t) \subseteq ToSet(s) /\ ToSet(u) \subseteq ToSet(s)
  <2>1. \A i \in 1 .. Len(s) - k : k + i \in DOMAIN s
    BY <1>1
  <2>2. \A i \in 1 .. k : i \in DOMAIN s
    BY <1>1
  <2>3. ToSet(t) \subseteq ToSet(s)
    BY <1>2, <2>2 DEF ToSet
  <2>4. ToSet(u) \subseteq ToSet(s)
    BY <1>3, <2>1 DEF ToSet
  <2> QED BY <2>3, <2>4
<1>6. ASSUME Increasing(s), NEW x \in ToSet(t) \cap ToSet(u) PROVE x = Notice
  <2>1. PICK i \in 1 .. k : x = s[i]
    BY <1>2 DEF ToSet
  <2>2. PICK j \in 1 .. Len(s) - k : x = s[k + j]
    BY <1>3 DEF ToSet
  <2>3. i \in DOMAIN s /\ k + j \in DOMAIN s /\ i < k + j
    BY <1>1
  <2>4. x \in Nat
    BY <2>1, <2>3
  <2>5. s[i] # Notice /\ s[k + j] # Notice => s[i] < s[k + j]
    BY <1>6, <2>3 DEF Increasing
  <2> QED BY <2>1, <2>2, <2>4, <2>5
<1>7. k = Len(s) => ToSet(u) = {}
  BY <1>1, <1>3 DEF ToSet
<1> QED BY <1>4, <1>5, <1>6, <1>7 DEF t, u

(* What the LogFile is given is in the file or in its stream.              *)
LEMMA WroteLogged ==
  ASSUME FileTypeOK, Named, NEW content \in Seq(Nat), Wrote(content)
  PROVE  Logged' = (OnDisk \cup ToSet(content)) \ {Notice}
<1>1. CASE disk' = disk /\ stream' = content
  BY <1>1 DEF Logged, OnDisk
<1>2. CASE disk' = Put(file, content) /\ stream' = <<>>
  <2>1. /\ DOMAIN disk' = DOMAIN disk \cup {file}
        /\ Written(file) \in Seq(Nat) /\ disk'[file] = Written(file) \o content
        /\ \A f \in DOMAIN disk : f # file => disk'[f] = disk[f]
        /\ Written(file) = <<>> \/ (file \in DOMAIN disk /\ Written(file) = disk[file])
        /\ file \in DOMAIN disk => Written(file) = disk[file]
    BY <1>2, PutFacts DEF Written
  <2>2. ToSet(disk'[file]) = ToSet(Written(file)) \cup ToSet(content) /\ ToSet(<<>>) = {}
    <3>1. ToSet(<<>>) = {}
      BY DEF ToSet
    <3>2. \A s \in Seq(Nat) : ToSet(s \o content) = ToSet(s) \cup ToSet(content)
      BY SetOfJoined
    <3> QED BY <2>1, <3>1, <3>2
  <2>3. OnDisk' \subseteq OnDisk \cup ToSet(content)
    <3> SUFFICES ASSUME NEW f \in DOMAIN disk', NEW x \in ToSet(disk'[f])
                 PROVE  x \in OnDisk \cup ToSet(content)
      BY DEF OnDisk
    <3>1. CASE f = file
      BY <2>1, <2>2, <3>1 DEF OnDisk
    <3>2. CASE f # file
      BY <2>1, <3>2 DEF OnDisk
    <3> QED BY <3>1, <3>2
  <2>4. OnDisk \subseteq OnDisk'
    <3> SUFFICES ASSUME NEW f \in DOMAIN disk, NEW x \in ToSet(disk[f]) PROVE x \in OnDisk'
      BY DEF OnDisk
    <3>1. f \in DOMAIN disk' /\ x \in ToSet(disk'[f])
      BY <2>1, <2>2
    <3> QED BY <3>1 DEF OnDisk
  <2>5. ToSet(content) \subseteq OnDisk'
    BY <2>1, <2>2 DEF OnDisk
  <2> QED BY <1>2, <2>2, <2>3, <2>4, <2>5 DEF Logged
<1> QED BY <1>1, <1>2 DEF Wrote

LEMMA FlushKeeps ==
  ASSUME FileTypeOK, Named, file # NoFile, flush
  PROVE  Logged' = Logged /\ cut' = cut
<1>1. Wrote(stream) /\ stream \in Seq(Nat) /\ cut' = cut
  BY FlushWrites DEF FileTypeOK, flush
<1>2. PICK content \in Seq(Nat) : content = stream
  BY <1>1
<1> QED BY <1>1, <1>2, WroteLogged DEF Logged

LEMMA AppendLogs ==
  ASSUME FileTypeOK, Named, file # NoFile, NEW record \in Seq(Nat), append(record),
         Increasing(record)
  PROVE  \E L, C : /\ ToSet(record) = L \cup C /\ L \cap C \subseteq {Notice}
                   /\ Logged' = Logged \cup (L \ {Notice}) /\ cut' = cut \cup C
<1>1. PICK k \in 0 .. Len(record) : Kept(record, k) /\ Wrote(stream \o SubSeq(record, 1, k))
  BY AppendWrites
<1>2. PICK s \in Seq(Nat), r \in Seq(Nat), content \in Seq(Nat) :
        s = stream /\ r = SubSeq(record, 1, k) /\ content = s \o r
  BY Shorter, Joined DEF FileTypeOK
<1> DEFINE L == ToSet(SubSeq(record, 1, k))
           C == ToSet(SubSeq(record, k + 1, Len(record)))
<1>3. ToSet(record) = L \cup C /\ L \cap C \subseteq {Notice} /\ (k = Len(record) => C = {})
  BY SetOfParts
<1>4. Logged' = (OnDisk \cup (ToSet(stream) \cup L)) \ {Notice}
  <2>1. Logged' = (OnDisk \cup ToSet(content)) \ {Notice}
    BY <1>1, <1>2, WroteLogged
  <2> QED BY <1>2, <2>1, SetOfJoined
<1>5. cut' = cut \cup C
  BY <1>1, <1>3 DEF Kept
<1> HIDE DEF L, C
<1>6. Logged' = Logged \cup (L \ {Notice})
  BY <1>4 DEF Logged
<1> QED BY <1>3, <1>5, <1>6

(* Sequences one of which is before the other have no message in common.   *)
LEMMA BeforeApart ==
  ASSUME NEW s \in Buffer, NEW t \in Buffer, Before(s, t)
  PROVE  ToSet(s) \cap ToSet(t) = {}
<1> SUFFICES ASSUME NEW i \in DOMAIN s, NEW j \in DOMAIN t, s[i] = t[j] PROVE FALSE
  BY DEF ToSet
<1>1. s[i] \in 1 .. MaxMsgs /\ t[j] \in 1 .. MaxMsgs
  <2>1. ToSet(s) \subseteq 1 .. MaxMsgs /\ ToSet(t) \subseteq 1 .. MaxMsgs
    BY Members DEF Buffer
  <2> QED BY <2>1 DEF ToSet
<1>2. s[i] \in Nat /\ s[i] # Notice /\ t[j] # Notice
  BY <1>1, Constants DEF Notice
<1> QED BY <1>2 DEF Before

LEMMA MessagesAppended ==
  ASSUME NEW bufs \in Seq(Buffer), NEW b \in Buffer
  PROVE  Messages(Append(bufs, b)) = Messages(bufs) \cup ToSet(b)
<1>1. /\ DOMAIN Append(bufs, b) = DOMAIN bufs \cup {Len(bufs) + 1}
      /\ Append(bufs, b)[Len(bufs) + 1] = b
      /\ \A i \in DOMAIN bufs : Append(bufs, b)[i] = bufs[i]
  OBVIOUS
<1> QED BY <1>1 DEF Messages

LEMMA NoMessages == Messages(<<>>) = {} /\ ToSet(<<>>) = {}
BY DEF Messages, ToSet

(* Before the first of the list is written, all of it is to be written.    *)
LEMMA AllToWrite ==
  ASSUME TypeOK, next = 1
  PROVE  ToWrite = Messages(buffersToWrite)
<1>1. DOMAIN buffersToWrite = 1 .. Len(buffersToWrite)
  BY DEF TypeOK
<1> QED BY <1>1 DEF ToWrite, Messages

LEMMA StillApart ==
  ASSUME MessagesApart, UNCHANGED <<PipeVars, dropped, cut>>
  PROVE  MessagesApart'
<1>1. UNCHANGED <<Waiting, Logged>>
  BY DEF PipeVars, Waiting, ToWrite, Messages, Logged, OnDisk
<1> QED BY <1>1 DEF MessagesApart, PipeVars

LEMMA AppendMessageApart == ASSUME IInv, MessagesApart, AppendMessage PROVE MessagesApart'
<1>1. /\ appended \in Nat /\ appended' = appended + 1 /\ appended' \in 1 .. MaxMsgs
      /\ currentBuffer \in Seq(1 .. MaxMsgs) /\ currentBuffer \in Buffer /\ buffers \in Seq(Buffer)
  BY Constants DEF IInv, TypeOK, AppendMessage, Buffer
<1>2. UNCHANGED <<Logged, ToWrite, dropped, cut>>
  BY DEF AppendMessage, fileVars, rolling, back, Logged, OnDisk, ToWrite
<1>3. Messages(buffers)' \cup ToSet(currentBuffer)'
        = (Messages(buffers) \cup ToSet(currentBuffer)) \cup {appended + 1}
  <2>1. CASE Fits
    <3>1. currentBuffer' = Append(currentBuffer, appended') /\ buffers' = buffers
      BY <2>1 DEF AppendMessage, Fits, Into
    <3>2. \A s \in Buffer, x \in 1 .. MaxMsgs : ToSet(Append(s, x)) = ToSet(s) \cup {x}
      BY SetOfAppended DEF Buffer
    <3> QED BY <1>1, <3>1, <3>2
  <2>2. CASE ~Fits
    <3>1. buffers' = Append(buffers, currentBuffer) /\ currentBuffer' = <<appended + 1>>
      BY <1>1, <2>2, IntoFresh DEF AppendMessage, IInv, Paid
    <3>2. Messages(Append(buffers, currentBuffer)) = Messages(buffers) \cup ToSet(currentBuffer)
      BY <1>1, MessagesAppended
    <3>3. ToSet(<<appended + 1>>) = {appended + 1}
      BY DEF ToSet
    <3> QED BY <3>1, <3>2, <3>3
  <2> QED BY <2>1, <2>2
<1>4. Waiting' = Waiting \cup {appended + 1}
  BY <1>2, <1>3 DEF Waiting
<1> QED BY <1>1, <1>2, <1>4, Arrives DEF MessagesApart

LEMMA SwapApart == ASSUME IInv, MessagesApart, Swap PROVE MessagesApart'
<1>1. /\ pc = "swap" /\ pc' = "drop" /\ next = 1 /\ next' = 1 /\ buffersToWrite = <<>>
      /\ buffersToWrite' = Append(buffers, currentBuffer) /\ buffers' = <<>> /\ currentBuffer' = <<>>
  BY Spare DEF IInv, Paid, Swap
<1>2. TypeOK' /\ buffers \in Seq(Buffer) /\ currentBuffer \in Buffer
  BY SwapInv DEF IInv, TypeOK
<1>3. ToWrite = {}
  BY <1>1, AllToWrite, NoMessages DEF IInv
<1>4. ToWrite' = Messages(buffersToWrite')
  <2>1. DOMAIN buffersToWrite' = 1 .. Len(buffersToWrite')
    BY <1>2 DEF TypeOK
  <2> QED BY <1>1, <2>1 DEF ToWrite, Messages
<1>5. Waiting' = Waiting
  <2>1. Messages(buffersToWrite') = Messages(buffers) \cup ToSet(currentBuffer)
    BY <1>1, <1>2, MessagesAppended
  <2>2. Messages(buffers') = {} /\ ToSet(currentBuffer') = {}
    BY <1>1, NoMessages
  <2>3. Messages(buffers)' = Messages(buffers')
    BY DEF Messages
  <2> QED BY <1>3, <1>4, <2>1, <2>2, <2>3 DEF Waiting
<1>6. UNCHANGED <<Logged, dropped, cut, appended>>
  BY DEF Swap, fileVars, rolling, Logged, OnDisk
<1> QED BY <1>5, <1>6 DEF MessagesApart

LEMMA DropApart == ASSUME IInv, MessagesApart, Drop PROVE MessagesApart'
<1>1. /\ file # NoFile /\ next = 1 /\ next' = 1 /\ appended' = appended /\ appended \in Nat
      /\ UNCHANGED <<buffers, currentBuffer>>
  BY DEF IInv, TypeOK, Phases, Paid, Drop, front
<1>2. CASE Len(buffersToWrite) > MaxBuffers
  <2> DEFINE kept  == Messages(buffersToWrite')
             D     == Messages(buffersToWrite) \ kept
             later == Messages(buffers) \cup ToSet(currentBuffer)
  <2>1. append(<<Notice>>) /\ dropped' = dropped \cup D
    BY <1>2 DEF Drop
  <2>2. PICK L, C : /\ ToSet(<<Notice>>) = L \cup C /\ Logged' = Logged \cup (L \ {Notice})
                    /\ cut' = cut \cup C
    <3>1. <<Notice>> \in Seq(Nat) /\ Increasing(<<Notice>>)
      BY NothingOrder DEF Notice
    <3> QED BY <1>1, <2>1, <3>1, AppendLogs DEF IInv, TypeOK
  <2>3. L \ {Notice} = {} /\ C \subseteq {Notice}
    <3>1. ToSet(<<Notice>>) = {Notice}
      BY DEF ToSet
    <3> QED BY <2>2, <3>1
  <2>4. ToWrite' = kept /\ kept \subseteq Messages(buffersToWrite) /\ ToWrite = Messages(buffersToWrite)
    <3>1. TypeOK' /\ TypeOK
      BY DropInv DEF IInv
    <3>2. PICK btw \in Seq(Buffer) : btw = buffersToWrite
      BY <3>1 DEF TypeOK
    <3>3. DOMAIN buffersToWrite' = 1 .. Len(buffersToWrite')
      BY <3>1 DEF TypeOK
    <3>4. \A i \in DOMAIN buffersToWrite' : i \in DOMAIN btw /\ buffersToWrite'[i] = btw[i]
      <4>1. Len(btw) \in Nat /\ Len(btw) >= 2 /\ buffersToWrite' = SubSeq(btw, 1, 2)
        BY <1>2, <3>2, Constants DEF Drop, KeepsTwo
      <4> QED BY <4>1
    <3>5. kept \subseteq Messages(btw)
      BY <3>4 DEF Messages
    <3>6. ToWrite' = kept
      BY <1>1, <3>3 DEF ToWrite, Messages
    <3> QED BY <1>1, <3>1, <3>2, <3>5, <3>6, AllToWrite
  <2>5. Messages(buffersToWrite) \cap later = {}
    <3>1. ASSUME NEW i \in DOMAIN buffersToWrite
          PROVE  ToSet(buffersToWrite[i]) \cap later = {}
      <4>1. buffersToWrite[i] \in Buffer /\ currentBuffer \in Buffer /\ \A k \in DOMAIN buffers : buffers[k] \in Buffer
        BY DEF IInv, TypeOK
      <4>2. Before(buffersToWrite[i], currentBuffer) /\ \A k \in DOMAIN buffers : Before(buffersToWrite[i], buffers[k])
        BY DEF IInv, InPipe
      <4>3. ToSet(buffersToWrite[i]) \cap ToSet(currentBuffer) = {}
        BY <4>1, <4>2, BeforeApart
      <4>4. \A k \in DOMAIN buffers : ToSet(buffersToWrite[i]) \cap ToSet(buffers[k]) = {}
        BY <4>1, <4>2, BeforeApart
      <4> QED BY <4>3, <4>4 DEF Messages
    <3> QED BY <3>1 DEF Messages
  <2>6. Waiting = Messages(buffersToWrite) \cup later /\ Waiting' = kept \cup later
    BY <1>1, <2>4 DEF Waiting, Messages
  <2> HIDE DEF kept, D, later
  <2>7. D \subseteq Waiting /\ Waiting' = Waiting \ D
    BY <2>4, <2>5, <2>6 DEF D
  <2>8. Apart(Waiting, Logged, dropped, cut, appended)
    BY DEF MessagesApart
  <2>9. Notice \notin Waiting
    BY <1>1, <2>8 DEF Apart, Notice
  <2>10. Apart(Waiting \ ({} \cup D \cup C), Logged \cup {}, dropped \cup D, cut \cup C, appended)
    <3>1. D \cap C = {} /\ C \subseteq Waiting \cup {Notice}
      BY <2>3, <2>7, <2>9
    <3> QED BY <1>1, <2>7, <2>8, <3>1, Moves
  <2>11. Waiting' = Waiting \ ({} \cup D \cup C) /\ Logged' = Logged \cup {}
    BY <2>2, <2>3, <2>7, <2>9
  <2> QED BY <1>1, <2>1, <2>2, <2>10, <2>11 DEF MessagesApart
<1>3. CASE ~(Len(buffersToWrite) > MaxBuffers)
  BY <1>1, <1>3, StillApart DEF Drop, PipeVars, fileVars, rolling
<1> QED BY <1>2, <1>3

LEMMA WriteApart == ASSUME IInv, MessagesApart, Write PROVE MessagesApart'
<1>1. /\ file # NoFile /\ next \in Nat /\ Len(buffersToWrite) \in Nat /\ next \in DOMAIN buffersToWrite
      /\ DOMAIN buffersToWrite = 1 .. Len(buffersToWrite)
      /\ next' = next + 1 /\ append(buffersToWrite[next]) /\ appended \in Nat
      /\ UNCHANGED <<appended, buffers, currentBuffer, buffersToWrite, dropped>>
  BY DEF IInv, TypeOK, Phases, Paid, Write, InOrder, front
<1>2. PICK record \in Buffer : record = buffersToWrite[next]
  BY <1>1 DEF IInv, TypeOK
<1> DEFINE later == ToWrite' \cup Messages(buffers) \cup ToSet(currentBuffer)
<1>3. PICK L, C : /\ ToSet(record) = L \cup C /\ L \cap C \subseteq {Notice}
                  /\ Logged' = Logged \cup (L \ {Notice}) /\ cut' = cut \cup C
  <2>1. record \in Seq(Nat) /\ Increasing(record)
    BY <1>1, <1>2, BufferIsSeq DEF IInv, InPipe
  <2> QED BY <1>1, <1>2, <2>1, AppendLogs DEF IInv, TypeOK
<1>4. Notice \notin ToSet(record)
  BY Constants DEF ToSet, Buffer, Notice
<1>5. Waiting = ToSet(record) \cup later /\ Waiting' = later
  <2>1. ToWrite' = UNION {ToSet(buffersToWrite[i]) : i \in next + 1 .. Len(buffersToWrite)}
    BY <1>1 DEF ToWrite
  <2>2. ToWrite = ToSet(record) \cup ToWrite'
    <3>1. next .. Len(buffersToWrite) = {next} \cup (next + 1 .. Len(buffersToWrite))
      BY <1>1
    <3> QED BY <1>2, <2>1, <3>1 DEF ToWrite
  <2>3. Waiting = ToSet(record) \cup later
    BY <2>2 DEF Waiting
  <2>4. Waiting' = later
    BY <1>1 DEF Waiting, Messages
  <2> QED BY <2>3, <2>4
<1>6. ToSet(record) \cap later = {}
  <2>1. /\ currentBuffer \in Buffer /\ \A k \in DOMAIN buffers : buffers[k] \in Buffer
        /\ \A i \in DOMAIN buffersToWrite : buffersToWrite[i] \in Buffer
    BY DEF IInv, TypeOK
  <2>2. /\ Before(record, currentBuffer) /\ \A k \in DOMAIN buffers : Before(record, buffers[k])
        /\ \A i \in DOMAIN buffersToWrite : i > next => Before(record, buffersToWrite[i])
    BY <1>1, <1>2 DEF IInv, InPipe
  <2>3. ToSet(record) \cap ToSet(currentBuffer) = {}
    BY <2>1, <2>2, BeforeApart
  <2>4. \A k \in DOMAIN buffers : ToSet(record) \cap ToSet(buffers[k]) = {}
    BY <2>1, <2>2, BeforeApart
  <2>5. \A i \in next + 1 .. Len(buffersToWrite) : ToSet(record) \cap ToSet(buffersToWrite[i]) = {}
    <3>1. \A i \in next + 1 .. Len(buffersToWrite) : i \in DOMAIN buffersToWrite /\ i > next
      BY <1>1
    <3> QED BY <2>1, <2>2, <3>1, BeforeApart
  <2>6. ToSet(record) \cap ToWrite' = {}
    BY <1>1, <2>5 DEF ToWrite
  <2> QED BY <2>3, <2>4, <2>6 DEF Messages
<1> HIDE DEF later
<1>7. L \cap C = {} /\ L \subseteq Waiting /\ C \subseteq Waiting /\ Notice \notin L
  BY <1>3, <1>4, <1>5
<1>8. Apart(Waiting \ (L \cup {} \cup C), Logged \cup L, dropped \cup {}, cut \cup C, appended)
  <2>1. Apart(Waiting, Logged, dropped, cut, appended)
    BY DEF MessagesApart
  <2> QED BY <1>1, <1>7, <2>1, Moves
<1>9. /\ Waiting' = Waiting \ (L \cup {} \cup C) /\ Logged' = Logged \cup L /\ cut' = cut \cup C
      /\ dropped' = dropped \cup {} /\ appended' = appended
  BY <1>1, <1>3, <1>5, <1>6, <1>7
<1> QED BY <1>8, <1>9 DEF MessagesApart

(* Flushing moves what is in the stream to the disk.                       *)
LEMMA FlushApart == ASSUME IInv, MessagesApart, Recycle \/ Exit PROVE MessagesApart'
<1>1. file # NoFile /\ flush /\ FileTypeOK /\ Named
  BY DEF IInv, TypeOK, Phases, Recycle, Exit
<1>2. Logged' = Logged /\ cut' = cut
  BY <1>1, FlushKeeps
<1>3. UNCHANGED <<dropped, appended, buffers, currentBuffer>>
  BY DEF Recycle, Exit, front, back
<1>4. ToWrite' = ToWrite
  <2>1. CASE Recycle
    <3>1. ToWrite = {}
      <4>1. next = Len(buffersToWrite) + 1 /\ Len(buffersToWrite) \in Nat
        BY <2>1 DEF IInv, TypeOK, Paid, Recycle
      <4>2. next .. Len(buffersToWrite) = {}
        BY <4>1
      <4> QED BY <4>2 DEF ToWrite
    <3>2. ToWrite' = {}
      <4>1. next' = 1 /\ Len(buffersToWrite') = 0
        BY <2>1 DEF Recycle
      <4>2. next' .. Len(buffersToWrite') = {}
        BY <4>1
      <4> QED BY <4>2 DEF ToWrite
    <3> QED BY <3>1, <3>2
  <2>2. CASE Exit
    BY <2>2 DEF Exit, back, ToWrite
  <2> QED BY <2>1, <2>2
<1>5. Waiting' = Waiting
  BY <1>3, <1>4 DEF Waiting, Messages
<1> QED BY <1>2, <1>3, <1>5 DEF MessagesApart

(* The first file is empty.                                                *)
LEMMA BeginApart == ASSUME IInv, MessagesApart, Begin PROVE MessagesApart'
<1>1. file = NoFile /\ stream = <<>> /\ rollFile(<<>>, 0)
  BY DEF IInv, Phases, Named, Begin
<1>2. disk' = disk /\ stream' = stream
  BY <1>1 DEF rollFile
<1> QED BY <1>2, StillApart DEF Begin, front, PipeVars

LEMMA InitApart == Init => MessagesApart
<1> SUFFICES ASSUME Init PROVE MessagesApart
  OBVIOUS
<1>1. Waiting = {}
  <2>1. next .. Len(buffersToWrite) = {}
    BY DEF Init
  <2> QED BY <2>1, NoMessages DEF Init, Waiting, ToWrite
<1>2. Logged = {}
  <2>1. OnDisk = {}
    BY DEF Init, FileInit, OnDisk
  <2> QED BY <2>1, NoMessages DEF Init, FileInit, Logged
<1>3. dropped = {} /\ cut = {} /\ 1 .. appended = {}
  BY DEF Init, FileInit
<1> QED BY <1>1, <1>2, <1>3 DEF MessagesApart, Apart

LEMMA StepApart == IInv /\ MessagesApart /\ [Next]_vars => MessagesApart'
<1> SUFFICES ASSUME IInv, MessagesApart, [Next]_vars PROVE MessagesApart'
  OBVIOUS
<1>1. CASE UNCHANGED vars
  BY <1>1, StillApart DEF vars, fileVars, rolling, front, back, PipeVars
<1>2. CASE Start \/ StartReturns \/ Stop \/ StopReturns \/ Loop \/ Abort \/ Clock
  BY <1>2, StillApart DEF Start, StartReturns, Stop, StopReturns, Loop, Abort, Clock, Tick,
     fileVars, rolling, front, back, PipeVars
<1> QED BY <1>1, <1>2, AppendMessageApart, BeginApart, SwapApart, DropApart, WriteApart, FlushApart
     DEF Next, ThreadStep

-----------------------------------------------------------------------------
(* The inductive invariant holds in every reachable state.                 *)
THEOREM Invariance == Spec => []IInv
BY InitInv, StepInv, PTL DEF Spec

(* Every variable keeps its type.                                          *)
THEOREM TypeCorrect == Spec => []TypeOK
<1>1. IInv => TypeOK
  BY DEF IInv
<1> QED BY <1>1, Invariance, PTL

(* What FilesInOrder says of the own files holds for every size of buffer  *)
(* and file, every roll, every movement of the clock and every time zone.  *)
THEOREM FilesStayInOrder == Spec => []FilesInOrder
<1>1. IInv => FilesInOrder
  BY DEF IInv
<1> QED BY <1>1, Invariance, PTL

(* Each message that was appended is in one place, and only one: no drop,  *)
(* roll, short write or flush lets one vanish or writes one twice.         *)
THEOREM EachMessageLoggedOnce == Spec => []LoggedOnce
<1>1. Spec => []MessagesApart
  BY InitApart, StepApart, Invariance, PTL DEF Spec
<1>2. IInv /\ MessagesApart => LoggedOnce
  BY DEF IInv, MessagesApart, Apart, LoggedOnce
<1> QED BY <1>1, <1>2, Invariance, PTL

(* The assertions of threadFunc hold: a spare that is missing when the     *)
(* written buffers are recycled was paid for with a buffer of the list.    *)
THEOREM AssertionsHold == Spec => []AsyncAssertions
<1>1. IInv => AsyncAssertions
  <2> SUFFICES ASSUME IInv PROVE AsyncAssertions
    OBVIOUS
  <2>1. pc = "begin" => running
    BY DEF IInv, Phases
  <2>2. pc = "swap" => newBuffer1 = Fresh /\ newBuffer2 = Fresh /\ buffersToWrite = <<>>
    BY DEF IInv, Paid
  <2>3. ASSUME pc = "recycle" PROVE Spares >= Missing
    <3>1. /\ Len(buffersToWrite) \in Nat /\ Len(buffersToWrite) >= 1
          /\ (newBuffer2 = Null => Len(buffersToWrite) >= 2)
      BY <2>3 DEF IInv, TypeOK, Paid
    <3> QED BY <2>3, <3>1 DEF Spares, Missing, Gone
  <2> QED BY <2>1, <2>2, <2>3 DEF AsyncAssertions
<1> QED BY <1>1, Invariance, PTL
=============================================================================
