------------------------------ MODULE TimeZone ------------------------------
(***************************************************************************)
(* muduo::TimeZone: what the constructor keeps of a zone file, and the     *)
(* conversions of seconds since the epoch to local time and back.  A       *)
(* struct tm is its fields taken as seconds, local, with tm_isdst; the     *)
(* time unit stands for a minute, the precision to which fromLocalTime     *)
(* compares times.                                                         *)
(***************************************************************************)
EXTENDS Integers, Sequences, FiniteSets

CONSTANTS Hour, Day      (* 3600 seconds and 24 hours                        *)

ASSUME TimeZoneAssumption == Hour \in Nat \ {0} /\ Day \in Nat /\ Day > Hour

(* A zone file has types and the times at which one of them begins.        *)
Types       == [gmtOffset : Int, isDst : BOOLEAN]
Transitions == [gmttime : Int, localtime : Int, localtimeIdx : Nat]
Data        == [transitions : Seq(Transitions), localtimes : Seq(Types)]

(* The type that a file has from transition i on, and before all of them   *)
(* the first one, as findLocaltime takes it; and the local time at which   *)
(* transition i begins it.                                                 *)
TypeAfter(zonefile, i)  == zonefile.types[IF i = 0 THEN 1 ELSE zonefile.trans[i].idx]
LocalStart(zonefile, i) == zonefile.trans[i].at + TypeAfter(zonefile, i).gmtOffset

(* The type of the last transition that is not after the time, and the     *)
(* first one before all transitions.                                       *)
TypeIn(zonefile, seconds) ==
  LET past == {i \in DOMAIN zonefile.trans : zonefile.trans[i].at <= seconds}
  IN  TypeAfter(zonefile, IF past = {} THEN 0 ELSE CHOOSE i \in past : \A j \in past : j <= i)

(* A file as tzfile(5) has it: there is a type, the transitions ascend and *)
(* name types of the file.  No transition is turned back before another    *)
(* one in local time: lower_bound needs both vectors of times sorted.      *)
WellFormed(zonefile) ==
  /\ zonefile.types \in Seq(Types) /\ zonefile.types # <<>>
  /\ zonefile.trans \in Seq([at : Int, idx : DOMAIN zonefile.types])
  /\ \A i, j \in DOMAIN zonefile.trans :
       i < j => /\ zonefile.trans[i].at < zonefile.trans[j].at
                /\ LocalStart(zonefile, i) < LocalStart(zonefile, j)

(* The constructors: a fixed offset from UTC, or a file that is missing,   *)
(* or ends early.  readTimeZoneFile answers true in every case.  parts     *)
(* counts what could be read: the header and the times, then each type;    *)
(* the abbreviations that follow are not modelled.                         *)
FixedZone(eastOfUtc) ==
  [transitions |-> <<>>, localtimes |-> <<[gmtOffset |-> eastOfUtc, isDst |-> FALSE]>>]

Parts(zonefile) == 0 .. Len(zonefile.types) + 1

readTimeZoneFile(zonefile, parts) ==
  LET typecnt == Len(zonefile.types)
  IN  [localtimes  |-> SubSeq(zonefile.types, 1, parts - 1),
       transitions |->
         IF parts <= typecnt THEN <<>>
         ELSE [i \in DOMAIN zonefile.trans |->
                 LET tr == zonefile.trans[i]
                 IN  [gmttime |-> tr.at, localtimeIdx |-> tr.idx,
                      localtime |-> tr.at + zonefile.types[tr.idx].gmtOffset]]]

(* findLocaltime: lower_bound finds the first transition that is not       *)
(* before the sought time; unless that is the time itself, the one before  *)
(* it counts.  The result is a list: it is empty when front() is called on *)
(* an empty vector, which leaves a null pointer.                           *)
EqualsSought(key, sought) == key = sought

findLocaltime(data, key, sought) ==
  LET n      == Len(data.transitions)
      before == {i \in 1 .. n : key[i] < sought}
      lower  == Cardinality(before) + 1
      found  == IF lower > n THEN n
                ELSE IF EqualsSought(key[lower], sought) THEN lower ELSE lower - 1
  IN  IF n = 0 \/ sought < key[1]
      THEN SubSeq(data.localtimes, 1, 1)
      ELSE <<data.localtimes[data.transitions[found].localtimeIdx]>>

GmtTimes(data)   == [i \in DOMAIN data.transitions |-> data.transitions[i].gmttime]
LocalTimes(data) == [i \in DOMAIN data.transitions |-> data.transitions[i].localtime]

(* toLocalTime, where a type was found.                                    *)
toLocalTime(data, seconds) ==
  LET type == findLocaltime(data, GmtTimes(data), seconds)[1]
  IN  [local |-> seconds + type.gmtOffset, isDst |-> type.isDst]

(* fromLocalTime: a daylight saving time that is read as standard time is  *)
(* one hour early.                                                         *)
HourTwice(data, tm, offset) == FALSE
InRepeatedHour(data, tm, offset) ==
  LET try == toLocalTime(data, tm.local - offset)
  IN  tm.isDst /\ ~try.isDst /\ try.local % Day = tm.local % Day

fromLocalTime(data, tm) ==
  LET offset == findLocaltime(data, LocalTimes(data), tm.local)[1].gmtOffset
  IN  (IF InRepeatedHour(data, tm, offset) THEN tm.local - Hour ELSE tm.local) - offset
=============================================================================
