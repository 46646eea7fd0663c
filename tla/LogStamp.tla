------------------------------ MODULE LogStamp ------------------------------
(***************************************************************************)
(* The time stamps of messages: formatTime of the telnet server and of the *)
(* logger, which keep the text of the last second for every thread.  The   *)
(* telnet server's zone is read once from the zone file, the logger's zone *)
(* starts as the same and can be set.  A text is the local time it shows.  *)
(***************************************************************************)
EXTENDS TimeZone

CONSTANTS
  Server, Logs,       (* threads that stamp messages of the telnet server, and of the logger *)
  ZoneFiles,          (* what /etc/localtime or MUDUO_TZ_PATH may hold       *)
  SetOffsets,         (* fixed zones that setTimeZone is given               *)
  StartTime, MaxTime,
  MaxBack, MaxSets    (* bounds on clock steps back and on setTimeZone       *)

ASSUME LogStampAssumption ==
  /\ Server \cap Logs = {} /\ StartTime \in Nat \ {0} /\ MaxTime \in Nat
  /\ SetOffsets \subseteq Int /\ MaxBack \in Nat /\ MaxSets \in Nat
  /\ \A f \in ZoneFiles : WellFormed(f)

Stampers == Server \cup Logs
Empty    == "empty"       (* t_time before the first stamp *)
Zeros    == "zeros"       (* the text of a struct tm of zeros *)

VARIABLES
  zonefile, parts,        (* the file, and how much of it there is           *)
  now, backs, sets,
  sLocalZone, g_logTimeZone,
  t_lastSecond, t_time,   (* per thread                                      *)
  stamp,                  (* per thread: the last stamp, and when it was made *)
  changed,                (* when g_logTimeZone was last set                 *)
  crashed

zones == <<zonefile, parts, sLocalZone>>
vars  == <<zones, now, backs, sets, g_logTimeZone, t_lastSecond, t_time, stamp, changed, crashed>>

TypeOK ==
  /\ zonefile \in ZoneFiles /\ parts \in Parts(zonefile)
  /\ now \in Nat /\ backs \in 0 .. MaxBack /\ sets \in 0 .. MaxSets
  /\ sLocalZone \in Data /\ g_logTimeZone \in Data
  /\ t_lastSecond \in [Stampers -> Nat] /\ DOMAIN t_time = Stampers
  /\ \A t \in Stampers : stamp[t].at \in Nat
  /\ changed \in Nat /\ crashed \in BOOLEAN

Init ==
  /\ zonefile \in ZoneFiles /\ parts \in Parts(zonefile)
  /\ sLocalZone = readTimeZoneFile(zonefile, parts) /\ g_logTimeZone = sLocalZone
  /\ now \in StartTime .. MaxTime /\ backs = 0 /\ sets = 0
  /\ t_lastSecond = [t \in Stampers |-> 0] /\ t_time = [t \in Stampers |-> Empty]
  /\ stamp = [t \in Stampers |-> [at |-> 0, text |-> Empty]]
  /\ changed = 0 /\ crashed = FALSE

Tick ==
  /\ ~crashed
  /\ \/ now < MaxTime /\ now' = now + 1 /\ backs' = backs
     \/ now > StartTime /\ backs < MaxBack /\ now' = now - 1 /\ backs' = backs + 1
  /\ UNCHANGED <<zones, sets, g_logTimeZone, t_lastSecond, t_time, stamp, changed, crashed>>

setTimeZone(data) ==
  /\ ~crashed /\ sets < MaxSets
  /\ g_logTimeZone' = data /\ sets' = sets + 1 /\ changed' = now
  /\ UNCHANGED <<zones, now, backs, t_lastSecond, t_time, stamp, crashed>>

(* formatTime.  Without any type the null pointer makes a struct tm of     *)
(* zeros, or a crash when the compiler has dropped the test for it.        *)
LaterSecond(t) == now > t_lastSecond[t]
OtherSecond(t) == now # t_lastSecond[t]

formatTime(t, zone) ==
  /\ ~crashed
  /\ IF OtherSecond(t)
     THEN /\ t_lastSecond' = [t_lastSecond EXCEPT ![t] = now]
          /\ IF zone.localtimes # <<>>
             THEN t_time' = [t_time EXCEPT ![t] = toLocalTime(zone, now).local] /\ crashed' = FALSE
             ELSE t_time' = [t_time EXCEPT ![t] = Zeros] /\ crashed' \in BOOLEAN
     ELSE UNCHANGED <<t_lastSecond, t_time, crashed>>
  /\ stamp' = [stamp EXCEPT ![t] = [at |-> now, text |-> t_time'[t]]]
  /\ UNCHANGED <<zones, now, backs, sets, g_logTimeZone, changed>>

telPrintf(t)    == formatTime(t, sLocalZone)
LoggerFormat(t) == formatTime(t, g_logTimeZone)

Next ==
  \/ Tick
  \/ \E offset \in SetOffsets : setTimeZone(FixedZone(offset))
  \/ \E t \in Server : telPrintf(t)
  \/ \E t \in Logs : LoggerFormat(t)

Spec == Init /\ [][Next]_vars

-----------------------------------------------------------------------------
(* Properties *)

TypeAt(seconds) == TypeIn(zonefile, seconds)

Complete == parts = Len(zonefile.types) + 1

(* A file tells the type of a second from its first transition to its last *)
(* one, or when it has no other type.  Outside of that findLocaltime takes *)
(* the first type, and the last one for good, which its two FIXMEs hold    *)
(* wrong: a file that begins with daylight saving time, or a year after    *)
(* the last transition, can have a stamp that is not the local time.       *)
FileTells(seconds) ==
  \/ Len(zonefile.types) = 1
  \/ \E i, j \in DOMAIN zonefile.trans : zonefile.trans[i].at <= seconds /\ seconds <= zonefile.trans[j].at

(* With a complete zone file the stamp of a message is the local time of   *)
(* the second in which it was made, when the file tells it, whatever the   *)
(* clock does and whoever else makes stamps.  After setTimeZone a stamp of *)
(* a later second is in the new zone: only the second of the change may    *)
(* still show the old one.                                                 *)
StampCorrect ==
  /\ \A t \in Stampers :
       (Complete /\ FileTells(stamp[t].at) /\ stamp[t].at > 0 /\ (t \in Logs => sets = 0))
         => stamp[t].text = stamp[t].at + TypeAt(stamp[t].at).gmtOffset
  /\ \A t \in Logs :
       (sets > 0 /\ stamp[t].at > changed /\ backs = 0)
         => stamp[t].text = toLocalTime(g_logTimeZone, stamp[t].at).local

(* The local time of now comes again after transition i, where the clocks  *)
(* are turned back.  The end of daylight saving time is the one way to do  *)
(* so that fromLocalTime knows: by an hour, for an hour at least.          *)
ComesAgainAfter(i) ==
  now < zonefile.trans[i].at /\ LocalStart(zonefile, i) <= now + TypeAt(now).gmtOffset
EndsDaylightSaving(i) ==
  LET before == TypeAfter(zonefile, i - 1)
      after  == TypeAfter(zonefile, i)
  IN  /\ before.isDst /\ ~after.isDst /\ before.gmtOffset - after.gmtOffset = Hour
      /\ i < Len(zonefile.trans) => zonefile.trans[i].at + Hour <= zonefile.trans[i + 1].at

(* fromLocalTime takes the local time of every second back to that second, *)
(* in the hour that the end of daylight saving time repeats as well.  Only *)
(* a local time that is repeated in another way is not told apart.         *)
RoundTrip ==
  (Complete /\ \A i \in DOMAIN zonefile.trans : ComesAgainAfter(i) => EndsDaylightSaving(i))
    => fromLocalTime(sLocalZone, toLocalTime(sLocalZone, now)) = now
=============================================================================
