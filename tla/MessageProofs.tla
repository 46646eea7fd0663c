---------------------------- MODULE MessageProofs ----------------------------
(***************************************************************************)
(* Proofs about what one thread does with one message, on its own: sending *)
(* it (SockSend), stamping it (LogStamp over TimeZone), and the calendar   *)
(* behind the dates (Calendar).  The three modules share no variable.      *)
(***************************************************************************)
EXTENDS SockSend, LogStamp, Calendar, FiniteSetTheorems, WellFoundedInduction, TLAPS

-----------------------------------------------------------------------------
(* Sending: for a message of any length and any number of failing calls.   *)
(*                                                                         *)
(* The inductive invariant says at each point of the loop where the total  *)
(* can be (Position), that what has gone out reaches at least that far     *)
(* (Covered), that it is exact while no three tries in a row have failed   *)
(* (Exact), and how many failures the loop can have seen since the last    *)
(* call that succeeded (Budget): three for each byte between the total and *)
(* the end, because every three failures take the total one byte back.     *)

Position ==
  /\ pc \in {"check", "copy"} => nTotalSendLen = 0 /\ row = 0 /\ wire = <<>> /\ result
  /\ pc \in {"send", "add"} => nTotalSendLen \in 0 .. DwLen - 1
  /\ pc = "send" => nTryNum \in 0 .. 2
  /\ pc = "add" =>
       \/ ret = -1 /\ gaveUp
       \/ ret \in 1 .. DwLen - nTotalSendLen /\ row = 0

Budget ==
  /\ row <= 3 * DwLen
  /\ pc = "test" => row = 0 \/ row <= 3 * (DwLen - 1 - nTotalSendLen)
  /\ pc = "send" => row <= 3 * (DwLen - 1 - nTotalSendLen) + nTryNum
  /\ pc = "add"  => row <= 3 * (DwLen - nTotalSendLen)

(* How far the bytes that have gone out reach. *)
Reached == IF pc = "add" /\ ret # -1 THEN nTotalSendLen + ret ELSE nTotalSendLen

Covered == \E k \in 0 .. DwLen : Range(wire) = 1 .. k /\ Reached <= k

Exact ==
  ~ gaveUp =>
    /\ \A i \in 1 .. Len(wire) : wire[i] = i
    /\ nTotalSendLen >= 0
    /\ pc # "returned" => Len(wire) = Reached
    /\ pc = "returned" /\ result /\ wire # <<>> => Len(wire) = DwLen

SendInv == SendTypeOK /\ Position /\ Budget /\ Covered /\ Exact

-----------------------------------------------------------------------------
(* What one send call makes of the bytes on the wire. *)
Appended(w, n, k) == w \o Bytes(n, k)

(* One send call appends k positions after the n that came before: the     *)
(* range of the sequence grows by exactly these.                           *)
LEMMA RangeOfAppended ==
  ASSUME NEW w \in Seq(Nat), NEW n \in Nat, NEW k \in Nat
  PROVE  /\ Appended(w, n, k) \in Seq(Nat)
         /\ Range(Appended(w, n, k)) = Range(w) \cup (n + 1 .. n + k)
         /\ Len(Appended(w, n, k)) = Len(w) + k
         /\ \A i \in 1 .. Len(Appended(w, n, k)) :
              Appended(w, n, k)[i] = IF i <= Len(w) THEN w[i] ELSE n + (i - Len(w))
<1> DEFINE v == Appended(w, n, k)
<1> DEFINE t == Bytes(n, k)
<1>0. v = w \o t
  BY DEF Appended
<1>1. t \in Seq(Nat) /\ Len(t) = k /\ \A i \in 1 .. k : t[i] = n + i
  BY DEF Bytes
<1> HIDE DEF t, v
<1>2. v \in Seq(Nat) /\ Len(v) = Len(w) + k
  BY <1>0, <1>1
<1>3. \A i \in 1 .. Len(v) : v[i] = IF i <= Len(w) THEN w[i] ELSE n + (i - Len(w))
  BY <1>0, <1>1
<1>4. DOMAIN v = 1 .. Len(w) + k /\ DOMAIN w = 1 .. Len(w) /\ Len(w) \in Nat
  BY <1>1, <1>2
<1>5. ASSUME NEW x \in Range(v) PROVE x \in Range(w) \cup (n + 1 .. n + k)
  <2>1. PICK i \in 1 .. Len(w) + k : x = v[i]
    BY <1>4 DEF Range
  <2>2. CASE i <= Len(w)
    <3>1. i \in 1 .. Len(v) /\ i \in 1 .. Len(w)
      BY <2>2, <1>2, <1>4
    <3>2. x = w[i]
      BY <2>1, <2>2, <3>1, <1>3
    <3> QED
      BY <3>1, <3>2, <1>4 DEF Range
  <2>3. CASE ~ (i <= Len(w))
    <3>1. x = n + (i - Len(w))
      BY <2>1, <2>3, <1>2, <1>3
    <3> QED
      BY <3>1, <2>1, <2>3, <1>4
  <2> QED
    BY <2>2, <2>3
<1>6. ASSUME NEW x \in Range(w) PROVE x \in Range(v)
  <2>1. PICK i \in 1 .. Len(w) : x = w[i]
    BY <1>4 DEF Range
  <2>2. i \in 1 .. Len(w) + k /\ i \in 1 .. Len(v) /\ i <= Len(w)
    BY <1>2, <1>4
  <2>3. v[i] = x
    BY <2>1, <2>2, <1>3
  <2> QED
    BY <2>2, <2>3, <1>4 DEF Range
<1>7. ASSUME NEW x \in n + 1 .. n + k PROVE x \in Range(v)
  <2>1. Len(w) + (x - n) \in 1 .. Len(w) + k /\ ~ (Len(w) + (x - n) <= Len(w))
    BY <1>4, <1>7
  <2>2. v[Len(w) + (x - n)] = n + ((Len(w) + (x - n)) - Len(w))
    BY <2>1, <1>2, <1>3, <1>4
  <2>3. v[Len(w) + (x - n)] = x
    <3> DEFINE l == Len(w)
    <3>1. l \in Nat /\ x \in Int /\ v[l + (x - n)] = n + ((l + (x - n)) - l)
      BY <2>2, <1>4, <1>7
    <3> HIDE DEF l
    <3> QED
      BY <3>1 DEF l
  <2> QED
    BY <2>1, <2>3, <1>4 DEF Range
<1> QED
  BY <1>2, <1>3, <1>5, <1>6, <1>7 DEF v

(* The loop begins with nothing sent and nothing failed.                   *)
LEMMA SendInitInv == SendInit => SendInv
<1> SUFFICES ASSUME SendInit PROVE SendInv
  OBVIOUS
<1>0. DwLen \in Nat /\ Word \in Nat /\ 2 * DwLen < Word /\ MaxFails \in Nat
  BY SockSendAssumption
<1> USE <1>0
<1>1. SendTypeOK
  <2>1. nTotalSendLen \in -1 .. DwLen /\ ret \in -1 .. DwLen /\ nTryNum \in 0 .. 3
    BY DEF SendInit
  <2>2. fails \in 0 .. MaxFails /\ row \in 0 .. RowCap
    BY DEF SendInit, RowCap
  <2>3. wire \in Seq(Nat)
    BY DEF SendInit
  <2> QED
    BY <2>1, <2>2, <2>3 DEF SendInit, SendTypeOK
<1>2. Position /\ Budget /\ Exact
  BY DEF SendInit, Position, Budget, Exact, Reached
<1>3. Covered
  <2>1. Range(wire) = {}
    BY DEF SendInit, Range
  <2>2. 0 \in 0 .. DwLen /\ {} = 1 .. 0
    OBVIOUS
  <2>3. Reached = 0
    BY DEF SendInit, Reached
  <2> QED
    BY <2>1, <2>2, <2>3 DEF Covered
<1> QED
  BY <1>1, <1>2, <1>3 DEF SendInv

(* Every step of the call, of its environment or of neither keeps the      *)
(* invariant.                                                              *)
LEMMA SendStepInv == SendInv /\ [SendNext]_sendVars => SendInv'
<1> SUFFICES ASSUME SendInv, [SendNext]_sendVars PROVE SendInv'
  OBVIOUS
<1>0. DwLen \in Nat /\ Word \in Nat /\ 2 * DwLen < Word /\ MaxFails \in Nat
  BY SockSendAssumption
<1> USE <1>0
<1>1. CASE Check
  <2>1. SendTypeOK'
    BY <1>1 DEF SendInv, SendTypeOK, Check, env, hist, RowCap
  <2>2. Position' /\ Budget' /\ Exact'
    BY <1>1 DEF SendInv, SendTypeOK, Position, Budget, Exact, Reached, Check, env, hist
  <2>3. Covered'
    BY <1>1 DEF SendInv, SendTypeOK, Covered, Reached, Check, env, hist
  <2> QED
    BY <2>1, <2>2, <2>3 DEF SendInv
<1>2. CASE CopySock
  <2>1. SendTypeOK'
    BY <1>2 DEF SendInv, SendTypeOK, CopySock, env, hist, RowCap
  <2>2. Position' /\ Budget' /\ Exact'
    BY <1>2 DEF SendInv, SendTypeOK, Position, Budget, Exact, Reached, CopySock, env, hist
  <2>3. Covered'
    BY <1>2 DEF SendInv, SendTypeOK, Covered, Reached, CopySock, env, hist
  <2> QED
    BY <2>1, <2>2, <2>3 DEF SendInv
<1>3. CASE Test
  <2>0. AsUnsigned(nTotalSendLen) < DwLen => nTotalSendLen \in 0 .. DwLen - 1
    BY DEF SendInv, SendTypeOK, AsUnsigned
  <2>1. SendTypeOK'
    BY <1>3 DEF SendInv, SendTypeOK, Test, env, hist, RowCap
  <2>2. Position' /\ Budget'
    BY <1>3, <2>0 DEF SendInv, SendTypeOK, Position, Budget, Test, env, hist
  <2>3. Exact'
    <3>1. ~ (AsUnsigned(nTotalSendLen) < DwLen) /\ ~ gaveUp => nTotalSendLen = DwLen
      BY DEF SendInv, SendTypeOK, Exact, AsUnsigned
    <3> QED
      BY <1>3, <2>0, <3>1 DEF SendInv, SendTypeOK, Exact, Reached, Test, env, hist
  <2>4. Covered'
    BY <1>3 DEF SendInv, SendTypeOK, Covered, Reached, Test, env, hist
  <2> QED
    BY <2>1, <2>2, <2>3, <2>4 DEF SendInv
<1>4. ASSUME NEW k \in 1 .. DwLen - nTotalSendLen, SendOk(k) PROVE SendInv'
  <2>0. /\ nTotalSendLen \in 0 .. DwLen - 1 /\ k \in Nat \ {0} /\ nTotalSendLen + k <= DwLen
        /\ pc = "send" /\ pc' = "add" /\ ret' = k /\ row' = 0
        /\ UNCHANGED <<nTotalSendLen, nTryNum, gaveUp>>
    BY <1>4 DEF SendInv, SendTypeOK, Position, SendOk, env
  <2>a. wire \in Seq(Nat) /\ nTotalSendLen \in Nat /\ k \in Nat
    BY <2>0 DEF SendInv, SendTypeOK
  <2>b. wire' = Appended(wire, nTotalSendLen, k)
    BY <1>4 DEF SendOk, Appended
  <2>c. /\ Appended(wire, nTotalSendLen, k) \in Seq(Nat)
        /\ Range(Appended(wire, nTotalSendLen, k)) = Range(wire) \cup (nTotalSendLen + 1 .. nTotalSendLen + k)
        /\ Len(Appended(wire, nTotalSendLen, k)) = Len(wire) + k
        /\ \A i \in 1 .. Len(Appended(wire, nTotalSendLen, k)) :
             Appended(wire, nTotalSendLen, k)[i] = IF i <= Len(wire) THEN wire[i] ELSE nTotalSendLen + (i - Len(wire))
    BY <2>a, RangeOfAppended
  <2>1. /\ wire' \in Seq(Nat)
        /\ Range(wire') = Range(wire) \cup (nTotalSendLen + 1 .. nTotalSendLen + k)
        /\ Len(wire') = Len(wire) + k
        /\ \A i \in 1 .. Len(wire') :
             wire'[i] = IF i <= Len(wire) THEN wire[i] ELSE nTotalSendLen + (i - Len(wire))
    BY <2>b, <2>c
  <2>2. SendTypeOK'
    BY <1>4, <2>0, <2>1 DEF SendInv, SendTypeOK, SendOk, env, RowCap
  <2>3. Position' /\ Budget'
    BY <1>4, <2>0 DEF SendInv, SendTypeOK, Position, Budget, SendOk
  <2>4. Covered'
    <3>1. PICK m \in 0 .. DwLen : Range(wire) = 1 .. m /\ nTotalSendLen <= m
      BY <2>0 DEF SendInv, Covered, Reached
    <3>2. Reached' = nTotalSendLen + k
      BY <2>0 DEF Reached
    <3>3. CASE nTotalSendLen + k <= m
      <4>1. Range(wire') = 1 .. m
        BY <3>1, <3>3, <2>0, <2>1
      <4> QED
        BY <4>1, <3>1, <3>2, <3>3 DEF Covered
    <3>4. CASE nTotalSendLen + k > m
      <4>1. Range(wire') = 1 .. nTotalSendLen + k
        BY <3>1, <3>4, <2>0, <2>1
      <4>2. nTotalSendLen + k \in 0 .. DwLen
        BY <2>0
      <4> QED
        BY <4>1, <4>2, <3>2, <2>0 DEF Covered
    <3> QED
      BY <3>3, <3>4, <2>0
  <2>5. Exact'
    <3> SUFFICES ASSUME ~ gaveUp PROVE Exact'
      BY <2>0 DEF Exact
    <3>1. Len(wire) = nTotalSendLen /\ \A i \in 1 .. Len(wire) : wire[i] = i
      BY <2>0 DEF SendInv, Exact, Reached
    <3>2. \A i \in 1 .. Len(wire') : wire'[i] = i
      BY <2>0, <2>1, <3>1
    <3> QED
      BY <2>0, <2>1, <3>1, <3>2 DEF Exact, Reached
  <2> QED
    BY <2>2, <2>3, <2>4, <2>5 DEF SendInv
<1>5. CASE SendFails
  <2>1. SendTypeOK'
    <3>1. nTotalSendLen' \in -1 .. DwLen /\ ret' \in -1 .. DwLen /\ nTryNum' \in 0 .. 3
      BY <1>5 DEF SendInv, SendTypeOK, Position, SendFails
    <3>2. fails' \in 0 .. MaxFails
      BY <1>5 DEF SendInv, SendTypeOK, SendFails, env
    <3>3. row' \in 0 .. RowCap
      BY <1>5 DEF SendInv, SendTypeOK, SendFails, RowCap
    <3>4. gaveUp' \in BOOLEAN
      BY <1>5 DEF SendFails
    <3>5. client' \in BOOLEAN /\ alive' \in BOOLEAN /\ result' \in BOOLEAN /\ wire' \in Seq(Nat)
      BY <1>5 DEF SendInv, SendTypeOK, SendFails, env
    <3>6. pc' \in {"check", "copy", "test", "send", "add", "returned"}
      BY <1>5 DEF SendFails
    <3> QED
      BY <3>1, <3>2, <3>3, <3>4, <3>5, <3>6 DEF SendTypeOK
  <2>2. Position'
    <3>1. nTotalSendLen' \in 0 .. DwLen - 1 /\ ret' = -1 /\ pc' \in {"send", "add"}
      BY <1>5 DEF SendInv, SendTypeOK, Position, SendFails
    <3>2. nTryNum' \in 1 .. 3 /\ (pc' = "send" => nTryNum' \in 0 .. 2)
      BY <1>5 DEF SendInv, SendTypeOK, Position, SendFails
    <3>3. pc' = "add" => nTryNum' = 3
      BY <1>5, <3>2 DEF SendFails
    <3>4. pc' = "add" => gaveUp'
      BY <1>5, <3>3 DEF SendFails
    <3> QED
      BY <3>1, <3>2, <3>4 DEF Position
  <2>3. Budget'
    BY <1>5 DEF SendInv, SendTypeOK, Position, Budget, SendFails, env, RowCap
  <2>4. Covered'
    BY <1>5 DEF SendInv, SendTypeOK, Covered, Reached, SendFails, env
  <2>5. Exact'
    BY <1>5 DEF SendInv, SendTypeOK, Position, Exact, Reached, SendFails, env
  <2> QED
    BY <2>1, <2>2, <2>3, <2>4, <2>5 DEF SendInv
<1>6. CASE AddRet
  <2>1. SendTypeOK'
    BY <1>6 DEF SendInv, SendTypeOK, Position, AddRet, Advance, env, hist, RowCap
  <2>2. Position' /\ Budget'
    BY <1>6 DEF SendInv, SendTypeOK, Position, Budget, AddRet, Advance, env, hist
  <2>3. Covered'
    <3>1. Reached' <= Reached
      BY <1>6 DEF SendInv, SendTypeOK, Position, Reached, AddRet, Advance
    <3>2. wire' = wire /\ Reached \in Int /\ Reached' \in Int
      BY <1>6 DEF SendInv, SendTypeOK, Reached, AddRet, Advance, hist
    <3> QED
      BY <3>1, <3>2 DEF SendInv, Covered
  <2>4. Exact'
    BY <1>6 DEF SendInv, SendTypeOK, Position, Exact, Reached, AddRet, Advance, hist
  <2> QED
    BY <2>1, <2>2, <2>3, <2>4 DEF SendInv
<1>7. CASE ClientGoes
  BY <1>7 DEF SendInv, SendTypeOK, Position, Budget, Covered, Exact, Reached, ClientGoes, hist, RowCap
<1>8. CASE PeerDies
  BY <1>8 DEF SendInv, SendTypeOK, Position, Budget, Covered, Exact, Reached, PeerDies, hist, RowCap
<1>9. CASE UNCHANGED sendVars
  BY <1>9 DEF SendInv, SendTypeOK, Position, Budget, Covered, Exact, Reached, sendVars, env, hist, RowCap
<1> QED
  BY <1>1, <1>2, <1>3, <1>4, <1>5, <1>6, <1>7, <1>8, <1>9 DEF SendNext, Step

(* The inductive invariant, and with it the type of every variable, holds  *)
(* in every state of a call of SockSend.                                   *)
THEOREM SendInvariance == SendSpec => []SendInv
<1>1. SendInit => SendInv
  BY SendInitInv
<1>2. SendInv /\ [SendNext]_sendVars => SendInv'
  BY SendStepInv
<1> QED
  BY <1>1, <1>2, PTL DEF SendSpec

(* The variables keep their types: the total stays between -1 and the      *)
(* length, so the conversion to unsigned in the loop's test never sees     *)
(* anything below -1.                                                      *)
THEOREM SendTypeCorrect == SendSpec => []SendTypeOK
<1>1. SendInv => SendTypeOK
  BY DEF SendInv
<1> QED
  BY <1>1, SendInvariance, PTL

(* send is never asked for a byte outside the message, however often the   *)
(* total was taken back by a failure.                                      *)
THEOREM StaysInMessage == SendSpec => []InMessage
<1>1. SendInv => InMessage
  BY DEF SendInv, Position, InMessage
<1> QED
  BY <1>1, SendInvariance, PTL

(* What went out is always the beginning of the message, up to repeats.    *)
THEOREM NoByteSkipped == SendSpec => []NothingSkipped
<1>1. SendInv => NothingSkipped
  BY DEF SendInv, Covered, NothingSkipped
<1> QED
  BY <1>1, SendInvariance, PTL

(* Without three failures in a row every byte goes out once and in order,  *)
(* and the loop only ends when all of them have.                           *)
THEOREM ExactDelivery == SendSpec => []ExactUnlessGaveUp
<1>1. SendInv => ExactUnlessGaveUp
  BY DEF SendInv, Exact, ExactUnlessGaveUp
<1> QED
  BY <1>1, SendInvariance, PTL

(* The loop makes at most three failing calls per byte of the message      *)
(* before it returns or a call succeeds.                                   *)
THEOREM FailuresBounded == SendSpec => []RowBounded
<1>1. SendInv => RowBounded
  BY DEF SendInv, Budget, RowBounded
<1> QED
  BY <1>1, SendInvariance, PTL

-----------------------------------------------------------------------------
(* The calendar: for any length of the day and any years.                  *)
(*                                                                         *)
(* The code counts years from March, so that the leap day is the last of a *)
(* year.  A date is then four numbers: b centuries, d years and m months   *)
(* gone by, and k days (IsDate, with the lengths of the months and of      *)
(* February).  DayCount counts the days up to it.  Every count has a date  *)
(* (HasDate), the code's divisions find it (DateOf), its formula counts    *)
(* back (JulianOf), and the date of the next count is the next date        *)
(* (HasNextDay).                                                           *)

MonthStart(m) == (153 * m + 2) \div 5
LeapFebruary(b, d) == d % 4 = 3 /\ (d = 99 => b % 4 = 3)
MonthLength(b, d, m) ==
  IF m = 11 THEN IF LeapFebruary(b, d) THEN 29 ELSE 28
            ELSE MonthStart(m + 1) - MonthStart(m)
IsDate(b, d, m, k) ==
  b \in Nat /\ d \in Nat /\ d <= 99 /\ m \in Nat /\ m <= 11 /\ k \in Nat /\ k < MonthLength(b, d, m)
InCentury(b, c) == c \in Nat /\ c <= 36524 /\ (c = 36524 => b % 4 = 3)
OfYear(b, d, e) ==
  d \in Nat /\ d <= 99 /\ e \in Nat /\ e <= 365 /\ (e = 365 => LeapFebruary(b, d))
InYear(d, e)  == 365 * d + d \div 4 + e
DayCount(b, d, m, k) == 36524 * b + b \div 4 + InYear(d, MonthStart(m) + k)
Date(b, d, m, k) ==
  [day   |-> k + 1,
   month |-> IF m < 10 THEN m + 3 ELSE m - 9,
   year  |-> 100 * b + d - 4800 + IF m < 10 THEN 0 ELSE 1]

(* An integer quotient is known by the bounds it keeps.                    *)
LEMMA Quotient ==
  ASSUME NEW x \in Int, NEW y \in Nat, y > 0, NEW q \in Int, q * y <= x, x < q * y + y
  PROVE  x \div y = q
OBVIOUS

(* What division of integers gives.                                        *)
LEMMA Divide ==
  ASSUME NEW x \in Int, NEW y \in Nat, y > 0
  PROVE  /\ x \div y \in Int /\ (x \div y) * y <= x /\ x < (x \div y) * y + y
         /\ x % y = x - (x \div y) * y
OBVIOUS

(* The formula for the days before a month gives the lengths of the months *)
(* from March to January.                                                  *)
LEMMA Months ==
  ASSUME NEW m \in Nat, m <= 11
  PROVE  /\ MonthStart(m) = <<0, 31, 61, 92, 122, 153, 184, 214, 245, 275, 306, 337>>[m + 1]
         /\ MonthStart(m) \in Nat /\ MonthStart(m) <= 337
         /\ m < 11 => MonthStart(m + 1) - MonthStart(m)
              = <<31, 30, 31, 30, 31, 31, 30, 31, 30, 31, 31>>[m + 1]
<1>1. m = 0 \/ m = 1 \/ m = 2 \/ m = 3 \/ m = 4 \/ m = 5 \/ m = 6 \/ m = 7 \/ m = 8 \/ m = 9 \/ m = 10 \/ m = 11
  OBVIOUS
<1> QED
  BY <1>1 DEF MonthStart

(* The division of C is that of TLA+ where nothing is negative.            *)
LEMMA QuotNat == ASSUME NEW x \in Nat, NEW y \in Nat \ {0} PROVE Quot(x, y) = x \div y
BY DEF Quot

(* The day e of the year gives back the month it lies in; day 365 is a     *)
(* leap day.                                                               *)
LEMMA MonthOf ==
  ASSUME NEW b \in Nat, NEW d \in Nat, d <= 99, NEW m \in Nat, m <= 11, NEW k \in Nat, k < MonthLength(b, d, m),
         NEW e \in Int, e = MonthStart(m) + k
  PROVE  /\ e \in Nat /\ e <= 365 /\ (e = 365 => LeapFebruary(b, d))
         /\ (5 * e + 2) \div 153 = m
<1>1. k <= 30 /\ (k = 30 => m \notin {1, 3, 6, 8, 11}) /\ (m = 11 => k <= 28) /\ (m = 11 /\ k = 28 => LeapFebruary(b, d))
  BY Months DEF MonthLength
<1>2. MonthStart(m) = <<0, 31, 61, 92, 122, 153, 184, 214, 245, 275, 306, 337>>[m + 1]
  BY Months
<1>3. m = 0 \/ m = 1 \/ m = 2 \/ m = 3 \/ m = 4 \/ m = 5 \/ m = 6 \/ m = 7 \/ m = 8 \/ m = 9 \/ m = 10 \/ m = 11
  OBVIOUS
<1>4. e \in Nat /\ e <= 365 /\ (e = 365 => LeapFebruary(b, d))
  BY <1>1, <1>2, <1>3
<1>5. m * 153 <= 5 * e + 2 /\ 5 * e + 2 < m * 153 + 153
  BY <1>1, <1>2, <1>3
<1> QED
  BY <1>4, <1>5, Quotient

(* The day c of the century gives back its year; the last day of a long    *)
(* century is a leap day.                                                  *)
LEMMA YearOf ==
  ASSUME NEW b \in Nat, NEW d \in Nat, d <= 99, NEW e \in Nat, e <= 365, e = 365 => LeapFebruary(b, d),
         NEW c \in Int, c = InYear(d, e)
  PROVE  /\ c \in Nat /\ c <= 36524 /\ (c = 36524 => b % 4 = 3)
         /\ (4 * c + 3) \div 1461 = d
         /\ (1461 * d) \div 4 = 365 * d + d \div 4
<1>1. PICK q \in 0 .. 24, r \in 0 .. 3 : d = 4 * q + r /\ d \div 4 = q /\ d % 4 = r
  OBVIOUS
<1>2. c = 365 * d + q + e
  BY <1>1 DEF InYear
<1>0. e = 365 => r = 3 /\ (d = 99 => b % 4 = 3)
  BY <1>1 DEF LeapFebruary
<1>3. d * 1461 <= 4 * c + 3 /\ 4 * c + 3 < d * 1461 + 1461
  BY <1>0, <1>1, <1>2
<1>4. c \in Nat /\ c <= 36524 /\ (c = 36524 => b % 4 = 3)
  <2>1. c >= 0
    BY <1>1, <1>2
  <2>2. c <= 36524
    BY <1>1, <1>2
  <2>3. c = 36524 => d = 99 /\ e = 365
    BY <1>1, <1>2
  <2> QED
    BY <2>1, <2>2, <2>3, <1>0
<1>5. (1461 * d) \div 4 = 365 * d + d \div 4
  BY <1>1
<1>6. (4 * c + 3) \div 1461 = d
  <2>1. 4 * c + 3 \in Int /\ 1461 \in Nat /\ 1461 > 0 /\ d \in Int
    BY <1>4
  <2> QED
    BY <2>1, <1>3, Quotient
<1> QED
  BY <1>4, <1>5, <1>6

(* The day a gives back its century.                                       *)
LEMMA CenturyOf ==
  ASSUME NEW b \in Nat, NEW c \in Nat, c <= 36524, c = 36524 => b % 4 = 3,
         NEW a \in Int, a = 36524 * b + b \div 4 + c
  PROVE  /\ a \in Nat
         /\ (4 * a + 3) \div 146097 = b
         /\ (146097 * b) \div 4 = 36524 * b + b \div 4
<1>1. PICK q \in Nat, r \in 0 .. 3 : b = 4 * q + r /\ b \div 4 = q /\ b % 4 = r
  OBVIOUS
<1>2. b * 146097 <= 4 * a + 3 /\ 4 * a + 3 < b * 146097 + 146097
  BY <1>1
<1>3. a \in Nat
  BY <1>1
<1>4. (146097 * b) \div 4 = 36524 * b + b \div 4
  BY <1>1
<1> QED
  BY <1>2, <1>3, <1>4, Quotient

(* getYearMonthDay with its local variables as parameters.                 *)
LEMMA Unfolded ==
  ASSUME NEW j, NEW a, NEW b, NEW c, NEW d, NEW e, NEW m,
         a = j + 32044, b = Quot(4 * a + 3, 146097), c = a - Quot(b * 146097, 4),
         d = Quot(4 * c + 3, 1461), e = c - Quot(1461 * d, 4), m = Quot(5 * e + 2, 153)
  PROVE  getYearMonthDay(j) =
           [day   |-> e - Quot(153 * m + 2, 5) + 1,
            month |-> m + 3 - 12 * Quot(m, 10),
            year  |-> b * 100 + d - 4800 + Quot(m, 10)]
BY DEF getYearMonthDay, YearInCentury

(* getYearMonthDay finds the date that a count of days belongs to: there is *)
(* no other.                                                               *)
LEMMA DateOf ==
  ASSUME NEW b, NEW d, NEW m, NEW k, IsDate(b, d, m, k)
  PROVE  DayCount(b, d, m, k) \in Nat /\ getYearMonthDay(DayCount(b, d, m, k) - 32044) = Date(b, d, m, k)
<1> DEFINE e == MonthStart(m) + k
           c == InYear(d, e)
           a == DayCount(b, d, m, k)
<1>0. b \in Nat /\ d \in Nat /\ d <= 99 /\ m \in Nat /\ m <= 11 /\ k \in Nat /\ k < MonthLength(b, d, m)
  BY DEF IsDate
<1>1. /\ e \in Nat /\ e <= 365 /\ (e = 365 => LeapFebruary(b, d))
      /\ (5 * e + 2) \div 153 = m
  <2>1. e = MonthStart(m) + k /\ e \in Int
    BY <1>0 DEF MonthStart
  <2> HIDE DEF e
  <2> QED
    BY <2>1, <1>0, MonthOf
<1>2. /\ c \in Nat /\ c <= 36524 /\ (c = 36524 => b % 4 = 3)
      /\ (4 * c + 3) \div 1461 = d /\ (1461 * d) \div 4 = 365 * d + d \div 4
  <2>1. c = InYear(d, e) /\ c \in Int
    BY <1>0, <1>1 DEF InYear
  <2> HIDE DEF c, e
  <2> QED
    BY <2>1, <1>0, <1>1, YearOf
<1>3. /\ a \in Nat /\ (4 * a + 3) \div 146097 = b
      /\ (146097 * b) \div 4 = 36524 * b + b \div 4
      /\ a = 36524 * b + b \div 4 + c
  <2>1. a = 36524 * b + b \div 4 + c /\ a \in Int
    BY <1>0, <1>2 DEF DayCount
  <2> HIDE DEF a, c
  <2> QED
    BY <2>1, <1>0, <1>2, CenturyOf
<1>4. /\ Quot(4 * a + 3, 146097) = b /\ Quot(b * 146097, 4) = a - c
      /\ Quot(4 * c + 3, 1461) = d /\ Quot(1461 * d, 4) = c - e
      /\ Quot(5 * e + 2, 153) = m /\ Quot(153 * m + 2, 5) = e - k
  <2>1. c = 365 * d + d \div 4 + e /\ e = (153 * m + 2) \div 5 + k
    BY DEF InYear, MonthStart
  <2> HIDE DEF a, c, e
  <2>2. b * 146097 = 146097 * b /\ b \div 4 \in Int /\ d \div 4 \in Int /\ (153 * m + 2) \div 5 \in Int
    BY <1>0
  <2>3. Quot(4 * a + 3, 146097) = b
    BY <1>3, QuotNat
  <2>4. Quot(b * 146097, 4) = a - c
    BY <1>0, <1>2, <1>3, <2>2 DEF Quot
  <2>5. Quot(4 * c + 3, 1461) = d
    BY <1>2, QuotNat
  <2>6. Quot(1461 * d, 4) = c - e
    BY <1>0, <1>1, <1>2, <2>1, <2>2 DEF Quot
  <2>7. Quot(5 * e + 2, 153) = m
    BY <1>1, QuotNat
  <2>8. Quot(153 * m + 2, 5) = e - k
    BY <1>0, <2>1, <2>2 DEF Quot
  <2> QED
    BY <2>3, <2>4, <2>5, <2>6, <2>7, <2>8
<1>5. Quot(m, 10) = IF m < 10 THEN 0 ELSE 1
  BY <1>0 DEF Quot
<1> HIDE DEF a, c, e
<1>6. getYearMonthDay(a - 32044) = Date(b, d, m, k)
  <2>1. /\ a = (a - 32044) + 32044 /\ c = a - Quot(b * 146097, 4) /\ e = c - Quot(1461 * d, 4)
        /\ (e - Quot(153 * m + 2, 5)) + 1 = k + 1
    BY <1>0, <1>1, <1>2, <1>3, <1>4
  <2>3. getYearMonthDay(a - 32044) =
          [day   |-> e - Quot(153 * m + 2, 5) + 1,
           month |-> m + 3 - 12 * Quot(m, 10),
           year  |-> b * 100 + d - 4800 + Quot(m, 10)]
    BY <1>4, <2>1, Unfolded
  <2>4. CASE m < 10
    <3>1. /\ m + 3 - 12 * Quot(m, 10) = m + 3
          /\ b * 100 + d - 4800 + Quot(m, 10) = 100 * b + d - 4800 + 0
      BY <1>0, <1>5, <2>4
    <3> QED
      BY <2>1, <2>3, <2>4, <3>1 DEF Date
  <2>5. CASE ~ (m < 10)
    <3>1. /\ m + 3 - 12 * Quot(m, 10) = m - 9
          /\ b * 100 + d - 4800 + Quot(m, 10) = 100 * b + d - 4800 + 1
      BY <1>0, <1>5, <2>5
    <3> QED
      BY <2>1, <2>3, <2>5, <3>1 DEF Date
  <2> QED
    BY <2>4, <2>5
<1> QED
  BY <1>3, <1>6 DEF a

(* Every day lies in a century.                                            *)
LEMMA HasCentury ==
  ASSUME NEW a \in Nat
  PROVE  \E b, c : b \in Nat /\ InCentury(b, c) /\ a = 36524 * b + b \div 4 + c
<1>1. PICK b \in Int : b * 146097 <= 4 * a + 3 /\ 4 * a + 3 < b * 146097 + 146097
  <2> DEFINE x == (4 * a + 3)
             z == x \div 146097
  <2>1. x \in Int /\ 146097 \in Nat /\ 146097 > 0
    OBVIOUS
  <2> HIDE DEF x
  <2>2. z \in Int /\ z * 146097 <= x /\ x < z * 146097 + 146097
    BY <2>1, Divide
  <2> QED
    BY <2>2 DEF x
<1>2. b \in Nat
  BY <1>1
<1>3. PICK q \in Nat, r \in 0 .. 3 : b = 4 * q + r /\ b \div 4 = q /\ b % 4 = r
  BY <1>2
<1> DEFINE c == a - 36524 * b - q
<1>4. c \in Nat /\ c <= 36524
  BY <1>1, <1>2, <1>3
<1>5. c = 36524 => r = 3
  BY <1>1, <1>2, <1>3
<1>6. a = 36524 * b + b \div 4 + c
  BY <1>2, <1>3
<1> HIDE DEF c
<1> QED
  <2>1. InCentury(b, c)
    BY <1>3, <1>4, <1>5 DEF InCentury
  <2> QED
    BY <2>1, <1>2, <1>6

(* Every day of a century lies in a year.                                  *)
LEMMA HasYear ==
  ASSUME NEW b \in Nat, NEW c, InCentury(b, c)
  PROVE  \E d, e : OfYear(b, d, e) /\ c = InYear(d, e)
<1>0. c \in Nat /\ c <= 36524 /\ (c = 36524 => b % 4 = 3)
  BY DEF InCentury
<1>1. PICK d \in Int : d * 1461 <= 4 * c + 3 /\ 4 * c + 3 < d * 1461 + 1461
  <2> DEFINE x == (4 * c + 3)
             z == x \div 1461
  <2>1. x \in Int /\ 1461 \in Nat /\ 1461 > 0
    BY <1>0
  <2> HIDE DEF x
  <2>2. z \in Int /\ z * 1461 <= x /\ x < z * 1461 + 1461
    BY <2>1, Divide
  <2> QED
    BY <2>2 DEF x
<1>2. d \in Nat /\ d <= 99
  BY <1>0, <1>1
<1>3. PICK q \in Nat, r \in 0 .. 3 : d = 4 * q + r /\ d \div 4 = q /\ d % 4 = r
  BY <1>2
<1> DEFINE e == c - 365 * d - q
<1>4. e \in Nat /\ e <= 365
  BY <1>0, <1>1, <1>2, <1>3
<1>5. e = 365 => r = 3
  BY <1>0, <1>1, <1>2, <1>3
<1>6. e = 365 /\ d = 99 => c = 36524
  BY <1>0, <1>3
<1>7. c = InYear(d, e)
  BY <1>0, <1>2, <1>3 DEF InYear
<1>8. e = 365 => LeapFebruary(b, d)
  <2> HIDE DEF e
  <2> QED
    BY <1>0, <1>3, <1>5, <1>6 DEF LeapFebruary
<1> HIDE DEF e
<1> QED
  BY <1>2, <1>4, <1>7, <1>8 DEF OfYear

(* Every day of a year lies in a month.                                    *)
LEMMA HasMonth ==
  ASSUME NEW b \in Nat, NEW d, NEW e, OfYear(b, d, e)
  PROVE  \E m \in Nat, k \in Nat : m <= 11 /\ k < MonthLength(b, d, m) /\ e = MonthStart(m) + k
<1>0. e \in Nat /\ e <= 365 /\ (e = 365 => LeapFebruary(b, d))
  BY DEF OfYear
<1>1. PICK m \in Int : m * 153 <= 5 * e + 2 /\ 5 * e + 2 < m * 153 + 153
  <2> DEFINE x == (5 * e + 2)
             z == x \div 153
  <2>1. x \in Int /\ 153 \in Nat /\ 153 > 0
    BY <1>0
  <2> HIDE DEF x
  <2>2. z \in Int /\ z * 153 <= x /\ x < z * 153 + 153
    BY <2>1, Divide
  <2> QED
    BY <2>2 DEF x
<1>2. m \in Nat /\ m <= 11
  BY <1>0, <1>1
<1>3. /\ MonthStart(m) = <<0, 31, 61, 92, 122, 153, 184, 214, 245, 275, 306, 337>>[m + 1]
      /\ MonthStart(m) \in Nat
      /\ m < 11 => MonthStart(m + 1) - MonthStart(m)
           = <<31, 30, 31, 30, 31, 31, 30, 31, 30, 31, 31>>[m + 1]
  BY <1>2, Months
<1>4. m = 0 \/ m = 1 \/ m = 2 \/ m = 3 \/ m = 4 \/ m = 5 \/ m = 6 \/ m = 7 \/ m = 8 \/ m = 9 \/ m = 10 \/ m = 11
  BY <1>2
<1> DEFINE k == e - MonthStart(m)
<1>5. k \in Nat
  BY <1>0, <1>1, <1>3, <1>4
<1>6. k < MonthLength(b, d, m)
  BY <1>0, <1>1, <1>3, <1>4 DEF MonthLength
<1>7. e = MonthStart(m) + k
  BY <1>0, <1>3
<1> HIDE DEF k
<1> QED
  BY <1>2, <1>5, <1>6, <1>7

(* Every count of days has a date.                                         *)
LEMMA HasDate ==
  ASSUME NEW a \in Nat
  PROVE  \E b, d, m, k : IsDate(b, d, m, k) /\ a = DayCount(b, d, m, k)
<1>1. PICK b, c : b \in Nat /\ InCentury(b, c) /\ a = 36524 * b + b \div 4 + c
  BY HasCentury
<1>2. b \in Nat
  BY <1>1
<1>3. PICK d, e : OfYear(b, d, e) /\ c = InYear(d, e)
  BY <1>1, <1>2, HasYear
<1>4. PICK m \in Nat, k \in Nat : m <= 11 /\ k < MonthLength(b, d, m) /\ e = MonthStart(m) + k
  BY <1>2, <1>3, HasMonth
<1>5. IsDate(b, d, m, k)
  BY <1>2, <1>3, <1>4 DEF IsDate, OfYear
<1>6. a = DayCount(b, d, m, k)
  BY <1>1, <1>3, <1>4 DEF DayCount
<1> QED
  BY <1>5, <1>6

(* The code's formula for the Julian day number, over shifted years. *)
LEMMA JulianShifted ==
  ASSUME NEW y \in Nat, NEW m \in Nat, m <= 11, NEW k \in Nat,
         NEW month, NEW year,
         m < 10 => month = m + 3 /\ year = y - 4800,
         m >= 10 => month = m - 9 /\ year = y - 4799
  PROVE  getJulianDayNumber(year, month, k + 1)
           = k + MonthStart(m) + 365 * y + (y \div 4 - y \div 100 + y \div 400) - 32044
<1>1. /\ m < 10 => Quot(14 - month, 12) = 0
      /\ m >= 10 => Quot(14 - month, 12) = 1
  BY DEF Quot
<1>2. /\ y = year + 4800 - Quot(14 - month, 12)
      /\ m = month + 12 * Quot(14 - month, 12) - 3
  BY <1>1
<1>3. getJulianDayNumber(year, month, k + 1)
        = (k + 1) + Quot(153 * m + 2, 5) + y * 365 + LeapDays(y) - 32045
  <2> DEFINE u == Quot(14 - month, 12)
             v == year + 4800 - u
             w == month + 12 * u - 3
  <2>1. getJulianDayNumber(year, month, k + 1)
          = (k + 1) + Quot(153 * w + 2, 5) + v * 365 + LeapDays(v) - 32045
    BY DEF getJulianDayNumber
  <2>2. v = y /\ w = m
    BY <1>2
  <2> HIDE DEF v, w
  <2> QED
    BY <2>1, <2>2
<1>4. LeapDays(y) = (y \div 4 - y \div 100) + y \div 400 /\ LeapDays(y) \in Int
  BY DEF LeapDays, Quot
<1>5. Quot(153 * m + 2, 5) = MonthStart(m) /\ MonthStart(m) \in Int
  BY DEF MonthStart, Quot
<1> QED
  BY <1>3, <1>4, <1>5

(* The leap days before a year, in terms of its century.                   *)
LEMMA ShiftedYear ==
  ASSUME NEW b \in Nat, NEW d \in Nat, d <= 99, NEW y, y = 100 * b + d
  PROVE  y \in Nat /\ y \div 4 = 25 * b + d \div 4 /\ y \div 100 = b /\ y \div 400 = b \div 4
<1>1. PICK q \in Nat, r \in 0 .. 3 : b = 4 * q + r /\ b \div 4 = q
  OBVIOUS
<1>2. PICK p \in Nat, s \in 0 .. 3 : d = 4 * p + s /\ d \div 4 = p
  OBVIOUS
<1>3. y \in Nat
  OBVIOUS
<1>4. y \div 4 = 25 * b + p
  BY <1>2, <1>3
<1>5. y \div 100 = b
  BY <1>3
<1>6. y \div 400 = q
  BY <1>1, <1>3
<1> QED
  BY <1>1, <1>2, <1>3, <1>4, <1>5, <1>6

(* getJulianDayNumber takes the date back to the count.                    *)
LEMMA JulianOf ==
  ASSUME NEW b, NEW d, NEW m, NEW k, IsDate(b, d, m, k)
  PROVE  LET date == Date(b, d, m, k)
         IN  getJulianDayNumber(date.year, date.month, date.day) = DayCount(b, d, m, k) - 32044
<1> DEFINE y == 100 * b + d
           date == Date(b, d, m, k)
<1>0. b \in Nat /\ d \in Nat /\ d <= 99 /\ m \in Nat /\ m <= 11 /\ k \in Nat
  BY DEF IsDate
<1>1. y \in Nat /\ y \div 4 = 25 * b + d \div 4 /\ y \div 100 = b /\ y \div 400 = b \div 4
  BY <1>0, ShiftedYear
<1>2. /\ m < 10 => date.month = m + 3 /\ date.year = y - 4800
      /\ m >= 10 => date.month = m - 9 /\ date.year = y - 4799
      /\ date.day = k + 1
  BY <1>0 DEF Date
<1>3. getJulianDayNumber(date.year, date.month, k + 1)
        = k + MonthStart(m) + 365 * y + (y \div 4 - y \div 100 + y \div 400) - 32044
  <2> HIDE DEF y, date
  <2> QED
    BY <1>0, <1>1, <1>2, JulianShifted
<1>4. DayCount(b, d, m, k) = 36524 * b + b \div 4 + (365 * d + d \div 4 + (MonthStart(m) + k))
  BY DEF DayCount, InYear
<1>5. MonthStart(m) \in Int /\ b \div 4 \in Int /\ d \div 4 \in Int
  BY <1>0 DEF MonthStart
<1>6. k + MonthStart(m) + 365 * y + (y \div 4 - y \div 100 + y \div 400) = DayCount(b, d, m, k)
  BY <1>0, <1>1, <1>4, <1>5
<1>7. getJulianDayNumber(date.year, date.month, date.day) = DayCount(b, d, m, k) - 32044
  <2>1. getJulianDayNumber(date.year, date.month, date.day) = getJulianDayNumber(date.year, date.month, k + 1)
    BY <1>2
  <2> HIDE DEF y, date
  <2> QED
    BY <2>1, <1>0, <1>1, <1>3, <1>5, <1>6
<1> QED
  BY <1>7

(* A year that begins in March ends with a leap day if the calendar year of *)
(* that February is a leap year.                                           *)
LEMMA LeapYearsAgree ==
  ASSUME NEW b \in Nat, NEW d \in Nat, d <= 99, NEW year, year = 100 * b + d - 4799
  PROVE  LeapYear(year) <=> LeapFebruary(b, d)
<1>1. PICK q \in Nat, r \in 0 .. 3 : b = 4 * q + r /\ b % 4 = r
  OBVIOUS
<1>2. PICK p \in Nat, s \in 0 .. 3 : d = 4 * p + s /\ d % 4 = s
  OBVIOUS
<1>3. year \in Int
  OBVIOUS
<1>4. year % 4 = 0 <=> s = 3
  BY <1>2, <1>3
<1>5. year % 100 = 0 <=> d = 99
  BY <1>3
<1>6. year % 400 = 0 <=> d = 99 /\ r = 3
  BY <1>1, <1>3
<1> QED
  BY <1>1, <1>2, <1>4, <1>5, <1>6 DEF LeapYear, LeapFebruary

(* The months of the calendar have the lengths that the formula gives.     *)
LEMMA MonthDays ==
  ASSUME NEW b, NEW d, NEW m, NEW k, IsDate(b, d, m, k)
  PROVE  DaysOf(Date(b, d, m, k).month - 1, Date(b, d, m, k).year) = MonthLength(b, d, m)
<1>0. b \in Nat /\ d \in Nat /\ d <= 99 /\ m \in Nat /\ m <= 11
  BY DEF IsDate
<1> DEFINE month == Date(b, d, m, k).month - 1
           year  == Date(b, d, m, k).year
<1>1. /\ m < 10 => month = m + 2
      /\ m >= 10 => month = m - 10
  BY <1>0 DEF Date
<1>2. m = 11 => year = 100 * b + d - 4799
  BY <1>0 DEF Date
<1>3. m = 11 => (LeapYear(year) <=> LeapFebruary(b, d))
  <2> HIDE DEF year
  <2> QED
    BY <1>0, <1>2, LeapYearsAgree
<1>4. m < 11 => MonthStart(m + 1) - MonthStart(m)
        = <<31, 30, 31, 30, 31, 31, 30, 31, 30, 31, 31>>[m + 1]
  BY <1>0, Months
<1> HIDE DEF month, year
<1>5. CASE m = 11
  BY <1>1, <1>3, <1>5 DEF DaysOf, MonthLength, month, year
<1>6. CASE m < 11
  <2>1. m = 0 \/ m = 1 \/ m = 2 \/ m = 3 \/ m = 4 \/ m = 5 \/ m = 6 \/ m = 7 \/ m = 8 \/ m = 9 \/ m = 10
    BY <1>0, <1>6
  <2>2. DaysOf(month, year) = <<31, 30, 31, 30, 31, 31, 30, 31, 30, 31, 31>>[m + 1]
    BY <1>1, <2>1 DEF DaysOf
  <2>3. MonthLength(b, d, m) = <<31, 30, 31, 30, 31, 31, 30, 31, 30, 31, 31>>[m + 1]
    BY <1>4, <1>6 DEF MonthLength
  <2> QED
    BY <2>2, <2>3 DEF month, year
<1> QED
  BY <1>0, <1>5, <1>6

(* The day after. *)
NextDay(b, d, m, k, b2, d2, m2, k2) ==
  LET date  == Date(b, d, m, k)
      date2 == Date(b2, d2, m2, k2)
      last  == date.day = DaysOf(date.month - 1, date.year)
  IN  /\ IsDate(b2, d2, m2, k2)
      /\ DayCount(b2, d2, m2, k2) = DayCount(b, d, m, k) + 1
      /\ last \/ (date2.day = date.day + 1 /\ date2.month = date.month /\ date2.year = date.year)
      /\ ~ last \/ (date2.day = 1 /\ IF date.month = 12
                                     THEN date2.month = 1 /\ date2.year = date.year + 1
                                     ELSE date2.month = date.month + 1 /\ date2.year = date.year)

(* The count goes on with the next day of the calendar: of the month, of   *)
(* the year, of the century.                                               *)
LEMMA HasNextDay ==
  ASSUME NEW b, NEW d, NEW m, NEW k, IsDate(b, d, m, k)
  PROVE  \E b2, d2, m2, k2 : NextDay(b, d, m, k, b2, d2, m2, k2)
<1>0. b \in Nat /\ d \in Nat /\ d <= 99 /\ m \in Nat /\ m <= 11 /\ k \in Nat /\ k < MonthLength(b, d, m)
  BY DEF IsDate
<1>1. DaysOf(Date(b, d, m, k).month - 1, Date(b, d, m, k).year) = MonthLength(b, d, m)
  BY MonthDays
<1>2. /\ \A i \in Nat : i <= 11 => MonthStart(i) \in Nat
      /\ \A i \in Nat : i <= 10 => MonthLength(b, d, i) = MonthStart(i + 1) - MonthStart(i)
      /\ \A i \in Nat : i <= 11 => \A x, y : MonthLength(x, y, i) \in Nat /\ MonthLength(x, y, i) > 0
  <2>1. ASSUME NEW i \in Nat, i <= 11, NEW x, NEW y
        PROVE  /\ MonthStart(i) \in Nat
               /\ i <= 10 => MonthLength(b, d, i) = MonthStart(i + 1) - MonthStart(i)
               /\ MonthLength(x, y, i) \in Nat /\ MonthLength(x, y, i) > 0
    <3>1. i = 0 \/ i = 1 \/ i = 2 \/ i = 3 \/ i = 4 \/ i = 5 \/ i = 6 \/ i = 7 \/ i = 8 \/ i = 9 \/ i = 10 \/ i = 11
      BY <2>1
    <3>2. /\ MonthStart(i) \in Nat
          /\ i < 11 => MonthStart(i + 1) - MonthStart(i)
               = <<31, 30, 31, 30, 31, 31, 30, 31, 30, 31, 31>>[i + 1]
      BY <2>1, Months
    <3> QED
      BY <3>1, <3>2 DEF MonthLength
  <2> QED
    BY <2>1
<1>3. CASE k + 1 < MonthLength(b, d, m)
  <2>1. IsDate(b, d, m, k + 1)
    BY <1>0, <1>3 DEF IsDate
  <2>2. DayCount(b, d, m, k + 1) = DayCount(b, d, m, k) + 1
    BY <1>0, <1>2 DEF DayCount, InYear
  <2>3. Date(b, d, m, k).day # MonthLength(b, d, m)
    BY <1>0, <1>2, <1>3 DEF Date
  <2>4. /\ Date(b, d, m, k + 1).day = Date(b, d, m, k).day + 1
        /\ Date(b, d, m, k + 1).month = Date(b, d, m, k).month
        /\ Date(b, d, m, k + 1).year = Date(b, d, m, k).year
    BY DEF Date
  <2>5. NextDay(b, d, m, k, b, d, m, k + 1)
    BY <1>1, <2>1, <2>2, <2>3, <2>4 DEF NextDay
  <2> QED
    BY <2>5
<1>4. CASE k + 1 = MonthLength(b, d, m) /\ m < 11
  <2>1. IsDate(b, d, m + 1, 0)
    BY <1>0, <1>2, <1>4 DEF IsDate
  <2>2. DayCount(b, d, m + 1, 0) = DayCount(b, d, m, k) + 1
    <3>1. MonthStart(m + 1) + 0 = (MonthStart(m) + k) + 1
      BY <1>0, <1>2, <1>4
    <3> QED
      BY <1>0, <1>2, <3>1 DEF DayCount, InYear
  <2>3. Date(b, d, m, k).day = MonthLength(b, d, m)
    BY <1>4 DEF Date
  <2>4. /\ Date(b, d, m + 1, 0).day = 1
        /\ IF Date(b, d, m, k).month = 12
           THEN Date(b, d, m + 1, 0).month = 1 /\ Date(b, d, m + 1, 0).year = Date(b, d, m, k).year + 1
           ELSE Date(b, d, m + 1, 0).month = Date(b, d, m, k).month + 1
                /\ Date(b, d, m + 1, 0).year = Date(b, d, m, k).year
    BY <1>0, <1>4 DEF Date
  <2>5. NextDay(b, d, m, k, b, d, m + 1, 0)
    BY <1>1, <2>1, <2>2, <2>3, <2>4 DEF NextDay
  <2> QED
    BY <2>5
<1>5. CASE k + 1 = MonthLength(b, d, m) /\ m = 11
  <2>0. /\ k = IF LeapFebruary(b, d) THEN 28 ELSE 27
        /\ MonthStart(11) = 337 /\ MonthStart(0) = 0
    BY <1>0, <1>5 DEF MonthLength, MonthStart
  <2>1. PICK q \in Nat, r \in 0 .. 3 : d = 4 * q + r /\ d \div 4 = q /\ d % 4 = r
    BY <1>0
  <2>2. PICK p \in Nat, s \in 0 .. 3 : b = 4 * p + s /\ b \div 4 = p /\ b % 4 = s
    BY <1>0
  <2>3. DayCount(b, d, m, k) = 36524 * b + p + (365 * d + q + (337 + k))
    BY <1>5, <2>0, <2>1, <2>2 DEF DayCount, InYear
  <2>4. Date(b, d, m, k).day = MonthLength(b, d, m) /\ Date(b, d, m, k).month = 2
    BY <1>5 DEF Date
  <2>5. CASE d < 99
    <3>1. IsDate(b, d + 1, 0, 0)
      BY <1>0, <1>2, <2>5 DEF IsDate
    <3>2. (d + 1) \div 4 = IF r = 3 THEN q + 1 ELSE q
      BY <2>1
    <3>3. DayCount(b, d + 1, 0, 0) = 36524 * b + p + (365 * (d + 1) + ((d + 1) \div 4) + (0 + 0))
      BY <2>0, <2>2 DEF DayCount, InYear
    <3>4. k = IF r = 3 THEN 28 ELSE 27
      BY <2>0, <2>1, <2>5 DEF LeapFebruary
    <3>5. DayCount(b, d + 1, 0, 0) = DayCount(b, d, m, k) + 1
      BY <1>0, <2>1, <2>2, <2>3, <3>2, <3>3, <3>4
    <3>6. /\ Date(b, d + 1, 0, 0).day = 1 /\ Date(b, d + 1, 0, 0).month = 3
          /\ Date(b, d + 1, 0, 0).year = Date(b, d, m, k).year
      BY <1>0, <1>5 DEF Date
    <3>7. NextDay(b, d, m, k, b, d + 1, 0, 0)
      BY <1>1, <2>4, <3>1, <3>5, <3>6 DEF NextDay
    <3> QED
      BY <3>7
  <2>6. CASE d = 99
    <3>1. IsDate(b + 1, 0, 0, 0)
      BY <1>0, <1>2 DEF IsDate
    <3>2. (b + 1) \div 4 = IF s = 3 THEN p + 1 ELSE p
      BY <2>2
    <3>3. DayCount(b + 1, 0, 0, 0) = 36524 * (b + 1) + ((b + 1) \div 4) + (365 * 0 + 0 + (0 + 0))
      BY <2>0 DEF DayCount, InYear
    <3>4. q = 24 /\ r = 3 /\ k = IF s = 3 THEN 28 ELSE 27
      BY <2>0, <2>1, <2>2, <2>6 DEF LeapFebruary
    <3>5. DayCount(b + 1, 0, 0, 0) = DayCount(b, d, m, k) + 1
      BY <1>0, <2>2, <2>3, <2>6, <3>2, <3>3, <3>4
    <3>6. /\ Date(b + 1, 0, 0, 0).day = 1 /\ Date(b + 1, 0, 0, 0).month = 3
          /\ Date(b + 1, 0, 0, 0).year = Date(b, d, m, k).year
      BY <1>0, <1>5, <2>6 DEF Date
    <3>7. NextDay(b, d, m, k, b + 1, 0, 0, 0)
      BY <1>1, <2>4, <3>1, <3>5, <3>6 DEF NextDay
    <3> QED
      BY <3>7
  <2> QED
    BY <1>0, <2>5, <2>6
<1> QED
  BY <1>0, <1>2, <1>3, <1>4, <1>5

(* The seconds and days of a time before the epoch as well as after it.    *)
LEMMA SplitOf ==
  ASSUME NEW days \in Int, NEW s \in Nat, s < kSecondsPerDay
  PROVE  Split(days * kSecondsPerDay + s) = [seconds |-> s, days |-> days]
<1> DEFINE p == days * kSecondsPerDay
           t == p + s
           q == Quot(t, kSecondsPerDay)
<1>1. kSecondsPerDay \in Nat /\ kSecondsPerDay > 0 /\ p \in Int /\ t \in Int
  BY CalendarAssumption
<1>2. \/ q = days /\ Rem(t, kSecondsPerDay) = s
      \/ q = days + 1 /\ Rem(t, kSecondsPerDay) = s - kSecondsPerDay /\ s > 0
  <2>1. CASE t >= 0
    <3>1. t \div kSecondsPerDay = days
      <4> HIDE DEF t
      <4>1. days * kSecondsPerDay <= t /\ t < days * kSecondsPerDay + kSecondsPerDay
        BY <1>1 DEF t
      <4> QED
        BY <1>1, <4>1, Quotient
    <3>2. q = days
      BY <2>1, <3>1 DEF Quot
    <3> QED
      BY <1>1, <3>2 DEF Rem
  <2>2. CASE t < 0 /\ s = 0
    <3> DEFINE n == - t
               x == - days
    <3>1. n \in Int /\ x \in Int /\ x * kSecondsPerDay = n
      BY <1>1, <2>2
    <3>2. n \div kSecondsPerDay = x
      <4> HIDE DEF n, x
      <4> QED
        BY <1>1, <3>1, Quotient
    <3>3. q = days
      BY <1>1, <2>2, <3>2 DEF Quot
    <3> QED
      BY <1>1, <2>2, <3>3 DEF Rem
  <2>3. CASE t < 0 /\ s > 0
    <3> DEFINE n == - t
               x == - days - 1
    <3>1. n \in Int /\ x \in Int
      BY <1>1
    <3>2. x * kSecondsPerDay = - p - kSecondsPerDay
      BY <1>1
    <3>3. x * kSecondsPerDay <= n /\ n < x * kSecondsPerDay + kSecondsPerDay
      <4> DEFINE w == x * kSecondsPerDay
      <4>1. w = - p - kSecondsPerDay
        BY <3>2
      <4> HIDE DEF p, w
      <4>2. w <= n /\ n < w + kSecondsPerDay
        BY <1>1, <2>3, <4>1
      <4> QED
        BY <4>2 DEF w
    <3>4. n \div kSecondsPerDay = x
      <4> HIDE DEF n, x
      <4> QED
        BY <1>1, <3>1, <3>3, Quotient
    <3>5. q = days + 1
      BY <1>1, <2>3, <3>4 DEF Quot
    <3>6. (days + 1) * kSecondsPerDay = p + kSecondsPerDay
      BY <1>1
    <3>7. Rem(t, kSecondsPerDay) = t - (days + 1) * kSecondsPerDay
      BY <3>5 DEF Rem
    <3>8. Rem(t, kSecondsPerDay) = s - kSecondsPerDay
      <4> DEFINE w == (days + 1) * kSecondsPerDay
      <4>1. w = p + kSecondsPerDay /\ Rem(t, kSecondsPerDay) = t - w
        BY <3>6, <3>7
      <4> HIDE DEF p, w
      <4> QED
        BY <1>1, <4>1
    <3> QED
      BY <2>3, <3>5, <3>8
  <2> QED
    BY <1>1, <2>1, <2>2, <2>3
<1> HIDE DEF p, t, q
<1>3. Split(t) = [seconds |-> s, days |-> days]
  BY <1>1, <1>2 DEF Split, q
<1> QED
  BY <1>3 DEF t, p

(* The Julian day number of 1 January 1970.                                *)
LEMMA Epoch == kJulianDayOf1970_01_01 = 2440588
BY DEF kJulianDayOf1970_01_01, getJulianDayNumber, LeapDays, Quot

(* Every second from the first of FirstYear on has a day, and a date. *)
DayAt(t, days, s, b, d, m, k) ==
  /\ days \in Int /\ s \in Nat /\ s < kSecondsPerDay
  /\ t = days * kSecondsPerDay + s
  /\ days + 2440588 >= 0
  /\ IsDate(b, d, m, k)
  /\ days + 2440588 = DayCount(b, d, m, k) - 32044

(* The first second is the beginning of a day, and not before Julian day 0. *)
LEMMA FirstDay ==
  /\ getJulianDayNumber(FirstYear, 1, 1) \in Nat
  /\ FirstSecond = (getJulianDayNumber(FirstYear, 1, 1) - 2440588) * kSecondsPerDay
<1> DEFINE y == FirstYear + 4799
           j == getJulianDayNumber(FirstYear, 1, 1)
<1>0. FirstYear \in Int /\ FirstYear >= -4712 /\ kSecondsPerDay \in Nat /\ kSecondsPerDay > 0
  BY CalendarAssumption
<1>1. y \in Nat /\ y >= 87
  BY <1>0
<1>2. j = 0 + MonthStart(10) + 365 * y + (y \div 4 - y \div 100 + y \div 400) - 32044
  <2>1. 0 + 1 = 1 /\ FirstYear = y - 4799
    BY <1>0
  <2> HIDE DEF y, j
  <2>2. getJulianDayNumber(FirstYear, 1, 0 + 1)
          = 0 + MonthStart(10) + 365 * y + (y \div 4 - y \div 100 + y \div 400) - 32044
    BY <1>1, <2>1, JulianShifted
  <2> QED
    BY <2>1, <2>2 DEF j
<1>3. MonthStart(10) = 306
  BY DEF MonthStart
<1>4. j \in Nat
  <2> HIDE DEF y, j
  <2>1. y \div 4 \in Int /\ y \div 100 \in Int /\ y \div 400 \in Nat /\ y \div 4 - y \div 100 >= 0
    BY <1>1
  <2> QED
    BY <1>1, <1>2, <1>3, <2>1
<1>5. FirstSecond = (j - 2440588) * kSecondsPerDay
  <2>1. (FirstYear - 1900) + 1900 = FirstYear /\ 0 + 1 = 1
    BY <1>0
  <2>2. fromUtcTime([year |-> FirstYear - 1900, month |-> 0, day |-> 1, seconds |-> 0])
          = (j - 2440588) * kSecondsPerDay + 0
    BY <2>1, Epoch DEF fromUtcTime
  <2>3. (j - 2440588) * kSecondsPerDay \in Int
    BY <1>0, <1>4
  <2> QED
    BY <2>2, <2>3 DEF FirstSecond
<1> QED
  BY <1>4, <1>5

(* Every second from the first one on has a day and a date.                *)
LEMMA HasDay ==
  ASSUME NEW t \in Int, t >= FirstSecond
  PROVE  \E days, s, b, d, m, k : DayAt(t, days, s, b, d, m, k)
<1>0. kSecondsPerDay \in Nat /\ kSecondsPerDay > 0
  BY CalendarAssumption
<1> DEFINE days == t \div kSecondsPerDay
           s    == t - days * kSecondsPerDay
           first == getJulianDayNumber(FirstYear, 1, 1) - 2440588
<1>1. /\ days \in Int /\ s \in Nat /\ s < kSecondsPerDay
      /\ t = days * kSecondsPerDay + s
  BY <1>0, Divide
<1>2. first \in Int /\ first + 2440588 >= 0 /\ t >= first * kSecondsPerDay
  BY FirstDay
<1> HIDE DEF days, s, first
<1>3. days >= first
  <2> SUFFICES ASSUME days + 1 <= first PROVE FALSE
    BY <1>1, <1>2
  <2>1. (days + 1) * kSecondsPerDay <= first * kSecondsPerDay
    BY <1>0, <1>1, <1>2
  <2>2. (days + 1) * kSecondsPerDay = days * kSecondsPerDay + kSecondsPerDay
    BY <1>0, <1>1
  <2> QED
    BY <1>0, <1>1, <1>2, <2>1, <2>2
<1>4. (days + 2440588) + 32044 \in Nat /\ days + 2440588 >= 0
  BY <1>1, <1>2, <1>3
<1>5. PICK b, d, m, k : IsDate(b, d, m, k) /\ (days + 2440588) + 32044 = DayCount(b, d, m, k)
  BY <1>4, HasDate
<1>6. days + 2440588 = DayCount(b, d, m, k) - 32044
  BY <1>1, <1>5
<1>7. DayAt(t, days, s, b, d, m, k)
  BY <1>1, <1>4, <1>5, <1>6 DEF DayAt
<1> QED
  BY <1>7

(* toUtcTime makes of a second what its day and date say.                  *)
LEMMA ToUtc ==
  ASSUME NEW t, NEW days, NEW s, NEW b, NEW d, NEW m, NEW k, DayAt(t, days, s, b, d, m, k)
  PROVE  LET date   == Date(b, d, m, k)
             julian == days + 2440588
         IN  toUtcTime(t) =
               [year |-> date.year - 1900, month |-> date.month - 1, day |-> date.day,
                wday |-> (julian + 1) % 7, yday |-> julian - getJulianDayNumber(date.year, 1, 1),
                seconds |-> s]
<1>1. Split(t) = [seconds |-> s, days |-> days]
  BY SplitOf DEF DayAt
<1>2. getYearMonthDay(days + 2440588) = Date(b, d, m, k)
  BY DateOf DEF DayAt
<1>3. weekDay(days + 2440588) = ((days + 2440588) + 1) % 7
  <2>1. ASSUME NEW x \in Nat PROVE weekDay(x) = (x + 1) % 7
    <3>1. Rem(x + 1, 7) = (x + 1) - ((x + 1) \div 7) * 7
      BY DEF Rem, Quot
    <3> QED
      BY <3>1 DEF weekDay
  <2>2. days + 2440588 \in Nat
    BY DEF DayAt
  <2> QED
    BY <2>1, <2>2
<1> QED
  BY <1>1, <1>2, <1>3, Epoch DEF toUtcTime

(* The fields of a date have their types.                                  *)
LEMMA DateTypes ==
  ASSUME NEW b, NEW d, NEW m, NEW k, IsDate(b, d, m, k)
  PROVE  LET date == Date(b, d, m, k)
         IN  date.year \in Int /\ date.month \in 1 .. 12 /\ date.day \in Nat /\ DayCount(b, d, m, k) \in Int
<1>1. b \in Nat /\ d \in Nat /\ m \in Nat /\ m <= 11 /\ k \in Nat
  BY DEF IsDate
<1>2. DayCount(b, d, m, k) \in Int
  BY DateOf
<1> QED
  BY <1>1, <1>2 DEF Date

(* fromUtcTime undoes toUtcTime in every second.                           *)
LEMMA BackAndForth ==
  ASSUME NEW t \in Int, t >= FirstSecond
  PROVE  fromUtcTime(toUtcTime(t)) = t
<1>1. PICK days, s, b, d, m, k : DayAt(t, days, s, b, d, m, k)
  BY HasDay
<1> DEFINE date == Date(b, d, m, k)
           tm   == toUtcTime(t)
<1>2. tm.year = date.year - 1900 /\ tm.month = date.month - 1 /\ tm.day = date.day /\ tm.seconds = s
  BY <1>1, ToUtc
<1>3. getJulianDayNumber(date.year, date.month, date.day) = days + 2440588
  BY <1>1, JulianOf DEF DayAt
<1>4. date.year \in Int /\ date.month \in 1 .. 12
  BY <1>1, DateTypes DEF DayAt
<1>5. days \in Int /\ s \in Nat /\ t = days * kSecondsPerDay + s
  BY <1>1 DEF DayAt
<1> HIDE DEF date, tm
<1>6. tm.year + 1900 = date.year /\ tm.month + 1 = date.month
  BY <1>2, <1>4
<1>7. getJulianDayNumber(tm.year + 1900, tm.month + 1, tm.day) - kJulianDayOf1970_01_01 = days
  BY <1>2, <1>3, <1>5, <1>6, Epoch
<1> QED
  BY <1>2, <1>5, <1>7 DEF fromUtcTime, tm

(* What toUtcTime makes of the epoch.                                      *)
LEMMA EpochDay == toUtcTime(0).wday = 4 /\ toUtcTime(0).year = 70 /\ toUtcTime(0).yday = 0
<1>1. IsDate(67, 69, 10, 0) /\ DayCount(67, 69, 10, 0) = 2440588 + 32044
  BY DEF IsDate, DayCount, InYear, MonthLength, MonthStart
<1>2. Date(67, 69, 10, 0).year = 1970
  BY DEF Date
<1>3. DayAt(0, 0, 0, 67, 69, 10, 0)
  BY <1>1, CalendarAssumption DEF DayAt
<1>4. /\ toUtcTime(0).wday = ((0 + 2440588) + 1) % 7 /\ toUtcTime(0).year = 1970 - 1900
      /\ toUtcTime(0).yday = (0 + 2440588) - getJulianDayNumber(1970, 1, 1)
  BY <1>2, <1>3, ToUtc
<1> QED
  BY <1>4, Epoch DEF kJulianDayOf1970_01_01

(* toUtcTime of the next second is the next second of the calendar.        *)
LEMMA NextTime ==
  ASSUME NEW t \in Int, t >= FirstSecond
  PROVE  toUtcTime(t + 1) = NextSecond(toUtcTime(t))
<1>1. PICK days, s, b, d, m, k : DayAt(t, days, s, b, d, m, k)
  BY HasDay
<1>0. kSecondsPerDay \in Nat /\ kSecondsPerDay > 0
  BY CalendarAssumption
<1> DEFINE date   == Date(b, d, m, k)
           julian == days + 2440588
           tm     == toUtcTime(t)
<1>2. tm = [year |-> date.year - 1900, month |-> date.month - 1, day |-> date.day,
            wday |-> (julian + 1) % 7, yday |-> julian - getJulianDayNumber(date.year, 1, 1),
            seconds |-> s]
  BY <1>1, ToUtc
<1>3. /\ days \in Int /\ s \in Nat /\ s < kSecondsPerDay /\ t = days * kSecondsPerDay + s
      /\ julian \in Nat /\ IsDate(b, d, m, k) /\ julian = DayCount(b, d, m, k) - 32044
  BY <1>1 DEF DayAt
<1>4. date.year \in Int /\ date.month \in 1 .. 12 /\ date.day \in Nat
  BY <1>3, DateTypes
<1>5. (date.year - 1900) + 1900 = date.year
  BY <1>4
<1>a. getJulianDayNumber(date.year, 1, 1) \in Int
  BY <1>4 DEF getJulianDayNumber, LeapDays, Quot
<1>6. CASE s + 1 < kSecondsPerDay
  <2>1. t + 1 = days * kSecondsPerDay + (s + 1)
    BY <1>0, <1>3
  <2>2. DayAt(t + 1, days, s + 1, b, d, m, k)
    BY <1>3, <1>6, <2>1 DEF DayAt
  <2>3. toUtcTime(t + 1) =
          [year |-> date.year - 1900, month |-> date.month - 1, day |-> date.day,
           wday |-> (julian + 1) % 7, yday |-> julian - getJulianDayNumber(date.year, 1, 1),
           seconds |-> s + 1]
    BY <2>2, ToUtc
  <2>4. s # kSecondsPerDay - 1 /\ (s + 1) % kSecondsPerDay = s + 1
    BY <1>0, <1>3, <1>6
  <2>5. /\ (date.year - 1900) + 0 = date.year - 1900 /\ date.day + 0 = date.day
        /\ (julian - getJulianDayNumber(date.year, 1, 1)) + 0 = julian - getJulianDayNumber(date.year, 1, 1)
    BY <1>3, <1>4, <1>a
  <2> HIDE DEF date, julian, tm
  <2>6. NextSecond(tm) = [year |-> (date.year - 1900) + 0, month |-> date.month - 1, day |-> date.day + 0,
           wday |-> (julian + 1) % 7, yday |-> (julian - getJulianDayNumber(date.year, 1, 1)) + 0,
           seconds |-> (s + 1) % kSecondsPerDay]
    BY <1>2, <2>4 DEF NextSecond
  <2> QED
    BY <2>3, <2>4, <2>5, <2>6 DEF tm
<1>7. CASE s + 1 = kSecondsPerDay
  <2>1. PICK b2, d2, m2, k2 : NextDay(b, d, m, k, b2, d2, m2, k2)
    BY <1>3, HasNextDay
  <2> DEFINE date2 == Date(b2, d2, m2, k2)
  <2>2. IsDate(b2, d2, m2, k2) /\ DayCount(b2, d2, m2, k2) = DayCount(b, d, m, k) + 1
    BY <2>1 DEF NextDay
  <2>3. t + 1 = (days + 1) * kSecondsPerDay + 0
    <3>1. (days + 1) * kSecondsPerDay = days * kSecondsPerDay + kSecondsPerDay /\ days * kSecondsPerDay \in Int
      BY <1>0, <1>3
    <3> DEFINE x == days * kSecondsPerDay
               z == (days + 1) * kSecondsPerDay
    <3>2. t = x + s /\ z = x + kSecondsPerDay /\ x \in Int
      BY <1>3, <3>1
    <3> HIDE DEF x, z
    <3>3. t + 1 = z + 0
      BY <1>0, <1>3, <1>7, <3>2
    <3> QED
      BY <3>3 DEF z
  <2>4. DayAt(t + 1, days + 1, 0, b2, d2, m2, k2)
    <3>1. DayCount(b, d, m, k) \in Int
      BY <1>3, DateTypes
    <3> QED
      BY <1>0, <1>3, <2>2, <2>3, <3>1 DEF DayAt
  <2>5. toUtcTime(t + 1) =
          [year |-> date2.year - 1900, month |-> date2.month - 1, day |-> date2.day,
           wday |-> (((days + 1) + 2440588) + 1) % 7,
           yday |-> ((days + 1) + 2440588) - getJulianDayNumber(date2.year, 1, 1),
           seconds |-> 0]
    BY <2>4, ToUtc
  <2>6. date2.year \in Int /\ date2.month \in 1 .. 12
    BY <2>2, DateTypes
  <2>7. (days + 1) + 2440588 = julian + 1 /\ ((julian + 1) + 1) % 7 = (((julian + 1) % 7) + 1) % 7
    BY <1>3
  <2>8. s = kSecondsPerDay - 1 /\ (s + 1) % kSecondsPerDay = 0
    BY <1>0, <1>3, <1>7
  <2> DEFINE lastOfMonth == date.day = DaysOf(date.month - 1, date.year)
             lastOfYear  == lastOfMonth /\ date.month = 12
  <2>9. /\ lastOfMonth \/ (date2.day = date.day + 1 /\ date2.month = date.month /\ date2.year = date.year)
        /\ ~ lastOfMonth \/ (date2.day = 1 /\ IF date.month = 12
                                              THEN date2.month = 1 /\ date2.year = date.year + 1
                                              ELSE date2.month = date.month + 1 /\ date2.year = date.year)
    BY <2>1 DEF NextDay
  <2>10. lastOfYear => (julian + 1) - getJulianDayNumber(date2.year, 1, 1) = 0
    <3> SUFFICES ASSUME lastOfYear PROVE (julian + 1) - getJulianDayNumber(date2.year, 1, 1) = 0
      OBVIOUS
    <3>1. date2.month = 1 /\ date2.day = 1
      BY <2>9
    <3>2. getJulianDayNumber(date2.year, date2.month, date2.day) = DayCount(b2, d2, m2, k2) - 32044
      BY <2>2, JulianOf
    <3>3. DayCount(b2, d2, m2, k2) - 32044 = julian + 1
      BY <1>3, <2>2, <2>4, <2>7 DEF DayAt
    <3> QED
      BY <1>3, <3>1, <3>2, <3>3
  <2> HIDE DEF date, date2, julian, tm
  <2>11. NextSecond(tm) =
          [year |-> (date.year - 1900) + IF lastOfYear THEN 1 ELSE 0,
           month |-> IF lastOfMonth THEN ((date.month - 1) + 1) % 12 ELSE date.month - 1,
           day |-> IF lastOfMonth THEN 1 ELSE date.day + 1,
           wday |-> (((julian + 1) % 7) + 1) % 7,
           yday |-> IF lastOfYear THEN 0 ELSE (julian - getJulianDayNumber(date.year, 1, 1)) + 1,
           seconds |-> (s + 1) % kSecondsPerDay]
    <3>1. date.month - 1 = 11 <=> date.month = 12
      BY <1>4
    <3> QED
      BY <1>2, <1>5, <2>8, <3>1 DEF NextSecond
  <2>12. /\ date2.year - 1900 = (date.year - 1900) + IF lastOfYear THEN 1 ELSE 0
         /\ date2.month - 1 = IF lastOfMonth THEN ((date.month - 1) + 1) % 12 ELSE date.month - 1
         /\ date2.day = IF lastOfMonth THEN 1 ELSE date.day + 1
    BY <1>4, <2>6, <2>9
  <2>13. (julian + 1) - getJulianDayNumber(date2.year, 1, 1)
           = IF lastOfYear THEN 0 ELSE (julian - getJulianDayNumber(date.year, 1, 1)) + 1
    <3>1. ~ lastOfYear => date2.year = date.year
      BY <2>9
    <3> QED
      BY <1>3, <1>a, <2>10, <3>1
  <2> QED
    BY <2>5, <2>7, <2>8, <2>11, <2>12, <2>13 DEF tm
<1> QED
  BY <1>0, <1>3, <1>6, <1>7

(* The clock is never before the first second, and utc is what toUtcTime   *)
(* has made of it.                                                         *)
CalendarInv == clock \in Int /\ clock >= FirstSecond /\ utc = toUtcTime(clock)

(* The clock never leaves the seconds the lemmas are about.                *)
THEOREM CalendarInvariance == CalendarSpec => []CalendarInv
<1>1. CalendarInit => CalendarInv
  <2>1. FirstSecond \in Int
    BY FirstDay, CalendarAssumption
  <2> QED
    BY <2>1 DEF CalendarInit, CalendarInv
<1>2. CalendarInv /\ [CalendarTick]_calendarVars => CalendarInv'
  <2>1. FirstSecond \in Int
    BY FirstDay, CalendarAssumption
  <2> QED
    BY <2>1 DEF CalendarInv, CalendarTick, calendarVars
<1> QED
  BY <1>1, <1>2, PTL DEF CalendarSpec

(* In every second of any years, before or after the epoch, toUtcTime and  *)
(* fromUtcTime agree, and the epoch is a Thursday.                         *)
THEOREM ConvertsBack == CalendarSpec => []UtcRoundTrip
<1>1. CalendarInv => UtcRoundTrip
  BY BackAndForth, EpochDay DEF CalendarInv, UtcRoundTrip
<1> QED
  BY <1>1, CalendarInvariance, PTL

(* Every tick of the clock moves what toUtcTime shows as the Gregorian     *)
(* calendar moves, over the ends of months, years and centuries.           *)
THEOREM GregorianTicks == CalendarSpec => CalendarTicks
<1>1. CalendarInv /\ [CalendarTick]_calendarVars => [utc' = NextSecond(utc)]_calendarVars
  BY NextTime DEF CalendarInv, CalendarTick, calendarVars
<1> QED
  BY <1>1, CalendarInvariance, PTL DEF CalendarSpec, CalendarTicks

-----------------------------------------------------------------------------
(* Stamps: for any threads, zone files, clocks and settings of the zone.   *)

Ascends(key, n) == \A i, j \in 1 .. n : i < j => key[i] < key[j]

(* k is the last of the n keys that is not above x. *)
LastNotAbove(key, n, x, k) ==
  k \in 1 .. n /\ key[k] <= x /\ \A i \in 1 .. n : key[i] <= x <=> i <= k

(* A set of natural numbers has a least element.                           *)
LEMMA LeastNatural ==
  ASSUME NEW T \in SUBSET Nat, T # {}
  PROVE  \E x \in T : \A y \in T : x <= y
<1>1. PICK x \in T : \A y \in T : ~ (<<y, x>> \in OpToRel(<, Nat))
  BY NatLessThanWellFounded, WFMin
<1>2. \A y \in T : ~ (y < x)
  BY <1>1 DEF OpToRel
<1> QED
  BY <1>2

(* Of sorted keys, either all are above x or there is a last that is not.  *)
LEMMA HasLast ==
  ASSUME NEW n \in Nat, NEW key \in [1 .. n -> Int], Ascends(key, n), NEW x \in Int
  PROVE  (\A i \in 1 .. n : x < key[i]) \/ \E k : LastNotAbove(key, n, x, k)
<1> SUFFICES ASSUME ~ \A i \in 1 .. n : x < key[i]
             PROVE  \E k : LastNotAbove(key, n, x, k)
  OBVIOUS
<1>1. PICK a \in 1 .. n : key[a] <= x
  OBVIOUS
<1> DEFINE T == {k \in 1 .. n : \A i \in 1 .. n : key[i] <= x => i <= k}
<1>2. n \in T
  BY <1>1
<1>3. PICK k \in T : \A l \in T : k <= l
  <2>1. T \in SUBSET Nat /\ T # {}
    BY <1>2
  <2> HIDE DEF T
  <2> QED
    BY <2>1, LeastNatural
<1>4. key[k] <= x
  <2> SUFFICES ASSUME ~ (key[k] <= x) PROVE FALSE
    OBVIOUS
  <2>1. \A i \in 1 .. n : key[i] <= x => i <= k - 1
    BY <1>3
  <2>2. k - 1 \in 1 .. n
    BY <1>1, <1>3, <2>1
  <2>3. k - 1 \in T
    BY <2>1, <2>2
  <2>4. k <= k - 1 /\ k \in Int
    <3>1. k \in Int
      BY <1>3
    <3> HIDE DEF T
    <3> QED
      BY <1>3, <2>3, <3>1
  <2> QED
    BY <2>4
<1>5. \A i \in 1 .. n : i <= k => key[i] <= x
  BY <1>3, <1>4 DEF Ascends
<1>6. LastNotAbove(key, n, x, k)
  BY <1>3, <1>4, <1>5 DEF LastNotAbove
<1> QED
  BY <1>6

(* findLocaltime before the first key, or without any.                     *)
LEMMA FindsFirst ==
  ASSUME NEW data, NEW key, NEW x,
         Len(data.transitions) = 0 \/ x < key[1]
  PROVE  findLocaltime(data, key, x) = SubSeq(data.localtimes, 1, 1)
BY DEF findLocaltime

(* lower_bound and the step back from it find the last key that is not     *)
(* above the sought one.                                                   *)
LEMMA FindsLast ==
  ASSUME NEW data, NEW n \in Nat, Len(data.transitions) = n,
         NEW key \in [1 .. n -> Int], Ascends(key, n), NEW x \in Int, NEW k, LastNotAbove(key, n, x, k)
  PROVE  findLocaltime(data, key, x) = <<data.localtimes[data.transitions[k].localtimeIdx]>>
<1> DEFINE before == {i \in 1 .. n : key[i] < x}
           lower  == Cardinality(before) + 1
           found  == IF lower > n THEN n
                     ELSE IF EqualsSought(key[lower], x) THEN lower ELSE lower - 1
<1>0. k \in 1 .. n /\ key[k] <= x /\ \A i \in 1 .. n : key[i] <= x <=> i <= k
  BY DEF LastNotAbove
<1>1. ~ (n = 0 \/ x < key[1])
  BY <1>0
<1>2. CASE key[k] = x
  <2>1. before = 1 .. k - 1
    BY <1>0, <1>2 DEF Ascends
  <2>2. Cardinality(1 .. k - 1) = k - 1
    BY <1>0, FS_Interval
  <2>3. lower = k
    <3> HIDE DEF before
    <3> QED
      BY <1>0, <2>1, <2>2
  <2> HIDE DEF lower
  <2>4. found = k
    BY <1>0, <1>2, <2>3 DEF EqualsSought
  <2> HIDE DEF found
  <2> QED
    BY <1>1, <2>4 DEF findLocaltime, found, lower
<1>3. CASE key[k] # x
  <2>1. before = 1 .. k
    BY <1>0, <1>3 DEF Ascends
  <2>2. Cardinality(1 .. k) = k
    BY <1>0, FS_Interval
  <2>3. lower = k + 1
    <3> HIDE DEF before
    <3> QED
      BY <1>0, <2>1, <2>2
  <2> HIDE DEF lower
  <2>4. found = k
    BY <1>0, <2>3 DEF EqualsSought
  <2> HIDE DEF found
  <2> QED
    BY <1>1, <2>4 DEF findLocaltime, found, lower
<1> QED
  BY <1>2, <1>3

-----------------------------------------------------------------------------
(* A complete file, as readTimeZoneFile keeps it. *)

At(f, i)     == f.trans[i].at
Whole(f)     == readTimeZoneFile(f, Len(f.types) + 1)

(* The elements of a sequence.                                             *)
LEMMA Elements ==
  ASSUME NEW S, NEW s \in Seq(S)
  PROVE  \A i \in 1 .. Len(s) : s[i] \in S
OBVIOUS

(* What WellFormed says of the parts of a file.                            *)
LEMMA FileTypes ==
  ASSUME NEW f, WellFormed(f)
  PROVE  /\ Len(f.trans) \in Nat /\ DOMAIN f.trans = 1 .. Len(f.trans)
         /\ Len(f.types) \in Nat \ {0} /\ DOMAIN f.types = 1 .. Len(f.types)
         /\ \A i \in 1 .. Len(f.types) : f.types[i] \in Types
         /\ \A i \in 1 .. Len(f.trans) : At(f, i) \in Int /\ f.trans[i].idx \in 1 .. Len(f.types)
         /\ \A i \in 0 .. Len(f.trans) : TypeAfter(f, i) \in Types
         /\ \A i \in 1 .. Len(f.trans) : LocalStart(f, i) = At(f, i) + TypeAfter(f, i).gmtOffset
         /\ \A i \in 1 .. Len(f.trans) : LocalStart(f, i) \in Int
<1>1. /\ f.types \in Seq(Types) /\ f.types # <<>>
      /\ f.trans \in Seq([at : Int, idx : DOMAIN f.types])
  BY DEF WellFormed
<1>2. Len(f.trans) \in Nat /\ DOMAIN f.trans = 1 .. Len(f.trans)
  BY <1>1
<1>3. Len(f.types) \in Nat \ {0} /\ DOMAIN f.types = 1 .. Len(f.types)
  BY <1>1
<1>4. \A i \in 1 .. Len(f.types) : f.types[i] \in Types
  BY <1>1
<1>5. \A i \in 1 .. Len(f.trans) : f.trans[i] \in [at : Int, idx : 1 .. Len(f.types)]
  <2> DEFINE S == [at : Int, idx : DOMAIN f.types]
  <2>1. f.trans \in Seq(S) /\ S = [at : Int, idx : 1 .. Len(f.types)]
    BY <1>1, <1>3
  <2> HIDE DEF S
  <2>2. \A i \in 1 .. Len(f.trans) : f.trans[i] \in S
    BY <2>1, Elements
  <2> QED
    BY <2>1, <2>2
<1>6. \A i \in 1 .. Len(f.trans) : At(f, i) \in Int /\ f.trans[i].idx \in 1 .. Len(f.types)
  BY <1>5 DEF At
<1>7. \A i \in 0 .. Len(f.trans) : TypeAfter(f, i) \in Types
  BY <1>2, <1>3, <1>4, <1>6 DEF TypeAfter
<1>8. \A i \in 1 .. Len(f.trans) : LocalStart(f, i) = At(f, i) + TypeAfter(f, i).gmtOffset
  BY DEF LocalStart, At
<1>9. \A i \in 1 .. Len(f.trans) : LocalStart(f, i) \in Int
  BY <1>2, <1>6, <1>7, <1>8 DEF Types
<1> QED
  BY <1>2, <1>3, <1>4, <1>6, <1>7, <1>8, <1>9

(* What readTimeZoneFile keeps of a complete file.                         *)
LEMMA WholeFile ==
  ASSUME NEW f, WellFormed(f)
  PROVE  /\ Whole(f).localtimes \in Seq(Types) /\ Len(Whole(f).localtimes) = Len(f.types)
         /\ \A i \in 1 .. Len(f.types) : Whole(f).localtimes[i] = f.types[i]
         /\ Len(Whole(f).transitions) = Len(f.trans)
         /\ DOMAIN Whole(f).transitions = 1 .. Len(f.trans)
         /\ \A i \in 1 .. Len(f.trans) : Whole(f).transitions[i].gmttime = At(f, i)
         /\ \A i \in 1 .. Len(f.trans) : Whole(f).transitions[i].localtime = LocalStart(f, i)
         /\ \A i \in 1 .. Len(f.trans) : Whole(f).transitions[i].localtimeIdx = f.trans[i].idx
         /\ Whole(f).transitions \in Seq(Transitions)
<1> DEFINE n == Len(f.types)
           trs == [i \in DOMAIN f.trans |->
                     LET tr == f.trans[i]
                     IN  [gmttime |-> tr.at, localtimeIdx |-> tr.idx,
                          localtime |-> tr.at + f.types[tr.idx].gmtOffset]]
<1>0. /\ Len(f.trans) \in Nat /\ DOMAIN f.trans = 1 .. Len(f.trans)
      /\ n \in Nat \ {0} /\ DOMAIN f.types = 1 .. n
      /\ \A i \in 1 .. n : f.types[i] \in Types
      /\ \A i \in 1 .. Len(f.trans) : At(f, i) \in Int /\ f.trans[i].idx \in 1 .. n
      /\ \A i \in 1 .. Len(f.trans) : LocalStart(f, i) \in Int
  BY FileTypes
<1>1. (n + 1) - 1 = n /\ ~ (n + 1 <= n)
  BY <1>0
<1>2. Whole(f).localtimes = SubSeq(f.types, 1, n) /\ Whole(f).transitions = trs
  BY <1>1 DEF Whole, readTimeZoneFile
<1>3. f.types \in Seq(Types)
  BY DEF WellFormed
<1>4. /\ SubSeq(f.types, 1, n) \in Seq(Types) /\ Len(SubSeq(f.types, 1, n)) = n
      /\ \A i \in 1 .. n : SubSeq(f.types, 1, n)[i] = f.types[i]
  BY <1>0, <1>3
<1>5. \A i \in 1 .. Len(f.trans) :
        trs[i] = [gmttime |-> At(f, i), localtimeIdx |-> f.trans[i].idx, localtime |-> LocalStart(f, i)]
  <2>1. \A i \in 1 .. Len(f.trans) : i # 0
    OBVIOUS
  <2> QED
    BY <1>0, <2>1 DEF At, LocalStart, TypeAfter
<1>6. DOMAIN trs = 1 .. Len(f.trans)
  BY <1>0
<1>7. \A i \in 1 .. Len(f.trans) : trs[i] \in Transitions
  <2> HIDE DEF trs, n
  <2> SUFFICES ASSUME NEW i \in 1 .. Len(f.trans)
               PROVE  [gmttime |-> At(f, i), localtimeIdx |-> f.trans[i].idx, localtime |-> LocalStart(f, i)]
                        \in Transitions
    BY <1>5
  <2> QED
    BY <1>0 DEF Transitions
<1>8. trs \in Seq(Transitions) /\ Len(trs) = Len(f.trans)
  <2>1. trs \in [1 .. Len(f.trans) -> Transitions]
    <3>1. trs = [i \in 1 .. Len(f.trans) |-> trs[i]]
      BY <1>0
    <3> HIDE DEF trs
    <3> QED
      BY <1>7, <3>1
  <2> HIDE DEF trs
  <2> QED
    BY <1>0, <2>1
<1>9. \A i \in 1 .. Len(f.trans) :
        /\ trs[i].gmttime = At(f, i) /\ trs[i].localtime = LocalStart(f, i)
        /\ trs[i].localtimeIdx = f.trans[i].idx
  <2> SUFFICES ASSUME NEW i \in 1 .. Len(f.trans)
               PROVE  /\ trs[i].gmttime = At(f, i) /\ trs[i].localtime = LocalStart(f, i)
                      /\ trs[i].localtimeIdx = f.trans[i].idx
    OBVIOUS
  <2>1. trs[i] = [gmttime |-> At(f, i), localtimeIdx |-> f.trans[i].idx, localtime |-> LocalStart(f, i)]
    BY <1>5
  <2> HIDE DEF trs
  <2> QED
    BY <2>1
<1> HIDE DEF trs, n
<1> QED
  BY <1>2, <1>4, <1>6, <1>8, <1>9 DEF n

(* Both conversions look in sorted times.                                  *)
LEMMA SortedTimes ==
  ASSUME NEW f, WellFormed(f)
  PROVE  /\ GmtTimes(Whole(f)) \in [1 .. Len(f.trans) -> Int]
         /\ \A i \in 1 .. Len(f.trans) : GmtTimes(Whole(f))[i] = At(f, i)
         /\ Ascends(GmtTimes(Whole(f)), Len(f.trans))
         /\ LocalTimes(Whole(f)) \in [1 .. Len(f.trans) -> Int]
         /\ \A i \in 1 .. Len(f.trans) : LocalTimes(Whole(f))[i] = LocalStart(f, i)
         /\ Ascends(LocalTimes(Whole(f)), Len(f.trans))
<1> DEFINE n == Len(f.trans)
<1>0. /\ n \in Nat /\ DOMAIN f.trans = 1 .. n
      /\ \A i \in 1 .. n : At(f, i) \in Int /\ LocalStart(f, i) \in Int
  BY FileTypes
<1>1. /\ DOMAIN Whole(f).transitions = 1 .. n
      /\ \A i \in 1 .. n : Whole(f).transitions[i].gmttime = At(f, i)
      /\ \A i \in 1 .. n : Whole(f).transitions[i].localtime = LocalStart(f, i)
  BY WholeFile
<1>2. \A i, j \in 1 .. n : i < j => At(f, i) < At(f, j) /\ LocalStart(f, i) < LocalStart(f, j)
  BY <1>0 DEF WellFormed, At
<1>3. GmtTimes(Whole(f)) = [i \in 1 .. n |-> At(f, i)]
  <2> HIDE DEF n
  <2> QED
    BY <1>1 DEF GmtTimes
<1>4. LocalTimes(Whole(f)) = [i \in 1 .. n |-> LocalStart(f, i)]
  <2> HIDE DEF n
  <2> QED
    BY <1>1 DEF LocalTimes
<1> HIDE DEF n
<1>5. Ascends(GmtTimes(Whole(f)), n) /\ Ascends(LocalTimes(Whole(f)), n)
  BY <1>2, <1>3, <1>4 DEF Ascends
<1> QED
  BY <1>0, <1>3, <1>4, <1>5 DEF n

(* What findLocaltime finds: the type after the last transition that is    *)
(* not after the sought time.                                              *)
Finds(f, key, x, i) ==
  \/ i = 0 /\ \A j \in 1 .. Len(f.trans) : x < key[j]
  \/ LastNotAbove(key, Len(f.trans), x, i)

(* findLocaltime has an answer for every time, the type after the last     *)
(* transition that is not after it.                                        *)
LEMMA FindsType ==
  ASSUME NEW f, WellFormed(f), NEW x \in Int, NEW key,
         key \in {GmtTimes(Whole(f)), LocalTimes(Whole(f))}
  PROVE  /\ \E i \in 0 .. Len(f.trans) : Finds(f, key, x, i)
         /\ \A i : Finds(f, key, x, i) => findLocaltime(Whole(f), key, x)[1] = TypeAfter(f, i)
<1> DEFINE n == Len(f.trans)
<1>0. /\ n \in Nat /\ Len(f.types) \in Nat \ {0}
      /\ \A i \in 1 .. n : f.trans[i].idx \in 1 .. Len(f.types)
  BY FileTypes
<1>1. key \in [1 .. n -> Int] /\ Ascends(key, n)
  BY SortedTimes
<1>2. /\ Whole(f).localtimes \in Seq(Types) /\ Len(Whole(f).localtimes) = Len(f.types)
      /\ \A i \in 1 .. Len(f.types) : Whole(f).localtimes[i] = f.types[i]
      /\ Len(Whole(f).transitions) = n
      /\ \A i \in 1 .. n : Whole(f).transitions[i].localtimeIdx = f.trans[i].idx
  BY WholeFile
<1>3. \E i \in 0 .. n : Finds(f, key, x, i)
  <2>1. (\A i \in 1 .. n : x < key[i]) \/ \E k : LastNotAbove(key, n, x, k)
    BY <1>0, <1>1, HasLast
  <2>2. 0 \in 0 .. n
    BY <1>0
  <2> QED
    BY <1>0, <2>1, <2>2 DEF Finds, LastNotAbove
<1>4. ASSUME NEW i, i = 0, \A j \in 1 .. n : x < key[j]
      PROVE  findLocaltime(Whole(f), key, x)[1] = TypeAfter(f, i)
  <2>1. Len(Whole(f).transitions) = 0 \/ x < key[1]
    BY <1>0, <1>2, <1>4
  <2>2. findLocaltime(Whole(f), key, x) = SubSeq(Whole(f).localtimes, 1, 1)
    BY <2>1, FindsFirst
  <2>3. SubSeq(Whole(f).localtimes, 1, 1)[1] = Whole(f).localtimes[1]
    BY <1>0, <1>2
  <2>4. Whole(f).localtimes[1] = f.types[1]
    BY <1>0, <1>2
  <2> QED
    BY <1>4, <2>2, <2>3, <2>4 DEF TypeAfter
<1>5. ASSUME NEW i, LastNotAbove(key, n, x, i)
      PROVE  findLocaltime(Whole(f), key, x)[1] = TypeAfter(f, i)
  <2> HIDE DEF n
  <2>1. findLocaltime(Whole(f), key, x) = <<Whole(f).localtimes[Whole(f).transitions[i].localtimeIdx]>>
    <3>1. n \in Nat /\ Len(Whole(f).transitions) = n
      BY <1>0, <1>2
    <3> DEFINE data == Whole(f)
    <3> HIDE DEF data
    <3>2. findLocaltime(data, key, x) = <<data.localtimes[data.transitions[i].localtimeIdx]>>
      BY <3>1, <1>1, <1>5, FindsLast DEF data
    <3> QED
      BY <3>2 DEF data
  <2>2. i \in 1 .. n /\ i # 0
    BY <1>5 DEF LastNotAbove
  <2>3. Whole(f).localtimes[Whole(f).transitions[i].localtimeIdx] = f.types[f.trans[i].idx]
    BY <1>0, <1>2, <2>2
  <2> QED
    BY <2>1, <2>2, <2>3 DEF TypeAfter
<1> QED
  BY <1>3, <1>4, <1>5 DEF Finds

(* This is the type by the file alone.                                     *)
LEMMA TypeAtFinds ==
  ASSUME WellFormed(zonefile), NEW x \in Int, NEW i, Finds(zonefile, GmtTimes(Whole(zonefile)), x, i)
  PROVE  TypeAt(x) = TypeAfter(zonefile, i)
<1> DEFINE n    == Len(zonefile.trans)
           key  == GmtTimes(Whole(zonefile))
           past == {j \in DOMAIN zonefile.trans : zonefile.trans[j].at <= x}
<1>0. DOMAIN zonefile.trans = 1 .. n /\ \A j \in 1 .. n : zonefile.trans[j].at \in Int
  BY FileTypes DEF At
<1>1. \A j \in 1 .. n : key[j] = zonefile.trans[j].at
  BY SortedTimes DEF At
<1> HIDE DEF n, key
<1>2. CASE i = 0 /\ \A j \in 1 .. n : x < key[j]
  <2>1. past = {}
    BY <1>0, <1>1, <1>2
  <2> QED
    BY <1>2, <2>1 DEF TypeAt, TypeIn
<1>3. CASE LastNotAbove(key, n, x, i)
  <2>1. i \in past /\ i \in 1 .. n
    BY <1>0, <1>1, <1>3 DEF LastNotAbove
  <2>2. \A j \in past : j <= i
    BY <1>0, <1>1, <1>3 DEF LastNotAbove
  <2>3. past \subseteq Int
    BY <1>0
  <2> HIDE DEF past
  <2>4. (CHOOSE l \in past : \A j \in past : j <= l) = i
    <3>1. \E l \in past : \A j \in past : j <= l
      BY <2>1, <2>2
    <3> DEFINE l == CHOOSE l \in past : \A j \in past : j <= l
    <3>2. l \in past /\ \A j \in past : j <= l
      BY <3>1
    <3> HIDE DEF l
    <3>3. l <= i /\ i <= l /\ l \in Int /\ i \in Int
      BY <2>1, <2>2, <2>3, <3>2
    <3>4. l = i
      BY <3>3
    <3> QED
      BY <3>4 DEF l
  <2>5. past # {} /\ i # 0
    BY <2>1
  <2>6. TypeAt(x) = TypeAfter(zonefile, IF past = {} THEN 0 ELSE CHOOSE l \in past : \A j \in past : j <= l)
    BY DEF TypeAt, TypeIn, past
  <2> QED
    BY <2>4, <2>5, <2>6
<1> QED
  BY <1>2, <1>3 DEF Finds, n, key

(* For a complete file, toLocalTime goes by the type that the file has.    *)
LEMMA ToLocal ==
  ASSUME WellFormed(zonefile), NEW x \in Int
  PROVE  /\ toLocalTime(Whole(zonefile), x)
              = [local |-> x + TypeAt(x).gmtOffset, isDst |-> TypeAt(x).isDst]
         /\ TypeAt(x) \in Types
<1> DEFINE key == GmtTimes(Whole(zonefile))
<1>1. PICK i \in 0 .. Len(zonefile.trans) : Finds(zonefile, key, x, i)
  BY FindsType
<1>2. findLocaltime(Whole(zonefile), key, x)[1] = TypeAfter(zonefile, i)
  BY <1>1, FindsType
<1>3. TypeAt(x) = TypeAfter(zonefile, i) /\ TypeAfter(zonefile, i) \in Types
  BY <1>1, TypeAtFinds, FileTypes
<1> QED
  BY <1>2, <1>3 DEF toLocalTime

(* The argument for the way back: the local time is looked up after the    *)
(* transition before the second, or after the next one, which is the end   *)
(* of daylight saving time; in the latter case an hour later, and local    *)
(* time without daylight saving then, shows the same.                      *)
LEMMA FromLocal ==
  ASSUME WellFormed(zonefile), now \in Int,
         \A i \in DOMAIN zonefile.trans : ComesAgainAfter(i) => EndsDaylightSaving(i)
  PROVE  fromLocalTime(Whole(zonefile), toLocalTime(Whole(zonefile), now)) = now
<1> DEFINE n    == Len(zonefile.trans)
           zone == Whole(zonefile)
           tm   == toLocalTime(zone, now)
           L    == now + TypeAt(now).gmtOffset
           at(j)    == At(zonefile, j)
           type(j)  == TypeAfter(zonefile, j)
           start(j) == LocalStart(zonefile, j)
<1>0. /\ n \in Nat /\ DOMAIN zonefile.trans = 1 .. n
      /\ \A j \in 1 .. n : at(j) \in Int /\ start(j) \in Int /\ start(j) = at(j) + type(j).gmtOffset
      /\ \A j \in 0 .. n : type(j).gmtOffset \in Int /\ type(j).isDst \in BOOLEAN
  BY FileTypes DEF Types
<1>1. /\ \A j \in 1 .. n : GmtTimes(zone)[j] = at(j)
      /\ \A j \in 1 .. n : LocalTimes(zone)[j] = start(j)
      /\ \A j, l \in 1 .. n : j < l => at(j) < at(l) /\ start(j) < start(l)
  BY SortedTimes DEF Ascends
<1>2. tm.local = L /\ tm.isDst = TypeAt(now).isDst /\ L \in Int
  BY ToLocal DEF Types
<1>3. PICK i \in 0 .. n : Finds(zonefile, GmtTimes(zone), now, i)
  BY FindsType
<1>4. TypeAt(now) = type(i)
  BY <1>3, TypeAtFinds
<1>5. PICK k \in 0 .. n : Finds(zonefile, LocalTimes(zone), L, k)
  BY <1>2, FindsType
<1>6. findLocaltime(zone, LocalTimes(zone), L)[1] = type(k)
  BY <1>2, <1>5, FindsType
<1>7. (i > 0 => at(i) <= now) /\ \A j \in 1 .. n : j > i => now < at(j)
  BY <1>0, <1>1, <1>3 DEF Finds, LastNotAbove
<1>8. (k > 0 => start(k) <= L) /\ \A j \in 1 .. n : j > k => L < start(j)
  <2> DEFINE keys == LocalTimes(zone)
  <2>1. k \in 0 .. n /\ n \in Nat /\ L \in Int
        /\ \A j \in 1 .. n : keys[j] = start(j) /\ start(j) \in Int
    BY <1>0, <1>1, <1>2
  <2>2. Finds(zonefile, keys, L, k)
    BY <1>5
  <2> HIDE DEF keys, start, L
  <2>3. CASE k = 0 /\ \A j \in 1 .. n : L < keys[j]
    BY <2>1, <2>3
  <2>4. CASE LastNotAbove(keys, n, L, k)
    BY <2>1, <2>4 DEF LastNotAbove
  <2> QED
    BY <2>2, <2>3, <2>4 DEF Finds
<1>a. type(i).gmtOffset \in Int /\ type(k).gmtOffset \in Int /\ L = now + type(i).gmtOffset
  BY <1>0, <1>4
<1>9. k >= i
  <2> SUFFICES ASSUME k < i PROVE FALSE
    BY <1>0
  <2>1. i \in 1 .. n /\ L < start(i) /\ at(i) <= now
    BY <1>0, <1>7, <1>8
  <2> HIDE DEF zone, tm, at, type, start
  <2> QED
    BY <1>0, <1>4, <2>1
<1>10. fromLocalTime(zone, tm)
         = (IF InRepeatedHour(zone, tm, type(k).gmtOffset) THEN L - Hour ELSE L) - type(k).gmtOffset
  BY <1>2, <1>6 DEF fromLocalTime
<1>11. CASE k = i
  <2>1. L - type(k).gmtOffset = now
    BY <1>0, <1>4, <1>11
  <2>2. ~ InRepeatedHour(zone, tm, type(k).gmtOffset)
    <3>1. toLocalTime(zone, tm.local - type(k).gmtOffset) = tm
      BY <1>2, <2>1
    <3> QED
      BY <3>1 DEF InRepeatedHour
  <2> QED
    BY <1>10, <2>1, <2>2
<1>12. CASE k > i
  <2>1. ASSUME NEW j \in 1 .. n, j > i, start(j) <= L
        PROVE  /\ type(j - 1).isDst /\ ~ type(j).isDst
               /\ type(j - 1).gmtOffset - type(j).gmtOffset = Hour
               /\ j < n => at(j) + Hour <= at(j + 1)
    <3>1. ComesAgainAfter(j)
      BY <1>7, <2>1 DEF ComesAgainAfter, At
    <3>2. EndsDaylightSaving(j)
      BY <1>0, <3>1
    <3> QED
      BY <3>2 DEF EndsDaylightSaving, At
  <2>2. i + 1 \in 1 .. n /\ k \in 1 .. n /\ start(i + 1) <= L
    <3>1. i + 1 \in 1 .. n /\ k \in 1 .. n
      BY <1>0, <1>12
    <3>2. start(k) <= L /\ (i + 1 = k \/ start(i + 1) < start(k))
      BY <1>0, <1>1, <1>8, <1>12, <3>1
    <3>3. start(i + 1) \in Int /\ start(k) \in Int
      BY <1>0, <3>1
    <3> HIDE DEF start, L
    <3> QED
      BY <1>2, <3>1, <3>2, <3>3
  <2>3. ~ type(i + 1).isDst
    BY <2>1, <2>2
  <2>4. k = i + 1
    <3> SUFFICES ASSUME k > i + 1 PROVE FALSE
      BY <1>0, <1>12
    <3>a. i + 2 \in 1 .. n /\ k \in 1 .. n /\ i + 2 > i /\ (i + 2) - 1 = i + 1
      BY <1>0, <1>12
    <3>b. start(k) <= L /\ (i + 2 = k \/ start(i + 2) < start(k))
      BY <1>0, <1>1, <1>8, <3>a
    <3>c. start(i + 2) \in Int /\ start(k) \in Int
      BY <1>0, <3>a
    <3>1. i + 2 \in 1 .. n /\ start(i + 2) <= L /\ i + 2 > i /\ (i + 2) - 1 = i + 1
      <4> HIDE DEF start, L
      <4> QED
        BY <1>2, <3>a, <3>b, <3>c
    <3>2. type((i + 2) - 1).isDst
      BY <2>1, <3>1
    <3> QED
      BY <2>3, <3>1, <3>2
  <2>5. /\ type(i).isDst /\ type(i).gmtOffset - type(k).gmtOffset = Hour /\ ~ type(k).isDst
        /\ k < n => at(k) + Hour <= at(k + 1)
    <3>1. (i + 1) - 1 = i /\ i + 1 > i
      BY <1>0
    <3> QED
      BY <2>1, <2>2, <2>4, <3>1
  <2>6. Hour \in Int /\ Hour > 0
    BY TimeZoneAssumption
  <2> DEFINE later == L - type(k).gmtOffset
  <2>7. later = now + Hour /\ later \in Int
    <3> HIDE DEF type, L
    <3> QED
      BY <1>a, <2>5, <2>6
  <2>8. now < at(k)
    BY <1>7, <2>2, <2>4
  <2>9. at(k) <= later
    <3> HIDE DEF at, start, type
    <3> QED
      BY <1>0, <1>2, <1>8, <2>2
  <2>10. k < n => later < at(k + 1)
    <3>1. k < n => k + 1 \in 1 .. n
      BY <1>0
    <3> HIDE DEF at, start, type, later
    <3> QED
      BY <1>0, <2>2, <2>5, <2>6, <2>7, <2>8, <3>1
  <2>11. Finds(zonefile, GmtTimes(zone), later, k)
    <3>1. \A j \in 1 .. n : j < k => at(j) < at(k)
      BY <1>1, <2>2
    <3>2. \A j \in 1 .. n : j > k => k < n /\ (j = k + 1 \/ at(k + 1) < at(j))
      <4> SUFFICES ASSUME NEW j \in 1 .. n, j > k PROVE k < n /\ (j = k + 1 \/ at(k + 1) < at(j))
        OBVIOUS
      <4>1. k < n /\ k + 1 \in 1 .. n /\ (j = k + 1 \/ k + 1 < j)
        BY <1>0, <2>2
      <4> QED
        BY <1>1, <4>1
    <3>3. \A j \in 1 .. n : at(j) <= later <=> j <= k
      <4> SUFFICES ASSUME NEW j \in 1 .. n PROVE at(j) <= later <=> j <= k
        OBVIOUS
      <4>1. at(j) \in Int /\ at(k) \in Int /\ (k < n => at(k + 1) \in Int)
        BY <1>0, <2>2
      <4>2. (j < k => at(j) < at(k)) /\ (j > k => k < n /\ (j = k + 1 \/ at(k + 1) < at(j)))
        BY <3>1, <3>2
      <4> HIDE DEF at, later
      <4>3. CASE j < k
        BY <2>2, <2>7, <2>9, <4>1, <4>2, <4>3
      <4>4. CASE j = k
        BY <2>9, <4>4
      <4>5. CASE j > k
        BY <2>2, <2>7, <2>10, <4>1, <4>2, <4>5
      <4> QED
        BY <2>2, <4>3, <4>4, <4>5
    <3> HIDE DEF at, later, zone
    <3> QED
      BY <1>1, <2>2, <3>3 DEF Finds, LastNotAbove
  <2>12. TypeAt(later) = type(k)
    BY <2>7, <2>11, TypeAtFinds
  <2>13. toLocalTime(zone, later) = [local |-> later + type(k).gmtOffset, isDst |-> type(k).isDst]
    BY <2>7, <2>12, ToLocal
  <2>14. later + type(k).gmtOffset = L
    <3> HIDE DEF type
    <3> QED
      BY <1>0, <1>2
  <2>15. InRepeatedHour(zone, tm, type(k).gmtOffset)
    <3> HIDE DEF zone, tm, type, L
    <3> QED
      BY <1>2, <1>4, <2>5, <2>13, <2>14 DEF InRepeatedHour, later
  <2>16. (L - Hour) - type(k).gmtOffset = now
    <3> HIDE DEF type, L
    <3> QED
      BY <1>a, <2>6, <2>7
  <2> QED
    BY <1>10, <2>15, <2>16
<1> QED
  BY <1>0, <1>9, <1>11, <1>12

-----------------------------------------------------------------------------
(* The inductive invariant: the zones are what they were read or set to    *)
(* (Zones), the text kept for a thread is the local time of the second     *)
(* kept with it (KeptByFile, KeptBySetting), and so is the last stamp.     *)

Zones ==
  /\ zonefile \in ZoneFiles /\ parts \in Parts(zonefile)
  /\ sLocalZone = readTimeZoneFile(zonefile, parts)
  /\ sets = 0 => g_logTimeZone = sLocalZone
  /\ sets > 0 => g_logTimeZone.localtimes # <<>>
  /\ now \in Nat /\ now >= StartTime /\ sets \in Nat /\ backs \in Nat /\ changed \in Nat

Kept ==
  /\ t_lastSecond \in [Stampers -> Nat] /\ DOMAIN t_time = Stampers /\ DOMAIN stamp = Stampers
  /\ \A t \in Stampers : stamp[t].at \in Nat

ByFile(at, text)  == at > 0 => text = at + TypeAt(at).gmtOffset
KeptByFile ==
  \A t \in Stampers :
    (Complete /\ (t \in Logs => sets = 0))
      => ByFile(t_lastSecond[t], t_time[t]) /\ ByFile(stamp[t].at, stamp[t].text)

BySetting(at, text) ==
  at <= now /\ (sets > 0 => changed <= now)
  /\ (sets > 0 /\ at > changed => text = toLocalTime(g_logTimeZone, at).local)
KeptBySetting ==
  backs = 0 =>
    \A t \in Logs : BySetting(t_lastSecond[t], t_time[t]) /\ BySetting(stamp[t].at, stamp[t].text)

StampInv == Zones /\ Kept /\ KeptByFile /\ KeptBySetting

(* No stamp has been made yet.                                             *)
LEMMA StampInit == Init => StampInv
<1> SUFFICES ASSUME Init PROVE StampInv
  OBVIOUS
<1>1. Zones
  BY LogStampAssumption DEF Init, Zones
<1>2. Kept /\ \A t \in Stampers : t_lastSecond[t] = 0 /\ stamp[t].at = 0
  BY DEF Init, Kept
<1>3. KeptByFile
  BY <1>2 DEF KeptByFile, ByFile
<1>4. KeptBySetting
  BY <1>1, <1>2 DEF KeptBySetting, BySetting, Stampers, Zones, Init
<1> QED
  BY <1>1, <1>2, <1>3, <1>4 DEF StampInv

(* What one call of formatTime does for its thread.                        *)
LEMMA Formats ==
  ASSUME StampInv, NEW t \in Stampers, NEW zone, formatTime(t, zone)
  PROVE  /\ t_lastSecond' = [t_lastSecond EXCEPT ![t] = now]
         /\ DOMAIN t_time' = Stampers
         /\ \A u \in Stampers \ {t} : t_time'[u] = t_time[u] /\ stamp'[u] = stamp[u]
         /\ \/ now = t_lastSecond[t] /\ t_time'[t] = t_time[t]
            \/ zone.localtimes # <<>> /\ t_time'[t] = toLocalTime(zone, now).local
            \/ zone.localtimes = <<>>
         /\ DOMAIN stamp' = Stampers
         /\ stamp'[t].at = now /\ stamp'[t].text = t_time'[t]
<1>0. /\ t_lastSecond \in [Stampers -> Nat] /\ DOMAIN t_time = Stampers /\ DOMAIN stamp = Stampers
  BY DEF StampInv, Kept
<1>1. CASE OtherSecond(t)
  <2>1. t_lastSecond' = [t_lastSecond EXCEPT ![t] = now]
    BY <1>1 DEF formatTime
  <2>2. \/ zone.localtimes # <<>> /\ t_time' = [t_time EXCEPT ![t] = toLocalTime(zone, now).local]
        \/ zone.localtimes = <<>> /\ t_time' = [t_time EXCEPT ![t] = Zeros]
    BY <1>1 DEF formatTime
  <2>3. stamp' = [stamp EXCEPT ![t] = [at |-> now, text |-> t_time'[t]]]
    BY DEF formatTime
  <2> QED
    BY <1>0, <2>1, <2>2, <2>3
<1>2. CASE ~ OtherSecond(t)
  <2>1. t_lastSecond' = t_lastSecond /\ t_time' = t_time
    BY <1>2 DEF formatTime
  <2>2. now = t_lastSecond[t]
    BY <1>2 DEF OtherSecond
  <2>3. stamp' = [stamp EXCEPT ![t] = [at |-> now, text |-> t_time'[t]]]
    BY DEF formatTime
  <2> QED
    BY <1>0, <2>1, <2>2, <2>3
<1> QED
  BY <1>1, <1>2

(* The zone of a complete file is the whole file, and has a type.          *)
LEMMA CompleteZone ==
  ASSUME Zones
  PROVE  /\ WellFormed(zonefile)
         /\ Complete => sLocalZone = Whole(zonefile) /\ sLocalZone.localtimes # <<>>
<1>1. WellFormed(zonefile)
  BY LogStampAssumption DEF Zones
<1>2. Len(zonefile.types) \in Nat \ {0} /\ Len(Whole(zonefile).localtimes) = Len(zonefile.types)
  BY <1>1, FileTypes, WholeFile
<1>3. Whole(zonefile).localtimes # <<>>
  BY <1>2
<1> QED
  BY <1>1, <1>3 DEF Zones, Complete, Whole

(* A call of formatTime for a thread of the server or of the logger keeps  *)
(* the invariant.                                                          *)
LEMMA FormatKeeps ==
  ASSUME StampInv, NEW t \in Stampers, NEW zone, formatTime(t, zone),
         (t \in Server \/ sets = 0) => zone = sLocalZone,
         t \in Logs => zone = g_logTimeZone
  PROVE  StampInv'
<1>0. /\ UNCHANGED <<zones, now, backs, sets, g_logTimeZone, changed>>
      /\ Zones /\ Kept /\ KeptByFile /\ KeptBySetting
  BY DEF formatTime, StampInv
<1>1. Zones'
  BY <1>0 DEF Zones, zones
<1>2. /\ t_lastSecond' = [t_lastSecond EXCEPT ![t] = now]
      /\ DOMAIN t_time' = Stampers
      /\ \A u \in Stampers \ {t} : t_time'[u] = t_time[u] /\ stamp'[u] = stamp[u]
      /\ \/ now = t_lastSecond[t] /\ t_time'[t] = t_time[t]
         \/ zone.localtimes # <<>> /\ t_time'[t] = toLocalTime(zone, now).local
         \/ zone.localtimes = <<>>
      /\ DOMAIN stamp' = Stampers
      /\ stamp'[t].at = now /\ stamp'[t].text = t_time'[t]
  BY Formats
<1>3. /\ t_lastSecond \in [Stampers -> Nat]
      /\ t_lastSecond'[t] = now /\ \A u \in Stampers \ {t} : t_lastSecond'[u] = t_lastSecond[u]
  BY <1>0, <1>2 DEF Kept
<1>4. now \in Nat /\ now > 0
  BY <1>0, LogStampAssumption DEF Zones
<1>5. Kept'
  BY <1>0, <1>2, <1>3, <1>4 DEF Kept, zones
<1>6. ASSUME Complete, t \in Logs => sets = 0 PROVE ByFile(now, t_time'[t])
  <2>1. WellFormed(zonefile) /\ sLocalZone = Whole(zonefile) /\ sLocalZone.localtimes # <<>>
    BY <1>0, <1>6, CompleteZone
  <2>2. zone = sLocalZone
    BY <1>6 DEF Stampers
  <2>3. CASE now = t_lastSecond[t] /\ t_time'[t] = t_time[t]
    BY <1>0, <1>4, <1>6, <2>3 DEF KeptByFile
  <2>4. CASE t_time'[t] = toLocalTime(zone, now).local
    <3>1. toLocalTime(zone, now).local = now + TypeAt(now).gmtOffset
      BY <1>4, <2>1, <2>2, ToLocal
    <3> QED
      BY <2>4, <3>1 DEF ByFile
  <2> QED
    BY <1>2, <2>1, <2>2, <2>3, <2>4
<1>7. KeptByFile'
  <2> SUFFICES ASSUME NEW u \in Stampers, Complete, u \in Logs => sets = 0
               PROVE  ByFile(t_lastSecond'[u], t_time'[u]) /\ ByFile(stamp'[u].at, stamp'[u].text)
    BY <1>0 DEF KeptByFile, Complete, ByFile, TypeAt, zones
  <2>1. CASE u = t
    BY <1>2, <1>3, <1>6, <2>1
  <2>2. CASE u # t
    BY <1>0, <1>2, <1>3, <2>2 DEF KeptByFile
  <2> QED
    BY <2>1, <2>2
<1>8. ASSUME backs = 0, t \in Logs PROVE BySetting(now, t_time'[t])
  <2>1. /\ t_lastSecond[t] <= now /\ (sets > 0 => changed <= now)
        /\ sets > 0 /\ t_lastSecond[t] > changed
             => t_time[t] = toLocalTime(g_logTimeZone, t_lastSecond[t]).local
    BY <1>0, <1>8 DEF KeptBySetting, BySetting
  <2>2. ASSUME sets > 0, now > changed PROVE t_time'[t] = toLocalTime(g_logTimeZone, now).local
    <3>1. zone = g_logTimeZone /\ zone.localtimes # <<>>
      BY <1>0, <1>8, <2>2 DEF Zones
    <3> QED
      BY <1>2, <2>1, <2>2, <3>1
  <2> QED
    BY <1>4, <2>1, <2>2 DEF BySetting
<1>9. KeptBySetting'
  <2> SUFFICES ASSUME NEW u \in Logs, backs = 0
               PROVE  BySetting(t_lastSecond'[u], t_time'[u]) /\ BySetting(stamp'[u].at, stamp'[u].text)
    BY <1>0 DEF KeptBySetting, BySetting
  <2>1. CASE u = t
    BY <1>2, <1>3, <1>8, <2>1
  <2>2. CASE u # t
    <3>1. u \in Stampers
      BY DEF Stampers
    <3> QED
      BY <1>0, <1>2, <1>3, <2>2, <3>1 DEF KeptBySetting
  <2> QED
    BY <2>1, <2>2
<1> QED
  BY <1>1, <1>5, <1>7, <1>9 DEF StampInv

(* Every step keeps the invariant: a tick, also backwards, setTimeZone, and *)
(* the stamps of all threads.                                              *)
LEMMA StampStep == StampInv /\ [Next]_vars => StampInv'
<1> SUFFICES ASSUME StampInv, [Next]_vars PROVE StampInv'
  OBVIOUS
<1>0. Zones /\ Kept /\ KeptByFile /\ KeptBySetting
  BY DEF StampInv
<1>1. CASE Tick
  <2>1. UNCHANGED <<zones, sets, g_logTimeZone, t_lastSecond, t_time, stamp, changed>>
    BY <1>1 DEF Tick
  <2>2. Zones'
    BY <1>0, <1>1, <2>1, LogStampAssumption DEF Tick, Zones, zones
  <2>3. Kept' /\ KeptByFile'
    BY <1>0, <2>1 DEF Kept, KeptByFile, ByFile, Complete, TypeAt, zones
  <2>4. KeptBySetting'
    <3>1. ASSUME backs' = 0 PROVE backs = 0 /\ now' = now + 1
      BY <1>0, <1>1, <3>1 DEF Tick, Zones
    <3>2. ASSUME backs' = 0, NEW at \in Nat, NEW text, BySetting(at, text) PROVE BySetting(at, text)'
      BY <1>0, <2>1, <3>1, <3>2 DEF BySetting, Zones
    <3>3. \A t \in Logs : t_lastSecond[t] \in Nat /\ stamp[t].at \in Nat
      BY <1>0 DEF Kept, Stampers
    <3> QED
      BY <1>0, <2>1, <3>1, <3>2, <3>3 DEF KeptBySetting
  <2> QED
    BY <2>2, <2>3, <2>4 DEF StampInv
<1>2. ASSUME NEW offset \in SetOffsets, setTimeZone(FixedZone(offset)) PROVE StampInv'
  <2>1. /\ g_logTimeZone' = FixedZone(offset) /\ sets' = sets + 1 /\ changed' = now
        /\ UNCHANGED <<zones, now, backs, t_lastSecond, t_time, stamp>>
    BY <1>2 DEF setTimeZone
  <2>2. FixedZone(offset).localtimes # <<>>
    BY DEF FixedZone
  <2>3. Zones'
    BY <1>0, <2>1, <2>2 DEF Zones, zones
  <2>4. Kept'
    BY <1>0, <2>1 DEF Kept
  <2>5. KeptByFile'
    <3>1. sets' # 0 /\ (Complete' <=> Complete)
      BY <1>0, <2>1 DEF Zones, Complete, zones
    <3> SUFFICES ASSUME NEW t \in Stampers, Complete, t \notin Logs
                 PROVE  ByFile(t_lastSecond[t], t_time[t]) /\ ByFile(stamp[t].at, stamp[t].text)
      BY <2>1, <3>1 DEF KeptByFile, ByFile, TypeAt, zones
    <3> QED
      BY <1>0 DEF KeptByFile
  <2>6. KeptBySetting'
    <3>1. \A t \in Logs : t_lastSecond[t] \in Nat /\ stamp[t].at \in Nat
      BY <1>0 DEF Kept, Stampers
    <3>2. ASSUME NEW at \in Nat, NEW text, BySetting(at, text) PROVE BySetting(at, text)'
      BY <1>0, <2>1, <3>2 DEF BySetting, Zones
    <3> QED
      BY <1>0, <2>1, <3>1, <3>2 DEF KeptBySetting
  <2> QED
    BY <2>3, <2>4, <2>5, <2>6 DEF StampInv
<1>3. ASSUME NEW t \in Server, telPrintf(t) PROVE StampInv'
  <2>1. t \in Stampers /\ t \notin Logs /\ formatTime(t, sLocalZone)
    BY <1>3, LogStampAssumption DEF Stampers, telPrintf
  <2> QED
    BY <2>1, FormatKeeps
<1>4. ASSUME NEW t \in Logs, LoggerFormat(t) PROVE StampInv'
  <2>1. t \in Stampers /\ t \notin Server /\ formatTime(t, g_logTimeZone)
    BY <1>4, LogStampAssumption DEF Stampers, LoggerFormat
  <2>2. sets = 0 => g_logTimeZone = sLocalZone
    BY <1>0 DEF Zones
  <2> QED
    BY <2>1, <2>2, FormatKeeps
<1>5. CASE UNCHANGED vars
  BY <1>0, <1>5 DEF StampInv, Zones, Kept, KeptByFile, ByFile, KeptBySetting, BySetting, Complete, TypeAt, vars, zones
<1> QED
  BY <1>1, <1>2, <1>3, <1>4, <1>5 DEF Next

(* The kept texts belong to the kept seconds, in every state.              *)
THEOREM StampInvariance == Spec => []StampInv
<1> QED
  BY StampInit, StampStep, PTL DEF Spec

(* A stamp shows the local time of the second in which it was made, for any *)
(* zone file that tells it and any number of threads; after setTimeZone it *)
(* is in the new zone from the next second on.                             *)
THEOREM StampsCorrect == Spec => []StampCorrect
<1>1. StampInv => StampCorrect
  <2> SUFFICES ASSUME StampInv PROVE StampCorrect
    OBVIOUS
  <2>1. KeptByFile /\ KeptBySetting
    BY DEF StampInv
  <2> QED
    BY <2>1 DEF KeptByFile, ByFile, KeptBySetting, BySetting, StampCorrect
<1> QED
  BY <1>1, StampInvariance, PTL

(* fromLocalTime takes local time back to its second, in the hour that the *)
(* end of daylight saving time repeats as well, for any zone file.         *)
THEOREM LocalTimeConvertsBack == Spec => []RoundTrip
<1>1. StampInv => RoundTrip
  <2> SUFFICES ASSUME StampInv, Complete,
                      \A i \in DOMAIN zonefile.trans : ComesAgainAfter(i) => EndsDaylightSaving(i)
               PROVE  fromLocalTime(sLocalZone, toLocalTime(sLocalZone, now)) = now
    BY DEF RoundTrip
  <2>1. Zones /\ now \in Int
    BY DEF StampInv, Zones
  <2>2. WellFormed(zonefile) /\ sLocalZone = Whole(zonefile)
    BY <2>1, CompleteZone
  <2> QED
    BY <2>1, <2>2, FromLocal
<1> QED
  BY <1>1, StampInvariance, PTL

(* What is read of a file, complete or not, has the type of TimeZone::Data. *)
LEMMA ReadTyped ==
  ASSUME NEW f, WellFormed(f), NEW p \in Parts(f)
  PROVE  readTimeZoneFile(f, p) \in Data
<1>0. Len(f.types) \in Nat /\ f.types \in Seq(Types)
  BY FileTypes DEF WellFormed
<1>1. CASE p = Len(f.types) + 1
  <2>1. readTimeZoneFile(f, p) = Whole(f)
    BY <1>1 DEF Whole
  <2>2. Whole(f).localtimes \in Seq(Types) /\ Whole(f).transitions \in Seq(Transitions)
    BY WholeFile
  <2>3. Whole(f) = [localtimes |-> Whole(f).localtimes, transitions |-> Whole(f).transitions]
    BY DEF Whole, readTimeZoneFile
  <2> QED
    BY <2>1, <2>2, <2>3 DEF Data
<1>2. CASE p <= Len(f.types) /\ p > 0
  <2>1. SubSeq(f.types, 1, p - 1) \in Seq(Types)
    BY <1>0, <1>2 DEF Parts
  <2> QED
    BY <1>2, <2>1 DEF readTimeZoneFile, Data
<1>3. CASE p = 0
  <2>1. SubSeq(f.types, 1, p - 1) = <<>>
    BY <1>0, <1>3
  <2>2. <<>> \in Seq(Types)
    OBVIOUS
  <2> QED
    BY <1>0, <1>3, <2>1, <2>2 DEF readTimeZoneFile, Data
<1> QED
  BY <1>0, <1>1, <1>2, <1>3 DEF Parts

(* The zones, the clock and what is kept for the threads have their types. *)
THEOREM StampTypesCorrect == Spec => []TypeOK
<1>1. Init => TypeOK
  <2> SUFFICES ASSUME Init PROVE TypeOK
    OBVIOUS
  <2>1. sLocalZone \in Data /\ g_logTimeZone \in Data
    BY ReadTyped, LogStampAssumption DEF Init
  <2>2. now \in Nat /\ backs \in 0 .. MaxBack /\ sets \in 0 .. MaxSets
    BY LogStampAssumption DEF Init
  <2>3. /\ t_lastSecond \in [Stampers -> Nat] /\ DOMAIN t_time = Stampers
        /\ \A t \in Stampers : stamp[t].at \in Nat
    BY DEF Init
  <2> QED
    BY <2>1, <2>2, <2>3 DEF Init, TypeOK
<1>2. StampInv /\ TypeOK /\ StampInv' /\ [Next]_vars => TypeOK'
  <2> SUFFICES ASSUME StampInv, TypeOK, StampInv', [Next]_vars PROVE TypeOK'
    OBVIOUS
  <2>1. Kept' /\ zonefile' \in ZoneFiles /\ parts' \in Parts(zonefile') /\ now' \in Nat /\ changed' \in Nat
    BY DEF StampInv, Zones
  <2>2. UNCHANGED sLocalZone
    BY DEF Next, Tick, setTimeZone, telPrintf, LoggerFormat, formatTime, vars, zones
  <2>3. g_logTimeZone' \in Data
    <3>1. ASSUME NEW offset \in SetOffsets PROVE FixedZone(offset) \in Data
      <4>1. offset \in Int
        BY LogStampAssumption
      <4>2. [gmtOffset |-> offset, isDst |-> FALSE] \in Types
        BY <4>1 DEF Types
      <4> QED
        BY <4>2 DEF FixedZone, Data
    <3> QED
      BY <3>1 DEF TypeOK, Next, Tick, setTimeZone, telPrintf, LoggerFormat, formatTime, vars, zones
  <2>4. backs' \in 0 .. MaxBack /\ sets' \in 0 .. MaxSets
    <3>1. MaxBack \in Nat /\ MaxSets \in Nat
      BY LogStampAssumption
    <3>2. CASE Tick
      BY <3>1, <3>2 DEF TypeOK, Tick
    <3>3. CASE ~ Tick
      BY <3>1, <3>3 DEF TypeOK, Next, setTimeZone, telPrintf, LoggerFormat, formatTime, vars, zones
    <3> QED
      BY <3>2, <3>3
  <2>5. crashed' \in BOOLEAN
    BY DEF TypeOK, Next, Tick, setTimeZone, telPrintf, LoggerFormat, formatTime, vars, zones
  <2> QED
    BY <2>1, <2>2, <2>3, <2>4, <2>5 DEF TypeOK, Kept
<1> QED
  BY <1>1, <1>2, StampInvariance, PTL DEF Spec
=============================================================================
