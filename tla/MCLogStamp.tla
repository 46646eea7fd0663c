----------------------------- MODULE MCLogStamp -----------------------------
(* An instance of LogStamp for TLC: zones without and with daylight saving *)
(* time, one that begins in it, one that changes its type without a change *)
(* of the offset, and one that is turned back without daylight saving.     *)
EXTENDS LogStamp

Std == [gmtOffset |-> -2, isDst |-> FALSE]
Dst == [gmtOffset |-> 0, isDst |-> TRUE]
East == [gmtOffset |-> 1, isDst |-> FALSE]
At(t, i) == [at |-> t, idx |-> i]

Files ==
  {[types |-> <<Std>>, trans |-> <<>>],
   [types |-> <<Std, Dst>>, trans |-> <<At(3, 2), At(8, 1), At(12, 2)>>],
   [types |-> <<Dst, Std>>, trans |-> <<At(5, 2), At(10, 1)>>],
   [types |-> <<Std, Std, Dst>>, trans |-> <<At(4, 2), At(6, 3), At(11, 1)>>],
   [types |-> <<East, Std>>, trans |-> <<At(7, 2)>>]}

EastAndWest == {-3, 5}
=============================================================================
