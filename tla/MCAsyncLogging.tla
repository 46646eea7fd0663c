--------------------------- MODULE MCAsyncLogging ---------------------------
(* AsyncLogging for TLC: two other programs log to the same directory, and *)
(* local time goes forward by an hour of one second and back by two, which *)
(* brings a name that is too low and then one that was there before.       *)
EXTENDS AsyncLogging

Zone   == [t \in Times |-> IF t < 4 THEN -1 ELSE IF t < 5 THEN 0 ELSE -2]
Others == {[base |-> 0, at |-> 3], [base |-> 2, at |-> 3]}
=============================================================================
