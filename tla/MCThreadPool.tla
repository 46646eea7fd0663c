---------------------------- MODULE MCThreadPool ----------------------------
(* An instance of ThreadPool for TLC. *)
EXTENDS ThreadPool

CONSTANTS p1, p2, w1, w2, main

AllThreads    == {p1, p2, w1, w2, main}
TwoProducers  == {p1, p2}
TwoWorkers    == {w1, w2}
BothConditions == {"notEmpty", "notFull"}
=============================================================================
