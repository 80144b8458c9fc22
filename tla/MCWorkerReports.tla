--------------------------- MODULE MCWorkerReports ---------------------------
(* Constants of the run "worker". *)
EXTENDS WorkerReports

MCIndexes == {0, 1}

Valid1 == [wellFormed |-> TRUE, mode |-> "complete", duration |-> 1, delay |-> 0,
           failIndexes |-> {}, index |-> "given"]

\* Each mode with and without a delay and a duration, each way to be selected
\* or not, and each way to be refused.
MCArguments ==
    {Valid1,
     [Valid1 EXCEPT !.delay = 1, !.failIndexes = {1}],
     [Valid1 EXCEPT !.duration = 0, !.failIndexes = {0}, !.index = "absent"],
     [Valid1 EXCEPT !.mode = "wait", !.delay = 1, !.failIndexes = {0}],
     [Valid1 EXCEPT !.wellFormed = FALSE],
     [Valid1 EXCEPT !.mode = "other"],
     [Valid1 EXCEPT !.duration = -1],
     [Valid1 EXCEPT !.delay = -1],
     [Valid1 EXCEPT !.failIndexes = {-1, 0}],
     [Valid1 EXCEPT !.index = "invalid"]}
=============================================================================
