--------------------------- MODULE MCWorkerQueue ---------------------------
(* WorkerQueue for TLC: one job under every request and fault, or a batch   *)
(* of two of which one may be revived, under crashes.                       *)
EXTENDS WorkerQueue, TLC

CONSTANTS w1, w2, j1, j2

VARIABLE part

OneJob        == {j1}
OtherJob      == {j2}
TwoJobs       == {j1, j2}
TwoWorkers    == {w1, w2}
None          == {}
TwoAttempts   == [j \in Jobs |-> 2]
OtherTwice    == [j \in Jobs |-> IF j = j2 THEN 2 ELSE 1]

WorkerSymmetry == Permutations({w1, w2})

Pair == INSTANCE WorkerQueue WITH
            MaxAttempts <- [j \in Jobs |-> 1], Dependent <- {},
            Requests <- {}, Faults <- {"crash"}

ASSUME Pair!JobsAssumption

PartsInit == Init /\ part \in {"one", "pair"}

PartsNext == /\ UNCHANGED part
             /\ \/ part = "one" /\ Next /\ rows'[j1].status = "absent"
                \/ part = "pair" /\ Pair!Next

PartsSpec == PartsInit /\ [][PartsNext]_<<vars, part>>

\* All the jobs there are.
WholeInit == Init /\ part = "one"
WholeNext == Next /\ UNCHANGED part
LiveSpec  == WholeInit /\ [][WholeNext]_<<vars, part>> /\ Fairness

\* Jobs come to an end, and so do the records that wait for them.
AcceptedWorkEnds == JobsSettle /\ DependentsClose
=============================================================================
