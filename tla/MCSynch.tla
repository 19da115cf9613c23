------------------------------ MODULE MCSynch ------------------------------
(* Instances of Synch for TLC. *)
EXTENDS Synch

CONSTANTS t1, t2, t3, t4, l1

\* Every thread has the same priority.
PriEqual == [t \in Threads |-> 1]

\* One thread is below the others.
PriMixed == [t \in Threads |-> IF t = t1 THEN 0 ELSE 1]

\* Priorities rise from t1 to t4.
PriRising == [t \in Threads |-> IF t = t1 THEN 0 ELSE IF t = t2 THEN 1
                                 ELSE IF t = t3 THEN 2 ELSE 3]

\* l1 is taken before any other lock.
RankL1First == [l \in Locks |-> IF l = l1 THEN 0 ELSE 1]

SemaZero == [s \in Semas |-> 0]
============================================================================
