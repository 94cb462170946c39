---------------------------- MODULE ScanContract ----------------------------
(***************************************************************************)
(* What the record batch stream of one partition promises to the operator  *)
(* that polls it, without channels, tasks or threads.  target is the       *)
(* number of rows the partition owes: what matches, cut at the row limit.  *)
(* The stream hands out the rows in order, none twice, none skipped        *)
(* without an error in its place, none beyond target; it ends only when    *)
(* every row is accounted for, after an error, or when the task that feeds *)
(* it has crashed.                                                         *)
(***************************************************************************)
EXTENDS RowRanges

VARIABLES target,     \* rows owed
          received,   \* items handed to the consumer so far
          phase,      \* "polling", "dropped" (by the consumer), "finished"
          crashed     \* has the task that feeds the stream panicked?

vars == <<target, received, phase, crashed>>

Init == /\ target \in Nat
        /\ received = <<>>
        /\ phase = "polling"
        /\ crashed = FALSE

Deliver ==
    /\ phase = "polling"
    /\ ~ Failed(received)
    /\ LET reached == End(received, 0)
       IN  \E last \in reached .. target :
              \/ last > reached /\ received' = Append(received, Batch(reached + 1, last))
              \/ received' = Append(received, Error(reached + 1, last))
    /\ UNCHANGED <<target, phase, crashed>>

Finish ==
    /\ phase = "polling"
    /\ End(received, 0) = target \/ HasError(received) \/ crashed
    /\ phase' = "finished"
    /\ UNCHANGED <<target, received, crashed>>

Drop == /\ phase = "polling"
        /\ phase' = "dropped"
        /\ UNCHANGED <<target, received, crashed>>

Crash == /\ crashed' = TRUE
         /\ UNCHANGED <<target, received, phase>>

Next == Deliver \/ Finish \/ Drop \/ Crash

Spec == Init /\ [][Next]_vars
=============================================================================
