--------------------------- MODULE MCSplitWarmup ---------------------------
(* Two splits that need a warmup and a local one; one execution visits all  *)
(* of them (a merged aggregation), the others contend for one cell each.    *)
EXTENDS SplitWarmup

CONSTANTS s1, s2, s3, t1, t2, t3

MCSplits == {s1, s2, s3}
MCTasks  == {t1, t2, t3}
MCLocal  == {s3}

MCItinerary == [t \in MCTasks |-> IF t = t1 THEN <<s1, s3, s2>>
                                  ELSE IF t = t2 THEN <<s1, s2>> ELSE <<s2>>]
=============================================================================
