------------------------------- MODULE MCTopK -------------------------------
(* Five documents in three segments, every ranking of every subset of them. *)
(* The limits lie below, at and above the number of hits, and above the     *)
(* index capacity, which is small here.                                     *)
EXTENDS TopK

MCDocs == [seg : {0, 1}, id : {0, 1}] \cup {[seg |-> 2, id |-> 0]}

MCRankings ==
    UNION {{r \in [1 .. n -> MCDocs] : \A i, j \in 1 .. n : r[i] = r[j] => i = j} :
           n \in 0 .. 5}

MCLimits == {0, 1, 3, 5}
MCBatchSizes == {1, 2}
=============================================================================
