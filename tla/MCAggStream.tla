---------------------------- MODULE MCAggStream ----------------------------
(* Two partitions and up to two splits, in both modes: with one split, or  *)
(* in mode FinalMerged, partition 1 answers for none.                      *)
EXTENDS AggStream

MCPartitions == {0, 1}
=============================================================================
