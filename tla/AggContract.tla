---------------------------- MODULE AggContract ----------------------------
(***************************************************************************)
(* What the streams of an aggregation promise to the operators above them, *)
(* without tasks, closures or flags.  Each partition has a duty: the       *)
(* splits it answers for, none of them another's.  It says one word or     *)
(* none: an error, or an aggregate in which each split of its duty counts  *)
(* once and no other split counts.  It ends without a word only if it has  *)
(* no duty or its task has crashed.                                        *)
(***************************************************************************)
EXTENDS Naturals, Sequences

CONSTANTS MaxSplits, Partitions

VARIABLES duty,       \* the splits each partition answers for
          answer,     \* what it has answered
          phase,      \* "open", "dropped" (by the consumer), "finished"
          crashed     \* has its task panicked?

vars == <<duty, answer, phase, crashed>>

Error == [kind |-> "error", counts |-> [s \in 1 .. MaxSplits |-> 0]]
Aggregate(splits) ==
    [kind |-> "batch", counts |-> [s \in 1 .. MaxSplits |-> IF s \in splits THEN 1 ELSE 0]]

Init == /\ duty \in [Partitions -> SUBSET (1 .. MaxSplits)]
        /\ \A p, q \in Partitions : p # q => duty[p] \cap duty[q] = {}
        /\ answer = [p \in Partitions |-> <<>>]
        /\ phase = [p \in Partitions |-> "open"]
        /\ crashed = [p \in Partitions |-> FALSE]

Say(p) ==
    /\ phase[p] = "open" /\ duty[p] # {} /\ answer[p] = <<>>
    /\ \E word \in {Error, Aggregate(duty[p])} : answer' = [answer EXCEPT ![p] = <<word>>]
    /\ UNCHANGED <<duty, phase, crashed>>

Finish(p) ==
    /\ phase[p] = "open"
    /\ duty[p] = {} \/ answer[p] # <<>> \/ crashed[p]
    /\ phase' = [phase EXCEPT ![p] = "finished"]
    /\ UNCHANGED <<duty, answer, crashed>>

Drop(p) ==
    /\ phase[p] = "open"
    /\ phase' = [phase EXCEPT ![p] = "dropped"]
    /\ UNCHANGED <<duty, answer, crashed>>

Crash(p) ==
    /\ crashed' = [crashed EXCEPT ![p] = TRUE]
    /\ UNCHANGED <<duty, answer, phase>>

Next == \E p \in Partitions : Say(p) \/ Finish(p) \/ Drop(p) \/ Crash(p)

Spec == Init /\ [][Next]_vars
=============================================================================
