------------------------------ MODULE Selecting ------------------------------
(***************************************************************************)
(* What a loop keeps that pushes the members of T onto a list: SelectSeq,  *)
(* with the set in place of the test, written as a recursive function so   *)
(* that theorems can be proved about it.                                   *)
(***************************************************************************)
EXTENDS Integers, Sequences

Only(s, T) ==
    LET kept[n \in Nat] ==
          IF n = 0 THEN <<>>
          ELSE IF n \in DOMAIN s /\ s[n] \in T THEN Append(kept[n - 1], s[n])
          ELSE kept[n - 1]
    IN  kept[Len(s)]
=============================================================================
