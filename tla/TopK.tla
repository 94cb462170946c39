-------------------------------- MODULE TopK --------------------------------
(***************************************************************************)
(* The top-k scan of one split (emit_topk_batches).  The searcher returns  *)
(* the best documents in rank order, over all segments.  The columns are   *)
(* read segment by segment, so that the rows come out grouped by segment;  *)
(* take_positions records where the row of each rank went, and gathering   *)
(* by it restores the rank order.  The result is handed out in slices of   *)
(* at most batch_size rows.                                                *)
(*                                                                         *)
(* A document is its address, a record with a segment and an id.  Scores   *)
(* are abstracted to the ranking they induce.                              *)
(***************************************************************************)
EXTENDS Naturals, Sequences, FiniteSets

CONSTANTS Docs,        \* addresses: records with a field seg \in Nat
          Rankings,    \* the possible results of a query, best first
          Limits,      \* the fetch and row limits a plan can carry
          BatchSizes,
          U32Max       \* the largest index a UInt32Array holds

ASSUME TopKAssumption ==
    /\ \A d \in Docs : d.seg \in Nat
    /\ Rankings \subseteq Seq(Docs)
    /\ Limits \subseteq Nat
    /\ BatchSizes \subseteq Nat \ {0}
    /\ U32Max \in Nat

VARIABLES plan,      \* the ScanConfig: query, k, batch_size
          phase,     \* "search", "build", "emit"; "done", "stopped" by the
                     \* consumer, "refused" as a plan, "failed" on a read
          hits,      \* what the searcher returned, in rank order
          placed,    \* the ranks whose row has been read
          concat,    \* the rows read so far, grouped by segment
          take,      \* take_positions: rank -> 0-based row of concat
          rows,      \* the gathered batch
          out        \* the rows handed out

vars == <<plan, phase, hits, placed, concat, take, rows, out>>

Least(m, n) == IF m <= n THEN m ELSE n
-----------------------------------------------------------------------------
\* Is there a query, which documents match (all of them, without a query),
\* and the two limits: the effective k is the smaller one.
ScanConfig ==
    [active : BOOLEAN, matching : Rankings, topk : Limits, row_limit : Limits,
     batch_size : BatchSizes]

FetchOnly == plan.topk             \* mutant: the scan's row limit is dropped
k == Least(plan.row_limit, plan.topk)

Init == /\ plan \in ScanConfig
        /\ phase = "search"
        /\ hits = <<>> /\ concat = <<>> /\ rows = <<>> /\ out = <<>>
        /\ placed = {}
        /\ take = [p \in 1 .. k |-> 0]

\* Mutant: the capacity of the index type is not looked at.
AnyCapacity == TRUE
IndexCapacity == k <= U32Max

Search ==
    /\ phase = "search"
    /\ \/ k = 0 /\ phase' = "done" /\ UNCHANGED hits
       \/ /\ k > 0 /\ ~ (IndexCapacity /\ plan.active)
          /\ phase' = "refused" /\ UNCHANGED hits
       \/ /\ k > 0 /\ IndexCapacity /\ plan.active
          /\ hits' = SubSeq(plan.matching, 1, Least(k, Len(plan.matching)))
          /\ phase' = IF hits' = <<>> THEN "done" ELSE "build"
    /\ UNCHANGED <<plan, placed, concat, take, rows, out>>

\* The rank whose row is read next: segments in order (group_topk_hits
\* keeps them in a BTreeMap), and in a segment by rank.
Left == (1 .. Len(hits)) \ placed

Precedes(p, q) == \/ hits[p].seg < hits[q].seg
                  \/ hits[p].seg = hits[q].seg /\ p <= q

NextRank(p) == p \in Left /\ \A q \in Left : Precedes(p, q)

\* Mutant: the row's index in its segment, without concat_offset.
LocalRow(p) == Cardinality({q \in placed : hits[q].seg = hits[p].seg})
RowOf(p) == Len(concat)

CollectRow ==
    /\ phase = "build"
    /\ \E p \in Left :
          /\ NextRank(p)
          /\ concat' = Append(concat, hits[p])
          /\ take' = [take EXCEPT ![p] = RowOf(p)]
          /\ placed' = placed \cup {p}
    /\ UNCHANGED <<plan, phase, hits, rows, out>>

\* The search fails, or a dictionary or a column cannot be read.
ReadFails ==
    /\ phase \in {"search", "build"} /\ k > 0 /\ IndexCapacity /\ plan.active
    /\ phase' = "failed"
    /\ UNCHANGED <<plan, hits, placed, concat, take, rows, out>>

OneSegment == \A p, q \in 1 .. Len(hits) : hits[p].seg = hits[q].seg

\* A single segment's batch is in rank order already; otherwise the rows
\* are gathered, one for each of the k entries of take_positions.
Reorder ==
    /\ phase = "build"
    /\ Left = {}
    /\ rows' = IF OneSegment THEN concat
               ELSE [p \in 1 .. k |-> concat[take[p] + 1]]
    /\ phase' = "emit"
    /\ UNCHANGED <<plan, hits, placed, concat, take, out>>

SliceEnd(offset) == Least(Len(rows), offset + plan.batch_size)

EmitSlice ==
    /\ phase = "emit"
    /\ Len(out) < Len(rows)
    /\ out' = out \o SubSeq(rows, Len(out) + 1, SliceEnd(Len(out)))
    /\ UNCHANGED <<plan, phase, hits, placed, concat, take, rows>>

\* The scan was cancelled, or the receiver is gone.
Stop == /\ phase = "emit"
        /\ Len(out) < Len(rows)
        /\ phase' = "stopped"
        /\ UNCHANGED <<plan, hits, placed, concat, take, rows, out>>

Done == /\ phase = "emit"
        /\ Len(out) = Len(rows)
        /\ phase' = "done"
        /\ UNCHANGED <<plan, hits, placed, concat, take, rows, out>>

Ended == phase \in {"done", "stopped", "refused", "failed"} /\ UNCHANGED vars

Next == \/ Search \/ CollectRow \/ ReadFails \/ Reorder
        \/ EmitSlice \/ Stop \/ Done \/ Ended

Spec == Init /\ [][Next]_vars
-----------------------------------------------------------------------------
TypeOK ==
    /\ plan \in ScanConfig
    /\ phase \in {"search", "build", "emit", "done", "stopped", "refused", "failed"}
    /\ hits \in Seq(Docs) /\ concat \in Seq(Docs) /\ rows \in Seq(Docs)
    /\ out \in Seq(Docs)
    /\ placed \subseteq 1 .. Len(hits)
    /\ take \in [1 .. k -> 0 .. U32Max]

(***************************************************************************)
(* What the plan asks for: the best documents, as many as both limits      *)
(* admit.                                                                  *)
(***************************************************************************)
Wanted == SubSeq(plan.matching, 1,
                 Least(Len(plan.matching), Least(plan.topk, plan.row_limit)))

(***************************************************************************)
(* Whatever the segments the hits lie in, the rows handed out start with   *)
(* the wanted documents in rank order, although their columns were read    *)
(* segment by segment.                                                     *)
(***************************************************************************)
BestFirst == \A i \in 1 .. Least(Len(out), Len(Wanted)) : out[i] = Wanted[i]

(***************************************************************************)
(* A scan that runs to its end hands out every wanted document, and        *)
(* nothing else if there are k of them or one segment holds them all.      *)
(***************************************************************************)
Complete ==
    phase = "done" =>
        /\ Len(out) >= Len(Wanted)
        /\ Len(Wanted) = k \/ OneSegment => out = Wanted

(***************************************************************************)
(* The inductive invariant behind these.                                   *)
(***************************************************************************)
Found ==
    /\ phase = "search" => hits = <<>>
    /\ phase \in {"build", "emit", "stopped"} => hits # <<>>
    /\ hits # <<>> => hits = Wanted /\ k > 0 /\ IndexCapacity
    /\ phase = "done" /\ hits = <<>> => Wanted = <<>>

\* A placed rank knows where its row is, any other rank points at row 0.
Placed ==
    /\ Len(concat) = Cardinality(placed)
    /\ \A p \in placed : take[p] < Len(concat) /\ concat[take[p] + 1] = hits[p]
    /\ \A p \in (1 .. k) \ placed : take[p] = 0

\* In one segment the rows are read by rank.
ReadByRank ==
    OneSegment => /\ placed = 1 .. Len(concat)
                  /\ \A i \in 1 .. Len(concat) : concat[i] = hits[i]

Gathered ==
    /\ phase \in {"search", "build"} => rows = <<>>
    /\ phase \in {"emit", "done"} /\ hits # <<>> =>
          Len(rows) = IF OneSegment THEN Len(hits) ELSE k
    /\ rows # <<>> => Len(rows) >= Len(hits) /\ \A i \in 1 .. Len(hits) : rows[i] = hits[i]

HandedOut ==
    /\ Len(out) <= Len(rows)
    /\ \A i \in 1 .. Len(out) : out[i] = rows[i]
    /\ out # <<>> => hits # <<>>
    /\ phase = "done" => Len(out) = Len(rows)

IInv == TypeOK /\ Found /\ Placed /\ ReadByRank /\ Gathered /\ HandedOut

(***************************************************************************)
(* A limit above the number of matching documents returns the matching     *)
(* documents, each once (tests/edge_cases.rs:372).                         *)
(***************************************************************************)
NoExtraRows == Len(out) <= Len(Wanted)
=============================================================================
