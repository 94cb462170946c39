----------------------------- MODULE RowRanges -----------------------------
(***************************************************************************)
(* The vocabulary of one partition's stream.  The rows a scan has to       *)
(* produce are numbered 1, 2, 3, ... in the order in which the split is    *)
(* scanned (segment by segment, documents in order), so a record batch is  *)
(* a range of row numbers.  An item of a channel is a                      *)
(* Result<RecordBatch>: a batch, or an error.  An error carries, as a      *)
(* ghost, the range of the rows it stands for: the rows of the batch whose *)
(* documents could not be fetched, or the empty range of a failed task.    *)
(***************************************************************************)
EXTENDS Naturals, Sequences

Item == [kind : {"batch", "error"}, first : Nat \ {0}, last : Nat]

Batch(first, last) == [kind |-> "batch", first |-> first, last |-> last]

Error(first, last) == [kind |-> "error", first |-> first, last |-> last]

(***************************************************************************)
(* The last row that q accounts for, when the rows up to e came before q.  *)
(***************************************************************************)
End(q, e) == IF q = <<>> THEN e ELSE q[Len(q)].last

(***************************************************************************)
(* The item x starts where a stream stopped that has reached row e; a      *)
(* batch holds at least one row.                                           *)
(***************************************************************************)
Follows(x, e) ==
    /\ x.first = e + 1
    /\ x.first <= x.last + 1
    /\ x.kind = "batch" => x.first <= x.last

\* q continues a stream that has reached row e.
Continues(q, e) ==
    \A i \in 1 .. Len(q) : Follows(q[i], IF i = 1 THEN e ELSE q[i-1].last)

HasError(q) == \E i \in 1 .. Len(q) : q[i].kind = "error"

(***************************************************************************)
(* An error that stands for no rows ends the stream.                       *)
(***************************************************************************)
Terminal(x) == x.first > x.last

Failed(q) == q # <<>> /\ Terminal(q[Len(q)])
=============================================================================
