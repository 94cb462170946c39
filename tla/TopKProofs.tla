----------------------------- MODULE TopKProofs -----------------------------
(***************************************************************************)
(* Theorems about TopK, for any documents, rankings, limits and batch      *)
(* sizes.                                                                  *)
(***************************************************************************)
EXTENDS TopK, FiniteSetTheorems, SequenceTheorems, TLAPS

USE TopKAssumption

\* The types of a plan's parts.
LEMMA PlanType ==
    ASSUME plan \in ScanConfig
    PROVE  /\ plan.matching \in Seq(Docs) /\ Len(plan.matching) \in Nat
           /\ plan.topk \in Nat /\ plan.row_limit \in Nat /\ k \in Nat
           /\ plan.batch_size \in Nat \ {0}
           /\ k = Least(plan.topk, plan.row_limit)
<1>1. plan.matching \in Seq(Docs)
  BY DEF ScanConfig
<1>2. plan.topk \in Nat /\ plan.row_limit \in Nat /\ plan.batch_size \in Nat \ {0}
  BY DEF ScanConfig
<1> QED BY <1>1, <1>2 DEF k, Least

\* The wanted documents are the first of the ranking.
LEMMA WantedType ==
    ASSUME plan \in ScanConfig
    PROVE  /\ Wanted \in Seq(Docs)
           /\ Len(Wanted) \in Nat /\ Len(Wanted) <= k
           /\ Wanted = SubSeq(plan.matching, 1, Least(k, Len(plan.matching)))
<1> DEFINE n == Least(k, Len(plan.matching))
<1>1. n \in 0 .. Len(plan.matching) /\ n <= k
  BY PlanType DEF Least
<1>2. Wanted = SubSeq(plan.matching, 1, n)
  BY PlanType DEF Wanted, Least
<1>3. Len(SubSeq(plan.matching, 1, n)) = n /\ SubSeq(plan.matching, 1, n) \in Seq(Docs)
  BY <1>1, PlanType, SubSeqProperties
<1> QED BY <1>1, <1>2, <1>3, PlanType

\* The ranks of the hits are finitely many.
LEMMA RankSets ==
    ASSUME TypeOK, Found
    PROVE  /\ Len(hits) \in Nat /\ Len(hits) <= k
           /\ IsFiniteSet(placed) /\ Cardinality(placed) \in Nat
           /\ Cardinality(placed) <= Len(hits)
           /\ (Left # {} => Cardinality(placed) < Len(hits))
<1>1. Len(hits) \in Nat /\ k \in Nat
  BY PlanType DEF TypeOK
<1>2. Len(hits) <= k
  <2>1. CASE hits = <<>>
    <3>1. Len(hits) = 0
      BY <2>1, EmptySeq, Zenon
    <3> QED BY <1>1, <3>1
  <2>2. CASE hits # <<>>
    BY <2>2, WantedType DEF Found, TypeOK
  <2> QED BY <2>1, <2>2
<1>3. IsFiniteSet(1 .. Len(hits)) /\ Cardinality(1 .. Len(hits)) = Len(hits)
  <2>1. 1 \in Int /\ Len(hits) \in Int
    BY <1>1
  <2>2. /\ IsFiniteSet(1 .. Len(hits))
        /\ Cardinality(1 .. Len(hits)) = IF 1 > Len(hits) THEN 0 ELSE Len(hits) - 1 + 1
    BY <2>1, FS_Interval
  <2> QED BY <1>1, <2>2
<1>4. placed \subseteq 1 .. Len(hits)
  BY DEF TypeOK
<1>5. /\ IsFiniteSet(placed) /\ Cardinality(placed) <= Len(hits)
      /\ (Cardinality(placed) = Len(hits) => placed = 1 .. Len(hits))
  <2>1. placed \in SUBSET (1 .. Len(hits))
    BY <1>4
  <2> DEFINE ranks == 1 .. Len(hits)
  <2>2. /\ IsFiniteSet(placed) /\ Cardinality(placed) <= Cardinality(ranks)
        /\ (Cardinality(ranks) = Cardinality(placed) => ranks = placed)
    BY <1>3, <2>1, FS_Subset
  <2> QED BY <1>3, <2>2
<1>6. Cardinality(placed) \in Nat
  BY <1>5, FS_CardinalityType
<1> QED BY <1>1, <1>2, <1>5, <1>6 DEF Left

LEMMA InitInv == Init => IInv
<1> SUFFICES ASSUME Init PROVE IInv
  OBVIOUS
<1>1. plan \in ScanConfig /\ k \in Nat
  BY PlanType DEF Init
<1>2. Len(<<>>) = 0 /\ <<>> \in Seq(Docs)
  BY EmptySeq
<1>3. TypeOK
  BY <1>1, <1>2 DEF Init, TypeOK
<1>4. Found /\ Gathered
  BY <1>2 DEF Init, Found, Gathered
<1>5. Placed
  BY <1>1, <1>2, FS_EmptySet DEF Init, Placed
<1>6. ReadByRank /\ HandedOut
  BY <1>2 DEF Init, ReadByRank, HandedOut
<1> QED BY <1>3, <1>4, <1>5, <1>6 DEF IInv

\* The plan is never changed, and with it neither k nor what is wanted.
LEMMA PlanFixed ==
    [Next]_vars => /\ plan' = plan /\ k' = k /\ Wanted' = Wanted /\ IndexCapacity' = IndexCapacity
<1>1. [Next]_vars => plan' = plan
  BY DEF Next, vars, Search, CollectRow, ReadFails, Reorder, EmitSlice, Stop, Done, Ended
<1> QED BY <1>1 DEF k, Wanted, IndexCapacity

\* The row that is read next finds a place within the index capacity.
LEMMA NextRow ==
    ASSUME IInv, phase = "build", NEW p \in Left
    PROVE  /\ p \in 1 .. Len(hits) /\ p \in 1 .. k /\ p \notin placed /\ hits[p] \in Docs
           /\ Len(concat) \in 0 .. U32Max /\ Len(concat) < k
<1>1. TypeOK /\ Found /\ Placed
  BY DEF IInv
<1>2. p \in 1 .. Len(hits) /\ p \notin placed
  BY DEF Left
<1>3. Len(hits) \in Nat /\ Len(hits) <= k /\ k \in Nat
  BY <1>1, RankSets, PlanType DEF TypeOK
<1>4. hits[p] \in Docs
  BY <1>1, <1>2, ElementOfSeq DEF TypeOK
<1>5. Len(concat) \in Nat /\ Len(concat) < Len(hits)
  BY <1>1, RankSets DEF Placed
<1>6. k <= U32Max
  BY <1>1 DEF Found, IndexCapacity
<1> QED BY <1>2, <1>3, <1>4, <1>5, <1>6

\* When every rank has been read, each entry of take points at a row.
LEMMA AllRead ==
    ASSUME IInv, phase = "build", Left = {}
    PROVE  /\ placed = 1 .. Len(hits) /\ Len(concat) = Len(hits) /\ Len(hits) \in Nat \ {0}
           /\ \A p \in 1 .. k : take[p] + 1 \in 1 .. Len(concat)
<1>1. TypeOK /\ Found /\ Placed /\ hits # <<>>
  BY DEF IInv, Found
<1>2. placed = 1 .. Len(hits)
  BY <1>1 DEF Left, TypeOK
<1>3. Len(hits) \in Nat \ {0}
  BY <1>1, EmptySeq DEF TypeOK
<1>4. Cardinality(placed) = Len(hits)
  <2>1. 1 \in Int /\ Len(hits) \in Int
    BY <1>3
  <2>2. Cardinality(1 .. Len(hits)) = IF 1 > Len(hits) THEN 0 ELSE Len(hits) - 1 + 1
    BY <2>1, FS_Interval
  <2> QED BY <1>2, <1>3, <2>2
<1>5. Len(concat) = Len(hits)
  BY <1>1, <1>4 DEF Placed
<1>6. k \in Nat /\ k >= Len(hits)
  BY <1>1, RankSets, PlanType DEF TypeOK
<1>7. ASSUME NEW p \in 1 .. k PROVE take[p] + 1 \in 1 .. Len(concat)
  <2>1. take[p] \in Nat
    BY <1>1, <1>7 DEF TypeOK
  <2>2. CASE p \in placed
    BY <1>1, <1>3, <1>5, <2>1, <2>2 DEF Placed
  <2>3. CASE p \notin placed
    BY <1>1, <1>3, <1>5, <1>7, <2>3 DEF Placed
  <2> QED BY <2>2, <2>3
<1> QED BY <1>2, <1>3, <1>5, <1>7

\* One more slice of the rows continues what has been handed out.
LEMMA Slice ==
    ASSUME IInv, phase = "emit", Len(out) < Len(rows)
    PROVE  LET next == out \o SubSeq(rows, Len(out) + 1, SliceEnd(Len(out)))
           IN  /\ next \in Seq(Docs) /\ Len(next) \in Nat /\ Len(next) <= Len(rows)
               /\ \A i \in 1 .. Len(next) : next[i] = rows[i]
<1> DEFINE n == SliceEnd(Len(out))
           slice == SubSeq(rows, Len(out) + 1, n)
           next == out \o slice
<1>1. /\ out \in Seq(Docs) /\ rows \in Seq(Docs)
      /\ Len(out) \in Nat /\ Len(rows) \in Nat
      /\ plan.batch_size \in Nat \ {0}
  BY PlanType DEF IInv, TypeOK
<1>2. n \in Nat /\ n > Len(out) /\ n <= Len(rows)
  BY <1>1 DEF SliceEnd, Least
<1> HIDE DEF n
<1>3. \A i \in Len(out) + 1 .. n : rows[i] \in Docs
  BY <1>1, <1>2, ElementOfSeq
<1>4. /\ slice \in Seq(Docs) /\ Len(slice) = n - Len(out)
      /\ \A i \in 1 .. n - Len(out) : slice[i] = rows[Len(out) + i]
  <2>1. Len(out) + 1 \in Int /\ n \in Int
    BY <1>1, <1>2
  <2>2. /\ slice \in Seq(Docs)
        /\ Len(slice) = IF Len(out) + 1 <= n THEN n - (Len(out) + 1) + 1 ELSE 0
        /\ \A i \in 1 .. n - (Len(out) + 1) + 1 : slice[i] = rows[Len(out) + 1 + i - 1]
    BY <1>3, <2>1, SubSeqProperties
  <2> QED BY <1>1, <1>2, <2>2
<1> HIDE DEF slice
<1>5. /\ next \in Seq(Docs) /\ Len(next) = n
      /\ \A i \in 1 .. n : next[i] = IF i <= Len(out) THEN out[i] ELSE slice[i - Len(out)]
  <2>1. /\ next \in Seq(Docs) /\ Len(next) = Len(out) + Len(slice)
        /\ \A i \in 1 .. Len(out) + Len(slice) :
               next[i] = IF i <= Len(out) THEN out[i] ELSE slice[i - Len(out)]
    BY <1>1, <1>4, ConcatProperties
  <2>2. Len(out) + Len(slice) = n
    BY <1>1, <1>2, <1>4
  <2> QED BY <2>1, <2>2
<1>6. ASSUME NEW i \in 1 .. n PROVE next[i] = rows[i]
  <2>1. CASE i <= Len(out)
    BY <1>1, <1>5, <1>6, <2>1 DEF IInv, HandedOut
  <2>2. CASE i > Len(out)
    <3>1. i - Len(out) \in 1 .. n - Len(out)
      BY <1>1, <1>2, <2>2
    <3>2. slice[i - Len(out)] = rows[Len(out) + (i - Len(out))]
      BY <1>4, <3>1
    <3>3. Len(out) + (i - Len(out)) = i /\ ~ (i <= Len(out))
      BY <1>1, <2>2
    <3> QED BY <1>5, <3>2, <3>3
  <2>3. i <= Len(out) \/ i > Len(out)
    BY <1>1, <1>2
  <2> QED BY ONLY <2>1, <2>2, <2>3
<1> HIDE DEF next
<1>7. /\ next \in Seq(Docs) /\ Len(next) \in Nat /\ Len(next) <= Len(rows)
      /\ \A i \in 1 .. Len(next) : next[i] = rows[i]
  BY <1>2, <1>5, <1>6
<1> QED BY <1>7 DEF next, slice, n

LEMMA TypeStep == IInv /\ [Next]_vars => TypeOK'
<1> SUFFICES ASSUME IInv, [Next]_vars PROVE TypeOK'
  OBVIOUS
<1>1. TypeOK /\ Found /\ Placed
  BY DEF IInv
<1>2. plan' = plan /\ k' = k /\ Wanted' = Wanted
  BY PlanFixed
<1> USE DEF TypeOK
<1>3. CASE UNCHANGED vars
  BY <1>1, <1>2, <1>3 DEF vars
<1>4. CASE Search
  <2>1. hits' \in Seq(Docs) /\ (hits' = hits \/ hits' = Wanted)
    BY <1>1, <1>4, WantedType DEF Search
  <2>2. placed = {}
    <3>1. Len(hits) = 0
      BY <1>1, <1>4, EmptySeq, Zenon DEF Search, Found
    <3> QED BY <1>1, <3>1
  <2> QED BY <1>1, <1>2, <1>4, <2>1, <2>2 DEF Search
<1>5. CASE CollectRow
  <2>1. PICK p \in Left : /\ concat' = Append(concat, hits[p])
                          /\ take' = [take EXCEPT ![p] = RowOf(p)]
                          /\ placed' = placed \cup {p}
    BY <1>5 DEF CollectRow
  <2>2. /\ p \in 1 .. Len(hits) /\ p \in 1 .. k /\ hits[p] \in Docs
        /\ Len(concat) \in 0 .. U32Max
    BY <1>5, NextRow DEF CollectRow
  <2>3. concat' \in Seq(Docs)
    BY <1>1, <2>1, <2>2, AppendProperties
  <2>4. take' \in [1 .. k' -> 0 .. U32Max]
    BY <1>1, <1>2, <2>1, <2>2 DEF RowOf
  <2> QED BY <1>1, <1>2, <1>5, <2>1, <2>2, <2>3, <2>4 DEF CollectRow
<1>6. CASE ReadFails
  BY <1>1, <1>2, <1>6 DEF ReadFails
<1>7. CASE Reorder
  <2>1. rows' \in Seq(Docs)
    <3>1. CASE OneSegment
      BY <1>1, <1>7, <3>1 DEF Reorder
    <3>2. CASE ~ OneSegment
      <4>1. \A p \in 1 .. k : concat[take[p] + 1] \in Docs
        BY <1>1, <1>7, AllRead, ElementOfSeq DEF Reorder
      <4>2. k \in Nat
        BY <1>1, PlanType
      <4>3. [p \in 1 .. k |-> concat[take[p] + 1]] \in Seq(Docs)
        BY <4>1, <4>2
      <4> QED BY <1>7, <3>2, <4>3 DEF Reorder
    <3> QED BY <3>1, <3>2
  <2> QED BY <1>1, <1>2, <1>7, <2>1 DEF Reorder
<1>8. CASE EmitSlice
  <2>1. out' \in Seq(Docs)
    BY <1>8, Slice DEF EmitSlice
  <2> QED BY <1>1, <1>2, <1>8, <2>1 DEF EmitSlice
<1>9. CASE Stop \/ Done \/ Ended
  BY <1>1, <1>2, <1>9 DEF Stop, Done, Ended, vars
<1> QED BY <1>3, <1>4, <1>5, <1>6, <1>7, <1>8, <1>9 DEF Next

\* A sequence is empty when its length is zero.
LEMMA ZeroLength == ASSUME NEW q \in Seq(Docs) PROVE Len(q) \in Nat /\ (q = <<>> <=> Len(q) = 0)
<1>1. Len(<<>>) = 0 /\ (q # <<>> => Len(q) \in Nat \ {0})
  BY EmptySeq
<1>2. q = <<>> => Len(q) = 0
  BY <1>1, Zenon
<1> QED BY <1>1, <1>2

\* Before the search nothing has been read.
LEMMA NothingRead ==
    ASSUME IInv
    PROVE  /\ phase = "search" => placed = {} /\ concat = <<>>
           /\ rows = <<>> => out = <<>> /\ Len(out) = 0 /\ Len(rows) = 0
           /\ phase \in {"search", "build"} => rows = <<>>
<1>1. /\ hits \in Seq(Docs) /\ concat \in Seq(Docs) /\ rows \in Seq(Docs) /\ out \in Seq(Docs)
      /\ placed \subseteq 1 .. Len(hits)
  BY DEF IInv, TypeOK
<1>2. ASSUME phase = "search" PROVE placed = {} /\ concat = <<>>
  <2>1. Len(hits) = 0
    BY <1>1, <1>2, ZeroLength DEF IInv, Found
  <2>2. placed = {}
    BY <1>1, <2>1
  <2>3. Len(concat) = 0
    BY <2>2, FS_EmptySet DEF IInv, Placed
  <2> QED BY <1>1, <2>2, <2>3, ZeroLength
<1>3. ASSUME rows = <<>> PROVE out = <<>> /\ Len(out) = 0 /\ Len(rows) = 0
  <2>1. Len(rows) = 0 /\ Len(out) \in Nat
    BY <1>1, <1>3, ZeroLength
  <2>2. Len(out) = 0
    BY <2>1 DEF IInv, HandedOut
  <2> QED BY <1>1, <2>1, <2>2, ZeroLength
<1> QED BY <1>2, <1>3 DEF IInv, Gathered

LEMMA FoundStep == IInv /\ [Next]_vars => Found'
<1> SUFFICES ASSUME IInv, [Next]_vars PROVE Found'
  OBVIOUS
<1>1. TypeOK /\ Found
  BY DEF IInv
<1>2. /\ k' = k /\ Wanted' = Wanted /\ (IndexCapacity' <=> IndexCapacity) /\ k \in Nat
  BY <1>1, PlanFixed, PlanType DEF TypeOK
<1>3. CASE UNCHANGED vars
  BY <1>1, <1>2, <1>3 DEF vars, Found
<1>4. CASE Search
  <2>1. CASE k = 0 /\ phase' = "done" /\ UNCHANGED hits
    <3>1. Len(Wanted) = 0
      BY <1>1, <2>1, WantedType DEF TypeOK
    <3>2. Wanted = <<>>
      BY <1>1, <3>1, WantedType, ZeroLength DEF TypeOK
    <3> QED BY <1>1, <1>2, <1>4, <2>1, <3>2 DEF Search, Found
  <2>2. CASE phase' = "refused" /\ UNCHANGED hits
    BY <1>1, <1>2, <1>4, <2>2 DEF Search, Found
  <2>3. CASE /\ k > 0 /\ IndexCapacity
             /\ hits' = SubSeq(plan.matching, 1, Least(k, Len(plan.matching)))
             /\ phase' = IF hits' = <<>> THEN "done" ELSE "build"
    <3>1. hits' = Wanted
      BY <1>1, <2>3, WantedType DEF TypeOK
    <3> QED BY <1>2, <2>3, <3>1 DEF Found
  <2> QED BY <1>4, <2>1, <2>2, <2>3 DEF Search
<1>5. CASE CollectRow
  BY <1>1, <1>2, <1>5 DEF CollectRow, Found
<1>6. CASE ReadFails
  BY <1>1, <1>2, <1>6 DEF ReadFails, Found
<1>7. CASE Reorder \/ EmitSlice \/ Stop \/ Done
  BY <1>1, <1>2, <1>7 DEF Reorder, EmitSlice, Stop, Done, Found
<1>8. CASE Ended
  BY <1>3, <1>8 DEF Ended
<1> QED BY <1>3, <1>4, <1>5, <1>6, <1>7, <1>8 DEF Next

LEMMA PlacedStep == IInv /\ [Next]_vars => Placed'
<1> SUFFICES ASSUME IInv, [Next]_vars PROVE Placed'
  OBVIOUS
<1>1. TypeOK /\ Found /\ Placed
  BY DEF IInv
<1>2. k' = k /\ k \in Nat
  BY <1>1, PlanFixed, PlanType DEF TypeOK
<1>3. ASSUME UNCHANGED <<hits, placed, concat, take>> PROVE Placed'
  BY <1>1, <1>2, <1>3 DEF Placed
<1>4. CASE Search
  BY <1>1, <1>2, <1>4, NothingRead DEF Search, Placed
<1>5. CASE CollectRow
  <2>1. PICK p \in Left : /\ concat' = Append(concat, hits[p])
                          /\ take' = [take EXCEPT ![p] = RowOf(p)]
                          /\ placed' = placed \cup {p}
    BY <1>5 DEF CollectRow
  <2>2. /\ p \in 1 .. Len(hits) /\ p \in 1 .. k /\ p \notin placed /\ hits[p] \in Docs
        /\ Len(concat) \in Nat
    BY <1>5, NextRow DEF CollectRow
  <2>3. /\ Len(concat') = Len(concat) + 1
        /\ \A i \in 1 .. Len(concat) : concat'[i] = concat[i]
        /\ concat'[Len(concat) + 1] = hits[p]
    BY <1>1, <2>1, <2>2, AppendProperties DEF TypeOK
  <2>4. Cardinality(placed') = Cardinality(placed) + 1
    BY <1>1, <2>1, <2>2, RankSets, FS_AddElement
  <2>5. hits' = hits /\ take \in [1 .. k -> 0 .. U32Max] /\ placed \subseteq 1 .. Len(hits)
    BY <1>1, <1>5 DEF CollectRow, TypeOK
  <2>6. take'[p] = Len(concat)
    BY <2>1, <2>2, <2>5 DEF RowOf
  <2>7. ASSUME NEW q \in 1 .. k, q # p PROVE take'[q] = take[q] /\ take[q] \in Nat
    BY <2>1, <2>2, <2>5, <2>7
  <2>8. ASSUME NEW q \in placed
        PROVE  take'[q] < Len(concat') /\ concat'[take'[q] + 1] = hits[q]
    <3>1. q # p /\ q \in 1 .. k
      BY <1>1, <1>2, <2>2, <2>5, RankSets
    <3>2. take'[q] = take[q] /\ take[q] \in Nat
      BY <3>1, <2>7
    <3>3. take[q] < Len(concat) /\ concat[take[q] + 1] = hits[q]
      BY <1>1 DEF Placed
    <3>4. take[q] + 1 \in 1 .. Len(concat)
      BY <2>2, <3>2, <3>3
    <3> QED BY <2>2, <2>3, <3>2, <3>3, <3>4
  <2>9. ASSUME NEW q \in (1 .. k) \ placed' PROVE take'[q] = 0
    BY <1>1, <2>1, <2>7 DEF Placed
  <2>10. Len(concat') = Cardinality(placed')
    BY <1>1, <2>3, <2>4 DEF Placed
  <2>11. take'[p] < Len(concat') /\ concat'[take'[p] + 1] = hits[p]
    BY <2>2, <2>3, <2>6
  <2>12. ASSUME NEW q \in placed'
         PROVE  take'[q] < Len(concat') /\ concat'[take'[q] + 1] = hits'[q]
    BY <2>1, <2>5, <2>8, <2>11
  <2> QED BY <1>2, <2>9, <2>10, <2>12 DEF Placed
<1>6. CASE ReadFails \/ Reorder \/ EmitSlice \/ Stop \/ Done \/ Ended \/ UNCHANGED vars
  BY <1>3, <1>6 DEF ReadFails, Reorder, EmitSlice, Stop, Done, Ended, vars
<1> QED BY <1>4, <1>5, <1>6 DEF Next

LEMMA ReadByRankStep == IInv /\ [Next]_vars => ReadByRank'
<1> SUFFICES ASSUME IInv, [Next]_vars PROVE ReadByRank'
  OBVIOUS
<1>1. TypeOK /\ Found /\ Placed /\ ReadByRank
  BY DEF IInv
<1>2. ASSUME UNCHANGED <<hits, placed, concat>> PROVE ReadByRank'
  BY <1>1, <1>2 DEF ReadByRank, OneSegment
<1>3. CASE Search
  <2>1. placed' = {} /\ concat' = <<>>
    BY <1>3, NothingRead DEF Search
  <2>2. Len(concat') = 0
    BY <2>1, EmptySeq, Zenon
  <2> QED BY <2>1, <2>2 DEF ReadByRank
<1>4. CASE CollectRow
  <2> SUFFICES ASSUME OneSegment'
               PROVE  /\ placed' = 1 .. Len(concat')
                      /\ \A i \in 1 .. Len(concat') : concat'[i] = hits'[i]
    BY DEF ReadByRank
  <2>1. OneSegment /\ hits' = hits
    BY <1>4 DEF CollectRow, OneSegment
  <2>2. PICK p \in Left : /\ NextRank(p) /\ concat' = Append(concat, hits[p])
                          /\ placed' = placed \cup {p}
    BY <1>4 DEF CollectRow
  <2>3. /\ p \in 1 .. Len(hits) /\ hits[p] \in Docs /\ p \notin placed /\ Len(concat) \in Nat
    BY <1>4, NextRow DEF CollectRow
  <2>4. placed = 1 .. Len(concat) /\ \A i \in 1 .. Len(concat) : concat[i] = hits[i]
    BY <1>1, <2>1 DEF ReadByRank
  <2>5. p = Len(concat) + 1
    <3> DEFINE n == Len(concat) + 1
    <3>1. p >= n /\ p \in Nat /\ n \in Nat
      BY <2>3, <2>4
    <3>2. n \in 1 .. Len(hits) /\ n \notin placed
      BY <2>3, <2>4, <3>1
    <3>3. Precedes(p, n)
      BY <2>2, <3>2 DEF NextRank, Left
    <3>4. hits[p].seg = hits[n].seg /\ hits[p].seg \in Nat
      BY <2>1, <2>3, <3>2 DEF OneSegment
    <3> HIDE DEF n
    <3>5. p <= n
      BY <3>3, <3>4 DEF Precedes
    <3>6. p = n
      BY <3>1, <3>5
    <3> QED BY <3>6 DEF n
  <2>6. /\ Len(concat') = Len(concat) + 1
        /\ \A i \in 1 .. Len(concat) : concat'[i] = concat[i]
        /\ concat'[Len(concat) + 1] = hits[p]
    BY <1>1, <2>2, <2>3, AppendProperties DEF TypeOK
  <2>7. placed' = 1 .. Len(concat')
    BY <2>2, <2>3, <2>4, <2>5, <2>6
  <2>8. ASSUME NEW i \in 1 .. Len(concat') PROVE concat'[i] = hits[i]
    <3>1. i \in 1 .. Len(concat) \/ i = Len(concat) + 1
      BY <2>3, <2>6
    <3> QED BY <2>4, <2>5, <2>6, <3>1
  <2> QED BY <2>1, <2>7, <2>8
<1>5. CASE ReadFails \/ Reorder \/ EmitSlice \/ Stop \/ Done \/ Ended \/ UNCHANGED vars
  BY <1>2, <1>5 DEF ReadFails, Reorder, EmitSlice, Stop, Done, Ended, vars
<1> QED BY <1>3, <1>4, <1>5 DEF Next

LEMMA GatheredStep == IInv /\ [Next]_vars => Gathered'
<1> SUFFICES ASSUME IInv, [Next]_vars PROVE Gathered'
  OBVIOUS
<1>1. TypeOK /\ Found /\ Placed /\ ReadByRank /\ Gathered
  BY DEF IInv
<1>2. k' = k /\ k \in Nat
  BY <1>1, PlanFixed, PlanType DEF TypeOK
<1>3. ASSUME hits' = hits, rows' = rows,
             \/ phase' = phase
             \/ phase' \in {"failed", "stopped"}
             \/ phase = "emit" /\ phase' = "done"
      PROVE  Gathered'
  BY <1>1, <1>2, <1>3 DEF Gathered, OneSegment
<1>4. CASE Search
  <2>1. rows' = <<>> /\ phase' \in {"done", "refused", "build"}
    BY <1>4, NothingRead DEF Search
  <2>2. phase' = "done" => hits' = <<>>
    BY <1>1, <1>4 DEF Search, Found
  <2> QED BY <2>1, <2>2 DEF Gathered
<1>5. CASE CollectRow
  BY <1>3, <1>5 DEF CollectRow
<1>6. CASE ReadFails
  BY <1>3, <1>6 DEF ReadFails
<1>7. CASE Reorder
  <2>1. /\ placed = 1 .. Len(hits) /\ Len(concat) = Len(hits) /\ Len(hits) \in Nat
        /\ \A p \in 1 .. k : take[p] + 1 \in 1 .. Len(concat)
    BY <1>7, AllRead DEF Reorder
  <2>2. hits' = hits /\ phase' = "emit" /\ (OneSegment' <=> OneSegment)
    BY <1>7 DEF Reorder, OneSegment
  <2>3. CASE OneSegment
    <3>1. rows' = concat /\ \A i \in 1 .. Len(concat) : concat[i] = hits[i]
      BY <1>1, <1>7, <2>3 DEF Reorder, ReadByRank
    <3> QED BY <2>1, <2>2, <2>3, <3>1 DEF Gathered
  <2>4. CASE ~ OneSegment
    <3>1. rows' = [p \in 1 .. k |-> concat[take[p] + 1]]
      BY <1>7, <2>4 DEF Reorder
    <3>2. Len(rows') = k
      BY <1>2, <3>1
    <3>3. Len(hits) <= k
      BY <1>1, RankSets
    <3>4. ASSUME NEW i \in 1 .. Len(hits) PROVE rows'[i] = hits[i]
      <4>1. i \in 1 .. k
        BY <1>2, <2>1, <3>3
      <4>2. concat[take[i] + 1] = hits[i]
        BY <1>1, <2>1 DEF Placed
      <4>3. rows'[i] = concat[take[i] + 1]
        BY ONLY <3>1, <4>1
      <4> QED BY ONLY <4>2, <4>3
    <3> QED BY <1>2, <2>1, <2>2, <2>4, <3>2, <3>3, <3>4 DEF Gathered
  <2> QED BY <2>3, <2>4
<1>8. CASE EmitSlice \/ Stop \/ Done
  BY <1>3, <1>8 DEF EmitSlice, Stop, Done
<1>9. CASE Ended \/ UNCHANGED vars
  BY <1>3, <1>9 DEF Ended, vars
<1> QED BY <1>4, <1>5, <1>6, <1>7, <1>8, <1>9 DEF Next

LEMMA HandedOutStep == IInv /\ [Next]_vars => HandedOut'
<1> SUFFICES ASSUME IInv, [Next]_vars PROVE HandedOut'
  OBVIOUS
<1>1. TypeOK /\ Found /\ HandedOut
  BY DEF IInv
<1>2. CASE Search \/ Reorder
  <2>1. rows = <<>> /\ out' = <<>> /\ Len(out') = 0
    BY <1>2, NothingRead DEF Search, Reorder
  <2>2. Len(rows') \in Nat
    BY <1>2, TypeStep, ZeroLength DEF TypeOK
  <2>3. phase' = "done" => Len(rows') = 0
    BY <1>2, <2>1, NothingRead DEF Search, Reorder
  <2> QED BY <2>1, <2>2, <2>3 DEF HandedOut
<1>3. CASE EmitSlice
  <2>1. /\ out' = out \o SubSeq(rows, Len(out) + 1, SliceEnd(Len(out)))
        /\ phase = "emit" /\ phase' = "emit" /\ hits' = hits /\ rows' = rows /\ Len(out) < Len(rows)
    BY <1>3 DEF EmitSlice
  <2>2. Len(out') <= Len(rows) /\ \A i \in 1 .. Len(out') : out'[i] = rows[i]
    BY <2>1, Slice
  <2>3. hits # <<>>
    BY <1>1, <2>1 DEF Found
  <2> QED BY <2>1, <2>2, <2>3 DEF HandedOut
<1>4. CASE CollectRow \/ ReadFails \/ Stop \/ Done \/ Ended \/ UNCHANGED vars
  BY <1>1, <1>4 DEF CollectRow, ReadFails, Stop, Done, Ended, vars, HandedOut
<1> QED BY <1>2, <1>3, <1>4 DEF Next

(***************************************************************************)
(* The invariant holds in every reachable state.                           *)
(***************************************************************************)
THEOREM Invariance == Spec => []IInv
<1>1. IInv /\ [Next]_vars => IInv'
  BY TypeStep, FoundStep, PlacedStep, ReadByRankStep, GatheredStep, HandedOutStep DEF IInv
<1> QED BY InitInv, <1>1, PTL DEF Spec

(***************************************************************************)
(* Every index that is gathered by fits the index type, and points at a    *)
(* row of the concatenation.                                               *)
(***************************************************************************)
THEOREM TypeCorrect == Spec => []TypeOK
<1>1. IInv => TypeOK
  BY DEF IInv
<1> QED BY <1>1, Invariance, PTL

(***************************************************************************)
(* However the hits are spread over segments, the rows handed out start    *)
(* with the wanted documents in rank order (reorder_topk_batches undoes    *)
(* group_topk_hits).                                                       *)
(***************************************************************************)
THEOREM RankOrder == Spec => []BestFirst
<1>1. IInv => BestFirst
  <2> SUFFICES ASSUME IInv, NEW i \in 1 .. Least(Len(out), Len(Wanted)) PROVE out[i] = Wanted[i]
    BY DEF BestFirst
  <2>1. /\ out \in Seq(Docs) /\ rows \in Seq(Docs) /\ Len(out) \in Nat /\ Len(rows) \in Nat
        /\ Len(Wanted) \in Nat
    BY ZeroLength, WantedType DEF IInv, TypeOK
  <2>2. i \in 1 .. Len(out) /\ i \in 1 .. Len(Wanted) /\ Len(out) # 0
    BY <2>1 DEF Least
  <2>3. hits = Wanted
    BY <2>1, <2>2, ZeroLength DEF IInv, HandedOut, Found
  <2>4. out[i] = rows[i] /\ rows # <<>>
    <3>1. Len(rows) # 0
      BY <2>1, <2>2 DEF IInv, HandedOut
    <3> QED BY <2>1, <2>2, <3>1, ZeroLength DEF IInv, HandedOut
  <2>5. rows[i] = hits[i]
    BY <2>2, <2>3, <2>4 DEF IInv, Gathered
  <2> QED BY <2>3, <2>4, <2>5
<1> QED BY <1>1, Invariance, PTL

(***************************************************************************)
(* A scan that runs to its end hands out all that is wanted, and no more   *)
(* if there are k hits or a single segment holds them.                     *)
(***************************************************************************)
THEOREM AllWanted == Spec => []Complete
<1>1. IInv => Complete
  <2> SUFFICES ASSUME IInv, phase = "done"
               PROVE  /\ Len(out) >= Len(Wanted)
                      /\ Len(Wanted) = k \/ OneSegment => out = Wanted
    BY DEF Complete
  <2>1. /\ out \in Seq(Docs) /\ rows \in Seq(Docs) /\ Len(out) \in Nat /\ Len(rows) \in Nat
        /\ Wanted \in Seq(Docs) /\ Len(Wanted) \in Nat /\ k \in Nat /\ Len(out) = Len(rows)
    BY ZeroLength, WantedType, PlanType DEF IInv, TypeOK, HandedOut
  <2>2. CASE hits = <<>>
    <3>1. Wanted = <<>> /\ out = <<>>
      BY <2>2 DEF IInv, Found, HandedOut
    <3>2. Len(Wanted) = 0
      BY <3>1, EmptySeq, Zenon
    <3> QED BY <2>1, <3>1, <3>2
  <2>3. CASE hits # <<>>
    <3>1. hits = Wanted
      BY <2>3 DEF IInv, Found
    <3>2. Len(rows) = IF OneSegment THEN Len(Wanted) ELSE k
      BY <2>3, <3>1 DEF IInv, Gathered
    <3>3. Len(Wanted) <= k /\ Len(Wanted) # 0
      BY <2>1, <2>3, <3>1, WantedType, ZeroLength DEF IInv, TypeOK
    <3>4. Len(out) >= Len(Wanted)
      BY <2>1, <3>2, <3>3
    <3>5. ASSUME Len(Wanted) = k \/ OneSegment PROVE out = Wanted
      <4>1. Len(out) = Len(Wanted)
        BY <2>1, <3>2, <3>5
      <4>2. rows # <<>>
        BY <2>1, <3>3, <4>1, ZeroLength
      <4>3. ASSUME NEW i \in 1 .. Len(out) PROVE out[i] = Wanted[i]
        BY <3>1, <4>1, <4>2, <4>3 DEF IInv, Gathered, HandedOut
      <4> QED BY <2>1, <4>1, <4>3, SeqEqual
    <3> QED BY <3>4, <3>5
  <2> QED BY <2>2, <2>3
<1> QED BY <1>1, Invariance, PTL
=============================================================================
