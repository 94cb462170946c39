-------------------------- MODULE ScanStreamProofs --------------------------
(***************************************************************************)
(* Theorems about ScanStream, for every set of plans and every capacity.   *)
(***************************************************************************)
EXTENDS ScanStream, SequenceTheorems, TLAPS

(***************************************************************************)
(* Lemmas about row ranges: appending the next range, taking the first.    *)
(***************************************************************************)
\* A queue that an item continues stays contiguous when it is appended.
LEMMA AppendItem ==
    ASSUME NEW q \in Seq(Item), NEW e \in Nat, NEW x \in Item,
           Continues(q, e), Follows(x, End(q, e))
    PROVE  /\ Append(q, x) \in Seq(Item)
           /\ Append(q, x) # <<>>
           /\ Continues(Append(q, x), e)
           /\ End(Append(q, x), e) = x.last
<1>1. Append(q, x) \in Seq(Item) /\ Append(q, x) # <<>>
  BY AppendProperties
<1>2. Len(Append(q, x)) = Len(q) + 1 /\ Append(q, x)[Len(q) + 1] = x
  OBVIOUS
<1>3. \A i \in 1 .. Len(q) : Append(q, x)[i] = q[i]
  OBVIOUS
<1>4. Continues(Append(q, x), e)
  <2> SUFFICES ASSUME NEW i \in 1 .. Len(q) + 1
               PROVE  Follows(Append(q, x)[i], IF i = 1 THEN e ELSE Append(q, x)[i-1].last)
    BY <1>2 DEF Continues
  <2>1. CASE i <= Len(q)
    BY <2>1, <1>3 DEF Continues
  <2>2. CASE i = Len(q) + 1
    <3>1. CASE q = <<>>
      BY <2>2, <3>1, <1>2 DEF End
    <3>2. CASE q # <<>>
      BY <2>2, <3>2, <1>2, <1>3 DEF End
    <3>3. QED BY <3>1, <3>2
  <2>3. QED BY <2>1, <2>2
<1>5. End(Append(q, x), e) = x.last
  BY <1>1, <1>2 DEF End
<1>6. QED BY <1>1, <1>4, <1>5

\* The first item of a contiguous queue continues what came before it, and
\* the rest continues that item.
LEMMA TakeItem ==
    ASSUME NEW q \in Seq(Item), NEW e \in Nat, q # <<>>, Continues(q, e)
    PROVE  /\ Head(q) \in Item /\ Tail(q) \in Seq(Item)
           /\ Follows(Head(q), e)
           /\ Continues(Tail(q), Head(q).last)
           /\ End(Tail(q), Head(q).last) = End(q, e)
<1>1. Head(q) = q[1] /\ Head(q) \in Item /\ Tail(q) \in Seq(Item) /\ Len(q) >= 1
  OBVIOUS
<1>2. Len(Tail(q)) = Len(q) - 1 /\ \A i \in 1 .. Len(q) - 1 : Tail(q)[i] = q[i+1]
  OBVIOUS
<1>3. Follows(Head(q), e)
  BY <1>1 DEF Continues
<1>4. Continues(Tail(q), Head(q).last)
  BY <1>1, <1>2 DEF Continues
<1>5. End(Tail(q), Head(q).last) = End(q, e)
  <2>1. CASE Len(q) = 1
    <3>1. Len(Tail(q)) = 0
      BY <2>1, <1>2
    <3>2. Tail(q) = <<>>
      BY <3>1, <1>1, EmptySeq
    <3>3. QED BY <3>2, <2>1, <1>1 DEF End
  <2>2. CASE Len(q) > 1
    <3>1. Len(Tail(q)) # 0 /\ Len(Tail(q)) + 1 = Len(q) /\ Len(Tail(q)) \in 1 .. Len(q) - 1
      BY <2>2, <1>1, <1>2
    <3>2. Tail(q) # <<>>
      BY <3>1, EmptySeq
    <3>3. Tail(q)[Len(Tail(q))] = q[Len(q)]
      BY <3>1, <1>2
    <3>4. QED BY <3>2, <3>3 DEF End
  <2>3. QED BY <1>1, <2>1, <2>2
<1>6. QED BY <1>1, <1>3, <1>4, <1>5

\* The end of a queue of items is a row number.
LEMMA EndNat ==
    ASSUME NEW q \in Seq(Item), NEW e \in Nat
    PROVE  End(q, e) \in Nat
<1>1. CASE q = <<>>
  BY <1>1 DEF End
<1>2. CASE q # <<>>
  <2>1. Len(q) \in 1 .. Len(q)
    BY <1>2
  <2>2. q[Len(q)] \in Item
    BY <2>1
  <2>3. QED BY <1>2, <2>2 DEF End, Item
<1>3. QED BY <1>1, <1>2

\* A hand that holds one item.
LEMMA OneItem ==
    ASSUME NEW x \in Item, NEW e \in Nat
    PROVE  /\ <<x>> \in Seq(Item) /\ Len(<<x>>) = 1 /\ <<x>>[1] = x
           /\ End(<<x>>, e) = x.last
           /\ Continues(<<x>>, e) <=> Follows(x, e)
BY DEF End, Continues

\* A full hand holds its item, which continues what its reader has.
LEMMA FullHand ==
    ASSUME NEW q \in Seq(Item), NEW e \in Nat, Len(q) = 1
    PROVE  /\ q[1] \in Item
           /\ q # <<>>
           /\ End(q, e) = q[1].last
           /\ Continues(q, e) <=> Follows(q[1], e)
<1>1. 1 \in 1 .. Len(q)
  OBVIOUS
<1>2. q[1] \in Item /\ q # <<>>
  BY <1>1, EmptySeq
<1>3. End(q, e) = q[1].last
  BY <1>2 DEF End
<1>4. \A i \in 1 .. Len(q) : i = 1
  OBVIOUS
<1>5. Continues(q, e) <=> Follows(q[1], e)
  BY <1>1, <1>4 DEF Continues
<1>6. QED BY <1>2, <1>3, <1>5

\* An empty queue reaches no further.
LEMMA NoItem ==
    ASSUME NEW e
    PROVE  /\ <<>> \in Seq(Item)
           /\ Continues(<<>>, e) /\ Within(<<>>)
           /\ End(<<>>, e) = e
BY DEF End, Continues, Within
-----------------------------------------------------------------------------
(***************************************************************************)
(* Type correctness: in particular remaining, a usize in the code, never   *)
(* goes below zero, and the hands hold items.                              *)
(***************************************************************************)
LEMMA PlanType == TypeOK => /\ plan.ends \in Seq(Nat) /\ plan.limit \in Nat
                            /\ plan.batchSize \in Nat \ {0}
BY PlansAssumption DEF TypeOK, Plan

LEMMA EndOfNat == ASSUME TypeOK, NEW s \in 0 .. Len(plan.ends) PROVE EndOf(s) \in Nat
<1>1. plan.ends \in Seq(Nat)
  BY PlanType
<1>2. CASE s = 0
  BY <1>2 DEF EndOf
<1>3. CASE s \in 1 .. Len(plan.ends)
  BY <1>1, <1>3 DEF EndOf
<1>4. QED BY <1>1, <1>2, <1>3

LEMMA TypeInit == Init => TypeOK
<1> SUFFICES ASSUME Init PROVE TypeOK
  OBVIOUS
<1>1. plan \in Plans /\ plan.limit \in Nat
  BY PlansAssumption DEF Init, Plan
<1>2. <<>> \in Seq(Item)
  BY NoItem
<1>3. QED BY <1>1, <1>2 DEF Init, TypeOK, Stages, Workers

LEMMA TypeStep == TypeOK /\ Control /\ [Next]_vars => TypeOK'
<1> SUFFICES ASSUME TypeOK, Control, [Next]_vars PROVE TypeOK'
  OBVIOUS
<1> USE DEF TypeOK
<1>1. CASE Prepare
  BY <1>1 DEF Prepare, TaskStep, scanVars, guardVars, Stages
<1>2. CASE ResolveSchema
  BY <1>2 DEF ResolveSchema, StartScan, scanVars, guardVars, Stages, Workers
<1>3. CASE Warmup
  BY <1>3 DEF Warmup, StartScan, scanVars, guardVars, Stages, Workers
<1>4. CASE ReceiveRaw
  <2>1. Head(raw) \in Item /\ Tail(raw) \in Seq(Item)
    BY <1>4 DEF ReceiveRaw
  <2>2. held' \in Seq(Item) /\ raw' \in Seq(Item)
    BY <1>4, <2>1, OneItem DEF ReceiveRaw
  <2>3. QED BY <1>4, <2>2 DEF ReceiveRaw, TaskStep, scanVars, guardVars, Stages
<1>5. CASE RawDrained
  BY <1>5 DEF RawDrained, TaskStep, scanVars, guardVars, Stages
<1>6. CASE FillDocuments
  <2>0. Len(held) = 1
    BY <1>6 DEF FillDocuments, TaskStep, Control
  <2>1. held[1] \in Item
    BY <2>0, FullHand
  <2>2. Error(held[1].first, held[1].last) \in Item
    BY <2>1 DEF Error, Item
  <2>3. held' \in Seq(Item)
    BY <1>6, <2>2, OneItem DEF FillDocuments
  <2>4. QED BY <1>6, <2>3 DEF FillDocuments, TaskStep, scanVars, guardVars, Stages
<1>7. CASE SendOut
  <2>0. Len(held) = 1
    BY <1>7 DEF SendOut, Control
  <2>1. held[1] \in Item
    BY <2>0, FullHand
  <2>2. out' \in Seq(Item)
    <3>1. CASE out' = Append(out, held[1])
      BY <3>1, <2>1
    <3>2. CASE UNCHANGED out
      BY <3>2
    <3>3. QED BY <1>7, <3>1, <3>2 DEF SendOut
  <2>3. QED BY <1>7, <2>2, NoItem DEF SendOut, scanVars, guardVars, Stages
<1>8. CASE Join
  BY <1>8 DEF Join, TaskStep, scanVars, guardVars, Stages
<1>9. CASE SendError
  <2>1. End(out, End(received, 0)) \in Nat
    BY EndNat
  <2>2. Error(End(out, End(received, 0)) + 1, End(out, End(received, 0))) \in Item
    BY <2>1 DEF Error, Item
  <2>3. out' \in Seq(Item)
    <3>1. CASE UNCHANGED out
      BY <3>1
    <3>2. CASE out' = Append(out, Error(End(out, End(received, 0)) + 1, End(out, End(received, 0))))
      BY <3>2, <2>2
    <3>3. QED BY <1>9, <3>1, <3>2 DEF SendError
  <2>4. QED BY <1>9, <2>3 DEF SendError, TaskStep, scanVars, guardVars, Stages
<1>10. CASE AbortTask \/ PanicTask
  <2>1. held' \in Seq(Item) /\ raw' \in Seq(Item)
    BY <1>10, NoItem DEF AbortTask, PanicTask, TaskVanishes
  <2>2. QED BY <1>10, <2>1 DEF AbortTask, PanicTask, TaskVanishes, scanVars, guardVars, Stages
<1>11. CASE StartWorker
  BY <1>11 DEF StartWorker, scanVars, guardVars, Workers
<1>12. CASE NextSegment
  BY <1>12 DEF NextSegment, guardVars
<1>13. CASE BuildBatch
  <2> DEFINE chunk == Min2(plan.batchSize, EndOf(segment) - row)
             taken == Min2(remaining, chunk)
  <2>1. EndOf(segment) \in Nat /\ plan.batchSize \in Nat \ {0}
    BY <1>13, PlanType, EndOfNat DEF BuildBatch
  <2>2. chunk \in Nat \ {0}
    BY <1>13, <2>1 DEF BuildBatch, Min2
  <2>3. /\ pending' = <<Batch(row + 1, row + taken)>>
        /\ row' = row + taken
        /\ remaining' = remaining - taken
    BY <1>13 DEF BuildBatch, Taken, Chunk
  <2> HIDE DEF chunk
  <2>4. taken \in Nat \ {0} /\ taken <= remaining
    BY <1>13, <2>2 DEF BuildBatch, Min2
  <2> HIDE DEF taken
  <2>5. Batch(row + 1, row + taken) \in Item
    BY <2>4 DEF Batch, Item
  <2>6. pending' \in Seq(Item) /\ row' \in Nat /\ remaining' \in Nat
    BY <2>3, <2>4, <2>5, OneItem
  <2>7. QED BY <1>13, <2>6 DEF BuildBatch, guardVars, Workers
<1>14. CASE SendRaw
  <2>1. Len(pending) = 1 /\ segment <= Len(plan.ends)
    BY <1>14 DEF SendRaw, Control
  <2>2. pending[1] \in Item
    BY <2>1, FullHand
  <2>3. EndOf(segment) \in Nat
    BY <2>1, PlanType, EndOfNat
  <2>4. raw' \in Seq(Item)
    <3>1. CASE raw' = Append(raw, pending[1])
      BY <3>1, <2>2
    <3>2. CASE UNCHANGED raw
      BY <3>2
    <3>3. QED BY <1>14, <3>1, <3>2 DEF SendRaw
  <2>5. QED BY <1>14, <2>3, <2>4, NoItem DEF SendRaw, guardVars, Workers
<1>15. CASE FinishScan
  BY <1>15 DEF FinishScan, scanVars, guardVars, Workers
<1>16. CASE FailScan
  BY <1>16 DEF FailScan, scanVars, guardVars, Workers
<1>17. CASE Poll
  <2>1. received' \in Seq(Item) /\ out' \in Seq(Item)
    BY <1>17 DEF Poll
  <2>2. QED BY <1>17, <2>1 DEF Poll, scanVars, guardVars
<1>18. CASE PollEnd \/ DropStream
  BY <1>18 DEF PollEnd, DropStream, scanVars, guardVars
<1>19. CASE DropReceiver
  BY <1>19, NoItem DEF DropReceiver, scanVars
<1>20. CASE DropGuard
  BY <1>20 DEF DropGuard, scanVars
<1>21. CASE UNCHANGED vars
  BY <1>21 DEF vars, scanVars, guardVars
<1>22. QED
  BY <1>1, <1>2, <1>3, <1>4, <1>5, <1>6, <1>7, <1>8, <1>9, <1>10, <1>11, <1>12, <1>13,
     <1>14, <1>15, <1>16, <1>17, <1>18, <1>19, <1>20, <1>21
     DEF Next, Task, Worker, Teardown, Terminated
-----------------------------------------------------------------------------
(***************************************************************************)
(* The parts of the inductive invariant, one lemma each.                   *)
(***************************************************************************)
\* No step changes the plan, hence what the partition owes.
LEMMA PlanFixed == [Next]_vars => plan' = plan
BY DEF Next, vars, Task, Worker, Teardown, Terminated, Prepare, ResolveSchema, Warmup,
       ReceiveRaw, RawDrained, FillDocuments, SendOut, Join, SendError, AbortTask, PanicTask,
       TaskVanishes, StartWorker, NextSegment, BuildBatch, SendRaw, FinishScan, FailScan,
       Poll, PollEnd, DropStream, DropReceiver, DropGuard

LEMMA ControlStep == TypeOK /\ Control /\ [Next]_vars => Control'
<1> SUFFICES ASSUME TypeOK, Control, [Next]_vars PROVE Control'
  OBVIOUS
<1> USE DEF Control, OutOpen, Cancelled, Aborting, WorkerDone
<1>1. CASE Prepare
  BY <1>1 DEF Prepare, TaskStep, scanVars, guardVars
<1>2. CASE ResolveSchema
  BY <1>2 DEF ResolveSchema, StartScan, scanVars, guardVars
<1>3. CASE Warmup
  BY <1>3 DEF Warmup, StartScan, scanVars, guardVars
<1>4. CASE ReceiveRaw
  <2>1. Len(held') = 1
    BY <1>4 DEF ReceiveRaw
  <2>2. QED BY <1>4, <2>1 DEF ReceiveRaw, TaskStep, scanVars, guardVars
<1>5. CASE RawDrained
  BY <1>5 DEF RawDrained, TaskStep, scanVars, guardVars
<1>6. CASE FillDocuments
  <2>1. Len(held') = 1
    BY <1>6 DEF FillDocuments, TaskStep
  <2>2. QED BY <1>6, <2>1 DEF FillDocuments, TaskStep, scanVars, guardVars
<1>7. CASE SendOut
  BY <1>7 DEF SendOut, scanVars, guardVars
<1>8. CASE Join
  BY <1>8 DEF Join, TaskStep, scanVars, guardVars
<1>9. CASE SendError
  BY <1>9 DEF SendError, TaskStep, scanVars, guardVars
<1>10. CASE AbortTask
  BY <1>10 DEF AbortTask, TaskVanishes, scanVars, guardVars
<1>11. CASE PanicTask
  BY <1>11 DEF PanicTask, TaskVanishes, scanVars, guardVars
<1>12. CASE StartWorker
  BY <1>12 DEF StartWorker, scanVars, guardVars
<1>13. CASE NextSegment
  BY <1>13 DEF NextSegment, guardVars
<1>14. CASE BuildBatch
  <2>1. Len(pending') = 1
    BY <1>14 DEF BuildBatch
  <2>2. QED BY <1>14, <2>1 DEF BuildBatch, guardVars
<1>15. CASE SendRaw
  BY <1>15 DEF SendRaw, RawOpen, guardVars
<1>16. CASE FinishScan
  BY <1>16 DEF FinishScan, scanVars, guardVars
<1>17. CASE FailScan
  BY <1>17 DEF FailScan, scanVars, guardVars
<1>18. CASE Poll
  BY <1>18 DEF Poll, scanVars, guardVars
<1>19. CASE PollEnd \/ DropStream
  BY <1>19 DEF PollEnd, DropStream, scanVars, guardVars
<1>20. CASE DropReceiver
  BY <1>20 DEF DropReceiver, scanVars
<1>21. CASE DropGuard
  BY <1>21 DEF DropGuard, scanVars
<1>22. CASE UNCHANGED vars
  BY <1>22 DEF vars, scanVars, guardVars
<1>23. QED
  BY <1>1, <1>2, <1>3, <1>4, <1>5, <1>6, <1>7, <1>8, <1>9, <1>10, <1>11, <1>12, <1>13,
     <1>14, <1>15, <1>16, <1>17, <1>18, <1>19, <1>20, <1>21, <1>22
     DEF Next, Task, Worker, Teardown, Terminated

\* The segments' ends are ordered.
LEMMA EndOfMono ==
    ASSUME TypeOK, NEW s \in 0 .. Len(plan.ends), NEW t \in 0 .. Len(plan.ends), s <= t
    PROVE  EndOf(s) <= EndOf(t)
<1>1. EndOf(t) \in Nat /\ plan.ends \in Seq(Nat) /\ plan \in Plans
  BY EndOfNat, PlanType DEF TypeOK
<1>2. CASE s = 0
  BY <1>1, <1>2 DEF EndOf
<1>3. CASE s \in 1 .. Len(plan.ends)
  <2>1. t \in 1 .. Len(plan.ends)
    BY <1>1, <1>3
  <2>2. plan.ends[s] <= plan.ends[t]
    BY <1>1, <1>3, <2>1, PlansAssumption
  <2>3. QED BY <1>3, <2>1, <2>2 DEF EndOf
<1>4. QED BY <1>1, <1>2, <1>3

LEMMA TotalNat == TypeOK => Total \in Nat /\ Len(plan.ends) \in Nat /\ Target \in Nat
<1> SUFFICES ASSUME TypeOK PROVE Total \in Nat /\ Len(plan.ends) \in Nat /\ Target \in Nat
  OBVIOUS
<1>1. Len(plan.ends) \in Nat
  BY PlanType
<1>2. Total \in Nat
  BY <1>1, EndOfNat DEF Total
<1>3. QED BY <1>1, <1>2, PlanType DEF Target, Min2

\* The row reached is owed, as long as somebody can receive it.
LEMMA RowOwed == TypeOK /\ Scanned /\ RawOpen => row <= Target
<1> SUFFICES ASSUME TypeOK, Scanned, RawOpen PROVE row <= Target
  OBVIOUS
<1>1. Total \in Nat /\ Len(plan.ends) \in Nat /\ plan.limit \in Nat
  BY TotalNat, PlanType
<1>2. row <= plan.limit
  BY <1>1 DEF Scanned, TypeOK
<1>3. row <= Total
  <2>1. CASE segment > Len(plan.ends)
    BY <2>1, <1>1 DEF Scanned, TypeOK
  <2>2. CASE segment <= Len(plan.ends)
    <3>1. segment \in 0 .. Len(plan.ends) /\ Len(plan.ends) \in 0 .. Len(plan.ends)
      BY <2>2, <1>1 DEF TypeOK
    <3>2. EndOf(segment) \in Nat /\ EndOf(segment) <= Total
      BY <3>1, EndOfMono, EndOfNat DEF Total
    <3>3. row <= EndOf(segment)
      BY <2>2 DEF Scanned
    <3>4. QED BY <3>2, <3>3, <1>1 DEF TypeOK
  <2>3. QED BY <2>1, <2>2, <1>1 DEF TypeOK
<1>4. QED BY <1>1, <1>2, <1>3 DEF Target, Min2

LEMMA ScannedStep == TypeOK /\ Control /\ Scanned /\ [Next]_vars => Scanned'
<1> DEFINE After ==
       /\ row' + remaining' = plan.limit
       /\ segment' <= Len(plan.ends) + 1
       /\ EndOf(segment' - 1) <= row'
       /\ segment' <= Len(plan.ends) => row' <= EndOf(segment')
       /\ segment' > Len(plan.ends) => row' = Total
       /\ worker' = "ok" /\ ~ Cancelled' => row' = Target
<1> SUFFICES ASSUME TypeOK, Control, Scanned, [Next]_vars, RawOpen'
             PROVE  After
  BY PlanFixed DEF Scanned, EndOf, Total, Target
<1> USE DEF RawOpen, scanVars, guardVars
<1>1. plan.limit \in Nat /\ Len(plan.ends) \in Nat /\ plan.batchSize \in Nat \ {0}
  BY PlanType
<1>2. RawOpen
  BY DEF Next, vars, Task, Worker, Teardown, Terminated, Prepare, ResolveSchema, StartScan,
         Warmup, TaskStep, ReceiveRaw, RawDrained, FillDocuments, SendOut, Join, SendError,
         AbortTask, PanicTask, TaskVanishes, StartWorker, NextSegment, BuildBatch, SendRaw,
         FinishScan, FailScan, Poll, PollEnd, DropStream, DropReceiver, DropGuard
<1>3. ASSUME UNCHANGED <<segment, row, remaining>>,
             worker' = "ok" => worker = "ok", Cancelled => Cancelled'
      PROVE  After
  BY <1>2, <1>3 DEF Scanned
<1>4. CASE NextSegment
  <2>1. segment <= Len(plan.ends) /\ row = EndOf(segment) /\ segment' = segment + 1
        /\ row' = row /\ remaining' = remaining /\ worker' = "scan" /\ remaining > 0
    BY <1>4 DEF NextSegment
  <2>2. segment \in Nat \ {0}
    BY DEF TypeOK
  <2>3. EndOf(segment' - 1) = row
    BY <2>1, <2>2
  <2>4. segment' > Len(plan.ends) => row' = Total
    BY <2>1, <2>2, <1>1 DEF Total
  <2>5. segment' <= Len(plan.ends) => row' <= EndOf(segment')
    BY <2>1, <2>2, <1>1, EndOfMono
  <2>6. row \in Nat
    BY DEF TypeOK
  <2>7. QED BY <1>1, <1>2, <2>1, <2>2, <2>3, <2>4, <2>5, <2>6 DEF Scanned
<1>5. CASE BuildBatch
  <2> DEFINE chunk == Min2(plan.batchSize, EndOf(segment) - row)
             taken == Min2(remaining, chunk)
  <2>1. segment \in 1 .. Len(plan.ends) /\ row \in Nat /\ remaining \in Nat \ {0}
        /\ row < EndOf(segment) /\ segment' = segment /\ worker' = "send"
    BY <1>5 DEF BuildBatch, TypeOK
  <2>2. EndOf(segment) \in Nat /\ EndOf(segment - 1) \in Nat
    BY <1>1, <2>1, EndOfNat
  <2>3. row' = row + taken /\ remaining' = remaining - taken
    BY <1>5 DEF BuildBatch, Taken, Chunk
  <2>4. chunk \in Nat \ {0} /\ row + chunk <= EndOf(segment)
    BY <1>1, <2>1, <2>2 DEF Min2
  <2> HIDE DEF chunk
  <2>5. taken \in Nat \ {0} /\ taken <= chunk
    BY <2>1, <2>4 DEF Min2
  <2> HIDE DEF taken
  <2>6. EndOf(segment - 1) <= row /\ row + remaining = plan.limit
    BY <1>2 DEF Scanned
  <2>7. QED BY <1>1, <2>1, <2>2, <2>3, <2>4, <2>5, <2>6
<1>6. CASE SendRaw
  BY <1>2, <1>3, <1>6 DEF SendRaw, Cancelled
<1>7. CASE FinishScan
  <2>1. segment > Len(plan.ends) \/ remaining = 0 \/ Cancelled
    BY <1>7 DEF FinishScan, ScanOver
  <2>2. row \in Nat /\ segment \in Nat \ {0} /\ row <= Target /\ Total \in Nat
    BY <1>2, RowOwed, TotalNat DEF TypeOK
  <2>3. CASE Cancelled
    BY <1>7, <1>2, <2>3 DEF FinishScan, Scanned, Cancelled
  <2>4. CASE segment > Len(plan.ends)
    BY <1>1, <1>2, <1>7, <2>2, <2>4 DEF FinishScan, Scanned, Target, Min2
  <2>5. CASE remaining = 0
    BY <1>1, <1>2, <1>7, <2>2, <2>5 DEF FinishScan, Scanned, Target, Min2
  <2>6. QED BY <2>1, <2>3, <2>4, <2>5
<1>8. CASE StartWorker \/ FailScan \/ Task
  BY <1>8, <1>3 DEF Task, StartWorker, FailScan, Prepare, ResolveSchema, StartScan, Warmup,
     ReceiveRaw, RawDrained, FillDocuments, SendOut, Join, SendError, Cancelled
<1>9. CASE AbortTask \/ PanicTask
  BY <1>9 DEF AbortTask, PanicTask, TaskVanishes
<1>10. CASE Poll \/ PollEnd \/ DropStream \/ DropReceiver
  BY <1>3, <1>10 DEF Poll, PollEnd, DropStream, DropReceiver, Cancelled
<1>11. CASE DropGuard
  BY <1>3, <1>11 DEF DropGuard, Cancelled
<1>12. CASE UNCHANGED vars
  BY <1>3, <1>12 DEF vars, Cancelled
<1>13. QED
  BY <1>4, <1>5, <1>6, <1>7, <1>8, <1>9, <1>10, <1>11, <1>12
     DEF Next, Worker, Teardown, Terminated

\* Within is kept by the moves of a queue.
LEMMA WithinMoves ==
    ASSUME NEW q \in Seq(Item), Within(q)
    PROVE  /\ \A x \in Item : x.last <= Target => Within(Append(q, x))
           /\ q # <<>> => Within(Tail(q)) /\ Head(q).last <= Target
           /\ \A e \in Nat : e <= Target => End(q, e) <= Target
<1>1. ASSUME NEW x \in Item, x.last <= Target PROVE Within(Append(q, x))
  BY <1>1, AppendProperties DEF Within
<1>2. ASSUME q # <<>> PROVE Within(Tail(q)) /\ Head(q).last <= Target
  <2>1. Head(q) = q[1] /\ Len(q) >= 1 /\ Len(q) \in Nat
    BY <1>2
  <2>2. Len(Tail(q)) = Len(q) - 1 /\ \A i \in 1 .. Len(q) - 1 : Tail(q)[i] = q[i+1]
    BY <1>2
  <2>3. QED BY <2>1, <2>2 DEF Within
<1>3. ASSUME NEW e \in Nat, e <= Target PROVE End(q, e) <= Target
  <2>1. CASE q = <<>>
    BY <1>3, <2>1 DEF End
  <2>2. CASE q # <<>>
    <3>1. Len(q) \in 1 .. Len(q)
      BY <2>2
    <3>2. QED BY <2>2, <3>1 DEF End, Within
  <2>3. QED BY <2>1, <2>2
<1>4. QED BY <1>1, <1>2, <1>3

LEMMA ChainStep == TypeOK /\ Control /\ Scanned /\ Chain /\ [Next]_vars => Chain'
<1> DEFINE
      got   == End(received, 0)
      sent  == End(out, got)
      taken == End(held, sent)
      built == End(raw, taken)
      got2   == End(received', 0)
      sent2  == End(out', got2)
      taken2 == End(held', sent2)
      built2 == End(raw', taken2)
      Front == Continues(received', 0) /\ Within(received')
      Middle == Continues(out', got2) /\ Within(out')
      Back  == /\ Continues(held', sent2) /\ Within(held')
               /\ Continues(raw', taken2) /\ Within(raw')
               /\ Continues(pending', built2) /\ Within(pending')
               /\ End(pending', built2) = row'
<1> SUFFICES ASSUME TypeOK, Control, Scanned, Chain, [Next]_vars
             PROVE  /\ Front
                    /\ OutOpen' => Middle
                    /\ OutOpen' /\ RawOpen' => Back
  BY PlanFixed DEF Chain, Continues, End, Within, Target, Total, EndOf
<1>1. /\ Continues(received, 0) /\ Within(received)
      /\ OutOpen => Continues(out, got) /\ Within(out)
      /\ OutOpen /\ RawOpen => /\ Continues(held, sent) /\ Within(held)
                               /\ Continues(raw, taken) /\ Within(raw)
                               /\ Continues(pending, built) /\ Within(pending)
                               /\ End(pending, built) = row
  BY DEF Chain
<1>2. /\ received \in Seq(Item) /\ out \in Seq(Item) /\ held \in Seq(Item)
      /\ raw \in Seq(Item) /\ pending \in Seq(Item) /\ row \in Nat
  BY DEF TypeOK
<1>3. got \in Nat /\ sent \in Nat /\ taken \in Nat /\ built \in Nat
  BY <1>2, EndNat
<1>4. ASSUME UNCHANGED <<received, out, held, raw, pending, row>>,
             OutOpen' => OutOpen, RawOpen' => RawOpen
      PROVE  Front /\ (OutOpen' => Middle) /\ (OutOpen' /\ RawOpen' => Back)
  BY <1>1, <1>4
<1> USE DEF scanVars, guardVars
<1>5. CASE \/ Prepare \/ ResolveSchema \/ Warmup \/ RawDrained \/ Join
           \/ StartWorker \/ NextSegment \/ FinishScan \/ FailScan
           \/ PollEnd \/ DropStream \/ DropGuard \/ UNCHANGED vars
  BY <1>4, <1>5 DEF Prepare, ResolveSchema, StartScan, Warmup, RawDrained, Join, TaskStep,
     StartWorker, NextSegment, FinishScan, FailScan, PollEnd, DropStream, DropGuard, vars,
     OutOpen, RawOpen
<1>6. CASE DropReceiver
  BY <1>1, <1>6 DEF DropReceiver, OutOpen
<1>7. CASE AbortTask \/ PanicTask
  BY <1>1, <1>7 DEF AbortTask, PanicTask, TaskVanishes, OutOpen, RawOpen
<1>8. CASE Poll
  <2>1. out # <<>> /\ received' = Append(received, Head(out)) /\ out' = Tail(out)
    BY <1>8 DEF Poll
  <2>2. OutOpen /\ UNCHANGED <<held, raw, pending, row>> /\ (RawOpen' => RawOpen)
    BY <1>8 DEF Poll, Control, OutOpen, RawOpen
  <2>3. /\ Head(out) \in Item /\ Follows(Head(out), got)
        /\ Continues(Tail(out), Head(out).last) /\ End(Tail(out), Head(out).last) = sent
    BY <1>1, <1>2, <1>3, <2>1, <2>2, TakeItem
  <2>4. Continues(received', 0) /\ got2 = Head(out).last
    BY <1>1, <1>2, <2>1, <2>3, AppendItem
  <2>5. Within(received') /\ Within(out')
    BY <1>1, <1>2, <2>1, <2>2, <2>3, WithinMoves
  <2>6. Middle /\ sent2 = sent
    BY <2>1, <2>3, <2>4, <2>5
  <2> HIDE DEF got, sent, got2, sent2
  <2>7. RawOpen' => Back
    BY <1>1, <2>2, <2>6
  <2>8. QED BY <2>4, <2>5, <2>6, <2>7
<1>9. CASE ReceiveRaw
  <2>1. /\ raw # <<>> /\ held' = <<Head(raw)>> /\ raw' = Tail(raw)
        /\ UNCHANGED <<received, out, pending, row>>
    BY <1>9 DEF ReceiveRaw
  <2>2. held = <<>> /\ RawOpen /\ (OutOpen' => OutOpen)
    BY <1>9 DEF ReceiveRaw, TaskStep, Control, RawOpen, OutOpen
  <2>3. taken = sent
    BY <2>2 DEF End
  <2>4. ASSUME OutOpen PROVE Back
    <3>1. /\ Head(raw) \in Item /\ Follows(Head(raw), sent)
          /\ Continues(Tail(raw), Head(raw).last) /\ End(Tail(raw), Head(raw).last) = built
      BY <1>1, <1>2, <1>3, <2>1, <2>2, <2>3, <2>4, TakeItem
    <3>2. Within(raw') /\ Head(raw).last <= Target
      BY <1>1, <1>2, <2>1, <2>2, <2>4, WithinMoves
    <3>3. sent2 = sent
      BY <2>1
    <3>4. Continues(held', sent2) /\ taken2 = Head(raw).last
      BY <1>3, <2>1, <3>1, <3>3, OneItem
    <3>5. Within(held')
      BY <2>1, <3>2, <3>1, OneItem DEF Within
    <3>6. Continues(raw', taken2) /\ built2 = built
      BY <2>1, <3>1, <3>4
    <3> HIDE DEF sent, taken, built, sent2, taken2, built2
    <3>7. Continues(pending', built2) /\ Within(pending') /\ End(pending', built2) = row'
      BY <1>1, <2>1, <2>2, <2>4, <3>6
    <3>8. QED BY <3>2, <3>4, <3>5, <3>6, <3>7
  <2>5. QED BY <1>1, <2>1, <2>2, <2>4
<1>10. CASE FillDocuments
  <2>1. Len(held) = 1 /\ RawOpen /\ (OutOpen' => OutOpen)
    BY <1>10 DEF FillDocuments, TaskStep, Control, RawOpen, OutOpen
  <2>2. UNCHANGED <<received, out, raw, pending, row>>
    BY <1>10 DEF FillDocuments
  <2>3. UNCHANGED held \/ held' = <<Error(held[1].first, held[1].last)>>
    BY <1>10 DEF FillDocuments
  <2>4. CASE UNCHANGED held
    BY <1>1, <2>1, <2>2, <2>4
  <2>5. CASE held' = <<Error(held[1].first, held[1].last)>>
    <3> DEFINE x == Error(held[1].first, held[1].last)
    <3>1. held[1] \in Item /\ taken = held[1].last
          /\ (Continues(held, sent) <=> Follows(held[1], sent))
      BY <1>2, <1>3, <2>1, FullHand
    <3>2. x \in Item /\ x.last = held[1].last /\ (Follows(held[1], sent) => Follows(x, sent))
      BY <3>1 DEF Error, Item, Follows
    <3>3. sent2 = sent
      BY <2>2
    <3> HIDE DEF x
    <3>4. /\ held' = <<x>> /\ taken2 = x.last
          /\ (Continues(held', sent) <=> Follows(x, sent))
      BY <1>3, <2>5, <3>2, <3>3, OneItem DEF x
    <3>5. taken2 = taken /\ built2 = built
      BY <2>2, <3>1, <3>2, <3>4
    <3>6. Within(held) => Within(held')
      BY <2>1, <3>2, <3>4, OneItem DEF Within
    <3> HIDE DEF sent, taken, built, sent2, taken2, built2
    <3>7. OutOpen => Back
      BY <1>1, <2>1, <2>2, <3>1, <3>2, <3>3, <3>4, <3>5, <3>6
    <3>8. Front /\ (OutOpen' => Middle)
      BY <1>1, <2>1, <2>2
    <3>9. QED BY <2>1, <3>7, <3>8
  <2>6. QED BY <2>3, <2>4, <2>5
<1>11. CASE SendOut
  <2>1. Len(held) = 1 /\ RawOpen /\ (OutOpen' => OutOpen)
    BY <1>11 DEF SendOut, Control, RawOpen, OutOpen
  <2>2. held' = <<>> /\ UNCHANGED <<received, raw, pending, row>>
    BY <1>11 DEF SendOut
  <2>3. CASE ~ OutOpen
    BY <1>1, <2>1, <2>2, <2>3
  <2>4. CASE OutOpen
    <3>1. out' = Append(out, held[1])
      BY <1>11, <2>4 DEF SendOut
    <3>2. held[1] \in Item /\ taken = held[1].last /\ Follows(held[1], sent)
      BY <1>1, <1>2, <1>3, <2>1, <2>4, FullHand
    <3>3. got2 = got
      BY <2>2
    <3>4. Continues(out', got2) /\ sent2 = held[1].last
      BY <1>1, <1>2, <1>3, <2>4, <3>1, <3>2, <3>3, AppendItem
    <3>5. held[1].last <= Target
      BY <1>1, <2>1, <2>4 DEF Within
    <3>6. Within(out')
      BY <1>1, <1>2, <2>4, <3>1, <3>2, <3>5, WithinMoves
    <3>7. Continues(held', sent2) /\ Within(held') /\ taken2 = sent2
      BY <2>2, NoItem
    <3>8. taken2 = taken /\ built2 = built
      BY <2>2, <3>2, <3>4, <3>7
    <3> HIDE DEF got, sent, taken, built, got2, sent2, taken2, built2
    <3>9. Front /\ Middle /\ Back
      BY <1>1, <2>1, <2>2, <2>4, <3>3, <3>4, <3>6, <3>7, <3>8 DEF got, got2
    <3>10. QED BY <3>9
  <2>5. QED BY <2>3, <2>4
<1>12. CASE SendError
  <2>1. held = <<>> /\ RawOpen /\ (OutOpen' => OutOpen)
    BY <1>12 DEF SendError, TaskStep, Control, RawOpen, OutOpen
  <2>2. UNCHANGED <<received, held, raw, pending, row>>
    BY <1>12 DEF SendError
  <2>3. CASE ~ OutOpen
    BY <1>1, <2>1, <2>2, <2>3
  <2>4. CASE OutOpen
    <3> DEFINE x == Error(sent + 1, sent)
    <3>1. out' = Append(out, x)
      BY <1>12, <2>4 DEF SendError
    <3>2. x \in Item /\ x.last = sent /\ Follows(x, sent)
      BY <1>3 DEF Error, Item, Follows
    <3>3. sent <= Target
      <4>1. got <= Target
        BY <1>1, <1>2, WithinMoves, TotalNat
      <4>2. QED BY <1>1, <1>2, <1>3, <2>4, <4>1, WithinMoves
    <3>4. got2 = got
      BY <2>2
    <3> HIDE DEF x
    <3>5. Continues(out', got2) /\ sent2 = sent
      BY <1>1, <1>2, <1>3, <2>4, <3>1, <3>2, <3>4, AppendItem
    <3>6. Within(out')
      BY <1>1, <1>2, <2>4, <3>1, <3>2, <3>3, WithinMoves
    <3>7. taken2 = taken /\ built2 = built
      BY <2>2, <3>5
    <3> HIDE DEF got, sent, taken, built, got2, sent2, taken2, built2
    <3>8. Front /\ Middle /\ Back
      BY <1>1, <2>1, <2>2, <2>4, <3>4, <3>5, <3>6, <3>7 DEF got, got2
    <3>9. QED BY <3>8
  <2>5. QED BY <2>3, <2>4
<1>13. CASE BuildBatch
  <2> DEFINE n == Min2(remaining, Min2(plan.batchSize, EndOf(segment) - row))
  <2>1. /\ pending' = <<Batch(row + 1, row + n)>> /\ row' = row + n
        /\ UNCHANGED <<received, out, held, raw>> /\ (OutOpen' => OutOpen)
        /\ (RawOpen' => RawOpen)
    BY <1>13 DEF BuildBatch, Taken, Chunk, OutOpen, RawOpen
  <2>2. pending = <<>>
    BY <1>13 DEF BuildBatch, Control
  <2>3. row' \in Nat /\ row + 1 <= row'
    <3>1. EndOf(segment) \in Nat /\ row < EndOf(segment) /\ remaining \in Nat \ {0}
          /\ plan.batchSize \in Nat \ {0}
      BY <1>13, EndOfNat, PlanType DEF BuildBatch, TypeOK
    <3>2. n \in Nat \ {0}
      BY <3>1, <1>2 DEF Min2
    <3> HIDE DEF n
    <3>3. QED BY <1>2, <2>1, <3>2
  <2>4. ASSUME OutOpen, RawOpen PROVE Back
    <3> DEFINE x == Batch(row + 1, row')
    <3>1. built = row
      BY <1>1, <2>2, <2>4 DEF End
    <3>2. x \in Item /\ x.last = row' /\ Follows(x, row)
      <4>0. row \in Nat
        BY <1>2
      <4>1. row + 1 \in Nat \ {0} /\ row + 1 <= row' /\ row + 1 <= row' + 1 /\ row' \in Nat
        <5>1. \A a, b \in Nat : a + 1 <= b => a + 1 \in Nat \ {0} /\ a + 1 <= b + 1
          OBVIOUS
        <5>2. row' \in Nat /\ row + 1 <= row'
          BY <2>3
        <5>3. QED BY <4>0, <5>1, <5>2
      <4>2. x.first = row + 1 /\ x.last = row' /\ x \in Item
        BY <4>1 DEF Batch, Item
      <4>3. QED BY <4>1, <4>2 DEF Follows
    <3>3. pending' = <<x>>
      BY <2>1
    <3> HIDE DEF x
    <3>4. built2 = built
      BY <2>1
    <3>5. Continues(pending', built2) /\ End(pending', built2) = row'
      BY <1>2, <3>1, <3>2, <3>3, <3>4, OneItem
    <3>6. row' <= Target
      <4>1. TypeOK' /\ Scanned' /\ RawOpen'
        BY <1>13, <2>4, TypeStep, ScannedStep DEF BuildBatch, RawOpen
      <4>2. (row <= Target)'
        BY <4>1, RowOwed, PTL
      <4>3. QED BY <4>2, PlanFixed DEF Target, Total, EndOf
    <3>7. Within(pending')
      BY <3>2, <3>3, <3>6, OneItem DEF Within
    <3>8. QED
      BY <1>1, <2>1, <2>4, <3>5, <3>7
  <2>5. QED BY <1>1, <2>1, <2>4
<1>14. CASE SendRaw
  <2>1. Len(pending) = 1 /\ pending' = <<>> /\ UNCHANGED <<received, out, held>>
        /\ (OutOpen' => OutOpen) /\ (RawOpen' => RawOpen)
    BY <1>14 DEF SendRaw, Control, OutOpen, RawOpen
  <2>2. ASSUME OutOpen, RawOpen PROVE Back
    <3>1. raw' = Append(raw, pending[1]) /\ UNCHANGED row
      BY <1>14, <2>2 DEF SendRaw
    <3>2. pending[1] \in Item /\ Follows(pending[1], built) /\ pending[1].last = row
      BY <1>1, <1>2, <1>3, <2>1, <2>2, FullHand
    <3>3. taken2 = taken /\ sent2 = sent
      BY <2>1
    <3>4. Continues(raw', taken2) /\ built2 = row
      BY <1>1, <1>2, <1>3, <2>2, <3>1, <3>2, <3>3, AppendItem
    <3>5. pending[1].last <= Target
      BY <1>1, <2>1, <2>2 DEF Within
    <3>6. Within(raw')
      BY <1>1, <1>2, <2>2, <3>1, <3>2, <3>5, WithinMoves
    <3>7. Continues(pending', built2) /\ Within(pending') /\ End(pending', built2) = row'
      BY <2>1, <3>1, <3>4, NoItem
    <3>8. QED BY <1>1, <2>1, <2>2, <3>3, <3>4, <3>6, <3>7
  <2>3. QED BY <1>1, <2>1, <2>2
<1>15. QED
  BY <1>5, <1>6, <1>7, <1>8, <1>9, <1>10, <1>11, <1>12, <1>13, <1>14
     DEF Next, Task, Worker, Teardown, Terminated

\* A stream that nobody has dropped and that ended without an error of its
\* task has delivered what it owes.
LEMMA DrainedIsComplete ==
    ASSUME TypeOK, Control, Scanned, Chain,
           consumer = "polling", stage = "done", out = <<>>, worker = "ok"
    PROVE  End(received, 0) = Target
<1>1. OutOpen /\ RawOpen /\ ~ Cancelled
  BY DEF Control, RawOpen
<1>2. held = <<>> /\ raw = <<>> /\ pending = <<>>
  BY <1>1 DEF Control
<1>3. End(pending, End(raw, End(held, End(out, End(received, 0))))) = row
  BY <1>1 DEF Chain
<1>4. End(received, 0) = row
  BY <1>2, <1>3, NoItem
<1>5. row = Target
  BY <1>1 DEF Scanned
<1>6. QED BY <1>4, <1>5

\* Only the tail of a queue with one item is empty.
LEMMA TailOfOne ==
    ASSUME NEW q \in Seq(Item), q # <<>>, Tail(q) = <<>>
    PROVE  Len(q) = 1
<1>1. Len(q) \in Nat /\ Len(q) >= 1
  OBVIOUS
<1>2. Len(Tail(q)) = Len(q) - 1
  OBVIOUS
<1>3. Tail(q) \in Seq(Item)
  OBVIOUS
<1>4. Len(Tail(q)) = 0
  BY <1>3, EmptySeq, Zenon
<1>5. QED BY <1>1, <1>2, <1>4

\* The item that ends a queue decides whether the queue has failed.
LEMMA FailedMoves ==
    /\ \A q \in Seq(Item), x \in Item : Failed(Append(q, x)) <=> Terminal(x)
    /\ \A q \in Seq(Item) : q # <<>> /\ Tail(q) # <<>> => (Failed(Tail(q)) <=> Failed(q))
    /\ \A q \in Seq(Item) : q # <<>> /\ Tail(q) = <<>> => (Terminal(Head(q)) <=> Failed(q))
<1>1. ASSUME NEW q \in Seq(Item), NEW x \in Item
      PROVE  Failed(Append(q, x)) <=> Terminal(x)
  BY AppendProperties DEF Failed
<1>2. ASSUME NEW q \in Seq(Item), q # <<>>, Tail(q) # <<>>
      PROVE  Failed(Tail(q)) <=> Failed(q)
  <2>1. Tail(q) \in Seq(Item) /\ Len(Tail(q)) = Len(q) - 1
        /\ \A i \in 1 .. Len(q) - 1 : Tail(q)[i] = q[i+1]
    BY <1>2
  <2>2. Len(Tail(q)) \in Nat \ {0} /\ Len(Tail(q)) + 1 = Len(q)
    BY <1>2, <2>1, EmptySeq
  <2>3. Tail(q)[Len(Tail(q))] = q[Len(q)]
    BY <2>1, <2>2
  <2>4. QED BY <1>2, <2>3 DEF Failed
<1>3. ASSUME NEW q \in Seq(Item), q # <<>>, Tail(q) = <<>>
      PROVE  Terminal(Head(q)) <=> Failed(q)
  <2>1. Len(q) = 1
    BY <1>3, TailOfOne
  <2>2. Head(q) = q[1]
    BY <1>3
  <2>3. QED BY <1>3, <2>1, <2>2 DEF Failed
<1>4. QED BY <1>1, <1>2, <1>3

LEMMA OutcomeStep ==
    TypeOK /\ Control /\ Scanned /\ Chain /\ Outcome /\ [Next]_vars => Outcome'
<1> DEFINE
      DoneAfter == worker' = "ok" \/ Failed(IF out' = <<>> THEN received' ELSE out')
      EndAfter == \/ stage' = "panicked"
                  \/ stage' = "done" /\ Failed(received')
                  \/ stage' = "done" /\ worker' = "ok" /\ End(received', 0) = Target
<1> SUFFICES ASSUME TypeOK, Control, Scanned, Chain, Outcome, [Next]_vars
             PROVE  /\ OutOpen' /\ stage' = "done" => DoneAfter
                    /\ consumer' = "finished" => EndAfter
  BY PlanFixed DEF Outcome, Failed, Terminal, End, Target, Total, EndOf
<1> USE DEF scanVars, guardVars
<1>1. ASSUME UNCHANGED <<out, received, stage>>, OutOpen' => OutOpen,
             worker = "ok" => worker' = "ok"
      PROVE  /\ OutOpen' /\ stage' = "done" => DoneAfter
             /\ consumer = "finished" => EndAfter
  BY <1>1 DEF Outcome
<1>2. CASE StartWorker \/ NextSegment \/ BuildBatch \/ SendRaw \/ FinishScan \/ FailScan
           \/ DropStream \/ DropGuard \/ UNCHANGED vars
  BY <1>1, <1>2 DEF StartWorker, NextSegment, BuildBatch, SendRaw, FinishScan, FailScan,
     DropStream, DropGuard, vars, OutOpen
<1>3. CASE DropReceiver
  BY <1>3 DEF DropReceiver, Outcome, OutOpen
<1>4. CASE AbortTask \/ PanicTask
  BY <1>4 DEF AbortTask, PanicTask, TaskVanishes, TaskGone, Outcome
<1>5. CASE Prepare \/ ResolveSchema \/ Warmup \/ ReceiveRaw \/ RawDrained \/ FillDocuments
           \/ SendOut \/ Join
  BY <1>5 DEF Prepare, ResolveSchema, StartScan, Warmup, ReceiveRaw, RawDrained,
     FillDocuments, SendOut, Join, TaskStep, Outcome
<1>6. CASE SendError
  <2> DEFINE sent == End(out, End(received, 0))
             x == Error(sent + 1, sent)
  <2>1. sent \in Nat /\ out \in Seq(Item)
    BY EndNat DEF TypeOK
  <2>2. x \in Item /\ Terminal(x)
    BY <2>1 DEF Error, Item, Terminal
  <2>3. stage = "report" /\ consumer' = consumer
    BY <1>6 DEF SendError, TaskStep
  <2>4. CASE OutOpen
    <3>1. out' = Append(out, x)
      BY <1>6, <2>4 DEF SendError
    <3> HIDE DEF x
    <3>2. Failed(out') /\ out' # <<>>
      BY <2>1, <2>2, <3>1, FailedMoves, AppendProperties
    <3>3. QED BY <2>3, <3>2 DEF Outcome
  <2>5. CASE ~ OutOpen
    BY <1>6, <2>3, <2>5 DEF SendError, OutOpen, Outcome
  <2>6. QED BY <2>4, <2>5
<1>7. CASE Poll
  <2>1. out # <<>> /\ received' = Append(received, Head(out)) /\ out' = Tail(out)
        /\ UNCHANGED <<stage, worker, consumer>> /\ consumer = "polling" /\ OutOpen
    BY <1>7 DEF Poll, Control
  <2>2. out \in Seq(Item) /\ received \in Seq(Item) /\ Head(out) \in Item
    BY <2>1 DEF TypeOK
  <2>3. stage = "done" => worker = "ok" \/ Failed(out)
    BY <2>1 DEF Outcome
  <2>4. Failed(out) => Failed(IF out' = <<>> THEN received' ELSE out')
    BY <2>1, <2>2, FailedMoves
  <2>5. QED BY <2>1, <2>3, <2>4
<1>8. CASE PollEnd
  <2>1. consumer = "polling" /\ out = <<>> /\ TaskGone /\ UNCHANGED <<out, received, stage, worker>>
        /\ (OutOpen' => OutOpen)
    BY <1>8 DEF PollEnd, OutClosed, OutOpen
  <2>2. OutOpen /\ stage \in {"done", "panicked"}
    BY <2>1 DEF Control, TaskGone, Aborting, Cancelled
  <2>3. worker = "ok" /\ stage = "done" => End(received, 0) = Target
    BY <2>1, DrainedIsComplete
  <2>4. stage = "done" => worker = "ok" \/ Failed(received)
    BY <2>1, <2>2 DEF Outcome
  <2>5. QED BY <2>1, <2>2, <2>3, <2>4
<1>9. QED
  BY <1>2, <1>3, <1>4, <1>5, <1>6, <1>7, <1>8
     DEF Next, Task, Worker, Teardown, Terminated
\* A queue stays substantial when a substantial item is appended, or its
\* first item taken.
LEMMA SubstantialMoves ==
    /\ Substantial(<<>>)
    /\ \A q \in Seq(Item), x \in Item :
          Substantial(q) /\ ~ Terminal(x) => Substantial(Append(q, x))
    /\ \A q \in Seq(Item) :
          Substantial(q) /\ q # <<>> => Substantial(Tail(q)) /\ ~ Terminal(Head(q))
<1>1. Substantial(<<>>)
  BY DEF Substantial
<1>2. ASSUME NEW q \in Seq(Item), NEW x \in Item, Substantial(q), ~ Terminal(x)
      PROVE  Substantial(Append(q, x))
  <2>1. Len(Append(q, x)) = Len(q) + 1 /\ Append(q, x)[Len(q) + 1] = x
    OBVIOUS
  <2>2. \A i \in 1 .. Len(q) : Append(q, x)[i] = q[i]
    OBVIOUS
  <2>3. QED BY <1>2, <2>1, <2>2 DEF Substantial
<1>3. ASSUME NEW q \in Seq(Item), Substantial(q), q # <<>>
      PROVE  Substantial(Tail(q)) /\ ~ Terminal(Head(q))
  <2>1. Len(Tail(q)) = Len(q) - 1 /\ \A i \in 1 .. Len(q) - 1 : Tail(q)[i] = q[i+1]
    BY <1>3
  <2>2. Head(q) = q[1] /\ Len(q) \in Nat /\ Len(q) >= 1
    BY <1>3
  <2>3. QED BY <1>3, <2>1, <2>2 DEF Substantial
<1>4. QED BY <1>1, <1>2, <1>3

\* What a full hand holds when it is substantial.
LEMMA SubstantialHand ==
    ASSUME NEW x \in Item, ~ Terminal(x)
    PROVE  Substantial(<<x>>)
BY DEF Substantial

LEMMA LastWordStep ==
    TypeOK /\ Control /\ Scanned /\ LastWord /\ [Next]_vars => LastWord'
<1> DEFINE
      Last(q, s) == \A i \in 1 .. Len(q) : Terminal(q[i]) => i = Len(q) /\ s = "done"
<1> SUFFICES ASSUME TypeOK, Control, Scanned, LastWord, [Next]_vars
             PROVE  /\ Substantial(held') /\ Substantial(raw') /\ Substantial(pending')
                    /\ OutOpen' => /\ Last(out', stage')
                                   /\ Failed(received') => stage' = "done" /\ out' = <<>>
  BY DEF LastWord, Substantial, Failed, Terminal
<1> USE DEF scanVars, guardVars
<1>1. /\ Substantial(held) /\ Substantial(raw) /\ Substantial(pending)
      /\ OutOpen => /\ Last(out, stage)
                    /\ Failed(received) => stage = "done" /\ out = <<>>
  BY DEF LastWord
<1>2. held \in Seq(Item) /\ raw \in Seq(Item) /\ pending \in Seq(Item)
      /\ out \in Seq(Item) /\ received \in Seq(Item)
  BY DEF TypeOK
<1> HIDE DEF Last
<1>3. CASE Prepare \/ ResolveSchema \/ Warmup \/ RawDrained \/ Join
  <2>1. UNCHANGED <<held, raw, pending, out, received, receiver>>
    BY <1>3 DEF Prepare, ResolveSchema, Warmup, RawDrained, Join
  <2>2. stage # "done"
    BY <1>3 DEF Prepare, ResolveSchema, Warmup, RawDrained, Join, TaskStep
  <2>3. OutOpen => \A i \in 1 .. Len(out) : ~ Terminal(out[i])
    BY <1>1, <2>2 DEF Last
  <2>4. QED BY <1>1, <2>1, <2>2, <2>3 DEF Last, OutOpen
<1>4. CASE ReceiveRaw
  <2>1. raw # <<>> /\ held' = <<Head(raw)>> /\ raw' = Tail(raw) /\ stage = "forward"
        /\ UNCHANGED <<pending, out, received, receiver>>
    BY <1>4 DEF ReceiveRaw, TaskStep
  <2>2. Head(raw) \in Item
    BY <1>2, <2>1
  <2>3. Substantial(raw') /\ Substantial(held')
    BY <1>1, <1>2, <2>1, <2>2, SubstantialMoves, SubstantialHand
  <2>4. OutOpen => \A i \in 1 .. Len(out) : ~ Terminal(out[i])
    BY <1>1, <2>1 DEF Last
  <2>5. QED BY <1>1, <2>1, <2>3, <2>4 DEF Last, OutOpen
<1>5. CASE FillDocuments
  <2>1. stage = "fill" /\ UNCHANGED <<raw, pending, out, received, receiver>>
    BY <1>5 DEF FillDocuments, TaskStep
  <2>2. Len(held) = 1
    BY <2>1 DEF Control
  <2>3. held[1] \in Item /\ ~ Terminal(held[1])
    BY <1>1, <1>2, <2>2, FullHand DEF Substantial
  <2>4. Error(held[1].first, held[1].last) \in Item
        /\ ~ Terminal(Error(held[1].first, held[1].last))
    BY <2>3 DEF Error, Item, Terminal
  <2>5. Substantial(held')
    <3>1. CASE held' = held
      BY <1>1, <3>1
    <3>2. CASE held' = <<Error(held[1].first, held[1].last)>>
      BY <2>4, <3>2, SubstantialHand
    <3>3. QED BY <1>5, <3>1, <3>2 DEF FillDocuments
  <2>6. OutOpen => \A i \in 1 .. Len(out) : ~ Terminal(out[i])
    BY <1>1, <2>1 DEF Last
  <2>7. QED BY <1>1, <2>1, <2>5, <2>6 DEF Last, OutOpen
<1>6. CASE SendOut
  <2>1. stage = "send" /\ held' = <<>> /\ UNCHANGED <<raw, pending, received, receiver>>
    BY <1>6 DEF SendOut
  <2>2. Len(held) = 1
    BY <2>1 DEF Control
  <2>3. held[1] \in Item /\ ~ Terminal(held[1])
    BY <1>1, <1>2, <2>2, FullHand DEF Substantial
  <2>4. OutOpen => Substantial(out) /\ ~ Failed(received)
    BY <1>1, <2>1 DEF Last, Substantial
  <2>5. CASE OutOpen
    <3>1. out' = Append(out, held[1])
      BY <1>6, <2>5 DEF SendOut
    <3>2. Substantial(out') /\ out' \in Seq(Item)
      BY <1>2, <2>3, <2>4, <2>5, <3>1, SubstantialMoves, AppendProperties
    <3>3. Last(out', stage')
      BY <3>2 DEF Substantial, Last
    <3>4. QED BY <1>1, <2>1, <2>4, <2>5, <3>3, SubstantialMoves
  <2>6. CASE ~ OutOpen
    BY <1>1, <2>1, <2>6, SubstantialMoves DEF OutOpen
  <2>7. QED BY <2>5, <2>6
<1>7. CASE SendError
  <2> DEFINE sent == End(out, End(received, 0))
             x == Error(sent + 1, sent)
  <2>1. stage = "report" /\ stage' = "done" /\ UNCHANGED <<held, raw, pending, received, receiver>>
    BY <1>7 DEF SendError, TaskStep
  <2>2. x \in Item
    <3>1. sent \in Nat
      BY <1>2, EndNat
    <3>2. QED BY <3>1 DEF Error, Item
  <2>3. CASE OutOpen
    <3>1. out' = Append(out, x)
      BY <1>7, <2>3 DEF SendError
    <3> HIDE DEF x
    <3>2. Len(out') = Len(out) + 1 /\ Len(out) \in Nat
          /\ \A i \in 1 .. Len(out) : out'[i] = out[i]
      BY <1>2, <2>2, <3>1, AppendProperties
    <3>3. \A i \in 1 .. Len(out) : ~ Terminal(out[i])
      BY <1>1, <2>1, <2>3 DEF Last
    <3>4. Last(out', stage')
      BY <2>1, <3>2, <3>3 DEF Last
    <3>5. ~ Failed(received)
      BY <1>1, <2>1, <2>3
    <3>6. QED BY <1>1, <2>1, <3>4, <3>5
  <2>4. CASE ~ OutOpen
    BY <1>1, <2>1, <2>4 DEF OutOpen
  <2>5. QED BY <2>3, <2>4
<1>8. CASE AbortTask \/ PanicTask
  <2>1. held' = <<>> /\ raw' = <<>> /\ UNCHANGED <<pending, out, received, receiver>>
    BY <1>8 DEF AbortTask, PanicTask, TaskVanishes
  <2>2. stage # "done"
    BY <1>8 DEF AbortTask, PanicTask, TaskGone
  <2>3. OutOpen => \A i \in 1 .. Len(out) : ~ Terminal(out[i])
    BY <1>1, <2>2 DEF Last
  <2>4. QED BY <1>1, <2>1, <2>2, <2>3, SubstantialMoves DEF Last, OutOpen
<1>9. CASE StartWorker \/ NextSegment \/ FinishScan \/ FailScan \/ PollEnd \/ DropStream
           \/ DropGuard \/ UNCHANGED vars
  <2>1. UNCHANGED <<held, raw, pending, out, received, receiver, stage>>
    BY <1>9 DEF StartWorker, NextSegment, FinishScan, FailScan, PollEnd, DropStream, DropGuard, vars
  <2>2. QED BY <1>1, <2>1 DEF OutOpen
<1>10. CASE BuildBatch
  <2> DEFINE chunk == Min2(plan.batchSize, EndOf(segment) - row)
             taken == Min2(remaining, chunk)
             x == Batch(row + 1, row + taken)
  <2>1. pending' = <<x>> /\ UNCHANGED <<held, raw, out, received, receiver, stage>>
        /\ segment <= Len(plan.ends) /\ remaining > 0 /\ row < EndOf(segment)
    BY <1>10 DEF BuildBatch, Taken, Chunk
  <2>2. segment \in Nat \ {0} /\ row \in Nat /\ remaining \in Nat /\ plan.batchSize \in Nat \ {0}
        /\ Len(plan.ends) \in Nat
    BY PlanType, PlansAssumption DEF TypeOK, Plan
  <2>3. EndOf(segment) \in Nat
    BY <2>1, <2>2, EndOfNat
  <2>4. taken \in Nat \ {0}
    BY <2>1, <2>2, <2>3 DEF Min2
  <2> HIDE DEF taken
  <2>5. x \in Item /\ ~ Terminal(x)
    BY <2>2, <2>4 DEF Batch, Item, Terminal
  <2>6. Substantial(pending')
    BY <2>1, <2>5, SubstantialHand
  <2>7. QED BY <1>1, <2>1, <2>6 DEF OutOpen
<1>11. CASE SendRaw
  <2>1. worker = "send" /\ pending' = <<>> /\ UNCHANGED <<held, out, received, receiver, stage>>
    BY <1>11 DEF SendRaw
  <2>2. Len(pending) = 1
    BY <2>1 DEF Control
  <2>3. pending[1] \in Item /\ ~ Terminal(pending[1])
    BY <1>1, <1>2, <2>2, FullHand DEF Substantial
  <2>4. Substantial(raw')
    <3>1. CASE raw' = Append(raw, pending[1])
      BY <1>1, <1>2, <2>3, <3>1, SubstantialMoves
    <3>2. CASE raw' = raw
      BY <1>1, <3>2
    <3>3. QED BY <1>11, <3>1, <3>2 DEF SendRaw
  <2>5. QED BY <1>1, <2>1, <2>4, SubstantialMoves DEF OutOpen
<1>12. CASE Poll
  <2>1. out # <<>> /\ received' = Append(received, Head(out)) /\ out' = Tail(out)
        /\ UNCHANGED <<held, raw, pending, stage, receiver>> /\ OutOpen
    BY <1>12 DEF Poll, Control
  <2>2. Head(out) \in Item /\ Len(out) \in Nat \ {0} /\ Head(out) = out[1]
    BY <1>2, <2>1, EmptySeq
  <2>3. Len(out') = Len(out) - 1 /\ \A i \in 1 .. Len(out) - 1 : out'[i] = out[i+1]
        /\ out' \in Seq(Item)
    BY <1>2, <2>1
  <2>4. Last(out', stage')
    <3> SUFFICES ASSUME NEW i \in 1 .. Len(out'), Terminal(out'[i])
                 PROVE  i = Len(out') /\ stage' = "done"
      BY DEF Last
    <3>1. i + 1 \in 1 .. Len(out) /\ Terminal(out[i+1])
      BY <2>2, <2>3
    <3>2. i + 1 = Len(out) /\ stage = "done"
      BY <1>1, <2>1, <3>1 DEF Last
    <3>3. i + 1 = Len(out') + 1 /\ i \in Nat /\ Len(out') \in Nat
      BY <2>2, <2>3, <3>2
    <3>4. i = Len(out')
      BY <3>3
    <3>5. QED BY <2>1, <3>2, <3>4
  <2>5. Failed(received') => stage' = "done" /\ out' = <<>>
    <3> SUFFICES ASSUME Failed(received') PROVE stage = "done" /\ out' = <<>>
      BY <2>1
    <3>1. Terminal(out[1])
      BY <1>2, <2>1, <2>2, FailedMoves
    <3>2. 1 \in 1 .. Len(out)
      BY <2>2
    <3>3. Len(out) = 1 /\ stage = "done"
      BY <1>1, <2>1, <3>1, <3>2 DEF Last
    <3>4. Len(out') = 0
      BY <2>3, <3>3
    <3>5. QED BY <2>3, <3>3, <3>4, EmptySeq
  <2>6. QED BY <1>1, <2>1, <2>4, <2>5
<1>13. CASE DropReceiver
  BY <1>1, <1>13 DEF DropReceiver, OutOpen
<1>14. QED
  BY <1>3, <1>4, <1>5, <1>6, <1>7, <1>8, <1>9, <1>10, <1>11, <1>12, <1>13
     DEF Next, Task, Worker, Teardown, Terminated
\* Only an error can be terminal.
LEMMA FailedHasError == TypeOK /\ Chain /\ Failed(received) => HasError(received)
<1> SUFFICES ASSUME TypeOK, Chain, Failed(received), ~ HasError(received) PROVE FALSE
  OBVIOUS
<1>1. received \in Seq(Item) /\ received # <<>>
  BY DEF TypeOK, Failed
<1>2. Len(received) \in 1 .. Len(received)
  BY <1>1, EmptySeq
<1>3. received[Len(received)] \in Item
  BY <1>1, <1>2
<1>4. received[Len(received)].kind = "batch"
  BY <1>2, <1>3 DEF HasError, Item
<1>5. received[Len(received)].first <= received[Len(received)].last
  BY <1>2, <1>4 DEF Chain, Continues, Follows
<1>6. received[Len(received)].first > received[Len(received)].last
  BY DEF Failed, Terminal
<1>7. QED BY <1>3, <1>5, <1>6 DEF Item
-----------------------------------------------------------------------------
(***************************************************************************)
(* How far the worker runs ahead.                                          *)
(***************************************************************************)
\* Rows adds up like the number of batches.
LEMMA RowsAdd ==
    ASSUME TypeOK, NEW m \in Nat, NEW n \in Nat
    PROVE  /\ Rows(m) \in Nat /\ Rows(0) = 0 /\ Rows(1) = plan.batchSize
           /\ Rows(m + n) = Rows(m) + Rows(n)
           /\ m <= n => Rows(m) <= Rows(n)
<1>1. plan.batchSize \in Nat
  BY PlanType
<1>2. \A b \in Nat : /\ m * b \in Nat /\ n * b \in Nat /\ 0 * b = 0 /\ 1 * b = b
                     /\ (m + n) * b = m * b + n * b
  OBVIOUS
<1>3. ASSUME m <= n, NEW b \in Nat PROVE m * b <= n * b
  <2>1. n - m \in Nat /\ n = (n - m) + m
    BY <1>3
  <2>2. \A d \in Nat : d * b \in Nat /\ (d + m) * b = d * b + m * b
    OBVIOUS
  <2>3. (n - m) * b \in Nat /\ n * b = (n - m) * b + m * b
    BY <2>1, <2>2
  <2> QED BY <1>2, <2>3
<1> QED BY <1>1, <1>2, <1>3 DEF Rows

\* A queue keeps its pace when it takes in an item that is no longer than a
\* batch, and when it hands one out.
LEMMA PacedAppend ==
    ASSUME TypeOK, NEW q \in Seq(Item), NEW e \in Nat, NEW x \in Item,
           Paced(q, e), x.last <= End(q, e) + plan.batchSize
    PROVE  Paced(Append(q, x), e)
<1> DEFINE r == Append(q, x)
<1>1. /\ Len(r) = Len(q) + 1 /\ Len(q) \in Nat
      /\ r[Len(q) + 1] = x
      /\ \A i \in 1 .. Len(q) : r[i] = q[i] /\ q[i] \in Item
  BY AppendProperties
<1>2. End(r, e) = x.last
  BY <1>1, AppendProperties DEF End
<1>3. End(q, e) \in Nat /\ x.last \in Nat /\ plan.batchSize \in Nat
  BY EndNat, PlanType DEF Item
<1> HIDE DEF r
<1> SUFFICES ASSUME NEW i \in 1 .. Len(q) + 1
             PROVE  End(r, e) <= (IF i = 1 THEN e ELSE r[i-1].last) + Rows(Len(q) + 1 - i + 1)
  BY <1>1 DEF Paced, r
<1>4. CASE i = Len(q) + 1
  <2>1. (IF i = 1 THEN e ELSE r[i-1].last) = End(q, e)
    <3>1. CASE q = <<>>
      BY <3>1, <1>4 DEF End
    <3>2. CASE q # <<>>
      <4>1. Len(q) # 0
        BY <3>2, EmptySeq
      <4> QED BY <1>1, <1>4, <3>2, <4>1 DEF End
    <3> QED BY <3>1, <3>2
  <2>2. Len(q) + 1 - i + 1 = 1
    BY <1>1, <1>4
  <2>3. Rows(1) = plan.batchSize
    BY RowsAdd
  <2> QED BY <1>2, <1>3, <2>1, <2>2, <2>3
<1>5. CASE i \in 1 .. Len(q)
  <2> DEFINE before == IF i = 1 THEN e ELSE q[i-1].last
             n == Len(q) - i + 1
  <2>1. (IF i = 1 THEN e ELSE r[i-1].last) = before /\ before \in Nat
    <3>1. CASE i = 1
      BY <3>1
    <3>2. CASE i # 1
      <4>1. i - 1 \in 1 .. Len(q)
        BY <1>1, <1>5, <3>2
      <4> QED BY <1>1, <3>2, <4>1 DEF Item
    <3> QED BY <3>1, <3>2
  <2>2. n \in Nat /\ Len(q) + 1 - i + 1 = n + 1
    BY <1>1, <1>5
  <2>3. End(q, e) <= before + Rows(n)
    BY <1>5 DEF Paced
  <2> HIDE DEF before, n
  <2>4. /\ Rows(1) = plan.batchSize /\ Rows(n) \in Nat
        /\ Rows(n + 1) = Rows(n) + Rows(1)
    <3>1. n \in Nat /\ 1 \in Nat
      BY <2>2
    <3> QED BY ONLY <3>1, TypeOK, RowsAdd
  <2>5. Rows(Len(q) + 1 - i + 1) = Rows(n) + plan.batchSize
    BY ONLY <2>2, <2>4
  <2>6. x.last <= before + Rows(Len(q) + 1 - i + 1)
    BY ONLY SMTT(60), <1>3, <2>1, <2>3, <2>4, <2>5, x.last <= End(q, e) + plan.batchSize
  <2> QED BY ONLY <1>2, <2>1, <2>6
<1> QED BY <1>1, <1>4, <1>5

LEMMA PacedTail ==
    ASSUME TypeOK, NEW q \in Seq(Item), NEW e \in Nat, q # <<>>, Continues(q, e), Paced(q, e)
    PROVE  Paced(Tail(q), Head(q).last)
<1> DEFINE r == Tail(q)
<1>1. /\ Head(q) = q[1] /\ Len(q) \in Nat /\ Len(q) >= 1
      /\ Len(r) = Len(q) - 1 /\ \A i \in 1 .. Len(q) - 1 : r[i] = q[i+1]
  OBVIOUS
<1>2. End(r, Head(q).last) = End(q, e)
  BY TakeItem
<1> HIDE DEF r
<1> SUFFICES ASSUME NEW i \in 1 .. Len(q) - 1
             PROVE  End(q, e) <= (IF i = 1 THEN q[1].last ELSE r[i-1].last) + Rows(Len(q) - 1 - i + 1)
  BY <1>1, <1>2 DEF Paced, r
<1>3. i + 1 \in 1 .. Len(q) /\ i + 1 # 1 /\ (i + 1) - 1 = i /\ Len(q) - (i + 1) + 1 = Len(q) - 1 - i + 1
  BY <1>1
<1>4. End(q, e) <= q[i].last + Rows(Len(q) - 1 - i + 1)
  <2>1. End(q, e) <= q[(i + 1) - 1].last + Rows(Len(q) - (i + 1) + 1)
    BY <1>3 DEF Paced
  <2> QED BY ONLY <1>3, <2>1
<1>5. (IF i = 1 THEN q[1].last ELSE r[i-1].last) = q[i].last
  <2>1. CASE i = 1
    BY <2>1
  <2>2. CASE i # 1
    <3>1. i - 1 \in 1 .. Len(q) - 1 /\ (i - 1) + 1 = i
      BY <1>1, <2>2
    <3> QED BY <1>1, <2>2, <3>1
  <2> QED BY <2>1, <2>2
<1> QED BY <1>4, <1>5

\* A queue that keeps its pace spans a batch for each of its items.
LEMMA PacedSpan ==
    ASSUME TypeOK, NEW q \in Seq(Item), NEW e \in Nat, Paced(q, e)
    PROVE  End(q, e) <= e + Rows(Len(q))
<1>1. CASE q = <<>>
  BY <1>1, RowsAdd DEF End
<1>2. CASE q # <<>>
  <2>1. 1 \in 1 .. Len(q) /\ Len(q) - 1 + 1 = Len(q)
    BY <1>2, EmptySeq
  <2>2. End(q, e) <= e + Rows(Len(q) - 1 + 1)
    BY <2>1 DEF Paced
  <2> QED BY ONLY <2>1, <2>2
<1> QED BY <1>1, <1>2

\* Items that move keep their size.
LEMMA SizedMoves ==
    ASSUME TypeOK, NEW q \in Seq(Item), Sized(q)
    PROVE  /\ \A x \in Item : x.last < x.first + plan.batchSize => Sized(Append(q, x)) /\ Sized(<<x>>)
           /\ q # <<>> => Sized(Tail(q)) /\ Head(q).last < Head(q).first + plan.batchSize
           /\ Sized(<<>>)
<1>1. ASSUME NEW x \in Item, x.last < x.first + plan.batchSize PROVE Sized(Append(q, x)) /\ Sized(<<x>>)
  BY <1>1, AppendProperties DEF Sized
<1>2. ASSUME q # <<>> PROVE Sized(Tail(q)) /\ Head(q).last < Head(q).first + plan.batchSize
  <2>1. Head(q) = q[1] /\ Len(q) >= 1 /\ Len(q) \in Nat
    BY <1>2
  <2>2. Len(Tail(q)) = Len(q) - 1 /\ \A i \in 1 .. Len(q) - 1 : Tail(q)[i] = q[i+1]
    BY <1>2
  <2> QED BY <2>1, <2>2 DEF Sized
<1>3. Sized(<<>>)
  BY DEF Sized
<1> QED BY <1>1, <1>2, <1>3

\* An item that continues a stream and is no longer than a batch.
LEMMA OneBatchOn ==
    ASSUME TypeOK, NEW e \in Nat, NEW x \in Item, Follows(x, e), x.last < x.first + plan.batchSize
    PROVE  x.last <= e + plan.batchSize
<1>1. plan.batchSize \in Nat
  BY PlanType
<1> QED BY <1>1 DEF Follows, Item

LEMMA PaceStep == TypeOK /\ Control /\ Chain /\ Pace /\ [Next]_vars => Pace'
<1> DEFINE
      got   == End(received, 0)
      sent  == End(out, got)
      taken == End(held, sent)
      got2   == End(received', 0)
      sent2  == End(out', got2)
      taken2 == End(held', sent2)
      Sizes == Sized(held') /\ Sized(raw') /\ Sized(pending')
      Lengths == Len(out') <= Capacity /\ Len(raw') <= Capacity
      Front == OutOpen' => Paced(out', got2)
      Back  == OutOpen' /\ RawOpen' => Paced(raw', taken2)
<1> SUFFICES ASSUME TypeOK, Control, Chain, Pace, [Next]_vars
             PROVE  Sizes /\ Lengths /\ Front /\ Back
  BY PlanFixed DEF Pace, Sized, Paced, Rows, End
<1>1. /\ Sized(held) /\ Sized(raw) /\ Sized(pending)
      /\ Len(out) <= Capacity /\ Len(raw) <= Capacity
      /\ OutOpen => Paced(out, got)
      /\ OutOpen /\ RawOpen => Paced(raw, taken)
  BY DEF Pace
<1>2. /\ received \in Seq(Item) /\ out \in Seq(Item) /\ held \in Seq(Item)
      /\ raw \in Seq(Item) /\ pending \in Seq(Item) /\ row \in Nat /\ Capacity \in Nat
  BY CapacityAssumption DEF TypeOK
<1>3. got \in Nat /\ sent \in Nat /\ taken \in Nat /\ End(raw, taken) \in Nat
  BY <1>2, EndNat
<1>4. /\ Continues(received, 0)
      /\ OutOpen => Continues(out, got)
      /\ OutOpen /\ RawOpen => /\ Continues(held, sent) /\ Continues(raw, taken)
                               /\ Continues(pending, End(raw, taken))
  BY DEF Chain
<1>5. ASSUME UNCHANGED <<received, out, held, raw, pending>>,
             OutOpen' => OutOpen, RawOpen' => RawOpen
      PROVE  Sizes /\ Lengths /\ Front /\ Back
  BY <1>1, <1>5
<1> USE DEF scanVars, guardVars
<1>6. CASE \/ Prepare \/ ResolveSchema \/ Warmup \/ RawDrained \/ Join
           \/ StartWorker \/ NextSegment \/ FinishScan \/ FailScan
           \/ PollEnd \/ DropStream \/ DropGuard \/ UNCHANGED vars
  BY <1>5, <1>6 DEF Prepare, ResolveSchema, StartScan, Warmup, RawDrained, Join, TaskStep,
     StartWorker, NextSegment, FinishScan, FailScan, PollEnd, DropStream, DropGuard, vars,
     OutOpen, RawOpen
<1>7. CASE DropReceiver
  <2>1. out' = <<>> /\ ~ OutOpen' /\ UNCHANGED <<held, raw, pending>>
    BY <1>7 DEF DropReceiver, OutOpen
  <2> QED BY <1>1, <1>2, <2>1
<1>8. CASE AbortTask \/ PanicTask
  <2>1. held' = <<>> /\ raw' = <<>> /\ ~ RawOpen' /\ UNCHANGED <<received, out, pending, receiver>>
    BY <1>8 DEF AbortTask, PanicTask, TaskVanishes, RawOpen
  <2>2. Sized(<<>>)
    BY DEF Sized
  <2> QED BY <1>1, <1>2, <2>1, <2>2 DEF OutOpen
<1>9. CASE Poll
  <2>1. /\ out # <<>> /\ received' = Append(received, Head(out)) /\ out' = Tail(out)
        /\ OutOpen /\ UNCHANGED <<held, raw, pending>> /\ (RawOpen' => RawOpen)
    BY <1>9 DEF Poll, Control, OutOpen, RawOpen
  <2>2. /\ Head(out) \in Item /\ Follows(Head(out), got) /\ End(Tail(out), Head(out).last) = sent
    BY <1>2, <1>3, <1>4, <2>1, TakeItem
  <2>3. got2 = Head(out).last
    BY <1>2, <1>4, <2>1, <2>2, AppendItem
  <2>4. Paced(Tail(out), Head(out).last)
    BY <1>1, <1>2, <1>3, <1>4, <2>1, PacedTail
  <2>5. Paced(out', got2) /\ taken2 = taken
    BY <2>1, <2>2, <2>3, <2>4
  <2>6. Len(out') <= Capacity
    <3>1. Len(Tail(out)) = Len(out) - 1
      BY <1>2, <2>1
    <3> QED BY <1>1, <1>2, <2>1, <3>1
  <2> HIDE DEF got, taken, got2, taken2
  <2> QED BY <1>1, <2>1, <2>5, <2>6
<1>10. CASE ReceiveRaw
  <2>1. /\ raw # <<>> /\ held' = <<Head(raw)>> /\ raw' = Tail(raw) /\ held = <<>>
        /\ UNCHANGED <<received, out, pending>> /\ RawOpen /\ (OutOpen' => OutOpen)
    BY <1>10 DEF ReceiveRaw, TaskStep, Control, RawOpen, OutOpen
  <2>2. Head(raw) \in Item
    BY <1>2, <2>1
  <2>3. Sizes
    BY <1>1, <1>2, <2>1, <2>2, SizedMoves
  <2>4. Lengths
    <3>1. Len(Tail(raw)) = Len(raw) - 1
      BY <1>2, <2>1
    <3> QED BY <1>1, <1>2, <2>1, <3>1
  <2>5. taken2 = Head(raw).last
    BY <1>3, <2>1, <2>2, OneItem
  <2>6. OutOpen => Paced(Tail(raw), Head(raw).last)
    BY <1>1, <1>2, <1>3, <1>4, <2>1, PacedTail
  <2>7. Back
    BY <2>1, <2>5, <2>6
  <2> QED BY <1>1, <2>1, <2>3, <2>4, <2>7
<1>11. CASE FillDocuments
  <2>1. /\ Len(held) = 1 /\ RawOpen /\ (OutOpen' => OutOpen) /\ UNCHANGED <<received, out, raw, pending>>
        /\ UNCHANGED held \/ held' = <<Error(held[1].first, held[1].last)>>
    BY <1>11 DEF FillDocuments, TaskStep, Control, RawOpen, OutOpen
  <2>2. CASE UNCHANGED held
    BY <1>1, <2>1, <2>2
  <2>3. CASE held' = <<Error(held[1].first, held[1].last)>>
    <3> DEFINE x == Error(held[1].first, held[1].last)
    <3>1. held[1] \in Item /\ taken = held[1].last
      BY <1>2, <1>3, <2>1, FullHand
    <3>2. x \in Item /\ x.last = held[1].last /\ x.first = held[1].first
      BY <3>1 DEF Error, Item
    <3>3. held[1].last < held[1].first + plan.batchSize
      BY <1>1, <2>1 DEF Sized
    <3>4. held' = <<x>>
      BY <2>3
    <3> HIDE DEF x
    <3>5. Sized(held')
      BY <1>1, <1>2, <3>2, <3>3, <3>4, SizedMoves
    <3>6. taken2 = taken
      BY <1>3, <2>1, <3>1, <3>2, <3>4, OneItem
    <3> HIDE DEF taken, taken2
    <3> QED BY <1>1, <2>1, <3>5, <3>6
  <2> QED BY <2>1, <2>2, <2>3
<1>12. CASE SendOut
  <2>1. /\ Len(held) = 1 /\ held' = <<>> /\ RawOpen /\ (OutOpen' => OutOpen)
        /\ UNCHANGED <<received, raw, pending>>
        /\ \/ OutOpen /\ Room(out) /\ out' = Append(out, held[1])
           \/ ~ OutOpen /\ UNCHANGED out
    BY <1>12 DEF SendOut, Control, RawOpen, OutOpen
  <2>2. Sizes
    BY <1>1, <2>1 DEF Sized
  <2>3. CASE ~ OutOpen
    BY <1>1, <2>1, <2>2, <2>3
  <2>4. CASE OutOpen
    <3>1. out' = Append(out, held[1]) /\ Len(out) < Capacity
      BY <2>1, <2>4 DEF Room
    <3>2. held[1] \in Item /\ taken = held[1].last /\ Follows(held[1], sent)
      BY <1>2, <1>3, <1>4, <2>1, <2>4, FullHand
    <3>3. held[1].last < held[1].first + plan.batchSize
      BY <1>1, <2>1 DEF Sized
    <3>4. held[1].last <= sent + plan.batchSize
      BY <1>3, <3>2, <3>3, OneBatchOn
    <3>5. Paced(out', got2)
      BY <1>1, <1>2, <1>3, <2>1, <2>4, <3>1, <3>2, <3>4, PacedAppend
    <3>6. sent2 = held[1].last /\ taken2 = sent2
      <4>1. End(Append(out, held[1]), got) = held[1].last
        BY <1>2, <1>3, <1>4, <2>4, <3>2, AppendItem
      <4> QED BY <2>1, <3>1, <4>1, NoItem
    <3>7. Len(out') <= Capacity
      BY <1>2, <3>1, <3>2, AppendProperties
    <3> HIDE DEF got, sent, taken, got2, sent2, taken2
    <3> QED BY <1>1, <2>1, <2>2, <2>4, <3>2, <3>5, <3>6, <3>7
  <2> QED BY <2>3, <2>4
<1>13. CASE SendError
  <2> DEFINE x == Error(sent + 1, sent)
  <2>1. /\ held = <<>> /\ RawOpen /\ (OutOpen' => OutOpen)
        /\ UNCHANGED <<received, held, raw, pending>>
        /\ \/ OutOpen /\ Room(out) /\ out' = Append(out, x)
           \/ ~ OutOpen /\ UNCHANGED out
    BY <1>13 DEF SendError, TaskStep, Control, RawOpen, OutOpen
  <2>2. CASE ~ OutOpen
    BY <1>1, <2>1, <2>2
  <2>3. CASE OutOpen
    <3>1. x \in Item /\ x.last = sent /\ Follows(x, sent)
      BY <1>3 DEF Error, Item, Follows
    <3>2. out' = Append(out, x) /\ Len(out) < Capacity
      BY <2>1, <2>3 DEF Room
    <3> HIDE DEF x
    <3>3. x.last <= sent + plan.batchSize
      <4>1. plan.batchSize \in Nat
        BY PlanType
      <4> QED BY <1>3, <3>1, <4>1
    <3>4. Paced(out', got2)
      BY <1>1, <1>2, <1>3, <2>1, <2>3, <3>1, <3>2, <3>3, PacedAppend
    <3>5. taken2 = taken
      <4>1. End(Append(out, x), got) = sent
        BY <1>2, <1>3, <1>4, <2>3, <3>1, AppendItem
      <4> QED BY <2>1, <3>2, <4>1
    <3>6. Len(out') <= Capacity
      BY <1>2, <3>1, <3>2, AppendProperties
    <3> HIDE DEF got, sent, taken, got2, sent2, taken2
    <3> QED BY <1>1, <2>1, <2>3, <3>4, <3>5, <3>6
  <2> QED BY <2>2, <2>3
<1>14. CASE BuildBatch
  <2> DEFINE n == Min2(remaining, Min2(plan.batchSize, EndOf(segment) - row))
             x == Batch(row + 1, row + n)
  <2>1. /\ pending' = <<x>> /\ UNCHANGED <<received, out, held, raw>>
        /\ (OutOpen' => OutOpen) /\ (RawOpen' => RawOpen)
    BY <1>14 DEF BuildBatch, Taken, Chunk, OutOpen, RawOpen
  <2>2. n \in Nat /\ n <= plan.batchSize
    <3>1. EndOf(segment) \in Nat /\ row < EndOf(segment) /\ remaining \in Nat /\ plan.batchSize \in Nat
      BY SMTT(60), <1>14, EndOfNat, PlanType DEF BuildBatch, TypeOK
    <3> QED BY <3>1, <1>2 DEF Min2
  <2>3. x \in Item /\ x.last < x.first + plan.batchSize
    <3> HIDE DEF n
    <3>1. plan.batchSize \in Nat
      BY PlanType
    <3>2. x.first = row + 1 /\ x.last = row + n /\ x \in Item
      BY <1>2, <2>2 DEF Batch, Item
    <3> HIDE DEF x
    <3> QED BY <1>2, <2>2, <3>1, <3>2
  <2> HIDE DEF x
  <2>4. Sized(pending')
    BY <1>1, <1>2, <2>1, <2>3, SizedMoves
  <2> QED BY <1>1, <2>1, <2>4
<1>15. CASE SendRaw
  <2>1. /\ Len(pending) = 1 /\ pending' = <<>> /\ UNCHANGED <<received, out, held>>
        /\ (OutOpen' => OutOpen) /\ (RawOpen' => RawOpen)
        /\ \/ RawOpen /\ Room(raw) /\ raw' = Append(raw, pending[1])
           \/ ~ RawOpen /\ UNCHANGED raw
    BY <1>15 DEF SendRaw, Control, OutOpen, RawOpen
  <2>2. CASE ~ RawOpen
    BY <1>1, <2>1, <2>2 DEF Sized
  <2>3. CASE RawOpen
    <3>1. raw' = Append(raw, pending[1]) /\ Len(raw) < Capacity
      BY <2>1, <2>3 DEF Room
    <3>2. pending[1] \in Item /\ (OutOpen => Follows(pending[1], End(raw, taken)))
      BY <1>2, <1>3, <1>4, <2>1, <2>3, FullHand
    <3>3. pending[1].last < pending[1].first + plan.batchSize
      BY <1>1, <2>1 DEF Sized
    <3>4. Sizes
      BY <1>1, <1>2, <2>1, <3>1, <3>2, <3>3, SizedMoves
    <3>5. Len(raw') <= Capacity
      BY <1>2, <3>1, <3>2, AppendProperties
    <3>6. OutOpen => Paced(Append(raw, pending[1]), taken)
      <4> SUFFICES ASSUME OutOpen PROVE Paced(Append(raw, pending[1]), taken)
        OBVIOUS
      <4>1. pending[1].last <= End(raw, taken) + plan.batchSize
        BY <1>3, <3>2, <3>3, OneBatchOn
      <4> QED BY <1>1, <1>2, <1>3, <2>3, <3>2, <4>1, PacedAppend
    <3>7. taken2 = taken
      BY <2>1
    <3> HIDE DEF got, taken, got2, taken2
    <3> QED BY <1>1, <2>1, <3>1, <3>4, <3>5, <3>6, <3>7 DEF got, got2
  <2> QED BY <2>2, <2>3
<1> QED
  BY <1>6, <1>7, <1>8, <1>9, <1>10, <1>11, <1>12, <1>13, <1>14, <1>15
     DEF Next, Task, Worker, Teardown, Terminated
-----------------------------------------------------------------------------
(***************************************************************************)
(* The theorems.                                                           *)
(***************************************************************************)
\* IInv holds in every state of every scan.
THEOREM Invariance == Spec => []IInv
<1>1. Init => IInv
  <2> SUFFICES ASSUME Init PROVE IInv
    OBVIOUS
  <2>1. TypeOK
    BY TypeInit
  <2>2. Len(plan.ends) \in Nat /\ plan.limit \in Nat
    BY <2>1, PlanType
  <2>3. Chain
    BY NoItem DEF Init, Chain
  <2>4. Control
    BY DEF Init, Control, OutOpen, Cancelled
  <2>5. Scanned
    <3>1. EndOf(0) = 0
      BY DEF EndOf
    <3>2. Len(plan.ends) >= 1 => EndOf(1) \in Nat
      BY <2>1, <2>2, EndOfNat
    <3>3. 1 > Len(plan.ends) => Total = 0
      BY <2>2 DEF Total, EndOf
    <3>4. QED BY <2>2, <3>1, <3>2, <3>3 DEF Init, Scanned
  <2>6. Outcome
    BY DEF Init, Outcome
  <2>7. LastWord
    BY DEF Init, LastWord, Substantial, Failed
  <2>8. Pace
    BY CapacityAssumption DEF Init, Pace, Sized, Paced
  <2>9. QED BY <2>1, <2>3, <2>4, <2>5, <2>6, <2>7, <2>8 DEF IInv
<1>2. IInv /\ [Next]_vars => IInv'
  BY TypeStep, ControlStep, ScannedStep, ChainStep, OutcomeStep, LastWordStep, PaceStep DEF IInv
<1>3. QED BY <1>1, <1>2, PTL DEF Spec

\* Every reachable state is well typed.
THEOREM TypeCorrect == Spec => []TypeOK
<1>1. IInv => TypeOK
  BY DEF IInv
<1>2. QED BY <1>1, Invariance, PTL

\* The consumer sees the rows in order, none twice, none beyond the limit,
\* and none is missing without an error in its place.
THEOREM InOrder == Spec => []DeliveredInOrder
<1>1. IInv => DeliveredInOrder
  <2> SUFFICES ASSUME IInv PROVE DeliveredInOrder
    OBVIOUS
  <2>1. received \in Seq(Item) /\ Within(received) /\ Continues(received, 0)
    BY DEF IInv, TypeOK, Chain
  <2>2. Target \in Nat
    BY TotalNat DEF IInv
  <2>3. End(received, 0) <= Target
    BY <2>1, <2>2, WithinMoves
  <2>4. QED BY <2>1, <2>3 DEF DeliveredInOrder
<1>2. QED BY <1>1, Invariance, PTL

\* A stream that ends without an error, and without a panic of its task, has
\* delivered every row of the scan.
THEOREM CleanEnd == Spec => []CleanEndIsComplete
<1>1. IInv => CleanEndIsComplete
  <2> SUFFICES ASSUME IInv, consumer = "finished", stage # "panicked", ~ HasError(received)
               PROVE  End(received, 0) = Target
    BY DEF CleanEndIsComplete
  <2>1. ~ Failed(received)
    BY FailedHasError DEF IInv
  <2>2. QED BY <2>1 DEF IInv, Outcome
<1>2. QED BY <1>1, Invariance, PTL

\* The error of a worker is the last item that a consumer sees.
THEOREM ErrorReported == Spec => []WorkerErrorReported
<1>1. IInv => WorkerErrorReported
  BY DEF IInv, Outcome, WorkerErrorReported
<1>2. QED BY <1>1, Invariance, PTL

\* The contract speaks of row ranges as ScanStream does.

(***************************************************************************)
(* Backpressure: however slowly the consumer reads, the closure is at most *)
(* the two channels and two batches ahead of it (the channels of capacity  *)
(* 2 of open and run_blocking_scan_and_forward).                           *)
(***************************************************************************)
THEOREM BoundedLead == Spec => []BoundedRunahead
<1>1. IInv => BoundedRunahead
  <2> DEFINE got   == End(received, 0)
             sent  == End(out, got)
             taken == End(held, sent)
             built == End(raw, taken)
             bound == (2 * Capacity + 2) * plan.batchSize
  <2> SUFFICES ASSUME IInv, OutOpen, RawOpen PROVE row - got <= bound
    BY DEF BoundedRunahead
  <2>1. TypeOK /\ Chain /\ Control /\ Pace /\ Capacity \in Nat
    BY CapacityAssumption DEF IInv
  <2>2. /\ received \in Seq(Item) /\ out \in Seq(Item) /\ held \in Seq(Item)
        /\ raw \in Seq(Item) /\ pending \in Seq(Item) /\ row \in Nat /\ plan.batchSize \in Nat
    BY <2>1, PlanType DEF TypeOK
  <2>3. got \in Nat /\ sent \in Nat /\ taken \in Nat /\ built \in Nat
    BY <2>2, EndNat
  <2>4. sent <= got + Rows(Capacity) /\ built <= taken + Rows(Capacity) /\ Rows(Capacity) \in Nat
    <3>1. sent <= got + Rows(Len(out)) /\ built <= taken + Rows(Len(raw))
      BY <2>1, <2>2, <2>3, PacedSpan DEF Pace
    <3>2. /\ Rows(Len(out)) <= Rows(Capacity) /\ Rows(Len(raw)) <= Rows(Capacity)
          /\ Rows(Len(out)) \in Nat /\ Rows(Len(raw)) \in Nat /\ Rows(Capacity) \in Nat
      BY <2>1, <2>2, RowsAdd DEF Pace
    <3> HIDE DEF got, sent, taken, built
    <3> QED BY <2>3, <3>1, <3>2
  <2>5. ASSUME NEW q \in Seq(Item), NEW e \in Nat, q = <<>> \/ Len(q) = 1, Sized(q), Continues(q, e)
        PROVE  End(q, e) <= e + plan.batchSize
    <3>1. CASE q = <<>>
      BY <2>2, <3>1 DEF End
    <3>2. CASE Len(q) = 1
      <4>1. q[1] \in Item /\ End(q, e) = q[1].last /\ Follows(q[1], e)
        BY <2>5, <3>2, FullHand
      <4>2. q[1].last < q[1].first + plan.batchSize
        BY <2>5, <3>2 DEF Sized
      <4> QED BY <2>1, <4>1, <4>2, OneBatchOn
    <3> QED BY <2>5, <3>1, <3>2
  <2>6. taken <= sent + plan.batchSize
    BY <2>1, <2>2, <2>3, <2>5 DEF Control, Pace, Chain
  <2>7. row <= built + plan.batchSize
    BY <2>1, <2>2, <2>3, <2>5 DEF Control, Pace, Chain
  <2>8. bound = Rows(Capacity) + Rows(Capacity) + plan.batchSize + plan.batchSize
    <3>1. Rows(Capacity + Capacity) = Rows(Capacity) + Rows(Capacity)
      BY <2>1, RowsAdd
    <3>2. Rows(1 + 1) = plan.batchSize + plan.batchSize
      BY <2>1, RowsAdd
    <3>3. Rows((Capacity + Capacity) + (1 + 1)) = Rows(Capacity + Capacity) + Rows(1 + 1)
      BY <2>1, RowsAdd
    <3>4. 2 * Capacity + 2 = (Capacity + Capacity) + (1 + 1)
      BY <2>1
    <3>5. (2 * Capacity + 2) * plan.batchSize = Rows((Capacity + Capacity) + (1 + 1))
      BY <3>4 DEF Rows
    <3>6. Rows(Capacity) \in Nat
      BY <2>4
    <3> QED BY ONLY <2>2, <3>1, <3>2, <3>3, <3>5, <3>6
  <2>9. \A r, b, t, s, g, R, B \in Nat :
           r <= b + B /\ b <= t + R /\ t <= s + B /\ s <= g + R => r - g <= R + R + B + B
    OBVIOUS
  <2> HIDE DEF got, sent, taken, built, bound
  <2>10. row - got <= Rows(Capacity) + Rows(Capacity) + plan.batchSize + plan.batchSize
    BY ONLY <2>2, <2>3, <2>4, <2>6, <2>7, <2>9
  <2> QED BY ONLY <2>8, <2>10
<1> QED BY <1>1, Invariance, PTL

LEMMA SameVocabulary ==
    /\ \A q, e : Contract!End(q, e) = End(q, e)
    /\ \A first, last : Contract!Batch(first, last) = Batch(first, last)
    /\ \A first, last : Contract!Error(first, last) = Error(first, last)
    /\ \A q : Contract!HasError(q) <=> HasError(q)
    /\ \A q : Contract!Failed(q) <=> Failed(q)
BY DEF Contract!End, End, Contract!Batch, Batch, Contract!Error, Error,
       Contract!HasError, HasError, Contract!Failed, Failed, Contract!Terminal, Terminal

\* The stream of the code, with its tasks, threads and channels, implements
\* the stream of ScanContract.
THEOREM Refinement == Spec => ImplementsContract
<1> USE DEF scanVars, guardVars
<1>1. Init => Contract!Init
  <2> SUFFICES ASSUME Init PROVE Contract!Init
    OBVIOUS
  <2>1. Target \in Nat
    BY TypeInit, TotalNat
  <2>2. QED BY <2>1 DEF Init, Contract!Init
<1>2. IInv /\ [Next]_vars => [Contract!Next]_Contract!vars
  <2> SUFFICES ASSUME IInv, [Next]_vars
               PROVE  Contract!Next \/ UNCHANGED Contract!vars
    OBVIOUS
  <2>1. Target' = Target
    BY PlanFixed DEF Target, Total, EndOf
  <2>2. ASSUME UNCHANGED <<received, consumer>>, (stage = "panicked") = (stage' = "panicked")
        PROVE  UNCHANGED Contract!vars
    BY <2>1, <2>2 DEF Contract!vars
  <2>3. CASE Task \/ AbortTask
    <3>1. UNCHANGED <<received, consumer>>
      BY <2>3 DEF Task, AbortTask, TaskVanishes, Prepare, ResolveSchema, Warmup, ReceiveRaw,
         RawDrained, FillDocuments, SendOut, Join, SendError
    <3>2. stage # "panicked" /\ stage' # "panicked"
      BY <2>3 DEF Task, AbortTask, TaskVanishes, TaskStep, TaskGone, Prepare, ResolveSchema,
         StartScan, Warmup, ReceiveRaw, RawDrained, FillDocuments, SendOut, Join, SendError
    <3>3. QED BY <2>2, <3>1, <3>2
  <2>4. CASE PanicTask
    BY <2>1, <2>4 DEF PanicTask, TaskVanishes, Contract!Next, Contract!Crash
  <2>5. CASE Worker \/ Teardown \/ UNCHANGED vars
    <3>1. UNCHANGED <<received, consumer, stage>>
      BY <2>5 DEF Worker, Teardown, vars, StartWorker, NextSegment, BuildBatch, SendRaw,
         FinishScan, FailScan, DropReceiver, DropGuard
    <3>2. QED BY <2>2, <3>1
  <2>6. CASE Poll
    <3> DEFINE reached == End(received, 0)
               x == Head(out)
    <3>1. consumer = "polling" /\ out # <<>> /\ received' = Append(received, x)
          /\ UNCHANGED <<stage, consumer>>
      BY <2>6 DEF Poll
    <3>2. OutOpen /\ out \in Seq(Item) /\ received \in Seq(Item)
      BY <3>1 DEF IInv, Control, TypeOK
    <3>3. Continues(out, reached) /\ Within(out) /\ ~ Failed(received)
      BY <3>1, <3>2 DEF IInv, Chain, LastWord
    <3>4. reached \in Nat /\ Target \in Nat
      BY <3>2, EndNat, TotalNat DEF IInv
    <3>5. x \in Item /\ Follows(x, reached)
      BY <3>1, <3>2, <3>3, <3>4, TakeItem
    <3>6. x.last <= Target
      BY <3>1, <3>2, <3>3, WithinMoves
    <3> HIDE DEF reached, x
    <3>7. x.last \in reached .. Target /\ x.first = reached + 1
          /\ (x.kind = "batch" => x.last > reached)
      BY <3>4, <3>5, <3>6 DEF Follows, Item
    <3>8. x = IF x.kind = "batch" THEN Batch(reached + 1, x.last) ELSE Error(reached + 1, x.last)
      BY <3>5, <3>7 DEF Item, Batch, Error
    <3>9. Contract!Deliver
      <4>1. UNCHANGED <<Target, consumer, stage = "panicked">>
        BY <2>1, <3>1, Zenon
      <4>2. \E last \in reached .. Target :
               \/ last > reached /\ received' = Append(received, Batch(reached + 1, last))
               \/ received' = Append(received, Error(reached + 1, last))
        BY <3>1, <3>7, <3>8
      <4>3. QED BY <3>1, <3>3, <4>1, <4>2, SameVocabulary DEF Contract!Deliver, reached
    <3>10. QED BY <3>9 DEF Contract!Next
  <2>7. CASE PollEnd
    <3>1. consumer = "polling" /\ consumer' = "finished" /\ out = <<>> /\ TaskGone
          /\ UNCHANGED <<received, stage>>
      BY <2>7 DEF PollEnd, OutClosed
    <3>2. OutOpen /\ stage \in {"done", "panicked"}
      BY <3>1 DEF IInv, Control, TaskGone, Aborting, Cancelled
    <3>3. CASE stage = "panicked"
      BY <2>1, <3>1, <3>3 DEF Contract!Next, Contract!Finish
    <3>4. CASE stage = "done" /\ worker = "ok"
      <4>1. End(received, 0) = Target
        BY <3>1, <3>4, DrainedIsComplete DEF IInv
      <4>2. QED BY <2>1, <3>1, <4>1, SameVocabulary, Zenon DEF Contract!Next, Contract!Finish
    <3>5. CASE Failed(received)
      <4>1. HasError(received)
        BY <3>5, FailedHasError DEF IInv
      <4>2. QED BY <2>1, <3>1, <4>1, SameVocabulary, Zenon DEF Contract!Next, Contract!Finish
    <3>6. QED BY <3>1, <3>2, <3>3, <3>4, <3>5 DEF IInv, Outcome
  <2>8. CASE DropStream
    BY <2>1, <2>8 DEF DropStream, Contract!Next, Contract!Drop
  <2>9. QED
    BY <2>3, <2>4, <2>5, <2>6, <2>7, <2>8 DEF Next, Terminated
<1>3. QED BY <1>1, <1>2, Invariance, PTL DEF Spec, ImplementsContract, Contract!Spec
=============================================================================
