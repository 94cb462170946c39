-------------------------- MODULE AggStreamProofs --------------------------
(***************************************************************************)
(* Theorems about AggStream, for any number of splits and any partitions.  *)
(* The partitions share nothing but the plan: what a step of one partition *)
(* does to its own part of the invariant is shown conjunct by conjunct,    *)
(* and the others do not notice.                                           *)
(***************************************************************************)
EXTENDS AggStream, FiniteSetTheorems, SequenceTheorems, TLAPS

Act(p) == Task(p) \/ Panic(p) \/ JobEnds(p) \/ Poll(p) \/ PollEnd(p) \/ Drop(p) \/ Guard(p)

USE AggStreamAssumption

\* The splits a partition answers for are splits of the plan.
LEMMA DutyType ==
    ASSUME TypeOK, NEW p \in Partitions, Owner(p)
    PROVE  /\ Duty(p) \subseteq 1 .. plan.splits
           /\ Duty(p) \subseteq 1 .. MaxSplits
           /\ work[p] \in Duty(p)
<1>1. work[p] \in Duty(p)
  BY DEF TypeOK
<1>2. plan \in [mode : Modes, splits : 1 .. MaxSplits]
  BY DEF TypeOK
<1>3. Duty(p) \subseteq 1 .. plan.splits
  BY <1>2 DEF Owner, Duty, Modes
<1> QED BY <1>1, <1>2, <1>3

\* The plan is never changed.
LEMMA PlanFixed == ASSUME NEW p \in Partitions, Act(p) PROVE plan' = plan
BY DEF Act, Task, Guard, Prepare, Warmup, Launch, Submit, SplitDone, LaunchMerge, MergeDone,
       Answer, Abort, Panic, JobEnds, Poll, PollEnd, Drop, SetFlag, TellAbort, TaskOnly

LEMMA InitInv == Init => IInv
<1> SUFFICES ASSUME Init PROVE IInv
  OBVIOUS
<1>1. plan.splits \in 1 .. MaxSplits /\ plan.mode \in Modes
  BY DEF Init
<1>2. ASSUME NEW p \in Partitions, Owner(p)
      PROVE  /\ work[p] \in Duty(p)
             /\ {s \in Duty(p) : s < work[p]} = {}
  BY <1>1, <1>2 DEF Init, Owner, Duty, Modes
<1>3. TypeOK
  <2>1. <<>> \in Seq(1 .. MaxSplits) /\ <<>> \in Seq(Item)
    OBVIOUS
  <2> QED BY <1>1, <1>2, <2>1 DEF Init, TypeOK
<1>4. ASSUME NEW p \in Partitions PROVE PartitionInv(p)
  <2>1. Collected(<<>>, {})
    BY DEF Collected, Range
  <2>2. Dropped(p) /\ Late(p) /\ Spoken(p)
    BY DEF Init, Dropped, Late, Spoken
  <2>3. Gathered(p)
    BY <1>2, <2>1 DEF Init, Gathered
  <2> QED BY <2>2, <2>3 DEF PartitionInv
<1> QED BY <1>3, <1>4 DEF IInv

\* Owners and duties follow from the plan.
LEMMA SameDuty ==
    ASSUME plan' = plan, NEW q PROVE Owner(q)' = Owner(q) /\ Duty(q)' = Duty(q) /\ Merges' = Merges
BY DEF Owner, Duty, Merges

LEMMA TypeStep ==
    ASSUME TypeOK, NEW p \in Partitions, Dropped(p), Act(p) PROVE TypeOK'
<1> USE DEF TypeOK
<1> DEFINE Working == \A q \in Partitions : Owner(q) => work[q] \in Duty(q)
<1>1. plan' = plan /\ plan' \in [mode : Modes, splits : 1 .. MaxSplits]
  BY PlanFixed
<1>2. ASSUME work' = work PROVE work' \in [Partitions -> Nat] /\ Working'
  BY <1>1, <1>2, SameDuty
<1>3. CASE Prepare(p)
  BY <1>1, <1>2, <1>3 DEF Prepare, Unless, Goto, TaskOnly
<1>4. CASE Warmup(p)
  BY <1>1, <1>2, <1>4 DEF Warmup, Unless, Goto, TaskOnly
<1>5. CASE Launch(p)
  <2>1. late' \in [Partitions -> Nat]
    BY <1>5 DEF Launch, Submit
  <2> QED BY <1>1, <1>2, <1>5, <2>1 DEF Launch, Submit, Goto
<1>6. CASE SplitDone(p)
  <2>1. Owner(p) /\ pc[p] = "await"
    BY <1>6 DEF SplitDone, Dropped
  <2>2. work[p] \in 1 .. MaxSplits /\ work[p] \in Duty(p)
    BY <2>1, DutyType
  <2>3. pc' \in [Partitions -> {"start", "warmup", "launch", "await", "merge", "merging",
                              "send", "fail", "over", "panicked"}]
    <3>1. \E to \in {"fail", "start", "over", "merge", "send"} : pc' = [pc EXCEPT ![p] = to]
      BY <1>6 DEF SplitDone, Unless, Goto
    <3> QED BY <3>1
  <2>4. partials' \in [Partitions -> Seq(1 .. MaxSplits)]
    <3>1. Append(partials[p], work[p]) \in Seq(1 .. MaxSplits)
      BY <2>2, AppendProperties
    <3> QED BY <3>1, <1>6 DEF SplitDone
  <2>5. Working'
    <3>1. CASE UNCHANGED work
      BY <3>1, <1>2
    <3>2. CASE ~ UNCHANGED work
      <4>1. /\ plan.mode = "FinalMerged" /\ work[p] < plan.splits
            /\ work' = [work EXCEPT ![p] = @ + 1]
        BY <3>2, <1>6 DEF SplitDone, Merges, LastSplit
      <4>2. Duty(p) = 1 .. plan.splits
        BY <4>1 DEF Duty
      <4> QED BY <4>1, <4>2, <2>2, <1>1, SameDuty
    <3> QED BY <3>1, <3>2
  <2>6. work' \in [Partitions -> Nat]
    <3>1. work' = work \/ work' = [work EXCEPT ![p] = @ + 1]
      BY <1>6 DEF SplitDone
    <3>2. work \in [Partitions -> Nat]
      OBVIOUS
    <3> QED BY ONLY <3>1, <3>2
  <2>7. job' \in [Partitions -> {"none", "running", "ok", "err"}]
    BY <1>6 DEF SplitDone
  <2> QED BY <1>1, <1>6, <2>3, <2>4, <2>5, <2>6, <2>7 DEF SplitDone
<1>7. CASE LaunchMerge(p)
  <2>1. late' \in [Partitions -> Nat]
    BY <1>7 DEF LaunchMerge, Submit
  <2> QED BY <1>1, <1>2, <1>7, <2>1 DEF LaunchMerge, Submit, Goto
<1>8. CASE MergeDone(p)
  BY <1>1, <1>2, <1>8 DEF MergeDone, Unless, Goto
<1>9. CASE Answer(p)
  <2>1. Report(p) \in Seq(Item)
    BY DEF Report, Err, Item
  <2> QED BY <1>1, <1>2, <1>9, <2>1 DEF Answer, Goto
<1>10. CASE Abort(p)
  BY <1>1, <1>2, <1>10 DEF Abort, Goto, TaskOnly
<1>11. CASE Panic(p)
  BY <1>1, <1>2, <1>11 DEF Panic, Goto, TaskOnly
<1>12. CASE JobEnds(p)
  <2>1. job' \in [Partitions -> {"none", "running", "ok", "err"}]
    BY <1>12 DEF JobEnds, Results
  <2> QED BY <1>1, <1>2, <1>12, <2>1 DEF JobEnds, taskVars
<1>13. CASE Poll(p)
  <2>1. Head(channel[p]) \in Item /\ Tail(channel[p]) \in Seq(Item)
    BY <1>13, HeadTailProperties DEF Poll
  <2>2. Append(answer[p], Head(channel[p])) \in Seq(Item)
    BY <2>1, AppendProperties
  <2> QED BY <1>1, <1>2, <1>13, <2>1, <2>2 DEF Poll, taskVars
<1>14. CASE PollEnd(p)
  BY <1>1, <1>2, <1>14 DEF PollEnd, taskVars
<1>15. CASE Drop(p)
  <2>1. channel' \in [Partitions -> Seq(Item)]
    <3>1. <<>> \in Seq(Item)
      OBVIOUS
    <3> QED BY <3>1, <1>15 DEF Drop
  <2> QED BY <1>1, <1>2, <1>15, <2>1 DEF Drop, taskVars
<1>16. CASE SetFlag(p)
  BY <1>1, <1>2, <1>16 DEF SetFlag, taskVars
<1>17. CASE TellAbort(p)
  BY <1>1, <1>2, <1>17 DEF TellAbort, taskVars
<1> QED BY <1>3, <1>4, <1>5, <1>6, <1>7, <1>8, <1>9, <1>10, <1>11, <1>12, <1>13, <1>14, <1>15,
           <1>16, <1>17 DEF Act, Task, Guard

\* A step of p changes nothing of another partition.
LEMMA OthersStay ==
    ASSUME TypeOK, NEW p \in Partitions, NEW q \in Partitions \ {p}, Act(p), PartitionInv(q)
    PROVE  PartitionInv(q)'
<1> DEFINE Same == /\ pc'[q] = pc[q] /\ work'[q] = work[q] /\ partials'[q] = partials[q]
                   /\ job'[q] = job[q] /\ late'[q] = late[q] /\ cancelled'[q] = cancelled[q]
                   /\ aborting'[q] = aborting[q] /\ channel'[q] = channel[q]
                   /\ stream'[q] = stream[q] /\ answer'[q] = answer[q]
<1>1. Same
  <2> USE DEF TypeOK
  <2>1. CASE Prepare(p) \/ Warmup(p) \/ Abort(p) \/ Panic(p)
    BY <2>1 DEF Prepare, Warmup, Abort, Panic, Unless, Goto, TaskOnly
  <2>2. CASE Launch(p) \/ LaunchMerge(p)
    BY <2>2 DEF Launch, LaunchMerge, Submit, Goto
  <2>3. CASE SplitDone(p)
    <3>1. pc'[q] = pc[q]
      BY <2>3 DEF SplitDone, Unless, Goto
    <3>2. work'[q] = work[q]
      BY <2>3 DEF SplitDone
    <3>3. partials'[q] = partials[q] /\ job'[q] = job[q]
      BY <2>3 DEF SplitDone
    <3> QED BY <3>1, <3>2, <3>3, <2>3 DEF SplitDone
  <2>4. CASE MergeDone(p) \/ Answer(p)
    BY <2>4 DEF MergeDone, Answer, Unless, Goto
  <2>5. CASE JobEnds(p) \/ Poll(p) \/ PollEnd(p)
    BY <2>5 DEF JobEnds, Poll, PollEnd, taskVars
  <2>6. CASE Drop(p) \/ SetFlag(p) \/ TellAbort(p)
    BY <2>6 DEF Drop, SetFlag, TellAbort, taskVars
  <2> QED BY <2>1, <2>2, <2>3, <2>4, <2>5, <2>6 DEF Act, Task, Guard
<1>2. Owner(q)' = Owner(q) /\ Duty(q)' = Duty(q)
  BY PlanFixed, SameDuty
<1>3. Dropped(q)' /\ Late(q)'
  BY <1>1, <1>2 DEF PartitionInv, Dropped, Late
<1>4. Gathered(q)'
  BY <1>1, <1>2 DEF PartitionInv, Gathered, Collected
<1>5. Spoken(q)'
  BY <1>1, <1>2 DEF PartitionInv, Spoken, OneItem, Collected, TaskGone
<1> QED BY <1>3, <1>4, <1>5 DEF PartitionInv

LEMMA DroppedStep ==
    ASSUME TypeOK, NEW p \in Partitions, PartitionInv(p), Act(p) PROVE Dropped(p)'
<1> USE DEF TypeOK, Dropped, PartitionInv
<1>1. Owner(p)' = Owner(p)
  BY PlanFixed, SameDuty
<1>2. CASE Prepare(p) \/ Warmup(p) \/ Abort(p) \/ Panic(p)
  BY <1>1, <1>2 DEF Prepare, Warmup, Abort, Panic, Unless, Goto, TaskOnly, TaskGone, Awaits
<1>3. CASE Launch(p) \/ LaunchMerge(p)
  BY <1>1, <1>3 DEF Launch, LaunchMerge, Submit, Goto
<1>4. CASE SplitDone(p) \/ MergeDone(p)
  BY <1>1, <1>4 DEF SplitDone, MergeDone, Unless, Goto
<1>5. CASE Answer(p)
  BY <1>1, <1>5 DEF Answer, Goto
<1>6. CASE JobEnds(p) \/ Poll(p) \/ PollEnd(p)
  BY <1>1, <1>6 DEF JobEnds, Poll, PollEnd, taskVars
<1>7. CASE Drop(p) \/ SetFlag(p) \/ TellAbort(p)
  BY <1>1, <1>7 DEF Drop, SetFlag, TellAbort, taskVars
<1> QED BY <1>2, <1>3, <1>4, <1>5, <1>6, <1>7 DEF Act, Task, Guard

LEMMA LateStep ==
    ASSUME TypeOK, NEW p \in Partitions, PartitionInv(p), Act(p) PROVE Late(p)'
<1> USE DEF TypeOK, Late, PartitionInv
<1>1. CASE Prepare(p) \/ Warmup(p) \/ Abort(p) \/ Panic(p)
  BY <1>1 DEF Prepare, Warmup, Abort, Panic, Unless, Goto, TaskOnly
<1>2. CASE Launch(p) \/ LaunchMerge(p)
  <2>1. late[p] = 0 /\ pc'[p] \in {"await", "merging"}
    BY <1>2 DEF Launch, LaunchMerge, Goto
  <2>2. cancelled'[p] = cancelled[p] /\ late'[p] = IF cancelled[p] THEN 1 ELSE 0
    BY <1>2, <2>1 DEF Launch, LaunchMerge, Submit
  <2> QED BY <2>1, <2>2
<1>3. CASE SplitDone(p) \/ MergeDone(p)
  BY <1>3 DEF SplitDone, MergeDone, Unless, Goto
<1>4. CASE Answer(p)
  BY <1>4 DEF Answer, Goto
<1>5. CASE JobEnds(p) \/ Poll(p) \/ PollEnd(p)
  BY <1>5 DEF JobEnds, Poll, PollEnd, taskVars
<1>6. CASE Drop(p) \/ SetFlag(p) \/ TellAbort(p)
  BY <1>6 DEF Drop, SetFlag, TellAbort, taskVars
<1> QED BY <1>1, <1>2, <1>3, <1>4, <1>5, <1>6 DEF Act, Task, Guard

\* One more split at the end of what has been collected.
LEMMA CollectOne ==
    ASSUME NEW q \in Seq(1 .. MaxSplits), NEW S, NEW s \in 1 .. MaxSplits, s \notin S, Collected(q, S)
    PROVE  Collected(Append(q, s), S \cup {s})
<1> DEFINE r == Append(q, s)
<1>1. /\ Len(r) = Len(q) + 1 /\ r \in Seq(1 .. MaxSplits)
      /\ \A i \in 1 .. Len(q) : r[i] = q[i]
      /\ r[Len(q) + 1] = s
  BY AppendProperties
<1>2. DOMAIN q = 1 .. Len(q) /\ DOMAIN r = 1 .. Len(q) + 1 /\ Len(q) \in Nat
  BY <1>1
<1>3. \A i \in 1 .. Len(q) : q[i] \in S
  BY <1>2 DEF Collected, Range
<1> HIDE DEF r
<1>4. Range(r) \subseteq S \cup {s}
  <2>1. ASSUME NEW i \in 1 .. Len(q) + 1 PROVE r[i] \in S \cup {s}
    BY <1>1, <1>2, <1>3
  <2> QED BY <2>1, <1>2 DEF Range
<1>5. S \cup {s} \subseteq Range(r)
  <2>1. s \in Range(r)
    BY <1>1, <1>2 DEF Range
  <2>2. ASSUME NEW x \in S PROVE x \in Range(r)
    <3>1. PICK i \in 1 .. Len(q) : q[i] = x
      BY <1>2 DEF Collected, Range
    <3>2. i \in DOMAIN r /\ r[i] = x
      BY <3>1, <1>1, <1>2
    <3> QED BY ONLY <3>2 DEF Range
  <2> QED BY <2>1, <2>2
<1>6. ASSUME NEW i \in DOMAIN r, NEW j \in DOMAIN r, r[i] = r[j] PROVE i = j
  <2>1. ASSUME NEW m \in 1 .. Len(q) PROVE r[m] # s
    BY <1>1, <1>3
  <2>2. CASE i \in 1 .. Len(q) /\ j \in 1 .. Len(q)
    BY <2>2, <1>1, <1>2, <1>6 DEF Collected
  <2>3. \A m \in DOMAIN r : m \in 1 .. Len(q) \/ m = Len(q) + 1
    BY <1>2
  <2> QED BY ONLY <1>1, <1>6, <2>1, <2>2, <2>3
<1> QED BY <1>4, <1>5, <1>6 DEF Collected, r

\* A task that has done its last split holds all of its duty.
LEMMA NextSplit ==
    ASSUME TypeOK, NEW p \in Partitions, Owner(p)
    PROVE  LET before == {s \in Duty(p) : s < work[p]}
           IN  /\ work[p] \notin before
               /\ Merges /\ work[p] < plan.splits =>
                     before \cup {work[p]} = {s \in Duty(p) : s < work[p] + 1}
               /\ ~ (Merges /\ work[p] < plan.splits) => before \cup {work[p]} = Duty(p)
<1>1. /\ plan.splits \in 1 .. MaxSplits /\ plan.mode \in Modes
      /\ work[p] \in Duty(p) /\ Duty(p) \subseteq 1 .. plan.splits
  BY DutyType DEF TypeOK
<1>2. CASE plan.mode = "FinalMerged"
  BY <1>1, <1>2 DEF Duty, Merges
<1>3. CASE plan.mode # "FinalMerged"
  <2>1. p \in Nat
    OBVIOUS
  <2> QED BY <1>1, <1>3, <2>1 DEF Duty, Merges
<1> QED BY <1>2, <1>3

LEMMA GatheredStep ==
    ASSUME TypeOK, NEW p \in Partitions, PartitionInv(p), Act(p) PROVE Gathered(p)'
<1> USE DEF TypeOK, PartitionInv
<1>1. Owner(p)' = Owner(p) /\ Duty(p)' = Duty(p)
  BY PlanFixed, SameDuty
<1>2. CASE ~ Owner(p)
  BY <1>1, <1>2 DEF Gathered
<1> DEFINE Early == {"start", "warmup", "launch", "await"}
           Full  == {"merge", "merging", "send"}
           Ended == {"fail", "over", "panicked"}
<1>3. ASSUME Owner(p), work'[p] = work[p], partials'[p] = partials[p],
             \/ pc'[p] \in Ended
             \/ pc[p] \in Early /\ pc'[p] \in Early
             \/ pc[p] \in Full /\ pc'[p] \in Full
      PROVE  Gathered(p)'
  BY <1>1, <1>3 DEF Gathered, Collected
<1>4. CASE Owner(p) /\ (Prepare(p) \/ Warmup(p) \/ Abort(p) \/ Panic(p))
  BY <1>3, <1>4 DEF Prepare, Warmup, Abort, Panic, Unless, Goto, TaskOnly
<1>5. CASE Owner(p) /\ (Launch(p) \/ LaunchMerge(p))
  BY <1>3, <1>5 DEF Launch, LaunchMerge, Submit, Goto
<1>6. CASE Owner(p) /\ SplitDone(p)
  <2>1. pc[p] = "await"
    BY <1>6 DEF SplitDone
  <2>2. CASE job[p] = "err"
    BY <1>3, <1>6, <2>2 DEF SplitDone, Goto
  <2>3. CASE job[p] # "err"
    <3> DEFINE before == {s \in Duty(p) : s < work[p]}
    <3>1. Collected(partials[p], before) /\ work[p] \in 1 .. MaxSplits
      BY <2>1, <1>6, DutyType DEF Gathered
    <3>2. partials'[p] = Append(partials[p], work[p])
      BY <1>6, <2>3 DEF SplitDone
    <3>3. Collected(partials'[p], before \cup {work[p]})
      <4>1. work[p] \notin before
        OBVIOUS
      <4>2. partials[p] \in Seq(1 .. MaxSplits)
        OBVIOUS
      <4>3. Collected(Append(partials[p], work[p]), before \cup {work[p]})
        BY ONLY <3>1, <4>1, <4>2, CollectOne
      <4> QED BY ONLY <3>2, <4>3
    <3>4. CASE Merges /\ work[p] < plan.splits
      <4>1. work'[p] = work[p] + 1 /\ pc'[p] \in {"start", "over"}
        <5>1. work' = [work EXCEPT ![p] = @ + 1] /\ Unless(p, "start")
          BY <3>4, <1>6, <2>3 DEF SplitDone, LastSplit
        <5> QED BY <5>1 DEF Unless, Goto
      <4>2. before \cup {work[p]} = {s \in Duty(p) : s < work[p] + 1}
        BY <3>4, <1>6, NextSplit
      <4> QED BY <1>1, <3>3, <4>1, <4>2 DEF Gathered, Collected
    <3>5. CASE ~ (Merges /\ work[p] < plan.splits)
      <4>1. pc'[p] \in {"merge", "send", "over"}
        BY <3>5, <1>6, <2>3 DEF SplitDone, LastSplit, Unless, Goto
      <4>2. before \cup {work[p]} = Duty(p)
        BY <3>5, <1>6, NextSplit
      <4> QED BY <1>1, <3>3, <4>1, <4>2 DEF Gathered, Collected
    <3> QED BY <3>4, <3>5
  <2> QED BY <2>2, <2>3
<1>7. CASE Owner(p) /\ (MergeDone(p) \/ Answer(p))
  BY <1>3, <1>7 DEF MergeDone, Answer, Unless, Goto
<1>8. CASE Owner(p) /\ (JobEnds(p) \/ Poll(p) \/ PollEnd(p) \/ Drop(p) \/ SetFlag(p) \/ TellAbort(p))
  <2>1. pc' = pc /\ work' = work /\ partials' = partials
    BY <1>8 DEF JobEnds, Poll, PollEnd, Drop, SetFlag, TellAbort, taskVars
  <2> QED BY <1>1, <2>1 DEF Gathered, Collected
<1> QED BY <1>2, <1>4, <1>5, <1>6, <1>7, <1>8 DEF Act, Task, Guard

\* What a task answers: an error, or a batch of all its splits.
LEMMA ReportsDuty ==
    ASSUME TypeOK, NEW p \in Partitions, Gathered(p), Owner(p), pc[p] \in {"send", "fail"}
    PROVE  OneItem(p, Report(p))
<1>1. CASE pc[p] = "fail"
  BY <1>1 DEF Report, OneItem
<1>2. CASE pc[p] = "send"
  <2>1. Collected(partials[p], Duty(p))
    BY <1>2 DEF Gathered
  <2> QED BY <1>2, <2>1 DEF Report, OneItem
<1> QED BY <1>1, <1>2

LEMMA SpokenStep ==
    ASSUME TypeOK, NEW p \in Partitions, PartitionInv(p), Act(p) PROVE Spoken(p)'
<1> USE DEF TypeOK, PartitionInv
<1>1. Owner(p)' = Owner(p) /\ Duty(p)' = Duty(p)
  BY PlanFixed, SameDuty
<1>2. CASE ~ Owner(p)
  BY <1>1, <1>2 DEF Spoken
\* The task goes on, panics, or is over because the flag is set: no item.
<1>3. ASSUME channel'[p] = channel[p], answer'[p] = answer[p], stream'[p] = stream[p],
             pc[p] \notin {"over", "panicked"},
             pc'[p] # "over" \/ cancelled[p]
      PROVE  Spoken(p)'
  <2>1. CASE cancelled[p]
    <3>1. stream'[p] \in {"dropping", "dropped"}
      BY <1>3, <2>1 DEF Dropped
    <3> QED BY <3>1 DEF Spoken
  <2>2. CASE ~ cancelled[p]
    BY <1>1, <1>3, <2>2 DEF Spoken, TaskGone
  <2> QED BY <2>1, <2>2
<1>4. CASE Prepare(p) \/ Warmup(p) \/ Panic(p)
  BY <1>3, <1>4 DEF Prepare, Warmup, Panic, Unless, Goto, TaskOnly, TaskGone
<1>5. CASE Abort(p)
  BY <1>3, <1>5 DEF Abort, Awaits, Goto, TaskOnly, Dropped
<1>6. CASE Launch(p) \/ LaunchMerge(p)
  BY <1>3, <1>6 DEF Launch, LaunchMerge, Submit, Goto
<1>7. CASE SplitDone(p) \/ MergeDone(p)
  BY <1>3, <1>7 DEF SplitDone, MergeDone, Unless, Goto
<1>8. CASE Owner(p) /\ Answer(p)
  <2>1. CASE stream[p] \in {"open", "finished"}
    <3>1. ~ cancelled[p] /\ stream[p] = "open" /\ channel[p] = <<>> /\ answer[p] = <<>>
      BY <1>8, <2>1 DEF Answer, Dropped, Spoken, TaskGone
    <3>2. channel'[p] = Report(p) /\ answer'[p] = <<>> /\ pc'[p] = "over" /\ stream'[p] = "open"
      BY <1>8, <3>1 DEF Answer, Goto
    <3>3. OneItem(p, Report(p))
      BY <1>8, ReportsDuty DEF Answer
    <3> QED BY <1>1, <3>2, <3>3 DEF Spoken, OneItem, Collected
  <2>2. CASE stream[p] \notin {"open", "finished"}
    BY <1>8, <2>2 DEF Answer, Spoken
  <2> QED BY <2>1, <2>2
<1>9. CASE JobEnds(p)
  BY <1>1, <1>9 DEF JobEnds, taskVars, Spoken, OneItem, Collected, TaskGone
<1>10. CASE Owner(p) /\ Poll(p)
  <2>1. pc[p] = "over" /\ OneItem(p, channel[p]) /\ answer[p] = <<>> /\ stream[p] = "open"
    BY <1>10 DEF Poll, Spoken, OneItem
  <2>2. answer'[p] = <<channel[p][1]>> /\ channel'[p] = <<>>
    <3>1. channel[p] \in Seq(Item) /\ Len(channel[p]) = 1
      BY <2>1 DEF OneItem
    <3>2. Head(channel[p]) = channel[p][1] /\ Tail(channel[p]) = <<>>
      <4>1. channel[p] # <<>> /\ Head(channel[p]) = channel[p][1]
        <5>1. Len(<<>>) = 0
          BY EmptySeq, Zenon
        <5>2. channel[p] # <<>>
          <6> SUFFICES ASSUME channel[p] = <<>> PROVE FALSE
            OBVIOUS
          <6>1. Len(channel[p]) = 0
            BY <5>1, Zenon
          <6> QED BY ONLY <3>1, <6>1
        <5>3. Head(channel[p]) = channel[p][1]
          BY ONLY <3>1
        <5> QED BY ONLY <5>2, <5>3
      <4>2. Tail(channel[p]) \in Seq(Item) /\ Len(Tail(channel[p])) = 0
        BY <3>1, <4>1, HeadTailProperties
      <4> QED BY <4>1, <4>2, EmptySeq
    <3>3. Append(answer[p], Head(channel[p])) = <<channel[p][1]>>
      BY <2>1, <3>2
    <3> QED BY <1>10, <3>2, <3>3 DEF Poll
  <2>3. pc'[p] = "over" /\ stream'[p] = "open"
    BY <1>10, <2>1 DEF Poll, taskVars
  <2>4. OneItem(p, <<channel[p][1]>>)
    BY <2>1 DEF OneItem
  <2> QED BY <1>1, <2>2, <2>3, <2>4 DEF Spoken, OneItem, Collected
<1>11. CASE PollEnd(p)
  BY <1>1, <1>11 DEF PollEnd, taskVars, Spoken, OneItem, Collected, TaskGone
<1>12. CASE Drop(p) \/ SetFlag(p) \/ TellAbort(p)
  BY <1>12 DEF Drop, SetFlag, TellAbort, Spoken
<1> QED BY <1>2, <1>4, <1>5, <1>6, <1>7, <1>8, <1>9, <1>10, <1>11, <1>12 DEF Act, Task, Guard

LEMMA InvStep == IInv /\ [Next]_vars => IInv'
<1> SUFFICES ASSUME IInv, [Next]_vars PROVE IInv'
  OBVIOUS
<1>1. CASE UNCHANGED vars
  <2>1. ASSUME NEW p \in Partitions PROVE Owner(p)' = Owner(p) /\ Duty(p)' = Duty(p)
    BY <1>1, SameDuty DEF vars
  <2>2. TypeOK'
    BY <1>1, <2>1 DEF vars, IInv, TypeOK
  <2>3. ASSUME NEW p \in Partitions, PartitionInv(p) PROVE PartitionInv(p)'
    <3>1. Dropped(p)' /\ Late(p)'
      BY <1>1, <2>1, <2>3 DEF vars, PartitionInv, Dropped, Late
    <3>2. Gathered(p)'
      BY <1>1, <2>1, <2>3 DEF vars, PartitionInv, Gathered, Collected
    <3>3. Spoken(p)'
      BY <1>1, <2>1, <2>3 DEF vars, PartitionInv, Spoken, OneItem, Collected, TaskGone
    <3> QED BY <3>1, <3>2, <3>3 DEF PartitionInv
  <2> QED BY <2>2, <2>3 DEF IInv
<1>2. CASE \E p \in Partitions : Act(p)
  <2>1. PICK p \in Partitions : Act(p)
    BY <1>2
  <2>2. TypeOK /\ \A q \in Partitions : PartitionInv(q)
    BY DEF IInv
  <2>3. TypeOK'
    BY <2>1, <2>2, TypeStep DEF PartitionInv
  <2>4. PartitionInv(p)'
    BY <2>1, <2>2, DroppedStep, LateStep, GatheredStep, SpokenStep DEF PartitionInv
  <2>5. ASSUME NEW q \in Partitions \ {p} PROVE PartitionInv(q)'
    BY <2>1, <2>2, OthersStay
  <2> QED BY <2>3, <2>4, <2>5 DEF IInv
<1> QED BY <1>1, <1>2 DEF Next, Act, Finished

(***************************************************************************)
(* The invariant holds in every reachable state, whatever fails, panics or *)
(* is dropped.                                                             *)
(***************************************************************************)
THEOREM Invariance == Spec => []IInv
<1>1. Init => IInv
  BY InitInv
<1>2. IInv /\ [Next]_vars => IInv'
  BY InvStep
<1> QED BY <1>1, <1>2, PTL DEF Spec

(***************************************************************************)
(* No variable leaves its type; a task works on splits it answers for.     *)
(***************************************************************************)
THEOREM TypeCorrect == Spec => []TypeOK
<1>1. IInv => TypeOK
  BY DEF IInv
<1> QED BY <1>1, Invariance, PTL

(***************************************************************************)
(* A stream that is read to its end has handed out one batch of all the    *)
(* splits its partition answers for, or one error (open and its tasks).    *)
(***************************************************************************)
THEOREM NeverSilent == Spec => []NoSilentEnd
<1>1. IInv => NoSilentEnd
  <2> SUFFICES ASSUME IInv, NEW p \in Partitions,
                      stream[p] = "finished", Owner(p), pc[p] # "panicked"
               PROVE  Len(answer[p]) = 1 /\ (answer[p][1] = Err \/ Range(answer[p][1].splits) = Duty(p))
    BY DEF NoSilentEnd
  <2>1. OneItem(p, answer[p])
    BY DEF IInv, PartitionInv, Spoken, TaskGone, OneItem
  <2> QED BY <2>1 DEF OneItem, Collected
<1> QED BY <1>1, Invariance, PTL

(***************************************************************************)
(* After the flag is set a task submits at most one more closure.          *)
(***************************************************************************)
THEOREM AtMostOneLate == Spec => []OneLateClosure
<1>1. IInv => OneLateClosure
  BY DEF IInv, PartitionInv, Late, OneLateClosure
<1> QED BY <1>1, Invariance, PTL

(***************************************************************************)
(* If the partitions that answer for a split have all been opened, read to *)
(* their ends without an error, and none of their tasks panicked, every    *)
(* split is in the answers exactly once: none is lost when the partial     *)
(* results are merged, and none is counted by two partitions.              *)
(***************************************************************************)
LEMMA AnswererOf ==
    ASSUME TypeOK, 0 .. MaxSplits - 1 \subseteq Partitions, NEW s \in 1 .. plan.splits
    PROVE  \E p \in Partitions : /\ Owner(p) /\ s \in Duty(p)
                                 /\ \A q \in Partitions : Owner(q) /\ s \in Duty(q) => q = p
<1>1. plan.splits \in 1 .. MaxSplits /\ plan.mode \in Modes
  BY DEF TypeOK
<1>2. CASE plan.mode = "FinalMerged"
  <2>1. 0 \in Partitions
    BY <1>1
  <2>2. Owner(0) /\ s \in Duty(0) /\ \A q \in Partitions : Owner(q) => q = 0
    BY <1>2 DEF Owner, Duty
  <2> QED BY <2>1, <2>2
<1>3. CASE plan.mode # "FinalMerged"
  <2>1. s - 1 \in Partitions
    BY <1>1
  <2>2. Owner(s - 1) /\ s \in Duty(s - 1)
    BY <1>1, <1>3 DEF Owner, Duty
  <2>3. ASSUME NEW q \in Partitions, s \in Duty(q) PROVE q = s - 1
    <3>1. q \in Nat /\ s = q + 1
      BY <1>3, <2>3 DEF Duty
    <3> QED BY <3>1
  <2> QED BY <2>1, <2>2, <2>3
<1> QED BY <1>2, <1>3

\* What a partition has answered, when it ended cleanly.
LEMMA CleanAnswer ==
    ASSUME IInv, NEW p \in Partitions, Clean(p)
    PROVE  /\ Owner(p) => DOMAIN answer[p] = {1} /\ Collected(answer[p][1].splits, Duty(p))
           /\ ~ Owner(p) => answer[p] = <<>>
<1>1. PartitionInv(p) /\ TypeOK
  BY DEF IInv
<1>2. CASE ~ Owner(p)
  BY <1>1, <1>2 DEF PartitionInv, Dropped
<1>3. CASE Owner(p)
  <2>1. OneItem(p, answer[p])
    BY <1>1, <1>3 DEF Clean, PartitionInv, Spoken, TaskGone, OneItem
  <2>2. DOMAIN answer[p] = {1}
    BY <1>1, <2>1 DEF OneItem, TypeOK
  <2>3. answer[p][1] # Err
    BY <2>2 DEF Clean, Err
  <2> QED BY <1>3, <2>1, <2>2, <2>3 DEF OneItem
<1> QED BY <1>2, <1>3

THEOREM CountedOnce ==
    ASSUME 0 .. MaxSplits - 1 \subseteq Partitions
    PROVE  Spec => []SplitsCountedOnce
<1>1. IInv => SplitsCountedOnce
  <2> SUFFICES ASSUME IInv, \A p \in Partitions : Clean(p), NEW s \in 1 .. plan.splits
               PROVE  Cardinality(Tallies(s)) = 1
    BY DEF SplitsCountedOnce
  <2>1. PICK p \in Partitions : /\ Owner(p) /\ s \in Duty(p)
                                /\ \A q \in Partitions : Owner(q) /\ s \in Duty(q) => q = p
    BY AnswererOf DEF IInv
  <2>2. DOMAIN answer[p] = {1} /\ Collected(answer[p][1].splits, Duty(p))
    BY <2>1, CleanAnswer
  <2>3. PICK j \in DOMAIN answer[p][1].splits : answer[p][1].splits[j] = s
    BY <2>1, <2>2 DEF Collected, Range
  <2>4. <<<<p, 1>>, j>> \in Tallies(s)
    <3>1. <<p, 1>> \in Items
      BY <2>2 DEF Items
    <3>2. <<<<p, 1>>, j>> \in Places
      BY <3>1, <2>3 DEF Places
    <3> QED BY <3>2, <2>3 DEF Tallies
  <2>5. ASSUME NEW y \in Tallies(s) PROVE y = <<<<p, 1>>, j>>
    <3>1. PICK x \in Items : /\ y \in {x} \X DOMAIN answer[x[1]][x[2]].splits
                             /\ answer[y[1][1]][y[1][2]].splits[y[2]] = s
      BY <2>5 DEF Tallies, Places
    <3>2. PICK q \in Partitions : x \in {q} \X DOMAIN answer[q]
      BY DEF Items
    <3>3. y[1] = x /\ x[1] = q /\ x[2] \in DOMAIN answer[q] /\ y = <<x, y[2]>> /\ x = <<q, x[2]>>
      BY <3>1, <3>2
    <3>4. Owner(q)
      BY <3>3, CleanAnswer
    <3>5. x[2] = 1 /\ Collected(answer[q][1].splits, Duty(q))
      BY <3>3, <3>4, CleanAnswer
    <3>6. y[2] \in DOMAIN answer[q][1].splits /\ answer[q][1].splits[y[2]] = s
      BY <3>1, <3>3, <3>5
    <3>7. s \in Duty(q)
      BY <3>5, <3>6 DEF Collected, Range
    <3>8. q = p
      BY <2>1, <3>4, <3>7
    <3>9. y[2] = j
      BY <2>2, <2>3, <3>6, <3>8 DEF Collected
    <3> QED BY <3>3, <3>5, <3>8, <3>9
  <2>6. Tallies(s) = {<<<<p, 1>>, j>>}
    BY <2>4, <2>5
  <2> QED BY <2>6, FS_Singleton
<1> QED BY <1>1, Invariance, PTL

-----------------------------------------------------------------------------
(***************************************************************************)
(* Refinement: what a step does to the state of the contract.              *)
(***************************************************************************)
\* A split that is collected counts once, another does not count.
LEMMA CountCollected ==
    ASSUME NEW q, NEW splits, Collected(q, splits), NEW s
    PROVE  Count(q, s) = IF s \in splits THEN 1 ELSE 0
<1>1. CASE s \in splits
  <2>1. PICK i \in DOMAIN q : q[i] = s
    BY <1>1 DEF Collected, Range
  <2>2. {j \in DOMAIN q : q[j] = s} = {i}
    BY <2>1 DEF Collected
  <2> QED BY <1>1, <2>2, FS_Singleton DEF Count
<1>2. CASE s \notin splits
  <2>1. {j \in DOMAIN q : q[j] = s} = {}
    BY <1>2 DEF Collected, Range
  <2> QED BY <1>2, <2>1, FS_EmptySet DEF Count
<1> QED BY <1>1, <1>2

\* An item a task reports is one of the two words of the contract.
LEMMA ItemIsWord ==
    ASSUME NEW p \in Partitions, Owner(p), NEW q \in Seq(Item), OneItem(p, q)
    PROVE  Counted(q[1]) \in {Contract!Error, Contract!Aggregate(DutyOf[p])}
<1>1. CASE q[1] = Err
  <2>1. Collected(Err.splits, {})
    BY DEF Err, Collected, Range
  <2>2. \A s \in 1 .. MaxSplits : Count(Err.splits, s) = 0
    BY <2>1, CountCollected
  <2>3. Counted(q[1]) = Contract!Error
    BY <1>1, <2>2 DEF Counted, Contract!Error, Err
  <2> QED BY <2>3
<1>2. CASE q[1].kind = "batch" /\ Collected(q[1].splits, Duty(p))
  <2>1. \A s \in 1 .. MaxSplits : Count(q[1].splits, s) = IF s \in DutyOf[p] THEN 1 ELSE 0
    BY <1>2, CountCollected DEF DutyOf
  <2>2. Counted(q[1]) = Contract!Aggregate(DutyOf[p])
    BY <1>2, <2>1 DEF Counted, Contract!Aggregate
  <2> QED BY <2>2
<1> QED BY <1>1, <1>2 DEF OneItem

LEMMA InitRefines == Init => Contract!Init
<1> SUFFICES ASSUME Init PROVE Contract!Init
  OBVIOUS
<1>1. DutyOf \in [Partitions -> SUBSET (1 .. MaxSplits)]
  <2>1. TypeOK
    BY InitInv DEF IInv
  <2>2. ASSUME NEW p \in Partitions PROVE (IF Owner(p) THEN Duty(p) ELSE {}) \in SUBSET (1 .. MaxSplits)
    BY <2>1, DutyType
  <2> QED BY <2>2 DEF DutyOf
<1>2. \A p, q \in Partitions : p # q => DutyOf[p] \cap DutyOf[q] = {}
  BY DEF DutyOf, Owner, Duty
<1>3. AnswerOf = [p \in Partitions |-> <<>>]
  <2>1. ASSUME NEW p \in Partitions PROVE [i \in DOMAIN answer[p] |-> Counted(answer[p][i])] = <<>>
    <3>1. answer[p] = <<>>
      BY DEF Init
    <3> QED BY <3>1
  <2> QED BY <2>1 DEF AnswerOf
<1>4. PhaseOf = [p \in Partitions |-> "open"]
  BY DEF Init, PhaseOf
<1>5. CrashedOf = [p \in Partitions |-> FALSE]
  BY Zenon DEF Init, CrashedOf
<1> QED BY <1>1, <1>2, <1>3, <1>4, <1>5 DEF Contract!Init

\* The duties follow from the plan, the rest of the contract's state from
\* the variable it abstracts.
LEMMA DutyKept == ASSUME plan' = plan PROVE DutyOf' = DutyOf
BY SameDuty DEF DutyOf

LEMMA AnswerKept == ASSUME answer' = answer PROVE AnswerOf' = AnswerOf
BY DEF AnswerOf

LEMMA PhaseKept == ASSUME stream' = stream PROVE PhaseOf' = PhaseOf
BY DEF PhaseOf

LEMMA CrashedKept == ASSUME pc' = pc PROVE CrashedOf' = CrashedOf
BY DEF CrashedOf

LEMMA CrashedUnless ==
    ASSUME TypeOK, NEW p \in Partitions, ~ TaskGone(p),
           NEW to, pc' = [pc EXCEPT ![p] = to], to # "panicked"
    PROVE  CrashedOf' = CrashedOf
<1>1. ASSUME NEW q \in Partitions PROVE (pc'[q] = "panicked") = (pc[q] = "panicked")
  BY DEF TypeOK, TaskGone
<1> QED BY <1>1 DEF CrashedOf

LEMMA StepRefines ==
    ASSUME IInv, NEW p \in Partitions, Act(p)
    PROVE  Contract!Next \/ UNCHANGED Contract!vars
<1>1. TypeOK /\ PartitionInv(p)
  BY DEF IInv
<1>2. DutyOf' = DutyOf
  BY PlanFixed, DutyKept
<1>3. CASE Task(p)
  <2>1. answer' = answer /\ stream' = stream
    BY <1>3 DEF Task, Prepare, Warmup, Launch, SplitDone, LaunchMerge, MergeDone, Answer, Abort,
                Submit, TaskOnly
  <2>2. /\ ~ TaskGone(p)
        /\ \E to \in {"start", "warmup", "launch", "await", "merge", "merging", "send", "fail", "over"} :
              pc' = [pc EXCEPT ![p] = to]
    BY <1>3 DEF Task, Prepare, Warmup, Launch, SplitDone, LaunchMerge, MergeDone, Answer, Abort,
                Unless, Goto, TaskGone, Awaits
  <2>3. CrashedOf' = CrashedOf
    BY <1>1, <2>2, CrashedUnless
  <2> QED BY <1>2, <2>1, <2>3, AnswerKept, PhaseKept DEF Contract!vars
<1>4. CASE Panic(p)
  <2>1. answer' = answer /\ stream' = stream /\ pc' = [pc EXCEPT ![p] = "panicked"]
    BY <1>4 DEF Panic, TaskOnly, Goto
  <2>2. CrashedOf' = [CrashedOf EXCEPT ![p] = TRUE]
    <3>1. ASSUME NEW q \in Partitions
          PROVE  (pc'[q] = "panicked") = IF q = p THEN TRUE ELSE (pc[q] = "panicked")
      BY <1>1, <2>1 DEF TypeOK
    <3> QED BY <3>1 DEF CrashedOf
  <2>3. Contract!Crash(p)
    BY <1>2, <2>1, <2>2, AnswerKept, PhaseKept DEF Contract!Crash
  <2> QED BY <2>3 DEF Contract!Next
<1>5. CASE JobEnds(p) \/ SetFlag(p)
  <2>1. answer' = answer /\ stream' = stream /\ pc' = pc
    BY <1>5 DEF JobEnds, SetFlag, taskVars
  <2> QED BY <1>2, <2>1, AnswerKept, PhaseKept, CrashedKept DEF Contract!vars
<1>6. CASE Poll(p)
  <2>1. Owner(p) /\ OneItem(p, channel[p]) /\ answer[p] = <<>>
    BY <1>1, <1>6 DEF Poll, PartitionInv, Dropped, Spoken
  <2>2. answer' = [answer EXCEPT ![p] = <<channel[p][1]>>] /\ stream' = stream /\ pc' = pc
    <3>1. channel[p] \in Seq(Item) /\ Len(channel[p]) = 1
      BY <1>1, <2>1 DEF OneItem, TypeOK
    <3>2. Head(channel[p]) = channel[p][1]
      BY <3>1
    <3>3. Append(answer[p], Head(channel[p])) = <<channel[p][1]>>
      BY <2>1, <3>2
    <3> QED BY <1>6, <3>3 DEF Poll, taskVars
  <2> DEFINE word == Counted(channel[p][1])
  <2>3. word \in {Contract!Error, Contract!Aggregate(DutyOf[p])}
    BY <1>1, <2>1, ItemIsWord DEF TypeOK
  <2>4. AnswerOf' = [AnswerOf EXCEPT ![p] = <<word>>]
    <3>1. ASSUME NEW q \in Partitions \ {p} PROVE answer'[q] = answer[q]
      BY <2>2, <1>1 DEF TypeOK
    <3>2. answer'[p] = <<channel[p][1]>>
      BY <2>2, <1>1 DEF TypeOK
    <3>3. [i \in DOMAIN answer'[p] |-> Counted(answer'[p][i])] = <<word>>
      BY <3>2
    <3> QED BY <3>1, <3>3 DEF AnswerOf
  <2>5. AnswerOf[p] = <<>> /\ PhaseOf[p] = "open"
    BY <1>6, <2>1 DEF AnswerOf, PhaseOf, Poll
  <2>6. DutyOf[p] # {}
    BY <1>1, <2>1, DutyType DEF DutyOf
  <2>7. Contract!Say(p)
    BY <1>2, <2>2, <2>3, <2>4, <2>5, <2>6, PhaseKept, CrashedKept DEF Contract!Say
  <2> QED BY <2>7 DEF Contract!Next
<1>7. CASE PollEnd(p)
  <2>1. answer' = answer /\ pc' = pc /\ stream' = [stream EXCEPT ![p] = "finished"]
    BY <1>7 DEF PollEnd, taskVars
  <2>2. PhaseOf' = [PhaseOf EXCEPT ![p] = "finished"]
    BY <1>1, <2>1 DEF PhaseOf, TypeOK
  <2>3. PhaseOf[p] = "open"
    BY <1>7 DEF PhaseOf, PollEnd
  <2>4. DutyOf[p] = {} \/ AnswerOf[p] # <<>> \/ CrashedOf[p]
    <3>1. CASE ~ Owner(p)
      BY <3>1 DEF DutyOf
    <3>2. CASE pc[p] = "panicked"
      BY <3>2 DEF CrashedOf
    <3>3. CASE Owner(p) /\ pc[p] # "panicked"
      <4>1. OneItem(p, answer[p])
        BY <1>1, <1>7, <3>3 DEF PollEnd, PartitionInv, Spoken, TaskGone, OneItem
      <4>2. 1 \in DOMAIN answer[p]
        BY <1>1, <4>1 DEF OneItem, TypeOK
      <4>3. DOMAIN AnswerOf[p] = DOMAIN answer[p]
        BY DEF AnswerOf
      <4>4. DOMAIN <<>> = {}
        OBVIOUS
      <4> QED BY <4>2, <4>3, <4>4
    <3> QED BY <3>1, <3>2, <3>3
  <2>5. Contract!Finish(p)
    BY <1>2, <2>1, <2>2, <2>3, <2>4, AnswerKept, CrashedKept DEF Contract!Finish
  <2> QED BY <2>5 DEF Contract!Next
<1>8. CASE Drop(p)
  <2>1. answer' = answer /\ pc' = pc /\ stream' = [stream EXCEPT ![p] = "dropping"]
    BY <1>8 DEF Drop, taskVars
  <2>2. PhaseOf[p] = "open"
    BY <1>8 DEF PhaseOf, Drop
  <2>3. PhaseOf' = [PhaseOf EXCEPT ![p] = "dropped"]
    <3>1. ASSUME NEW q \in Partitions \ {p} PROVE stream'[q] = stream[q]
      BY <1>1, <2>1 DEF TypeOK
    <3>2. stream'[p] = "dropping"
      BY <1>1, <2>1 DEF TypeOK
    <3> QED BY <3>1, <3>2 DEF PhaseOf
  <2>4. Contract!Drop(p)
    BY <1>2, <2>1, <2>2, <2>3, AnswerKept, CrashedKept DEF Contract!Drop
  <2> QED BY <2>4 DEF Contract!Next
<1>9. CASE TellAbort(p)
  <2>1. answer' = answer /\ pc' = pc
    BY <1>9 DEF TellAbort, taskVars
  <2>2. PhaseOf' = PhaseOf
    BY <1>1, <1>9 DEF PhaseOf, TypeOK, TellAbort
  <2> QED BY <1>2, <2>1, <2>2, AnswerKept, CrashedKept DEF Contract!vars
<1> QED BY <1>3, <1>4, <1>5, <1>6, <1>7, <1>8, <1>9 DEF Act, Guard

(***************************************************************************)
(* The streams of an aggregation keep the contract: each partition says    *)
(* one word, an error or an aggregate in which every split of its duty     *)
(* counts once and no other counts, and ends wordless only if it has no    *)
(* duty or its task panicked (open, the tasks, AbortOnDrop).               *)
(***************************************************************************)
THEOREM Refinement == Spec => ImplementsContract
<1>1. Init => Contract!Init
  BY InitRefines
<1>2. IInv /\ [Next]_vars => [Contract!Next]_(Contract!vars)
  <2> SUFFICES ASSUME IInv, [Next]_vars PROVE Contract!Next \/ UNCHANGED Contract!vars
    OBVIOUS
  <2>1. CASE UNCHANGED vars
    <3>1. plan' = plan /\ answer' = answer /\ stream' = stream /\ pc' = pc
      BY <2>1 DEF vars
    <3> QED BY <3>1, DutyKept, AnswerKept, PhaseKept, CrashedKept DEF Contract!vars
  <2>2. CASE \E p \in Partitions : Act(p)
    BY <2>2, StepRefines
  <2> QED BY <2>1, <2>2 DEF Next, Act, Finished
<1> QED BY <1>1, <1>2, Invariance, PTL DEF Spec, ImplementsContract, Contract!Spec
=============================================================================
