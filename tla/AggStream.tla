------------------------------ MODULE AggStream ------------------------------
(***************************************************************************)
(* The streams of an aggregation that Tantivy computes                     *)
(* (TantivyAggDataSource).  A plan in mode FinalMerged answers on          *)
(* partition 0 alone: its task visits the splits in turn, collects their   *)
(* intermediate results and merges them at the end.  In mode PartialStates *)
(* partition i answers for split i, and an operator above merges the       *)
(* states.  Each open partition has a task; the synchronous work, on a     *)
(* split or on the merge, is a closure of the blocking pool, which runs to *)
(* its end once it has been submitted.  The task answers through a channel *)
(* of capacity 1 with one item at most.                                    *)
(*                                                                         *)
(* The consumer may drop a stream at any moment: its guard (AbortOnDrop)   *)
(* sets the flag and then aborts the task, which takes effect when the     *)
(* task next awaits.  The task looks at the flag between its awaits.       *)
(***************************************************************************)
EXTENDS Naturals, Sequences, FiniteSets, Functions

CONSTANTS MaxSplits,       \* the largest number of splits of a plan
          Partitions       \* the partitions that are opened: 0, 1, ...

ASSUME AggStreamAssumption ==
    /\ MaxSplits \in Nat \ {0}
    /\ Partitions \subseteq Nat

VARIABLES plan,       \* the output mode and the number of splits
          pc,         \* where each partition's task is
          work,       \* the number of the split it works on
          partials,   \* the splits whose results the task holds
          job,        \* its closure: "none", "running", "ok", "err"
          cancelled,  \* the flag of the guard
          aborting,   \* has the task been told to abort?
          channel,    \* what the task has answered and nobody has read
          late,       \* closures submitted after the flag was set (history)
          stream,     \* "open", "dropping", "dropped", "finished"
          answer      \* what the consumer has read

taskVars == <<pc, work, partials>>
vars == <<plan, pc, work, partials, job, late, cancelled, aborting, channel,
          stream, answer>>

Modes == {"FinalMerged", "PartialStates"}

\* A batch is the sequence of the splits that were counted into it.
Item == [kind : {"batch", "error"}, splits : Seq(1 .. MaxSplits)]

Err == [kind |-> "error", splits |-> <<>>]
-----------------------------------------------------------------------------
\* open() hands out an empty stream, without a task, to the partitions
\* that answer for no split.
AnyOwner(p) == TRUE                  \* mutant: every partition answers
Owner(p) == IF plan.mode = "FinalMerged" THEN p = 0 ELSE p < plan.splits

\* The splits partition p answers for.
Duty(p) == IF plan.mode = "FinalMerged" THEN 1 .. plan.splits ELSE {p + 1}

Merges == plan.mode = "FinalMerged" /\ plan.splits > 1

Init == /\ plan \in [mode : Modes, splits : 1 .. MaxSplits]
        /\ pc = [p \in Partitions |-> IF Owner(p) THEN "start" ELSE "over"]
        /\ work = [p \in Partitions |-> IF plan.mode = "FinalMerged" THEN 1 ELSE p + 1]
        /\ partials = [p \in Partitions |-> <<>>]
        /\ job = [p \in Partitions |-> "none"]
        /\ late = [p \in Partitions |-> 0]
        /\ cancelled = [p \in Partitions |-> FALSE]
        /\ aborting = [p \in Partitions |-> FALSE]
        /\ channel = [p \in Partitions |-> <<>>]
        /\ stream = [p \in Partitions |-> "open"]
        /\ answer = [p \in Partitions |-> <<>>]

TaskGone(p) == pc[p] \in {"over", "panicked"}

Goto(p, to) == pc' = [pc EXCEPT ![p] = to]

\* ensure_not_cancelled: with the flag set the task ends without an answer.
IgnoreFlag(p, to) == Goto(p, to)     \* mutant: the flag is never looked at
Unless(p, to) == Goto(p, IF cancelled[p] THEN "over" ELSE to)
-----------------------------------------------------------------------------
(***************************************************************************)
(* The task.                                                               *)
(***************************************************************************)
TaskOnly == UNCHANGED <<plan, job, late, cancelled, aborting, channel, stream, answer>>

\* prepare_split of the next split, and its failure.
Prepare(p) ==
    /\ pc[p] = "start"
    /\ Unless(p, "warmup") \/ Unless(p, "fail")
    /\ UNCHANGED <<work, partials>> /\ TaskOnly

\* The warmup (nothing to do on local splits), and its failure.
Warmup(p) ==
    /\ pc[p] = "warmup"
    /\ Unless(p, "launch") \/ Unless(p, "fail")
    /\ UNCHANGED <<work, partials>> /\ TaskOnly

\* run_sync submits a closure, whatever the flag says by now.
Submit(p) ==
    /\ job' = [job EXCEPT ![p] = "running"]
    /\ late' = [late EXCEPT ![p] = IF cancelled[p] THEN @ + 1 ELSE @]
    /\ UNCHANGED <<plan, work, partials, cancelled, aborting, channel, stream, answer>>

Launch(p) == pc[p] = "launch" /\ Submit(p) /\ Goto(p, "await")

OneMore == plan.splits + 1           \* mutant: the loop runs one too far
LastSplit == plan.splits

\* The closure's result arrives.  Only the loop over several splits looks at
\* the flag again; what follows the last split is the merge.
SplitDone(p) ==
    /\ pc[p] = "await"
    /\ job[p] \in {"ok", "err"}
    /\ job' = [job EXCEPT ![p] = "none"]
    /\ IF job[p] = "err" THEN Goto(p, "fail") /\ UNCHANGED <<work, partials>>
       ELSE /\ partials' = [partials EXCEPT ![p] = Append(@, work[p])]
            /\ IF Merges /\ work[p] < LastSplit
               THEN work' = [work EXCEPT ![p] = @ + 1] /\ Unless(p, "start")
               ELSE UNCHANGED work /\ IF Merges THEN Unless(p, "merge")
                                               ELSE Goto(p, "send")
    /\ UNCHANGED <<plan, late, cancelled, aborting, channel, stream, answer>>

\* The merge of the partial results is a closure too.
LaunchMerge(p) == pc[p] = "merge" /\ Submit(p) /\ Goto(p, "merging")

MergeDone(p) ==
    /\ pc[p] = "merging"
    /\ job[p] \in {"ok", "err"}
    /\ job' = [job EXCEPT ![p] = "none"]
    /\ IF job[p] = "err" THEN Goto(p, "fail") ELSE Unless(p, "send")
    /\ UNCHANGED <<plan, work, partials, late, cancelled, aborting, channel, stream, answer>>

\* One answer at most; a closed channel swallows it.
SilentFailure(p) == <<>>             \* mutant: an error is not answered
Report(p) == <<IF pc[p] = "fail" THEN Err
               ELSE [kind |-> "batch", splits |-> partials[p]]>>

Answer(p) ==
    /\ pc[p] \in {"send", "fail"}
    /\ Goto(p, "over")
    /\ channel' = IF cancelled[p] \/ stream[p] # "open" THEN channel
                  ELSE [channel EXCEPT ![p] = Report(p)]
    /\ UNCHANGED <<plan, work, partials, job, late, cancelled, aborting, stream, answer>>

\* The abort takes effect where the task waits: for the factory, for the
\* storage, for a closure.
Awaits == {"start", "warmup", "await", "merging"}

Abort(p) ==
    /\ aborting[p]
    /\ pc[p] \in Awaits
    /\ Goto(p, "over")
    /\ UNCHANGED <<work, partials>> /\ TaskOnly

Panic(p) ==
    /\ ~ TaskGone(p)
    /\ Goto(p, "panicked")
    /\ UNCHANGED <<work, partials>> /\ TaskOnly

(***************************************************************************)
(* The pool: a closure ends well, or with an error or a panic, which its   *)
(* caller cannot tell apart.  It knows nothing of the flag.                *)
(***************************************************************************)
LostPanic == {"ok", "none"}          \* mutant: a panic answers nothing
Results == {"ok", "err"}

JobEnds(p) ==
    /\ job[p] = "running"
    /\ \E result \in Results : job' = [job EXCEPT ![p] = result]
    /\ UNCHANGED <<plan, taskVars, late, cancelled, aborting, channel, stream, answer>>

(***************************************************************************)
(* The consumer.                                                           *)
(***************************************************************************)
Poll(p) ==
    /\ stream[p] = "open"
    /\ channel[p] # <<>>
    /\ answer' = [answer EXCEPT ![p] = Append(@, Head(channel[p]))]
    /\ channel' = [channel EXCEPT ![p] = Tail(@)]
    /\ UNCHANGED <<plan, taskVars, job, late, cancelled, aborting, stream>>

\* Every sender is gone and the channel is empty.
PollEnd(p) ==
    /\ stream[p] = "open"
    /\ channel[p] = <<>> /\ TaskGone(p)
    /\ stream' = [stream EXCEPT ![p] = "finished"]
    /\ UNCHANGED <<plan, taskVars, job, late, cancelled, aborting, channel, answer>>

Drop(p) ==
    /\ stream[p] = "open"
    /\ stream' = [stream EXCEPT ![p] = "dropping"]
    /\ channel' = [channel EXCEPT ![p] = <<>>]
    /\ UNCHANGED <<plan, taskVars, job, late, cancelled, aborting, answer>>

\* AbortOnDrop::drop: first the flag, then the abort.
SetFlag(p) ==
    /\ stream[p] = "dropping" /\ ~ cancelled[p]
    /\ cancelled' = [cancelled EXCEPT ![p] = TRUE]
    /\ UNCHANGED <<plan, taskVars, job, late, aborting, channel, stream, answer>>

TellAbort(p) ==
    /\ stream[p] = "dropping" /\ cancelled[p]
    /\ aborting' = [aborting EXCEPT ![p] = TRUE]
    /\ stream' = [stream EXCEPT ![p] = "dropped"]
    /\ UNCHANGED <<plan, taskVars, job, late, cancelled, channel, answer>>

Task(p) == \/ Prepare(p) \/ Warmup(p) \/ Launch(p) \/ SplitDone(p)
           \/ LaunchMerge(p) \/ MergeDone(p) \/ Answer(p) \/ Abort(p)

Guard(p) == SetFlag(p) \/ TellAbort(p)

Finished ==
    /\ \A p \in Partitions : /\ TaskGone(p) /\ job[p] # "running"
                             /\ stream[p] \in {"finished", "dropped"}
    /\ UNCHANGED vars

Next == \/ \E p \in Partitions : \/ Task(p) \/ Panic(p) \/ JobEnds(p)
                                 \/ Poll(p) \/ PollEnd(p) \/ Drop(p) \/ Guard(p)
        \/ Finished

Spec == Init /\ [][Next]_vars

(***************************************************************************)
(* The executor polls a task that can run, the pool runs its closures, and *)
(* a drop that has begun is completed.  A consumer that polls goes on.     *)
(***************************************************************************)
FairSpec == /\ Spec
            /\ \A p \in Partitions : /\ WF_vars(Task(p)) /\ WF_vars(JobEnds(p))
                                     /\ WF_vars(Guard(p))

PollingSpec == FairSpec /\ \A p \in Partitions : WF_vars(Poll(p) \/ PollEnd(p))
-----------------------------------------------------------------------------
TypeOK ==
    /\ plan \in [mode : Modes, splits : 1 .. MaxSplits]
    /\ pc \in [Partitions -> {"start", "warmup", "launch", "await", "merge", "merging",
                              "send", "fail", "over", "panicked"}]
    /\ work \in [Partitions -> Nat]
    /\ \A p \in Partitions : Owner(p) => work[p] \in Duty(p)
    /\ partials \in [Partitions -> Seq(1 .. MaxSplits)]
    /\ job \in [Partitions -> {"none", "running", "ok", "err"}]
    /\ late \in [Partitions -> Nat]
    /\ cancelled \in [Partitions -> BOOLEAN]
    /\ aborting \in [Partitions -> BOOLEAN]
    /\ channel \in [Partitions -> Seq(Item)]
    /\ stream \in [Partitions -> {"open", "dropping", "dropped", "finished"}]
    /\ answer \in [Partitions -> Seq(Item)]

(***************************************************************************)
(* When all streams have been read to their ends, and no task panicked     *)
(* and no error was read, every split has been counted exactly once over   *)
(* all partitions: none is left out, and none is counted by two            *)
(* partitions or twice by one.                                             *)
(***************************************************************************)
Clean(p) == /\ stream[p] = "finished" /\ pc[p] # "panicked"
            /\ \A i \in DOMAIN answer[p] : answer[p][i].kind = "batch"

\* The places where a split stands in what the consumer has read.
Items == UNION {{p} \X DOMAIN answer[p] : p \in Partitions}
Places == UNION {{x} \X DOMAIN answer[x[1]][x[2]].splits : x \in Items}
Tallies(s) == {y \in Places : answer[y[1][1]][y[1][2]].splits[y[2]] = s}

SplitsCountedOnce ==
    (\A p \in Partitions : Clean(p)) =>
        \A s \in 1 .. plan.splits : Cardinality(Tallies(s)) = 1

(***************************************************************************)
(* A partition that answers for a split and whose task did not panic never *)
(* ends without a word: it hands out one batch of all its splits or one    *)
(* error.  An empty stream would be taken for an empty aggregate.          *)
(***************************************************************************)
NoSilentEnd ==
    \A p \in Partitions :
        stream[p] = "finished" /\ Owner(p) /\ pc[p] # "panicked" =>
            /\ Len(answer[p]) = 1
            /\ answer[p][1] = Err \/ Range(answer[p][1].splits) = Duty(p)

(***************************************************************************)
(* Cancellation stops the work between two closures.  The last look at the *)
(* flag and the submission are not atomic, so a closure may be submitted   *)
(* after the flag was set, but no task goes on to a second one.            *)
(***************************************************************************)
OneLateClosure == \A p \in Partitions : late[p] <= 1

(***************************************************************************)
(* The inductive invariant behind these, partition by partition.           *)
(***************************************************************************)
\* The flag comes before the abort, and only a stream that is being dropped
\* sets it; a partition that answers for no split has no task.
Dropped(p) ==
    /\ aborting[p] => cancelled[p]
    /\ cancelled[p] => stream[p] \in {"dropping", "dropped"}
    /\ ~ Owner(p) => pc[p] = "over" /\ channel[p] = <<>> /\ answer[p] = <<>>

\* Once a closure was submitted late, the task is past the last submission
\* that the flag does not guard.
Late(p) ==
    /\ late[p] <= 1
    /\ late[p] = 1 => /\ cancelled[p]
                      /\ pc[p] \in {"await", "merging", "send", "fail", "over", "panicked"}

\* What the task holds: the splits before the one it works on, then all.
Collected(q, splits) == Range(q) = splits /\ \A i, j \in DOMAIN q : q[i] = q[j] => i = j

Gathered(p) ==
    Owner(p) =>
        /\ pc[p] \in {"start", "warmup", "launch", "await"} =>
              Collected(partials[p], {s \in Duty(p) : s < work[p]})
        /\ pc[p] \in {"merge", "merging", "send"} => Collected(partials[p], Duty(p))

\* A stream that is not dropped: nothing until the task is over, then one item.
OneItem(p, q) == /\ Len(q) = 1
                 /\ \/ q[1] = Err
                    \/ q[1].kind = "batch" /\ Collected(q[1].splits, Duty(p))

Spoken(p) ==
    Owner(p) /\ stream[p] \in {"open", "finished"} =>
        /\ pc[p] = "over" => \/ OneItem(p, channel[p]) /\ answer[p] = <<>>
                             \/ OneItem(p, answer[p]) /\ channel[p] = <<>>
        /\ pc[p] # "over" => channel[p] = <<>> /\ answer[p] = <<>>
        /\ stream[p] = "finished" => channel[p] = <<>> /\ TaskGone(p)

PartitionInv(p) == Dropped(p) /\ Late(p) /\ Gathered(p) /\ Spoken(p)

IInv == TypeOK /\ \A p \in Partitions : PartitionInv(p)

(***************************************************************************)
(* A consumer that polls every partition sees every stream end.            *)
(***************************************************************************)
StreamsEnd == \A p \in Partitions : <>(stream[p] # "open")

(***************************************************************************)
(* Refinement: the streams keep the contract of AggContract, where a batch *)
(* is how often each split counts in it.                                   *)
(***************************************************************************)
Count(splits, s) == Cardinality({i \in DOMAIN splits : splits[i] = s})
Counted(item) == [kind |-> item.kind, counts |-> [s \in 1 .. MaxSplits |-> Count(item.splits, s)]]

DutyOf    == [p \in Partitions |-> IF Owner(p) THEN Duty(p) ELSE {}]
AnswerOf  == [p \in Partitions |-> [i \in DOMAIN answer[p] |-> Counted(answer[p][i])]]
PhaseOf   == [p \in Partitions |-> IF stream[p] = "dropping" THEN "dropped" ELSE stream[p]]
CrashedOf == [p \in Partitions |-> pc[p] = "panicked"]

Contract == INSTANCE AggContract WITH duty <- DutyOf, answer <- AnswerOf,
                                      phase <- PhaseOf, crashed <- CrashedOf

ImplementsContract == Contract!Spec
=============================================================================
