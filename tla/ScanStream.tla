----------------------------- MODULE ScanStream -----------------------------
(***************************************************************************)
(* One partition's record batch stream: TantivyDataSource::open and all    *)
(* that it starts.                                                         *)
(*                                                                         *)
(*   worker --raw--> open task --out--> consumer                           *)
(*                                                                         *)
(* The worker is a closure on the sync execution pool that walks the       *)
(* split's segments; the open task is a tokio task that prepares the       *)
(* split, warms it up, starts the worker and forwards its batches, fetching*)
(* documents on the way; the consumer polls the stream and may drop it at  *)
(* any time, which sets `cancelled' and aborts the open task.  raw and out *)
(* are bounded mpsc channels.  What the batches hold is abstracted to the  *)
(* rows they cover (RowRanges).                                            *)
(***************************************************************************)
EXTENDS RowRanges

CONSTANTS Plans,     \* the scans considered
          Capacity   \* of each channel: mpsc::channel(2)

(***************************************************************************)
(* ends[s] is the number of rows that match in the first s segments.  A    *)
(* plan without a row limit has limit = usize::MAX, any bound that no      *)
(* split reaches.  A top-k collection emits one reordered batch in slices: *)
(* a plan with one segment and limit = the effective k.                    *)
(***************************************************************************)
Plan == [ends : Seq(Nat), limit : Nat, batchSize : Nat \ {0},
         needsWarmup : BOOLEAN, needsDocument : BOOLEAN]

ASSUME CapacityAssumption == Capacity \in Nat \ {0}

ASSUME PlansAssumption ==
    /\ Plans \subseteq Plan
    /\ \A p \in Plans : \A s, t \in 1 .. Len(p.ends) :
          s <= t => p.ends[s] <= p.ends[t]

VARIABLES
    plan,        \* the scan that is executed; never changes
    stage,       \* where the open task is
    held,        \* the item the open task has received and not yet sent
    worker,      \* where the blocking closure is
    segment,     \* the segment the closure scans
    row,         \* the last row it has put in a batch
    remaining,   \* rows the row limit still admits
    pending,     \* the batch it is sending
    raw,         \* channel from the worker to the open task
    out,         \* channel from the open task to the consumer
    receiver,    \* of out: "open" or "dropped"
    guard,       \* AbortOnDrop: "armed", then "cancelled" (the flag is set),
                 \* then "aborted" (JoinHandle::abort has been called)
    consumer,    \* "polling", "dropped" or "finished" (recv returned None)
    received     \* every item the consumer was given, in order

guardVars  == <<receiver, guard>>
scanVars   == <<segment, row, remaining, pending>>
vars == <<plan, stage, held, worker, scanVars, raw, out, guardVars, consumer, received>>

Stages  == {"prepare", "resolve", "warmup", "forward", "fill", "send", "join", "report",
            "done", "aborted", "panicked"}
Workers == {"none", "queued", "scan", "send", "ok", "err"}

TaskGone == stage \in {"done", "aborted", "panicked"}

\* Can the open task still send to the consumer?
OutOpen == receiver = "open"

Cancelled == guard \in {"cancelled", "aborted"}
Aborting  == guard = "aborted"

\* The senders of out live in the open task.
OutClosedEarly == TRUE     \* mutant: an empty channel is taken for a closed one
OutClosed == TaskGone

\* raw_rx is a local of run_blocking_scan_and_forward.
RawKeptOpen == TRUE        \* mutant: the receiver outlives the aborted task
RawOpen == stage \notin {"aborted", "panicked"}

\* raw_tx is owned by the closure.
WorkerOk == worker = "ok"  \* mutant: a failed closure leaks its sender
WorkerDone == worker \in {"ok", "err"}

UnboundedRoom(channel) == TRUE    \* mutant: unbounded channels
Room(channel) == Len(channel) < Capacity

EndOf(s) == IF s = 0 THEN 0 ELSE plan.ends[s]
Total    == EndOf(Len(plan.ends))
Min2(a, b) == IF a <= b THEN a ELSE b

\* What the partition owes.
Target == Min2(plan.limit, Total)
-----------------------------------------------------------------------------
Init ==
    /\ plan \in Plans
    /\ stage = "prepare"
    /\ worker = "none"
    /\ segment = 1 /\ row = 0 /\ remaining = plan.limit
    /\ held = <<>> /\ pending = <<>> /\ raw = <<>> /\ out = <<>>
    /\ receiver = "open" /\ guard = "armed"
    /\ consumer = "polling"
    /\ received = <<>>

(***************************************************************************)
(* The open task.                                                          *)
(***************************************************************************)
TaskStep(from, to) == stage = from /\ stage' = to

\* prepare_split, resolve_split_fast_field_schema with the projection plan,
\* and the warmup: each may fail, and its error ends the task.
Prepare ==
    /\ \/ TaskStep("prepare", "resolve")
       \/ TaskStep("prepare", "report")
    /\ UNCHANGED <<plan, held, worker, scanVars, raw, out, guardVars, consumer, received>>

\* Entering run_blocking_scan_and_forward spawns the closure on the pool.
StartScan == stage' = "forward" /\ worker' = "queued"

ResolveSchema ==
    /\ stage = "resolve"
    /\ \/ plan.needsWarmup /\ stage' = "warmup" /\ UNCHANGED worker
       \/ ~ plan.needsWarmup /\ StartScan
       \/ stage' = "report" /\ UNCHANGED worker
    /\ UNCHANGED <<plan, held, scanVars, raw, out, guardVars, consumer, received>>

Warmup ==
    /\ stage = "warmup"
    /\ \/ StartScan
       \/ stage' = "report" /\ UNCHANGED worker
    /\ UNCHANGED <<plan, held, scanVars, raw, out, guardVars, consumer, received>>

ReceiveRaw ==
    /\ TaskStep("forward", IF plan.needsDocument THEN "fill" ELSE "send")
    /\ raw # <<>>
    /\ held' = <<Head(raw)>>
    /\ raw' = Tail(raw)
    /\ UNCHANGED <<plan, worker, scanVars, out, guardVars, consumer, received>>

\* recv returns None: the worker has dropped its sender and raw is drained.
RawDrained ==
    /\ TaskStep("forward", "join")
    /\ raw = <<>> /\ WorkerDone
    /\ UNCHANGED <<plan, held, worker, scanVars, raw, out, guardVars, consumer, received>>

\* Mutant: a batch whose documents cannot be fetched is skipped.
FillOrSkip ==
    /\ stage = "fill"
    /\ \/ stage' = "send" /\ UNCHANGED held
       \/ stage' = "forward" /\ held' = <<>>
    /\ UNCHANGED <<plan, worker, scanVars, raw, out, guardVars, consumer, received>>

\* A failed document fetch turns the batch into an error; forwarding goes on.
FillDocuments ==
    /\ TaskStep("fill", "send")
    /\ \/ UNCHANGED held
       \/ held' = <<Error(held[1].first, held[1].last)>>
    /\ UNCHANGED <<plan, worker, scanVars, raw, out, guardVars, consumer, received>>

SendOut ==
    /\ stage = "send"
    /\ \/ /\ OutOpen /\ Room(out)
          /\ out' = Append(out, held[1])
          /\ stage' = "forward"
       \/ /\ ~ OutOpen
          /\ stage' = "join"
          /\ UNCHANGED out
    /\ held' = <<>>
    /\ UNCHANGED <<plan, worker, scanVars, raw, guardVars, consumer, received>>

\* Mutant: the result of the closure is ignored.
JoinIgnoringResult ==
    /\ WorkerDone /\ TaskStep("join", "done")
    /\ UNCHANGED <<plan, held, worker, scanVars, raw, out, guardVars, consumer, received>>

Join ==
    /\ \/ worker = "ok"  /\ TaskStep("join", "done")
       \/ worker = "err" /\ TaskStep("join", "report")
    /\ UNCHANGED <<plan, held, worker, scanVars, raw, out, guardVars, consumer, received>>

\* The wrapper of spawn_tantivy_table_open_task sends the task's error.
SendError ==
    /\ TaskStep("report", "done")
    /\ \/ /\ OutOpen /\ Room(out)
          /\ LET reached == End(out, End(received, 0))
             IN  out' = Append(out, Error(reached + 1, reached))
       \/ ~ OutOpen /\ UNCHANGED out
    /\ UNCHANGED <<plan, held, worker, scanVars, raw, guardVars, consumer, received>>

\* The task is dropped, and with it held and the receiver of raw.
TaskVanishes(to) ==
    /\ stage' = to
    /\ held' = <<>> /\ raw' = <<>>
    /\ UNCHANGED <<plan, worker, scanVars, out, guardVars, consumer, received>>

\* abort takes effect when the task next reaches an await.
AbortTask == Aborting /\ ~ TaskGone /\ TaskVanishes("aborted")

\* Code of the embedding runtime, or rendering a document, panics: nobody
\* awaits the handle of the open task, so the panic is dropped.
PanicTask ==
    /\ stage \in {"prepare", "resolve", "warmup", "fill"}
    /\ TaskVanishes("panicked")
-----------------------------------------------------------------------------
(***************************************************************************)
(* The worker.  cancelled is read with Relaxed ordering: once it is set a  *)
(* read may or may not see it.                                             *)
(***************************************************************************)
\* The pool runs the closure; building the query may fail.  A pool may also
\* refuse the closure, or the closure may panic: both are an error.
StartWorker ==
    /\ worker = "queued"
    /\ worker' \in {"scan", "err"}
    /\ UNCHANGED <<plan, stage, held, scanVars, raw, out, guardVars, consumer, received>>

\* Next segment, once the chunks of this one are exhausted.
NextSegment ==
    /\ worker = "scan"
    /\ segment <= Len(plan.ends) /\ remaining > 0
    /\ row = EndOf(segment)
    /\ segment' = segment + 1
    /\ UNCHANGED <<plan, stage, held, worker, row, remaining, pending, raw, out,
                   guardVars, consumer, received>>

\* The rows of the next batch: a chunk of the segment, cut at the row limit.
Chunk == Min2(plan.batchSize, EndOf(segment) - row)
Uncut == Chunk             \* mutant: the last batch is not cut
Taken == Min2(remaining, Chunk)

BuildBatch ==
    /\ worker = "scan"
    /\ segment <= Len(plan.ends) /\ remaining > 0
    /\ row < EndOf(segment)
    /\ pending' = <<Batch(row + 1, row + Taken)>>
    /\ row' = row + Taken
    /\ remaining' = remaining - Taken
    /\ worker' = "send"
    /\ UNCHANGED <<plan, stage, held, segment, raw, out, guardVars, consumer, received>>

\* blocking_send: waits for room; fails when the receiver is gone, which ends
\* the chunks of this segment only.
SendRaw ==
    /\ worker = "send"
    /\ \/ /\ RawOpen /\ Room(raw)
          /\ raw' = Append(raw, pending[1])
          /\ UNCHANGED <<segment, row>>
       \/ /\ ~ RawOpen
          /\ row' = EndOf(segment)
          /\ segment' = segment + 1
          /\ UNCHANGED raw
    /\ pending' = <<>>
    /\ worker' = "scan"
    /\ UNCHANGED <<plan, stage, held, remaining, out, guardVars, consumer, received>>

\* All segments scanned, the row limit reached, or cancelled seen set.
ScanOverEarly == segment >= Len(plan.ends) \/ remaining = 0 \/ Cancelled  \* mutant
ScanOver == segment > Len(plan.ends) \/ remaining = 0 \/ Cancelled

FinishScan ==
    /\ worker = "scan"
    /\ ScanOver
    /\ worker' = "ok"
    /\ UNCHANGED <<plan, stage, held, scanVars, raw, out, guardVars, consumer, received>>

\* A dictionary, scorer or column cannot be built, or the closure panics.
FailScan ==
    /\ worker = "scan"
    /\ worker' = "err"
    /\ UNCHANGED <<plan, stage, held, scanVars, raw, out, guardVars, consumer, received>>
-----------------------------------------------------------------------------
(***************************************************************************)
(* The consumer: the unfold stream owns the receiver of out and the guard. *)
(***************************************************************************)
Poll ==
    /\ consumer = "polling"
    /\ out # <<>>
    /\ received' = Append(received, Head(out))
    /\ out' = Tail(out)
    /\ UNCHANGED <<plan, stage, held, worker, scanVars, raw, guardVars, consumer>>

PollEnd ==
    /\ consumer = "polling"
    /\ out = <<>> /\ OutClosed
    /\ consumer' = "finished"
    /\ UNCHANGED <<plan, stage, held, worker, scanVars, raw, out, guardVars, received>>

DropStream ==
    /\ consumer = "polling"
    /\ consumer' = "dropped"
    /\ UNCHANGED <<plan, stage, held, worker, scanVars, raw, out, guardVars, received>>

\* Receiver and guard go with the stream, in either order.
DropReceiver ==
    /\ consumer # "polling" /\ OutOpen
    /\ receiver' = "dropped"
    /\ out' = <<>>
    /\ UNCHANGED <<plan, stage, held, worker, scanVars, raw, guard, consumer, received>>

DropGuard ==
    /\ consumer # "polling"
    /\ \/ guard = "armed"     /\ guard' = "cancelled"
       \/ guard = "cancelled" /\ guard' = "aborted"
    /\ UNCHANGED <<plan, stage, held, worker, scanVars, raw, out, receiver, consumer, received>>
-----------------------------------------------------------------------------
Task == \/ Prepare \/ ResolveSchema \/ Warmup
        \/ ReceiveRaw \/ RawDrained \/ FillDocuments \/ SendOut
        \/ Join \/ SendError

Worker == \/ StartWorker \/ NextSegment \/ BuildBatch \/ SendRaw \/ FinishScan \/ FailScan

Teardown == DropReceiver \/ DropGuard

\* The whole system has come to rest.
Terminated ==
    /\ consumer # "polling" /\ ~ OutOpen /\ Aborting
    /\ TaskGone
    /\ WorkerDone \/ worker = "none"
    /\ UNCHANGED vars

Next == \/ Task \/ AbortTask \/ PanicTask
        \/ Worker
        \/ Poll \/ PollEnd \/ DropStream \/ Teardown
        \/ Terminated

Spec == Init /\ [][Next]_vars

(***************************************************************************)
(* The executor polls a task that can run and drops one that is aborted,   *)
(* the pool runs what it accepted, and a value that is dropped is dropped  *)
(* to the end.  Nobody owes a poll: only PollingSpec assumes that the      *)
(* consumer keeps polling.                                                 *)
(***************************************************************************)
FairSpec == /\ Spec
            /\ WF_vars(Task) /\ WF_vars(AbortTask)
            /\ WF_vars(Worker)
            /\ WF_vars(Teardown)

PollingSpec == FairSpec /\ WF_vars(Poll \/ PollEnd)
-----------------------------------------------------------------------------
(***************************************************************************)
(* Safety.                                                                 *)
(***************************************************************************)
TypeOK ==
    /\ plan \in Plans
    /\ stage \in Stages
    /\ worker \in Workers
    /\ segment \in Nat \ {0} /\ row \in Nat /\ remaining \in Nat
    /\ held \in Seq(Item) /\ pending \in Seq(Item)
    /\ raw \in Seq(Item) /\ out \in Seq(Item)
    /\ receiver \in {"open", "dropped"} /\ guard \in {"armed", "cancelled", "aborted"}
    /\ consumer \in {"polling", "dropped", "finished"}
    /\ received \in Seq(Item)

(***************************************************************************)
(* Whatever fails on the way, the consumer sees the rows of the scan in    *)
(* order, each at most once, none beyond the row limit, and wherever rows  *)
(* are missing an error stands in their place.                             *)
(***************************************************************************)
DeliveredInOrder == Continues(received, 0) /\ End(received, 0) <= Target

(***************************************************************************)
(* A stream that ends without an error has delivered every row it owes: an *)
(* early Ok(()) of the worker (cancelled seen, send failed) never reaches  *)
(* a consumer that is still there.  The one exception is a panic of the    *)
(* open task, which the consumer cannot tell from the end of the data.     *)
(***************************************************************************)
CleanEndIsComplete ==
    consumer = "finished" /\ stage # "panicked" /\ ~ HasError(received)
        => End(received, 0) = Target

(***************************************************************************)
(* An error of the worker, which travels outside the channel of batches,   *)
(* is the last thing a consumer sees that reads to the end.                *)
(***************************************************************************)
WorkerErrorReported ==
    consumer = "finished" /\ stage # "panicked" /\ worker = "err" => Failed(received)

(***************************************************************************)
(* Backpressure: the worker is never more than the two channels, the batch *)
(* in its hand and the one in the task's hand ahead of the consumer.       *)
(***************************************************************************)
BoundedRunahead ==
    OutOpen /\ RawOpen => row - End(received, 0) <= (2 * Capacity + 2) * plan.batchSize

(***************************************************************************)
(* The inductive invariant behind these: what each queue holds continues   *)
(* what its reader has, from the rows received to the row scanned last.    *)
(***************************************************************************)
Within(q) == \A i \in 1 .. Len(q) : q[i].last <= Target

Chain ==
    /\ Continues(received, 0) /\ Within(received)
    /\ OutOpen =>
          /\ Continues(out, End(received, 0)) /\ Within(out)
          /\ RawOpen =>
                LET sent  == End(out, End(received, 0))
                    taken == End(held, sent)
                    built == End(raw, taken)
                IN  /\ Continues(held, sent) /\ Within(held)
                    /\ Continues(raw, taken) /\ Within(raw)
                    /\ Continues(pending, built) /\ Within(pending)
                    /\ End(pending, built) = row

\* Which hands are full, and who is gone, in which stage.
Control ==
    /\ consumer = "polling" => OutOpen /\ ~ Cancelled
    /\ stage = "aborted" => Aborting
    /\ IF stage \in {"fill", "send"} THEN Len(held) = 1 ELSE held = <<>>
    /\ IF worker = "send" THEN Len(pending) = 1 ELSE pending = <<>>
    /\ worker = "send" => segment <= Len(plan.ends)
    /\ stage \in {"prepare", "resolve", "warmup"} => worker = "none"
    /\ worker \in {"none", "queued"} => raw = <<>>
    /\ OutOpen /\ stage \in {"join", "done"} => raw = <<>> /\ worker \in {"none", "ok", "err"}
    /\ OutOpen /\ stage = "report" => raw = <<>> /\ worker \in {"none", "err"}

\* Where the scan is, as long as somebody can still receive from it.
Scanned ==
    RawOpen =>
       /\ row + remaining = plan.limit
       /\ segment <= Len(plan.ends) + 1
       /\ EndOf(segment - 1) <= row
       /\ segment <= Len(plan.ends) => row <= EndOf(segment)
       /\ segment > Len(plan.ends) => row = Total
       /\ worker = "ok" /\ ~ Cancelled => row = Target

\* How a stream ends that nobody has dropped.
Outcome ==
    /\ OutOpen /\ stage = "done" =>
          worker = "ok" \/ Failed(IF out = <<>> THEN received ELSE out)
    /\ consumer = "finished" =>
          \/ stage = "panicked"
          \/ stage = "done" /\ Failed(received)
          \/ stage = "done" /\ worker = "ok" /\ End(received, 0) = Target

\* Every item but a failed task's own error stands for some rows, and nothing
\* follows that one.
Substantial(q) == \A i \in 1 .. Len(q) : ~ Terminal(q[i])

LastWord ==
    /\ Substantial(held) /\ Substantial(raw) /\ Substantial(pending)
    /\ OutOpen =>
          /\ \A i \in 1 .. Len(out) : Terminal(out[i]) => i = Len(out) /\ stage = "done"
          /\ Failed(received) => stage = "done" /\ out = <<>>

\* No item covers more rows than a batch has, and no queue more items than
\* its capacity: from any item on, a queue has at most a batch for each.
Rows(n) == n * plan.batchSize

Sized(q) == \A i \in 1 .. Len(q) : q[i].last < q[i].first + plan.batchSize

Paced(q, e) ==
    \A i \in 1 .. Len(q) :
        End(q, e) <= (IF i = 1 THEN e ELSE q[i-1].last) + Rows(Len(q) - i + 1)

Pace ==
    /\ Sized(held) /\ Sized(raw) /\ Sized(pending)
    /\ Len(out) <= Capacity /\ Len(raw) <= Capacity
    /\ OutOpen => LET reached == End(received, 0)
                      taken   == End(held, End(out, reached))
                  IN  Paced(out, reached) /\ (RawOpen => Paced(raw, taken))

IInv == TypeOK /\ Chain /\ Control /\ Scanned /\ Outcome /\ LastWord /\ Pace

(***************************************************************************)
(* Refinement: the stream keeps the contract of ScanContract.              *)
(***************************************************************************)
Contract == INSTANCE ScanContract WITH
                target <- Target, phase <- consumer, crashed <- (stage = "panicked")

ImplementsContract == Contract!Spec

(***************************************************************************)
(* Liveness.  A consumer that keeps polling reaches the end of the stream: *)
(* no cycle of full and empty channels blocks it (run under PollingSpec).  *)
(***************************************************************************)
StreamEnds == <>(consumer = "finished" \/ consumer = "dropped")

(***************************************************************************)
(* Once the stream is dropped, at whatever moment, the open task and the   *)
(* blocking closure both come to an end: a worker that blocks on a full    *)
(* channel is released by the receiver that goes with the aborted task.    *)
(***************************************************************************)
Released == consumer # "polling" ~> TaskGone /\ worker \in {"none", "ok", "err"}
=============================================================================
