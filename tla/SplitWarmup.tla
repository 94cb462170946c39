---------------------------- MODULE SplitWarmup ----------------------------
(***************************************************************************)
(* Warming up the splits of one plan.  A plan holds one OnceCell per split *)
(* (warmup_done), which its clones and all its executions share.  Every    *)
(* execution of a partition is a task of its own: it prepares the split,   *)
(* runs the warmup through the split's cell and then reads the split       *)
(* synchronously from the prepared runtime's searcher.  A scan visits one  *)
(* split, a merged aggregation visits all of them in turn.                 *)
(*                                                                         *)
(* tokio's OnceCell::get_or_try_init has one permit: the first task that   *)
(* finds the cell unset gets it and runs its own warmup, the others wait.  *)
(* Success sets the cell for good and wakes everyone; a failed or aborted  *)
(* task returns the permit to those who wait, in any order here.           *)
(***************************************************************************)
EXTENDS Naturals, Sequences

CONSTANTS Splits, Tasks,
          Itinerary,     \* the splits a task visits, in order
          Local,         \* splits that need no warmup (mmap)
          FreshPrepare   \* does the factory prepare anew on every call?

ASSUME SplitWarmupAssumption ==
    /\ Itinerary \in [Tasks -> Seq(Splits)]
    /\ \A t \in Tasks : Itinerary[t] # <<>>
    /\ Local \subseteq Splits
    /\ FreshPrepare \in BOOLEAN

VARIABLES pc,        \* where each task is
          leg,       \* which split of its itinerary it is at
          runtime,   \* the PreparedSplit it works with
          cell,      \* warmup_done of each split, with the holder of its permit, if any
          warm       \* the prepared splits whose data has been loaded

vars == <<pc, leg, runtime, cell, warm>>

\* A prepared split: one that the factory keeps and hands out to everyone
\* (owners is all tasks), or one that was prepared for a single task.
Runtime == [split : Splits, owners : SUBSET Tasks]

Split(t) == Itinerary[t][leg[t]]

Unprepared(t) == [split |-> Itinerary[t][1], owners |-> {}]

Ended == {"done", "failed", "aborted"}
-----------------------------------------------------------------------------
Init == /\ pc = [t \in Tasks |-> "prepare"]
        /\ leg = [t \in Tasks |-> 1]
        /\ runtime = [t \in Tasks |-> Unprepared(t)]
        /\ cell = [s \in Splits |-> [set |-> FALSE, holder |-> {}]]
        /\ warm = {}

Goto(t, to) == pc' = [pc EXCEPT ![t] = to]

\* Mutant: nothing is kept between calls.
PreparedAnew(t) == [split |-> Split(t), owners |-> {t}]

PreparedFor(t) ==
    [split |-> Split(t), owners |-> IF FreshPrepare THEN {t} ELSE Tasks]

Prepare(t) ==
    /\ pc[t] = "prepare"
    /\ \/ /\ runtime' = [runtime EXCEPT ![t] = PreparedFor(t)]
          /\ Goto(t, IF Split(t) \in Local THEN "read" ELSE "enter")
       \/ Goto(t, "failed") /\ UNCHANGED runtime
    /\ UNCHANGED <<leg, cell, warm>>

\* get_or_try_init takes the value if there is one, and the permit otherwise.
PermitForAll(t) == TRUE            \* mutant: nobody waits for the permit
PermitFree(t) == cell[Split(t)].holder = {}

Enter(t) ==
    /\ pc[t] = "enter"
    /\ \/ cell[Split(t)].set /\ Goto(t, "read") /\ UNCHANGED cell
       \/ /\ ~ cell[Split(t)].set /\ PermitFree(t)
          /\ cell' = [cell EXCEPT ![Split(t)].holder = {t}]
          /\ Goto(t, "warm")
    /\ UNCHANGED <<leg, runtime, warm>>

Warmed(t) ==
    /\ pc[t] = "warm"
    /\ cell' = [cell EXCEPT ![Split(t)] = [set |-> TRUE, holder |-> {}]]
    /\ warm' = warm \cup {runtime[t]}
    /\ Goto(t, "read")
    /\ UNCHANGED <<leg, runtime>>

KeepPermit(t) == UNCHANGED cell    \* mutant: the permit is lost with its holder
ReturnPermit(t) == cell' = [cell EXCEPT ![Split(t)].holder = @ \ {t}]

\* A column or a posting list cannot be loaded: the error goes to this task
\* alone, and the cell stays unset.
WarmupFails(t) ==
    /\ pc[t] = "warm"
    /\ ReturnPermit(t)
    /\ Goto(t, "failed")
    /\ UNCHANGED <<leg, runtime, warm>>

\* The synchronous read of the split; then the next split, if there is one.
OneMore(t) == leg[t] <= Len(Itinerary[t])     \* mutant: off by one
MoreSplits(t) == leg[t] < Len(Itinerary[t])

ReadSplit(t) ==
    /\ pc[t] = "read"
    /\ IF MoreSplits(t)
       THEN /\ leg' = [leg EXCEPT ![t] = @ + 1]
            /\ Goto(t, "prepare")
       ELSE Goto(t, "done") /\ UNCHANGED leg
    /\ UNCHANGED <<runtime, cell, warm>>

\* The stream is dropped and its task aborted, at any await.
Abort(t) ==
    /\ pc[t] \notin Ended
    /\ ReturnPermit(t)
    /\ Goto(t, "aborted")
    /\ UNCHANGED <<leg, runtime, warm>>

Step(t) == \/ Prepare(t) \/ Enter(t) \/ Warmed(t)
           \/ WarmupFails(t) \/ ReadSplit(t)

Finished == (\A t \in Tasks : pc[t] \in Ended) /\ UNCHANGED vars

Next == (\E t \in Tasks : Step(t) \/ Abort(t)) \/ Finished

Spec == Init /\ [][Next]_vars

\* The executor polls every task that can run.
FairSpec == Spec /\ \A t \in Tasks : WF_vars(Step(t))
-----------------------------------------------------------------------------
TypeOK ==
    /\ pc \in [Tasks -> {"prepare", "enter", "warm", "read"} \cup Ended]
    /\ leg \in [Tasks -> Nat]
    /\ \A t \in Tasks : leg[t] \in 1 .. Len(Itinerary[t])
    /\ runtime \in [Tasks -> Runtime]
    /\ cell \in [Splits -> [set : BOOLEAN, holder : SUBSET Tasks]]
    /\ warm \subseteq Runtime

(***************************************************************************)
(* Warmup runs at most once per split: never two at a time, and never      *)
(* again after it has succeeded.                                           *)
(***************************************************************************)
Warming(t, s) == pc[t] = "warm" /\ Split(t) = s

WarmsOnce ==
    \A s \in Splits, t, u \in Tasks :
        Warming(t, s) => ~ cell[s].set /\ (Warming(u, s) => t = u)

(***************************************************************************)
(* No synchronous read of a storage-backed split touches data that has not *)
(* been loaded: the warmup that the cell remembers is one of the very      *)
(* runtime that is read.                                                   *)
(***************************************************************************)
WarmBeforeRead ==
    \A t \in Tasks : pc[t] = "read" /\ Split(t) \notin Local => runtime[t] \in warm

(***************************************************************************)
(* The inductive invariant: a task that runs the warmup holds the permit   *)
(* of an unset cell, and a set cell stands for a warm runtime as long as   *)
(* the factory hands out only one per split.                               *)
(***************************************************************************)
HolderWarms ==
    \A t \in Tasks : pc[t] = "warm" => cell[Split(t)] = [set |-> FALSE, holder |-> {t}]

RuntimeOfSplit ==
    \A t \in Tasks : pc[t] \in {"enter", "warm", "read"} => runtime[t] = PreparedFor(t)

SetMeansWarm ==
    ~ FreshPrepare =>
        \A s \in Splits : cell[s].set => [split |-> s, owners |-> Tasks] \in warm

IInv == TypeOK /\ HolderWarms /\ RuntimeOfSplit /\ SetMeansWarm
        /\ (~ FreshPrepare => WarmBeforeRead)

(***************************************************************************)
(* However many executions fail or are dropped while they hold or await    *)
(* the permit, each of the others gets through.                            *)
(***************************************************************************)
EveryOpenEnds == \A t \in Tasks : <>(pc[t] \in Ended)
=============================================================================
