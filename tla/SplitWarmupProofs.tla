------------------------- MODULE SplitWarmupProofs -------------------------
(***************************************************************************)
(* Theorems about SplitWarmup, for every set of splits and tasks and every *)
(* itinerary.                                                              *)
(***************************************************************************)
EXTENDS SplitWarmup, TLAPS

\* The split a task is at is one of the plan's splits.
LEMMA SplitType ==
    ASSUME TypeOK, NEW t \in Tasks
    PROVE  Split(t) \in Splits /\ PreparedFor(t) \in Runtime
<1>1. Itinerary[t] \in Seq(Splits) /\ leg[t] \in 1 .. Len(Itinerary[t])
  BY SplitWarmupAssumption DEF TypeOK
<1>2. Split(t) \in Splits
  BY <1>1 DEF Split
<1>3. QED BY <1>2 DEF PreparedFor, Runtime

\* The initial states satisfy the invariant.
LEMMA InitInv == Init => IInv
<1> SUFFICES ASSUME Init PROVE IInv
  OBVIOUS
<1>1. ASSUME NEW t \in Tasks
      PROVE  1 \in 1 .. Len(Itinerary[t]) /\ Itinerary[t][1] \in Splits
  BY SplitWarmupAssumption
<1>2. TypeOK
  BY <1>1 DEF Init, TypeOK, Unprepared, Runtime
<1>3. HolderWarms /\ RuntimeOfSplit /\ SetMeansWarm /\ WarmBeforeRead
  BY DEF Init, HolderWarms, RuntimeOfSplit, SetMeansWarm, WarmBeforeRead
<1>4. QED BY <1>2, <1>3 DEF IInv

\* What a step of t leaves alone: the other tasks.
LEMMA OthersStay ==
    ASSUME TypeOK, NEW t \in Tasks, NEW u \in Tasks, u # t, Step(t) \/ Abort(t)
    PROVE  pc'[u] = pc[u] /\ leg'[u] = leg[u] /\ runtime'[u] = runtime[u]
<1>1. CASE Prepare(t)
  BY <1>1 DEF TypeOK, Prepare, Goto
<1>2. CASE Enter(t) \/ Warmed(t) \/ WarmupFails(t) \/ Abort(t)
  BY <1>2 DEF TypeOK, Enter, Warmed, WarmupFails, Abort, Goto
<1>3. CASE ReadSplit(t)
  BY <1>3 DEF TypeOK, ReadSplit, Goto
<1>4. QED BY <1>1, <1>2, <1>3 DEF Step

\* A step keeps the types.
LEMMA TypeStep == ASSUME TypeOK, NEW t \in Tasks, Step(t) \/ Abort(t) PROVE TypeOK'
<1>1. Split(t) \in Splits /\ PreparedFor(t) \in Runtime
  BY SplitType
<1>2. CASE Prepare(t)
  <2>1. runtime' \in [Tasks -> Runtime]
    BY <1>1, <1>2 DEF Prepare, TypeOK
  <2>2. pc' \in [Tasks -> {"prepare", "enter", "warm", "read"} \cup Ended]
    BY <1>2 DEF Prepare, Goto, TypeOK, Ended
  <2>3. QED BY <1>2, <2>1, <2>2 DEF Prepare, TypeOK
<1>3. CASE Enter(t)
  <2>1. cell' \in [Splits -> [set : BOOLEAN, holder : SUBSET Tasks]]
    BY <1>1, <1>3 DEF Enter, TypeOK
  <2>2. pc' \in [Tasks -> {"prepare", "enter", "warm", "read"} \cup Ended]
    BY <1>3 DEF Enter, Goto, TypeOK, Ended
  <2>3. QED BY <1>3, <2>1, <2>2 DEF Enter, TypeOK
<1>4. CASE Warmed(t)
  <2>1. warm' \subseteq Runtime
    BY <1>4 DEF Warmed, TypeOK
  <2>2. cell' \in [Splits -> [set : BOOLEAN, holder : SUBSET Tasks]]
    BY <1>1, <1>4 DEF Warmed, TypeOK
  <2>3. QED BY <1>4, <2>1, <2>2 DEF Warmed, Goto, TypeOK, Ended
<1>5. CASE WarmupFails(t) \/ Abort(t)
  <2>1. cell' = [cell EXCEPT ![Split(t)].holder = @ \ {t}]
    BY <1>5 DEF WarmupFails, Abort, ReturnPermit
  <2>2. cell[Split(t)] \in [set : BOOLEAN, holder : SUBSET Tasks]
    BY <1>1 DEF TypeOK
  <2>3. [cell[Split(t)] EXCEPT !.holder = @ \ {t}] \in [set : BOOLEAN, holder : SUBSET Tasks]
    BY <2>2
  <2>4. cell' \in [Splits -> [set : BOOLEAN, holder : SUBSET Tasks]]
    BY <1>1, <2>1, <2>3 DEF TypeOK
  <2>5. QED BY <1>5, <2>4 DEF WarmupFails, Abort, Goto, TypeOK, Ended
<1>6. CASE ReadSplit(t)
  <2>1. \A u \in Tasks : leg'[u] \in 1 .. Len(Itinerary[u])
    <3> TAKE u \in Tasks
    <3>1. leg[u] \in 1 .. Len(Itinerary[u]) /\ Itinerary[u] \in Seq(Splits)
      BY SplitWarmupAssumption DEF TypeOK
    <3>2. CASE u = t /\ MoreSplits(t)
      <4>1. leg' = [leg EXCEPT ![t] = @ + 1]
        BY <1>6, <3>2 DEF ReadSplit
      <4>2. leg'[u] \in {leg[u], leg[u] + 1} /\ leg[u] < Len(Itinerary[u])
        BY <3>2, <4>1 DEF MoreSplits
      <4>3. QED BY <3>1, <4>2
    <3>3. CASE ~ (u = t /\ MoreSplits(t))
      <4>1. leg'[u] = leg[u]
        BY <1>6, <3>3 DEF ReadSplit, TypeOK
      <4>2. QED BY <3>1, <4>1
    <3>4. QED BY <3>2, <3>3
  <2>2. QED BY <1>6, <2>1 DEF ReadSplit, Goto, TypeOK, Ended
<1>7. QED BY <1>2, <1>3, <1>4, <1>5, <1>6 DEF Step

\* The step of one task keeps the rest of the invariant.
LEMMA TaskStepInv == ASSUME IInv, NEW t \in Tasks, Step(t) \/ Abort(t) PROVE IInv'
<1>1. TypeOK /\ TypeOK'
  BY TypeStep DEF IInv
<1>2. Split(t) \in Splits /\ PreparedFor(t) \in Runtime
  BY <1>1, SplitType
<1>3. ASSUME NEW u \in Tasks, u # t
      PROVE  /\ pc'[u] = pc[u] /\ runtime'[u] = runtime[u]
             /\ Split(u)' = Split(u) /\ PreparedFor(u)' = PreparedFor(u)
  BY <1>1, <1>3, OthersStay DEF Split, PreparedFor
<1>4. CASE Prepare(t)
  <2>1. UNCHANGED <<leg, cell, warm>> /\ pc'[t] \in {"read", "enter", "failed"}
        /\ (pc'[t] # "failed" => runtime'[t] = PreparedFor(t))
        /\ (pc'[t] = "read" => Split(t) \in Local)
    BY <1>1, <1>4 DEF Prepare, Goto, TypeOK
  <2>2. Split(t)' = Split(t) /\ PreparedFor(t)' = PreparedFor(t)
    BY <2>1 DEF Split, PreparedFor
  <2>3. HolderWarms' /\ RuntimeOfSplit' /\ SetMeansWarm'
    BY <1>3, <2>1, <2>2 DEF IInv, HolderWarms, RuntimeOfSplit, SetMeansWarm
  <2>4. ~ FreshPrepare => WarmBeforeRead'
    BY <1>3, <2>1, <2>2 DEF IInv, WarmBeforeRead
  <2>5. QED BY <1>1, <2>3, <2>4 DEF IInv
<1>5. CASE Enter(t)
  <2>1. UNCHANGED <<leg, runtime, warm>> /\ pc[t] = "enter"
    BY <1>5 DEF Enter
  <2>2. Split(t)' = Split(t) /\ PreparedFor(t)' = PreparedFor(t)
        /\ runtime[t] = PreparedFor(t)
    BY <2>1 DEF Split, PreparedFor, IInv, RuntimeOfSplit
  <2>3. CASE cell[Split(t)].set /\ Goto(t, "read") /\ UNCHANGED cell
    <3>1. pc'[t] = "read"
      BY <1>1, <2>3 DEF Goto, TypeOK
    <3>2. HolderWarms' /\ RuntimeOfSplit' /\ SetMeansWarm'
      BY <1>3, <2>1, <2>2, <2>3, <3>1 DEF IInv, HolderWarms, RuntimeOfSplit, SetMeansWarm
    <3>3. ~ FreshPrepare => runtime[t] \in warm
      BY <1>2, <2>2, <2>3 DEF IInv, SetMeansWarm, PreparedFor
    <3>4. ~ FreshPrepare => WarmBeforeRead'
      BY <1>3, <2>1, <2>2, <3>3 DEF IInv, WarmBeforeRead
    <3>5. QED BY <1>1, <3>2, <3>4 DEF IInv
  <2>4. CASE /\ ~ cell[Split(t)].set /\ PermitFree(t)
             /\ cell' = [cell EXCEPT ![Split(t)].holder = {t}]
             /\ Goto(t, "warm")
    <3>1. pc'[t] = "warm"
      BY <1>1, <2>4 DEF Goto, TypeOK
    <3>2. cell'[Split(t)] = [set |-> FALSE, holder |-> {t}]
      BY <1>1, <1>2, <2>4 DEF TypeOK
    <3>3. \A s \in Splits : s # Split(t) => cell'[s] = cell[s]
      BY <1>1, <2>4 DEF TypeOK
    <3>4. ASSUME NEW u \in Tasks, pc[u] = "warm" PROVE Split(u) # Split(t)
      <4>1. cell[Split(u)] = [set |-> FALSE, holder |-> {u}]
        BY <3>4 DEF IInv, HolderWarms
      <4>2. QED BY <2>4, <4>1 DEF PermitFree
    <3>5. HolderWarms'
      <4> SUFFICES ASSUME NEW u \in Tasks, pc'[u] = "warm"
                   PROVE  cell'[Split(u)'] = [set |-> FALSE, holder |-> {u}]
        BY DEF HolderWarms
      <4>1. CASE u = t
        BY <2>2, <3>2, <4>1
      <4>2. CASE u # t
        <5>1. pc[u] = "warm" /\ Split(u)' = Split(u)
          BY <1>3, <4>2
        <5>2. Split(u) \in Splits
          BY <1>1, SplitType
        <5>3. QED BY <3>3, <3>4, <5>1, <5>2 DEF IInv, HolderWarms
      <4>3. QED BY <4>1, <4>2
    <3>6. RuntimeOfSplit' /\ SetMeansWarm'
      BY <1>3, <2>1, <2>2, <3>2, <3>3 DEF IInv, RuntimeOfSplit, SetMeansWarm
    <3>7. ~ FreshPrepare => WarmBeforeRead'
      BY <1>3, <2>1, <3>1 DEF IInv, WarmBeforeRead
    <3>8. QED BY <1>1, <3>5, <3>6, <3>7 DEF IInv
  <2>5. QED BY <1>5, <2>3, <2>4 DEF Enter
<1>6. CASE Warmed(t)
  <2>1. UNCHANGED <<leg, runtime>> /\ pc[t] = "warm" /\ warm' = warm \cup {runtime[t]}
    BY <1>6 DEF Warmed
  <2>2. Split(t)' = Split(t) /\ PreparedFor(t)' = PreparedFor(t)
        /\ runtime[t] = PreparedFor(t)
    BY <2>1 DEF Split, PreparedFor, IInv, RuntimeOfSplit
  <2>3. pc'[t] = "read" /\ \A s \in Splits : s # Split(t) => cell'[s] = cell[s]
    BY <1>1, <1>6 DEF Warmed, Goto, TypeOK
  <2>4. ASSUME NEW u \in Tasks, u # t, pc[u] = "warm" PROVE Split(u) # Split(t)
    <3>1. cell[Split(t)] = [set |-> FALSE, holder |-> {t}]
      BY <2>1 DEF IInv, HolderWarms
    <3>2. cell[Split(u)] = [set |-> FALSE, holder |-> {u}]
      BY <2>4 DEF IInv, HolderWarms
    <3>3. QED BY <2>4, <3>1, <3>2
  <2>5. HolderWarms'
    <3> SUFFICES ASSUME NEW u \in Tasks, pc'[u] = "warm"
                 PROVE  cell'[Split(u)'] = [set |-> FALSE, holder |-> {u}]
      BY DEF HolderWarms
    <3>1. u # t /\ pc[u] = "warm" /\ Split(u)' = Split(u)
      BY <1>3, <2>3
    <3>2. Split(u) \in Splits
      BY <1>1, SplitType
    <3>3. QED BY <2>3, <2>4, <3>1, <3>2 DEF IInv, HolderWarms
  <2>6. RuntimeOfSplit'
    BY <1>3, <2>1, <2>2 DEF IInv, RuntimeOfSplit
  <2>7. SetMeansWarm'
    BY <2>1, <2>2, <2>3 DEF IInv, SetMeansWarm, PreparedFor
  <2>8. ~ FreshPrepare => WarmBeforeRead'
    BY <1>3, <2>1, <2>2 DEF IInv, WarmBeforeRead
  <2>9. QED BY <1>1, <2>5, <2>6, <2>7, <2>8 DEF IInv
<1>7. CASE WarmupFails(t) \/ Abort(t)
  <2>1. UNCHANGED <<leg, runtime, warm>> /\ pc'[t] \in {"failed", "aborted"} /\ ReturnPermit(t)
    BY <1>1, <1>7 DEF WarmupFails, Abort, Goto, TypeOK
  <2>2. \A s \in Splits : cell'[s].set = cell[s].set /\ (s # Split(t) => cell'[s] = cell[s])
    BY <1>1, <1>2, <2>1 DEF ReturnPermit, TypeOK
  <2>3. cell'[Split(t)] = [set |-> cell[Split(t)].set, holder |-> cell[Split(t)].holder \ {t}]
    BY <1>1, <1>2, <2>1 DEF ReturnPermit, TypeOK
  <2>4. HolderWarms'
    <3> SUFFICES ASSUME NEW u \in Tasks, pc'[u] = "warm"
                 PROVE  cell'[Split(u)'] = [set |-> FALSE, holder |-> {u}]
      BY DEF HolderWarms
    <3>1. u # t /\ pc[u] = "warm" /\ Split(u)' = Split(u)
      BY <1>3, <2>1
    <3>2. Split(u) \in Splits /\ cell[Split(u)] = [set |-> FALSE, holder |-> {u}]
      BY <1>1, <3>1, SplitType DEF IInv, HolderWarms
    <3>3. CASE Split(u) = Split(t)
      BY <2>3, <3>1, <3>2, <3>3
    <3>4. CASE Split(u) # Split(t)
      BY <2>2, <3>1, <3>2, <3>4
    <3>5. QED BY <3>3, <3>4
  <2>5. RuntimeOfSplit' /\ SetMeansWarm'
    BY <1>3, <2>1, <2>2 DEF IInv, RuntimeOfSplit, SetMeansWarm
  <2>6. ~ FreshPrepare => WarmBeforeRead'
    BY <1>3, <2>1 DEF IInv, WarmBeforeRead
  <2>7. QED BY <1>1, <2>4, <2>5, <2>6 DEF IInv
<1>8. CASE ReadSplit(t)
  <2>1. UNCHANGED <<runtime, cell, warm>> /\ pc'[t] \in {"prepare", "done"}
    BY <1>1, <1>8 DEF ReadSplit, Goto, TypeOK
  <2>2. HolderWarms' /\ RuntimeOfSplit' /\ SetMeansWarm'
    BY <1>3, <2>1 DEF IInv, HolderWarms, RuntimeOfSplit, SetMeansWarm
  <2>3. ~ FreshPrepare => WarmBeforeRead'
    BY <1>3, <2>1 DEF IInv, WarmBeforeRead
  <2>4. QED BY <1>1, <2>2, <2>3 DEF IInv
<1>9. QED BY <1>4, <1>5, <1>6, <1>7, <1>8 DEF Step

\* IInv holds in every state.
THEOREM Invariance == Spec => []IInv
<1>1. IInv /\ [Next]_vars => IInv'
  <2> SUFFICES ASSUME IInv, [Next]_vars PROVE IInv'
    OBVIOUS
  <2>1. CASE \E t \in Tasks : Step(t) \/ Abort(t)
    BY <2>1, TaskStepInv
  <2>2. CASE UNCHANGED vars
    BY <2>2 DEF vars, IInv, TypeOK, HolderWarms, RuntimeOfSplit, SetMeansWarm,
       WarmBeforeRead, Split, PreparedFor
  <2>3. QED BY <2>1, <2>2 DEF Next, Finished
<1>2. QED BY <1>1, InitInv, PTL DEF Spec

\* No variable leaves its type: a task never reads past its last split.
THEOREM TypeCorrect == Spec => []TypeOK
<1>1. IInv => TypeOK
  BY DEF IInv
<1>2. QED BY <1>1, Invariance, PTL

\* No two warmups of a split at a time, and none after one that succeeded.
THEOREM OnceOnly == Spec => []WarmsOnce
<1>1. IInv => WarmsOnce
  <2> SUFFICES ASSUME IInv, NEW s \in Splits, NEW t \in Tasks, NEW u \in Tasks, Warming(t, s)
               PROVE  ~ cell[s].set /\ (Warming(u, s) => t = u)
    BY DEF WarmsOnce
  <2>1. cell[s] = [set |-> FALSE, holder |-> {t}]
    BY DEF IInv, HolderWarms, Warming
  <2>2. Warming(u, s) => cell[s] = [set |-> FALSE, holder |-> {u}]
    BY DEF IInv, HolderWarms, Warming
  <2>3. QED BY <2>1, <2>2
<1>2. QED BY <1>1, Invariance, PTL

\* With a factory that prepares each split once, only warm data is read.
THEOREM ReadsAreWarm == Spec => [](~ FreshPrepare => WarmBeforeRead)
<1>1. IInv => (~ FreshPrepare => WarmBeforeRead)
  BY DEF IInv
<1>2. QED BY <1>1, Invariance, PTL
=============================================================================
