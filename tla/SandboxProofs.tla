--------------------------- MODULE SandboxProofs ---------------------------
(* Proofs about SandboxRun, for every set of runs. *)
EXTENDS SandboxRun, TLAPS

USE DEF Kinds, Ended, PCs, Labels, SandboxStates, WorkerStates, Retained, Label

StepOf(r) == \/ Create(r) \/ Stage(r) \/ Review(r) \/ StartWorker(r) \/ ExecReturns(r)
             \/ ExecRaises(r) \/ Collect(r) \/ Cleanup(r) \/ WriteResult(r)
             \/ WorkerEnds(r) \/ Kill(r) \/ AutoStop(r) \/ Expire(r)

LEMMA StepsOf == Next <=> \E r \in Runs : StepOf(r)
  BY DEF Next, ControlStep, StepOf

LEMMA InitTypeOK == Init => TypeOK
  BY DEF Init, TypeOK

LEMMA NextTypeOK == TypeOK /\ [Next]_vars => TypeOK'
<1> SUFFICES ASSUME TypeOK, [Next]_vars PROVE TypeOK'
  OBVIOUS
<1> USE DEF TypeOK
<1>1. CASE UNCHANGED vars
  BY <1>1 DEF vars
<1>2. ASSUME NEW r \in Runs, StepOf(r) PROVE TypeOK'
  <2>1. CASE Create(r)
    BY <2>1 DEF Create, Goto
  <2>2. CASE Stage(r)
    BY <2>2 DEF Stage, Raise, Goto
  <2>3. CASE Review(r) \/ ExecRaises(r) \/ Kill(r) \/ WriteResult(r) \/ ExecReturns(r)
    BY <2>3 DEF Review, ExecRaises, Kill, WriteResult, ExecReturns, Raise, Goto
  <2>4. CASE StartWorker(r) \/ WorkerEnds(r)
    BY <2>4 DEF StartWorker, WorkerEnds
  <2>5. CASE Collect(r)
    BY <2>5 DEF Collect, Raise, Goto
  <2>6. CASE Cleanup(r)
    BY <2>6 DEF Cleanup, Return, DeleteRaises, Leave, Goto
  <2>7. CASE AutoStop(r)
    BY <2>7 DEF AutoStop, Leave
  <2>8. CASE Expire(r)
    BY <2>8 DEF Expire, Leave
  <2> QED
    BY <1>2, <2>1, <2>2, <2>3, <2>4, <2>5, <2>6, <2>7, <2>8 DEF StepOf
<1> QED
  BY <1>1, <1>2, StepsOf

(* Type correctness: TypeOK holds in every reachable state. *)
THEOREM TypeCorrect == Spec => []TypeOK
  BY InitTypeOK, NextTypeOK, PTL DEF Spec

(* The inductive invariant, with the part that is a property of its own.   *)
Inv == NoStrayWorker /\ IndInv

LEMMA Step ==
  ASSUME TypeOK, Inv, NEW r \in Runs, StepOf(r)
  PROVE  Inv'
<1> USE DEF TypeOK, Inv, NoStrayWorker, IndInv, ResultStage
<1>1. CASE Create(r)
  BY <1>1 DEF Create, Goto
<1>2. CASE Stage(r) \/ Review(r) \/ ExecRaises(r) \/ Kill(r)
  BY <1>2 DEF Stage, Review, ExecRaises, Kill, Raise, Goto
<1>3. CASE WriteResult(r) \/ ExecReturns(r)
  BY <1>3 DEF WriteResult, ExecReturns, Goto
<1>4. CASE StartWorker(r) \/ WorkerEnds(r)
  BY <1>4 DEF StartWorker, WorkerEnds
<1>5. CASE Collect(r)
  BY <1>5 DEF Collect, Raise, Goto
<1>6. CASE Cleanup(r)
  BY <1>6 DEF Cleanup, Return, DeleteRaises, Leave, Goto
<1>7. CASE AutoStop(r)
  BY <1>7 DEF AutoStop, Leave
<1>8. CASE Expire(r)
  BY <1>8 DEF Expire, Leave
<1> QED
  BY <1>1, <1>2, <1>3, <1>4, <1>5, <1>6, <1>7, <1>8 DEF StepOf

LEMMA InitInv == Init => Inv
  BY DEF Init, Inv, NoStrayWorker, IndInv, ResultStage

LEMMA NextInv == TypeOK /\ Inv /\ [Next]_vars => Inv'
<1> SUFFICES ASSUME TypeOK, Inv, [Next]_vars PROVE Inv'
  OBVIOUS
<1>1. CASE UNCHANGED vars
  BY <1>1 DEF vars, Inv, NoStrayWorker, IndInv, ResultStage
<1>2. CASE Next
  BY <1>2, StepsOf, Step
<1> QED
  BY <1>1, <1>2

(* The inductive invariant holds in every reachable state. *)
THEOREM Inductive == Spec => []Inv
  BY InitTypeOK, NextTypeOK, InitInv, NextInv, PTL DEF Spec

(* A result file exists only after the worker wrote its own result, and its *)
(* lifecycle label is true.                                                 *)
THEOREM ReportTrue == Spec => []ReportIsTrue
<1>1. Inv => ReportIsTrue
  BY DEF Inv, IndInv, ResultStage, ReportIsTrue
<1> QED
  BY <1>1, Inductive, PTL

(* A worker left behind never runs outside a started sandbox. *)
THEOREM StrayWorkers == Spec => []NoStrayWorker
<1>1. Inv => NoStrayWorker
  BY DEF Inv
<1> QED
  BY <1>1, Inductive, PTL

(* Daytona's auto-stop cannot take the sandbox away under the exec of a     *)
(* Kiro evidence worker or of a retained run: the timeouts of the code are  *)
(* shorter than the auto-stop intervals it asks for.                        *)
THEOREM ExecFitsInterval == Spec => NotStoppedUnderWorker
<1> DEFINE Kept == \A r \in Runs : kind[r] # "sdk" /\ pc[r] = "worker" /\ pc'[r] = "worker"
                                     => sandbox'[r] = sandbox[r]
<1>1. TypeOK /\ [Next]_vars => [Kept]_vars
  <2> SUFFICES ASSUME TypeOK, [Next]_vars PROVE Kept
    OBVIOUS
  <2>1. CASE UNCHANGED vars
    BY <2>1 DEF vars
  <2>2. ASSUME NEW q \in Runs, StepOf(q) PROVE Kept
    <3> USE DEF TypeOK
    <3>1. CASE Create(q)
      BY <3>1 DEF Create, Goto
    <3>2. CASE \/ Stage(q) \/ Review(q) \/ StartWorker(q) \/ ExecReturns(q) \/ ExecRaises(q)
               \/ Collect(q) \/ WriteResult(q) \/ WorkerEnds(q) \/ Kill(q)
      BY <3>2 DEF Stage, Review, StartWorker, ExecReturns, ExecRaises, Collect, WriteResult,
                  WorkerEnds, Kill, Raise
    <3>3. CASE Cleanup(q)
      BY <3>3 DEF Cleanup, Return, DeleteRaises, Leave, Goto
    <3>4. CASE AutoStop(q)
      BY <3>4 DEF AutoStop, Leave, Silent, AutoStopInterval, WorkerTimeout, ReviewTimeout
    <3>5. CASE Expire(q)
      BY <3>5 DEF Expire, Leave
    <3> QED
      BY <2>2, <3>1, <3>2, <3>3, <3>4, <3>5 DEF StepOf
  <2> QED
    BY <2>1, <2>2, StepsOf
<1> QED
  BY <1>1, TypeCorrect, PTL DEF Spec, NotStoppedUnderWorker

(* The stage of every run's result is kept by every step.                   *)
THEOREM ResultStages == Spec => []IndInv
<1>1. Inv => IndInv
  BY DEF Inv
<1> QED
  BY <1>1, Inductive, PTL
-----------------------------------------------------------------------------
(* Why no run goes on forever: the controlling process, the worker and the  *)
(* sandbox each have a last state, none ever goes back, and every step of   *)
(* the run takes one of them on.  A sandbox is created only once.           *)
ProcessAge(label) ==
    CASE label = "create" -> 0   [] label = "stage" -> 1    [] label = "review" -> 2
      [] label = "worker" -> 3   [] label = "collect" -> 4  [] label = "cleanup" -> 5
      [] label = "write" -> 6    [] OTHER -> 7

WorkerAge(state) == CASE state = "idle" -> 0 [] state = "running" -> 1 [] OTHER -> 2

SandboxAge(state) ==
    CASE state = "absent" -> 0 [] state = "started" -> 1 [] state = "stopped" -> 2 [] OTHER -> 3

Age(r) == ProcessAge(pc[r]) + WorkerAge(worker[r]) + SandboxAge(sandbox[r])

LastAge == 12

Ages(r) ==
    /\ Age(r) \in 0 .. LastAge
    /\ ~UNCHANGED <<pc[r], worker[r], sandbox[r]>> => Age(r)' > Age(r)
    /\ StepOf(r) => Age(r)' > Age(r)

(* Before the creation there is neither a sandbox nor a worker.             *)
Unborn(r) == pc[r] = "create" => sandbox[r] = "absent" /\ worker[r] = "idle"
UnbornInv == \A r \in Runs : Unborn(r)

LEMMA AgeBounds == ASSUME NEW r PROVE Age(r) \in 0 .. LastAge
<1>1. ProcessAge(pc[r]) \in 0 .. 7
  BY DEF ProcessAge
<1>2. WorkerAge(worker[r]) \in 0 .. 2
  BY DEF WorkerAge
<1>3. SandboxAge(sandbox[r]) \in 0 .. 3
  BY DEF SandboxAge
<1> QED
  BY <1>1, <1>2, <1>3 DEF Age, LastAge

(* What a step of one run leaves of the others.                             *)
LEMMA OneRun ==
  ASSUME TypeOK, NEW r \in Runs, StepOf(r), NEW q \in Runs \ {r}
  PROVE  UNCHANGED <<pc[q], worker[q], sandbox[q]>>
<1> USE DEF TypeOK
<1>1. CASE Create(r) \/ Stage(r) \/ Review(r) \/ StartWorker(r) \/ ExecReturns(r)
  BY <1>1 DEF Create, Stage, Review, StartWorker, ExecReturns, Raise, Goto
<1>2. CASE ExecRaises(r) \/ Collect(r) \/ WriteResult(r) \/ WorkerEnds(r) \/ Kill(r)
  BY <1>2 DEF ExecRaises, Collect, WriteResult, WorkerEnds, Kill, Raise, Goto
<1>3. CASE Cleanup(r)
  BY <1>3 DEF Cleanup, Return, DeleteRaises, Leave, Goto
<1>4. CASE AutoStop(r) \/ Expire(r)
  BY <1>4 DEF AutoStop, Expire, Leave
<1> QED
  BY <1>1, <1>2, <1>3, <1>4 DEF StepOf

LEMMA UnbornStep ==
  ASSUME TypeOK, NEW r \in Runs, Unborn(r), StepOf(r)
  PROVE  pc'[r] # "create"
<1> USE DEF TypeOK
<1>1. CASE Create(r) \/ Stage(r) \/ Review(r) \/ StartWorker(r) \/ ExecReturns(r)
  BY <1>1 DEF Create, Stage, Review, StartWorker, ExecReturns, Raise, Goto
<1>2. CASE ExecRaises(r) \/ Collect(r) \/ WriteResult(r) \/ Kill(r)
  BY <1>2 DEF ExecRaises, Collect, WriteResult, Kill, Raise, Goto
<1>3. CASE Cleanup(r)
  BY <1>3 DEF Cleanup, Return, DeleteRaises, Goto
<1>4. CASE WorkerEnds(r) \/ AutoStop(r) \/ Expire(r)
  BY <1>4 DEF WorkerEnds, AutoStop, Expire, Unborn, Silent
<1> QED
  BY <1>1, <1>2, <1>3, <1>4 DEF StepOf

(* Which of the three a step takes on, and that none goes back.             *)
LEMMA StepAges ==
  ASSUME TypeOK, NEW r \in Runs, Unborn(r), StepOf(r)
  PROVE  Age(r)' > Age(r)
<1> DEFINE P == ProcessAge(pc[r])    PN == ProcessAge(pc'[r])
           W == WorkerAge(worker[r]) WN == WorkerAge(worker'[r])
           S == SandboxAge(sandbox[r]) SN == SandboxAge(sandbox'[r])
<1>1. \A label : Goto(r, label) => pc'[r] = label
  BY DEF TypeOK, Goto
<1>2. \A state : Leave(r, state) =>
          sandbox'[r] = state /\ worker'[r] = IF worker[r] = "running" THEN "killed" ELSE worker[r]
  BY DEF TypeOK, Leave
<1>3. ASSUME NEW state, Leave(r, state) PROVE WN >= W
  BY <1>2, <1>3 DEF WorkerAge
<1>4. CASE Create(r)
  <2>1. PN > P
    BY <1>1, <1>4 DEF Create, ProcessAge
  <2>2. WN = W /\ SN >= S
    BY <1>4 DEF Create, TypeOK, Unborn, SandboxAge
  <2> QED
    BY <2>1, <2>2 DEF Age, ProcessAge, WorkerAge, SandboxAge
<1>5. CASE Stage(r) \/ Review(r) \/ ExecReturns(r) \/ ExecRaises(r) \/ Collect(r)
           \/ WriteResult(r) \/ Kill(r)
  <2>1. WN = W /\ SN = S
    BY <1>5 DEF Stage, Review, ExecReturns, ExecRaises, Collect, WriteResult, Kill, Raise
  <2>2. \/ pc[r] = "stage" /\ pc'[r] \in {"review", "worker", "cleanup"}
        \/ pc[r] = "review" /\ pc'[r] \in {"worker", "cleanup"}
        \/ pc[r] = "worker" /\ pc'[r] \in {"collect", "cleanup"}
        \/ pc[r] = "collect" /\ pc'[r] = "cleanup"
        \/ pc[r] = "write" /\ pc'[r] \in {"done", "failed"}
        \/ pc[r] \notin Ended /\ pc'[r] = "killed"
    BY <1>1, <1>5 DEF Stage, Review, ExecReturns, ExecRaises, Collect, WriteResult, Kill, Raise
  <2>3. PN > P
    BY <2>2 DEF ProcessAge, TypeOK
  <2> QED
    BY <2>1, <2>3 DEF Age, ProcessAge, WorkerAge, SandboxAge
<1>6. CASE Cleanup(r)
  <2>1. PN > P
    BY <1>1, <1>6 DEF Cleanup, Return, DeleteRaises, ProcessAge
  <2>2. UNCHANGED <<sandbox, worker>> \/ Leave(r, "gone")
    BY <1>6 DEF Cleanup, DeleteRaises
  <2>3. WN >= W
    BY <1>2, <2>2 DEF WorkerAge
  <2>4. SN >= S
    BY <1>2, <2>2 DEF SandboxAge
  <2> QED
    BY <2>1, <2>3, <2>4 DEF Age, ProcessAge, WorkerAge, SandboxAge
<1>7. CASE StartWorker(r) \/ WorkerEnds(r)
  <2>1. PN = P /\ SN = S
    BY <1>7 DEF StartWorker, WorkerEnds
  <2>2. WN > W
    BY <1>7 DEF StartWorker, WorkerEnds, TypeOK, WorkerAge
  <2> QED
    BY <2>1, <2>2 DEF Age, ProcessAge, WorkerAge, SandboxAge
<1>8. CASE AutoStop(r) \/ Expire(r)
  <2>1. PN = P
    BY <1>8 DEF AutoStop, Expire
  <2>2. WN >= W
    BY <1>3, <1>8 DEF AutoStop, Expire
  <2>3. SN > S
    BY <1>2, <1>8 DEF AutoStop, Expire, SandboxAge
  <2> QED
    BY <2>1, <2>2, <2>3 DEF Age, ProcessAge, WorkerAge, SandboxAge
<1> QED
  BY <1>4, <1>5, <1>6, <1>7, <1>8 DEF StepOf

(* The safety half of SandboxesGone: a run, its worker, its sandbox and     *)
(* Daytona's timers take LastAge steps between them and never go back.      *)
THEOREM RunsAge == Spec => [][\A r \in Runs : Ages(r)]_vars
<1>1. Init => UnbornInv
  BY DEF Init, UnbornInv, Unborn
<1>2. TypeOK /\ UnbornInv /\ [Next]_vars => UnbornInv' /\ [\A r \in Runs : Ages(r)]_vars
  <2> SUFFICES ASSUME TypeOK, UnbornInv, [Next]_vars
               PROVE  UnbornInv' /\ [\A r \in Runs : Ages(r)]_vars
    OBVIOUS
  <2>1. CASE UNCHANGED vars
    BY <2>1 DEF vars, UnbornInv, Unborn
  <2>2. ASSUME NEW q \in Runs, StepOf(q)
        PROVE  UnbornInv' /\ [\A r \in Runs : Ages(r)]_vars
    <3>1. Unborn(q)'
      BY <2>2, UnbornStep DEF UnbornInv, Unborn
    <3>2. \A r \in Runs \ {q} : UNCHANGED <<pc[r], worker[r], sandbox[r]>>
      BY <2>2, OneRun
    <3>3. UnbornInv'
      BY <3>1, <3>2 DEF UnbornInv, Unborn
    <3>4. ASSUME NEW r \in Runs PROVE Ages(r)
      <4>1. Age(r) \in 0 .. LastAge
        BY AgeBounds
      <4>2. StepOf(r) => Age(r)' > Age(r)
        BY StepAges DEF UnbornInv
      <4>3. ~UNCHANGED <<pc[r], worker[r], sandbox[r]>> => r = q
        BY <3>2
      <4> QED
        BY <2>2, <4>1, <4>2, <4>3 DEF Ages
    <3> QED
      BY <3>3, <3>4
  <2> QED
    BY <2>1, <2>2, StepsOf
<1> QED
  BY <1>1, <1>2, TypeCorrect, PTL DEF Spec
-----------------------------------------------------------------------------
(* What holds in place of EveryExitDeletes, which the code breaks: a run    *)
(* that fails with its sandbox still there retains it, or its creation was  *)
(* applied and raised, or its deletion raised.  Every other failure, the    *)
(* review's, the worker's and that of the result file, leaves none.         *)
LeaksAreExplained ==
    [][\A r \in Runs : pc[r] # "failed" /\ pc'[r] = "failed" /\ sandbox'[r] \in {"started", "stopped"}
          => \/ Retained(r)
             \/ pc[r] = "create"
             \/ pc[r] = "cleanup" /\ sandbox'[r] = sandbox[r]]_vars

(* Where a run can fail: its creation, its cleanup and its result file.     *)
LEMMA FailingSteps ==
  ASSUME TypeOK, NEW r \in Runs, StepOf(r), pc[r] # "failed", pc'[r] = "failed"
  PROVE  Create(r) \/ Cleanup(r) \/ WriteResult(r)
<1>1. \A label : Goto(r, label) => pc'[r] = label
  BY DEF TypeOK, Goto
<1> QED
  BY <1>1 DEF StepOf, Stage, Review, StartWorker, ExecReturns, ExecRaises, Collect, WorkerEnds,
              Kill, AutoStop, Expire, Raise

LEMMA LeakStep ==
  ASSUME TypeOK, Inv, NEW r \in Runs, StepOf(r), pc[r] # "failed", pc'[r] = "failed",
         sandbox'[r] \in {"started", "stopped"}, ~Retained(r)
  PROVE  \/ pc[r] = "create"
         \/ pc[r] = "cleanup" /\ sandbox'[r] = sandbox[r]
<1>1. CASE Create(r)
  BY <1>1 DEF Create
<1>2. CASE WriteResult(r)
  BY <1>2 DEF WriteResult, Inv, IndInv, ResultStage
<1>3. CASE Cleanup(r)
  <2>1. ~Leave(r, "gone")
    BY DEF Leave, TypeOK
  <2>2. \A label : Goto(r, label) => pc'[r] = label
    BY DEF TypeOK, Goto
  <2> QED
    BY <1>3, <2>1, <2>2 DEF Cleanup, DeleteRaises
<1> QED
  BY <1>1, <1>2, <1>3, FailingSteps

(* A sandbox outlives a failed run for three reasons only.                  *)
THEOREM LeaksExplained == Spec => LeaksAreExplained
<1> DEFINE Explained(r) ==
      pc[r] # "failed" /\ pc'[r] = "failed" /\ sandbox'[r] \in {"started", "stopped"}
          => \/ Retained(r)
             \/ pc[r] = "create"
             \/ pc[r] = "cleanup" /\ sandbox'[r] = sandbox[r]
<1>1. TypeOK /\ Inv /\ [Next]_vars => [\A r \in Runs : Explained(r)]_vars
  <2> SUFFICES ASSUME TypeOK, Inv, Next, NEW r \in Runs PROVE Explained(r)
    OBVIOUS
  <2>1. PICK q \in Runs : StepOf(q)
    BY StepsOf
  <2>2. CASE q = r
    BY <2>1, <2>2, LeakStep
  <2>3. CASE q # r
    BY <2>1, <2>3, OneRun
  <2> QED
    BY <2>2, <2>3
<1> QED
  BY <1>1, TypeCorrect, Inductive, PTL DEF Spec, LeaksAreExplained
=============================================================================
