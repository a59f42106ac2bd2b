----------------------------- MODULE SandboxRun -----------------------------
(***************************************************************************)
(* One review run seen from the process that drives its sandbox:           *)
(* DaytonaRuntime.run (daytona_runtime.py) and KiroDaytonaRuntime.run      *)
(* (kiro_runtime.py), up to the result file the CLI writes (cli.py).       *)
(* Daytona is external: a call may raise although it was applied, and its  *)
(* own timers stop a silent sandbox and expire a retained one.  The worker *)
(* in the sandbox runs concurrently with the controlling process.          *)
(***************************************************************************)
EXTENDS Naturals

CONSTANT Runs

VARIABLES kind,      \* run -> the runtime it uses
          pc,        \* run -> where its controlling process is
          result,    \* run -> the lifecycle label of the result, once there is one
          sandbox,   \* run -> its sandbox at Daytona
          worker     \* run -> the review worker in that sandbox

vars == <<kind, pc, result, sandbox, worker>>

Kinds == {"sdk", "kiro", "retained"}   \* "retained": DaytonaRuntime(retain_sandbox=True)
Ended == {"done", "failed", "killed"}
PCs == Ended \cup {"create", "stage", "review", "worker", "collect", "cleanup", "write"}
Labels == {"retained_for_demo", "deleted_after_run"}
SandboxStates == {"absent", "started", "stopped", "gone"}
WorkerStates == {"idle", "running", "wrote", "failed", "killed"}

Retained(r) == kind[r] = "retained"

(* In seconds: the creation parameters and the timeouts of process.exec.    *)
AutoStopInterval(r) == IF Retained(r) THEN 1800 ELSE 300
ReviewTimeout == 300
WorkerTimeoutUniform(r) == 300   \* mutant: every worker has the timeout of an SDK run
WorkerTimeout(r) == IF kind[r] = "kiro" THEN 120 ELSE 300

Init == /\ kind \in [Runs -> Kinds]
        /\ pc = [r \in Runs |-> "create"]
        /\ result = [r \in Runs |-> "none"]
        /\ sandbox = [r \in Runs |-> "absent"]
        /\ worker = [r \in Runs |-> "idle"]

Goto(r, label) == pc' = [pc EXCEPT ![r] = label]

(* A sandbox that stops or goes takes its worker with it. *)
Leave(r, state) ==
    /\ sandbox' = [sandbox EXCEPT ![r] = state]
    /\ worker' = [worker EXCEPT ![r] = IF @ = "running" THEN "killed" ELSE @]

-----------------------------------------------------------------------------
(* client.create stands before the try: when it raises, nothing is deleted, *)
(* whether or not the sandbox exists.  Every retained run asks for the same *)
(* sandbox name, which Daytona gives to one live sandbox at a time.         *)
NameFree(r) == Retained(r) => \A q \in Runs : Retained(q) => sandbox[q] \in {"absent", "gone"}

Create(r) ==
    /\ pc[r] = "create"
    /\ \/ /\ NameFree(r)
          /\ sandbox' = [sandbox EXCEPT ![r] = "started"]
          /\ Goto(r, "stage") \/ Goto(r, "failed")
       \/ Goto(r, "failed") /\ UNCHANGED sandbox
    /\ UNCHANGED <<kind, result, worker>>

(* Inside the try every call may raise, and raises when the sandbox is not  *)
(* running any more; the finally clause is next.                            *)
Raise(r, label) == pc[r] = label /\ Goto(r, "cleanup") /\ UNCHANGED <<kind, result, sandbox, worker>>

(* The uploads; with a Kiro job they are followed by the review itself.     *)
Stage(r) ==
    \/ /\ pc[r] = "stage"
       /\ sandbox[r] = "started"
       /\ Goto(r, IF kind[r] = "kiro" THEN "review" ELSE "worker")
       /\ UNCHANGED <<kind, result, sandbox, worker>>
    \/ Raise(r, "stage")

(* kiro-cli exits with 0, its stream parses and the trace request is        *)
(* uploaded.                                                                *)
Review(r) ==
    \/ /\ pc[r] = "review"
       /\ sandbox[r] = "started"
       /\ Goto(r, "worker")
       /\ UNCHANGED <<kind, result, sandbox, worker>>
    \/ Raise(r, "review")

StartWorker(r) ==
    /\ pc[r] = "worker"
    /\ worker[r] = "idle"
    /\ sandbox[r] = "started"
    /\ worker' = [worker EXCEPT ![r] = "running"]
    /\ UNCHANGED <<kind, pc, result, sandbox>>

(* The worker writes its result file last, or exits with an error.          *)
WorkerEnds(r) ==
    /\ worker[r] = "running"
    /\ \E end \in {"wrote", "failed"} : worker' = [worker EXCEPT ![r] = end]
    /\ UNCHANGED <<kind, pc, result, sandbox>>

(* exec returns the worker's exit code; or it times out or loses its        *)
(* connection, and the worker may go on without anybody waiting for it.     *)
ExecReturnsAnyway(r) ==   \* mutant: the exit code is not looked at
    /\ pc[r] = "worker"
    /\ worker[r] \in {"wrote", "failed"}
    /\ Goto(r, "collect")
    /\ UNCHANGED <<kind, result, sandbox, worker>>
ExecReturnsEarly(r) ==   \* mutant: the worker is started in the background
    /\ pc[r] = "worker"
    /\ worker[r] # "idle"
    /\ Goto(r, "collect")
    /\ UNCHANGED <<kind, result, sandbox, worker>>
ExecReturns(r) ==
    /\ pc[r] = "worker"
    /\ \/ worker[r] = "wrote" /\ Goto(r, "collect")
       \/ worker[r] = "failed" /\ Goto(r, "cleanup")
    /\ UNCHANGED <<kind, result, sandbox, worker>>

ExecRaises(r) == Raise(r, "worker")

(* The result is downloaded, checked and given its lifecycle label before   *)
(* the finally clause makes the label true.                                 *)
LabelOfKind(r) == kind[r]   \* mutant: the label names the runtime
Label(r) == IF Retained(r) THEN "retained_for_demo" ELSE "deleted_after_run"

Collect(r) ==
    \/ /\ pc[r] = "collect"
       /\ sandbox[r] = "started"
       /\ result' = [result EXCEPT ![r] = Label(r)]
       /\ Goto(r, "cleanup")
       /\ UNCHANGED <<kind, sandbox, worker>>
    \/ Raise(r, "collect")

(* finally: a sandbox that is not retained is deleted.  An error of the     *)
(* deletion replaces the result, or the error, the try block ended with.    *)
Return(r) == Goto(r, IF result[r] = "none" THEN "failed" ELSE "write")

DeleteRaisesSwallowed(r) ==   \* mutant: the error of the deletion is ignored
    /\ Return(r)
    /\ Leave(r, "gone") \/ UNCHANGED <<sandbox, worker>>
DeleteRaises(r) ==
    /\ Goto(r, "failed")
    /\ Leave(r, "gone") \/ UNCHANGED <<sandbox, worker>>

Cleanup(r) ==
    /\ pc[r] = "cleanup"
    /\ \/ Retained(r) /\ Return(r) /\ UNCHANGED <<sandbox, worker>>
       \/ ~Retained(r) /\ Return(r) /\ Leave(r, "gone")
       \/ ~Retained(r) /\ DeleteRaises(r)
    /\ UNCHANGED <<kind, result>>

(* The CLI writes the result file after run has returned. *)
WriteResult(r) ==
    /\ pc[r] = "write"
    /\ Goto(r, "done") \/ Goto(r, "failed")
    /\ UNCHANGED <<kind, result, sandbox, worker>>

(* The job is cancelled or the machine lost: no finally clause runs. *)
Kill(r) ==
    /\ pc[r] \notin Ended
    /\ Goto(r, "killed")
    /\ UNCHANGED <<kind, result, sandbox, worker>>

-----------------------------------------------------------------------------
(* Daytona stops a sandbox nobody has called for its auto-stop interval,    *)
(* and a stopped ephemeral sandbox is deleted.  The controlling process     *)
(* makes no call while an exec lasts, nor once it has ended.                *)
Silent(r) ==
    \/ pc[r] \in Ended
    \/ pc[r] = "review" /\ ReviewTimeout >= AutoStopInterval(r)
    \/ pc[r] = "worker" /\ WorkerTimeout(r) >= AutoStopInterval(r)

AutoStop(r) ==
    /\ sandbox[r] = "started"
    /\ Silent(r)
    /\ Leave(r, IF Retained(r) THEN "stopped" ELSE "gone")
    /\ UNCHANGED <<kind, pc, result>>

(* ttl_minutes of a retained sandbox; no run lasts as long. *)
ExpireNever(r) ==   \* mutant: the sandbox is created without a ttl
    FALSE /\ UNCHANGED vars
Expire(r) ==
    /\ Retained(r)
    /\ pc[r] \in Ended
    /\ sandbox[r] \in {"started", "stopped"}
    /\ Leave(r, "gone")
    /\ UNCHANGED <<kind, pc, result>>

ControlStep(r) ==
    \/ Create(r) \/ Stage(r) \/ Review(r) \/ StartWorker(r) \/ ExecReturns(r)
    \/ ExecRaises(r) \/ Collect(r) \/ Cleanup(r) \/ WriteResult(r)

Next == \E r \in Runs : \/ ControlStep(r) \/ WorkerEnds(r) \/ Kill(r)
                        \/ AutoStop(r) \/ Expire(r)

(* Every call of the controlling process returns or times out, and Daytona's *)
(* timers fire; the worker itself may hang.                                  *)
Spec == /\ Init /\ [][Next]_vars
        /\ \A r \in Runs : WF_vars(ControlStep(r)) /\ WF_vars(AutoStop(r)) /\ WF_vars(Expire(r))
-----------------------------------------------------------------------------
(* Type correctness. *)
TypeOK == /\ kind \in [Runs -> Kinds]
          /\ pc \in [Runs -> PCs]
          /\ result \in [Runs -> Labels \cup {"none"}]
          /\ sandbox \in [Runs -> SandboxStates]
          /\ worker \in [Runs -> WorkerStates]

(* A result file exists only after the worker has written its own result,   *)
(* and the lifecycle label in it, chosen before the deletion was attempted, *)
(* is true: "deleted_after_run" means that the sandbox is gone.             *)
ReportIsTrue ==
    \A r \in Runs : pc[r] = "done" =>
        /\ worker[r] = "wrote"
        /\ result[r] = Label(r)
        /\ result[r] = "deleted_after_run" => sandbox[r] = "gone"

(* A worker left behind (its run was killed, its exec timed out, or the     *)
(* deletion failed) never runs outside a started sandbox.                   *)
NoStrayWorker == \A r \in Runs : worker[r] = "running" => sandbox[r] = "started"

(* Daytona's auto-stop never takes the sandbox away under the exec of a     *)
(* Kiro evidence worker (120 s) or of a retained run: their timeouts are    *)
(* shorter than the interval.  It can under the 300 s exec of an SDK run.   *)
NotStoppedUnderWorker ==
    [][\A r \in Runs : kind[r] # "sdk" /\ pc[r] = "worker" /\ pc'[r] = "worker"
          => sandbox'[r] = sandbox[r]]_vars

(* No run goes on forever, and none leaves a sandbox behind for good: what  *)
(* no finally clause deletes, Daytona's timers do.                          *)
SandboxesGone ==
    \A r \in Runs : <>[](pc[r] \in Ended /\ sandbox[r] \in {"absent", "gone"})

(* Every exit path of a run deletes its sandbox (docs/architecture.md).     *)
EveryExitDeletes ==
    \A r \in Runs : pc[r] \in {"done", "failed"} => sandbox[r] \in {"absent", "gone"}

(* The inductive invariant behind ReportIsTrue.                             *)
ResultStage(r) ==
    /\ pc[r] = "collect" => worker[r] = "wrote"
    /\ result[r] # "none" => worker[r] = "wrote" /\ result[r] = Label(r)
    /\ pc[r] \in {"write", "done"} => result[r] # "none"
    /\ pc[r] \in {"write", "done"} => Retained(r) \/ sandbox[r] = "gone"

IndInv == \A r \in Runs : ResultStage(r)
=============================================================================
