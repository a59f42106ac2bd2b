----------------------------- MODULE ReviewRun ------------------------------
(***************************************************************************)
(* A whole review run: the controlling process and its sandbox             *)
(* (SandboxRun) around the worker that records the evidence (Evidence).    *)
(* The worker of SandboxRun is the process that takes Evidence's steps: it *)
(* takes them only while the sandbox runs it, its result file is what ends *)
(* it well, and what takes the sandbox away ends it between two steps.     *)
(***************************************************************************)
EXTENDS SandboxRun

CONSTANTS Facades, FacadesOf, TraceOf, Jobs, MaxRetries, MaxRounds

(* The assumptions of Evidence, whose constants these are. *)
ASSUME RetriesAssumption == MaxRetries \in Nat
ASSUME RoundsAssumption == MaxRounds \in Nat \ {0}
ASSUME JobsAssumption ==
    Jobs \subseteq [mode: {"kiro", "sdk"}, visitor: {"none", "registry", "other"},
                    wellFormed: BOOLEAN, fingerprints: BOOLEAN, arguments: BOOLEAN]
ASSUME FacadesAssumption == FacadesOf \in [Runs -> SUBSET Facades]

VARIABLES job, epc, attempt, round, pending, failures, seen,
          ingested, records, kept, visible

E == INSTANCE Evidence WITH pc <- epc

workerVars == <<job, epc, attempt, round, pending, failures, seen,
                ingested, records, kept, visible>>
rvars == <<vars, workerVars>>

(* KiroDaytonaRuntime hands over kiro_trace jobs, DaytonaRuntime SDK jobs.  *)
RInit == /\ Init
         /\ E!Init
         /\ \A r \in Runs : kind[r] = "kiro" <=> job[r].mode = "kiro"

(* The worker takes a step, possibly its last one.                          *)
Exit(r) == IF epc'[r] = "done" THEN "wrote" ELSE "failed"

Work(r) ==
    /\ worker[r] = "running"
    /\ E!WorkerStep(r)
    /\ worker' = IF epc'[r] \in E!Ended THEN [worker EXCEPT ![r] = Exit(r)] ELSE worker
    /\ UNCHANGED <<kind, pc, result, sandbox>>

(* Any other step of the run; the worker ends with its sandbox.             *)
Drive(r) ==
    /\ ControlStep(r) \/ Kill(r) \/ AutoStop(r) \/ Expire(r)
    /\ IF worker[r] = "running" /\ worker'[r] = "killed" THEN E!Kill(r)
       ELSE UNCHANGED workerVars

Publish(r, f) == E!Project(r, f) /\ UNCHANGED vars

RNext == \E r \in Runs : \/ Work(r)
                         \/ Drive(r)
                         \/ \E f \in Facades : Publish(r, f)

RSpec == RInit /\ [][RNext]_rvars
-----------------------------------------------------------------------------
(* The result file the CLI writes vouches for complete evidence: whatever   *)
(* failed on the way, the trace, one Session with two turns and one Output  *)
(* are in the Registry and every facade can serve the trace.                *)
ReportedHasEvidence ==
    \A r \in Runs : pc[r] = "done" =>
        /\ r \in ingested
        /\ \A k \in E!RecordKinds : records[r][k] = 1
        /\ \A f \in FacadesOf[r] : E!Readable(r, f)

(* A run that ended leaves the Registry alone, unless its worker was left   *)
(* behind in a started sandbox: it was killed, it lost its exec in a        *)
(* retained sandbox, or its deletion raised.                                *)
QuietAfterTheEnd ==
    [][\A r \in Runs : pc[r] \in Ended /\ records'[r] # records[r] =>
          pc[r] # "done" /\ sandbox[r] = "started" /\ worker[r] = "running"]_rvars

(* The workflow's comment on a failed Kiro step: the review did not produce *)
(* a verified Agent trace (.github/workflows/governed-pr-review.yml).       *)
FailedMeansUnverified ==
    \A r \in Runs : kind[r] = "kiro" /\ pc[r] = "failed" => epc[r] # "done"
=============================================================================
