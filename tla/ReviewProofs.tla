---------------------------- MODULE ReviewProofs ----------------------------
(* Proofs about ReviewRun: the invariants of its two components, proved in  *)
(* SandboxProofs and EvidenceProofs, compose.                               *)
EXTENDS ReviewRun, SandboxProofs

EP == INSTANCE EvidenceProofs WITH pc <- epc

(* The lemmas of EvidenceProofs that this proof needs, without the          *)
(* assumptions of Evidence, which ReviewRun makes as well.                  *)
LEMMA EvidenceFacts ==
  /\ EP!Init => EP!TypeOK /\ EP!IndInv
  /\ EP!TypeOK /\ EP!IndInv /\ [EP!Next]_EP!vars => EP!TypeOK' /\ EP!IndInv'
  /\ EP!TypeOK /\ EP!IndInv => EP!ReportedIsComplete
<1> USE RetriesAssumption, RoundsAssumption, JobsAssumption, FacadesAssumption DEF EP!JobType
<1>1. EP!Init => EP!TypeOK
  BY EP!InitTypeOK
<1>2. EP!Init => EP!IndInv
  BY EP!InitIndInv
<1>3. EP!TypeOK /\ [EP!Next]_EP!vars => EP!TypeOK'
  BY EP!NextTypeOK
<1>4. EP!TypeOK /\ EP!IndInv /\ [EP!Next]_EP!vars => EP!IndInv'
  BY EP!NextIndInv
<1>5. EP!TypeOK /\ EP!IndInv => EP!ReportedIsComplete
  BY EP!CompleteWhenDone
<1> QED
  BY ONLY <1>1, <1>2, <1>3, <1>4, <1>5

LEMMA OneRunAtATime ==
  ASSUME EP!TypeOK, NEW r \in Runs, EP!WorkerStep(r)
  PROVE  \A q \in Runs \ {r} : epc'[q] = epc[q] /\ records'[q] = records[q]
  BY EP!OthersUntouched, RetriesAssumption, RoundsAssumption, JobsAssumption,
     FacadesAssumption DEF EP!JobType, EP!Untouched

(* E and EP are two instances of the same definitions. *)
LEMMA SameSteps ==
  ASSUME NEW r, NEW f
  PROVE  /\ E!Validate(r) <=> EP!Validate(r)
         /\ E!TraceAccepted(r) <=> EP!TraceAccepted(r)
         /\ E!TraceUnavailable(r) <=> EP!TraceUnavailable(r)
         /\ E!TraceRefused(r) <=> EP!TraceRefused(r)
         /\ E!Prepare(r) <=> EP!Prepare(r)
         /\ E!PostSession(r) <=> EP!PostSession(r)
         /\ E!PostUserMessage(r) <=> EP!PostUserMessage(r)
         /\ E!PostAssistantMessage(r) <=> EP!PostAssistantMessage(r)
         /\ E!PostOutput(r) <=> EP!PostOutput(r)
         /\ E!EndRound(r) <=> EP!EndRound(r)
         /\ E!ReadSession(r) <=> EP!ReadSession(r)
         /\ E!ReadMessages(r) <=> EP!ReadMessages(r)
         /\ E!ReadOutput(r) <=> EP!ReadOutput(r)
         /\ E!WriteResult(r) <=> EP!WriteResult(r)
         /\ E!Kill(r) <=> EP!Kill(r)
         /\ E!FacadeConfirmed(r, f) <=> EP!FacadeConfirmed(r, f)
         /\ E!FacadeMissed(r, f) <=> EP!FacadeMissed(r, f)
         /\ E!Project(r, f) <=> EP!Project(r, f)
<1> USE DEF
    E!Goto, EP!Goto, E!Ingest, EP!Ingest, E!Create, EP!Create, E!NothingCreated,
    EP!NothingCreated, E!Errored, EP!Errored, E!SessionFields, EP!SessionFields,
    E!PostMessage, EP!PostMessage, E!Readable, EP!Readable, E!LastRound, EP!LastRound,
    E!NextRound, EP!NextRound, E!Required, EP!Required, E!Confirm, EP!Confirm, E!Turns,
    EP!Turns, E!TurnsFact, EP!TurnsFact, E!Recordable, EP!Recordable, E!KiroRefuses,
    EP!KiroRefuses, E!workerVars, EP!workerVars, E!registryVars, EP!registryVars, E!Ended,
    EP!Ended
<1>1. E!Validate(r) <=> EP!Validate(r)
  BY DEF E!Validate, EP!Validate
<1>2. E!TraceAccepted(r) <=> EP!TraceAccepted(r)
  BY DEF E!TraceAccepted, EP!TraceAccepted
<1>3. E!TraceUnavailable(r) <=> EP!TraceUnavailable(r)
  BY DEF E!TraceUnavailable, EP!TraceUnavailable
<1>4. E!TraceRefused(r) <=> EP!TraceRefused(r)
  BY DEF E!TraceRefused, EP!TraceRefused
<1>5. E!Prepare(r) <=> EP!Prepare(r)
  BY DEF E!Prepare, EP!Prepare
<1>6. E!PostSession(r) <=> EP!PostSession(r)
  BY DEF E!PostSession, EP!PostSession
<1>7. E!PostUserMessage(r) <=> EP!PostUserMessage(r)
  BY DEF E!PostUserMessage, EP!PostUserMessage
<1>8. E!PostAssistantMessage(r) <=> EP!PostAssistantMessage(r)
  BY DEF E!PostAssistantMessage, EP!PostAssistantMessage
<1>9. E!PostOutput(r) <=> EP!PostOutput(r)
  BY DEF E!PostOutput, EP!PostOutput
<1>10. E!EndRound(r) <=> EP!EndRound(r)
  BY DEF E!EndRound, EP!EndRound
<1>11. E!ReadSession(r) <=> EP!ReadSession(r)
  BY DEF E!ReadSession, EP!ReadSession
<1>12. E!ReadMessages(r) <=> EP!ReadMessages(r)
  BY DEF E!ReadMessages, EP!ReadMessages
<1>13. E!ReadOutput(r) <=> EP!ReadOutput(r)
  BY DEF E!ReadOutput, EP!ReadOutput
<1>14. E!WriteResult(r) <=> EP!WriteResult(r)
  BY DEF E!WriteResult, EP!WriteResult
<1>15. E!Kill(r) <=> EP!Kill(r)
  BY DEF E!Kill, EP!Kill
<1>16. E!FacadeConfirmed(r, f) <=> EP!FacadeConfirmed(r, f)
  BY DEF E!FacadeConfirmed, EP!FacadeConfirmed
<1>17. E!FacadeMissed(r, f) <=> EP!FacadeMissed(r, f)
  BY DEF E!FacadeMissed, EP!FacadeMissed
<1>18. E!Project(r, f) <=> EP!Project(r, f)
  BY DEF E!Project, EP!Project
<1> HIDE DEF
    E!Goto, EP!Goto, E!Ingest, EP!Ingest, E!Create, EP!Create, E!NothingCreated,
    EP!NothingCreated, E!Errored, EP!Errored, E!SessionFields, EP!SessionFields,
    E!PostMessage, EP!PostMessage, E!Readable, EP!Readable, E!LastRound, EP!LastRound,
    E!NextRound, EP!NextRound, E!Required, EP!Required, E!Confirm, EP!Confirm, E!Turns,
    EP!Turns, E!TurnsFact, EP!TurnsFact, E!Recordable, EP!Recordable, E!KiroRefuses,
    EP!KiroRefuses, E!workerVars, EP!workerVars, E!registryVars, EP!registryVars, E!Ended,
    EP!Ended
<1> QED
  BY <1>1, <1>2, <1>3, <1>4, <1>5, <1>6, <1>7, <1>8, <1>9, <1>10, <1>11, <1>12, <1>13,
     <1>14, <1>15, <1>16, <1>17, <1>18

LEMMA SameActions ==
  /\ E!Init <=> EP!Init
  /\ \A r : (E!WorkerStep(r) <=> EP!WorkerStep(r)) /\ (E!Kill(r) <=> EP!Kill(r))
  /\ [E!Next]_E!vars <=> [EP!Next]_EP!vars
<1>1. E!Init <=> EP!Init
  BY DEF E!Init, EP!Init, E!RecordKinds, EP!RecordKinds
<1>2. ASSUME NEW r PROVE (E!WorkerStep(r) <=> EP!WorkerStep(r)) /\ (E!Kill(r) <=> EP!Kill(r))
  BY SameSteps DEF E!WorkerStep, EP!WorkerStep
<1>3. E!Next <=> EP!Next
  BY SameSteps, <1>2 DEF E!Next, EP!Next
<1>4. E!vars = EP!vars
  BY DEF E!vars, EP!vars
<1>5. [E!Next]_E!vars <=> [EP!Next]_EP!vars
  BY <1>3, <1>4 DEF E!vars, EP!vars
<1> QED
  BY <1>1, <1>2, <1>5

(* The joint part of the invariant: the two views of the worker agree on    *)
(* what ended it well.                                                      *)
WorkersAgree == \A r \in Runs : worker[r] = "wrote" => epc[r] = "done"

LEMMA InitComponents == RInit => Init /\ EP!Init /\ WorkersAgree
  BY SameActions DEF RInit, Init, WorkersAgree

(* A step of the run is a step of the controlling process and its sandbox.  *)
LEMMA SandboxStep == TypeOK /\ [RNext]_rvars => [Next]_vars
<1> SUFFICES ASSUME TypeOK, [RNext]_rvars PROVE [Next]_vars
  OBVIOUS
<1>1. CASE UNCHANGED rvars
  BY <1>1 DEF rvars
<1>2. ASSUME NEW r \in Runs, Work(r) PROVE [Next]_vars
  <2>1. CASE epc'[r] \in E!Ended
    <3>1. WorkerEnds(r)
      BY <1>2, <2>1 DEF Work, WorkerEnds, Exit
    <3> QED
      BY <3>1 DEF Next
  <2>2. CASE epc'[r] \notin E!Ended
    BY <1>2, <2>2 DEF Work, vars
  <2> QED
    BY <2>1, <2>2
<1>3. ASSUME NEW r \in Runs, Drive(r) PROVE [Next]_vars
  BY <1>3 DEF Drive, Next
<1>4. ASSUME NEW r \in Runs, NEW f \in Facades, Publish(r, f) PROVE [Next]_vars
  BY <1>4 DEF Publish
<1> QED
  BY <1>1, <1>2, <1>3, <1>4 DEF RNext

(* A step of the run is a step of the worker and the Registry.              *)
LEMMA EvidenceStep == [RNext]_rvars => [EP!Next]_EP!vars
<1> SUFFICES ASSUME [RNext]_rvars PROVE [E!Next]_E!vars
  BY SameActions
<1>1. ASSUME UNCHANGED workerVars PROVE UNCHANGED E!vars
  BY <1>1 DEF workerVars, E!vars
<1>2. CASE UNCHANGED rvars
  BY <1>1, <1>2 DEF rvars
<1>3. ASSUME NEW r \in Runs, Work(r) PROVE [E!Next]_E!vars
  BY <1>3 DEF Work, E!Next
<1>4. ASSUME NEW r \in Runs, Drive(r) PROVE [E!Next]_E!vars
  BY <1>1, <1>4 DEF Drive, E!Next
<1>5. ASSUME NEW r \in Runs, NEW f \in Facades, Publish(r, f) PROVE [E!Next]_E!vars
  BY <1>5 DEF Publish, E!Next
<1> QED
  BY <1>2, <1>3, <1>4, <1>5 DEF RNext

LEMMA AgreeStep == TypeOK /\ EP!TypeOK /\ WorkersAgree /\ [RNext]_rvars => WorkersAgree'
<1> SUFFICES ASSUME TypeOK, EP!TypeOK, WorkersAgree, [RNext]_rvars PROVE WorkersAgree'
  OBVIOUS
<1> USE DEF WorkersAgree
<1>1. CASE UNCHANGED rvars
  BY <1>1 DEF rvars, vars, workerVars
<1>2. ASSUME NEW r \in Runs, Work(r) PROVE WorkersAgree'
  <2>1. \A q \in Runs \ {r} : epc'[q] = epc[q]
    BY <1>2, SameActions, OneRunAtATime DEF Work
  <2>2. worker \in [Runs -> WorkerStates]
    BY DEF TypeOK
  <2>3. \A q \in Runs \ {r} : worker'[q] = worker[q]
    BY <1>2, <2>2 DEF Work
  <2>4. worker'[r] = "wrote" => epc'[r] = "done"
    BY <1>2, <2>2 DEF Work, Exit
  <2> QED
    BY <2>1, <2>3, <2>4
<1>3. ASSUME NEW r \in Runs, Drive(r) PROVE WorkersAgree'
  <2>1. \A q \in Runs : worker'[q] = "wrote" => worker[q] = "wrote"
    BY <1>3 DEF TypeOK, Drive, ControlStep, Create, Stage, Review, StartWorker, ExecReturns,
       ExecRaises, Collect, Cleanup, WriteResult, Kill, AutoStop, Expire, Raise, Goto, Leave,
       Return, DeleteRaises
  <2>2. \A q \in Runs : worker[q] = "wrote" => epc'[q] = epc[q]
    <3>1. CASE UNCHANGED workerVars
      BY <3>1 DEF workerVars
    <3>2. CASE worker[r] = "running" /\ E!Kill(r)
      BY <3>2 DEF E!Kill, E!Goto
    <3> QED
      BY <1>3, <3>1, <3>2 DEF Drive
  <2> QED
    BY <2>1, <2>2
<1>4. ASSUME NEW r \in Runs, NEW f \in Facades, Publish(r, f) PROVE WorkersAgree'
  BY <1>4 DEF Publish, E!Project, E!workerVars, vars
<1> QED
  BY <1>1, <1>2, <1>3, <1>4 DEF RNext

LEMMA ReportedStage ==
  Inv /\ WorkersAgree /\ EP!ReportedIsComplete => ReportedHasEvidence
  BY DEF E!RecordKinds, EP!RecordKinds, E!Readable, EP!Readable, Inv, IndInv, ResultStage, WorkersAgree, EP!ReportedIsComplete, ReportedHasEvidence

RInv == TypeOK /\ Inv /\ EP!TypeOK /\ EP!IndInv /\ WorkersAgree

LEMMA RInductive == RSpec => []RInv
<1>1. RInit => RInv
  BY InitComponents, InitTypeOK, InitInv, EvidenceFacts DEF RInv
<1>2. RInv /\ [RNext]_rvars => RInv'
  BY SandboxStep, EvidenceStep, AgreeStep, NextTypeOK, NextInv, EvidenceFacts DEF RInv
<1> QED
  BY <1>1, <1>2, PTL DEF RSpec

(* The result file the CLI writes vouches for complete evidence, for every  *)
(* number of runs, facades, retries and rounds and whatever call fails.     *)
THEOREM Reported == RSpec => []ReportedHasEvidence
<1>1. RInv => ReportedHasEvidence
  BY ReportedStage, EvidenceFacts DEF RInv
<1> QED
  BY <1>1, RInductive, PTL

(* A run that ended leaves the Registry alone, unless its worker was left   *)
(* behind in a started sandbox; a run that reported always does.            *)
THEOREM Quiet == RSpec => QuietAfterTheEnd
<1> DEFINE Left == \A r \in Runs : pc[r] \in Ended /\ records'[r] # records[r] =>
                     pc[r] # "done" /\ sandbox[r] = "started" /\ worker[r] = "running"
<1>1. RInv /\ [RNext]_rvars => [Left]_rvars
  <2> SUFFICES ASSUME RInv, [RNext]_rvars PROVE Left
    OBVIOUS
  <2>1. CASE UNCHANGED rvars
    BY <2>1 DEF rvars, workerVars
  <2>2. ASSUME NEW q \in Runs, Work(q) PROVE Left
    <3>1. \A r \in Runs \ {q} : records'[r] = records[r]
      BY <2>2, SameActions, OneRunAtATime DEF RInv, Work
    <3>2. worker[q] = "running" /\ sandbox[q] = "started" /\ pc[q] # "done"
      BY <2>2 DEF RInv, Work, Inv, NoStrayWorker, IndInv, ResultStage
    <3> QED
      BY <3>1, <3>2
  <2>3. ASSUME NEW q \in Runs, Drive(q) PROVE Left
    BY <2>3 DEF Drive, E!Kill, E!registryVars, workerVars
  <2>4. ASSUME NEW q \in Runs, NEW f \in Facades, Publish(q, f) PROVE Left
    BY <2>4 DEF Publish, E!Project
  <2> QED
    BY <2>1, <2>2, <2>3, <2>4 DEF RNext
<1> QED
  BY <1>1, RInductive, PTL DEF RSpec, QuietAfterTheEnd

-----------------------------------------------------------------------------
(* The composition hides nothing of its parts: what SandboxRun says of the  *)
(* controlling process and its sandbox holds of every behaviour of the      *)
(* whole run, fairness aside.                                               *)
THEOREM RunImplementsSandboxRun == RSpec => Init /\ [][Next]_vars
<1>1. RInit => Init
  BY InitComponents
<1>2. RInv /\ [RNext]_rvars => [Next]_vars
  BY SandboxStep DEF RInv
<1> QED
  BY <1>1, <1>2, RInductive, PTL DEF RSpec

(* And what Evidence says of the worker and the Registry: the sandbox, its  *)
(* timers and its controlling process only choose when the worker steps and *)
(* when it is killed.                                                       *)
THEOREM RunImplementsEvidence == RSpec => E!Init /\ [][E!Next]_E!vars
<1>1. RInit => E!Init
  BY DEF RInit
<1>2. [RNext]_rvars => [E!Next]_E!vars
  BY EvidenceStep, SameActions
<1> QED
  BY <1>1, <1>2, PTL DEF RSpec

LEMMA ContractFacts ==
  /\ EP!Init => EP!Contract!CInit
  /\ EP!TypeOK /\ EP!TypeOK' /\ EP!IndInv /\ EP!IndInv' /\ [EP!Next]_EP!vars
        => [EP!Contract!CNext]_EP!Contract!cvars
<1> USE RetriesAssumption, RoundsAssumption, JobsAssumption, FacadesAssumption DEF EP!JobType
<1>1. EP!Init => EP!Contract!CInit
  BY EP!InitMaps
<1>2. EP!TypeOK /\ EP!TypeOK' /\ EP!IndInv /\ EP!IndInv' /\ [EP!Next]_EP!vars
        => [EP!Contract!CNext]_EP!Contract!cvars
  BY EP!NextMaps
<1> QED
  BY ONLY <1>1, <1>2

(* The whole run keeps the evidence contract, with a sandbox that may stop, *)
(* expire or be deleted under its worker and a process that may die: what   *)
(* is recorded is recorded parent first, by a worker that has not ended,    *)
(* and reported only when complete.                                         *)
THEOREM RunKeepsContract == RSpec => EP!ImplementsContract
<1>1. RInit => EP!Contract!CInit
  BY InitComponents, ContractFacts
<1>2. RInv /\ RInv' /\ [RNext]_rvars => [EP!Contract!CNext]_EP!Contract!cvars
  BY EvidenceStep, ContractFacts DEF RInv
<1> QED
  BY <1>1, <1>2, RInductive, PTL DEF RSpec, EP!ImplementsContract, EP!Contract!CSpec
-----------------------------------------------------------------------------
(* What holds in place of FailedMeansUnverified, which the code breaks: the *)
(* two views of a worker agree at every moment, so that the evidence of a   *)
(* run that failed is as complete, or as empty, as its worker left it.      *)
Unstarted == {"create", "stage", "review"}

Recordless(r) == r \notin ingested /\ \A k \in E!RecordKinds : records[r][k] = 0

ViewsAgree(r) ==
    /\ pc[r] \in Unstarted => worker[r] = "idle"
    /\ worker[r] = "idle" => epc[r] = "validate" /\ Recordless(r)
    /\ worker[r] = "running" => epc[r] \notin E!Ended
    /\ worker[r] = "wrote" => epc[r] = "done"
    /\ worker[r] \in {"failed", "killed"} => epc[r] \in E!Ended \ {"done"}

Views == \A r \in Runs : ViewsAgree(r)

(* No run leaves evidence of a review that did not happen: nothing is       *)
(* ingested or recorded before the sandbox starts the worker, so not of a   *)
(* run whose creation, staging or review failed.                            *)
NothingBeforeReview ==
    \A r \in Runs : pc[r] \in Unstarted \/ worker[r] = "idle" => Recordless(r)

(* A run whose process failed or was killed has verified evidence exactly   *)
(* when its worker wrote the result nobody reported.                        *)
VerifiedWhenWritten ==
    \A r \in Runs : epc[r] = "done" <=> worker[r] = "wrote"

(* What a step of the controlling process, of Daytona or of a timer does to *)
(* the process and the worker of any run.                                   *)
LEMMA DriveStep ==
  ASSUME TypeOK, NEW q \in Runs, ControlStep(q) \/ Kill(q) \/ AutoStop(q) \/ Expire(q),
         NEW r \in Runs
  PROVE  /\ pc'[r] \in Unstarted => pc[r] \in Unstarted
         /\ r # q => worker'[r] = worker[r]
         /\ \/ worker'[r] = worker[r]
            \/ worker[r] = "idle" /\ worker'[r] = "running" /\ pc'[r] = "worker"
            \/ worker[r] = "running" /\ worker'[r] = "killed"
<1> USE DEF TypeOK, Unstarted
<1>1. CASE Create(q)
  BY <1>1 DEF Create, Goto
<1>2. CASE Stage(q) \/ Review(q) \/ ExecReturns(q) \/ ExecRaises(q) \/ Collect(q)
  BY <1>2 DEF Stage, Review, ExecReturns, ExecRaises, Collect, Raise, Goto
<1>3. CASE StartWorker(q)
  BY <1>3 DEF StartWorker
<1>4. CASE WriteResult(q) \/ Kill(q)
  BY <1>4 DEF WriteResult, Kill, Goto
<1>5. CASE Cleanup(q)
  BY <1>5 DEF Cleanup, Return, DeleteRaises, Leave, Goto
<1>6. CASE AutoStop(q) \/ Expire(q)
  BY <1>6 DEF AutoStop, Expire, Leave
<1> QED
  BY <1>1, <1>2, <1>3, <1>4, <1>5, <1>6 DEF ControlStep

(* A step of one worker records nothing for another run.                    *)
LEMMA OthersRecordNothing ==
  ASSUME EP!TypeOK, NEW r \in Runs, E!WorkerStep(r) \/ E!Kill(r)
  PROVE  \A q \in Runs \ {r} : /\ epc'[q] = epc[q]
                               /\ records'[q] = records[q]
                               /\ q \in ingested' <=> q \in ingested
<1>1. EP!WorkerStep(r) \/ EP!Kill(r)
  BY SameActions
<1>2. EP!OnlyRun(r)
  BY <1>1, EP!OnlyRunSteps, RetriesAssumption, RoundsAssumption, JobsAssumption,
     FacadesAssumption DEF EP!JobType
<1> QED
  BY <1>2 DEF EP!OnlyRun

LEMMA ViewsStep == TypeOK /\ EP!TypeOK /\ Views /\ [RNext]_rvars => Views'
<1> SUFFICES ASSUME TypeOK, EP!TypeOK, Views, [RNext]_rvars, NEW r \in Runs
             PROVE  ViewsAgree(r)'
  BY DEF Views
<1>0. ViewsAgree(r)
  BY DEF Views
<1> USE DEF ViewsAgree, Recordless, E!RecordKinds, E!Ended
<1>1. CASE UNCHANGED rvars
  BY <1>0, <1>1 DEF rvars, vars, workerVars
<1>2. ASSUME NEW q \in Runs, Work(q) PROVE ViewsAgree(r)'
  <2>1. pc' = pc /\ worker[q] = "running"
    BY <1>2 DEF Work
  <2>2. CASE r = q
    <3>1. worker'[r] = IF epc'[r] \in E!Ended THEN Exit(r) ELSE "running"
      BY <1>2, <2>2 DEF Work, TypeOK
    <3> QED
      BY <1>0, <2>1, <2>2, <3>1 DEF Exit
  <2>3. CASE r # q
    <3>1. worker'[r] = worker[r]
      BY <1>2, <2>3 DEF Work, TypeOK
    <3>2. epc'[r] = epc[r] /\ records'[r] = records[r] /\ (r \in ingested' <=> r \in ingested)
      BY <1>2, <2>3, OthersRecordNothing DEF Work
    <3> QED
      BY <1>0, <2>1, <3>1, <3>2
  <2> QED
    BY <2>2, <2>3
<1>3. ASSUME NEW q \in Runs, Drive(q) PROVE ViewsAgree(r)'
  <2>1. /\ pc'[r] \in Unstarted => pc[r] \in Unstarted
        /\ r # q => worker'[r] = worker[r]
        /\ \/ worker'[r] = worker[r]
           \/ worker[r] = "idle" /\ worker'[r] = "running" /\ pc'[r] = "worker"
           \/ worker[r] = "running" /\ worker'[r] = "killed"
    BY <1>3, DriveStep DEF Drive
  <2>2. CASE worker[q] = "running" /\ worker'[q] = "killed"
    <3>1. E!Kill(q)
      BY <1>3, <2>2 DEF Drive
    <3>2. CASE r = q
      <4>1. epc'[r] = "killed" /\ worker'[r] = "killed"
        BY <2>2, <3>1, <3>2 DEF E!Kill, E!Goto, EP!TypeOK
      <4> QED
        BY <1>0, <2>1, <2>2, <3>2, <4>1 DEF Unstarted
    <3>3. CASE r # q
      <4>1. epc'[r] = epc[r] /\ records'[r] = records[r] /\ (r \in ingested' <=> r \in ingested)
        BY <3>1, <3>3, OthersRecordNothing
      <4> QED
        BY <1>0, <2>1, <3>3, <4>1
    <3> QED
      BY <3>2, <3>3
  <2>3. CASE ~(worker[q] = "running" /\ worker'[q] = "killed")
    <3>1. UNCHANGED <<epc, records, ingested>>
      BY <1>3, <2>3 DEF Drive, workerVars
    <3>2. \/ worker'[r] = worker[r]
          \/ worker[r] = "idle" /\ worker'[r] = "running" /\ pc'[r] = "worker"
      BY <2>1, <2>3
    <3> QED
      BY <1>0, <2>1, <3>1, <3>2 DEF Unstarted
  <2> QED
    BY <2>2, <2>3
<1>4. ASSUME NEW q \in Runs, NEW f \in Facades, Publish(q, f) PROVE ViewsAgree(r)'
  BY <1>0, <1>4 DEF Publish, E!Project, E!workerVars, vars
<1> QED
  BY <1>1, <1>2, <1>3, <1>4 DEF RNext

LEMMA ViewsInductive == RSpec => []Views
<1>1. RInit => Views
  <2> SUFFICES ASSUME RInit, NEW r \in Runs PROVE ViewsAgree(r)
    BY DEF Views
  <2>1. worker[r] = "idle" /\ epc[r] = "validate"
    BY DEF RInit, Init, E!Init
  <2>2. Recordless(r)
    BY DEF RInit, E!Init, Recordless
  <2> QED
    BY <2>1, <2>2 DEF ViewsAgree
<1>2. RInv /\ Views /\ [RNext]_rvars => Views'
  BY ViewsStep DEF RInv
<1> QED
  BY <1>1, <1>2, RInductive, PTL DEF RSpec

(* A review that failed, was refused or never began leaves no evidence.     *)
THEOREM NoEvidenceBeforeReview == RSpec => []NothingBeforeReview
<1>1. Views => NothingBeforeReview
  BY DEF Views, ViewsAgree, NothingBeforeReview
<1> QED
  BY <1>1, ViewsInductive, PTL

(* Whether a failed run left verified evidence is what its worker's result  *)
(* says, and nothing else.                                                  *)
THEOREM VerdictOfTheWorker == RSpec => []VerifiedWhenWritten
<1>1. RInv /\ Views => VerifiedWhenWritten
  <2> SUFFICES ASSUME RInv, Views, NEW r \in Runs PROVE epc[r] = "done" <=> worker[r] = "wrote"
    BY DEF VerifiedWhenWritten
  <2>1. worker[r] \in WorkerStates
    BY DEF RInv, TypeOK
  <2>2. ViewsAgree(r)
    BY DEF Views
  <2> QED
    BY <2>1, <2>2 DEF ViewsAgree, WorkerStates, E!Ended
<1> QED
  BY <1>1, RInductive, ViewsInductive, PTL
=============================================================================
