------------------------------ MODULE Evidence ------------------------------
(***************************************************************************)
(* The evidence protocol of a review run: the worker in the sandbox        *)
(* submits the OTLP trace (cli_trace.py, with its 503 retry), records a    *)
(* Session, two messages and an Output, polls the Agent and Skill trace    *)
(* facades, reads the records back, and only then writes its result        *)
(* (agent_evidence.py, worker.py main).  The Registry is external: a call  *)
(* may be applied and its response lost, be refused, or be answered with   *)
(* a record that lost part of its lineage, and a trace it accepted is      *)
(* projected to the facades later, or never.                               *)
(***************************************************************************)
EXTENDS Naturals, FiniteSets

CONSTANTS Runs,          \* review runs (concurrent, or reruns of one another)
          Facades,       \* Agent and Skill trace facades
          FacadesOf,     \* run -> the facades of its agent and its skills
          TraceOf,       \* run -> trace id, a digest of its external session id
          Jobs,          \* the jobs a run may be handed
          MaxRetries,    \* delays in _run_cli_with_retry (3 in the code)
          MaxRounds      \* delays in _verify_trace_facades (4 in the code)

(* What the control flow of worker.main distinguishes of a job file.       *)
JobType == [mode: {"kiro", "sdk"},
            visitor: {"none", "registry", "other"},
            wellFormed: BOOLEAN,     \* what is read before the submission is valid
            fingerprints: BOOLEAN,   \* observed skills = configured skills
            arguments: BOOLEAN]      \* what is read after the submission is there

ASSUME RetriesAssumption == MaxRetries \in Nat
ASSUME RoundsAssumption == MaxRounds \in Nat \ {0}
ASSUME JobsAssumption == Jobs \subseteq JobType
ASSUME FacadesAssumption == FacadesOf \in [Runs -> SUBSET Facades]

VARIABLES
    (* the worker process of each run *)
    job, pc, attempt, round, pending, failures, seen,
    (* the Registry *)
    ingested,   \* runs whose spans the OTLP endpoint holds
    records,    \* run -> kind -> how many records its POSTs created
    kept,       \* run -> the lineage fields those records hold
    visible     \* <<run, facade>>: the run's spans are projected there

workerVars == <<job, pc, attempt, round, pending, failures, seen>>
registryVars == <<ingested, records, kept, visible>>
vars == <<job, pc, attempt, round, pending, failures, seen,
          ingested, records, kept, visible>>

RecordKinds == {"session", "user", "assistant", "output"}
Lineage == {"subject", "visitor", "link"}
Confirmable == Lineage \cup {"turns"}
Ended == {"done", "failed", "incomplete", "killed"}
PCs == Ended \cup {"validate", "submit", "prepare", "session", "user", "assistant",
                   "output", "verify", "readSession", "readMessages", "readOutput",
                   "write"}

Init == /\ job \in [Runs -> Jobs]
        /\ pc = [r \in Runs |-> "validate"]
        /\ attempt = [r \in Runs |-> 0]
        /\ round = [r \in Runs |-> 0]
        /\ pending = [r \in Runs |-> {}]
        /\ failures = [r \in Runs |-> {}]
        /\ seen = [r \in Runs |-> {}]
        /\ ingested = {}
        /\ records = [r \in Runs |-> [k \in RecordKinds |-> 0]]
        /\ kept = [r \in Runs |-> {}]
        /\ visible = {}

Goto(r, label) == pc' = [pc EXCEPT ![r] = label]

-----------------------------------------------------------------------------
(* Before anything leaves the sandbox.  Both paths refuse a malformed job;  *)
(* a Kiro job is also refused when its visitor id is not a Registry one or  *)
(* when the skills Kiro reports are not exactly the configured ones: the    *)
(* SDK path compares neither.                                               *)
KiroRefuses(r) ==
    job[r].mode = "kiro" /\ (job[r].visitor = "other" \/ ~job[r].fingerprints)

Validate(r) ==
    /\ pc[r] = "validate"
    /\ IF job[r].wellFormed /\ ~KiroRefuses(r)
       THEN Goto(r, "submit")
       ELSE Goto(r, "failed")
    /\ UNCHANGED <<job, attempt, round, pending, failures, seen>>
    /\ UNCHANGED registryVars

(* POST /otel/v1/traces.  The CLI is run again, MaxRetries times at most,   *)
(* and only after an answer that says 503; a refused or unavailable answer  *)
(* may still have left the spans with the endpoint.                         *)
Ingest(r, landed) == ingested' = IF landed THEN ingested \cup {r} ELSE ingested

TraceAccepted(r) ==
    /\ pc[r] = "submit"
    /\ Ingest(r, TRUE)
    /\ Goto(r, "prepare")
    /\ UNCHANGED <<job, attempt, round, pending, failures, seen>>
    /\ UNCHANGED <<records, kept, visible>>

TraceUnavailable(r) ==
    /\ pc[r] = "submit"
    /\ \E landed \in BOOLEAN : Ingest(r, landed)
    /\ IF attempt[r] < MaxRetries
       THEN attempt' = [attempt EXCEPT ![r] = @ + 1] /\ UNCHANGED pc
       ELSE Goto(r, "failed") /\ UNCHANGED attempt
    /\ UNCHANGED <<job, round, pending, failures, seen>>
    /\ UNCHANGED <<records, kept, visible>>

TraceRefused(r) ==
    /\ pc[r] = "submit"
    /\ \E landed \in BOOLEAN : Ingest(r, landed)
    /\ Goto(r, "failed")
    /\ UNCHANGED <<job, attempt, round, pending, failures, seen>>
    /\ UNCHANGED <<records, kept, visible>>

(* After the submission: the SDK path compares the receipt's trace id, both *)
(* evaluate the arguments of record_and_verify, and that refuses a visitor  *)
(* id that is not a Registry one.                                           *)
RecordableLate(r) == job[r].arguments   \* mutant: the visitor id is not checked
Recordable(r) == job[r].arguments /\ job[r].visitor # "other"

Prepare(r) ==
    /\ pc[r] = "prepare"
    /\ IF Recordable(r)
       THEN Goto(r, "session")
       ELSE Goto(r, "failed")
    /\ UNCHANGED <<job, attempt, round, pending, failures, seen>>
    /\ UNCHANGED registryVars

-----------------------------------------------------------------------------
(* The four POSTs of record_and_verify.  None is retried: any error ends    *)
(* the run, whether or not the Registry applied the call.  A Session or an  *)
(* Output is answered with its id, so a good answer means it exists; the    *)
(* answer to a message is not looked at, so it may hide a lost message.     *)
Create(r, k, fields) ==
    /\ records' = [records EXCEPT ![r][k] = @ + 1]
    /\ \E held \in SUBSET fields : kept' = [kept EXCEPT ![r] = @ \cup held]

NothingCreated == UNCHANGED <<records, kept>>

ErroredRetried(r, k, fields) ==   \* mutant: the POST is retried like the trace's
    Create(r, k, fields) /\ UNCHANGED pc
Errored(r, k, fields) == (Create(r, k, fields) \/ NothingCreated) /\ Goto(r, "failed")

(* The Session body names a visitor only when the job has one. *)
SessionFields(r) == IF job[r].visitor = "none" THEN {"subject"} ELSE {"subject", "visitor"}

PostSession(r) ==
    /\ pc[r] = "session"
    /\ \/ Create(r, "session", SessionFields(r)) /\ Goto(r, "user")
       \/ Errored(r, "session", SessionFields(r))
    /\ UNCHANGED <<job, attempt, round, pending, failures, seen>>
    /\ UNCHANGED <<ingested, visible>>

PostMessage(r, k, next) ==
    /\ pc[r] = k
    /\ \/ (Create(r, k, {}) \/ NothingCreated) /\ Goto(r, next)
       \/ Errored(r, k, {})
    /\ UNCHANGED <<job, attempt, round, pending, failures, seen>>
    /\ UNCHANGED <<ingested, visible>>

PostUserMessage(r) == PostMessage(r, "user", "assistant")
PostAssistantMessage(r) == PostMessage(r, "assistant", "output")

(* Creating the Output leads straight into _verify_trace_facades.           *)
PostOutputUnpolled(r) ==   \* mutant: the facades are not polled
    /\ pc[r] = "output"
    /\ Create(r, "output", {"link"})
    /\ Goto(r, "readSession")
    /\ UNCHANGED <<job, attempt, round, pending, failures, seen>>
    /\ UNCHANGED <<ingested, visible>>

PostOutput(r) ==
    /\ pc[r] = "output"
    /\ \/ /\ Create(r, "output", {"link"})
          /\ Goto(r, "verify")
          /\ round' = [round EXCEPT ![r] = 1]
          /\ pending' = [pending EXCEPT ![r] = FacadesOf[r]]
       \/ Errored(r, "output", {"link"}) /\ UNCHANGED <<round, pending>>
    /\ UNCHANGED <<job, attempt, failures, seen>>
    /\ UNCHANGED <<ingested, visible>>

-----------------------------------------------------------------------------
(* _verify_trace_facades: one GET per pending facade and round.  An error,  *)
(* a missing trace and a wrong trace id all leave the facade in failures.   *)
Readable(r, f) == \E q \in Runs : TraceOf[q] = TraceOf[r] /\ <<q, f>> \in visible

FacadeConfirmedAnyTrace(r, f) ==   \* mutant: the trace id is not compared
    /\ pc[r] = "verify"
    /\ f \in pending[r]
    /\ \E q \in Runs : <<q, f>> \in visible
    /\ pending' = [pending EXCEPT ![r] = @ \ {f}]
    /\ UNCHANGED <<job, pc, attempt, round, failures, seen>>
    /\ UNCHANGED registryVars

FacadeConfirmed(r, f) ==
    /\ pc[r] = "verify"
    /\ f \in pending[r]
    /\ Readable(r, f)
    /\ pending' = [pending EXCEPT ![r] = @ \ {f}]
    /\ UNCHANGED <<job, pc, attempt, round, failures, seen>>
    /\ UNCHANGED registryVars

FacadeMissed(r, f) ==
    /\ pc[r] = "verify"
    /\ f \in pending[r]
    /\ pending' = [pending EXCEPT ![r] = @ \ {f}]
    /\ failures' = [failures EXCEPT ![r] = @ \cup {f}]
    /\ UNCHANGED <<job, pc, attempt, round, seen>>
    /\ UNCHANGED registryVars

LastRoundNever(r) == FALSE                       \* mutant: the poll is not bounded
LastRound(r) == round[r] >= MaxRounds

NextRoundSpins(r) ==      \* mutant: the round is not counted
    /\ pending' = [pending EXCEPT ![r] = failures[r]]
    /\ failures' = [failures EXCEPT ![r] = {}]
    /\ UNCHANGED round
NextRoundRestarts(r) ==   \* mutant: every facade is asked again
    /\ round' = [round EXCEPT ![r] = @ + 1]
    /\ pending' = [pending EXCEPT ![r] = FacadesOf[r]]
    /\ failures' = [failures EXCEPT ![r] = {}]
NextRound(r) ==
    /\ round' = [round EXCEPT ![r] = @ + 1]
    /\ pending' = [pending EXCEPT ![r] = failures[r]]
    /\ failures' = [failures EXCEPT ![r] = {}]

EndRound(r) ==
    /\ pc[r] = "verify"
    /\ pending[r] = {}
    /\ \/ /\ failures[r] = {}
          /\ Goto(r, "readSession")
          /\ UNCHANGED <<round, pending, failures>>
       \/ /\ failures[r] # {} /\ ~LastRound(r)
          /\ NextRound(r)
          /\ UNCHANGED pc
       \/ /\ failures[r] # {} /\ LastRound(r)
          /\ Goto(r, "incomplete")
          /\ UNCHANGED <<round, pending, failures>>
    /\ UNCHANGED <<job, attempt, seen>>
    /\ UNCHANGED registryVars

-----------------------------------------------------------------------------
(* The three readbacks and the checks on them.  An answer shows at most     *)
(* what the Registry holds; it may show less.                               *)
Required(r) == SessionFields(r) \cup {"turns", "link"}

Confirm(r, facts) == \E shown \in SUBSET facts : seen' = [seen EXCEPT ![r] = @ \cup shown]

Turns(r) == records[r]["user"] + records[r]["assistant"]

ReadSession(r) ==
    /\ pc[r] = "readSession"
    /\ Confirm(r, kept[r] \cap SessionFields(r))
    /\ Goto(r, "readMessages") \/ Goto(r, "failed")
    /\ UNCHANGED <<job, attempt, round, pending, failures>>
    /\ UNCHANGED registryVars

TurnsFactAlways(r) == {"turns"}   \* mutant: the turns are not counted
TurnsFact(r) == IF Turns(r) = 2 THEN {"turns"} ELSE {}

ReadMessages(r) ==
    /\ pc[r] = "readMessages"
    /\ Confirm(r, TurnsFact(r))
    /\ Goto(r, "readOutput") \/ Goto(r, "failed")
    /\ UNCHANGED <<job, attempt, round, pending, failures>>
    /\ UNCHANGED registryVars

ReadOutput(r) ==
    /\ pc[r] = "readOutput"
    /\ Confirm(r, kept[r] \cap {"link"})
    /\ \/ Required(r) \subseteq seen'[r] /\ Goto(r, "write")
       \/ Goto(r, "failed")
    /\ UNCHANGED <<job, attempt, round, pending, failures>>
    /\ UNCHANGED registryVars

(* The result file, with the Session and Output ids, is written last.       *)
WriteResult(r) ==
    /\ pc[r] = "write"
    /\ Goto(r, "done")
    /\ UNCHANGED <<job, attempt, round, pending, failures, seen>>
    /\ UNCHANGED registryVars

(* The exec timeout, or the deletion of the sandbox, ends the worker        *)
(* between two steps.  Ended while a call is in flight it leaves what a     *)
(* lost response leaves.                                                    *)
Kill(r) ==
    /\ pc[r] \notin Ended
    /\ Goto(r, "killed")
    /\ UNCHANGED <<job, attempt, round, pending, failures, seen>>
    /\ UNCHANGED registryVars

(* The Registry projects an ingested trace to one more facade. *)
Project(r, f) ==
    /\ r \in ingested
    /\ f \in FacadesOf[r]
    /\ <<r, f>> \notin visible
    /\ visible' = visible \cup {<<r, f>>}
    /\ UNCHANGED workerVars
    /\ UNCHANGED <<ingested, records, kept>>

-----------------------------------------------------------------------------
WorkerStep(r) ==
    \/ Validate(r)
    \/ TraceAccepted(r) \/ TraceUnavailable(r) \/ TraceRefused(r)
    \/ Prepare(r)
    \/ PostSession(r) \/ PostUserMessage(r) \/ PostAssistantMessage(r) \/ PostOutput(r)
    \/ \E f \in Facades : FacadeConfirmed(r, f) \/ FacadeMissed(r, f)
    \/ EndRound(r)
    \/ ReadSession(r) \/ ReadMessages(r) \/ ReadOutput(r)
    \/ WriteResult(r)

Next == \/ \E r \in Runs : WorkerStep(r) \/ Kill(r)
        \/ \E r \in Runs, f \in Facades : Project(r, f)

(* Every call of the worker returns or the exec timeout ends the worker, so *)
(* a run that can step does; nothing makes the Registry project a trace.    *)
Spec == Init /\ [][Next]_vars /\ \A r \in Runs : WF_vars(WorkerStep(r))
-----------------------------------------------------------------------------
(* Type correctness of the worker's and the Registry's state. *)
TypeOK ==
    /\ job \in [Runs -> JobType]
    /\ pc \in [Runs -> PCs]
    /\ attempt \in [Runs -> 0 .. MaxRetries]
    /\ round \in [Runs -> 0 .. MaxRounds]
    /\ pending \in [Runs -> SUBSET Facades]
    /\ failures \in [Runs -> SUBSET Facades]
    /\ seen \in [Runs -> SUBSET Confirmable]
    /\ ingested \subseteq Runs
    /\ records \in [Runs -> [RecordKinds -> Nat]]
    /\ kept \in [Runs -> SUBSET Lineage]
    /\ visible \subseteq Runs \X Facades

(* A run that wrote its result left complete evidence: its trace is with    *)
(* the Registry, there is exactly one Session, one user and one assistant   *)
(* turn and one Output, they kept the Agent, the Visitor and the Session    *)
(* lineage, and every Agent and Skill facade can serve the trace id.        *)
ReportedIsComplete ==
    \A r \in Runs : pc[r] = "done" =>
        /\ r \in ingested
        /\ \A k \in RecordKinds : records[r][k] = 1
        /\ Required(r) \ {"turns"} \subseteq kept[r]
        /\ \A f \in FacadesOf[r] : Readable(r, f)

(* Lost responses never duplicate a record: the evidence POSTs, unlike the  *)
(* trace POST, are issued at most once in a run.                            *)
RecordedAtMostOnce == \A r \in Runs, k \in RecordKinds : records[r][k] <= 1

(* Whatever fails, no record precedes what it hangs from: a Session needs   *)
(* an ingested trace, a message or an Output needs its Session.             *)
ParentFirst ==
    \A r \in Runs :
        /\ records[r]["session"] > 0 => r \in ingested
        /\ \A k \in RecordKinds : records[r][k] > 0 => records[r]["session"] > 0

(* A job whose visitor id is not a Registry one or whose arguments are      *)
(* missing leaves no Session, message or Output; a job refused before the   *)
(* submission does not even leave a trace.                                  *)
RefusedLeavesNothing ==
    \A r \in Runs :
        /\ job[r].visitor = "other" \/ ~job[r].arguments =>
              \A k \in RecordKinds : records[r][k] = 0
        /\ ~job[r].wellFormed \/ KiroRefuses(r) => r \notin ingested

(* The poll gives up on a trace only in its last round and with a facade    *)
(* that failed in that round.                                               *)
IncompleteOnlyAtTheEnd ==
    \A r \in Runs : pc[r] = "incomplete" => round[r] = MaxRounds /\ failures[r] # {}

(* Every facade the result vouches for serves the spans of this very run.   *)
OwnTraceVerified ==
    \A r \in Runs : pc[r] = "done" => \A f \in FacadesOf[r] : <<r, f>> \in visible

Unanswered(r) == pending[r] \cup failures[r]

Narrows(r) ==
    pc[r] = "verify" /\ pc'[r] = "verify" =>
        /\ Unanswered(r)' \subseteq Unanswered(r)
        /\ \A f \in Unanswered(r) \ Unanswered(r)' : Readable(r, f)

(* The poll only narrows: a facade that has answered is not asked again,    *)
(* and one that has not is not dropped while the poll lasts.                *)
PollNarrows == [][\A r \in Runs : Narrows(r)]_vars

(* Every run ends, with its result or with an error. *)
EveryRunEnds == \A r \in Runs : <>(pc[r] \in Ended)

(* A poll that expires is reported as partial verification, that is, with   *)
(* the ids of what was recorded (docs/architecture.md); the code raises.    *)
PollExpired(r) == round[r] = MaxRounds /\ pending[r] = {} /\ failures[r] # {}

ExpiryReportsPartialEvidence ==
    \A r \in Runs : PollExpired(r) /\ pc[r] \in Ended \ {"killed"} => pc[r] = "done"

(* The worker implements the evidence contract. *)
Outcome == [r \in Runs |-> CASE pc[r] = "done" -> "reported"
                             [] pc[r] \in Ended \ {"done"} -> "abandoned"
                             [] OTHER -> "running"]
Recorded == [r \in Runs |-> (IF r \in ingested THEN {"trace"} ELSE {})
                              \cup {k \in RecordKinds : records[r][k] > 0}]

Contract == INSTANCE EvidenceContract
              WITH outcome <- Outcome, recorded <- Recorded

ImplementsContract == Contract!CSpec

-----------------------------------------------------------------------------
(* The inductive invariant behind ReportedIsComplete, RecordedAtMostOnce    *)
(* and ParentFirst: the program point determines which records can exist    *)
(* and what has been verified.                                              *)
AfterPoll == {"readSession", "readMessages", "readOutput", "write", "done"}
Polling == AfterPoll \cup {"verify"}

TraceStage(r) ==
    pc[r] \notin {"validate", "submit", "failed", "killed"} => r \in ingested

RecordStage(r) ==
    /\ pc[r] \in {"validate", "submit", "prepare", "session"} => records[r]["session"] = 0
    /\ pc[r] \in {"user", "assistant", "output"} \cup Polling => records[r]["session"] = 1
    /\ pc[r] = "user" => records[r]["user"] = 0
    /\ pc[r] \in {"user", "assistant"} => records[r]["assistant"] = 0
    /\ pc[r] \in {"user", "assistant", "output"} => records[r]["output"] = 0
    /\ pc[r] \in Polling => records[r]["output"] = 1

OnceEach(r) == \A k \in RecordKinds : records[r][k] <= 1

SessionFirst(r) ==
    /\ records[r]["session"] > 0 => r \in ingested
    /\ \A k \in RecordKinds : records[r][k] > 0 => records[r]["session"] > 0

PollStage(r) ==
    /\ pc[r] = "verify" =>
          \A f \in FacadesOf[r] : f \in pending[r] \cup failures[r] \/ Readable(r, f)
    /\ pc[r] \in AfterPoll => \A f \in FacadesOf[r] : Readable(r, f)

ReadbackStage(r) ==
    /\ seen[r] \cap Lineage \subseteq kept[r]
    /\ "turns" \in seen[r] => pc[r] \in AfterPoll \cup Ended /\ Turns(r) = 2
    /\ pc[r] \in {"write", "done"} => Required(r) \subseteq seen[r]

RunInv(r) == /\ TraceStage(r)
             /\ RecordStage(r)
             /\ OnceEach(r)
             /\ SessionFirst(r)
             /\ PollStage(r)
             /\ ReadbackStage(r)

IndInv == \A r \in Runs : RunInv(r)
=============================================================================
