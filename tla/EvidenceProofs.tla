--------------------------- MODULE EvidenceProofs ---------------------------
(***************************************************************************)
(* Proofs about Evidence for every set of runs, jobs and facades and every *)
(* number of retries and poll rounds.                                      *)
(***************************************************************************)
EXTENDS Evidence, TLAPS

(* Evidence state always has its declared type. *)
LEMMA InitTypeOK == Init => TypeOK
<1> USE JobsAssumption, RetriesAssumption, RoundsAssumption
<1> QED
  BY DEF Init, TypeOK, PCs, Ended, RecordKinds

(* A jump to a program point keeps pc a function into program points. *)
LEMMA GotoType ==
  ASSUME TypeOK, NEW r \in Runs, NEW label \in PCs, Goto(r, label)
  PROVE  pc' \in [Runs -> PCs]
  BY DEF TypeOK, Goto

(* A record created in the Registry keeps its counts and lineage typed. *)
LEMMA CreateType ==
  ASSUME TypeOK, NEW r \in Runs, NEW k \in RecordKinds,
         NEW fields \in SUBSET Lineage,
         Create(r, k, fields) \/ NothingCreated
  PROVE  /\ records' \in [Runs -> [RecordKinds -> Nat]]
         /\ kept' \in [Runs -> SUBSET Lineage]
<1>1. CASE Create(r, k, fields)
  <2>1. records[r][k] + 1 \in Nat
    BY DEF TypeOK
  <2>2. records' \in [Runs -> [RecordKinds -> Nat]]
    BY <1>1, <2>1 DEF TypeOK, Create
  <2>3. kept' \in [Runs -> SUBSET Lineage]
    BY <1>1 DEF TypeOK, Create
  <2> QED
    BY <2>2, <2>3
<1>2. CASE NothingCreated
  BY <1>2 DEF TypeOK, NothingCreated
<1> QED
  BY <1>1, <1>2

(* Spans that reach the endpoint keep the set of ingested runs typed. *)
LEMMA IngestType ==
  ASSUME TypeOK, NEW r \in Runs, NEW landed \in BOOLEAN, Ingest(r, landed)
  PROVE  ingested' \subseteq Runs
  BY DEF TypeOK, Ingest

(* Facts read back keep the set of confirmed facts typed. *)
LEMMA ConfirmType ==
  ASSUME TypeOK, NEW r \in Runs, NEW facts \in SUBSET Confirmable, Confirm(r, facts)
  PROVE  seen' \in [Runs -> SUBSET Confirmable]
  BY DEF TypeOK, Confirm

(* Every step preserves the types. *)
LEMMA NextTypeOK == TypeOK /\ [Next]_vars => TypeOK'
<1> SUFFICES ASSUME TypeOK, [Next]_vars
             PROVE  TypeOK'
  OBVIOUS
<1> USE RetriesAssumption, RoundsAssumption, FacadesAssumption
<1>1. ASSUME NEW r \in Runs, Validate(r) PROVE TypeOK'
  <2>1. pc' \in [Runs -> PCs]
    BY <1>1, GotoType DEF Validate, PCs, Ended
  <2> QED
    BY <1>1, <2>1 DEF Validate, TypeOK, registryVars
<1>2. ASSUME NEW r \in Runs, TraceAccepted(r) PROVE TypeOK'
  <2>1. pc' \in [Runs -> PCs] /\ ingested' \subseteq Runs
    BY <1>2, GotoType, IngestType DEF TraceAccepted, PCs
  <2> QED
    BY <1>2, <2>1 DEF TraceAccepted, TypeOK
<1>3. ASSUME NEW r \in Runs, TraceUnavailable(r) PROVE TypeOK'
  <2>1. ingested' \subseteq Runs
    BY <1>3, IngestType DEF TraceUnavailable
  <2>2. CASE attempt[r] < MaxRetries
    <3>1. attempt[r] + 1 \in 0 .. MaxRetries
      BY <2>2 DEF TypeOK
    <3>2. attempt' \in [Runs -> 0 .. MaxRetries]
      BY <1>3, <2>2, <3>1 DEF TraceUnavailable, TypeOK
    <3> QED
      BY <1>3, <2>1, <2>2, <3>2 DEF TraceUnavailable, TypeOK
  <2>3. CASE ~(attempt[r] < MaxRetries)
    <3>1. pc' \in [Runs -> PCs]
      BY <1>3, <2>3, GotoType DEF TraceUnavailable, PCs, Ended
    <3> QED
      BY <1>3, <2>1, <2>3, <3>1 DEF TraceUnavailable, TypeOK
  <2> QED
    BY <2>2, <2>3
<1>4. ASSUME NEW r \in Runs, TraceRefused(r) PROVE TypeOK'
  <2>1. pc' \in [Runs -> PCs] /\ ingested' \subseteq Runs
    BY <1>4, GotoType, IngestType DEF TraceRefused, PCs, Ended
  <2> QED
    BY <1>4, <2>1 DEF TraceRefused, TypeOK
<1>5. ASSUME NEW r \in Runs, Prepare(r) PROVE TypeOK'
  <2>1. pc' \in [Runs -> PCs]
    BY <1>5, GotoType DEF Prepare, PCs, Ended
  <2> QED
    BY <1>5, <2>1 DEF Prepare, TypeOK, registryVars
<1>6. ASSUME NEW r \in Runs, PostSession(r) PROVE TypeOK'
  <2>1. SessionFields(r) \in SUBSET Lineage
    BY DEF SessionFields, Lineage
  <2>2. pc' \in [Runs -> PCs]
    BY <1>6, GotoType DEF PostSession, Errored, PCs, Ended
  <2>3. /\ records' \in [Runs -> [RecordKinds -> Nat]]
        /\ kept' \in [Runs -> SUBSET Lineage]
    BY <1>6, <2>1, CreateType DEF PostSession, Errored, RecordKinds
  <2> QED
    BY <1>6, <2>2, <2>3 DEF PostSession, TypeOK
<1>7. ASSUME NEW r \in Runs, PostUserMessage(r) \/ PostAssistantMessage(r) PROVE TypeOK'
  <2>1. PICK k \in {"user", "assistant"}, next \in {"assistant", "output"} :
          PostMessage(r, k, next)
    BY <1>7 DEF PostUserMessage, PostAssistantMessage
  <2>2. pc' \in [Runs -> PCs]
    BY <2>1, GotoType DEF PostMessage, Errored, PCs, Ended
  <2>3. /\ records' \in [Runs -> [RecordKinds -> Nat]]
        /\ kept' \in [Runs -> SUBSET Lineage]
    BY <2>1, CreateType DEF PostMessage, Errored, RecordKinds
  <2> QED
    BY <2>1, <2>2, <2>3 DEF PostMessage, TypeOK
<1>8. ASSUME NEW r \in Runs, PostOutput(r) PROVE TypeOK'
  <2>1. pc' \in [Runs -> PCs]
    BY <1>8, GotoType DEF PostOutput, Errored, PCs, Ended
  <2>2. /\ records' \in [Runs -> [RecordKinds -> Nat]]
        /\ kept' \in [Runs -> SUBSET Lineage]
    <3>1. {"link"} \in SUBSET Lineage /\ "output" \in RecordKinds
      BY DEF Lineage, RecordKinds
    <3> QED
      BY <1>8, <3>1, CreateType DEF PostOutput, Errored
  <2>3. round' \in [Runs -> 0 .. MaxRounds]
    <3>1. 1 \in 0 .. MaxRounds
      OBVIOUS
    <3> QED
      BY <1>8, <3>1 DEF PostOutput, TypeOK
  <2>4. pending' \in [Runs -> SUBSET Facades]
    <3>1. FacadesOf[r] \in SUBSET Facades
      OBVIOUS
    <3> QED
      BY <1>8, <3>1 DEF PostOutput, TypeOK
  <2> QED
    BY <1>8, <2>1, <2>2, <2>3, <2>4 DEF PostOutput, TypeOK
<1>9. ASSUME NEW r \in Runs, NEW f \in Facades, FacadeConfirmed(r, f) \/ FacadeMissed(r, f)
      PROVE TypeOK'
  <2>1. pending[r] \ {f} \in SUBSET Facades /\ failures[r] \cup {f} \in SUBSET Facades
    BY DEF TypeOK
  <2>2. pending' \in [Runs -> SUBSET Facades] /\ failures' \in [Runs -> SUBSET Facades]
    BY <1>9, <2>1 DEF FacadeConfirmed, FacadeMissed, TypeOK
  <2> QED
    BY <1>9, <2>2 DEF FacadeConfirmed, FacadeMissed, TypeOK, registryVars
<1>10. ASSUME NEW r \in Runs, EndRound(r) PROVE TypeOK'
  <2>1. CASE NextRound(r) /\ ~LastRound(r) /\ UNCHANGED pc
    <3>1. round[r] + 1 \in 0 .. MaxRounds
      BY <2>1 DEF TypeOK, LastRound
    <3>2. /\ round' \in [Runs -> 0 .. MaxRounds]
          /\ pending' \in [Runs -> SUBSET Facades]
          /\ failures' \in [Runs -> SUBSET Facades]
      BY <2>1, <3>1 DEF NextRound, TypeOK
    <3>3. UNCHANGED <<job, pc, attempt, seen, ingested, records, kept, visible>>
      BY <1>10, <2>1 DEF EndRound, registryVars
    <3> QED
      BY <3>2, <3>3 DEF TypeOK
  <2>2. ASSUME NEW label \in {"readSession", "incomplete"}, Goto(r, label),
               UNCHANGED <<round, pending, failures>>
        PROVE  TypeOK'
    <3>1. pc' \in [Runs -> PCs]
      BY <2>2, GotoType DEF PCs, Ended
    <3>2. UNCHANGED <<job, attempt, seen, ingested, records, kept, visible>>
      BY <1>10 DEF EndRound, registryVars
    <3> QED
      BY <2>2, <3>1, <3>2 DEF TypeOK
  <2> QED
    BY <1>10, <2>1, <2>2 DEF EndRound
<1>11. ASSUME NEW r \in Runs, ReadSession(r) \/ ReadMessages(r) \/ ReadOutput(r)
       PROVE TypeOK'
  <2>1. /\ kept[r] \cap SessionFields(r) \in SUBSET Confirmable
        /\ kept[r] \cap {"link"} \in SUBSET Confirmable
        /\ TurnsFact(r) \in SUBSET Confirmable
    BY DEF SessionFields, TurnsFact, Confirmable, Lineage
  <2>2. PICK facts \in SUBSET Confirmable : Confirm(r, facts)
    <3>1. CASE ReadSession(r)
      BY <2>1, <3>1 DEF ReadSession
    <3>2. CASE ReadMessages(r)
      BY <2>1, <3>2 DEF ReadMessages
    <3>3. CASE ReadOutput(r)
      BY <2>1, <3>3 DEF ReadOutput
    <3> QED
      BY <1>11, <3>1, <3>2, <3>3
  <2>3. seen' \in [Runs -> SUBSET Confirmable]
    BY <2>2, ConfirmType
  <2>4. pc' \in [Runs -> PCs]
    BY <1>11, GotoType DEF ReadSession, ReadMessages, ReadOutput, PCs, Ended
  <2> QED
    BY <1>11, <2>3, <2>4 DEF ReadSession, ReadMessages, ReadOutput, TypeOK, registryVars
<1>12. ASSUME NEW r \in Runs, WriteResult(r) \/ Kill(r) PROVE TypeOK'
  <2>1. pc' \in [Runs -> PCs]
    BY <1>12, GotoType DEF WriteResult, Kill, PCs, Ended
  <2> QED
    BY <1>12, <2>1 DEF WriteResult, Kill, TypeOK, registryVars
<1>13. ASSUME NEW r \in Runs, NEW f \in Facades, Project(r, f) PROVE TypeOK'
  BY <1>13 DEF TypeOK, Project, workerVars
<1>14. CASE UNCHANGED vars
  BY <1>14 DEF TypeOK, vars
<1> QED
  BY <1>1, <1>2, <1>3, <1>4, <1>5, <1>6, <1>7, <1>8, <1>9, <1>10, <1>11, <1>12,
     <1>13, <1>14 DEF Next, WorkerStep

(* In every state of every behaviour the variables have their types. *)
THEOREM TypeCorrect == Spec => []TypeOK
  BY InitTypeOK, NextTypeOK, PTL DEF Spec

-----------------------------------------------------------------------------
(* A run that a step leaves alone keeps its part of the invariant: traces   *)
(* and projections are only ever added.                                     *)
Untouched(q) ==
    /\ job'[q] = job[q] /\ pc'[q] = pc[q]
    /\ pending'[q] = pending[q] /\ failures'[q] = failures[q] /\ seen'[q] = seen[q]
    /\ records'[q] = records[q] /\ kept'[q] = kept[q]

LEMMA Frame ==
  ASSUME NEW q \in Runs, RunInv(q), Untouched(q),
         ingested \subseteq ingested', visible \subseteq visible'
  PROVE  RunInv(q)'
<1>1. \A f : Readable(q, f) => Readable(q, f)'
  BY DEF Readable
<1>2. TraceStage(q)' /\ RecordStage(q)' /\ OnceEach(q)' /\ SessionFirst(q)'
  BY DEF Untouched, RunInv, TraceStage, RecordStage, OnceEach, SessionFirst
<1>3. PollStage(q)'
  BY <1>1 DEF Untouched, RunInv, PollStage
<1>4. ReadbackStage(q)'
  BY DEF Untouched, RunInv, ReadbackStage, Turns, Required, SessionFields
<1> QED
  BY <1>2, <1>3, <1>4 DEF RunInv

(* No step unlearns a trace or a projection. *)
LEMMA RegistryGrows ==
  ASSUME [Next]_vars
  PROVE  ingested \subseteq ingested' /\ visible \subseteq visible'
  BY ZenonT(60) DEF Next, WorkerStep, vars, registryVars, workerVars, Validate, TraceAccepted,
         TraceUnavailable, TraceRefused, Ingest, Prepare, PostSession, PostMessage,
         PostUserMessage, PostAssistantMessage, PostOutput, FacadeConfirmed,
         FacadeMissed, EndRound, NextRound, ReadSession, ReadMessages, ReadOutput, WriteResult,
         Kill, Project

(* A step of one run leaves every other run alone. *)
LEMMA OthersUntouched ==
  ASSUME TypeOK, NEW r \in Runs, WorkerStep(r) \/ Kill(r),
         NEW q \in Runs \ {r}
  PROVE  Untouched(q)
  BY ZenonT(60) DEF TypeOK, Untouched, WorkerStep, registryVars, Goto, Validate, TraceAccepted,
         TraceUnavailable, TraceRefused, Prepare, PostSession, PostMessage,
         PostUserMessage, PostAssistantMessage, PostOutput, Create, NothingCreated,
         Errored, FacadeConfirmed, FacadeMissed, EndRound, NextRound, ReadSession, ReadMessages,
         ReadOutput, Confirm, WriteResult, Kill

(* The counts of a run after one of its POSTs.                              *)
LEMMA CreateCounts ==
  ASSUME TypeOK, NEW r \in Runs, NEW k \in RecordKinds, NEW fields,
         Create(r, k, fields)
  PROVE  /\ records'[r][k] = records[r][k] + 1
         /\ \A j \in RecordKinds \ {k} : records'[r][j] = records[r][j]
         /\ kept[r] \subseteq kept'[r]
  BY DEF TypeOK, Create

(* Up to the submission of the trace: nothing recorded, nothing verified.   *)
LEMMA SubmitInv ==
  ASSUME TypeOK, NEW r \in Runs, RunInv(r),
         \/ Validate(r) \/ Prepare(r)
         \/ TraceAccepted(r) \/ TraceUnavailable(r) \/ TraceRefused(r)
  PROVE  RunInv(r)'
<1>1. /\ records' = records /\ kept' = kept /\ seen' = seen
      /\ job' = job /\ visible' = visible
      /\ ingested \subseteq ingested'
  BY DEF Validate, Prepare, TraceAccepted, TraceUnavailable, TraceRefused, Ingest,
         registryVars
<1>2. /\ pc[r] \in {"validate", "prepare", "submit"}
      /\ pc'[r] \in {"submit", "prepare", "session", "failed"}
      /\ pc'[r] \in {"prepare", "session"} => r \in ingested'
      /\ pc[r] = "prepare" \/ pc'[r] # "session"
  BY DEF Validate, Prepare, TraceAccepted, TraceUnavailable, TraceRefused, Ingest,
         Goto, TypeOK, RunInv, TraceStage, registryVars
<1>3. TraceStage(r)' /\ RecordStage(r)' /\ OnceEach(r)' /\ SessionFirst(r)'
  BY <1>1, <1>2 DEF RunInv, TraceStage, RecordStage, OnceEach, SessionFirst, Polling,
                    AfterPoll
<1>4. PollStage(r)'
  BY <1>2 DEF PollStage, AfterPoll
<1>5. ReadbackStage(r)'
  BY <1>1, <1>2 DEF RunInv, ReadbackStage, Turns, AfterPoll, Ended
<1> QED
  BY <1>3, <1>4, <1>5 DEF RunInv

(* Recording the Session. *)
LEMMA SessionInv ==
  ASSUME TypeOK, NEW r \in Runs, RunInv(r), PostSession(r)
  PROVE  RunInv(r)'
<1>1. /\ job' = job /\ seen' = seen /\ ingested' = ingested
      /\ pc[r] = "session"
      /\ pc'[r] \in {"user", "failed"}
  BY DEF PostSession, Errored, Goto, TypeOK
<1>2. \A k \in RecordKinds : records[r][k] = 0 /\ records[r][k] \in Nat
  BY <1>1 DEF RunInv, RecordStage, SessionFirst, TypeOK, RecordKinds
<1>3. /\ records'[r]["session"] \in {0, 1}
      /\ pc'[r] = "user" => records'[r]["session"] = 1
      /\ \A k \in RecordKinds \ {"session"} : records'[r][k] = 0
      /\ kept[r] \subseteq kept'[r]
  <2>1. CASE Create(r, "session", SessionFields(r))
    BY <1>2, <2>1, CreateCounts DEF RecordKinds
  <2>2. CASE NothingCreated
    BY <1>2, <2>2 DEF PostSession, Errored, Goto, TypeOK, NothingCreated, Create, RecordKinds
  <2> QED
    BY <2>1, <2>2 DEF PostSession, Errored
<1>4. TraceStage(r)' /\ RecordStage(r)' /\ OnceEach(r)' /\ SessionFirst(r)'
  BY <1>1, <1>3 DEF RunInv, TraceStage, RecordStage, OnceEach, SessionFirst, Polling,
                    AfterPoll, RecordKinds
<1>5. PollStage(r)'
  BY <1>1 DEF PollStage, AfterPoll
<1>6. ReadbackStage(r)'
  BY <1>1, <1>3 DEF RunInv, ReadbackStage, AfterPoll, Ended
<1> QED
  BY <1>4, <1>5, <1>6 DEF RunInv

(* Recording a turn: whatever the answer, at most one record of its role.   *)
LEMMA MessageInv ==
  ASSUME TypeOK, NEW r \in Runs, RunInv(r),
         PostUserMessage(r) \/ PostAssistantMessage(r)
  PROVE  RunInv(r)'
<1>1. PICK k \in {"user", "assistant"}, next \in {"assistant", "output"} :
         /\ PostMessage(r, k, next)
         /\ k = "user" <=> next = "assistant"
  BY DEF PostUserMessage, PostAssistantMessage
<1>2. /\ job' = job /\ seen' = seen /\ ingested' = ingested
      /\ pc[r] = k
      /\ pc'[r] \in {next, "failed"}
  BY <1>1 DEF PostMessage, Errored, Goto, TypeOK
<1>3. /\ r \in ingested /\ records[r]["session"] = 1
      /\ records[r][k] = 0 /\ records[r]["assistant"] = 0 /\ records[r]["output"] = 0
      /\ k = "assistant" => records[r]["user"] <= 1
      /\ k = "user" => records[r]["user"] = 0
      /\ \A j \in RecordKinds : records[r][j] \in Nat
  BY <1>2 DEF RunInv, TraceStage, RecordStage, OnceEach, TypeOK, RecordKinds
<1>4. /\ records'[r][k] \in {0, 1}
      /\ \A j \in RecordKinds \ {k} : records'[r][j] = records[r][j]
      /\ kept[r] \subseteq kept'[r]
  <2>1. CASE Create(r, k, {})
    BY <1>3, <2>1, CreateCounts DEF RecordKinds
  <2>2. CASE NothingCreated
    BY <1>3, <2>2 DEF NothingCreated
  <2> QED
    BY <1>1, <2>1, <2>2 DEF PostMessage, Errored
<1>5. TraceStage(r)'
  BY <1>2, <1>3 DEF TraceStage
<1>6. RecordStage(r)' /\ OnceEach(r)' /\ SessionFirst(r)'
  BY <1>1, <1>2, <1>3, <1>4 DEF RecordStage, OnceEach, SessionFirst, Polling, AfterPoll, RecordKinds
<1>7. PollStage(r)'
  BY <1>2 DEF PollStage, AfterPoll
<1>8. ReadbackStage(r)'
  BY <1>2, <1>4 DEF RunInv, ReadbackStage, AfterPoll, Ended
<1> QED
  BY <1>5, <1>6, <1>7, <1>8 DEF RunInv

(* Recording the Output: on a good answer every facade is pending.          *)
LEMMA OutputInv ==
  ASSUME TypeOK, NEW r \in Runs, RunInv(r), PostOutput(r)
  PROVE  RunInv(r)'
<1>1. /\ job' = job /\ seen' = seen /\ ingested' = ingested
      /\ pc[r] = "output"
      /\ pc'[r] \in {"verify", "failed"}
  BY DEF PostOutput, Errored, Goto, TypeOK
<1>2. /\ r \in ingested /\ records[r]["session"] = 1 /\ records[r]["output"] = 0
      /\ records[r]["user"] <= 1 /\ records[r]["assistant"] <= 1
      /\ \A j \in RecordKinds : records[r][j] \in Nat
  BY <1>1 DEF RunInv, TraceStage, RecordStage, OnceEach, TypeOK, RecordKinds
<1>3. /\ records'[r]["output"] \in {0, 1}
      /\ pc'[r] = "verify" => records'[r]["output"] = 1
      /\ \A j \in RecordKinds \ {"output"} : records'[r][j] = records[r][j]
      /\ kept[r] \subseteq kept'[r]
  <2>1. CASE Create(r, "output", {"link"})
    BY <1>2, <2>1, CreateCounts DEF RecordKinds
  <2>2. CASE NothingCreated
    BY <1>2, <2>2 DEF NothingCreated, PostOutput, Create, Errored, Goto, TypeOK, RecordKinds
  <2> QED
    BY <2>1, <2>2 DEF PostOutput, Errored
<1>4. TraceStage(r)'
  BY <1>1, <1>2 DEF TraceStage
<1>5. RecordStage(r)' /\ OnceEach(r)' /\ SessionFirst(r)'
  BY <1>1, <1>2, <1>3 DEF RecordStage, OnceEach, SessionFirst, Polling, AfterPoll, RecordKinds
<1>6. PollStage(r)'
  <2>1. pc'[r] = "verify" => pending'[r] = FacadesOf[r]
    BY DEF PostOutput, Errored, Goto, TypeOK
  <2> QED
    BY <1>1, <2>1 DEF PollStage, AfterPoll
<1>7. ReadbackStage(r)'
  BY <1>1, <1>3 DEF RunInv, ReadbackStage, AfterPoll, Ended
<1> QED
  BY <1>4, <1>5, <1>6, <1>7 DEF RunInv

(* What a step that touches neither the Registry nor the recorded lineage   *)
(* keeps, given where the run goes.                                         *)
LEMMA QuietInv ==
  ASSUME TypeOK, NEW r \in Runs, RunInv(r),
         UNCHANGED <<job, ingested, records, kept, visible>>,
         pc[r] \in Polling,
         pc'[r] \in Polling \cup {"incomplete", "failed"}
  PROVE  TraceStage(r)' /\ RecordStage(r)' /\ OnceEach(r)' /\ SessionFirst(r)'
<1>1. TraceStage(r)'
  BY DEF RunInv, TraceStage, Polling, AfterPoll
<1>2. RecordStage(r)' /\ OnceEach(r)' /\ SessionFirst(r)'
  BY DEF RunInv, RecordStage, OnceEach, SessionFirst, Polling, AfterPoll
<1> QED
  BY <1>1, <1>2

(* Polling: a facade leaves the poll only by serving the trace id.          *)
LEMMA PollInv ==
  ASSUME TypeOK, NEW r \in Runs, RunInv(r),
         \/ \E f \in Facades : FacadeConfirmed(r, f) \/ FacadeMissed(r, f)
         \/ EndRound(r)
  PROVE  RunInv(r)'
<1>1. /\ UNCHANGED <<job, ingested, records, kept, visible, seen>>
      /\ pc[r] = "verify"
      /\ pc'[r] \in {"verify", "readSession", "incomplete"}
  BY DEF FacadeConfirmed, FacadeMissed, EndRound, NextRound, registryVars, Goto, TypeOK
<1>2. \A f \in FacadesOf[r] : f \in pending[r] \cup failures[r] \/ Readable(r, f)
  BY <1>1 DEF RunInv, PollStage
<1>3. \A f : Readable(r, f) => Readable(r, f)'
  BY <1>1 DEF Readable
<1>4. PollStage(r)'
  <2>1. CASE \E f \in Facades : FacadeConfirmed(r, f) \/ FacadeMissed(r, f)
    <3>1. \A f \in FacadesOf[r] : f \in (pending[r] \cup failures[r])' \/ Readable(r, f)
      BY <1>2, <2>1 DEF FacadeConfirmed, FacadeMissed, TypeOK
    <3> QED
      BY <1>1, <1>3, <2>1, <3>1 DEF FacadeConfirmed, FacadeMissed, PollStage, AfterPoll
  <2>2. CASE EndRound(r)
    <3>1. /\ pc'[r] = "verify" => pending'[r] = failures[r]
          /\ pc'[r] = "readSession" => failures[r] = {}
          /\ pending[r] = {}
      BY <1>1, <2>2 DEF EndRound, NextRound, Goto, TypeOK
    <3> QED
      BY <1>1, <1>2, <1>3, <3>1 DEF PollStage, AfterPoll
  <2> QED
    BY <2>1, <2>2
<1>5. ReadbackStage(r)'
  BY <1>1 DEF RunInv, ReadbackStage, Turns, AfterPoll, Ended
<1>6. TraceStage(r)' /\ RecordStage(r)' /\ OnceEach(r)' /\ SessionFirst(r)'
  BY <1>1, QuietInv DEF Polling, AfterPoll
<1> QED
  BY <1>4, <1>5, <1>6 DEF RunInv

(* Reading back: what is seen is what the Registry holds.                   *)
LEMMA ReadbackInv ==
  ASSUME TypeOK, NEW r \in Runs, RunInv(r),
         ReadSession(r) \/ ReadMessages(r) \/ ReadOutput(r) \/ WriteResult(r)
  PROVE  RunInv(r)'
<1>1. /\ UNCHANGED <<job, ingested, records, kept, visible>>
      /\ pc[r] \in AfterPoll \ {"done"}
      /\ pc'[r] \in {"readMessages", "readOutput", "write", "done", "failed"}
      /\ pc'[r] = "done" => pc[r] = "write" /\ seen' = seen
      /\ pc'[r] = "write" => Required(r) \subseteq seen'[r]
  BY DEF ReadSession, ReadMessages, ReadOutput, WriteResult, registryVars, Goto, TypeOK,
         AfterPoll
<1>2. PollStage(r)'
  BY <1>1 DEF RunInv, PollStage, Readable, AfterPoll
<1>3. ReadbackStage(r)'
  <2>1. /\ seen'[r] \cap Lineage \subseteq kept[r]
        /\ "turns" \in seen'[r] => Turns(r) = 2
    <3>1. CASE ReadSession(r)
      <4>1. PICK shown \in SUBSET (kept[r] \cap SessionFields(r)) :
              seen'[r] = seen[r] \cup shown
        BY <3>1 DEF ReadSession, Confirm, TypeOK
      <4>2. "turns" \notin shown
        BY DEF TypeOK, Lineage
      <4> QED
        BY <4>1, <4>2 DEF RunInv, ReadbackStage
    <3>2. CASE ReadMessages(r)
      <4>1. PICK shown \in SUBSET TurnsFact(r) :
              seen'[r] = seen[r] \cup shown
        BY <3>2 DEF ReadMessages, Confirm, TypeOK
      <4>2. "turns" \notin Lineage
        BY DEF Lineage
      <4> QED
        BY <4>1, <4>2 DEF RunInv, ReadbackStage, TurnsFact
    <3>3. CASE ReadOutput(r)
      <4>1. PICK shown \in SUBSET (kept[r] \cap {"link"}) :
              seen'[r] = seen[r] \cup shown
        BY <3>3 DEF ReadOutput, Confirm, TypeOK
      <4> QED
        BY <4>1 DEF RunInv, ReadbackStage
    <3>4. CASE WriteResult(r)
      BY <3>4 DEF WriteResult, RunInv, ReadbackStage
    <3> QED
      BY <3>1, <3>2, <3>3, <3>4
  <2>2. pc'[r] \in {"write", "done"} => (Required(r) \subseteq seen[r])'
    BY <1>1 DEF RunInv, ReadbackStage, Required, SessionFields
  <2> QED
    BY <1>1, <2>1, <2>2 DEF ReadbackStage, Turns, AfterPoll, Ended
<1>4. TraceStage(r)' /\ RecordStage(r)' /\ OnceEach(r)' /\ SessionFirst(r)'
  BY <1>1, QuietInv DEF Polling, AfterPoll
<1> QED
  BY <1>2, <1>3, <1>4 DEF RunInv

(* A killed worker leaves the Registry as it is.                            *)
LEMMA KillInv ==
  ASSUME TypeOK, NEW r \in Runs, RunInv(r), Kill(r)
  PROVE  RunInv(r)'
<1>1. /\ UNCHANGED <<job, ingested, records, kept, visible, seen>>
      /\ pc'[r] = "killed"
  BY DEF Kill, registryVars, Goto, TypeOK
<1> QED
  BY <1>1 DEF RunInv, TraceStage, RecordStage, OnceEach, SessionFirst, PollStage,
              ReadbackStage, Turns, Polling, AfterPoll, Ended

(* The invariant holds initially.                                           *)
LEMMA InitIndInv == Init => IndInv
  BY DEF Init, IndInv, RunInv, TraceStage, RecordStage, OnceEach, SessionFirst,
         PollStage, ReadbackStage, Polling, AfterPoll, RecordKinds, Lineage, Ended

(* The invariant is inductive.                                              *)
LEMMA NextIndInv == TypeOK /\ IndInv /\ [Next]_vars => IndInv'
<1> SUFFICES ASSUME TypeOK, IndInv, [Next]_vars, NEW q \in Runs
             PROVE  RunInv(q)'
  BY DEF IndInv
<1>1. RunInv(q)
  BY DEF IndInv
<1>2. CASE Untouched(q)
  BY <1>1, <1>2, RegistryGrows, Frame
<1>3. CASE WorkerStep(q) \/ Kill(q)
  BY <1>1, <1>3, SubmitInv, SessionInv, MessageInv, OutputInv, PollInv, ReadbackInv,
     KillInv DEF WorkerStep
<1>4. ASSUME NEW r \in Runs \ {q}, WorkerStep(r) \/ Kill(r) PROVE Untouched(q)
  BY <1>4, OthersUntouched
<1>5. ASSUME NEW r \in Runs, NEW f \in Facades, Project(r, f) PROVE Untouched(q)
  BY <1>5 DEF Project, workerVars, Untouched
<1>6. CASE UNCHANGED vars
  BY <1>6, <1>2 DEF vars, Untouched
<1> QED
  BY <1>2, <1>3, <1>4, <1>5, <1>6 DEF Next

(* The inductive invariant holds in every reachable state.                  *)
THEOREM Inductive == Spec => []IndInv
  BY InitTypeOK, NextTypeOK, InitIndInv, NextIndInv, PTL DEF Spec

-----------------------------------------------------------------------------
(* The invariant makes a reported run complete: both turns exist because    *)
(* two records of at most one each were counted.                            *)
LEMMA CompleteWhenDone == TypeOK /\ IndInv => ReportedIsComplete
<1> SUFFICES ASSUME TypeOK, IndInv, NEW r \in Runs, pc[r] = "done"
             PROVE  /\ r \in ingested
                    /\ \A k \in RecordKinds : records[r][k] = 1
                    /\ Required(r) \ {"turns"} \subseteq kept[r]
                    /\ \A f \in FacadesOf[r] : Readable(r, f)
  BY DEF ReportedIsComplete
<1>1. RunInv(r)
  BY DEF IndInv
<1>2. Required(r) \subseteq seen[r]
  BY <1>1 DEF RunInv, ReadbackStage
<1>3. Required(r) \ {"turns"} \subseteq Lineage /\ "turns" \in Required(r)
  BY DEF Required, SessionFields, Lineage
<1>4. Required(r) \ {"turns"} \subseteq kept[r]
  BY <1>1, <1>2, <1>3 DEF RunInv, ReadbackStage
<1>5. \A k \in RecordKinds : records[r][k] = 1
  <2>1. records[r]["user"] + records[r]["assistant"] = 2
    BY <1>1, <1>2, <1>3 DEF RunInv, ReadbackStage, Turns
  <2>2. \A k \in RecordKinds : records[r][k] \in Nat /\ records[r][k] <= 1
    BY <1>1 DEF RunInv, OnceEach, TypeOK
  <2>3. records[r]["session"] = 1 /\ records[r]["output"] = 1
    BY <1>1 DEF RunInv, RecordStage, Polling, AfterPoll
  <2> QED
    BY <2>1, <2>2, <2>3 DEF RecordKinds
<1>6. r \in ingested /\ \A f \in FacadesOf[r] : Readable(r, f)
  BY <1>1 DEF RunInv, TraceStage, PollStage, AfterPoll
<1> QED
  BY <1>4, <1>5, <1>6

(* A run that wrote its result left complete, linked, readable evidence.    *)
THEOREM ReportedComplete == Spec => []ReportedIsComplete
  BY TypeCorrect, Inductive, CompleteWhenDone, PTL

(* No record is ever duplicated, whatever responses are lost.               *)
THEOREM AtMostOnce == Spec => []RecordedAtMostOnce
<1>1. IndInv => RecordedAtMostOnce
  BY DEF IndInv, RunInv, OnceEach, RecordedAtMostOnce
<1> QED
  BY <1>1, Inductive, PTL

(* No record precedes what it hangs from.                                   *)
THEOREM ParentsFirst == Spec => []ParentFirst
<1>1. IndInv => ParentFirst
  BY DEF IndInv, RunInv, SessionFirst, ParentFirst
<1> QED
  BY <1>1, Inductive, PTL

(* Every step leaves a run alone, projects its trace, or is the run's own.  *)
LEMMA StepsOfRun ==
  ASSUME TypeOK, [Next]_vars, NEW q \in Runs
  PROVE  \/ Untouched(q) /\ (q \in ingested' => q \in ingested) /\ round'[q] = round[q]
         \/ WorkerStep(q) \/ Kill(q)
<1>1. ASSUME NEW r \in Runs \ {q}, WorkerStep(r) \/ Kill(r)
      PROVE  Untouched(q) /\ (q \in ingested' => q \in ingested) /\ round'[q] = round[q]
  <2>1. q \in ingested' => q \in ingested
    BY <1>1, ZenonT(60) DEF WorkerStep, registryVars, Validate, TraceAccepted, TraceUnavailable,
         TraceRefused, Ingest, Prepare, PostSession, PostMessage, PostUserMessage,
         PostAssistantMessage, PostOutput, FacadeConfirmed, FacadeMissed, EndRound,
         ReadSession, ReadMessages, ReadOutput, WriteResult, Kill
  <2>2. round'[q] = round[q]
    BY <1>1, ZenonT(60) DEF TypeOK, WorkerStep, Validate, TraceAccepted, TraceUnavailable,
         TraceRefused, Prepare, PostSession, PostMessage, PostUserMessage,
         PostAssistantMessage, PostOutput, FacadeConfirmed, FacadeMissed, EndRound, NextRound,
         ReadSession, ReadMessages, ReadOutput, WriteResult, Kill
  <2> QED
    BY <1>1, <2>1, <2>2, OthersUntouched
<1>2. ASSUME NEW r \in Runs, NEW f \in Facades, Project(r, f)
      PROVE  Untouched(q) /\ (q \in ingested' => q \in ingested) /\ round'[q] = round[q]
  BY <1>2 DEF Project, workerVars, Untouched
<1>3. CASE UNCHANGED vars
  BY <1>3 DEF vars, Untouched
<1> QED
  BY <1>1, <1>2, <1>3 DEF Next

(* What a refused job has left, and how a poll gave up. *)
Refused(r) ==
    /\ job[r].visitor = "other" \/ ~job[r].arguments =>
          /\ pc[r] \in {"validate", "submit", "prepare", "failed", "killed"}
          /\ \A k \in RecordKinds : records[r][k] = 0
    /\ ~job[r].wellFormed \/ KiroRefuses(r) =>
          /\ pc[r] \in {"validate", "failed", "killed"}
          /\ r \notin ingested

GivenUp(r) == pc[r] = "incomplete" => round[r] = MaxRounds /\ failures[r] # {}

LEMMA RefusedStep ==
  ASSUME TypeOK, NEW r \in Runs, Refused(r), WorkerStep(r) \/ Kill(r)
  PROVE  Refused(r)'
<1>1. /\ job' = job
      /\ \A label : Goto(r, label) => pc'[r] = label
  BY ZenonT(60) DEF TypeOK, Goto, WorkerStep, Validate, TraceAccepted, TraceUnavailable, TraceRefused,
       Prepare, PostSession, PostMessage, PostUserMessage, PostAssistantMessage, PostOutput,
       FacadeConfirmed, FacadeMissed, EndRound, ReadSession, ReadMessages, ReadOutput,
       WriteResult, Kill
<1> USE <1>1
<1>2. CASE Validate(r) \/ Kill(r)
  BY <1>2 DEF Validate, Kill, registryVars, Refused, KiroRefuses
<1>3. CASE TraceAccepted(r) \/ TraceUnavailable(r) \/ TraceRefused(r)
  BY <1>3 DEF TraceAccepted, TraceUnavailable, TraceRefused, Refused, KiroRefuses
<1>4. CASE Prepare(r)
  BY <1>4 DEF Prepare, Recordable, registryVars, Refused, KiroRefuses
<1>5. CASE pc[r] \notin {"validate", "submit", "prepare", "failed", "killed"}
  BY <1>5 DEF Refused, KiroRefuses
<1>6. pc[r] \in {"validate", "submit", "prepare"} =>
         \/ Validate(r) \/ Kill(r) \/ Prepare(r)
         \/ TraceAccepted(r) \/ TraceUnavailable(r) \/ TraceRefused(r)
  BY DEF WorkerStep, PostSession, PostMessage, PostUserMessage, PostAssistantMessage, PostOutput,
         FacadeConfirmed, FacadeMissed, EndRound, ReadSession, ReadMessages, ReadOutput, WriteResult
<1>7. pc[r] \notin {"failed", "killed"}
  BY DEF WorkerStep, PostSession, PostMessage, PostUserMessage, PostAssistantMessage, PostOutput,
         FacadeConfirmed, FacadeMissed, EndRound, ReadSession, ReadMessages, ReadOutput, WriteResult,
         Validate, TraceAccepted, TraceUnavailable, TraceRefused, Prepare, Kill, Ended
<1> QED
  BY <1>2, <1>3, <1>4, <1>5, <1>6, <1>7

LEMMA GivenUpStep ==
  ASSUME TypeOK, NEW r \in Runs, WorkerStep(r) \/ Kill(r)
  PROVE  GivenUp(r)'
<1> SUFFICES ASSUME pc'[r] = "incomplete" PROVE round'[r] = MaxRounds /\ failures'[r] # {}
  BY DEF GivenUp
<1>1. \A label : Goto(r, label) => pc'[r] = label
  BY DEF TypeOK, Goto
<1>2. pc[r] # "incomplete"
  BY ZenonT(60) DEF WorkerStep, PostSession, PostMessage, PostUserMessage, PostAssistantMessage,
       PostOutput, FacadeConfirmed, FacadeMissed, EndRound, ReadSession, ReadMessages, ReadOutput,
       WriteResult, Validate, TraceAccepted, TraceUnavailable, TraceRefused, Prepare, Kill, Ended
<1>3. EndRound(r)
  BY <1>1, <1>2, ZenonT(60) DEF WorkerStep, PostSession, PostMessage, PostUserMessage,
       PostAssistantMessage, PostOutput, FacadeConfirmed, FacadeMissed, Errored, ReadSession,
       ReadMessages, ReadOutput, WriteResult, Validate, TraceAccepted, TraceUnavailable,
       TraceRefused, Prepare, Kill
<1>4. failures[r] # {} /\ LastRound(r) /\ UNCHANGED <<round, failures>>
  BY <1>1, <1>2, <1>3 DEF EndRound
<1>5. round[r] \in 0 .. MaxRounds /\ MaxRounds \in Nat
  BY RoundsAssumption DEF TypeOK
<1>6. round[r] = MaxRounds
  BY <1>4, <1>5 DEF LastRound
<1> QED
  BY <1>4, <1>6

(* A job refused before the submission leaves nothing with the Registry,    *)
(* and one refused after it no record.                                      *)
THEOREM RefusalsLeaveNothing == Spec => []RefusedLeavesNothing
<1> DEFINE RefusedInv == \A r \in Runs : Refused(r)
<1>1. Init => RefusedInv
  BY DEF Init, Refused, RecordKinds
<1>2. TypeOK /\ RefusedInv /\ [Next]_vars => RefusedInv'
  <2> SUFFICES ASSUME TypeOK, RefusedInv, [Next]_vars, NEW r \in Runs PROVE Refused(r)'
    OBVIOUS
  <2>1. CASE Untouched(r) /\ (r \in ingested' => r \in ingested)
    BY <2>1 DEF Untouched, Refused, KiroRefuses
  <2> QED
    BY <2>1, StepsOfRun, RefusedStep
<1>3. RefusedInv => RefusedLeavesNothing
  BY DEF Refused, RefusedLeavesNothing
<1> QED
  BY <1>1, <1>2, <1>3, TypeCorrect, PTL DEF Spec

(* The poll gives up in its last round only, with a facade still missing.   *)
THEOREM PollGivesUpLast == Spec => []IncompleteOnlyAtTheEnd
<1> DEFINE GivenUpInv == \A r \in Runs : GivenUp(r)
<1>1. Init => GivenUpInv
  BY DEF Init, GivenUp
<1>2. TypeOK /\ GivenUpInv /\ [Next]_vars => GivenUpInv'
  <2> SUFFICES ASSUME TypeOK, GivenUpInv, [Next]_vars, NEW r \in Runs PROVE GivenUp(r)'
    OBVIOUS
  <2>1. CASE Untouched(r) /\ round'[r] = round[r]
    BY <2>1 DEF Untouched, GivenUp
  <2> QED
    BY <2>1, StepsOfRun, GivenUpStep
<1>3. GivenUpInv => IncompleteOnlyAtTheEnd
  BY DEF GivenUp, IncompleteOnlyAtTheEnd
<1> QED
  BY <1>1, <1>2, <1>3, TypeCorrect, PTL DEF Spec

LEMMA StepNarrows == ASSUME TypeOK, [Next]_vars, NEW r \in Runs PROVE Narrows(r)
<1> SUFFICES ASSUME pc[r] = "verify", pc'[r] = "verify" PROVE Narrows(r)
  BY DEF Narrows, Unanswered
<1>1. CASE Untouched(r)
  BY <1>1 DEF Untouched, Narrows, Unanswered
<1>2. CASE WorkerStep(r) \/ Kill(r)
  <2>1. \A label : Goto(r, label) => pc'[r] = label
    BY DEF TypeOK, Goto
  <2>2. EndRound(r) \/ \E f \in Facades : FacadeConfirmed(r, f) \/ FacadeMissed(r, f)
    BY <1>2, <2>1 DEF WorkerStep, Kill, PostSession, PostMessage, PostUserMessage,
       PostAssistantMessage, PostOutput, ReadSession, ReadMessages, ReadOutput, WriteResult,
       Validate, TraceAccepted, TraceUnavailable, TraceRefused, Prepare
  <2>3. ASSUME NEW f \in Facades, FacadeConfirmed(r, f) PROVE Narrows(r)
    <3>1. /\ pending'[r] = pending[r] \ {f} /\ failures'[r] = failures[r]
          /\ Readable(r, f)
      BY <2>3 DEF FacadeConfirmed, TypeOK
    <3> QED
      BY <3>1 DEF Narrows, Unanswered
  <2>4. ASSUME NEW f \in Facades, FacadeMissed(r, f) PROVE Narrows(r)
    <3>1. pending'[r] = pending[r] \ {f} /\ failures'[r] = failures[r] \cup {f} /\ f \in pending[r]
      BY <2>4 DEF FacadeMissed, TypeOK
    <3> QED
      BY <3>1 DEF Narrows, Unanswered
  <2>5. CASE EndRound(r)
    <3>1. pending[r] = {} /\ NextRound(r)
      BY <2>1, <2>5 DEF EndRound
    <3>2. pending'[r] = failures[r] /\ failures'[r] = {}
      BY <3>1 DEF NextRound, TypeOK
    <3> QED
      BY <3>1, <3>2 DEF Narrows, Unanswered
  <2> QED
    BY <2>2, <2>3, <2>4, <2>5
<1> QED
  BY <1>1, <1>2, StepsOfRun

(* While a poll lasts, only a facade that could answer is no longer asked.  *)
THEOREM PollOnlyNarrows == Spec => PollNarrows
<1>1. TypeOK /\ [Next]_vars => [\A r \in Runs : Narrows(r)]_vars
  BY StepNarrows
<1> QED
  BY <1>1, TypeCorrect, PTL DEF Spec, PollNarrows

(* When no two runs share a trace id, a result vouches for the run's own    *)
(* spans; a rerun under the same external session id breaks the premise.    *)
THEOREM OwnTrace ==
  ASSUME \A r, q \in Runs : TraceOf[r] = TraceOf[q] => r = q
  PROVE  Spec => []OwnTraceVerified
<1>1. IndInv => OwnTraceVerified
  BY DEF IndInv, RunInv, PollStage, AfterPoll, Readable, OwnTraceVerified
<1> QED
  BY <1>1, Inductive, PTL

-----------------------------------------------------------------------------
(* Why every run ends: each of its steps climbs a well-founded order, the   *)
(* program point first, then the attempt or the poll round, both bounded,   *)
(* then the facades the round has still to ask.                             *)
Stage(label) ==
    CASE label = "validate" -> 0      [] label = "submit" -> 1
      [] label = "prepare" -> 2       [] label = "session" -> 3
      [] label = "user" -> 4          [] label = "assistant" -> 5
      [] label = "output" -> 6        [] label = "verify" -> 7
      [] label = "readSession" -> 8   [] label = "readMessages" -> 9
      [] label = "readOutput" -> 10   [] label = "write" -> 11
      [] OTHER -> 12

Climbs(r) == Stage(pc[r]) < Stage(pc'[r])

Retries(r) == /\ pc[r] = "submit" /\ pc'[r] = "submit"
              /\ attempt'[r] = attempt[r] + 1 /\ attempt'[r] <= MaxRetries

AsksNext(r) ==
    /\ pc[r] = "verify" /\ pc'[r] = "verify"
    /\ \/ round'[r] = round[r] + 1 /\ round'[r] <= MaxRounds
       \/ /\ round'[r] = round[r]
          /\ \E f \in pending[r] : pending'[r] = pending[r] \ {f}

Advances(r) == Climbs(r) \/ Retries(r) \/ AsksNext(r)

StandsStill(r) == /\ pc'[r] = pc[r] /\ attempt'[r] = attempt[r]
                  /\ round'[r] = round[r] /\ pending'[r] = pending[r]

(* No step takes a run back, and its own steps, or its end, take it on.     *)
OnlyAdvances(r) ==
    /\ Advances(r) \/ StandsStill(r)
    /\ WorkerStep(r) \/ Kill(r) => Advances(r)

(* A step of the worker advances its run. *)
LEMMA WorkerAdvances ==
  ASSUME TypeOK, NEW r \in Runs, WorkerStep(r) \/ Kill(r)
  PROVE  Advances(r)
<1>1. \A label : Goto(r, label) => pc'[r] = label
  BY DEF TypeOK, Goto
<1>2. CASE Validate(r) \/ Prepare(r) \/ Kill(r) \/ WriteResult(r)
  <2>1. Climbs(r)
    BY <1>1, <1>2 DEF Validate, Prepare, Kill, WriteResult, Ended, Climbs, Stage, TypeOK, PCs
  <2> QED
    BY <2>1 DEF Advances
<1>3. CASE TraceAccepted(r) \/ TraceRefused(r)
  <2>1. pc[r] = "submit" /\ pc'[r] \in {"prepare", "failed"}
    BY <1>1, <1>3 DEF TraceAccepted, TraceRefused
  <2> QED
    BY <2>1 DEF Advances, Climbs, Stage
<1>4. CASE TraceUnavailable(r)
  <2>1. CASE attempt[r] < MaxRetries
    <3>1. /\ pc[r] = "submit" /\ pc' = pc
          /\ attempt'[r] = attempt[r] + 1
      BY <1>4, <2>1 DEF TraceUnavailable, TypeOK
    <3>2. attempt[r] + 1 <= MaxRetries
      BY <2>1, RetriesAssumption DEF TypeOK
    <3> QED
      BY <3>1, <3>2 DEF Advances, Retries
  <2>2. CASE ~(attempt[r] < MaxRetries)
    BY <1>1, <1>4, <2>2 DEF TraceUnavailable, Advances, Climbs, Stage
  <2> QED
    BY <2>1, <2>2
<1>5. CASE PostSession(r) \/ PostUserMessage(r) \/ PostAssistantMessage(r) \/ PostOutput(r)
  <2>1. \/ pc[r] = "session" /\ pc'[r] \in {"user", "failed"}
        \/ pc[r] = "user" /\ pc'[r] \in {"assistant", "failed"}
        \/ pc[r] = "assistant" /\ pc'[r] \in {"output", "failed"}
        \/ pc[r] = "output" /\ pc'[r] \in {"verify", "failed"}
    BY <1>1, <1>5 DEF PostSession, PostUserMessage, PostAssistantMessage, PostMessage,
                      PostOutput, Errored
  <2> QED
    BY <2>1 DEF Advances, Climbs, Stage
<1>6. ASSUME NEW f \in Facades, FacadeConfirmed(r, f) \/ FacadeMissed(r, f)
      PROVE  Advances(r)
  BY <1>6 DEF FacadeConfirmed, FacadeMissed, Advances, AsksNext, TypeOK
<1>7. CASE EndRound(r)
  <2>1. CASE NextRound(r) /\ ~LastRound(r) /\ UNCHANGED pc
    <3>1. round'[r] = round[r] + 1 /\ pc[r] = "verify" /\ pc'[r] = "verify"
      BY <1>7, <2>1 DEF EndRound, NextRound, TypeOK
    <3>2. round[r] + 1 <= MaxRounds
      BY <2>1, RoundsAssumption DEF LastRound, TypeOK
    <3> QED
      BY <3>1, <3>2 DEF Advances, AsksNext
  <2>2. CASE Goto(r, "readSession") \/ Goto(r, "incomplete")
    BY <1>1, <1>7, <2>2 DEF EndRound, Advances, Climbs, Stage
  <2> QED
    BY <1>7, <2>1, <2>2 DEF EndRound
<1>8. CASE ReadSession(r) \/ ReadMessages(r) \/ ReadOutput(r)
  <2>1. \/ pc[r] = "readSession" /\ pc'[r] \in {"readMessages", "failed"}
        \/ pc[r] = "readMessages" /\ pc'[r] \in {"readOutput", "failed"}
        \/ pc[r] = "readOutput" /\ pc'[r] \in {"write", "failed"}
    BY <1>1, <1>8 DEF ReadSession, ReadMessages, ReadOutput
  <2> QED
    BY <2>1 DEF Advances, Climbs, Stage
<1> QED
  BY <1>2, <1>3, <1>4, <1>5, <1>6, <1>7, <1>8 DEF WorkerStep

(* A step of another run, or of the Registry, leaves the run where it is.   *)
LEMMA OthersStandStill ==
  ASSUME TypeOK, NEW r \in Runs, WorkerStep(r) \/ Kill(r), NEW q \in Runs \ {r}
  PROVE  StandsStill(q)
<1>1. attempt'[q] = attempt[q]
  BY ZenonT(60) DEF TypeOK, WorkerStep, Validate, TraceAccepted, TraceUnavailable,
       TraceRefused, Prepare, PostSession, PostMessage, PostUserMessage,
       PostAssistantMessage, PostOutput, FacadeConfirmed, FacadeMissed, EndRound,
       ReadSession, ReadMessages, ReadOutput, WriteResult, Kill
<1>2. round'[q] = round[q]
  BY ZenonT(60) DEF TypeOK, WorkerStep, Validate, TraceAccepted, TraceUnavailable,
       TraceRefused, Prepare, PostSession, PostMessage, PostUserMessage,
       PostAssistantMessage, PostOutput, FacadeConfirmed, FacadeMissed, EndRound, NextRound,
       ReadSession, ReadMessages, ReadOutput, WriteResult, Kill
<1> QED
  BY <1>1, <1>2, OthersUntouched DEF Untouched, StandsStill

(* Every run goes forward only: the safety half of its termination.  With   *)
(* MaxRetries and MaxRounds bounded and FacadesOf[r] finite, as in the code,*)
(* a run has no infinite sequence of steps of its own.                      *)
THEOREM RunsOnlyAdvance == Spec => [][\A r \in Runs : OnlyAdvances(r)]_vars
<1>1. TypeOK /\ [Next]_vars => [\A r \in Runs : OnlyAdvances(r)]_vars
  <2> SUFFICES ASSUME TypeOK, Next, NEW q \in Runs PROVE OnlyAdvances(q)
    OBVIOUS
  <2>1. CASE WorkerStep(q) \/ Kill(q)
    BY <2>1, WorkerAdvances DEF OnlyAdvances
  <2>2. CASE ~(WorkerStep(q) \/ Kill(q))
    <3>1. ASSUME NEW r \in Runs \ {q}, WorkerStep(r) \/ Kill(r) PROVE StandsStill(q)
      BY <3>1, OthersStandStill
    <3>2. ASSUME NEW r \in Runs, NEW f \in Facades, Project(r, f) PROVE StandsStill(q)
      BY <3>2 DEF Project, workerVars, StandsStill
    <3> QED
      BY <2>2, <3>1, <3>2 DEF Next, OnlyAdvances
  <2> QED
    BY <2>1, <2>2
<1> QED
  BY <1>1, TypeCorrect, PTL DEF Spec

-----------------------------------------------------------------------------
(* The worker implements the evidence contract: every step maps to a step   *)
(* of the contract or to a stutter.                                         *)

(* What the steps of one run leave of the others, and of the projections.   *)
OnlyRun(r) ==
    /\ \A q \in Runs \ {r} : /\ pc'[q] = pc[q]
                             /\ records'[q] = records[q]
                             /\ q \in ingested' <=> q \in ingested
    /\ visible' = visible

(* A step of a running run that adds at most one kind of evidence whose     *)
(* parent is there records it, or abandons the run.                         *)
LEMMA RecordOrAbandon ==
  ASSUME TypeOK, TypeOK', NEW r \in Runs, OnlyRun(r),
         pc[r] \notin Ended, pc'[r] # "done",
         NEW k \in Contract!Kinds, Contract!Parent(k) \subseteq Recorded[r],
         Recorded'[r] = Recorded[r] \/ Recorded'[r] = Recorded[r] \cup {k}
  PROVE  [Contract!CNext]_Contract!cvars
<1>1. Outcome[r] = "running"
  BY DEF Outcome, Ended
<1>2. /\ Recorded = [Recorded EXCEPT ![r] = Recorded[r]]
      /\ Recorded' = [Recorded EXCEPT ![r] = Recorded'[r]]
  BY DEF Recorded, OnlyRun
<1>3. CASE pc'[r] \in Ended
  <2>1. Outcome' = [Outcome EXCEPT ![r] = "abandoned"]
    BY <1>3 DEF Outcome, OnlyRun, Ended
  <2>2. Contract!Abandon(r)
    BY <1>1, <1>2, <2>1 DEF Contract!Abandon, OnlyRun
  <2> QED
    BY <2>2 DEF Contract!CNext
<1>4. CASE pc'[r] \notin Ended
  <2>1. Outcome' = Outcome
    <3>1. Outcome'[r] = "running"
      BY <1>4 DEF Outcome, Ended
    <3>2. Outcome' = [Outcome EXCEPT ![r] = Outcome'[r]]
      BY DEF Outcome, OnlyRun
    <3> QED
      BY <1>1, <3>1, <3>2 DEF Outcome
  <2>2. CASE Recorded'[r] = Recorded[r]
    BY <1>2, <2>1, <2>2 DEF Contract!cvars, OnlyRun
  <2>3. CASE Recorded'[r] = Recorded[r] \cup {k}
    <3>1. Contract!Record(r, k)
      BY <1>1, <1>2, <2>1, <2>3 DEF Contract!Record, OnlyRun
    <3> QED
      BY <3>1 DEF Contract!CNext
  <2> QED
    BY <2>2, <2>3
<1> QED
  BY <1>3, <1>4

(* A step of one run touches nothing else.                                  *)
LEMMA OnlyRunSteps ==
  ASSUME TypeOK, NEW r \in Runs, WorkerStep(r) \/ Kill(r)
  PROVE  OnlyRun(r)
<1>1. \A q \in Runs \ {r} : Untouched(q)
  BY OthersUntouched
<1>2. visible' = visible /\ \A q \in Runs \ {r} : q \in ingested' <=> q \in ingested
  BY ZenonT(60) DEF WorkerStep, registryVars, Validate, TraceAccepted, TraceUnavailable,
         TraceRefused, Ingest, Prepare, PostSession, PostMessage, PostUserMessage,
         PostAssistantMessage, PostOutput, FacadeConfirmed, FacadeMissed, EndRound, NextRound,
         ReadSession, ReadMessages, ReadOutput, WriteResult, Kill
<1> QED
  BY <1>1, <1>2 DEF OnlyRun, Untouched

(* A POST adds at most its own kind of record.                              *)
LEMMA CreateRecorded ==
  ASSUME TypeOK, TypeOK', NEW r \in Runs, NEW k \in RecordKinds, NEW fields,
         Create(r, k, fields) \/ NothingCreated, ingested' = ingested
  PROVE  Recorded'[r] = Recorded[r] \/ Recorded'[r] = Recorded[r] \cup {k}
<1>1. CASE Create(r, k, fields)
  <2>1. \A j \in RecordKinds : records'[r][j] > 0 <=> records[r][j] > 0 \/ j = k
    BY <1>1, CreateCounts DEF TypeOK
  <2> QED
    BY <2>1 DEF Recorded
<1>2. CASE NothingCreated
  BY <1>2 DEF NothingCreated, Recorded
<1> QED
  BY <1>1, <1>2

(* What a step of the worker adds to the evidence of its run.               *)
LEMMA StepRecords ==
  ASSUME TypeOK, TypeOK', NEW r \in Runs, RunInv(r), WorkerStep(r) \/ Kill(r)
  PROVE  \E k \in Contract!Kinds :
           /\ Contract!Parent(k) \subseteq Recorded[r]
           /\ Recorded'[r] = Recorded[r] \/ Recorded'[r] = Recorded[r] \cup {k}
<1>0. /\ Contract!Kinds = {"trace", "session", "user", "assistant", "output"}
      /\ Contract!Parent("trace") = {}
      /\ Contract!Parent("session") = {"trace"}
      /\ \A k \in {"user", "assistant", "output"} : Contract!Parent(k) = {"session"}
  BY DEF Contract!Kinds, Contract!Parent
<1>1. CASE TraceAccepted(r) \/ TraceUnavailable(r) \/ TraceRefused(r)
  <2>1. Recorded'[r] = Recorded[r] \/ Recorded'[r] = Recorded[r] \cup {"trace"}
    BY <1>1 DEF TraceAccepted, TraceUnavailable, TraceRefused, Ingest, Recorded
  <2> QED
    BY <1>0, <2>1
<1>2. CASE PostSession(r)
  <2>1. "trace" \in Recorded[r]
    BY <1>2 DEF PostSession, RunInv, TraceStage, Recorded
  <2>2. Recorded'[r] = Recorded[r] \/ Recorded'[r] = Recorded[r] \cup {"session"}
    BY <1>2, CreateRecorded DEF PostSession, Errored, RecordKinds
  <2> QED
    BY <1>0, <2>1, <2>2
<1>3. CASE PostUserMessage(r) \/ PostAssistantMessage(r)
  <2>1. PICK k \in {"user", "assistant"}, next \in {"assistant", "output"} :
          PostMessage(r, k, next)
    BY <1>3 DEF PostUserMessage, PostAssistantMessage
  <2>2. "session" \in Recorded[r]
    BY <2>1 DEF PostMessage, RunInv, RecordStage, Recorded, RecordKinds
  <2>3. Recorded'[r] = Recorded[r] \/ Recorded'[r] = Recorded[r] \cup {k}
    BY <2>1, CreateRecorded DEF PostMessage, Errored, RecordKinds
  <2> QED
    BY <1>0, <2>2, <2>3
<1>4. CASE PostOutput(r)
  <2>1. "session" \in Recorded[r]
    BY <1>4 DEF PostOutput, RunInv, RecordStage, Recorded, RecordKinds
  <2>2. Recorded'[r] = Recorded[r] \/ Recorded'[r] = Recorded[r] \cup {"output"}
    <3>1. "output" \in RecordKinds
      BY DEF RecordKinds
    <3> QED
      BY <1>4, <3>1, CreateRecorded DEF PostOutput, Errored
  <2> QED
    BY <1>0, <2>1, <2>2
<1>5. ASSUME \/ Validate(r) \/ Prepare(r) \/ EndRound(r)
             \/ ReadSession(r) \/ ReadMessages(r) \/ ReadOutput(r)
             \/ WriteResult(r) \/ Kill(r)
      PROVE  Recorded'[r] = Recorded[r]
  BY <1>5 DEF Validate, Prepare, EndRound, ReadSession, ReadMessages, ReadOutput,
              WriteResult, Kill, registryVars, Recorded
<1>6. ASSUME NEW f \in Facades, FacadeConfirmed(r, f) \/ FacadeMissed(r, f)
      PROVE  Recorded'[r] = Recorded[r]
  BY <1>6 DEF FacadeConfirmed, FacadeMissed, registryVars, Recorded
<1>7. CASE Recorded'[r] = Recorded[r]
  BY <1>0, <1>7
<1> QED
  BY <1>1, <1>2, <1>3, <1>4, <1>5, <1>6, <1>7 DEF WorkerStep

(* Writing the result is the contract's report.                             *)
LEMMA WriteReports ==
  ASSUME TypeOK, TypeOK', IndInv', NEW r \in Runs, WriteResult(r)
  PROVE  Contract!Report(r)
<1>1. /\ Outcome[r] = "running"
      /\ Outcome' = [Outcome EXCEPT ![r] = "reported"]
  BY DEF WriteResult, Goto, TypeOK, Outcome, Ended
<1>2. /\ ReportedIsComplete'
      /\ pc'[r] = "done"
      /\ UNCHANGED <<ingested, records, visible>>
  <2>1. ReportedIsComplete'
    BY CompleteWhenDone, PTL
  <2>2. pc'[r] = "done" /\ UNCHANGED <<ingested, records, visible>>
    BY DEF WriteResult, registryVars, Goto, TypeOK
  <2> QED
    BY <2>1, <2>2
<1>3. /\ r \in ingested
      /\ \A k \in RecordKinds : records[r][k] = 1
      /\ \A f \in FacadesOf[r] : Readable(r, f)
  BY <1>2 DEF ReportedIsComplete, Readable
<1>4. Recorded[r] = Contract!Kinds
  BY <1>3 DEF Recorded, RecordKinds, Contract!Kinds
<1> QED
  BY <1>1, <1>2, <1>3, <1>4
  DEF Contract!Report, Contract!Complete, Contract!Readable, Readable, Recorded

(* The initial states map to initial states.                                *)
LEMMA InitMaps == Init => Contract!CInit
  BY DEF Init, Contract!CInit, Outcome, Recorded, RecordKinds, Ended

(* Every step maps to a step of the contract or to a stutter.               *)
LEMMA NextMaps ==
  ASSUME TypeOK, TypeOK', IndInv, IndInv', [Next]_vars
  PROVE  [Contract!CNext]_Contract!cvars
<1>1. ASSUME NEW r \in Runs, WorkerStep(r) \/ Kill(r), pc'[r] # "done"
      PROVE  [Contract!CNext]_Contract!cvars
  <2>1. OnlyRun(r)
    BY <1>1, OnlyRunSteps
  <2>2. pc[r] \notin Ended
    BY <1>1 DEF WorkerStep, Kill, Ended, Validate, TraceAccepted, TraceUnavailable,
                TraceRefused, Prepare, PostSession, PostUserMessage,
                PostAssistantMessage, PostMessage, PostOutput, FacadeConfirmed,
                FacadeMissed, EndRound, NextRound, ReadSession, ReadMessages, ReadOutput, WriteResult
  <2>3. RunInv(r)
    BY DEF IndInv
  <2> QED
    BY <1>1, <2>1, <2>2, <2>3, StepRecords, RecordOrAbandon
<1>2. ASSUME NEW r \in Runs, WorkerStep(r) \/ Kill(r), pc'[r] = "done"
      PROVE  [Contract!CNext]_Contract!cvars
  <2>1. WriteResult(r)
    BY <1>2 DEF WorkerStep, Kill, Goto, TypeOK, Errored, Validate, TraceAccepted,
                TraceUnavailable, TraceRefused, Prepare, PostSession, PostUserMessage,
                PostAssistantMessage, PostMessage, PostOutput, FacadeConfirmed,
                FacadeMissed, EndRound, NextRound, ReadSession, ReadMessages, ReadOutput
  <2> QED
    BY <2>1, WriteReports DEF Contract!CNext
<1>3. ASSUME NEW r \in Runs, NEW f \in Facades, Project(r, f)
      PROVE  [Contract!CNext]_Contract!cvars
  <2>1. Contract!Publish(r, f)
    BY <1>3 DEF Project, workerVars, Contract!Publish, Outcome, Recorded
  <2> QED
    BY <2>1 DEF Contract!CNext
<1>4. CASE UNCHANGED vars
  BY <1>4 DEF vars, Contract!cvars, Outcome, Recorded
<1> QED
  BY <1>1, <1>2, <1>3, <1>4 DEF Next

(* The evidence protocol of the code implements the evidence contract.      *)
THEOREM Refinement == Spec => ImplementsContract
  BY InitMaps, NextMaps, TypeCorrect, Inductive, PTL
  DEF Spec, ImplementsContract, Contract!CSpec
=============================================================================
