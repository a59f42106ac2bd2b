# Formal models of the Registry PR-review demo

The program reviews pull requests with two agents (a LangGraph one and Kiro CLI) that run in
Daytona sandboxes, and leaves evidence of every review in the Atlan Agent Registry. These TLA+
modules model the parts of it whose correctness depends on the order in which things fail: the
evidence protocol, the sandbox that runs it, the operator's commands that register the agents and
hand out their keys, the pull-request workflow around a review, and the loop that improves the
review rules from its traces. TLC checks them on small instances, TLAPS proves their main safety
properties for every value of the constants.

Paths below are relative to `src/`; `P/` stands for `src/registry_pr_review_demo/`.

## 1. Inventory

| Component | State it keeps | Operations | Interacts with | What makes it correct |
|---|---|---|---|---|
| Agent evidence `P/agent_evidence.py` | the records it has created, the facades still pending | `record_and_verify`, `_verify_trace_facades`, `_request` | Registry (POST, GET) | a result means complete, readable evidence; nothing recorded twice or before its parent |
| Trace submission `P/cli_trace.py` | the retry counter | `submit` of three submitters, `_run_cli_with_retry`, payload construction | `atlanai` CLI, OTLP endpoint | an unavailable endpoint is asked a bounded number of times; spans nest |
| Sandbox worker `P/worker.py` | the job file, the result file | `main`, `run_sdk_job`, `run_kiro_trace_job`, `run_improver_job` | the three above, the reviewer | nothing is recorded for a refused job; the result file comes last |
| Sandbox runtimes `P/daytona_runtime.py`, `P/kiro_runtime.py` | the sandbox handle, the result | `run`: create, upload, exec, download, delete | Daytona, the worker | the lifecycle label is true; no sandbox stays for good; timeouts fit |
| Kiro stream `P/kiro_runtime.py` | final text, tool names, credits | `parse_kiro_stream`, `_validate_result` | Kiro CLI output | no tool outside the allow-list; the result is the run's last word |
| CLI `P/cli.py` | state files, result files | `run-sdk`, `run-kiro`, `run-improver-cli`, `registry-*` | all of the above | the result file is written only for a run that returned |
| Registry provisioning `P/provisioner.py`, `P/registration.py`, `P/secret_store.py`, `scripts/sync_daytona_secrets.py` | inventories, Keychain, state file | `apply`, `rotate_and_store_agent_keys`, sync | Registry, Keychain, Daytona Secrets | re-applying is idempotent; a lost key can be healed; keys never move backwards |
| LangGraph reviewer `P/graph.py`, `P/knowledge.py`, `P/controller.py` | the graph state | `review`: load skill, load knowledge, inspect, decide | skills, knowledge | findings in line order, decision from the worst finding |
| Improvement loop `P/trace_reader.py`, `P/trace_analysis.py`, `P/improver.py`, `P/factory_review.py` | proposal, approval | fetch a case's trace, analyse the gap, apply an approved proposal | Registry traces, rules | a proposal cites a wrong approval of its case; no patch is applied without a human's approval |
| Pull-request workflow `.github/workflows/governed-pr-review.yml`, `P/pr_comment.py` | the pull request's comments | review, comment, fail-closed comment | CLI, GitHub | a comment says what the run did |
| Skill loading, SDK instrumentation, `scripts/*` | files | verification of digests, acceptance runs | Registry, Daytona | the verified skill is the one used (it is not, on one path: see 6) |

The hard behaviours: a Registry call is applied and its response lost; the trace is projected
some time after its ingestion was acknowledged, or never; the controlling process dies with a
sandbox and a worker running; an `exec` times out while its worker goes on; Daytona's own timers
act at any time; an operator's command stops between issuing a key and storing it; a push stops a
job while its comment is being posted; three readers check one result under different rules; a
version is published while a review runs, and an analysis is interrupted between two of its files.
`hazards` in
`PROJECT.json` lists each with the line where it bites and the properties that cover it.

## 2. Modules

```
EvidenceContract  <-- refined by --  Evidence          SandboxRun
                                        \                 /
                                         \--  ReviewRun --/           Provisioner

KiroStream   KiroTrace                   ReviewGraph
        \     /                               |
       PullRequest                      ImprovementLoop

proofs:     EvidenceProofs  SandboxProofs  ReviewProofs  ProvisionerProofs
            KiroProofs  PullRequestProofs  ReviewGraphProofs  ImprovementProofs
instances:  MCEvidence  MCSandboxRun  MCReviewRun  MCProvisioner  MCPullRequest  MCImprovementLoop
```

**EvidenceContract** says what a run promises without saying how: evidence is recorded parent
first and only while the run is alive; a run is reported only when all five kinds of evidence
exist and every facade serves its trace id; a failing call may itself have landed.

**Evidence** is the worker, one action per call of `worker.main` and
`AgentEvidenceClient.record_and_verify`. `pc[r]` is the call the worker makes next. Each POST has
its three outcomes: created and answered, created with the response lost, not created. A message
POST also has a fourth, answered without being created, because the code does not look at the
answer. `pending` and `failures` are the two lists of `_verify_trace_facades`; one facade answers
per step, in any order, because the order in the list decides nothing that the properties tell
apart. `seen` is what the readbacks have confirmed; the checks after the third readback compare it
with what they require. The Registry's side (`ingested`, `records`, `kept`, `visible`) is
external; it is modelled from the requests the code makes and the answers it prepares for. The
fields of a job record are the outcomes of the checks of `run_kiro_trace_job` and `main`:
`wellFormed` for everything validated before the submission, `fingerprints` for the comparison of
the skills, `arguments` for what is read only afterwards, and the kind of visitor id.

**SandboxRun** is the controlling process (`DaytonaRuntime.run`, `KiroDaytonaRuntime.run`, and the
result file of `cli.py`), its sandbox at Daytona and the worker in it, concurrently. `create`
stands before the `try`; inside, every call may raise; the `finally` clause deletes, or does not
when the sandbox is retained, and its own error replaces the result. `AutoStop` and `Expire` are
Daytona's timers; the timeouts and intervals are the numbers of the code, in seconds, and the
model compares them instead of counting time. `Kill` is a cancelled or lost job.

**ReviewRun** composes the two: the worker of SandboxRun is the process that takes Evidence's
steps. It steps only while its sandbox runs it, its exit code is what `exec` returns, and whatever
takes the sandbox away ends it between two calls. This is where a controlling process that has
ended meets a worker that has not.

**Provisioner** is `registry-apply`, `registry-rekey` and `sync_daytona_secrets.py`, in any
sequence, one at a time as the runbook prescribes, each interrupted anywhere. A key is known by
the generation of the identity it belongs to, so "stale" is a comparison. `Plan` is the order in
which `apply` visits the framework, provider, environments and agents; the rename of the legacy
agent happens after the framework, as in the code. A call that was applied and not acknowledged is
the step of the call followed by `Raise`.

**KiroStream** is `parse_kiro_stream`. `phase` is where the parser is: reading lines, scanning
events, checking the final result, checking the collected tool names. Every line is decoded before
the first is looked at, so an error in the last line refuses the stream whatever the scan would
have said; calls are checked where they stand, the names of a summary only at the end. An event is
a record of the fields the scan looks at. A text has five values (absent, empty, unencodable, odd,
plain), which is what its three readers tell apart: the parser and the worker want a string, the
empty one included (`P/kiro_runtime.py:202`, `P/worker.py:532-536`); the comment wants an
identifier as a rule id, and as a message one that is not empty and that UTF-8 can encode. An
event's token count is the one of its breakdown; its credits are the sum over its summaries. The
model name is left out: it is treated as the token count is.

**KiroTrace** is the span layout of `build_kiro_otlp_payload` as operators on times: the k-th
span's offset from either end of the run, its parent, its sequence number.

**PullRequest** is `governed-pr-review.yml`, one action a step of the job, composed with the two.
A job is asked for by a push (`Push`), by a pull request reopened or marked ready, whose head is
the one it was (`Reopen`, line 6), and by a re-run of a job that is over, for the head of its
event (`Rerun`). The concurrency group starts the newest request when it is free; requests are
taken to join it in the order of their events, and every push to meet the workflow's `paths`
filter, as the whole diff of a pull request does once it has. A job's Kiro step runs the parser,
then the worker's own checks (`WorkerAccepts`), then records the result with its spans. What fails
inside the recording is Evidence's and SandboxRun's subject; here it is `KiroFails`, before or
after the record; what a re-run under the run id of its predecessor finds in the Registry is
`evidence_rerun`'s. `Renderable` is what the comment asks of the result, `named` whether the ids
that Registry and Daytona returned are identifiers, and `DemoRepository` whether the run's URL is
the one repository `pr_comment.py` knows. `Post` and `GhReturns` are two steps because the comment
exists before `gh` returns, and `Stop` may come in between.

**ReviewGraph** is the LangGraph reviewer: a node per action, and in `inspect_diff` one step for
each rule on each line. `Hits` and `Verdict` say what a review should find and decide, without
the loops. A line's text is known by the patterns that are found in it.

**ImprovementLoop** composes it with the commands around it. `StartReview` is `run-sdk` up to the
job, `ReviewEnds` the trace it leaves. One operator runs one command at a time (`cmd`, `args`);
developers edit the local rules, a human approves, and versions are published between any two
steps. `Fetch` is the reader: one page of the version's traces, one page of the spans of each,
merged, so that of several runs under one trace id it sees one. Each run alone is taken to fit the
page of spans; when more runs than `SpanLimit` share an id, the page may hold no root span
(`Crowded`). The case must match and the decision be there: `UndecidedReview` is a trace of a case
without one, which the reader provides for (`P/trace_reader.py:60`) and this repository's own
reviews never leave. A proposal keeps the id of its trace, as the code does; its case and version
are history. The facade of a version may serve runs of another under a shared id. `approved` is
every proposal a human approved, in whatever order they are applied. `WriteJson`, `WriteMd` and
`WriteRun` are three steps, and `Interrupt` ends a command between any two. `own` is a history
variable: the review was of the case's own diff with the rules of the version it was labelled
with. No command approves or applies a proposal; `Approve` and `Apply` are `with_approval` and
`apply_approved_proposal`, which only `tests/unit/test_improvement_loop.py` calls; the model
applies to the local rules.

`PROJECT.json` maps every definition to the lines it models. Definitions commented `mutant:` are
plausible bugs; none is part of a specification. Each is substituted for the definition it follows
to see that a property notices it.

## 3. Runs

| Run | Instance | Shows |
|---|---|---|
| `evidence_one` | 1 run, every job, 3 facades, 3 retries, 4 rounds | `ReportedIsComplete`, `RecordedAtMostOnce`, `RefusedLeavesNothing`, `PollNarrows`, `EveryRunEnds` |
| `evidence_two` | 2 concurrent runs with own trace ids, a shared facade, 1 round | `OwnTraceVerified`, `ImplementsContract` |
| `evidence_rerun` | 2 runs with one trace id | `OwnTraceVerified` fails (finding) |
| `evidence_expiry` | as `evidence_one` | `ExpiryReportsPartialEvidence` fails (finding) |
| `sandbox` | 2 runs of any kind | `ReportIsTrue`, `NotStoppedUnderWorker`, `SandboxesGone` |
| `sandbox_leak` | as `sandbox` | `EveryExitDeletes` fails (finding) |
| `review_run` | 1 run of any kind, 2 facades, 1 retry, 2 rounds | `ReportedHasEvidence`, `QuietAfterTheEnd` |
| `review_run_failed` | as `review_run` | `FailedMeansUnverified` fails (finding) |
| `provisioner` | 2 objects, 2 agents, one of them renamed, 3 generations | `KeysAgree`, `NoDuplicates`, `AppliedIsComplete`, `KeysMoveForward`, `CreatedAgentsHaveKeys` |
| `provisioner_reuse` | as `provisioner` | `AppliedAgentsHaveKeys` fails (finding) |
| `pull_request` | 2 heads, 3 requests, streams of up to 2 of 13 events, 2 tools at most | `AcceptedUsesAllowedOnly`, `ToolsForWorker`, `LastWordWins`, `RefusalIsJustified`, `SpansNest`, `CommentsInOrder`, `CommentsAreEvidence`, `SilenceExplained`, `LastRequestSettles` |
| `improvement` | 2 cases, 2 rules, 2 versions, 2 traces, pages of one trace and of the spans of one run, 2 analyses, 1 edit | `FindingsExact`, `DecisionExact`, `TracesTellTheirVersion`, `MissingMeansFull`, `ProposalGrounded`, `FilesAgree`, `PatchesAreApproved`, `LoopCloses`, `EmptyPatchesAreUnfixable` |

The type invariants of Evidence, SandboxRun, Provisioner, PullRequest and ImprovementLoop are each
checked by one of these runs.

What the last two say of the code, beyond that their properties hold:

* `CommentsInOrder`: a head may be commented several times, once for each job that was asked for
  it; a job comments once at most, comments come in the order of the requests, and a comment of an
  older head than the one before it is a re-run's. So a re-run of an old job has the last word on a
  pull request, about a head that is no longer the newest.
* `SilenceExplained` lists when a verified review gets no comment at all: a repository other than
  the one `P/pr_comment.py:35` names, an id from Registry or Daytona that is no identifier, a result
  file over 2 MB, more than fifty findings, more than twenty skills, a rule id that is no
  identifier (the empty one included), a message that is empty or cannot be encoded. The parser and
  the worker let all of these through; the comment's renderer does not, and the fail-closed step
  runs only when the Kiro step failed. That nothing else is on the list is the property.
* `SpansNest`: the spans of n skills lie inside one another exactly when the run lasted at least
  2(n + 4) nanoseconds; `ended <= started` is all the code refuses. A run without source times
  gets a millisecond.
* `RefusalIsJustified` is the converse of what an accepted stream promises: once its lines are
  read, a stream is refused only for a disallowed tool, too many tools, or a last final value that
  is no result. The limit on tools counts the names as they come, so a stream that uses one tool a
  hundred and one times is refused although its list would have had one entry.
* `TracesTellTheirVersion` holds of `own` reviews only: `run-sdk` reviews with the local rules
  under the version the references file names, and any diff under any case. Local rules that differ
  from the version are therefore outside the property: it shows that nothing that happens after
  the review began makes its label wrong.
* `MissingMeansFull`: the reader misses a case only when there are more traces than a page holds,
  or when each trace the version has of the case holds a run without a decision, or of another case
  under the same id (as all runs outside a workflow have), or more spans than a page of them.
* `ProposalGrounded`: a false negative on file cites the id of a trace that is listed under the
  version asked about and holds a run of the analysed case that was wrongly approved. It cannot say
  that the run was of that version: under a shared id it may be of another.
* `FilesAgree` says nothing of an interrupted analysis, whose files may be of two, and
  `PatchesAreApproved` nothing of rules a developer edited, which `apply_approved_proposal` patches
  as well.
* `LoopCloses`: after an approved patch the next version requests changes of a case exactly when
  the proposed pattern is found on an added line. The proposal is made whenever SELECT and .format
  stand anywhere in the diff, on removed lines too, and even on one added line the pattern may miss
  them: it stops at a quote (`P/trace_analysis.py:17`), so it does not find
  `"SELECT ... name = '{}'".format(n)`, which is the case `quoted` of the instance.
  `EmptyPatchesAreUnfixable` is the other side of it: for such cases the same patch is proposed
  again.

**Bounds.** `MaxRetries` and `MaxRounds` are not bounds of the model: they are the lengths of the
code's lists of delays, and `evidence_one` has the code's values. Three facades let a round
confirm one, miss one and leave one for a later round. With two runs the retry is left out
(`MaxRetries = 0`) and each facade is polled once: what a retry or a later round does is
`evidence_one`'s question, and that the refinement holds with them is the theorem's. Runs meet
only at the facades, so two are enough to show or to refute that one answers for another. Runs in
SandboxRun meet only at the name of the retained sandbox, so two again suffice. `MaxKeys` bounds
the number of rotations: two beyond a first key let a rekey be interrupted and repeated. In
PullRequest two heads and three requests let a head be commented twice and an old one last, and
two events hold a call or a summary with a result, two results in any order, or none; `MaxTools`
is small so that it is reached. Of the reasons of `SilenceExplained` the run reaches three (an
empty rule id, a large file, an odd id); the rest, `DemoRepository` among them, which is TRUE in
the instance, are the theorem's. In ImprovementLoop a page of one trace stands for the code's
fifty, and one of the spans of a single run for its hundred, so that two traces overflow the first
and two runs of one id the second; what a page of several traces does is the theorem's. Two
versions let a patch be published, two analyses let the second one tear the files of the first.
The rules are chosen so that every error of the reviewer happens, and the events so that each of
the three readers refuses something the one before it let through. The proofs have none of these bounds.

`CHECK_DEADLOCK FALSE` is in the configurations where every run may have ended. The operator of
Provisioner can always begin another command.

**Fairness.** Evidence: weak fairness of each worker's step. The worker's own HTTP calls have a
timeout; `run_atlanai_cli` has none, and what bounds it is the timeout of the `exec` the worker
runs in (120, 300 or 1800 s), which ends the worker (`Kill`) and so the run as well. Nothing is
assumed of the projection: `EveryRunEnds` holds although the Registry may never project a trace.
SandboxRun: weak fairness of the controlling process, whose calls return or time out, and of
Daytona's two timers, which are what is left when no `finally` clause runs. The worker gets none:
it may hang. PullRequest: weak fairness of the job's next step, whose hanging ends in the job's
time limit, and of the start of a job for the newest waiting request, which GitHub owes; a push, a
reopened pull request, a re-run, a stop and the outcomes of a step get none. ImprovementLoop and
Provisioner have no liveness property: an operator may stop.

## 4. Proofs

TLAPS checks, for any sets and bounds that satisfy the named assumptions:

* **EvidenceProofs.** The invariant `IndInv` says that the program point determines which records
  exist and what has been verified. `ReportedIsComplete` alone is not inductive: that exactly one
  Output exists at the end needs that none exists before `pc = "output"`, and that the facades are
  readable needs that every facade is in `pending`, in `failures`, or readable while the poll
  lasts. From it follow `ReportedIsComplete`, `RecordedAtMostOnce`, `ParentFirst` and, with one
  more assumption, that runs have different trace ids, `OwnTraceVerified`. The refinement theorem
  shows that the initial states of Evidence are initial states of EvidenceContract and that each
  action is `Record`, `Publish`, `Report`, `Abandon` or a stutter.
* **SandboxProofs.** `ReportIsTrue` needs that a result exists only after the worker wrote its own,
  and that from `"write"` on the sandbox is gone or retained. `NotStoppedUnderWorker` is arithmetic
  on the code's numbers: 120 < 300 for a Kiro evidence worker, 300 < 1800 for a retained run; it
  leaves out the SDK run, whose `exec` timeout equals the auto-stop interval (300 s).
* **ReviewProofs.** The composition: a step of ReviewRun is a step or a stutter of SandboxRun and
  of Evidence, so both invariants carry over; the new invariant ties the worker's state to
  Evidence's program point (`"wrote"` only after `"done"`). From it follow `ReportedHasEvidence`
  and `QuietAfterTheEnd`.
* **ProvisionerProofs.** `KeysAgree` needs, while a rekey lasts, that the agents already visited
  have their current key in the Keychain (and the same of a sync and the secrets), and that a new
  apply or rekey withdraws what was completed. `NoDuplicates` needs that the names not yet visited
  and not in the inventory are not registered, which is why the renamed agent has to enter the
  inventory. `KeysMoveForward` uses that the key a command holds is the newest one.

* **ReviewGraphProofs.** For any package and diff. `GInv` says that the findings list, in order,
  exactly the matches before the loops' position, so at the end all of them; and that every
  document a rule asks for is loaded. `FindingsExact` and `DecisionExact` follow.
* **ImprovementProofs.** `TInv` (types, and what `args` hold while a command is at work) carries
  `GInv` along, so the reviews inside the loop are exact as well (`ReviewsAreExact`).
  `TracesTellTheirVersion` needs that the review at work has the rules of the version it will be
  labelled with (`OwnInv`); `FilesAgree`, how far the command has come in writing them
  (`FilesInv`); `ProposalGrounded`, that the trace the reader handed over is of the case asked for
  and its id listed under the version asked for (`ReadInv`), and that the proposal in memory and
  the approved ones cite a wrongly approved run too (`CitedTruly`), which stays true as traces are
  added (`CitesStays`). `PatchesAreApproved` uses it to know what an approved patch does
  (`PatchInv`). `MissingMeansFull` is inductive over `TInv`: a page that is not full holds every
  trace of the version, and a trace all of whose runs are of the case, with a decision, and fit
  the page of spans cannot be passed over.
* **KiroProofs.** `KInv` says that the names and the final value collected are those of the events
  scanned so far, and that the normalised names are those of the tool names checked so far, each
  once. The layout of the spans (`SpansOfRun`) is arithmetic on offsets: one common shortest run
  for all n + 4 spans because the last one is the innermost.
* **PullRequestProofs.** `PInv` adds to `KInv` what has been said by which job (`Said`), what was
  recorded (`Recorded`) and what was asked for (`Asked`: only a re-run is of an older head than a
  request before it). Until the job's own comment every comment is of an earlier job, and from the
  record on the final value is the recorded one and has passed the parser's and the worker's
  checks. The explanation of a silence (`RefusedIsExplained`) compares the three readers.

Beyond the invariants the runs check, four groups of theorems:

**What holds where a document is wrong.** A violated run shows that a sentence is false; the
theorem beside it says what the code does guarantee, for every value of the constants.

| Refuted | Proved instead |
|---|---|
| `OwnTraceVerified`, of reruns | `OwnTrace`: it holds of runs with different trace ids, which is all it assumes |
| `ExpiryReportsPartialEvidence` | `PollGivesUpLast`: a poll gives up in its last round only, with a facade that never answered; `PollOnlyNarrows`: no facade that answered is asked again |
| `EveryExitDeletes` | `LeaksExplained`: a sandbox outlives a failed run only if it is retained, its creation was applied and raised, or its deletion raised |
| `FailedMeansUnverified` | `VerdictOfTheWorker`: evidence is verified exactly when the worker wrote its result; `NoEvidenceBeforeReview`: a run whose worker never started left none |
| `AppliedAgentsHaveKeys` | `CreatedAgentsAreKeyed`: a completed apply holds the current key of each agent it created itself |

`LeaksExplained` rests on the stage of the result (`ResultStage`): the result file of a run that
is not retained is written, or fails to be, only after the deletion has succeeded.
`CreatedAgentsAreKeyed` needs that the new agents already visited have their newest key stored
(`StoredStage`), and that an agent is visited once. `VerdictOfTheWorker` and
`NoEvidenceBeforeReview` need that the two views of a worker agree at every moment (`Views`: an
idle worker is at its first program point with nothing recorded, a running one has not ended, one
that was killed did not finish); the invariant of the composition above is one of its five parts.

**Composition.** `RunImplementsSandboxRun` and `RunImplementsEvidence` say that the composition
hides nothing of its parts, so every safety theorem about them holds of the whole run;
`RunKeepsContract` that the whole run, with everything that may take its sandbox away, still
implements EvidenceContract.

**Safety halves of termination.** Liveness under fairness is out of the prover's reach, but half
of each liveness property is a fact about steps: `RunsOnlyAdvance` (every step of a worker counts
a retry or a round up, asks one facade less, or moves to a later program point; what is left of
`EveryRunEnds` is that such a chain is finite and that fairness makes the step happen), `RunsAge`
(process, worker, sandbox and timers take at most twelve steps between them: `SandboxesGone`),
`ParsingAdvances` and `JobsOnlyAdvance` (the parser's index and phases, the job's steps, and that
only a later request starts again: `LastRequestSettles`).

**Idempotence.** `ReapplyWritesNothing`: an apply that finds every planned name writes nothing at
all; `RegistrySettles`: once every name is registered, no command, however interrupted and
repeated, adds or renames an object. The first needs that a key is only asked for an object the
inventories missed (`Unknown`), the second that the legacy name and the new one do not coexist.

Of the improvement loop, `LoopCloses` and `EmptyPatchesAreUnfixable` are proved as well. Which
rules a version holds is known only as long as nobody edits them (`OnlyPatched`); from there
`LoopCloses` needs that versions carry the patch on (`VersionsAdvance`) and one assumption,
`TargetBlocks`: findings of the rule the patch is for ask for changes, as its severity in
`skills/secure-pr-review/rules.json:15` makes them. `EmptyPatchesAreUnfixable` needs none.
`RefusalsAreJustified` needs that what the scan holds is exact in both directions (`KExact`): an
absent final value means that no event has set one, or that the last one to do so had none.

`EvidenceProofs` also proves what a refused job leaves (`RefusedLeavesNothing`) and that records
hang from their parents (`ParentFirst`), `SandboxProofs` that a worker left behind never runs
outside a started sandbox (`NoStrayWorker`). The inductive invariants `IndInv` are proved of each
specification and no longer checked by runs.

Only model-checked: the liveness properties (`EveryRunEnds`, `SandboxesGone`, `LastRequestSettles`),
beyond the halves above. Every other property of a passing run is stated by a theorem. No module
uses a recursive operator.

## 5. Findings

Five runs expect a violation; each refutes a sentence of the repository's documents, quoted in
`PROJECT.json`:

1. A rerun has its predecessor's trace id, so its verification passes on the predecessor's spans.
2. The facade poll lasts seven seconds, not two minutes, and its expiry raises: the ids of what was
   recorded are lost instead of reported as partial verification.
3. Not every exit path deletes the sandbox. What remains is Daytona's auto-stop, ephemeral flag
   and ttl (`SandboxesGone`).
4. A failed Kiro step may follow a verified review, so the workflow's comment can be wrong.
5. `registry-apply` reuses an existing agent and completes although nobody holds its key.

Divergences met while modelling and not made runs, for the models take the code's side:

* "The reviewer pulls the exact Registry skill version before creating the sandbox"
  (`docs/trace-improvement-loop.md:10`). `run-sdk` gives `--references` a default, so that branch
  of `_run_sdk` is always taken (`P/cli.py:248`): the rules are the local `rules.json`, and
  `--skill-reference`, although required, is not read. Only `SKILL.md` is compared with the
  published digest (`P/cli.py:536`). The plain `run` command takes the other branch, sends no
  `agent_evidence`, and its worker refuses the job (`P/worker.py:109`).
* `analyze_trace_gap` never answers `false_positive`, which
  `skills/trace-driven-skill-improvement/SKILL.md:31` lists.
* The acceptance prompt lets Kiro omit a finding's line
  (`scripts/run_engineering_acceptance.py:84`), which `_validate_result` refuses
  (`P/kiro_runtime.py:206-208`).
* A tool call whose name is not a string is passed over by both checks of the allow-list
  (`P/kiro_runtime.py:108`); `apply_approved_proposal` does not look at `before_pattern`.

## 6. Not modelled, and the plan

Not modelled, and why:

* Formatting, escaping and wording (comments, reports, summaries): nothing in the system reads
  them back.
* Contents of diffs, skills and knowledge beyond what a decision depends on; regular expressions,
  of which only the set of texts they are found in matters.
* Image construction, vendored binaries and wheels, the worker archive (`P/worker_bundle.py`), the
  vendor SDK and its exporter.
* `scripts/run_engineering_acceptance.py`, `backfill_engineering_demo.py` and
  `bootstrap_kiro_device_sandbox.py` beyond the retained sandbox: they are run by hand against
  the live Registry and their steps are those of the modelled commands. `fetch_kiro.py` replaces
  files no other process reads at that time.
* The order service, which is the example under review.
* Inventories that the Registry cuts into pages: `apply` reads one list of each kind
  (`P/provisioner.py:247-266`) and the model takes it to be complete; past a page's limit
  `NoDuplicates` would not follow.
* A second machine's keys: Provisioner starts with identities of one generation at most, so a
  Keychain that holds an older key than another operator's machine has synchronised is not among
  its states, and `KeysMoveForward` says nothing of it.
* Two operators at once: outside the runbook. Several pull requests: they have separate
  concurrency groups and share nothing but the Registry.

Next: a theorem that ReviewRun's worker records what PullRequest records (the two meet in
`WorkerAccepts` and in the fields of a job today), by an abstract Kiro step that both implement,
which needs PullRequest to let a worker left behind record after its job was stopped; the
acceptance scripts' poll of `_run_kiro`.
