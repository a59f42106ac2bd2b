---------------------------- MODULE PullRequest -----------------------------
(***************************************************************************)
(* The governed review of one pull request (governed-pr-review.yml): a     *)
(* push, a pull request reopened or marked ready, and a re-run all ask for *)
(* a job; the concurrency group runs one at a time and stops it for the    *)
(* next.  The Kiro step of a job parses the reviewer's stream (KiroStream),*)
(* has its worker check the result again and record it as evidence with    *)
(* the spans of KiroTrace; later steps render and post a comment.  The     *)
(* runner, GitHub and gh are external.                                     *)
(***************************************************************************)
EXTENDS KiroStream, KiroTrace

CONSTANTS MaxHeads,        \* bound: pushes to the pull request
          MaxRequests,     \* bound: jobs asked for
          DemoRepository,  \* whether this is the repository pr_comment.py knows
          Expected,        \* the verified skills of the job, as the reviewer reports them
          Durations        \* lengths a traced run may have

ASSUME HeadsAssumption == MaxHeads \in Nat /\ MaxRequests \in Nat
ASSUME RepositoryAssumption == DemoRepository \in BOOLEAN
ASSUME DurationsAssumption == Durations \subseteq Nat
ASSUME ExpectedAssumption == Expected \subseteq Skills

VARIABLES head,       \* pushes so far; heads are numbered
          requests,   \* for a job, in the order they joined the concurrency group
          job,        \* the request the latest job serves
          step,       \* the step this job is at
          duration,   \* of the traced run, None before
          named,      \* whether the ids in the result are what IDENTIFIER expects
          recorded,   \* request -> the result its job recorded evidence for
          comments    \* on the pull request, in the order they appeared

pvars == <<head, requests, job, step, duration, named, recorded, comments>>
vars == <<svars, pvars>>
asks == <<head, requests>>

Heads == 1..MaxHeads
Jobs == 1..MaxRequests
Ended == {"none", "done", "failed", "unposted", "stopped"}
JobSteps == {"guard", "prepare", "kiro", "result", "render", "post", "posted", "failclosed"}

Init == /\ SInit
        /\ head = 0 /\ requests = <<>> /\ job = 0 /\ step = "none"
        /\ duration = None /\ named = TRUE
        /\ recorded = [j \in Jobs |-> None]
        /\ comments = <<>>

(* A request is for the head of its event; a re-run has the event, and so   *)
(* the head, of the run it repeats.                                         *)
Ask(h, again) ==
    /\ Len(requests) < MaxRequests
    /\ requests' = Append(requests, [head |-> h, rerun |-> again])
    /\ UNCHANGED <<svars, job, step, duration, named, recorded, comments>>

(* opened and synchronize.                                                  *)
Push == /\ head < MaxHeads
        /\ head' = head + 1
        /\ Ask(head', FALSE)

(* reopened and ready_for_review: the head is the one it was.               *)
Reopen == head > 0 /\ Ask(head, FALSE) /\ UNCHANGED head

(* GitHub runs a job again that has ended, or that never started because a  *)
(* newer request took its place in the group.                               *)
Over(j) == IF j = job THEN step \in Ended ELSE j < Len(requests)
Rerun == /\ \E j \in DOMAIN requests : Over(j) /\ Ask(requests[j].head, TRUE)
         /\ UNCHANGED head

Goto(s) == step' = s

(* A process or a runner that is gone takes its stream with it.             *)
ForgetStream == phase' = "idle" /\ Fresh /\ duration' = None /\ named' = TRUE

(* A job starts when the group is free; of the requests that waited only    *)
(* the newest gets one.                                                     *)
StartJobAfterSuccess ==   \* mutant: a job waits until the one before it has succeeded
    /\ step \in {"none", "done"} /\ job < Len(requests)
    /\ job' = Len(requests) /\ Goto("guard")
    /\ ForgetStream
    /\ UNCHANGED <<asks, recorded, comments>>
StartJob ==
    /\ step \in Ended /\ job < Len(requests)
    /\ job' = Len(requests) /\ Goto("guard")
    /\ ForgetStream
    /\ UNCHANGED <<asks, recorded, comments>>

Rest == UNCHANGED <<svars, asks, job, duration, named, recorded, comments>>

(* The repository guard, then checkout, tests, diff and binaries.  A        *)
(* failure before the Kiro step gets no comment.                            *)
Guard == step = "guard" /\ (Goto("prepare") \/ Goto("failed")) /\ Rest
Prepare == step = "prepare" /\ (Goto("kiro") \/ Goto("failed")) /\ Rest

-----------------------------------------------------------------------------
(* run-kiro.  Whatever raises in it, before or after the evidence is        *)
(* recorded, makes the step fail (SandboxRun has the details).              *)
KiroFails == /\ step \in {"kiro", "result"}
             /\ Goto("failclosed")
             /\ ForgetStream
             /\ UNCHANGED <<asks, job, recorded, comments>>

ReviewEnds == step = "kiro" /\ phase = "idle" /\ OpenStream /\ UNCHANGED pvars

Parse == step = "kiro" /\ ParseStep /\ UNCHANGED pvars

(* run_kiro_trace_job: the tools and the skills are compared again, and the *)
(* findings are summarised, before anything is submitted.  The summary asks *)
(* of a rule id and a message only that they are strings.                   *)
Summarizable(r) ==
    \A i \in DOMAIN r.findings : "absent" \notin {r.findings[i].rule_id, r.findings[i].message}
WorkerAccepts(r) ==
    /\ SeqRange(normalized) \subseteq WORKER_TOOLS
    /\ SeqRange(r.skills) = Expected
    /\ Summarizable(r)

(* The run's times must be in order; then the trace and the evidence are    *)
(* recorded (Evidence has the details and the failures).  The result gets   *)
(* the ids that Registry and Daytona returned, of whatever form they are.   *)
Record(d) ==
    /\ step = "kiro" /\ phase = "accepted"
    /\ WorkerAccepts(final)
    /\ d > 0
    /\ duration' = d /\ named' \in BOOLEAN
    /\ recorded' = [recorded EXCEPT ![job] = final]
    /\ Goto("result")
    /\ UNCHANGED <<svars, asks, job, comments>>

WriteResultEarly ==   \* mutant: the result file is written when the stream is accepted
    /\ step \in {"kiro", "result"} /\ phase = "accepted"
    /\ Goto("render")
    /\ Rest
WriteResult == step = "result" /\ Goto("render") /\ Rest

(* pr_comment.main and render_pr_comment: what they do not accept ends the  *)
(* job with nothing said, for the Kiro step has succeeded.                  *)
MAX_FINDINGS == 50
MAX_SKILLS == 20
RenderableFinding(f) == /\ f.rule_id = "plain"
                        /\ f.severity \in Severities
                        /\ f.line >= 1
                        /\ f.message \in {"odd", "plain"}
Renderable(r) ==
    /\ ~r.large
    /\ r.decision \in Decisions
    /\ Len(r.findings) <= MAX_FINDINGS
    /\ Len(r.skills) <= MAX_SKILLS
    /\ \A i \in DOMAIN r.skills : ValidSkill(r.skills[i])
    /\ \A i \in DOMAIN r.findings : RenderableFinding(r.findings[i])

(* The URL of the run must be one of the demo repository's.                 *)
Render == /\ step = "render"
          /\ Goto(IF DemoRepository /\ named /\ Renderable(final) THEN "post" ELSE "failed")
          /\ Rest

(* gh pr comment: the comment appears, and gh may fail all the same.        *)
Say(kind, result) ==
    comments' = Append(comments, [job |-> job, kind |-> kind, result |-> result])

PostAgain ==   \* mutant: a failed gh is called again
    /\ step \in {"post", "posted"}
    /\ Goto("posted") /\ Say("review", final)
    /\ UNCHANGED <<svars, asks, job, duration, named, recorded>>
Post == /\ step = "post"
        /\ Goto("posted") /\ Say("review", final)
        /\ UNCHANGED <<svars, asks, job, duration, named, recorded>>
GhReturns == step = "posted" /\ (Goto("done") \/ Goto("unposted")) /\ Rest
GhFails == step \in {"post", "failclosed"} /\ Goto("unposted") /\ Rest

PostFailure == /\ step = "failclosed"
               /\ Goto("failed") /\ Say("failed", None)
               /\ UNCHANGED <<svars, asks, job, duration, named, recorded>>

(* A newer request or the job's time limit stops it between any two steps;  *)
(* no step runs after that, the fail-closed one included.                   *)
Stop == /\ step \in JobSteps
        /\ Goto("stopped")
        /\ ForgetStream
        /\ UNCHANGED <<asks, job, recorded, comments>>

JobStep == \/ Guard \/ Prepare \/ KiroFails \/ ReviewEnds \/ Parse
           \/ \E d \in Durations : Record(d)
           \/ WriteResult \/ Render \/ Post \/ GhReturns \/ GhFails \/ PostFailure

Next == Push \/ Reopen \/ Rerun \/ StartJob \/ JobStep \/ Stop

(* The runner takes the next step of a job, or its time limit stops it, and *)
(* GitHub starts the job of a waiting request.  Nobody has to ask for one.  *)
Spec == /\ Init /\ [][Next]_vars
        /\ WF_vars(JobStep) /\ WF_vars(StartJob)
-----------------------------------------------------------------------------
Request == [head: Heads, rerun: BOOLEAN]
Comment == [job: Jobs, kind: {"review", "failed"}, result: Results \cup {None}]
PTypeOK == /\ STypeOK
           /\ head \in 0..MaxHeads /\ requests \in Seq(Request)
           /\ job \in 0..Len(requests) /\ Len(requests) <= MaxRequests
           /\ step \in Ended \cup JobSteps
           /\ duration \in Durations \cup {None} /\ named \in BOOLEAN
           /\ recorded \in [Jobs -> Results \cup {None}]
           /\ comments \in Seq(Comment)

(* The spans of a recorded trace lie inside one another exactly when the    *)
(* run was not shorter than ShortestRun, and are in the order of their      *)
(* sequence numbers whatever its length.                                    *)
SpansNest ==
    duration # None =>
        LET n == Len(final.skills)
            spans == Spans(0, duration, n) IN
        /\ Nested(spans) <=> duration >= ShortestRun(n)
        /\ InSequence(spans)

(* One job makes at most one comment, and comments appear in the order in   *)
(* which their jobs were asked for.  So the last word on a pull request is  *)
(* about its newest commented head, unless somebody re-ran an older run:    *)
(* only the comment of a re-run ever follows that of a newer head.          *)
HeadOf(c) == requests[c.job].head
CommentsInOrder ==
    \A i, j \in DOMAIN comments : i < j =>
        /\ comments[i].job < comments[j].job
        /\ HeadOf(comments[i]) <= HeadOf(comments[j]) \/ requests[comments[j].job].rerun

(* A review comment shows the result its own job recorded evidence for,     *)
(* with the skills the job had verified.                                    *)
CommentsAreEvidence ==
    \A i \in DOMAIN comments : comments[i].kind = "review" =>
        /\ comments[i].result # None
        /\ comments[i].result = recorded[comments[i].job]
        /\ SeqRange(comments[i].result.skills) = Expected

(* Why a job may have verified a review, recorded it, and then failed       *)
(* without a word on the pull request: the repository is not the one the    *)
(* comment knows, an id Registry or Daytona returned is no identifier, the  *)
(* result file is too large, there are more than fifty findings or twenty   *)
(* skills, a rule id is no identifier (the empty one included), a message   *)
(* is empty or cannot be encoded.  Three readers check a result, and this   *)
(* is the gap between the second and the third; every other fault of a      *)
(* result is found while the job can still say that it failed closed.       *)
Unsaid(j) == \A i \in DOMAIN comments : comments[i].job # j
SilentReason(r) ==
    \/ ~DemoRepository \/ ~named \/ r.large
    \/ Len(r.findings) > MAX_FINDINGS
    \/ Len(r.skills) > MAX_SKILLS
    \/ \E i \in DOMAIN r.findings :
          \/ r.findings[i].rule_id # "plain"
          \/ r.findings[i].message \in {"empty", "unencodable"}
SilenceExplained ==
    step = "failed" /\ Unsaid(job) /\ recorded[job] # None => SilentReason(recorded[job])

(* The job of the last request starts and ends: no push is forgotten behind *)
(* a running job, and no job runs for ever.                                 *)
LastRequestSettles == <>[](job = Len(requests) /\ step \in Ended)
=============================================================================
