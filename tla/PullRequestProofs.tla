------------------------- MODULE PullRequestProofs --------------------------
(***************************************************************************)
(* Proofs about PullRequest for any number of pushes and requests, every   *)
(* stream and every set of findings.  The invariant ties the step of the   *)
(* job to the evidence it recorded and to the comments that exist, and the *)
(* heads of the requests to their order.                                   *)
(***************************************************************************)
EXTENDS PullRequest, KiroProofs

USE HeadsAssumption, RepositoryAssumption, DurationsAssumption, ExpectedAssumption

(* A result the Kiro step has let through. *)
Verified(r) == r \in Results /\ ValidResult(r) /\ Summarizable(r) /\ SeqRange(r.skills) = Expected

Types ==
    /\ KInv
    /\ head \in 0..MaxHeads /\ requests \in Seq(Request)
    /\ job \in 0..Len(requests) /\ Len(requests) <= MaxRequests
    /\ step \in Ended \cup JobSteps
    /\ step # "none" => job # 0
    /\ duration \in Durations \cup {None} /\ named \in BOOLEAN
    /\ recorded \in [Jobs -> Results \cup {None}]
    /\ comments \in Seq(Comment)

(* A request that is no re-run is for a head as new as any before it.       *)
Asked ==
    /\ \A k \in DOMAIN requests : requests[k].head <= head
    /\ \A k, m \in DOMAIN requests :
          k < m => requests[k].head <= requests[m].head \/ requests[m].rerun

Silent == {"guard", "prepare", "kiro", "result", "render", "post", "failclosed"}

Said ==
    /\ \A i \in DOMAIN comments : comments[i].job <= job
    /\ step \in Silent => Unsaid(job)
    /\ \A i, j \in DOMAIN comments : i < j => comments[i].job < comments[j].job

Recorded ==
    /\ \A j \in Jobs : j > job => recorded[j] = None
    /\ step \in {"guard", "prepare", "kiro"} => recorded[job] = None
    /\ step \in {"result", "render", "post"} =>
          /\ phase = "accepted" /\ final # None /\ recorded[job] = final
          /\ Verified(final)
    /\ duration # None => phase = "accepted"
    /\ step = "failed" /\ Unsaid(job) /\ recorded[job] # None => SilentReason(recorded[job])
    /\ \A i \in DOMAIN comments : comments[i].kind = "review" =>
          /\ comments[i].result # None
          /\ comments[i].result = recorded[comments[i].job]
          /\ SeqRange(comments[i].result.skills) = Expected

PInv == Types /\ Asked /\ Said /\ Recorded

LEMMA InitPInv == Init => PInv
<1> SUFFICES ASSUME Init PROVE PInv
  OBVIOUS
<1>1. /\ comments = <<>> /\ requests = <<>> /\ head = 0 /\ job = 0 /\ step = "none"
      /\ duration = None /\ named = TRUE /\ recorded = [j \in Jobs |-> None] /\ KInv
  BY InitKInv DEF Init
<1>2. /\ comments \in Seq(Comment) /\ DOMAIN comments = {}
      /\ requests \in Seq(Request) /\ DOMAIN requests = {} /\ Len(requests) = 0
  BY <1>1
<1> QED
  BY <1>1, <1>2 DEF PInv, Types, Asked, Said, Recorded, Ended, JobSteps, Silent, Unsaid

(* The stream is parsed by the Kiro step, or forgotten, or left alone. *)
LEMMA StreamKept == KInv /\ [Next]_vars => KInv'
<1> SUFFICES ASSUME KInv, [Next]_vars PROVE KInv'
  OBVIOUS
<1>1. CASE UNCHANGED svars
  BY <1>1, ParserKeepsInv
<1>2. CASE Parse
  BY <1>2, ParserKeepsInv DEF Parse
<1>3. CASE ReviewEnds
  BY <1>3, ParserKeepsInv DEF ReviewEnds, OpenStream, Opens
<1>4. CASE StartJob \/ KiroFails \/ Stop
  BY <1>4, ParserKeepsInv DEF StartJob, KiroFails, Stop, ForgetStream, Opens
<1>5. CASE Push \/ Reopen \/ Rerun \/ Guard \/ Prepare \/ (\E d \in Durations : Record(d)) \/ WriteResult \/ Render
           \/ Post \/ GhReturns \/ GhFails \/ PostFailure
  BY <1>1, <1>5 DEF Push, Reopen, Rerun, Ask, Guard, Prepare, Record, WriteResult, Render, Post, GhReturns, GhFails,
                    PostFailure, Rest
<1>6. CASE UNCHANGED vars
  BY <1>1, <1>6 DEF vars
<1> QED
  BY <1>2, <1>3, <1>4, <1>5, <1>6 DEF Next, JobStep

LEMMA CommentJobs ==
  ASSUME Types, NEW i \in DOMAIN comments
  PROVE  comments[i].job \in Jobs /\ comments[i].job \in Nat
<1>1. comments[i] \in Comment
  BY DEF Types
<1> QED
  BY <1>1 DEF Comment, Jobs

LEMMA JobNumber == ASSUME Types, job # 0 PROVE job \in Jobs /\ job \in DOMAIN requests
<1>1. Len(requests) \in Nat /\ DOMAIN requests = 1..Len(requests)
  BY DEF Types
<1> QED
  BY <1>1 DEF Types, Jobs

(* A comment is appended for a job that had none. *)
LEMMA SayKept ==
  ASSUME Types, Said, step \in Silent, NEW k \in {"review", "failed"},
         NEW r \in Results \cup {None}, Say(k, r)
  PROVE  /\ comments' \in Seq(Comment)
         /\ \A i \in DOMAIN comments' :
               \/ i \in DOMAIN comments /\ comments'[i] = comments[i]
               \/ /\ comments'[i].job = job /\ comments'[i].kind = k /\ comments'[i].result = r
         /\ \A i, j \in DOMAIN comments' : i < j => comments'[i].job < comments'[j].job
         /\ \E i \in DOMAIN comments' : comments'[i].job = job
<1> DEFINE c == [job |-> job, kind |-> k, result |-> r]
<1>1. job \in Jobs
  BY JobNumber DEF Types, Silent
<1>2. c \in Comment /\ c.job = job /\ c.kind = k /\ c.result = r
  BY <1>1 DEF Comment
<1>3. comments' = Append(comments, c) /\ comments \in Seq(Comment)
  BY DEF Say, Types
<1> HIDE DEF c
<1>4. /\ comments' \in Seq(Comment) /\ Len(comments) \in Nat
      /\ DOMAIN comments = 1..Len(comments) /\ DOMAIN comments' = 1..(Len(comments) + 1)
      /\ comments'[Len(comments) + 1] = c
      /\ \A i \in 1..Len(comments) : comments'[i] = comments[i]
  BY <1>2, <1>3
<1>5. \A i \in DOMAIN comments' : i \in 1..Len(comments) \/ i = Len(comments) + 1
  BY <1>4
<1>6. ASSUME NEW i \in DOMAIN comments', NEW j \in DOMAIN comments', i < j
      PROVE  comments'[i].job < comments'[j].job
  <2>1. i \in 1..Len(comments)
    BY <1>4, <1>6
  <2>2. CASE j \in 1..Len(comments)
    BY <1>4, <1>6, <2>1, <2>2 DEF Said
  <2>3. CASE j = Len(comments) + 1
    <3>1. comments[i].job <= job /\ comments[i].job # job
      BY <1>4, <2>1 DEF Said, Unsaid
    <3>2. comments[i].job \in Nat /\ job \in Nat
      BY <1>1, <1>4, <2>1, CommentJobs DEF Jobs
    <3> QED
      BY <1>2, <1>4, <2>1, <2>3, <3>1, <3>2
  <2> QED
    BY <1>5, <2>2, <2>3
<1> QED
  BY <1>2, <1>4, <1>5, <1>6

(* A verified result that cannot be rendered has one of the listed reasons. *)
LEMMA RefusedIsExplained ==
  ASSUME NEW r, Verified(r), ~(DemoRepository /\ named /\ Renderable(r))
  PROVE  SilentReason(r)
<1>1. r \in Results /\ ValidResult(r)
  BY DEF Verified
<1>2. r.findings \in Seq(Findings) /\ r.skills \in Seq(Skills)
  BY <1>1 DEF Results
<1>3. Len(r.findings) \in Nat /\ Len(r.skills) \in Nat /\ MAX_FINDINGS \in Nat /\ MAX_SKILLS \in Nat
  BY <1>2 DEF MAX_FINDINGS, MAX_SKILLS
<1>4. ASSUME NEW i \in DOMAIN r.findings, r.findings[i].rule_id = "plain",
             r.findings[i].message \notin {"empty", "unencodable"}
      PROVE  RenderableFinding(r.findings[i])
  <2> DEFINE f == r.findings[i]
  <2>1. f \in Findings
    BY <1>2
  <2>2. ValidFinding(f)
    BY <1>1 DEF ValidResult
  <2>3. f.rule_id = "plain" /\ f.message \notin {"empty", "unencodable"}
    BY <1>4
  <2> HIDE DEF f
  <2>4. f.message \in Texts
    BY <2>1 DEF Findings
  <2>5. RenderableFinding(f)
    BY <2>2, <2>3, <2>4 DEF ValidFinding, RenderableFinding, Texts
  <2> QED
    BY <2>5 DEF f
<1>5. r.decision \in Decisions /\ \A i \in DOMAIN r.skills : ValidSkill(r.skills[i])
  BY <1>1 DEF ValidResult
<1> QED
  BY <1>3, <1>4, <1>5 DEF Renderable, SilentReason

-----------------------------------------------------------------------------
LEMMA RequestHeads ==
  ASSUME PInv, NEW k \in DOMAIN requests
  PROVE  requests[k].head \in Heads /\ requests[k].head \in Nat /\ requests[k].head <= head
<1>1. requests[k] \in Request
  BY DEF PInv, Types
<1>2. requests[k].head \in Heads
  BY <1>1 DEF Request
<1> QED
  BY <1>2 DEF Heads, PInv, Asked

(* A request is appended, for a head not older than any before it unless it *)
(* is a re-run; the job and the comments stand.                             *)
LEMMA AskInv ==
  ASSUME PInv, KInv', NEW h \in Heads, NEW again \in BOOLEAN, Ask(h, again),
         head' \in 0..MaxHeads, head <= head', h <= head', again \/ h = head'
  PROVE  PInv'
<1> DEFINE r == [head |-> h, rerun |-> again]
<1>1. /\ requests' = Append(requests, r) /\ Len(requests) < MaxRequests
      /\ UNCHANGED <<svars, job, step, duration, named, recorded, comments>>
  BY DEF Ask
<1>2. r \in Request /\ r.head = h /\ r.rerun = again
  BY DEF Request
<1>3. requests \in Seq(Request)
  BY DEF PInv, Types
<1> HIDE DEF r
<1>4. /\ requests' \in Seq(Request) /\ Len(requests) \in Nat
      /\ Len(requests') = Len(requests) + 1
      /\ DOMAIN requests = 1..Len(requests) /\ DOMAIN requests' = 1..(Len(requests) + 1)
      /\ requests'[Len(requests) + 1] = r
      /\ \A k \in 1..Len(requests) : requests'[k] = requests[k]
  BY <1>1, <1>2, <1>3
<1>5. Types'
  BY <1>1, <1>4 DEF PInv, Types
<1>6. \A k \in DOMAIN requests : /\ requests[k].head \in Nat
                                /\ requests[k].head <= head
  BY RequestHeads
<1>7. head \in Nat /\ head' \in Nat /\ h \in Nat
  BY DEF PInv, Types, Heads
<1>8. \A k \in DOMAIN requests : requests[k].head <= head'
  BY <1>6, <1>7
<1>9. \A k \in DOMAIN requests' : requests'[k].head <= head'
  BY <1>2, <1>4, <1>8
<1>10. ASSUME NEW k \in DOMAIN requests', NEW m \in DOMAIN requests', k < m
       PROVE  requests'[k].head <= requests'[m].head \/ requests'[m].rerun
  <2>1. k \in 1..Len(requests)
    BY <1>4, <1>10
  <2>2. CASE m \in 1..Len(requests)
    BY <1>4, <1>10, <2>1, <2>2 DEF PInv, Asked
  <2>3. CASE m = Len(requests) + 1
    BY <1>2, <1>4, <1>8, <2>1, <2>3
  <2> QED
    BY <1>4, <2>2, <2>3
<1>11. Asked'
  BY <1>9, <1>10 DEF Asked
<1>12. Said' /\ Recorded'
  BY <1>1 DEF PInv, Said, Recorded, Unsaid, SilentReason, svars
<1> QED
  BY <1>5, <1>11, <1>12 DEF PInv

LEMMA RequestInv == PInv /\ KInv' /\ (Push \/ Reopen \/ Rerun) => PInv'
<1> SUFFICES ASSUME PInv, KInv', Push \/ Reopen \/ Rerun PROVE PInv'
  OBVIOUS
<1>1. head \in 0..MaxHeads /\ head \in Nat
  BY DEF PInv, Types
<1>2. CASE Push
  <2>1. head < MaxHeads /\ head' = head + 1 /\ Ask(head', FALSE)
    BY <1>2 DEF Push
  <2>2. head' \in Heads /\ head' \in 0..MaxHeads /\ head <= head' /\ head' <= head'
    BY <1>1, <2>1 DEF Heads
  <2> QED
    BY <2>1, <2>2, AskInv
<1>3. CASE Reopen
  <2>1. head' = head /\ head > 0 /\ Ask(head, FALSE)
    BY <1>3 DEF Reopen
  <2>2. head \in Heads /\ head <= head
    BY <1>1, <2>1 DEF Heads
  <2> QED
    BY <1>1, <2>1, <2>2, AskInv
<1>4. CASE Rerun
  <2>1. PICK k \in DOMAIN requests : Ask(requests[k].head, TRUE)
    BY <1>4 DEF Rerun
  <2>2. requests[k].head \in Heads /\ requests[k].head <= head
    BY RequestHeads
  <2>3. head' = head /\ head <= head
    BY <1>1, <1>4 DEF Rerun
  <2> QED
    BY <1>1, <2>1, <2>2, <2>3, AskInv
<1> QED
  BY <1>2, <1>3, <1>4

LEMMA StartJobInv == PInv /\ KInv' /\ StartJob => PInv'
<1> SUFFICES ASSUME PInv, KInv', StartJob PROVE PInv'
  OBVIOUS
<1>1. /\ job' = Len(requests) /\ job < Len(requests) /\ step' = "guard"
      /\ duration' = None /\ named' = TRUE
      /\ UNCHANGED <<head, requests, recorded, comments>>
  BY DEF StartJob, Goto, ForgetStream, asks
<1>2. /\ Len(requests) \in Nat /\ Len(requests) <= MaxRequests /\ job \in Nat
      /\ job' \in 0..Len(requests') /\ job' \in Jobs /\ job' # 0
  BY <1>1 DEF PInv, Types, Jobs
<1>3. ASSUME NEW i \in DOMAIN comments
      PROVE  comments[i].job <= job' /\ comments[i].job # job'
  <2>1. comments[i].job \in Nat
    BY CommentJobs DEF PInv
  <2>2. comments[i].job <= job
    BY DEF PInv, Said
  <2> QED
    BY <1>1, <1>2, <2>1, <2>2
<1>4. Types'
  BY <1>1, <1>2 DEF PInv, Types, JobSteps, Ended
<1>5. Said'
  BY <1>1, <1>3 DEF PInv, Said, Unsaid
<1>6. \A j \in Jobs : j > job' => recorded[j] = None
  BY <1>1, <1>2 DEF PInv, Recorded, Jobs
<1>7. recorded[job'] = None
  BY <1>1, <1>2 DEF PInv, Recorded
<1>8. Recorded'
  BY <1>1, <1>6, <1>7 DEF PInv, Recorded
<1> QED
  BY <1>1, <1>4, <1>5, <1>8 DEF PInv, Asked

(* The steps that move on, and leave the stream and everything else.        *)
LEMMA MoveInv ==
  PInv /\ KInv' /\ (Guard \/ Prepare \/ WriteResult \/ GhReturns \/ GhFails \/ Render) => PInv'
<1> SUFFICES ASSUME PInv, KInv',
                    Guard \/ Prepare \/ WriteResult \/ GhReturns \/ GhFails \/ Render
             PROVE  PInv'
  OBVIOUS
<1>1. UNCHANGED <<svars, head, requests, job, duration, named, recorded, comments>>
  BY DEF Guard, Prepare, WriteResult, GhReturns, GhFails, Render, Rest, asks
<1>2. \/ step = "guard" /\ step' \in {"prepare", "failed"}
      \/ step = "prepare" /\ step' \in {"kiro", "failed"}
      \/ step = "result" /\ step' = "render"
      \/ step = "posted" /\ step' \in {"done", "unposted"}
      \/ step \in {"post", "failclosed"} /\ step' = "unposted"
      \/ step = "render" /\ step' = "post"
      \/ /\ step = "render" /\ step' = "failed"
         /\ ~(DemoRepository /\ named /\ Renderable(final))
  BY DEF Guard, Prepare, WriteResult, GhReturns, GhFails, Render, Goto
<1>3. Types'
  BY <1>1, <1>2 DEF PInv, Types, Ended, JobSteps
<1>4. Said'
  BY <1>1, <1>2 DEF PInv, Said, Silent, Unsaid
<1>5. step = "render" /\ ~(DemoRepository /\ named /\ Renderable(final)) =>
        SilentReason(recorded[job])
  BY RefusedIsExplained DEF PInv, Recorded
<1>6. Recorded'
  <2>1. UNCHANGED <<phase, final>>
    BY <1>1 DEF svars
  <2>2. step' \in {"guard", "prepare", "kiro"} => recorded[job] = None
    BY <1>2 DEF PInv, Recorded
  <2>3. step' \in {"result", "render", "post"} => step \in {"result", "render", "post"}
    BY <1>2
  <2>4. step' = "failed" /\ Unsaid(job) /\ recorded[job] # None => SilentReason(recorded[job])
    BY <1>2, <1>5 DEF PInv, Recorded
  <2>5. SilentReason(recorded[job])' <=> SilentReason(recorded[job])
    BY <1>1 DEF SilentReason
  <2> QED
    BY <1>1, <2>1, <2>2, <2>3, <2>4, <2>5 DEF PInv, Recorded, Unsaid
<1> QED
  BY <1>1, <1>3, <1>4, <1>6 DEF PInv, Asked

(* The Kiro step, and the job's other ends. *)
LEMMA KiroInv == PInv /\ KInv' /\ (KiroFails \/ Stop \/ ReviewEnds \/ Parse) => PInv'
<1> SUFFICES ASSUME PInv, KInv', KiroFails \/ Stop \/ ReviewEnds \/ Parse PROVE PInv'
  OBVIOUS
<1>1. CASE KiroFails \/ Stop
  <2>1. /\ duration' = None /\ named' = TRUE /\ UNCHANGED <<head, requests, job, recorded, comments>>
        /\ \/ step' = "stopped" /\ step \in JobSteps
           \/ step' = "failclosed" /\ step \in {"kiro", "result"}
    BY <1>1 DEF KiroFails, Stop, Goto, ForgetStream, asks
  <2> QED
    BY <2>1 DEF PInv, Types, Asked, Said, Recorded, Silent, Ended, JobSteps, Unsaid
<1>2. CASE ReviewEnds \/ Parse
  <2>1. step = "kiro" /\ UNCHANGED <<head, requests, job, step, duration, named, recorded, comments>>
    BY <1>2 DEF ReviewEnds, Parse, pvars
  <2>2. phase # "accepted"
    BY <1>2 DEF ReviewEnds, Parse, ParseStep, ReadLine, BadLine, EndOfStream, ScanEvent, EndScan,
                CheckResult, CheckName, Accept
  <2>3. duration = None
    BY <2>2 DEF PInv, Recorded
  <2> QED
    BY <2>1, <2>3 DEF PInv, Types, Asked, Said, Recorded, Unsaid, SilentReason
<1> QED
  BY <1>1, <1>2

LEMMA RecordInv == ASSUME PInv, KInv', NEW d \in Durations, Record(d) PROVE PInv'
<1>1. /\ step = "kiro" /\ step' = "result" /\ phase = "accepted" /\ WorkerAccepts(final)
      /\ duration' = d /\ named' \in BOOLEAN /\ recorded' = [recorded EXCEPT ![job] = final]
      /\ UNCHANGED <<svars, head, requests, job, comments>>
  BY DEF Record, Goto, asks
<1>2. job \in Jobs /\ recorded \in [Jobs -> Results \cup {None}]
  BY <1>1, JobNumber DEF PInv, Types
<1>3. final # None /\ final \in Results /\ Verified(final)
  BY <1>1 DEF PInv, Types, KInv, STypeOK, WorkerAccepts, Verified
<1>4. /\ recorded' \in [Jobs -> Results \cup {None}] /\ recorded'[job] = final
      /\ \A j \in Jobs : j # job => recorded'[j] = recorded[j]
  BY <1>1, <1>2, <1>3
<1>5. Types'
  BY <1>1, <1>4 DEF PInv, Types, Ended, JobSteps
<1>6. Said'
  BY <1>1 DEF PInv, Said, Silent, Unsaid
<1>7. \A i \in DOMAIN comments : comments[i].job \in Jobs /\ comments[i].job # job
  BY <1>1, CommentJobs DEF PInv, Said, Silent, Unsaid
<1>8. UNCHANGED <<phase, final>>
  BY <1>1 DEF svars
<1>9. \A j \in Jobs : j > job => recorded'[j] = None
  BY <1>2, <1>4 DEF PInv, Recorded, Jobs
<1>10. Recorded'
  BY <1>1, <1>3, <1>4, <1>7, <1>8, <1>9 DEF PInv, Recorded
<1> QED
  BY <1>1, <1>5, <1>6, <1>10 DEF PInv, Asked

LEMMA CommentInv == PInv /\ KInv' /\ (Post \/ PostFailure) => PInv'
<1> SUFFICES ASSUME PInv, KInv', Post \/ PostFailure PROVE PInv'
  OBVIOUS
<1>1. UNCHANGED <<svars, head, requests, job, duration, named, recorded>> /\ step \in Silent
      /\ UNCHANGED <<phase, final>> /\ job \in Jobs
  BY JobNumber DEF Post, PostFailure, svars, asks, Silent, PInv, Types
<1>2. ASSUME NEW k \in {"review", "failed"}, NEW r \in Results \cup {None}, Say(k, r),
             step' \in {"posted", "failed"},
             k = "review" => r # None /\ r = recorded[job] /\ SeqRange(r.skills) = Expected
      PROVE  PInv'
  <2>1. /\ comments' \in Seq(Comment)
        /\ \A i \in DOMAIN comments' :
              \/ i \in DOMAIN comments /\ comments'[i] = comments[i]
              \/ /\ comments'[i].job = job /\ comments'[i].kind = k /\ comments'[i].result = r
        /\ \A i, j \in DOMAIN comments' : i < j => comments'[i].job < comments'[j].job
        /\ \E i \in DOMAIN comments' : comments'[i].job = job
    BY <1>1, <1>2, SayKept DEF PInv
  <2>2. Types'
    <3>1. step' \in Ended \cup JobSteps /\ job # 0 /\ job \in 0..Len(requests)
      BY <1>1, <1>2 DEF Ended, JobSteps, Jobs, PInv, Types
    <3> QED
      BY <1>1, <2>1, <3>1 DEF PInv, Types
  <2>3. \A i \in DOMAIN comments' : comments'[i].job <= job
    BY <1>1, <2>1 DEF PInv, Said, Jobs
  <2>4. Said'
    BY <1>1, <1>2, <2>1, <2>3 DEF Said, Silent
  <2>5. ~Unsaid(job)'
    BY <1>1, <2>1 DEF Unsaid
  <2>6. Recorded'
    BY <1>1, <1>2, <2>1, <2>5 DEF PInv, Recorded
  <2> QED
    BY <1>1, <2>2, <2>4, <2>6 DEF PInv, Asked
<1>3. CASE Post
  <2>1. step = "post" /\ step' = "posted" /\ Say("review", final)
    BY <1>3 DEF Post, Goto
  <2>2. final \in Results /\ final # None /\ recorded[job] = final /\ SeqRange(final.skills) = Expected
    BY <2>1 DEF PInv, Recorded, Verified
  <2> QED
    BY <1>2, <2>1, <2>2
<1>4. CASE PostFailure
  <2>1. step' = "failed" /\ Say("failed", None)
    BY <1>4 DEF PostFailure, Goto
  <2> QED
    BY <1>2, <2>1
<1> QED
  BY <1>3, <1>4

LEMMA NextPInv == PInv /\ [Next]_vars => PInv'
<1> SUFFICES ASSUME PInv, [Next]_vars PROVE PInv'
  OBVIOUS
<1>1. KInv'
  BY StreamKept DEF PInv, Types
<1>2. CASE UNCHANGED vars
  BY <1>1, <1>2 DEF vars, pvars, svars, PInv, Types, Asked, Said, Recorded, Unsaid, SilentReason
<1> QED
  BY <1>1, <1>2, RequestInv, StartJobInv, MoveInv, KiroInv, RecordInv, CommentInv DEF Next, JobStep

LEMMA AlwaysPInv == Spec => []PInv
  BY InitPInv, NextPInv, PTL DEF Spec

(* Type correctness of the governed review of a pull request. *)
THEOREM PullRequestTypeCorrect == Spec => []PTypeOK
<1>1. PInv => PTypeOK
  BY DEF PInv, Types, PTypeOK, KInv
<1> QED
  BY <1>1, AlwaysPInv, PTL

(* No accepted stream has used a tool that is not allowed. *)
THEOREM AcceptedStreamsUseAllowedTools == Spec => []AcceptedUsesAllowedOnly
<1>1. PInv => AcceptedUsesAllowedOnly
  BY InvAllowed DEF PInv, Types
<1> QED
  BY <1>1, AlwaysPInv, PTL

(* The worker is handed every reported tool, once and under its own name. *)
THEOREM WorkerIsHandedTheTools == Spec => []ToolsForWorker
<1>1. PInv => ToolsForWorker
  BY InvTools DEF PInv, Types
<1> QED
  BY <1>1, AlwaysPInv, PTL

(* The accepted result is the last one of the stream. *)
THEOREM TheLastWordWins == Spec => []LastWordWins
<1>1. PInv => LastWordWins
  BY InvLastWord DEF PInv, Types
<1> QED
  BY <1>1, AlwaysPInv, PTL

(* The spans of a recorded trace nest exactly when the run is long enough. *)
THEOREM RecordedSpansNest == Spec => []SpansNest
<1>1. PInv => SpansNest
  <2> SUFFICES ASSUME PInv, duration # None
               PROVE  LET n == Len(final.skills)
                          spans == Spans(0, duration, n) IN
                      /\ Nested(spans) <=> duration >= ShortestRun(n)
                      /\ InSequence(spans)
    BY DEF SpansNest
  <2>1. duration \in Nat /\ final \in Results
    BY DEF PInv, Types, Recorded, KInv, STypeOK
  <2>2. Len(final.skills) \in Nat
    <3>1. final.skills \in Seq(Skills)
      BY <2>1 DEF Results
    <3> QED
      BY <3>1
  <2>3. duration - 0 = duration /\ 0 \in Int /\ duration \in Int
    BY <2>1
  <2> QED
    BY <2>2, <2>3, SpansOfRun
<1> QED
  BY <1>1, AlwaysPInv, PTL

(* One comment a job at most, in the order of the jobs; and none about an   *)
(* older head after that of a newer one, but by a re-run.                   *)
THEOREM CommentsAreInOrder == Spec => []CommentsInOrder
<1>1. PInv => CommentsInOrder
  <2> SUFFICES ASSUME PInv, NEW i \in DOMAIN comments, NEW j \in DOMAIN comments, i < j
               PROVE  /\ comments[i].job < comments[j].job
                      /\ \/ requests[comments[i].job].head <= requests[comments[j].job].head
                         \/ requests[comments[j].job].rerun
    BY DEF CommentsInOrder, HeadOf
  <2>1. comments[i].job < comments[j].job
    BY DEF PInv, Said
  <2>2. /\ comments[i].job \in Jobs /\ comments[i].job <= job
        /\ comments[j].job \in Jobs /\ comments[j].job <= job
    BY CommentJobs DEF PInv, Said
  <2>3. /\ Len(requests) \in Nat /\ DOMAIN requests = 1..Len(requests)
        /\ job \in 0..Len(requests)
    BY DEF PInv, Types
  <2>4. comments[i].job \in DOMAIN requests /\ comments[j].job \in DOMAIN requests
    BY <2>2, <2>3 DEF Jobs
  <2> QED
    BY <2>1, <2>4 DEF PInv, Asked
<1> QED
  BY <1>1, AlwaysPInv, PTL

(* Every review comment shows the result its job recorded evidence for. *)
THEOREM ReviewsAreEvidence == Spec => []CommentsAreEvidence
<1>1. PInv => CommentsAreEvidence
  BY DEF PInv, Recorded, CommentsAreEvidence
<1> QED
  BY <1>1, AlwaysPInv, PTL

(* A verified and recorded review is kept silent for the listed reasons     *)
(* only, whatever the stream, the returned ids and the repository.          *)
THEOREM SilenceIsExplained == Spec => []SilenceExplained
<1>1. PInv => SilenceExplained
  BY DEF PInv, Recorded, SilenceExplained
<1> QED
  BY <1>1, AlwaysPInv, PTL
-----------------------------------------------------------------------------
(* The parser inside the job refuses for good reasons only: the job forgets *)
(* a stream, and never resumes one half parsed.                             *)
LEMMA ExactKept == PInv /\ KExact /\ [Next]_vars => KExact'
<1> SUFFICES ASSUME KInv, KExact, [Next]_vars PROVE KExact'
  BY DEF PInv, Types
<1>1. UNCHANGED svars \/ Opens \/ ParseStep
  BY DEF Next, JobStep, vars, Push, Reopen, Rerun, Ask, Guard, Prepare, Record, WriteResult, Render, Post, GhReturns,
         GhFails, PostFailure, Rest, Parse, ReviewEnds, OpenStream, Opens, StartJob, KiroFails,
         Stop, ForgetStream
<1> QED
  BY <1>1, ParserKeepsExact

(* Every stream a job of the pull request refuses after reading it is       *)
(* refused for one of the three reasons, whatever the jobs before it left.  *)
THEOREM StreamsAreRefusedJustly == Spec => RefusalIsJustified
<1> DEFINE Justified == phase \in {"scan", "result", "names"} /\ phase' = "refused" =>
                          ReportsForeignTool \/ ReportsTooMany \/ ~EndsWithResult
<1>1. Init => KExact
  BY DEF Init, SInit, KExact
<1>2. PInv /\ KExact /\ [Next]_vars => [Justified]_svars
  <2> SUFFICES ASSUME PInv, KExact, [Next]_vars, ~UNCHANGED svars, phase' = "refused",
                      phase \in {"scan", "result", "names"}
               PROVE  ReportsForeignTool \/ ReportsTooMany \/ ~EndsWithResult
    OBVIOUS
  <2>1. Parse
    BY DEF Next, JobStep, vars, Push, Reopen, Rerun, Ask, Guard, Prepare, Record, WriteResult, Render, Post,
           GhReturns, GhFails, PostFailure, Rest, ReviewEnds, OpenStream, StartJob, KiroFails,
           Stop, ForgetStream
  <2> QED
    BY <2>1, RefusalStep DEF Parse, PInv, Types
<1> QED
  BY <1>1, <1>2, ExactKept, AlwaysPInv, PTL DEF Spec, RefusalIsJustified

-----------------------------------------------------------------------------
(* Why every job ends: it passes to a later step or its parser advances; a  *)
(* new job is started only when the one before it has ended, and for a      *)
(* request that is newer.                                                   *)
StepRank(s) == CASE s = "guard" -> 0  [] s = "prepare" -> 1 [] s = "kiro" -> 2
                 [] s = "result" -> 3 [] s = "render" -> 4  [] s = "post" -> 5
                 [] s = "posted" -> 6 [] s = "failclosed" -> 7 [] OTHER -> 8

NextStep == StepRank(step) < StepRank(step')
JobAdvances == NextStep \/ (step = "kiro" /\ step' = "kiro" /\ ParserAdvances)
NewJob == step \in Ended /\ job < job' /\ job' <= Len(requests)
JobStands == UNCHANGED <<job, step, svars>>

LEMMA JobStepAdvances ==
  ASSUME PInv, JobStep \/ Stop
  PROVE  job' = job /\ JobAdvances
<1>1. CASE ReviewEnds \/ Parse
  <2>1. step = "kiro" /\ step' = "kiro" /\ job' = job
    BY <1>1 DEF ReviewEnds, Parse, pvars
  <2>2. ParserAdvances
    <3>1. CASE ReviewEnds
      BY <3>1 DEF ReviewEnds, OpenStream, ParserAdvances, NextPhase, PhaseRank
    <3>2. CASE Parse
      BY <3>2, ParseAdvances DEF Parse, PInv, Types
    <3> QED
      BY <1>1, <3>1, <3>2
  <2> QED
    BY <2>1, <2>2 DEF JobAdvances
<1>2. CASE Stop
  <2>1. job' = job /\ step' = "stopped" /\ step \in JobSteps
    BY <1>2 DEF Stop, Goto
  <2> QED
    BY <2>1 DEF JobAdvances, NextStep, StepRank, JobSteps
<1>3. CASE \/ Guard \/ Prepare \/ KiroFails \/ (\E d \in Durations : Record(d)) \/ WriteResult
           \/ Render \/ Post \/ GhReturns \/ GhFails \/ PostFailure
  <2>1. job' = job
    BY <1>3 DEF Guard, Prepare, KiroFails, Record, WriteResult, Render, Post, GhReturns, GhFails,
                PostFailure, Rest
  <2>2. \/ step = "guard" /\ step' \in {"prepare", "failed"}
        \/ step = "prepare" /\ step' \in {"kiro", "failed"}
        \/ step = "kiro" /\ step' \in {"result", "failclosed"}
        \/ step = "result" /\ step' \in {"render", "failclosed"}
        \/ step = "render" /\ step' \in {"post", "failed"}
        \/ step = "post" /\ step' \in {"posted", "unposted"}
        \/ step = "posted" /\ step' \in {"done", "unposted"}
        \/ step = "failclosed" /\ step' \in {"failed", "unposted"}
    BY <1>3 DEF Guard, Prepare, KiroFails, Record, WriteResult, Render, Post, GhReturns, GhFails,
                PostFailure, Goto
  <2> QED
    BY <2>1, <2>2 DEF JobAdvances, NextStep, StepRank
<1> QED
  BY <1>1, <1>2, <1>3 DEF JobStep

(* The safety half of LastRequestSettles: a job only goes forward, no       *)
(* request disturbs it, and jobs are started for ever newer requests.       *)
THEOREM JobsOnlyAdvance ==
  Spec => [][/\ NewJob \/ (job' = job /\ JobAdvances) \/ JobStands
             /\ JobStep \/ Stop => JobAdvances]_vars
<1>1. PInv /\ [Next]_vars =>
        [/\ NewJob \/ (job' = job /\ JobAdvances) \/ JobStands
         /\ JobStep \/ Stop => JobAdvances]_vars
  <2> SUFFICES ASSUME PInv, Next
               PROVE  /\ NewJob \/ (job' = job /\ JobAdvances) \/ JobStands
                      /\ JobStep \/ Stop => JobAdvances
    OBVIOUS
  <2>1. CASE Push \/ Reopen \/ Rerun
    BY <2>1, JobStepAdvances DEF Push, Reopen, Rerun, Ask, JobStands
  <2>2. CASE StartJob
    <3>1. step \in Ended /\ job < Len(requests) /\ job' = Len(requests)
      BY <2>2 DEF StartJob
    <3>2. Len(requests) <= Len(requests)
      BY DEF PInv, Types
    <3> QED
      BY <3>1, <3>2, JobStepAdvances DEF NewJob
  <2> QED
    BY <2>1, <2>2, JobStepAdvances DEF Next
<1> QED
  BY <1>1, AlwaysPInv, PTL DEF Spec
=============================================================================
