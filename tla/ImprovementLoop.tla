-------------------------- MODULE ImprovementLoop ---------------------------
(***************************************************************************)
(* The trace-driven improvement of the review rules: run-sdk reviews leave *)
(* traces of evaluation cases at the skill's facade, the improver looks    *)
(* one up and compares it with what the case expects, a human approves the *)
(* patch it proposes, the patch is applied to the local rules, and they    *)
(* are published as the next version (cli.py, trace_reader.py,             *)
(* trace_analysis.py, improver.py).  One operator runs one command at a    *)
(* time; others edit, apply and publish meanwhile.  The reviews are those  *)
(* of ReviewGraph.                                                         *)
(***************************************************************************)
EXTENDS ReviewGraph, FiniteSets

CONSTANTS Cases, CaseDiff, Expected,      \* the evaluation manifest
          FirstRules,                     \* rules.json as published in version 1
          EditedRules,                    \* what a developer may make of it
          SelectTexts, DotFormatTexts,    \* texts that hold SELECT, that hold .format
          SQL_FORMAT_PATTERN,             \* texts the proposed pattern is found in
          PageLimit,                      \* limit=50 of the trace list
          SpanLimit,                      \* runs of one trace that limit=100 of its spans holds
          MaxTraces, MaxVersions, MaxAnalyses, MaxEdits,   \* bounds of the model
          None

ASSUME CasesAssumption == /\ CaseDiff \in [Cases -> Seq(Line)]
                          /\ Expected \in [Cases -> Decisions]
ASSUME RulesAssumption == FirstRules \in Seq(Rule) /\ EditedRules \subseteq Seq(Rule)
ASSUME PatternAssumption == SQL_FORMAT_PATTERN \subseteq LineTexts
ASSUME PageAssumption == PageLimit \in Nat \ {0}
ASSUME SpanAssumption == SpanLimit \in Nat \ {0}
ASSUME NoneAssumption == None \notin Cases \cup Decisions

VARIABLES working,       \* the local rules.json
          versions,      \* the published rules, by version ordinal
          published,     \* the version registry/skill-references.json names
          traces,        \* root spans of the skill's traces, as they were recorded
          cmd, args,     \* the command at work, what it was given and has read
          proposal,      \* in the memory of the improver
          json, md, run_json,   \* proposal.json, proposal.md, run.json
          approved,      \* the proposals a human approved
          analyses, edits, last   \* history: counters, how the last analysis ended

rules_vars == <<working, versions, published, approved, edits>>
files == <<json, md, run_json>>
command == <<cmd, args, proposal, analyses, last>>
lvars == <<rules_vars, traces, files, command>>
vars == <<gvars, lvars>>

Commands == {"idle", "review", "fetch", "missing", "unmapped", "analyze", "submit",
             "write_json", "write_md", "write_run"}
Given(v, c, mode, rules, own, id) ==
    [version |-> v, case |-> c, mode |-> mode, rules |-> rules, own |-> own, id |-> id,
     trace |-> 0]
NoArgs == Given(0, None, "none", <<>>, FALSE, 0)

Init == /\ GInit
        /\ working = FirstRules /\ versions = <<FirstRules>> /\ published = 1
        /\ traces = <<>>
        /\ cmd = "idle" /\ args = NoArgs /\ proposal = None
        /\ json = None /\ md = None /\ run_json = None
        /\ approved = {}
        /\ analyses = 0 /\ edits = 0 /\ last = "none"

Goto(c) == cmd' = c
Forget == args' = NoArgs /\ proposal' = None

-----------------------------------------------------------------------------
(* run-sdk reviews the diff of a request file and labels the trace with a   *)
(* case of the manifest; nothing ties the two.  Its --skill-reference is    *)
(* not looked at, for --references has a default: the rules are the local   *)
(* ones, under the version the references file names, and only SKILL.md is  *)
(* compared with its published digest.                                      *)
(* The trace id is a digest of the session, and the session of every run    *)
(* outside a workflow is the same: LocalId.                                 *)
LocalId == 1
FreshId == Len(traces) + 2

StartReview(c, d, id) ==
    /\ cmd = "idle" /\ Len(traces) < MaxTraces
    /\ Start(published, [version |-> published, rules |-> working], CaseDiff[d])
    /\ Goto("review")
    /\ args' = Given(published, c, "none", <<>>, d = c /\ working = versions[published], id)
    /\ UNCHANGED <<rules_vars, traces, files, proposal, analyses, last>>

ReviewStep == cmd = "review" /\ GraphStep /\ UNCHANGED lvars

(* The root span carries the case and the decision, if it has them; own is  *)
(* history: the review was of the case's diff with the rules of the version.*)
Root(id, v, c, d, own) == [id |-> id, version |-> v, case |-> c, decision |-> d, own |-> own]

(* A review that decided leaves a trace, unless its submission fails; one   *)
(* that did not leaves none.                                                *)
LabelNow == published   \* mutant: the trace is labelled when it is submitted
Label == args.version

ReviewEnds ==
    /\ cmd = "review" /\ node \in {"decided", "error"}
    /\ \/ /\ node = "decided"
          /\ traces' = Append(traces, Root(args.id, Label, args.case, decision, args.own))
       \/ UNCHANGED traces
    /\ Idle("idle")
    /\ Goto("idle") /\ Forget
    /\ UNCHANGED <<rules_vars, files, analyses, last>>

(* A Kiro review is traced under the same skill, with its case in an        *)
(* attribute the reader does not look at; the factory review under a case   *)
(* no manifest has.                                                         *)
OtherReview ==
    /\ cmd = "idle" /\ Len(traces) < MaxTraces
    /\ traces' = Append(traces, Root(FreshId, published, None, "approve", FALSE))
    /\ UNCHANGED <<gvars, rules_vars, files, command>>

(* A trace of a case without review.decision.  The reader provides for it;  *)
(* run-sdk submits only what has decided, so it is another client's.        *)
UndecidedReview ==
    /\ cmd = "idle" /\ Len(traces) < MaxTraces
    /\ \E c \in Cases : traces' = Append(traces, Root(FreshId, published, c, None, FALSE))
    /\ UNCHANGED <<gvars, rules_vars, files, command>>

-----------------------------------------------------------------------------
(* analyze-traces compares with the local rules, run-improver-cli with      *)
(* those of the version it was given; both are read before the trace.       *)
RulesComparedLocal(v, mode) == working   \* mutant: always with the local rules
RulesCompared(v, mode) == IF mode = "run" THEN versions[v] ELSE working

StartAnalysis(v, c, mode) ==
    /\ cmd = "idle" /\ analyses < MaxAnalyses
    /\ Goto("fetch")
    /\ args' = Given(v, c, mode, RulesCompared(v, mode), FALSE, 0)
    /\ analyses' = analyses + 1
    /\ UNCHANGED <<gvars, rules_vars, traces, files, proposal, last>>

(* fetch_case reads one page of the version's traces; the Registry chooses  *)
(* which, and their order.                                                  *)
AnyPage(ids) == {p \in SUBSET ids : \/ Cardinality(p) = PageLimit
                                    \/ Cardinality(p) < PageLimit /\ p = ids}
TraceIds(v) == {traces[i].id : i \in {j \in DOMAIN traces : traces[j].version = v}}
PageOfSkill(v) == AnyPage({traces[i].id : i \in DOMAIN traces})   \* mutant: of every version
Page(v) == AnyPage(TraceIds(v))

(* Of each trace one page of spans is read and the attributes on it are     *)
(* merged, the last span wins: of several runs under one id the reader sees *)
(* one, and none (0) when the page is too short for all of them and holds   *)
(* no root span.                                                            *)
Runs(t) == {i \in DOMAIN traces : traces[i].id = t}
Crowded(t) == Cardinality(Runs(t)) > SpanLimit
Views(ids) == {f \in [ids -> DOMAIN traces \cup {0}] :
                  \A t \in ids : f[t] \in Runs(t) \/ (f[t] = 0 /\ Crowded(t))}

(* The case must match, and the decision be there.                          *)
TellableOfAny(i) == i # 0 /\ traces[i].decision # None   \* mutant: of whatever case
Tellable(i) == i # 0 /\ traces[i].case = args.case /\ traces[i].decision # None
Found(p, view) == {t \in p : Tellable(view[t])}

Fetch ==
    /\ cmd = "fetch"
    /\ \E p \in Page(args.version) : \E view \in Views(p) :
          \/ \E t \in Found(p, view) : Goto("analyze") /\ args' = [args EXCEPT !.trace = view[t]]
          \/ Found(p, view) = {} /\ Goto("missing") /\ UNCHANGED args
    /\ UNCHANGED <<gvars, rules_vars, traces, files, proposal, analyses, last>>

(* Either LookupError, or a gap that maps to no rule, ends the command with *)
(* nothing written.                                                         *)
Unable ==
    /\ cmd \in {"missing", "unmapped"}
    /\ Goto("idle") /\ Forget
    /\ UNCHANGED <<gvars, rules_vars, traces, files, analyses, last>>

(* analyze_trace_gap: SELECT and .format are looked for in the whole diff,  *)
(* removed lines included, and the first rule of that name is the target.   *)
TargetId == "parameterize-sql"
HasTarget(rules) == \E i \in DOMAIN rules : rules[i].id = TargetId
Target(rules) == CHOOSE i \in DOMAIN rules :
                    /\ rules[i].id = TargetId
                    /\ \A j \in DOMAIN rules : rules[j].id = TargetId => i <= j

Holds(d, texts) == \E i \in DOMAIN d : d[i].text \in texts
FormatsSql(c) == Holds(CaseDiff[c], SelectTexts) /\ Holds(CaseDiff[c], DotFormatTexts)

FalseNegative(d, c) ==
    Expected[c] = "changes_requested" /\ d = "approve" /\ FormatsSql(c)

(* The proposal keeps the id of the trace; case and version are history.    *)
Unpatched(kind) == [kind |-> kind, trace |-> traces[args.trace].id, case |-> args.case,
                    version |-> args.version, before |-> {}, after |-> {}]
ProposalOf(d, c, rules) ==
    IF d = Expected[c] THEN Unpatched("no_change")
    ELSE IF FalseNegative(d, c)
         THEN [Unpatched("false_negative") EXCEPT !.before = rules[Target(rules)].pattern,
                                                  !.after = SQL_FORMAT_PATTERN]
    ELSE Unpatched("unresolved")

Analyze ==
    /\ cmd = "analyze"
    /\ LET d == traces[args.trace].decision IN
       IF FalseNegative(d, args.case) /\ ~HasTarget(args.rules)
       THEN Goto("unmapped") /\ UNCHANGED proposal
       ELSE /\ proposal' = ProposalOf(d, args.case, args.rules)
            /\ Goto(IF args.mode = "run" THEN "submit" ELSE "write_json")
    /\ UNCHANGED <<gvars, rules_vars, traces, files, args, analyses, last>>

(* The improver's own trace is recorded under the analyzer's skill.         *)
Submit ==
    /\ cmd = "submit"
    /\ Goto("write_json")
    /\ UNCHANGED <<gvars, rules_vars, traces, files, args, proposal, analyses, last>>

(* The files are written one after the other, over those of an earlier      *)
(* analysis; analyze-traces leaves run.json alone.                          *)
Finished(mode) == Goto("idle") /\ Forget /\ last' = mode

WriteJson ==
    /\ cmd = "write_json"
    /\ json' = proposal
    /\ Goto("write_md") /\ last' = "torn"
    /\ UNCHANGED <<gvars, rules_vars, traces, md, run_json, args, proposal, analyses>>

AfterMd == IF args.mode = "run" THEN Goto("write_run") /\ UNCHANGED <<args, proposal, last>>
           ELSE Finished("analyze")
WriteMdOnce ==   \* mutant: an existing report is kept
    /\ cmd = "write_md"
    /\ md' = IF md = None THEN proposal ELSE md
    /\ AfterMd
    /\ UNCHANGED <<gvars, rules_vars, traces, json, run_json, analyses>>
WriteMd ==
    /\ cmd = "write_md"
    /\ md' = proposal
    /\ AfterMd
    /\ UNCHANGED <<gvars, rules_vars, traces, json, run_json, analyses>>

WriteRun ==
    /\ cmd = "write_run"
    /\ run_json' = proposal
    /\ Finished("run")
    /\ UNCHANGED <<gvars, rules_vars, traces, json, md, analyses>>

(* A command ends anywhere: a refused submission, a lost sandbox, a signal. *)
Interrupt ==
    /\ cmd # "idle"
    /\ Goto("idle") /\ Forget
    /\ Idle("idle")
    /\ UNCHANGED <<rules_vars, traces, files, analyses, last>>

-----------------------------------------------------------------------------
(* A human approves the proposal on file; no command does.                  *)
Approve ==
    /\ json # None
    /\ approved' = approved \cup {json}
    /\ UNCHANGED <<gvars, working, versions, published, edits, traces, files, command>>

(* apply_approved_proposal replaces the pattern of every rule of that id,   *)
(* whatever the pattern is by now.  No command calls it: it is modelled     *)
(* with the local rules as its package.                                     *)
Patched(rules, p) ==
    [i \in DOMAIN rules |-> IF rules[i].id = TargetId
                            THEN [rules[i] EXCEPT !.pattern = p.after] ELSE rules[i]]
HasPatch(p) == p.kind = "false_negative"

ApplyUnapproved ==   \* mutant: the proposal is applied as it stands in proposal.json
    /\ json # None
    /\ HasPatch(json) /\ HasTarget(working)
    /\ working' = Patched(working, json)
    /\ UNCHANGED <<gvars, versions, published, approved, edits, traces, files, command>>
Apply ==
    /\ HasTarget(working)
    /\ \E p \in approved : HasPatch(p) /\ working' = Patched(working, p)
    /\ UNCHANGED <<gvars, versions, published, approved, edits, traces, files, command>>

Edit ==
    /\ edits < MaxEdits
    /\ \E rules \in EditedRules : working' = rules
    /\ edits' = edits + 1
    /\ UNCHANGED <<gvars, versions, published, approved, traces, files, command>>

(* publish-skill pushes the local rules, then reads the newest version back *)
(* for the references file; it may stop in between.                         *)
Publish ==
    /\ Len(versions) < MaxVersions
    /\ versions' = Append(versions, working)
    /\ published' = Len(versions') \/ UNCHANGED published
    /\ UNCHANGED <<gvars, working, approved, edits, traces, files, command>>

ImproverStep == Fetch \/ Unable \/ Analyze \/ Submit \/ WriteJson \/ WriteMd \/ WriteRun

Next ==
    \/ \E c, d \in Cases : \E id \in {LocalId, FreshId} : StartReview(c, d, id)
    \/ \E v \in DOMAIN versions, c \in Cases : \E mode \in {"run", "analyze"} :
          StartAnalysis(v, c, mode)
    \/ ReviewStep \/ ReviewEnds \/ OtherReview \/ UndecidedReview \/ ImproverStep \/ Interrupt
    \/ Approve \/ Apply \/ Edit \/ Publish

Spec == Init /\ [][Next]_vars
-----------------------------------------------------------------------------
Proposal == [kind: {"no_change", "false_negative", "unresolved"}, trace: Nat,
             case: Cases, version: Nat, before: SUBSET LineTexts, after: SUBSET LineTexts]
RootType == [id: Nat, version: Nat, case: Cases \cup {None}, decision: Decisions \cup {None},
             own: BOOLEAN]
LTypeOK == /\ GTypeOK
           /\ working \in Seq(Rule)
           /\ versions \in Seq(Seq(Rule)) /\ published \in DOMAIN versions
           /\ traces \in Seq(RootType)
           /\ cmd \in Commands
           /\ {proposal, json, md, run_json} \subseteq Proposal \cup {None}
           /\ approved \subseteq Proposal
           /\ last \in {"none", "torn", "run", "analyze"}

OfItsVersion(t) == Verdict([rules |-> versions[t.version]], CaseDiff[t.case])

(* A trace tells what the published rules of its version decide on its      *)
(* case, also when a newer version appears while the review runs.  What     *)
(* makes the evidence of a version misleading is only a request of another  *)
(* diff, or local rules that had moved on when the review began.            *)
TracesTellTheirVersion ==
    \A i \in DOMAIN traces : traces[i].own => traces[i].decision = OfItsVersion(traces[i])

(* The reader misses a case only when the version has more traces than a    *)
(* page holds, or when each trace the version has of the case holds a run   *)
(* without the decision, or of another case under the same id, or more      *)
(* spans than a page of them holds.                                         *)
Plain(t) == ~Crowded(t) /\ \A i \in Runs(t) : traces[i].case = args.case /\ traces[i].decision # None
MissingMeansFull ==
    cmd = "missing" =>
        \/ Cardinality(TraceIds(args.version)) > PageLimit
        \/ \A i \in DOMAIN traces :
              traces[i].version = args.version => ~Plain(traces[i].id)

(* A false negative cites, by its id, a trace listed under the version that *)
(* was asked about, with a run of the case that was analysed, which was     *)
(* approved though changes were expected; unless another diff or other      *)
(* rules were reviewed, the rules of that run's version, put to the case    *)
(* again, approve it.  (The run may be of another version when it shares    *)
(* its id with one of this.)                                                *)
CitesFalseNegative(p) ==
    /\ Expected[p.case] = "changes_requested"
    /\ p.trace \in TraceIds(p.version)
    /\ \E i \in Runs(p.trace) :
          /\ traces[i].case = p.case /\ traces[i].decision = "approve"
          /\ traces[i].own => OfItsVersion(traces[i]) = "approve"
ProposalGrounded == json # None /\ HasPatch(json) => CitesFalseNegative(json)

(* proposal.json and the report a human reads are of one analysis unless    *)
(* the last one was torn, and so is run.json after run-improver-cli.        *)
FilesAgree ==
    cmd = "idle" /\ last # "torn" =>
        /\ json = md
        /\ last = "run" => run_json = json

(* While no developer edits the rules, every version differs from the first *)
(* in at most the pattern of the target rule, and only when a human has     *)
(* approved a patch that cites a false negative: "No trace or proposal can  *)
(* publish a skill version by itself" (docs/trace-improvement-loop.md).     *)
OnlyPatched(rules) ==
    \/ rules = FirstRules
    \/ /\ \E p \in approved : HasPatch(p) /\ CitesFalseNegative(p)
       /\ DOMAIN rules = DOMAIN FirstRules
       /\ \A i \in DOMAIN rules :
             \/ rules[i] = FirstRules[i]
             \/ /\ rules[i].id = TargetId
                /\ rules[i] = [FirstRules[i] EXCEPT !.pattern = SQL_FORMAT_PATTERN]
PatchesAreApproved ==
    edits = 0 => /\ OnlyPatched(working)
                 /\ \A v \in DOMAIN versions : OnlyPatched(versions[v])

(* The loop closes, or not: a later version that differs from one that      *)
(* wrongly approved a case requests changes for it exactly when the         *)
(* proposed pattern is found on an added line.  It is not always: SELECT    *)
(* and .format may stand on different lines, and on one line a quote inside *)
(* the string, as in "... name = '{}'".format(n), hides them from it.       *)
Fixable(c) == \E i \in DOMAIN CaseDiff[c] :
                 CaseDiff[c][i].mark = "+" /\ CaseDiff[c][i].text \in SQL_FORMAT_PATTERN
LoopCloses ==
    \A i, j \in DOMAIN traces :
        /\ edits = 0
        /\ traces[i].own /\ traces[j].own /\ traces[j].case = traces[i].case
        /\ traces[i].decision = "approve"
        /\ traces[i].version < traces[j].version
        /\ versions[traces[i].version] # versions[traces[j].version]
        => (traces[j].decision = "changes_requested" <=> Fixable(traces[i].case))

(* A patch that changes nothing is proposed by run-improver-cli only for a  *)
(* case the pattern cannot find, or on evidence that is not of the version  *)
(* it was asked about.                                                      *)
EmptyPatchesAreUnfixable ==
    /\ cmd = "write_run" /\ proposal.kind = "false_negative"
    /\ proposal.before = proposal.after
    /\ traces[args.trace].own /\ traces[args.trace].version = args.version
    => ~Fixable(args.case)
=============================================================================
