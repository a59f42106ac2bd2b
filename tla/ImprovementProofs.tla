------------------------- MODULE ImprovementProofs --------------------------
(***************************************************************************)
(* Proofs about ImprovementLoop for every manifest, every set of rules and *)
(* every page limit, with no bound on how often a step is taken.           *)
(***************************************************************************)
EXTENDS ImprovementLoop, ReviewGraphProofs, FiniteSetTheorems,
        WellFoundedInduction

USE CasesAssumption, RulesAssumption, PatternAssumption, NoneAssumption

Args == [version: Nat, case: Cases \cup {None}, mode: {"none", "run", "analyze"},
         rules: Seq(Rule), own: BOOLEAN, id: Nat, trace: Nat]

Seen == {"analyze", "submit", "write_json", "write_md", "write_run"}

(* Types, and what the command at work was given. *)
TInv ==
    /\ GInv
    /\ working \in Seq(Rule)
    /\ versions \in Seq(Seq(Rule)) /\ published \in DOMAIN versions
    /\ traces \in Seq(RootType)
    /\ cmd \in Commands /\ args \in Args
    /\ {proposal, json, md, run_json} \subseteq Proposal \cup {None}
    /\ approved \subseteq Proposal
    /\ last \in {"none", "torn", "run", "analyze"}
    /\ analyses \in Nat /\ edits \in Nat
    /\ cmd \notin {"idle", "review"} => args.case \in Cases
    /\ cmd \in Seen => /\ args.trace \in DOMAIN traces
                       /\ traces[args.trace].case = args.case
                       /\ traces[args.trace].decision # None

(* What a command is given when it starts, and what it has read. *)
LEMMA GivenType ==
  ASSUME NEW v \in Nat, NEW c \in Cases \cup {None}, NEW m \in {"none", "run", "analyze"},
         NEW r \in Seq(Rule), NEW o \in BOOLEAN, NEW i \in Nat
  PROVE  Given(v, c, m, r, o, i) \in Args /\ Given(v, c, m, r, o, i).case = c
  BY DEF Given, Args

LEMMA NoArgsType == NoArgs \in Args
  BY DEF NoArgs, Given, Args

LEMMA TraceArgs ==
  ASSUME NEW a \in Args, NEW t \in Nat
  PROVE  LET b == [a EXCEPT !.trace = t] IN
         /\ b \in Args /\ b.trace = t
         /\ b.case = a.case /\ b.version = a.version /\ b.mode = a.mode
  BY DEF Args

LEMMA InitTInv == Init => TInv
<1> SUFFICES ASSUME Init PROVE TInv
  OBVIOUS
<1>1. GInv
  BY InitInv DEF Init
<1>2. /\ versions = <<FirstRules>> /\ published = 1 /\ FirstRules \in Seq(Rule)
      /\ traces = <<>> /\ working = FirstRules
  BY DEF Init
<1>3. versions \in Seq(Seq(Rule)) /\ published \in DOMAIN versions
  BY <1>2
<1>4. traces \in Seq(RootType)
  BY <1>2
<1>5. /\ cmd = "idle" /\ args \in Args /\ proposal = None /\ json = None /\ md = None
      /\ run_json = None /\ approved = {} /\ last = "none" /\ analyses = 0 /\ edits = 0
  BY NoArgsType DEF Init
<1> QED
  BY <1>1, <1>2, <1>3, <1>4, <1>5 DEF TInv, Commands, Seen

(* A trace is appended to the others. *)
LEMMA AppendRoot ==
  ASSUME traces \in Seq(RootType), NEW t \in RootType
  PROVE  /\ Append(traces, t) \in Seq(RootType)
         /\ DOMAIN Append(traces, t) = 1..(Len(traces) + 1) /\ DOMAIN traces = 1..Len(traces)
         /\ Len(traces) \in Nat
         /\ Append(traces, t)[Len(traces) + 1] = t
         /\ \A i \in 1..Len(traces) : Append(traces, t)[i] = traces[i]
  OBVIOUS

(* So is a version. *)
LEMMA AppendVersion ==
  ASSUME versions \in Seq(Seq(Rule)), NEW rules \in Seq(Rule)
  PROVE  LET w == Append(versions, rules) IN
         /\ w \in Seq(Seq(Rule)) /\ Len(w) \in DOMAIN w /\ Len(w) = Len(versions) + 1
         /\ DOMAIN w = 1..(Len(versions) + 1) /\ DOMAIN versions = 1..Len(versions)
         /\ Len(versions) \in Nat
         /\ w[Len(versions) + 1] = rules
         /\ \A v \in 1..Len(versions) : w[v] = versions[v]
  OBVIOUS

LEMMA PatchedType ==
  ASSUME NEW rules \in Seq(Rule), NEW p \in Proposal
  PROVE  /\ Patched(rules, p) \in Seq(Rule)
         /\ DOMAIN Patched(rules, p) = DOMAIN rules
         /\ \A i \in DOMAIN rules :
               Patched(rules, p)[i] = IF rules[i].id = TargetId
                                      THEN [rules[i] EXCEPT !.pattern = p.after] ELSE rules[i]
<1>1. \A r \in Rule : [r EXCEPT !.pattern = p.after] \in Rule
  BY DEF Rule, Proposal
<1>2. DOMAIN rules = 1..Len(rules) /\ \A i \in 1..Len(rules) : rules[i] \in Rule
  OBVIOUS
<1>3. Patched(rules, p) \in [1..Len(rules) -> Rule]
  BY <1>1, <1>2 DEF Patched
<1>4. Len(rules) \in Nat
  OBVIOUS
<1> QED
  BY <1>2, <1>3, <1>4 DEF Patched

(* The first rule of a name is one of the rules. *)
LEMMA FirstTarget ==
  ASSUME NEW rules \in Seq(Rule), HasTarget(rules)
  PROVE  /\ Target(rules) \in DOMAIN rules
         /\ rules[Target(rules)].pattern \in SUBSET LineTexts
<1> DEFINE T == {i \in DOMAIN rules : rules[i].id = TargetId}
<1>1. T \subseteq Nat /\ T # {}
  BY DEF HasTarget
<1>2. PICK i \in T : \A j \in T : <<j, i>> \notin OpToRel(<, Nat)
  BY <1>1, NatLessThanWellFounded, WFMin, Zenon
<1>3. \A j \in T : ~(j < i)
  BY <1>1, <1>2 DEF OpToRel
<1>4. \A j \in DOMAIN rules : rules[j].id = TargetId => i <= j
  BY <1>1, <1>3
<1>5. Target(rules) \in DOMAIN rules
  BY <1>2, <1>4 DEF Target
<1>6. \A r \in Rule : r.pattern \in SUBSET LineTexts
  BY DEF Rule
<1> QED
  BY <1>5, <1>6

LEMMA ProposalType ==
  ASSUME TInv, cmd = "analyze", NEW d \in Decisions,
         ~(FalseNegative(d, args.case) /\ ~HasTarget(args.rules))
  PROVE  LET q == ProposalOf(d, args.case, args.rules) IN
         /\ q \in Proposal
         /\ q.trace = traces[args.trace].id /\ q.case = args.case /\ q.version = args.version
         /\ q.kind = "false_negative" => /\ FalseNegative(d, args.case)
                                         /\ q.after = SQL_FORMAT_PATTERN
<1>1. args \in Args /\ args.case \in Cases
  BY DEF TInv
<1>2. args.version \in Nat /\ args.rules \in Seq(Rule)
  BY <1>1 DEF Args
<1>3. traces[args.trace] \in RootType
  BY DEF TInv, Seen
<1>4. traces[args.trace].id \in Nat
  BY <1>3 DEF RootType
<1>5. ASSUME FalseNegative(d, args.case)
      PROVE  args.rules[Target(args.rules)].pattern \in SUBSET LineTexts
  <2>1. HasTarget(args.rules)
    BY <1>5
  <2> QED
    BY <1>2, <2>1, FirstTarget DEF HasTarget
<1> QED
  BY <1>1, <1>2, <1>4, <1>5 DEF ProposalOf, Unpatched, Proposal

-----------------------------------------------------------------------------
(* The steps of Next, each with the part of the system it leaves alone.     *)
Reviews == \E c, d \in Cases : \E id \in {LocalId, FreshId} : StartReview(c, d, id)
Analyses == \E v \in DOMAIN versions, c \in Cases : \E mode \in {"run", "analyze"} :
               StartAnalysis(v, c, mode)

LEMMA Versions ==
  ASSUME TInv
  PROVE  /\ versions \in Seq(Seq(Rule)) /\ DOMAIN versions = 1..Len(versions)
         /\ Len(versions) \in Nat /\ published \in 1..Len(versions) /\ published \in Nat
         /\ \A v \in 1..Len(versions) : versions[v] \in Seq(Rule)
<1>1. versions \in Seq(Seq(Rule)) /\ published \in DOMAIN versions
  BY DEF TInv
<1>2. DOMAIN versions = 1..Len(versions) /\ Len(versions) \in Nat
  BY <1>1
<1> QED
  BY <1>1, <1>2

LEMMA GraphKept == TInv /\ [Next]_vars => GInv'
<1> SUFFICES ASSUME TInv, [Next]_vars PROVE GInv'
  OBVIOUS
<1>0. GInv
  BY DEF TInv
<1> USE <1>0, StepKeepsInv
<1>1. CASE Reviews
  <2>1. PICK c \in Cases, d \in Cases, id \in {LocalId, FreshId} : StartReview(c, d, id)
    BY <1>1 DEF Reviews
  <2>2. CaseDiff[d] \in Seq(Line)
    OBVIOUS
  <2>3. [version |-> published, rules |-> working] \in Package
    BY Versions DEF TInv, Package
  <2> QED
    BY <2>1, <2>2, <2>3, Versions DEF StartReview, Begins
<1>2. CASE Analyses
  BY <1>2 DEF Analyses, StartAnalysis
<1>3. CASE ReviewStep
  BY <1>3 DEF ReviewStep
<1>4. CASE ReviewEnds \/ Interrupt
  BY <1>4 DEF ReviewEnds, Interrupt
<1>5. CASE OtherReview \/ UndecidedReview \/ Approve \/ Apply \/ Edit \/ Publish
  BY <1>5 DEF OtherReview, UndecidedReview, Approve, Apply, Edit, Publish
<1>6. CASE ImproverStep
  BY <1>6 DEF ImproverStep, Fetch, Unable, Analyze, Submit, WriteJson, WriteMd, WriteRun
<1>7. CASE UNCHANGED vars
  BY <1>7 DEF vars
<1> QED
  BY <1>1, <1>2, <1>3, <1>4, <1>5, <1>6, <1>7 DEF Next, Reviews, Analyses

(* The types are kept by the steps of the reviews, *)
LEMMA ReviewTypes ==
  TInv /\ GInv' /\ (Reviews \/ ReviewStep \/ ReviewEnds \/ OtherReview \/ UndecidedReview) => TInv'
<1> SUFFICES ASSUME TInv, GInv', Reviews \/ ReviewStep \/ ReviewEnds \/ OtherReview \/ UndecidedReview PROVE TInv'
  OBVIOUS
<1>1. CASE Reviews
  <2>1. PICK c \in Cases, d \in Cases, id \in {LocalId, FreshId} : StartReview(c, d, id)
    BY <1>1 DEF Reviews
  <2>2. id \in Nat
    BY DEF LocalId, FreshId, TInv
  <2>3. args' = Given(published, c, "none", <<>>, d = c /\ working = versions[published], id)
    BY <2>1 DEF StartReview
  <2>4. <<>> \in Seq(Rule)
    OBVIOUS
  <2>5. args' \in Args
    <3>1. /\ (d = c /\ working = versions[published]) \in BOOLEAN
          /\ c \in Cases \cup {None} /\ "none" \in {"none", "run", "analyze"}
      OBVIOUS
    <3>2. Given(published, c, "none", <<>>, d = c /\ working = versions[published], id) \in Args
      BY <2>2, <2>4, <3>1, Versions, GivenType, Zenon
    <3> QED
      BY <2>3, <3>2
  <2>6. cmd' = "review" /\ UNCHANGED <<rules_vars, traces, files, proposal, analyses, last>>
    BY <2>1 DEF StartReview, Goto
  <2> QED
    BY <2>5, <2>6 DEF TInv, Commands, Seen, rules_vars, files
<1>2. CASE ReviewStep
  BY <1>2 DEF ReviewStep, lvars, rules_vars, files, command, TInv
<1>3. CASE ReviewEnds
  <2>1. /\ cmd' = "idle" /\ args' = NoArgs /\ proposal' = None
        /\ UNCHANGED <<rules_vars, files, analyses, last>>
    BY <1>3 DEF ReviewEnds, Goto, Forget
  <2>2. traces' \in Seq(RootType)
    <3>1. CASE UNCHANGED traces
      BY <3>1 DEF TInv
    <3>2. CASE traces' = Append(traces, Root(args.id, Label, args.case, decision, args.own))
               /\ node = "decided"
      <4>1. decision \in Decisions
        BY <3>2 DEF TInv, GInv, DecisionOf, Decisions
      <4>2. Root(args.id, Label, args.case, decision, args.own) \in RootType
        BY <4>1 DEF Root, RootType, Label, TInv, Args
      <4> QED
        BY <3>2, <4>2, AppendRoot DEF TInv
    <3> QED
      BY <1>3, <3>1, <3>2 DEF ReviewEnds
  <2> QED
    BY <2>1, <2>2, NoArgsType DEF TInv, Commands, Seen, rules_vars, files
<1>4. CASE OtherReview
  <2>1. /\ traces' = Append(traces, Root(FreshId, published, None, "approve", FALSE))
        /\ cmd = "idle" /\ UNCHANGED <<gvars, rules_vars, files, command>>
    BY <1>4 DEF OtherReview
  <2>2. Root(FreshId, published, None, "approve", FALSE) \in RootType
    BY Versions DEF Root, RootType, FreshId, TInv, Decisions
  <2>3. traces' \in Seq(RootType)
    BY <2>1, <2>2, AppendRoot DEF TInv
  <2> QED
    BY <2>1, <2>3 DEF TInv, Seen, rules_vars, files, command
<1>5. CASE UndecidedReview
  <2>1. PICK c \in Cases : traces' = Append(traces, Root(FreshId, published, c, None, FALSE))
    BY <1>5 DEF UndecidedReview
  <2>2. cmd = "idle" /\ UNCHANGED <<gvars, rules_vars, files, command>>
    BY <1>5 DEF UndecidedReview
  <2>3. Root(FreshId, published, c, None, FALSE) \in RootType
    BY Versions DEF Root, RootType, FreshId, TInv
  <2>4. traces' \in Seq(RootType)
    BY <2>1, <2>3, AppendRoot DEF TInv
  <2> QED
    BY <2>2, <2>4 DEF TInv, Seen, rules_vars, files, command
<1> QED
  BY <1>1, <1>2, <1>3, <1>4, <1>5

(* What the reader found: a run of the case that has decided, of a trace    *)
(* listed under the version asked about.                                    *)
Reads(i) == /\ i \in DOMAIN traces /\ i \in Nat
            /\ traces[i].case = args.case /\ traces[i].decision # None
            /\ traces[i].id \in TraceIds(args.version)
            /\ cmd' = "analyze" /\ args' = [args EXCEPT !.trace = i]

LEMMA FetchReads ==
  ASSUME TInv, Fetch, cmd' # "missing"
  PROVE  \E i : Reads(i)
<1>0. PICK p \in Page(args.version) : \E view \in Views(p) : \E t \in Found(p, view) :
           cmd' = "analyze" /\ args' = [args EXCEPT !.trace = view[t]]
  BY DEF Fetch, Goto
<1>1. PICK view \in Views(p) : \E t \in Found(p, view) :
           cmd' = "analyze" /\ args' = [args EXCEPT !.trace = view[t]]
  BY <1>0
<1>6. PICK t \in Found(p, view) : cmd' = "analyze" /\ args' = [args EXCEPT !.trace = view[t]]
  BY <1>1
<1>2. t \in p /\ Tellable(view[t])
  BY DEF Found
<1>3. view[t] \in Runs(t)
  BY <1>2 DEF Views, Tellable
<1>4. t \in TraceIds(args.version)
  BY <1>2 DEF Page, AnyPage
<1>5. view[t] \in DOMAIN traces /\ view[t] \in Nat /\ traces[view[t]].id = t
  BY <1>3 DEF Runs, TInv
<1> QED
  BY <1>2, <1>4, <1>5, <1>6 DEF Reads, Tellable

(* of the improver, *)
LEMMA ImproverTypes ==
  TInv /\ GInv' /\ (Analyses \/ ImproverStep \/ Interrupt) => TInv'
<1> SUFFICES ASSUME TInv, GInv', Analyses \/ ImproverStep \/ Interrupt PROVE TInv'
  OBVIOUS
<1>1. CASE Analyses
  <2>1. PICK v \in DOMAIN versions, c \in Cases, mode \in {"run", "analyze"} :
             StartAnalysis(v, c, mode)
    BY <1>1 DEF Analyses
  <2>2. RulesCompared(v, mode) \in Seq(Rule) /\ v \in Nat
    BY Versions DEF RulesCompared, TInv
  <2>3. args' = Given(v, c, mode, RulesCompared(v, mode), FALSE, 0)
    BY <2>1 DEF StartAnalysis
  <2>4. args' \in Args /\ args'.case = c
    BY <2>2, <2>3 DEF Given, Args
  <2>5. cmd' = "fetch" /\ analyses' = analyses + 1
        /\ UNCHANGED <<rules_vars, traces, files, proposal, last>>
    BY <2>1 DEF StartAnalysis, Goto
  <2> QED
    BY <2>4, <2>5 DEF TInv, Commands, Seen, rules_vars, files
<1>2. CASE Fetch
  <2>1. cmd = "fetch" /\ UNCHANGED <<rules_vars, traces, files, proposal, analyses, last>>
    BY <1>2 DEF Fetch
  <2>2. CASE cmd' = "missing" /\ UNCHANGED args
    BY <2>1, <2>2 DEF TInv, Commands, Seen, rules_vars, files
  <2>3. CASE cmd' # "missing"
    <3>1. PICK i : Reads(i)
      BY <1>2, <2>3, FetchReads
    <3>2. args' \in Args /\ args'.trace = i /\ args'.case = args.case
      BY <3>1, TraceArgs DEF TInv, Reads
    <3> QED
      BY <2>1, <3>1, <3>2 DEF TInv, Commands, Seen, rules_vars, files, Reads
  <2> QED
    BY <1>2, <2>2, <2>3 DEF Fetch, Goto
<1>3. CASE Unable \/ Interrupt
  BY <1>3, NoArgsType DEF Unable, Interrupt, Goto, Forget, TInv, Commands, Seen, rules_vars, files
<1>4. CASE Analyze
  <2> DEFINE d == traces[args.trace].decision
  <2>1. cmd = "analyze" /\ UNCHANGED <<rules_vars, traces, files, args, analyses, last>>
    BY <1>4 DEF Analyze
  <2>2. CASE FalseNegative(d, args.case) /\ ~HasTarget(args.rules)
    BY <1>4, <2>1, <2>2 DEF Analyze, Goto, TInv, Commands, Seen, rules_vars, files
  <2>3. CASE ~(FalseNegative(d, args.case) /\ ~HasTarget(args.rules))
    <3>1. d \in Decisions
      <4>1. traces[args.trace] \in RootType /\ d # None
        BY <2>1 DEF TInv, Seen
      <4> QED
        BY <4>1 DEF RootType
    <3>2. ProposalOf(d, args.case, args.rules) \in Proposal
      BY <2>1, <2>3, <3>1, ProposalType
    <3>3. proposal' = ProposalOf(d, args.case, args.rules) /\ cmd' \in {"submit", "write_json"}
      BY <1>4, <2>3 DEF Analyze, Goto
    <3> QED
      BY <2>1, <3>2, <3>3 DEF TInv, Commands, Seen, rules_vars, files
  <2> QED
    BY <2>2, <2>3
<1>5. CASE Submit
  BY <1>5 DEF Submit, Goto, TInv, Commands, Seen, rules_vars, files
<1>6. CASE WriteJson
  BY <1>6 DEF WriteJson, Goto, TInv, Commands, Seen, rules_vars, files
<1>7. CASE WriteMd
  BY <1>7, NoArgsType
     DEF WriteMd, AfterMd, Finished, Forget, Goto, TInv, Commands, Seen, rules_vars, files
<1>8. CASE WriteRun
  BY <1>8, NoArgsType DEF WriteRun, Finished, Forget, Goto, TInv, Commands, Seen, rules_vars, files
<1> QED
  BY <1>1, <1>2, <1>3, <1>4, <1>5, <1>6, <1>7, <1>8 DEF ImproverStep

(* and of the people. *)
LEMMA PeopleTypes ==
  TInv /\ GInv' /\ (Approve \/ Apply \/ Edit \/ Publish) => TInv'
<1> SUFFICES ASSUME TInv, GInv', Approve \/ Apply \/ Edit \/ Publish PROVE TInv'
  OBVIOUS
<1>1. CASE Approve
  BY <1>1 DEF Approve, TInv, files, command
<1>2. CASE Apply
  <2>1. PICK p \in approved : working' = Patched(working, p)
    BY <1>2 DEF Apply
  <2>2. working' \in Seq(Rule)
    BY <2>1, PatchedType DEF TInv
  <2> QED
    BY <1>2, <2>2 DEF Apply, TInv, files, command
<1>3. CASE Edit
  BY <1>3 DEF Edit, TInv, files, command
<1>4. CASE Publish
  <2>1. versions' = Append(versions, working) /\ working \in Seq(Rule)
    BY <1>4 DEF Publish, TInv
  <2>2. versions' \in Seq(Seq(Rule)) /\ Len(versions') \in DOMAIN versions'
        /\ DOMAIN versions \subseteq DOMAIN versions'
    BY <2>1, AppendVersion DEF TInv
  <2>3. published' \in DOMAIN versions'
    BY <1>4, <2>2 DEF Publish, TInv
  <2> QED
    BY <1>4, <2>2, <2>3 DEF Publish, TInv, files, command
<1> QED
  BY <1>1, <1>2, <1>3, <1>4

LEMMA NextTInv == TInv /\ [Next]_vars => TInv'
<1> SUFFICES ASSUME TInv, [Next]_vars PROVE TInv'
  OBVIOUS
<1>1. GInv'
  BY GraphKept
<1>2. CASE UNCHANGED vars
  BY <1>1, <1>2 DEF vars, lvars, rules_vars, files, command, TInv
<1> QED
  BY <1>1, <1>2, ReviewTypes, ImproverTypes, PeopleTypes DEF Next, Reviews, Analyses

LEMMA AlwaysTInv == Spec => []TInv
  BY InitTInv, NextTInv, PTL DEF Spec

(* Type correctness of the improvement loop. *)
THEOREM LoopTypeCorrect == Spec => []LTypeOK
<1>1. TInv => LTypeOK
  BY DEF TInv, LTypeOK, GInv
<1> QED
  BY <1>1, AlwaysTInv, PTL

-----------------------------------------------------------------------------
(* Versions are only added, and so are traces, one at a time.               *)
LEMMA VersionsGrow ==
  ASSUME TInv, [Next]_vars
  PROVE  \A v \in DOMAIN versions : v \in DOMAIN versions' /\ versions'[v] = versions[v]
<1>1. CASE UNCHANGED versions
  BY <1>1
<1>2. CASE Publish
  <2>1. versions' = Append(versions, working) /\ working \in Seq(Rule)
    BY <1>2 DEF Publish, TInv
  <2> QED
    BY <2>1, AppendVersion DEF TInv
<1>3. CASE Reviews \/ ReviewStep \/ ReviewEnds \/ OtherReview \/ UndecidedReview
  BY <1>1, <1>3
     DEF Reviews, StartReview, ReviewStep, ReviewEnds, OtherReview, UndecidedReview, lvars,
         rules_vars
<1>4. CASE Analyses \/ ImproverStep \/ Interrupt
  BY <1>1, <1>4
     DEF Analyses, StartAnalysis, ImproverStep, Fetch, Unable, Analyze, Submit, WriteJson,
         WriteMd, WriteRun, Interrupt, rules_vars
<1>5. CASE Approve \/ Apply \/ Edit \/ UNCHANGED vars
  BY <1>1, <1>5 DEF Approve, Apply, Edit, vars, lvars, rules_vars
<1> QED
  BY <1>2, <1>3, <1>4, <1>5 DEF Next, Reviews, Analyses

Recorded(t) == ReviewEnds /\ node = "decided"
               /\ t = Root(args.id, Label, args.case, decision, args.own)
Other(t) == ~t.own

LEMMA TracesGrow ==
  ASSUME TInv, [Next]_vars
  PROVE  /\ \A i \in DOMAIN traces : i \in DOMAIN traces' /\ traces'[i] = traces[i]
         /\ \A i \in DOMAIN traces' : i \in DOMAIN traces \/ Recorded(traces'[i])
                                                          \/ Other(traces'[i])
<1>1. CASE UNCHANGED traces
  BY <1>1
<1>2. ASSUME NEW t \in RootType, traces' = Append(traces, t), Recorded(t) \/ Other(t)
      PROVE  /\ \A i \in DOMAIN traces : i \in DOMAIN traces' /\ traces'[i] = traces[i]
             /\ \A i \in DOMAIN traces' : i \in DOMAIN traces \/ Recorded(traces'[i])
                                                              \/ Other(traces'[i])
  <2>1. traces \in Seq(RootType)
    BY DEF TInv
  <2>2. /\ DOMAIN traces' = 1..(Len(traces) + 1) /\ DOMAIN traces = 1..Len(traces)
        /\ Len(traces) \in Nat /\ traces'[Len(traces) + 1] = t
        /\ \A i \in 1..Len(traces) : traces'[i] = traces[i]
    BY <1>2, <2>1, AppendRoot
  <2>3. \A i \in DOMAIN traces' : i \in DOMAIN traces \/ i = Len(traces) + 1
    BY <2>2
  <2> QED
    BY <1>2, <2>2, <2>3
<1>3. CASE ReviewEnds
  <2>1. CASE node = "decided"
             /\ traces' = Append(traces, Root(args.id, Label, args.case, decision, args.own))
    <3>1. decision \in Decisions
      BY <2>1 DEF TInv, GInv, DecisionOf, Decisions
    <3>2. Root(args.id, Label, args.case, decision, args.own) \in RootType
      BY <3>1 DEF Root, RootType, Label, TInv, Args
    <3> QED
      BY <1>2, <1>3, <2>1, <3>2 DEF Recorded
  <2> QED
    BY <1>1, <1>3, <2>1 DEF ReviewEnds
<1>4. CASE OtherReview
  <2> DEFINE t == Root(FreshId, published, None, "approve", FALSE)
  <2>1. t \in RootType /\ ~t.own
    BY Versions DEF Root, RootType, FreshId, TInv, Decisions
  <2>2. traces' = Append(traces, t)
    BY <1>4 DEF OtherReview
  <2> HIDE DEF t
  <2> QED
    BY <1>2, <2>1, <2>2 DEF Other
<1>8. CASE UndecidedReview
  <2>1. PICK c \in Cases : traces' = Append(traces, Root(FreshId, published, c, None, FALSE))
    BY <1>8 DEF UndecidedReview
  <2> DEFINE t == Root(FreshId, published, c, None, FALSE)
  <2>2. t \in RootType /\ ~t.own
    BY Versions DEF Root, RootType, FreshId, TInv
  <2>3. traces' = Append(traces, t)
    BY <2>1
  <2> HIDE DEF t
  <2> QED
    BY <1>2, <2>2, <2>3 DEF Other
<1>5. CASE Reviews \/ ReviewStep
  BY <1>1, <1>5 DEF Reviews, StartReview, ReviewStep, lvars
<1>6. CASE Analyses \/ ImproverStep \/ Interrupt
  BY <1>1, <1>6
     DEF Analyses, StartAnalysis, ImproverStep, Fetch, Unable, Analyze, Submit, WriteJson,
         WriteMd, WriteRun, Interrupt
<1>7. CASE Approve \/ Apply \/ Edit \/ Publish \/ UNCHANGED vars
  BY <1>1, <1>7 DEF Approve, Apply, Edit, Publish, vars, lvars
<1> QED
  BY <1>3, <1>4, <1>5, <1>6, <1>7, <1>8 DEF Next, Reviews, Analyses

(* What an own review has loaded, and what its trace tells. *)
Own == args.own => /\ args.version \in DOMAIN versions /\ args.case \in Cases
                   /\ skill.rules = versions[args.version]
                   /\ diff = CaseDiff[args.case]
Tells(t) == t.own => /\ t.version \in DOMAIN versions /\ t.case \in Cases
                     /\ t.decision = OfItsVersion(t)
OwnInv == /\ cmd = "review" => Own
          /\ \A i \in DOMAIN traces : Tells(traces[i])

LEMMA OwnKept ==
  ASSUME TInv, [Next]_vars, cmd = "review" => Own
  PROVE  (cmd = "review" => Own)'
<1> SUFFICES ASSUME cmd' = "review", args'.own PROVE Own'
  BY DEF Own
<1>1. CASE Reviews
  <2>1. PICK c \in Cases, d \in Cases, id \in {LocalId, FreshId} : StartReview(c, d, id)
    BY <1>1 DEF Reviews
  <2>2. args' = Given(published, c, "none", <<>>, d = c /\ working = versions[published], id)
        /\ versions' = versions
    BY <2>1 DEF StartReview, rules_vars
  <2>3. skill'.rules = working /\ diff' = CaseDiff[d]
    BY <2>1 DEF StartReview, Start
  <2>4. args'.own = (d = c /\ working = versions[published])
        /\ args'.version = published /\ args'.case = c
    BY <2>2 DEF Given
  <2>5. published \in DOMAIN versions
    BY DEF TInv
  <2>6. d = c /\ working = versions[published]
    BY <2>4
  <2> QED
    BY <2>2, <2>3, <2>4, <2>5, <2>6 DEF Own
<1>2. CASE ReviewStep
  <2>1. UNCHANGED <<skill, diff>>
    BY <1>2 DEF ReviewStep, GraphStep, LoadSkill, LoadKnowledge, Compile, Inspect,
                InspectEnds, Decide, Fail
  <2>2. cmd = "review" /\ UNCHANGED <<cmd, args, versions>>
    BY <1>2 DEF ReviewStep, lvars, command, rules_vars
  <2> QED
    BY <2>1, <2>2 DEF Own
<1>3. CASE cmd = "review" /\ UNCHANGED <<gvars, args>>
  BY <1>3, VersionsGrow DEF Own, gvars
<1>4. CASE OtherReview \/ UndecidedReview \/ Approve \/ Apply \/ Edit \/ Publish
           \/ UNCHANGED vars
  BY <1>3, <1>4 DEF OtherReview, UndecidedReview, Approve, Apply, Edit, Publish, vars, lvars,
                    command
<1>5. CASE ReviewEnds \/ Analyses \/ ImproverStep \/ Interrupt
  BY <1>5 DEF ReviewEnds, Analyses, StartAnalysis, ImproverStep, Fetch, Unable, Analyze,
              Submit, WriteJson, WriteMd, AfterMd, WriteRun, Finished, Interrupt, Goto
<1> QED
  BY <1>1, <1>2, <1>4, <1>5 DEF Next, Reviews, Analyses

LEMMA TellsKept ==
  ASSUME TInv, [Next]_vars, OwnInv, NEW i \in DOMAIN traces'
  PROVE  Tells(traces[i])'
<1>1. CASE i \in DOMAIN traces
  <2>1. traces'[i] = traces[i] /\ Tells(traces[i])
    BY <1>1, TracesGrow DEF OwnInv
  <2> QED
    BY <2>1, VersionsGrow DEF Tells, OfItsVersion
<1>2. CASE Recorded(traces'[i])
  <2> SUFFICES ASSUME traces'[i].own
               PROVE  /\ traces'[i].version \in DOMAIN versions' /\ traces'[i].case \in Cases
                      /\ traces'[i].decision = OfItsVersion(traces[i])'
    BY DEF Tells
  <2>1. cmd = "review" /\ node = "decided" /\ versions' = versions
        /\ traces'[i] = Root(args.id, Label, args.case, decision, args.own)
    BY <1>2 DEF Recorded, ReviewEnds, rules_vars
  <2>2. /\ traces'[i].own = args.own /\ traces'[i].version = args.version
        /\ traces'[i].case = args.case /\ traces'[i].decision = decision
    <3> DEFINE t == Root(args.id, Label, args.case, decision, args.own)
    <3>1. t.own = args.own
      BY DEF Root, TInv, Args
    <3>2. t.version = args.version
      BY DEF Root, Label
    <3>3. t.case = args.case /\ t.decision = decision
      BY DEF Root
    <3> HIDE DEF t
    <3>4. traces'[i] = t
      BY <2>1 DEF t
    <3> QED
      BY <3>1, <3>2, <3>3, <3>4
  <2>3. Own
    BY <2>1 DEF OwnInv
  <2>4. decision = Verdict(skill, diff)
    BY <2>1, InvDecision DEF TInv, DecisionExact
  <2>5. [rules |-> versions[args.version]].rules = skill.rules
    BY <2>2, <2>3 DEF Own
  <2>6. Verdict(skill, diff) = Verdict([rules |-> versions[args.version]], diff)
    BY <2>5, VerdictOfRules
  <2> QED
    BY <2>1, <2>2, <2>3, <2>4, <2>6 DEF Own, OfItsVersion
<1>3. CASE Other(traces'[i])
  BY <1>3 DEF Other, Tells
<1> QED
  BY <1>1, <1>2, <1>3, TracesGrow

LEMMA AlwaysOwn == Spec => []OwnInv
<1>1. Init => OwnInv
  BY DEF Init, OwnInv
<1>2. TInv /\ OwnInv /\ [Next]_vars => OwnInv'
  BY OwnKept, TellsKept DEF OwnInv
<1> QED
  BY <1>1, <1>2, AlwaysTInv, PTL DEF Spec

(* A trace of a case reviewed with the rules of the version it names tells  *)
(* what those rules decide, whatever is edited, applied or published while  *)
(* the review runs.                                                         *)
THEOREM TracesAreTrue == Spec => []TracesTellTheirVersion
<1>1. OwnInv => TracesTellTheirVersion
  BY DEF OwnInv, TracesTellTheirVersion, Tells
<1> QED
  BY <1>1, AlwaysOwn, PTL

-----------------------------------------------------------------------------
(* The files of an analysis: torn from the first write to the last. *)
FilesInv ==
    /\ last # "torn" => json = md /\ (last = "run" => run_json = json)
    /\ cmd = "write_md" => last = "torn" /\ json = proposal
    /\ cmd = "write_run" => last = "torn" /\ json = proposal /\ md = proposal
    /\ cmd \in Seen \cup {"fetch", "missing", "unmapped"} => args.mode \in {"run", "analyze"}

LEMMA FilesKept == TInv /\ FilesInv /\ [Next]_vars => FilesInv'
<1> SUFFICES ASSUME TInv, FilesInv, [Next]_vars PROVE FilesInv'
  OBVIOUS
<1> USE DEF FilesInv, Seen, files
<1>1. CASE Reviews \/ ReviewStep \/ ReviewEnds \/ OtherReview \/ UndecidedReview
  BY <1>1 DEF Reviews, StartReview, ReviewStep, ReviewEnds, OtherReview, UndecidedReview, Goto,
              lvars, command
<1>2. CASE Analyses
  <2>1. PICK v \in DOMAIN versions, c \in Cases, mode \in {"run", "analyze"} :
             StartAnalysis(v, c, mode)
    BY <1>2 DEF Analyses
  <2>2. args'.mode = mode /\ cmd' = "fetch" /\ UNCHANGED <<files, last>>
    BY <2>1 DEF StartAnalysis, Given, Goto
  <2> QED
    BY <2>2
<1>3. CASE Fetch
  <2>1. args \in Args /\ args.mode \in {"run", "analyze"}
        /\ UNCHANGED <<files, last>> /\ cmd' \in {"analyze", "missing"}
    BY <1>3 DEF Fetch, TInv, Goto
  <2>2. args'.mode = args.mode
    BY <1>3, <2>1 DEF Fetch, Args
  <2> QED
    BY <2>1, <2>2
<1>4. CASE Unable \/ Interrupt
  BY <1>4 DEF Unable, Interrupt, Goto
<1>5. CASE Analyze \/ Submit
  BY <1>5 DEF Analyze, Submit, Goto
<1>6. CASE WriteJson
  BY <1>6 DEF WriteJson, Goto
<1>7. CASE WriteMd
  BY <1>7 DEF WriteMd, AfterMd, Finished, Goto
<1>8. CASE WriteRun
  BY <1>8 DEF WriteRun, Finished, Goto
<1>9. CASE Approve \/ Apply \/ Edit \/ Publish \/ UNCHANGED vars
  BY <1>9 DEF Approve, Apply, Edit, Publish, command, vars, lvars
<1> QED
  BY <1>1, <1>2, <1>3, <1>4, <1>5, <1>6, <1>7, <1>8, <1>9
     DEF Next, Reviews, Analyses, ImproverStep

(* Unless the last analysis was torn, the files on disk are of one          *)
(* analysis.                                                                *)
THEOREM FilesAreOfOneAnalysis == Spec => []FilesAgree
<1>1. Init => FilesInv
  BY DEF Init, FilesInv, Seen
<1>2. FilesInv => FilesAgree
  BY DEF FilesInv, FilesAgree
<1> QED
  BY <1>1, <1>2, FilesKept, AlwaysTInv, PTL DEF Spec

-----------------------------------------------------------------------------
(* A false negative, wherever it stands, cites a listed trace with a run    *)
(* that approved the case of which changes were expected, and carries the   *)
(* one pattern there is.                                                    *)
Cites(p) == /\ Expected[p.case] = "changes_requested"
            /\ p.trace \in TraceIds(p.version)
            /\ \E i \in Runs(p.trace) :
                  traces[i].case = p.case /\ traces[i].decision = "approve"
Grounded(p) == p # None /\ p.kind = "false_negative" => p.after = SQL_FORMAT_PATTERN /\ Cites(p)

GroundedInv == /\ Grounded(proposal) /\ Grounded(json)
               /\ \A p \in approved : p # None /\ Grounded(p)

(* The trace that was read is listed under the version asked about. *)
ReadInv == cmd \in Seen => traces[args.trace].id \in TraceIds(args.version)

LEMMA ListedStays ==
  ASSUME TInv, [Next]_vars, NEW v, NEW t \in TraceIds(v)
  PROVE  t \in TraceIds(v)'
<1>1. PICK j \in DOMAIN traces : traces[j].version = v /\ traces[j].id = t
  BY DEF TraceIds
<1>2. j \in DOMAIN traces' /\ traces'[j] = traces[j]
  BY TracesGrow
<1> QED
  BY <1>1, <1>2 DEF TraceIds

LEMMA ReadKept == TInv /\ ReadInv /\ [Next]_vars => ReadInv'
<1> SUFFICES ASSUME TInv, ReadInv, [Next]_vars, cmd' \in Seen
             PROVE  (traces[args.trace].id \in TraceIds(args.version))'
  BY DEF ReadInv
<1> USE DEF Seen
<1>1. CASE cmd \in Seen /\ UNCHANGED args
  <2>1. args.trace \in DOMAIN traces /\ traces[args.trace].id \in TraceIds(args.version)
    BY <1>1 DEF TInv, ReadInv
  <2>2. traces'[args.trace] = traces[args.trace]
    BY <2>1, TracesGrow
  <2>3. PICK j \in DOMAIN traces : /\ traces[j].version = args.version
                                   /\ traces[j].id = traces[args.trace].id
    BY <2>1 DEF TraceIds
  <2>4. j \in DOMAIN traces' /\ traces'[j] = traces[j]
    BY TracesGrow
  <2> QED
    BY <1>1, <2>2, <2>3, <2>4 DEF TraceIds
<1>2. CASE Fetch
  <2>1. cmd' # "missing" /\ UNCHANGED traces
    BY <1>2 DEF Fetch
  <2>2. PICK i : Reads(i)
    BY <1>2, <2>1, FetchReads
  <2>3. args'.trace = i /\ args'.version = args.version
    BY <2>2, TraceArgs DEF Reads, TInv
  <2> QED
    BY <2>1, <2>2, <2>3 DEF Reads, TraceIds
<1>3. CASE Reviews \/ ReviewStep \/ ReviewEnds \/ OtherReview \/ UndecidedReview
  BY <1>1, <1>3 DEF Reviews, StartReview, ReviewStep, ReviewEnds, OtherReview, UndecidedReview,
                    Goto, lvars, command
<1>4. CASE Analyses \/ Unable \/ Interrupt
  BY <1>4 DEF Analyses, StartAnalysis, Unable, Interrupt, Goto
<1>5. CASE Analyze \/ Submit \/ WriteJson \/ WriteMd \/ WriteRun
  BY <1>1, <1>5 DEF Analyze, Submit, WriteJson, WriteMd, AfterMd, WriteRun, Finished, Goto
<1>6. CASE Approve \/ Apply \/ Edit \/ Publish \/ UNCHANGED vars
  BY <1>1, <1>6 DEF Approve, Apply, Edit, Publish, command, vars, lvars
<1> QED
  BY <1>2, <1>3, <1>4, <1>5, <1>6 DEF Next, Reviews, Analyses, ImproverStep

LEMMA CitesStays ==
  ASSUME TInv, [Next]_vars, NEW p, Cites(p)
  PROVE  /\ \A i \in Runs(p.trace) : i \in Runs(p.trace)' /\ traces'[i] = traces[i]
         /\ p.trace \in TraceIds(p.version)'
         /\ \E i \in Runs(p.trace)' : traces'[i].case = p.case /\ traces'[i].decision = "approve"
<1>1. \A i \in Runs(p.trace) : i \in Runs(p.trace)' /\ traces'[i] = traces[i]
  BY TracesGrow DEF Runs
<1>2. p.trace \in TraceIds(p.version)'
  BY ListedStays DEF Cites
<1> QED
  BY <1>1, <1>2 DEF Cites

LEMMA GroundedStays ==
  ASSUME TInv, [Next]_vars, NEW p, Grounded(p)
  PROVE  /\ proposal' = p => Grounded(proposal)'
         /\ json' = p => Grounded(json)'
         /\ Grounded(p)'
  BY CitesStays DEF Grounded, Cites

LEMMA NoneGrounded == /\ proposal' = None => Grounded(proposal)'
                      /\ json' = None => Grounded(json)'
  BY DEF Grounded

LEMMA AnalyzeGrounded ==
  TInv /\ [Next]_vars /\ GroundedInv /\ ReadInv /\ Analyze => Grounded(proposal)'
<1> SUFFICES ASSUME TInv, [Next]_vars, GroundedInv, ReadInv, Analyze PROVE Grounded(proposal)'
  OBVIOUS
<1> DEFINE d == traces[args.trace].decision
<1>1. cmd = "analyze" /\ UNCHANGED <<traces, args>>
  BY DEF Analyze
<1>2. CASE FalseNegative(d, args.case) /\ ~HasTarget(args.rules)
  BY <1>2, GroundedStays DEF Analyze, GroundedInv
<1>3. CASE ~(FalseNegative(d, args.case) /\ ~HasTarget(args.rules))
  <2> DEFINE q == ProposalOf(d, args.case, args.rules)
  <2>1. traces[args.trace] \in RootType /\ args.trace \in DOMAIN traces
        /\ traces[args.trace].case = args.case /\ d # None
        /\ traces[args.trace].id \in TraceIds(args.version)
    BY <1>1 DEF TInv, Seen, ReadInv
  <2>2. d \in Decisions
    BY <2>1 DEF RootType
  <2>3. /\ q.trace = traces[args.trace].id /\ q.case = args.case /\ q.version = args.version
        /\ q.kind = "false_negative" => FalseNegative(d, args.case) /\ q.after = SQL_FORMAT_PATTERN
    BY <1>1, <1>3, <2>2, ProposalType
  <2>4. proposal' = q
    BY <1>3 DEF Analyze
  <2> HIDE DEF q
  <2>5. ASSUME q.kind = "false_negative" PROVE q.after = SQL_FORMAT_PATTERN /\ Cites(q)
    <3>1. Expected[q.case] = "changes_requested" /\ d = "approve"
      BY <2>3, <2>5 DEF FalseNegative
    <3>2. args.trace \in Runs(q.trace) /\ q.trace \in TraceIds(q.version)
      BY <2>1, <2>3 DEF Runs
    <3> QED
      BY <2>1, <2>3, <2>5, <3>1, <3>2 DEF Cites
  <2>6. Grounded(q)
    BY <2>5 DEF Grounded
  <2> QED
    BY <2>4, <2>6, GroundedStays
<1> QED
  BY <1>2, <1>3

LEMMA GroundedKept == TInv /\ ReadInv /\ GroundedInv /\ [Next]_vars => GroundedInv'
<1> SUFFICES ASSUME TInv, ReadInv, GroundedInv, [Next]_vars PROVE GroundedInv'
  OBVIOUS
<1>0. /\ proposal' \in {proposal, json, None} => Grounded(proposal)'
      /\ json' \in {proposal, json, None} => Grounded(json)'
      /\ approved' \subseteq approved \cup ({json} \ {None}) =>
            (\A q \in approved : q # None /\ Grounded(q))'
  BY GroundedStays, NoneGrounded DEF GroundedInv
<1> USE <1>0 DEF GroundedInv, files, rules_vars
<1>1. CASE Reviews \/ ReviewStep \/ ReviewEnds \/ OtherReview \/ UndecidedReview
  BY <1>1 DEF Reviews, StartReview, ReviewStep, ReviewEnds, OtherReview, UndecidedReview, Forget, lvars, command
<1>2. CASE Analyses \/ Fetch \/ Unable \/ Interrupt \/ Submit
  BY <1>2 DEF Analyses, StartAnalysis, Fetch, Unable, Interrupt, Submit, Forget
<1>3. CASE Analyze
  BY <1>3, AnalyzeGrounded DEF Analyze
<1>4. CASE WriteJson
  BY <1>4 DEF WriteJson
<1>5. CASE WriteMd \/ WriteRun
  BY <1>5 DEF WriteMd, AfterMd, WriteRun, Finished, Forget
<1>6. CASE Approve \/ Apply \/ Edit \/ Publish \/ UNCHANGED vars
  BY <1>6 DEF Approve, Apply, Edit, Publish, command, vars, lvars
<1> QED
  BY <1>1, <1>2, <1>3, <1>4, <1>5, <1>6 DEF Next, Reviews, Analyses, ImproverStep

LEMMA AlwaysGrounded == Spec => []GroundedInv
<1>1. Init => GroundedInv /\ ReadInv
  BY DEF Init, GroundedInv, Grounded, ReadInv, Seen
<1> QED
  BY <1>1, GroundedKept, ReadKept, AlwaysTInv, PTL DEF Spec

(* A run that was of the case's diff and of its version's rules tells what   *)
(* the rules of the version decide.                                         *)
LEMMA CitedTruly == OwnInv => \A p : Cites(p) => CitesFalseNegative(p)
  BY DEF OwnInv, Tells, Cites, CitesFalseNegative, Runs

(* The false negative in proposal.json is one: the trace it names is listed *)
(* under the version that was asked about and holds a run that approved the *)
(* case, and when that run was of the case's diff and of its version's      *)
(* rules, so do the rules of the version.                                   *)
THEOREM ProposalsAreGrounded == Spec => []ProposalGrounded
<1>1. GroundedInv /\ OwnInv => ProposalGrounded
  BY CitedTruly DEF GroundedInv, Grounded, ProposalGrounded, HasPatch
<1> QED
  BY <1>1, AlwaysGrounded, AlwaysOwn, PTL

-----------------------------------------------------------------------------
Approved == \E p \in approved : HasPatch(p) /\ Cites(p)
Within(rules) ==
    \/ rules = FirstRules
    \/ /\ Approved
       /\ DOMAIN rules = DOMAIN FirstRules
       /\ \A i \in DOMAIN rules :
             \/ rules[i] = FirstRules[i]
             \/ /\ rules[i].id = TargetId
                /\ rules[i] = [FirstRules[i] EXCEPT !.pattern = SQL_FORMAT_PATTERN]
PatchInv == edits = 0 => /\ Within(working)
                         /\ \A v \in DOMAIN versions : Within(versions[v])

(* Applying the approved patch again patches nothing else. *)
LEMMA PatchedOnly ==
  ASSUME NEW rules, Within(rules), Approved, NEW p, p.after = SQL_FORMAT_PATTERN
  PROVE  Within(Patched(rules, p))
<1> DEFINE new == Patched(rules, p)
<1>1. /\ DOMAIN rules = DOMAIN FirstRules
      /\ \A i \in DOMAIN rules : \/ rules[i] = FirstRules[i]
                                 \/ /\ rules[i].id = TargetId
                                    /\ rules[i] = [FirstRules[i] EXCEPT !.pattern = SQL_FORMAT_PATTERN]
  BY DEF Within
<1>2. \A r \in Rule : LET q == [r EXCEPT !.pattern = SQL_FORMAT_PATTERN] IN
                      q.id = r.id /\ [q EXCEPT !.pattern = SQL_FORMAT_PATTERN] = q
  BY DEF Rule
<1>3. \A i \in DOMAIN FirstRules : FirstRules[i] \in Rule
  OBVIOUS
<1>4. DOMAIN new = DOMAIN FirstRules
  BY <1>1 DEF Patched
<1>5. ASSUME NEW i \in DOMAIN new
      PROVE  \/ new[i] = FirstRules[i]
             \/ /\ new[i].id = TargetId
                /\ new[i] = [FirstRules[i] EXCEPT !.pattern = SQL_FORMAT_PATTERN]
  <2>1. i \in DOMAIN rules /\ i \in DOMAIN FirstRules
    BY <1>1, <1>4
  <2>2. new[i] = IF rules[i].id = TargetId THEN [rules[i] EXCEPT !.pattern = SQL_FORMAT_PATTERN]
                 ELSE rules[i]
    BY <2>1 DEF Patched
  <2>3. CASE rules[i].id = TargetId
    <3>1. rules[i] \in {FirstRules[i], [FirstRules[i] EXCEPT !.pattern = SQL_FORMAT_PATTERN]}
      BY <1>1, <2>1
    <3>2. new[i] = [FirstRules[i] EXCEPT !.pattern = SQL_FORMAT_PATTERN]
      BY <1>2, <1>3, <2>1, <2>2, <2>3, <3>1
    <3>3. FirstRules[i].id = TargetId
      BY <1>2, <1>3, <2>1, <2>3, <3>1
    <3> QED
      BY <1>2, <1>3, <2>1, <3>2, <3>3
  <2>4. CASE rules[i].id # TargetId
    BY <1>1, <2>1, <2>2, <2>4
  <2> QED
    BY <2>3, <2>4
<1> QED
  BY <1>4, <1>5 DEF Within

LEMMA PatchKept == TInv /\ GroundedInv /\ PatchInv /\ [Next]_vars => PatchInv'
<1> SUFFICES ASSUME TInv, GroundedInv, PatchInv, [Next]_vars, edits' = 0
             PROVE  /\ Within(working)'
                    /\ \A v \in DOMAIN versions' : Within(versions[v])'
  BY DEF PatchInv
<1>0. Approved /\ approved \subseteq approved' => Approved'
  BY CitesStays DEF Approved, Cites
<1>1. CASE UNCHANGED rules_vars
  BY <1>0, <1>1 DEF rules_vars, PatchInv, Within
<1>2. CASE Edit
  BY <1>2 DEF Edit, TInv
<1>3. CASE Approve
  BY <1>0, <1>3 DEF Approve, PatchInv, Within
<1>4. CASE Apply
  <2>1. edits = 0 /\ UNCHANGED <<versions, approved>>
    BY <1>4 DEF Apply
  <2>2. PICK p \in approved : HasPatch(p) /\ working' = Patched(working, p)
    BY <1>4 DEF Apply
  <2>3. p # None
    BY DEF GroundedInv
  <2>4. p.after = SQL_FORMAT_PATTERN /\ Approved
    BY <2>2, <2>3 DEF GroundedInv, Grounded, HasPatch, Approved
  <2>5. Within(Patched(working, p))
    BY <2>1, <2>4, PatchedOnly DEF PatchInv
  <2> QED
    BY <1>0, <2>1, <2>2, <2>5 DEF PatchInv, Within
<1>5. CASE Publish
  <2>1. /\ edits = 0 /\ UNCHANGED <<working, approved>>
        /\ versions' = Append(versions, working) /\ working \in Seq(Rule)
    BY <1>5 DEF Publish, TInv
  <2>2. \A v \in DOMAIN versions' : versions'[v] = working \/ (v \in DOMAIN versions /\ versions'[v] = versions[v])
    BY <2>1, AppendVersion DEF TInv
  <2>3. \A v \in DOMAIN versions' : Within(versions'[v])
    BY <2>1, <2>2 DEF PatchInv
  <2> QED
    BY <1>0, <2>1, <2>3 DEF PatchInv, Within
<1>6. CASE Reviews \/ ReviewStep \/ ReviewEnds \/ OtherReview \/ UndecidedReview
  BY <1>1, <1>6 DEF Reviews, StartReview, ReviewStep, ReviewEnds, OtherReview, UndecidedReview, lvars
<1>7. CASE Analyses \/ ImproverStep \/ Interrupt
  BY <1>1, <1>7
     DEF Analyses, StartAnalysis, ImproverStep, Fetch, Unable, Analyze, Submit, WriteJson,
         WriteMd, WriteRun, Interrupt
<1>8. CASE UNCHANGED vars
  BY <1>1, <1>8 DEF vars, lvars
<1> QED
  BY <1>2, <1>3, <1>4, <1>5, <1>6, <1>7, <1>8 DEF Next, Reviews, Analyses

(* Without a developer, the rules of every version are the first ones or    *)
(* those with the pattern of a patch that a human approved, and that rests  *)
(* on a trace which wrongly approved its case.                              *)
THEOREM OnlyApprovedPatches == Spec => []PatchesAreApproved
<1>1. Init => PatchInv
  <2> SUFFICES ASSUME Init PROVE PatchInv
    OBVIOUS
  <2>1. working = FirstRules /\ versions = <<FirstRules>>
    BY DEF Init
  <2>2. \A v \in DOMAIN versions : versions[v] = FirstRules
    BY <2>1
  <2> QED
    BY <2>1, <2>2 DEF PatchInv, Within
<1>2. PatchInv /\ OwnInv => PatchesAreApproved
  <2>1. OwnInv => \A rules : Within(rules) => OnlyPatched(rules)
    BY CitedTruly DEF Within, Approved, OnlyPatched
  <2> QED
    BY <2>1 DEF PatchInv, PatchesAreApproved
<1> QED
  BY <1>1, <1>2, PatchKept, AlwaysGrounded, AlwaysOwn, AlwaysTInv, PTL DEF Spec

-----------------------------------------------------------------------------
(* However skills are published, edited and applied around it, a review     *)
(* still finds every line its own version's rules speak of and decides what *)
(* they say: the skill it reviews with is the one it loaded.                *)
THEOREM ReviewsAreExact == Spec => [](FindingsExact /\ DecisionExact)
<1>1. TInv => FindingsExact /\ DecisionExact
  BY InvFindings, InvDecision DEF TInv
<1> QED
  BY <1>1, AlwaysTInv, PTL

-----------------------------------------------------------------------------
LEMMA TraceIdsFinite ==
  ASSUME TInv, NEW v
  PROVE  IsFiniteSet(TraceIds(v)) /\ Cardinality(TraceIds(v)) \in Nat
<1> DEFINE S == {j \in DOMAIN traces : traces[j].version = v}
           f == [j \in S |-> traces[j].id]
<1>1. DOMAIN traces = 1..Len(traces) /\ Len(traces) \in Nat
  BY DEF TInv
<1>2. IsFiniteSet(1..Len(traces))
  BY <1>1, FS_Interval
<1>3. IsFiniteSet(S)
  BY <1>1, <1>2, FS_Subset
<1>4. f \in Surjection(S, TraceIds(v))
  BY DEF Surjection, TraceIds
<1>5. IsFiniteSet(TraceIds(v))
  BY <1>3, <1>4, FS_Surjection
<1> QED
  BY <1>5, FS_CardinalityType

(* A page that is not full holds every trace. *)
LEMMA PageHoldsAll ==
  ASSUME TInv, NEW v, Cardinality(TraceIds(v)) <= PageLimit, NEW p \in Page(v)
  PROVE  p = TraceIds(v)
<1>1. IsFiniteSet(TraceIds(v)) /\ Cardinality(TraceIds(v)) \in Nat
  BY TraceIdsFinite
<1>2. p \in SUBSET TraceIds(v) /\ (Cardinality(p) = PageLimit \/ p = TraceIds(v))
  BY DEF Page, AnyPage
<1>3. Cardinality(p) <= Cardinality(TraceIds(v))
      /\ (Cardinality(TraceIds(v)) = Cardinality(p) => TraceIds(v) = p)
  BY <1>1, <1>2, FS_Subset
<1> QED
  BY <1>1, <1>2, <1>3, PageAssumption

LEMMA MissingKept == TInv /\ MissingMeansFull /\ [Next]_vars => MissingMeansFull'
<1> SUFFICES ASSUME TInv, MissingMeansFull, [Next]_vars, cmd' = "missing"
             PROVE  MissingMeansFull'
  BY DEF MissingMeansFull
<1>1. CASE Fetch
  <2>0. PICK p \in Page(args.version) : \E view \in Views(p) : Found(p, view) = {}
    BY <1>1 DEF Fetch, Goto
  <2>1. PICK view \in Views(p) : Found(p, view) = {}
    BY <2>0
  <2>2. UNCHANGED <<args, traces>>
    BY <1>1 DEF Fetch, Goto
  <2> SUFFICES ASSUME ~(Cardinality(TraceIds(args.version)) > PageLimit),
                      NEW i \in DOMAIN traces, traces[i].version = args.version,
                      Plain(traces[i].id)
               PROVE  FALSE
    BY <2>2 DEF MissingMeansFull, TraceIds, Plain, Crowded, Runs
  <2>3. p = TraceIds(args.version)
    BY PageHoldsAll, TraceIdsFinite, PageAssumption
  <2>4. traces[i].id \in p
    BY <2>3 DEF TraceIds
  <2> DEFINE j == view[traces[i].id]
  <2>5. j \in Runs(traces[i].id)
    BY <2>1, <2>4 DEF Views, Plain
  <2>6. ~Tellable(j)
    BY <2>1, <2>4 DEF Found
  <2>7. j # 0
    BY <2>5 DEF Runs, TInv
  <2> QED
    BY <2>5, <2>6, <2>7 DEF Plain, Tellable
<1>2. CASE cmd = "missing" /\ UNCHANGED <<args, traces>>
  BY <1>2 DEF MissingMeansFull, TraceIds, Plain, Crowded, Runs
<1>3. CASE Approve \/ Apply \/ Edit \/ Publish \/ UNCHANGED vars
  BY <1>2, <1>3 DEF Approve, Apply, Edit, Publish, command, vars, lvars
<1>4. CASE Reviews \/ ReviewStep \/ ReviewEnds \/ OtherReview \/ UndecidedReview \/ Analyses \/ Interrupt
  BY <1>4 DEF Reviews, StartReview, ReviewStep, ReviewEnds, OtherReview, UndecidedReview, Analyses,
              StartAnalysis, Interrupt, Goto, lvars, command
<1>5. CASE Unable \/ Analyze \/ Submit \/ WriteJson \/ WriteMd \/ WriteRun
  BY <1>5 DEF Unable, Analyze, Submit, WriteJson, WriteMd, AfterMd, WriteRun, Finished, Goto
<1> QED
  BY <1>1, <1>3, <1>4, <1>5 DEF Next, Reviews, Analyses, ImproverStep

(* The reader reports a case missing only if there are more traces than it  *)
(* reads, or if every trace of the case in the version holds a run without  *)
(* the decision, or of another case, or more spans than it reads.           *)
THEOREM MissingIsExplained == Spec => []MissingMeansFull
<1>1. Init => MissingMeansFull
  BY DEF Init, MissingMeansFull
<1> QED
  BY <1>1, MissingKept, AlwaysTInv, PTL DEF Spec
-----------------------------------------------------------------------------
(* Does the loop close?  Without a developer there are two packages, the    *)
(* first rules and the patched ones, and no version goes back.              *)
AllPatched == [i \in DOMAIN FirstRules |->
                 IF FirstRules[i].id = TargetId
                 THEN [FirstRules[i] EXCEPT !.pattern = SQL_FORMAT_PATTERN] ELSE FirstRules[i]]

VersionsAdvance ==
    edits = 0 =>
        /\ working \in {FirstRules, AllPatched}
        /\ \A v \in DOMAIN versions :
              versions[v] = FirstRules \/ (versions[v] = AllPatched /\ working = AllPatched)
        /\ \A v, w \in DOMAIN versions :
              v < w => versions[v] = FirstRules \/ versions[w] = AllPatched

LEMMA PatchAgain ==
  ASSUME NEW p, p.after = SQL_FORMAT_PATTERN, NEW rules \in {FirstRules, AllPatched}
  PROVE  Patched(rules, p) = AllPatched
<1>1. \A i \in DOMAIN FirstRules : FirstRules[i] \in Rule
  OBVIOUS
<1>2. \A r \in Rule : LET q == [r EXCEPT !.pattern = SQL_FORMAT_PATTERN] IN
                      q.id = r.id /\ [q EXCEPT !.pattern = SQL_FORMAT_PATTERN] = q
  BY DEF Rule
<1>3. CASE rules = FirstRules
  BY <1>3 DEF Patched, AllPatched
<1>4. CASE rules = AllPatched
  <2>1. DOMAIN AllPatched = DOMAIN FirstRules
    BY DEF AllPatched
  <2>2. ASSUME NEW i \in DOMAIN FirstRules
        PROVE  (IF AllPatched[i].id = TargetId
                THEN [AllPatched[i] EXCEPT !.pattern = p.after] ELSE AllPatched[i]) = AllPatched[i]
    BY <1>1, <1>2, <2>2 DEF AllPatched
  <2>3. AllPatched = [i \in DOMAIN FirstRules |-> AllPatched[i]]
    BY DEF AllPatched
  <2> QED
    BY <1>4, <2>1, <2>2, <2>3 DEF Patched
<1> QED
  BY <1>3, <1>4

LEMMA AdvanceKept == TInv /\ GroundedInv /\ VersionsAdvance /\ [Next]_vars => VersionsAdvance'
<1> SUFFICES ASSUME TInv, GroundedInv, VersionsAdvance, [Next]_vars, edits' = 0
             PROVE  VersionsAdvance'
  BY DEF VersionsAdvance
<1>1. CASE UNCHANGED <<working, versions, edits>>
  BY <1>1 DEF VersionsAdvance, AllPatched
<1>2. CASE Edit
  BY <1>2 DEF Edit, TInv
<1>3. CASE Apply
  <2>0. PICK p \in approved : p.kind = "false_negative" /\ working' = Patched(working, p)
    BY <1>3 DEF Apply, HasPatch
  <2>1. edits = 0 /\ UNCHANGED versions /\ p.after = SQL_FORMAT_PATTERN
    BY <1>3, <2>0 DEF Apply, GroundedInv, Grounded
  <2>2. working' = AllPatched
    BY <2>0, <2>1, PatchAgain DEF VersionsAdvance
  <2> QED
    BY <2>1, <2>2 DEF VersionsAdvance
<1>4. CASE Publish
  <2>1. /\ edits = 0 /\ working' = working
        /\ versions' = Append(versions, working) /\ working \in Seq(Rule)
    BY <1>4 DEF Publish, TInv
  <2>2. /\ DOMAIN versions' = 1..(Len(versions) + 1) /\ DOMAIN versions = 1..Len(versions)
        /\ Len(versions) \in Nat
        /\ versions'[Len(versions) + 1] = working
        /\ \A v \in 1..Len(versions) : versions'[v] = versions[v]
    BY <2>1, AppendVersion DEF TInv
  <2>3. \A v \in DOMAIN versions' : v \in DOMAIN versions \/ v = Len(versions) + 1
    BY <2>2
  <2>4. \A v, w \in DOMAIN versions' : v < w => v \in DOMAIN versions
    BY <2>2
  <2>5. \A v \in DOMAIN versions' :
           versions'[v] = FirstRules \/ (versions'[v] = AllPatched /\ working = AllPatched)
    BY <2>1, <2>2, <2>3 DEF VersionsAdvance
  <2>6. \A v, w \in DOMAIN versions' :
           v < w => versions'[v] = FirstRules \/ versions'[w] = AllPatched
    BY <2>1, <2>2, <2>3, <2>4 DEF VersionsAdvance
  <2> QED
    BY <2>1, <2>5, <2>6 DEF VersionsAdvance
<1>5. CASE Reviews \/ ReviewStep \/ ReviewEnds \/ OtherReview \/ UndecidedReview
  BY <1>1, <1>5 DEF Reviews, StartReview, ReviewStep, ReviewEnds, OtherReview, UndecidedReview, lvars, rules_vars
<1>6. CASE Analyses \/ ImproverStep \/ Interrupt
  BY <1>1, <1>6
     DEF Analyses, StartAnalysis, ImproverStep, Fetch, Unable, Analyze, Submit, WriteJson,
         WriteMd, WriteRun, Interrupt, rules_vars
<1>7. CASE Approve \/ UNCHANGED vars
  BY <1>1, <1>7 DEF Approve, vars, lvars, rules_vars
<1> QED
  BY <1>2, <1>3, <1>4, <1>5, <1>6, <1>7 DEF Next, Reviews, Analyses

(* A diff that the first rules approve gets no finding but of the patched   *)
(* rule, and gets one exactly when the pattern is found on an added line.   *)
FixableDiff(d) == \E i \in DOMAIN d : d[i].mark = "+" /\ d[i].text \in SQL_FORMAT_PATTERN

LEMMA HitsOfPatched ==
  ASSUME NEW d \in Seq(Line), Hits([rules |-> FirstRules], d) = {},
         NEW h \in (1..Len(d)) \X (1..Len(FirstRules))
  PROVE  h \in Hits([rules |-> AllPatched], d) <=>
            /\ FirstRules[h[2]].id = TargetId
            /\ d[h[1]].mark = "+" /\ d[h[1]].text \in SQL_FORMAT_PATTERN
<1>1. /\ DOMAIN FirstRules = 1..Len(FirstRules) /\ Len(FirstRules) \in Nat
      /\ h[1] \in 1..Len(d) /\ h[2] \in 1..Len(FirstRules)
      /\ h[2] \in DOMAIN FirstRules /\ FirstRules[h[2]] \in Rule
  OBVIOUS
<1>2. Len(AllPatched) = Len(FirstRules)
  BY <1>1 DEF AllPatched
<1>3. ~(d[h[1]].mark = "+" /\ d[h[1]].text \in FirstRules[h[2]].pattern)
  BY <1>1 DEF Hits
<1>4. h \in Hits([rules |-> AllPatched], d) <=>
         d[h[1]].mark = "+" /\ d[h[1]].text \in AllPatched[h[2]].pattern
  BY <1>1, <1>2 DEF Hits
<1>5. AllPatched[h[2]].pattern = IF FirstRules[h[2]].id = TargetId
                                 THEN SQL_FORMAT_PATTERN ELSE FirstRules[h[2]].pattern
  BY <1>1 DEF AllPatched, Rule
<1> QED
  BY <1>3, <1>4, <1>5

TargetBlocks ==
    \A i \in DOMAIN FirstRules :
        FirstRules[i].id = TargetId => FirstRules[i].severity \in Blocking

LEMMA PatchDecides ==
  ASSUME TargetBlocks, AllPatched # FirstRules, NEW d \in Seq(Line),
         Verdict([rules |-> FirstRules], d) = "approve"
  PROVE  Verdict([rules |-> AllPatched], d) = "changes_requested" <=> FixableDiff(d)
<1> DEFINE old == [rules |-> FirstRules]
           new == [rules |-> AllPatched]
<1>1. Hits(old, d) = {}
  BY DEF Verdict
<1>2. DOMAIN d = 1..Len(d) /\ DOMAIN FirstRules = 1..Len(FirstRules)
  OBVIOUS
<1>3. Hits(new, d) \subseteq (1..Len(d)) \X (1..Len(FirstRules))
  BY <1>2 DEF Hits, AllPatched
<1>4. \A h \in Hits(new, d) : FirstRules[h[2]].id = TargetId /\ FixableDiff(d)
  BY <1>1, <1>2, <1>3, HitsOfPatched DEF FixableDiff
<1>5. \A i \in DOMAIN FirstRules : AllPatched[i].severity = FirstRules[i].severity
  BY DEF AllPatched, Rule
<1>6. ASSUME FixableDiff(d) PROVE Hits(new, d) # {}
  <2>1. PICK j \in DOMAIN FirstRules : FirstRules[j].id = TargetId
    <3>1. SUFFICES ASSUME \A j \in DOMAIN FirstRules : FirstRules[j].id # TargetId PROVE FALSE
      OBVIOUS
    <3>2. AllPatched = [i \in DOMAIN FirstRules |-> FirstRules[i]]
      BY <3>1 DEF AllPatched
    <3> QED
      BY <3>2
  <2>2. PICK i \in DOMAIN d : d[i].mark = "+" /\ d[i].text \in SQL_FORMAT_PATTERN
    BY <1>6 DEF FixableDiff
  <2>3. <<i, j>> \in Hits(new, d)
    BY <1>1, <1>2, <2>1, <2>2, HitsOfPatched
  <2> QED
    BY <2>3
<1>7. \A h \in Hits(new, d) : new.rules[h[2]].severity \in {"high", "critical"}
  BY <1>2, <1>3, <1>4, <1>5 DEF TargetBlocks, Blocking
<1> HIDE DEF new
<1>8. Verdict(new, d) = "changes_requested" <=> FixableDiff(d)
  BY <1>4, <1>6, <1>7 DEF Verdict
<1> QED
  BY <1>8 DEF new

(* After an approved patch a version that wrongly approved a case is        *)
(* followed by versions that request changes of it exactly when the         *)
(* proposed pattern is found on an added line, provided that findings of    *)
(* the patched rule block, as its severity "high" in rules.json makes them. *)
(* The pattern is not found on every line that holds SELECT and .format.    *)
THEOREM LoopClosesWhenTargetBlocks == ASSUME TargetBlocks PROVE Spec => []LoopCloses
<1>1. Init => VersionsAdvance
  <2> SUFFICES ASSUME Init PROVE VersionsAdvance
    OBVIOUS
  <2>1. working = FirstRules /\ versions = <<FirstRules>>
    BY DEF Init
  <2>2. \A v \in DOMAIN versions : versions[v] = FirstRules
    BY <2>1
  <2> QED
    BY <2>1, <2>2 DEF VersionsAdvance
<1>2. Spec => []VersionsAdvance
  BY <1>1, AdvanceKept, AlwaysGrounded, AlwaysTInv, PTL DEF Spec
<1>3. OwnInv /\ VersionsAdvance => LoopCloses
  <2> SUFFICES ASSUME OwnInv, VersionsAdvance, edits = 0,
                      NEW i \in DOMAIN traces, NEW j \in DOMAIN traces,
                      traces[i].own, traces[j].own, traces[j].case = traces[i].case,
                      traces[i].decision = "approve",
                      traces[i].version < traces[j].version,
                      versions[traces[i].version] # versions[traces[j].version]
               PROVE  traces[j].decision = "changes_requested" <=> Fixable(traces[i].case)
    BY DEF LoopCloses
  <2> DEFINE d == CaseDiff[traces[i].case]
  <2>1. /\ traces[i].version \in DOMAIN versions /\ traces[j].version \in DOMAIN versions
        /\ traces[i].case \in Cases
        /\ "approve" = Verdict([rules |-> versions[traces[i].version]], d)
        /\ traces[j].decision = Verdict([rules |-> versions[traces[j].version]], d)
    BY DEF OwnInv, Tells, OfItsVersion
  <2>2. versions[traces[i].version] = FirstRules /\ versions[traces[j].version] = AllPatched
    BY <2>1 DEF VersionsAdvance
  <2>3. d \in Seq(Line)
    BY <2>1
  <2>4. Fixable(traces[i].case) <=> FixableDiff(d)
    BY DEF Fixable, FixableDiff
  <2> HIDE DEF d
  <2> QED
    BY <2>1, <2>2, <2>3, <2>4, PatchDecides
<1> QED
  BY <1>2, <1>3, AlwaysOwn, PTL

-----------------------------------------------------------------------------
(* What the improver holds while it writes is what analyze_trace_gap made   *)
(* of the trace it read and the rules it was given.                         *)
Computed == {"submit", "write_json", "write_md", "write_run"}
ComputedInv ==
    /\ cmd \in {"fetch"} \cup Seen /\ args.mode = "run" =>
          args.version \in DOMAIN versions /\ args.rules = versions[args.version]
    /\ cmd \in {"submit", "write_run"} => args.mode = "run"
    /\ cmd \in Computed =>
          LET d == traces[args.trace].decision IN
          /\ proposal = ProposalOf(d, args.case, args.rules)
          /\ FalseNegative(d, args.case) => HasTarget(args.rules)

LEMMA ComputedKept == TInv /\ ComputedInv /\ [Next]_vars => ComputedInv'
<1> SUFFICES ASSUME TInv, ComputedInv, [Next]_vars PROVE ComputedInv'
  OBVIOUS
<1> USE DEF Computed, Seen
<1>0. /\ args \in Args
      /\ \A v \in DOMAIN versions : v \in DOMAIN versions' /\ versions'[v] = versions[v]
      /\ \A i \in DOMAIN traces : i \in DOMAIN traces' /\ traces'[i] = traces[i]
      /\ cmd \in Seen => args.trace \in DOMAIN traces
  BY VersionsGrow, TracesGrow DEF TInv
<1>1. CASE UNCHANGED <<cmd, args, proposal>>
  <2>1. cmd \in Computed =>
          /\ traces'[args.trace] = traces[args.trace]
          /\ proposal' = ProposalOf(traces'[args.trace].decision, args.case, args.rules)
          /\ FalseNegative(traces'[args.trace].decision, args.case) => HasTarget(args.rules)
    BY <1>0, <1>1 DEF ComputedInv
  <2>2. (cmd \in Computed =>
            LET d == traces[args.trace].decision IN
            /\ proposal = ProposalOf(d, args.case, args.rules)
            /\ FalseNegative(d, args.case) => HasTarget(args.rules))'
    BY <1>1, <2>1 DEF ProposalOf, Unpatched
  <2>3. cmd \in {"fetch"} \cup Seen /\ args.mode = "run" =>
          args.version \in DOMAIN versions' /\ args.rules = versions'[args.version]
    BY <1>0 DEF ComputedInv
  <2> QED
    BY <1>1, <2>2, <2>3 DEF ComputedInv
<1>2. CASE cmd' \in {"idle", "review", "missing", "unmapped"}
  BY <1>2 DEF ComputedInv
<1>3. CASE Analyses
  <2>1. PICK v \in DOMAIN versions, c \in Cases, mode \in {"run", "analyze"} :
             StartAnalysis(v, c, mode)
    BY <1>3 DEF Analyses
  <2>2. /\ cmd' = "fetch" /\ versions' = versions
        /\ args'.mode = mode /\ args'.version = v /\ args'.rules = RulesCompared(v, mode)
    BY <2>1 DEF StartAnalysis, Given, Goto, rules_vars
  <2> QED
    BY <2>2 DEF ComputedInv, RulesCompared
<1>4. CASE Fetch /\ cmd' # "missing"
  <2>1. PICK t : cmd' = "analyze" /\ args' = [args EXCEPT !.trace = t] /\ cmd = "fetch"
    BY <1>4 DEF Fetch, Goto
  <2>2. args'.mode = args.mode /\ args'.version = args.version /\ args'.rules = args.rules
    BY <1>0, <2>1 DEF Args
  <2> QED
    BY <1>0, <2>1, <2>2 DEF ComputedInv
<1>5. CASE Analyze /\ cmd' # "unmapped"
  <2> DEFINE d == traces[args.trace].decision
  <2>1. /\ proposal' = ProposalOf(d, args.case, args.rules)
        /\ ~(FalseNegative(d, args.case) /\ ~HasTarget(args.rules))
        /\ cmd = "analyze" /\ cmd' = (IF args.mode = "run" THEN "submit" ELSE "write_json")
        /\ UNCHANGED <<args, traces, versions>>
    BY <1>5 DEF Analyze, Goto, rules_vars
  <2> QED
    BY <2>1 DEF ComputedInv, ProposalOf, Unpatched
<1>6. CASE Submit \/ WriteJson
  <2>1. /\ cmd \in Computed /\ cmd' \in {"write_json", "write_md"}
        /\ UNCHANGED <<args, proposal, traces, versions>>
    BY <1>6 DEF Submit, WriteJson, Goto, rules_vars
  <2> QED
    BY <2>1 DEF ComputedInv, ProposalOf, Unpatched
<1>7. CASE WriteMd /\ cmd' # "idle"
  <2>1. /\ cmd = "write_md" /\ cmd' = "write_run" /\ args.mode = "run"
        /\ UNCHANGED <<args, proposal, traces, versions>>
    BY <1>7 DEF WriteMd, AfterMd, Finished, Goto, rules_vars
  <2> QED
    BY <2>1 DEF ComputedInv, ProposalOf, Unpatched
<1>8. CASE Reviews \/ ReviewStep \/ ReviewEnds \/ OtherReview \/ UndecidedReview
  BY <1>1, <1>2, <1>8 DEF Reviews, StartReview, ReviewStep, ReviewEnds, OtherReview, UndecidedReview, Goto,
                          lvars, command
<1>9. CASE Unable \/ WriteRun \/ Interrupt
  BY <1>2, <1>9 DEF Unable, WriteRun, Finished, Interrupt, Goto
<1>10. CASE Approve \/ Apply \/ Edit \/ Publish \/ UNCHANGED vars
  BY <1>1, <1>10 DEF Approve, Apply, Edit, Publish, command, vars, lvars
<1>11. CASE ImproverStep
  BY <1>2, <1>4, <1>5, <1>6, <1>7, <1>9, <1>11 DEF ImproverStep
<1> QED
  BY <1>3, <1>8, <1>9, <1>10, <1>11 DEF Next, Reviews, Analyses

(* For every manifest and all rules, edited ones included: a patch that     *)
(* changes nothing, proposed on the evidence of the version it is for, is   *)
(* for a case that the pattern cannot find, so the loop cannot close there. *)
THEOREM EmptyPatchesCannotHelp == Spec => []EmptyPatchesAreUnfixable
<1>1. Init => ComputedInv
  BY DEF Init, ComputedInv, Computed, Seen
<1>2. TInv /\ OwnInv /\ ComputedInv => EmptyPatchesAreUnfixable
  <2> SUFFICES ASSUME TInv, OwnInv, ComputedInv,
                      cmd = "write_run", proposal.kind = "false_negative",
                      proposal.before = proposal.after,
                      traces[args.trace].own, traces[args.trace].version = args.version,
                      Fixable(args.case)
               PROVE  FALSE
    BY DEF EmptyPatchesAreUnfixable
  <2> DEFINE t == traces[args.trace]
             rules == args.rules
  <2>1. /\ args \in Args /\ args.trace \in DOMAIN traces /\ t.case = args.case
        /\ args.case \in Cases
    BY DEF TInv, Seen
  <2>2. /\ rules = versions[args.version]
        /\ proposal = ProposalOf(t.decision, args.case, rules)
        /\ FalseNegative(t.decision, args.case) => HasTarget(rules)
    BY DEF ComputedInv, Computed, Seen
  <2>3. /\ FalseNegative(t.decision, args.case)
        /\ proposal.before = rules[Target(rules)].pattern
        /\ proposal.after = SQL_FORMAT_PATTERN
    BY <2>2 DEF ProposalOf, Unpatched
  <2>4. "approve" = Verdict([rules |-> rules], CaseDiff[args.case])
    BY <2>1, <2>2, <2>3 DEF OwnInv, Tells, OfItsVersion, FalseNegative
  <2>5. rules \in Seq(Rule) /\ Target(rules) \in DOMAIN rules
    BY <2>1, <2>2, <2>3, FirstTarget DEF Args
  <2>6. PICK i \in DOMAIN CaseDiff[args.case] :
             /\ CaseDiff[args.case][i].mark = "+"
             /\ CaseDiff[args.case][i].text \in SQL_FORMAT_PATTERN
    BY DEF Fixable
  <2>7. DOMAIN CaseDiff[args.case] = 1..Len(CaseDiff[args.case]) /\ DOMAIN rules = 1..Len(rules)
    BY <2>1, <2>5
  <2>8. <<i, Target(rules)>> \in Hits([rules |-> rules], CaseDiff[args.case])
    BY <2>3, <2>5, <2>6, <2>7 DEF Hits
  <2> QED
    BY <2>4, <2>8 DEF Verdict
<1> QED
  BY <1>1, <1>2, ComputedKept, AlwaysOwn, AlwaysTInv, PTL DEF Spec
=============================================================================
