------------------------- MODULE ReviewGraphProofs --------------------------
(***************************************************************************)
(* Proofs about ReviewGraph for every set of rules and every diff: the     *)
(* loop of inspect_diff finds what Hits defines.  The invariant follows    *)
(* the position of the loop; a module that interleaves other steps with    *)
(* those of the graph uses StepKeepsInv.                                   *)
(***************************************************************************)
EXTENDS ReviewGraph, TLAPS

FindingType == [line: Nat, rule: Nat, severity: Severities, knowledge_ids: SUBSET DocumentIds]
PairOf(f) == <<f.line, f.rule>>

(* The findings fs of package p are exactly those at H, in order. *)
Lists(fs, p, H) ==
    /\ \A k \in DOMAIN fs : /\ PairOf(fs[k]) \in H
                            /\ fs[k].severity = p.rules[fs[k].rule].severity
                            /\ fs[k].knowledge_ids = p.rules[fs[k].rule].knowledge_ids
    /\ \A h \in H : \E k \in DOMAIN fs : PairOf(fs[k]) = h
    /\ \A i, j \in DOMAIN fs : i < j => Before(PairOf(fs[i]), PairOf(fs[j]))

(* The hits before a position of the loop. *)
Passed(p, d, l, r) == {h \in Hits(p, d) : Before(h, <<l, r>>)}

GInv ==
    /\ GTypeOK
    /\ node \in {"load_skill", "load_knowledge", "compile"} =>
          line = 1 /\ rule = 1 /\ findings = <<>>
    /\ node = "inspect_diff" =>
          /\ rule <= Len(skill.rules) \/ skill.rules = <<>>
          /\ Lists(findings, skill, Passed(skill, diff, line, rule))
    /\ node \in {"decide", "decided"} => Lists(findings, skill, Hits(skill, diff))
    /\ node \in {"compile", "inspect_diff", "decide"} => documents = Needed(skill)
    /\ node = "decided" =>
          /\ decision = DecisionOf(findings)
          /\ documents = {x \in Needed(skill) : \E i \in DOMAIN findings :
                                                   x \in findings[i].knowledge_ids}

Begins == \E v \in Nat, p \in Package, d \in Seq(Line) : Start(v, p, d)

(* Every part of a package has its type. *)
LEMMA PackageFields ==
  ASSUME NEW p \in Package
  PROVE  /\ p.version \in Nat /\ p.rules \in Seq(Rule)
         /\ Len(p.rules) \in Nat /\ DOMAIN p.rules = 1..Len(p.rules)
         /\ \A i \in 1..Len(p.rules) : /\ p.rules[i].severity \in Severities
                                       /\ p.rules[i].knowledge_ids \in SUBSET DocumentIds
<1>1. p.version \in Nat /\ p.rules \in Seq(Rule)
  BY DEF Package
<1>2. /\ Len(p.rules) \in Nat /\ DOMAIN p.rules = 1..Len(p.rules)
      /\ \A i \in 1..Len(p.rules) : p.rules[i] \in Rule
  BY <1>1
<1>3. \A r \in Rule : r.severity \in Severities /\ r.knowledge_ids \in SUBSET DocumentIds
  BY DEF Rule
<1> QED
  BY <1>1, <1>2, <1>3

LEMMA NeededType == ASSUME NEW p \in Package PROVE Needed(p) \in SUBSET DocumentIds
  BY PackageFields DEF Needed

(* A finding after all others extends the list. *)
LEMMA ListsAppend ==
  ASSUME NEW fs \in Seq(FindingType), NEW p, NEW H, NEW f \in FindingType,
         Lists(fs, p, H),
         f.severity = p.rules[f.rule].severity,
         f.knowledge_ids = p.rules[f.rule].knowledge_ids,
         \A h \in H : Before(h, PairOf(f))
  PROVE  Lists(Append(fs, f), p, H \cup {PairOf(f)})
<1> DEFINE gs == Append(fs, f)
<1>1. /\ Len(fs) \in Nat /\ DOMAIN fs = 1..Len(fs) /\ DOMAIN gs = 1..(Len(fs) + 1)
      /\ gs[Len(fs) + 1] = f
      /\ \A k \in 1..Len(fs) : gs[k] = fs[k]
  OBVIOUS
<1> HIDE DEF gs
<1>2. ASSUME NEW k \in DOMAIN gs
      PROVE  /\ PairOf(gs[k]) \in H \cup {PairOf(f)}
             /\ gs[k].severity = p.rules[gs[k].rule].severity
             /\ gs[k].knowledge_ids = p.rules[gs[k].rule].knowledge_ids
  <2>1. CASE k = Len(fs) + 1
    BY <1>1, <2>1
  <2>2. CASE k \in 1..Len(fs)
    BY <1>1, <2>2 DEF Lists
  <2> QED
    BY <1>1, <2>1, <2>2
<1>3. ASSUME NEW h \in H \cup {PairOf(f)} PROVE \E k \in DOMAIN gs : PairOf(gs[k]) = h
  <2>1. CASE h \in H
    <3>1. PICK k \in 1..Len(fs) : PairOf(fs[k]) = h
      BY <1>1, <2>1 DEF Lists
    <3> QED
      BY <1>1, <3>1
  <2>2. CASE h = PairOf(f)
    BY <1>1, <2>2
  <2> QED
    BY <2>1, <2>2
<1>4. ASSUME NEW i \in DOMAIN gs, NEW j \in DOMAIN gs, i < j
      PROVE  Before(PairOf(gs[i]), PairOf(gs[j]))
  <2>1. i \in 1..Len(fs)
    BY <1>1, <1>4
  <2>2. CASE j \in 1..Len(fs)
    BY <1>1, <1>4, <2>1, <2>2 DEF Lists
  <2>3. CASE j = Len(fs) + 1
    <3>1. PairOf(fs[i]) \in H
      BY <1>1, <2>1 DEF Lists
    <3> QED
      BY <1>1, <2>1, <2>3, <3>1
  <2> QED
    BY <1>1, <2>2, <2>3
<1> QED
  BY <1>2, <1>3, <1>4 DEF Lists, gs

(* One step of the loop passes one position. *)
LEMMA PassedNext ==
  ASSUME NEW p \in Package, NEW d \in Seq(Line),
         NEW l \in 1..Len(d), NEW r \in 1..Len(p.rules)
  PROVE  LET hit == <<l, r>> \in Hits(p, d)
             passed == Passed(p, d, l, r) \cup (IF hit THEN {<<l, r>>} ELSE {}) IN
         /\ r < Len(p.rules) => Passed(p, d, l, r + 1) = passed
         /\ r = Len(p.rules) => Passed(p, d, l + 1, 1) = passed
<1>1. Len(p.rules) \in Nat /\ Len(d) \in Nat
  BY PackageFields
<1>2. \A h \in Hits(p, d) : /\ h[1] \in 1..Len(d) /\ h[2] \in 1..Len(p.rules)
                            /\ h = <<h[1], h[2]>>
  BY DEF Hits
<1>3. ASSUME r < Len(p.rules), NEW h \in Hits(p, d)
      PROVE  Before(h, <<l, r + 1>>) <=> Before(h, <<l, r>>) \/ h = <<l, r>>
  BY <1>1, <1>2, <1>3 DEF Before
<1>4. ASSUME r = Len(p.rules), NEW h \in Hits(p, d)
      PROVE  Before(h, <<l + 1, 1>>) <=> Before(h, <<l, r>>) \/ h = <<l, r>>
  BY <1>1, <1>2, <1>4 DEF Before
<1>5. ASSUME r < Len(p.rules)
      PROVE Passed(p, d, l, r + 1) = Passed(p, d, l, r) \cup
                 (IF <<l, r>> \in Hits(p, d) THEN {<<l, r>>} ELSE {})
  BY <1>3, <1>5 DEF Passed
<1>6. ASSUME r = Len(p.rules)
      PROVE Passed(p, d, l + 1, 1) = Passed(p, d, l, r) \cup
                 (IF <<l, r>> \in Hits(p, d) THEN {<<l, r>>} ELSE {})
  BY <1>4, <1>6 DEF Passed
<1> QED
  BY <1>5, <1>6

(* The loop starts with nothing passed and ends with every hit passed. *)
LEMMA PassedFirst ==
  ASSUME NEW p \in Package, NEW d \in Seq(Line)
  PROVE  Passed(p, d, 1, 1) = {}
  BY PackageFields DEF Passed, Hits, Before

LEMMA PassedAll ==
  ASSUME NEW p \in Package, NEW d \in Seq(Line), NEW l \in Nat, NEW r \in Nat,
         l > Len(d) \/ p.rules = <<>>
  PROVE  Passed(p, d, l, r) = Hits(p, d)
<1>1. CASE l > Len(d)
  BY <1>1, PackageFields DEF Passed, Hits, Before
<1>2. CASE p.rules = <<>>
  <2>1. Hits(p, d) = {}
    BY <1>2 DEF Hits
  <2> QED
    BY <2>1 DEF Passed
<1> QED
  BY <1>1, <1>2

-----------------------------------------------------------------------------
LEMMA InitInv == GInit => GInv
  BY PackageFields DEF GInit, GInv, GTypeOK, Nodes, NoPackage, Package, Severities

LEMMA IdleInv == GInv /\ Idle("idle") => GInv'
  BY DEF Idle, GInv, GTypeOK, Nodes, NoPackage, Package

LEMMA StartInv ==
  ASSUME NEW v \in Nat, NEW p \in Package, NEW d \in Seq(Line), Start(v, p, d)
  PROVE  GInv'
  BY DEF Start, GInv, GTypeOK, Nodes

LEMMA FailInv == GInv /\ Fail => GInv'
  BY DEF Fail, GInv, GTypeOK, Nodes

LEMMA LoadInv == GInv /\ (LoadSkill \/ LoadKnowledge) => GInv'
<1> SUFFICES ASSUME GInv, LoadSkill \/ LoadKnowledge PROVE GInv'
  OBVIOUS
<1>1. CASE LoadSkill
  BY <1>1, FailInv DEF LoadSkill, GInv, GTypeOK, Nodes
<1>2. CASE LoadKnowledge
  <2>1. CASE Fail
    BY <2>1, FailInv
  <2>2. CASE ~Fail
    <3>1. Needed(skill) \in SUBSET DocumentIds
      BY NeededType DEF GInv, GTypeOK
    <3> QED
      BY <1>2, <2>2, <3>1 DEF LoadKnowledge, GInv, GTypeOK, Nodes, Needed
  <2> QED
    BY <2>1, <2>2
<1> QED
  BY <1>1, <1>2

LEMMA CompileInv == GInv /\ Compile => GInv'
<1> SUFFICES ASSUME GInv, Compile PROVE GInv'
  OBVIOUS
<1>1. CASE Fail
  BY <1>1, FailInv
<1>2. CASE ~Fail
  <2>1. /\ node = "compile" /\ node' = "inspect_diff"
        /\ UNCHANGED <<reference, skill, diff, line, rule, findings, decision, documents>>
        /\ line = 1 /\ rule = 1 /\ findings = <<>> /\ documents = Needed(skill)
        /\ skill \in Package /\ diff \in Seq(Line)
    BY <1>2 DEF Compile, GInv, GTypeOK
  <2>2. Passed(skill, diff, 1, 1) = {}
    BY <2>1, PassedFirst
  <2>3. Lists(<<>>, skill, {})
    BY DEF Lists
  <2>4. 1 <= Len(skill.rules) \/ skill.rules = <<>>
    BY <2>1, PackageFields
  <2>5. Lists(findings, skill, Passed(skill, diff, line, rule))'
    BY <2>1, <2>2, <2>3
  <2>6. Needed(skill)' = Needed(skill)
    BY <2>1 DEF Needed
  <2> QED
    BY <2>1, <2>4, <2>5, <2>6 DEF GInv, GTypeOK, Nodes
<1> QED
  BY <1>1, <1>2

LEMMA InspectInv == GInv /\ Inspect => GInv'
<1> SUFFICES ASSUME GInv, Inspect PROVE GInv'
  OBVIOUS
<1> DEFINE f == Finding(line, rule)
           hit == Added(diff[line]) /\ Matches(skill.rules[rule], diff[line])
<1>1. /\ node = "inspect_diff" /\ UNCHANGED <<node, reference, skill, diff, decision, documents>>
      /\ skill \in Package /\ diff \in Seq(Line) /\ findings \in Seq(FindingType)
      /\ line \in 1..Len(diff) /\ rule \in 1..Len(skill.rules)
      /\ Lists(findings, skill, Passed(skill, diff, line, rule))
      /\ documents = Needed(skill)
  BY DEF Inspect, GInv, GTypeOK, FindingType
<1>2. Len(skill.rules) \in Nat /\ Len(diff) \in Nat
  BY <1>1, PackageFields
<1>3. /\ findings' = IF hit THEN Append(findings, f) ELSE findings
      /\ NextRule(hit)
  BY DEF Inspect
<1>4. hit <=> <<line, rule>> \in Hits(skill, diff)
  BY <1>1 DEF Hits, Added, Matches
<1>5. /\ f \in FindingType /\ PairOf(f) = <<line, rule>>
      /\ f.severity = skill.rules[f.rule].severity
      /\ f.knowledge_ids = skill.rules[f.rule].knowledge_ids
  BY <1>1, PackageFields DEF Finding, FindingType, PairOf
<1> HIDE DEF f, hit
<1> DEFINE H == Passed(skill, diff, line, rule) \cup (IF hit THEN {<<line, rule>>} ELSE {})
<1>6. Lists(findings', skill, H) /\ findings' \in Seq(FindingType)
  <2>1. CASE hit
    <3>1. \A h \in Passed(skill, diff, line, rule) : Before(h, PairOf(f))
      BY <1>5 DEF Passed
    <3>2. Lists(Append(findings, f), skill, Passed(skill, diff, line, rule) \cup {PairOf(f)})
      BY <1>1, <1>5, <3>1, ListsAppend
    <3> QED
      BY <1>1, <1>3, <1>5, <2>1, <3>2
  <2>2. CASE ~hit
    BY <1>1, <1>3, <2>2
  <2> QED
    BY <2>1, <2>2
<1>7. H = Passed(skill, diff, line', rule') /\ line' \in Nat \ {0} /\ rule' \in Nat \ {0}
      /\ rule' <= Len(skill.rules)
  <2>1. CASE rule < Len(skill.rules)
    <3>1. line' = line /\ rule' = rule + 1
      BY <1>3, <2>1 DEF NextRule
    <3> QED
      BY <1>1, <1>2, <1>4, <2>1, <3>1, PassedNext
  <2>2. CASE rule = Len(skill.rules)
    <3>1. line' = line + 1 /\ rule' = 1
      BY <1>1, <1>2, <1>3, <2>2 DEF NextRule
    <3>2. Passed(skill, diff, line + 1, 1) = H
      BY <1>1, <1>4, <2>2, PassedNext
    <3>3. 1 <= Len(skill.rules)
      BY <1>1, <1>2
    <3>4. line + 1 \in Nat \ {0}
      BY <1>1, <1>2
    <3> QED
      BY <3>1, <3>2, <3>3, <3>4
  <2> QED
    BY <1>1, <1>2, <2>1, <2>2
<1>8. Lists(findings, skill, Passed(skill, diff, line, rule))'
  BY <1>1, <1>6, <1>7
<1>9. Needed(skill)' = Needed(skill)
  BY <1>1 DEF Needed
<1>10. GTypeOK'
  BY <1>1, <1>6, <1>7 DEF GInv, GTypeOK, FindingType
<1> QED
  BY <1>1, <1>7, <1>8, <1>9, <1>10 DEF GInv

LEMMA InspectEndsInv == GInv /\ InspectEnds => GInv'
<1> SUFFICES ASSUME GInv, InspectEnds PROVE GInv'
  OBVIOUS
<1>1. /\ node = "inspect_diff" /\ node' = "decide"
      /\ UNCHANGED <<reference, skill, diff, line, rule, findings, decision, documents>>
      /\ line > Len(diff) \/ skill.rules = <<>>
      /\ skill \in Package /\ diff \in Seq(Line) /\ line \in Nat /\ rule \in Nat
      /\ documents = Needed(skill)
      /\ Lists(findings, skill, Passed(skill, diff, line, rule))
  BY DEF InspectEnds, GInv, GTypeOK
<1>2. Passed(skill, diff, line, rule) = Hits(skill, diff)
  BY <1>1, PassedAll
<1>3. Lists(findings, skill, Hits(skill, diff))' /\ Needed(skill)' = Needed(skill)
  BY <1>1, <1>2 DEF Needed
<1> QED
  BY <1>1, <1>3 DEF GInv, GTypeOK, Nodes

LEMMA DecideInv == GInv /\ Decide => GInv'
<1> SUFFICES ASSUME GInv, Decide PROVE GInv'
  OBVIOUS
<1>1. /\ node = "decide" /\ node' = "decided"
      /\ UNCHANGED <<reference, skill, diff, line, rule, findings>>
      /\ decision' = DecisionOf(findings) /\ documents' = UsedDocuments(findings)
      /\ documents = Needed(skill) /\ Lists(findings, skill, Hits(skill, diff))
  BY DEF Decide, GInv
<1>2. /\ Lists(findings, skill, Hits(skill, diff))'
      /\ Needed(skill)' = Needed(skill)
      /\ DecisionOf(findings)' = DecisionOf(findings)
  BY <1>1 DEF Needed, DecisionOf
<1>3. documents' = {x \in Needed(skill) : \E i \in DOMAIN findings : x \in findings[i].knowledge_ids}
  BY <1>1 DEF UsedDocuments
<1>4. DecisionOf(findings) \in Decisions
  BY DEF DecisionOf, Decisions
<1>5. GTypeOK'
  BY <1>1, <1>3, <1>4 DEF GInv, GTypeOK, Nodes
<1> QED
  BY <1>1, <1>2, <1>3, <1>5 DEF GInv

(* Every step of the graph, of its caller, and every step of others keeps   *)
(* the invariant.                                                           *)
LEMMA StepKeepsInv ==
  ASSUME GInv, GraphStep \/ Begins \/ Idle("idle") \/ UNCHANGED gvars
  PROVE  GInv'
<1>1. CASE UNCHANGED gvars
  BY <1>1 DEF gvars, GInv, GTypeOK, Needed, DecisionOf
<1>2. CASE GraphStep
  BY <1>2, LoadInv, CompileInv, InspectInv, InspectEndsInv, DecideInv DEF GraphStep
<1> QED
  BY <1>1, <1>2, StartInv, IdleInv DEF Begins

LEMMA AlwaysInv == GSpec => []GInv
<1>1. GInv /\ [GNext]_gvars => GInv'
  BY StepKeepsInv DEF GNext, Begins
<1> QED
  BY <1>1, InitInv, PTL DEF GSpec

(* Type correctness of a review. *)
THEOREM GraphTypeCorrect == GSpec => []GTypeOK
<1>1. GInv => GTypeOK
  BY DEF GInv
<1> QED
  BY <1>1, AlwaysInv, PTL

LEMMA InvFindings == GInv => FindingsExact
  BY DEF GInv, FindingsExact, Lists, At, PairOf

(* inspect_diff finds every match of a rule on an added line, once and in   *)
(* order, and nothing else: whatever the rules and the diff.                *)
THEOREM FindingsAreExact == GSpec => []FindingsExact
  BY InvFindings, AlwaysInv, PTL

LEMMA InvDecision == GInv => DecisionExact
<1> SUFFICES ASSUME GInv, node = "decided" 
    PROVE  /\ decision = Verdict(skill, diff)
           /\ documents = UNION {skill.rules[h[2]].knowledge_ids : h \in Hits(skill, diff)}
  BY DEF DecisionExact
<1>1. /\ Lists(findings, skill, Hits(skill, diff))
      /\ decision = DecisionOf(findings) /\ findings \in Seq(FindingType)
      /\ documents = {x \in Needed(skill) : \E i \in DOMAIN findings : x \in findings[i].knowledge_ids}
      /\ skill \in Package
  BY DEF GInv, GTypeOK, FindingType
<1>2. \A k \in DOMAIN findings : \E h \in Hits(skill, diff) :
         /\ findings[k].severity = skill.rules[h[2]].severity
         /\ findings[k].knowledge_ids = skill.rules[h[2]].knowledge_ids
  BY <1>1 DEF Lists, PairOf
<1>3. \A h \in Hits(skill, diff) : \E k \in DOMAIN findings :
         /\ findings[k].severity = skill.rules[h[2]].severity
         /\ findings[k].knowledge_ids = skill.rules[h[2]].knowledge_ids
  BY <1>1 DEF Lists, PairOf
<1>4. \A h \in Hits(skill, diff) : h[2] \in DOMAIN skill.rules
  BY <1>1, PackageFields DEF Hits
<1>5. findings = <<>> <=> Hits(skill, diff) = {}
  <2>1. findings # <<>> => 1 \in DOMAIN findings
    BY <1>1
  <2>2. findings = <<>> => DOMAIN findings = {}
    OBVIOUS
  <2> QED
    BY <1>2, <1>3, <2>1, <2>2
<1>6. decision = Verdict(skill, diff)
  BY <1>1, <1>2, <1>3, <1>5 DEF DecisionOf, Verdict, Blocking
<1>7. ASSUME NEW x
      PROVE  x \in documents <=> x \in UNION {skill.rules[h[2]].knowledge_ids : h \in Hits(skill, diff)}
  BY <1>1, <1>2, <1>3, <1>4 DEF Needed
<1> QED
  BY <1>6, <1>7

(* A review decides what its rules say of its diff and cites the documents  *)
(* of the rules that matched.                                               *)
THEOREM DecisionIsExact == GSpec => []DecisionExact
  BY InvDecision, AlwaysInv, PTL

(* The verdict depends on the rules alone, not on the name of the package. *)
LEMMA VerdictOfRules ==
  ASSUME NEW p, NEW q, NEW d, p.rules = q.rules
  PROVE  Verdict(p, d) = Verdict(q, d)
<1>1. Hits(p, d) = Hits(q, d)
  BY DEF Hits
<1> QED
  BY <1>1 DEF Verdict
=============================================================================
