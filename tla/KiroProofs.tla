----------------------------- MODULE KiroProofs -----------------------------
(***************************************************************************)
(* Proofs about KiroStream for every set of events and every limit, and    *)
(* about the spans of KiroTrace for every run.  The invariant of the       *)
(* parser says what its variables hold of the events before next.          *)
(***************************************************************************)
EXTENDS KiroStream, KiroTrace, TLAPS, SequenceTheorems

USE EventsAssumption, LimitsAssumption, NoneAssumption

(* What the scan has collected when it stands before event n. *)
FinalOf(n) ==
    final # None =>
        \E i \in 1..(n - 1) :
            /\ SetsFinal(events[i]) /\ final = events[i].final
            /\ \A j \in 1..(n - 1) : j > i => ~SetsFinal(events[j])
CreditsOf(n) ==
    \/ credits = 0
    \/ \E i \in 1..(n - 1) :
          /\ events[i].kind = "update" /\ events[i].usage = credits
          /\ \A j \in 1..(n - 1) : j > i => events[j].kind # "update" \/ events[j].usage = 0
Scanned(n) ==
    /\ \A x : x \in SeqRange(tool_names) <=> \E i \in 1..(n - 1) : x \in ReportedBy(events[i])
    /\ FinalOf(n)
    /\ CreditsOf(n)

(* The names before index n are checked and translated, each once. *)
Checked(n) ==
    /\ \A i \in 1..(n - 1) : tool_names[i] \in ALLOWED_KIRO_TOOLS
    /\ \A x : x \in SeqRange(normalized) <=> \E i \in 1..(n - 1) : x = Canonical(tool_names[i])
    /\ \A i, j \in DOMAIN normalized : normalized[i] = normalized[j] => i = j

KInv ==
    /\ STypeOK
    /\ phase = "read" => /\ next = 1 /\ tool_names = <<>> /\ final = None
                         /\ credits = 0 /\ normalized = <<>>
    /\ phase = "scan" => /\ next <= Len(events) + 1 /\ normalized = <<>>
                         /\ Scanned(next)
    /\ phase = "result" => Scanned(Len(events) + 1) /\ normalized = <<>>
    /\ phase \in {"names", "accepted"} => /\ final # None /\ ValidResult(final)
                                       /\ Scanned(Len(events) + 1)
    /\ phase = "names" => next <= Len(tool_names) + 1 /\ Checked(next)
    /\ phase = "accepted" => Checked(Len(tool_names) + 1)

Opens == (phase' \in {"idle", "read"}) /\ Fresh

LEMMA RangeConcat ==
  ASSUME NEW S, NEW s \in Seq(S), NEW t \in Seq(S)
  PROVE  s \o t \in Seq(S) /\ SeqRange(s \o t) = SeqRange(s) \cup SeqRange(t)
<1> DEFINE u == s \o t
<1>1. /\ u \in Seq(S) /\ Len(s) \in Nat /\ Len(t) \in Nat
      /\ DOMAIN s = 1..Len(s) /\ DOMAIN t = 1..Len(t) /\ DOMAIN u = 1..(Len(s) + Len(t))
      /\ \A i \in 1..Len(s) : u[i] = s[i]
      /\ \A i \in 1..(Len(s) + Len(t)) : i > Len(s) => u[i] = t[i - Len(s)]
  <2>0. /\ u \in Seq(S) /\ Len(u) = Len(s) + Len(t)
        /\ \A i \in 1..(Len(s) + Len(t)) : u[i] = IF i <= Len(s) THEN s[i] ELSE t[i - Len(s)]
    BY ConcatProperties
  <2>1. /\ u \in Seq(S) /\ Len(u) = Len(s) + Len(t)
        /\ \A i \in 1..Len(s) : u[i] = s[i]
        /\ \A i \in Len(s)+1 .. Len(s)+Len(t) : u[i] = t[i - Len(s)]
    BY ConcatProperties
  <2>2. /\ Len(s) \in Nat /\ Len(t) \in Nat /\ DOMAIN s = 1..Len(s) /\ DOMAIN t = 1..Len(t)
    OBVIOUS
  <2> HIDE DEF u
  <2>3. DOMAIN u = 1..Len(u)
    BY <2>1
  <2> QED
    BY <2>1, <2>2, <2>3
<1> HIDE DEF u
<1>2. ASSUME NEW i \in 1..Len(t)
      PROVE  Len(s) + i \in DOMAIN u /\ u[Len(s) + i] = t[i]
  <2>1. Len(s) + i \in 1..(Len(s) + Len(t)) /\ Len(s) + i > Len(s) /\ (Len(s) + i) - Len(s) = i
    BY <1>1
  <2> QED
    BY <1>1, <2>1
<1>3. \A i \in DOMAIN u : i \in 1..Len(s) \/ (i > Len(s) /\ i - Len(s) \in 1..Len(t))
  BY <1>1
<1>4. \A i \in 1..Len(s) : i \in DOMAIN u
  BY <1>1
<1>5. SeqRange(u) = SeqRange(s) \cup SeqRange(t)
  BY <1>1, <1>2, <1>3, <1>4 DEF SeqRange
<1> QED
  BY <1>1, <1>5 DEF u

LEMMA AppendNew ==
  ASSUME NEW S, NEW s \in Seq(S), NEW c \in S
  PROVE  /\ Append(s, c) \in Seq(S)
         /\ SeqRange(Append(s, c)) = SeqRange(s) \cup {c}
         /\ (\A i, j \in DOMAIN s : s[i] = s[j] => i = j) /\ c \notin SeqRange(s)
               => \A i, j \in DOMAIN Append(s, c) : Append(s, c)[i] = Append(s, c)[j] => i = j
<1> DEFINE u == Append(s, c)
<1>1. /\ u \in Seq(S) /\ Len(s) \in Nat
      /\ DOMAIN s = 1..Len(s) /\ DOMAIN u = 1..(Len(s) + 1)
      /\ u[Len(s) + 1] = c
      /\ \A i \in 1..Len(s) : u[i] = s[i]
  <2>1. /\ u \in Seq(S) /\ Len(u) = Len(s) + 1
        /\ \A i \in 1..Len(s) : u[i] = s[i]
        /\ u[Len(s) + 1] = c
    BY AppendProperties
  <2>2. Len(s) \in Nat /\ DOMAIN s = 1..Len(s)
    OBVIOUS
  <2> HIDE DEF u
  <2>3. DOMAIN u = 1..Len(u)
    BY <2>1
  <2> QED
    BY <2>1, <2>2, <2>3
<1> HIDE DEF u
<1>2. \A i \in DOMAIN u : i \in 1..Len(s) \/ i = Len(s) + 1
  BY <1>1
<1>3. Len(s) + 1 \in DOMAIN u /\ \A i \in 1..Len(s) : i \in DOMAIN u
  BY <1>1
<1>4. SeqRange(u) = SeqRange(s) \cup {c}
  BY <1>1, <1>2, <1>3 DEF SeqRange
<1>5. ASSUME \A i, j \in DOMAIN s : s[i] = s[j] => i = j, c \notin SeqRange(s),
             NEW i \in DOMAIN u, NEW j \in DOMAIN u, u[i] = u[j]
      PROVE  i = j
  BY <1>1, <1>2, <1>5 DEF SeqRange
<1> QED
  BY <1>1, <1>4, <1>5 DEF u

(* The parts of an event. *)
LEMMA EventFields ==
  ASSUME NEW e \in Events
  PROVE  /\ e.used \in Seq(ToolNames) /\ e.name \in ToolNames \cup {None}
         /\ e.tokens \in Nat \cup {None} /\ e.usage \in Nat /\ e.final \in Results \cup {None}
         /\ Reported(e) \in Seq(ToolNames) /\ ReportedBy(e) = SeqRange(Reported(e))
<1>1. /\ e.used \in Seq(ToolNames) /\ e.name \in ToolNames \cup {None}
      /\ e.tokens \in Nat \cup {None} /\ e.usage \in Nat /\ e.final \in Results \cup {None}
  BY DEF EventType
<1>2. Reported(e) \in Seq(ToolNames)
  <2>1. CASE NamedCall(e)
    <3>1. e.name \in ToolNames
      BY <1>1, <2>1 DEF NamedCall
    <3> QED
      BY <2>1, <3>1 DEF Reported
  <2>2. CASE ~NamedCall(e)
    <3>1. <<>> \in Seq(ToolNames)
      OBVIOUS
    <3> QED
      BY <1>1, <2>2, <3>1 DEF Reported
  <2> QED
    BY <2>1, <2>2
<1> QED
  BY <1>1, <1>2 DEF Reported, ReportedBy

LEMMA CanonicalType ==
  /\ \A n \in ToolNames : Canonical(n) \in ToolNames
  /\ \A n \in ALLOWED_KIRO_TOOLS : Canonical(n) \in WORKER_TOOLS
<1>1. ASSUME NEW n, n \in {"read_file", "fs_read", "fsRead"} PROVE Canonical(n) = "read"
  BY <1>1 DEF Canonical
<1>2. Canonical("grep_search") = "grep"
  BY DEF Canonical
<1>3. ASSUME NEW n, n \in {"list_directory", "file_search"} PROVE Canonical(n) = "glob"
  BY <1>3 DEF Canonical
<1>4. ASSUME NEW n, n \notin {"read_file", "fs_read", "fsRead", "grep_search",
                             "list_directory", "file_search"}
      PROVE Canonical(n) = n
  BY <1>4 DEF Canonical
<1>5. ASSUME NEW n \in ToolNames PROVE Canonical(n) \in ToolNames
  <2>1. {"read", "grep", "glob"} \subseteq ToolNames
    BY DEF ToolNames, ALLOWED_KIRO_TOOLS
  <2> QED
    BY <1>1, <1>2, <1>3, <1>4, <2>1
<1>6. ASSUME NEW n \in ALLOWED_KIRO_TOOLS PROVE Canonical(n) \in WORKER_TOOLS
  <2>1. \/ n \in {"read_file", "fs_read", "fsRead"} \/ n = "grep_search"
        \/ n \in {"list_directory", "file_search"}
        \/ n \in {"read", "grep", "glob", "disclose_context"}
    BY DEF ALLOWED_KIRO_TOOLS
  <2> QED
    BY <1>1, <1>2, <1>3, <1>4, <2>1 DEF WORKER_TOOLS
<1> QED
  BY <1>5, <1>6

-----------------------------------------------------------------------------
LEMMA InitKInv == SInit => KInv
<1> SUFFICES ASSUME SInit PROVE KInv
  OBVIOUS
<1>1. <<>> \in Seq(Events) /\ <<>> \in Seq(ToolNames)
  OBVIOUS
<1> QED
  BY <1>1 DEF SInit, KInv, STypeOK, Phases

LEMMA OpensInv == Opens => KInv'
<1> SUFFICES ASSUME Opens PROVE KInv'
  OBVIOUS
<1>1. <<>> \in Seq(Events) /\ <<>> \in Seq(ToolNames)
  OBVIOUS
<1> QED
  BY <1>1 DEF Opens, Fresh, KInv, STypeOK, Phases

LEMMA RefuseInv == KInv /\ Refuse => KInv'
  BY DEF Refuse, KInv, STypeOK, Phases

LEMMA ReadInv == KInv /\ ((\E e \in Events : ReadLine(e)) \/ EndOfStream) => KInv'
<1> SUFFICES ASSUME KInv, (\E e \in Events : ReadLine(e)) \/ EndOfStream PROVE KInv'
  OBVIOUS
<1>1. ASSUME NEW e \in Events, ReadLine(e) PROVE KInv'
  <2>1. events' = Append(events, e) /\ events \in Seq(Events)
    BY <1>1 DEF ReadLine, KInv, STypeOK
  <2>2. events' \in Seq(Events)
    BY <2>1
  <2> QED
    BY <1>1, <2>2 DEF ReadLine, KInv, STypeOK, Phases
<1>2. CASE EndOfStream
  <2>1. /\ phase = "read" /\ phase' = "scan"
        /\ UNCHANGED <<events, next, tool_names, final, tokens, credits, normalized>>
        /\ next = 1 /\ tool_names = <<>> /\ final = None /\ credits = 0 /\ normalized = <<>>
        /\ STypeOK
    BY <1>2 DEF EndOfStream, KInv
  <2>2. Scanned(1)
    BY <2>1 DEF Scanned, FinalOf, CreditsOf, SeqRange
  <2>3. Scanned(next)'
    BY <2>1, <2>2 DEF Scanned, FinalOf, CreditsOf
  <2>4. next <= Len(events) + 1
    BY <2>1 DEF STypeOK
  <2> QED
    BY <2>1, <2>3, <2>4 DEF KInv, STypeOK, Phases
<1> QED
  BY <1>1, <1>2

(* One event scanned. *)
LEMMA ScanInv == KInv /\ ScanEvent => KInv'
<1> SUFFICES ASSUME KInv, ScanEvent PROVE KInv'
  OBVIOUS
<1>1. CASE Refuse
  BY <1>1, RefuseInv
<1>2. CASE ~Refuse
  <2> DEFINE e == events[next]
  <2>1. /\ phase = "scan" /\ next <= Len(events) /\ STypeOK
        /\ normalized = <<>> /\ Scanned(next)
    BY DEF ScanEvent, KInv
  <2>2. /\ next' = next + 1
        /\ tool_names' = tool_names \o Reported(e)
        /\ final' = FinalAfter(e, final)
        /\ tokens' = TokensAfter(e, tokens)
        /\ credits' = CreditsAfter(e, credits)
        /\ UNCHANGED <<phase, events, normalized>>
    BY <1>2 DEF ScanEvent
  <2>3. /\ events \in Seq(Events) /\ next \in Nat \ {0} /\ Len(events) \in Nat
        /\ tool_names \in Seq(ToolNames) /\ final \in Results \cup {None}
        /\ tokens \in Nat /\ credits \in Nat
    BY <2>1 DEF STypeOK
  <2>4. e \in Events
    BY <2>1, <2>3
  <2> HIDE DEF e
  <2>5. /\ tool_names' \in Seq(ToolNames)
        /\ SeqRange(tool_names') = SeqRange(tool_names) \cup ReportedBy(e)
    BY <2>2, <2>3, <2>4, EventFields, RangeConcat
  <2>6. final' \in Results \cup {None} /\ tokens' \in Nat /\ credits' \in Nat
    BY <2>2, <2>3, <2>4, EventFields DEF FinalAfter, TokensAfter, CreditsAfter
  <2>7. 1..(next' - 1) = 1..next /\ \A i \in 1..next : i \in 1..(next - 1) \/ i = next
    BY <2>2, <2>3
  <2>8. next \in 1..next /\ \A i \in 1..(next - 1) : i \in 1..next /\ ~(i > next) /\ next > i
    BY <2>3
  <2>9. \A x : x \in SeqRange(tool_names') <=> \E i \in 1..next : x \in ReportedBy(events[i])
    BY <2>1, <2>5, <2>7, <2>8 DEF Scanned, e
  <2>10. FinalOf(next)'
    <3>1. CASE SetsFinal(e)
      <4>1. final' = events[next].final /\ SetsFinal(events[next])
        BY <2>2, <3>1 DEF FinalAfter, e
      <4>2. \A j \in 1..next : ~(j > next)
        BY <2>3
      <4> QED
        BY <2>2, <2>7, <2>8, <4>1, <4>2 DEF FinalOf
    <3>2. CASE ~SetsFinal(e)
      <4>1. final' = final /\ FinalOf(next) /\ ~SetsFinal(events[next])
        BY <2>1, <2>2, <3>2 DEF FinalAfter, Scanned, e
      <4> SUFFICES ASSUME final' # None
                   PROVE  \E i \in 1..next : /\ SetsFinal(events[i]) /\ final = events[i].final
                                             /\ \A j \in 1..next : j > i => ~SetsFinal(events[j])
        BY <2>2, <2>7, <4>1 DEF FinalOf
      <4>2. PICK i \in 1..(next - 1) :
                 /\ SetsFinal(events[i]) /\ final = events[i].final
                 /\ \A j \in 1..(next - 1) : j > i => ~SetsFinal(events[j])
        BY <4>1 DEF FinalOf
      <4> QED
        BY <2>7, <2>8, <4>1, <4>2
    <3> QED
      BY <3>1, <3>2
  <2>11. CreditsOf(next)'
    <3>1. CASE e.kind = "update" /\ e.usage > 0
      <4>1. credits' = events[next].usage /\ events[next].kind = "update"
        BY <2>2, <3>1 DEF CreditsAfter, e
      <4>2. \A j \in 1..next : ~(j > next)
        BY <2>3
      <4> QED
        BY <2>2, <2>7, <2>8, <4>1, <4>2 DEF CreditsOf
    <3>2. CASE ~(e.kind = "update" /\ e.usage > 0)
      <4>1. credits' = credits /\ CreditsOf(next)
        BY <2>1, <2>2, <3>2 DEF CreditsAfter, Scanned
      <4>2. events[next].kind # "update" \/ events[next].usage = 0
        BY <2>4, <3>2, EventFields DEF e
      <4>3. CASE credits = 0
        BY <4>1, <4>3 DEF CreditsOf
      <4>4. CASE credits # 0
        <5>1. PICK i \in 1..(next - 1) :
                 /\ events[i].kind = "update" /\ events[i].usage = credits
                 /\ \A j \in 1..(next - 1) : j > i => events[j].kind # "update" \/ events[j].usage = 0
          BY <4>1, <4>4 DEF CreditsOf
        <5> QED
          BY <2>2, <2>7, <2>8, <4>1, <4>2, <5>1 DEF CreditsOf
      <4> QED
        BY <4>3, <4>4
    <3> QED
      BY <3>1, <3>2
  <2>12. Scanned(next)'
    BY <2>2, <2>7, <2>9, <2>10, <2>11 DEF Scanned
  <2>13. next' <= Len(events') + 1 /\ next' \in Nat \ {0}
    BY <2>1, <2>2, <2>3
  <2> QED
    BY <2>1, <2>2, <2>5, <2>6, <2>12, <2>13 DEF KInv, STypeOK
<1> QED
  BY <1>1, <1>2

LEMMA ScanEndInv == KInv /\ (EndScan \/ CheckResult) => KInv'
<1> SUFFICES ASSUME KInv, EndScan \/ CheckResult PROVE KInv'
  OBVIOUS
<1>1. CASE EndScan
  <2>1. /\ phase = "scan" /\ phase' = "result"
        /\ UNCHANGED <<events, next, tool_names, final, tokens, credits, normalized>>
        /\ normalized = <<>> /\ Scanned(next) /\ next = Len(events) + 1 /\ STypeOK
    BY <1>1 DEF EndScan, KInv, STypeOK
  <2>2. Scanned(Len(events) + 1)'
    BY <2>1 DEF Scanned, FinalOf, CreditsOf
  <2> QED
    BY <2>1, <2>2 DEF KInv, STypeOK, Phases
<1>2. CASE CheckResult /\ Refuse
  BY <1>2, RefuseInv
<1>3. CASE CheckResult /\ ~Refuse
  <2>1. /\ phase = "result" /\ phase' = "names" /\ next' = 1
        /\ final # None /\ ValidResult(final)
        /\ UNCHANGED <<events, tool_names, final, tokens, credits, normalized>>
        /\ normalized = <<>> /\ Scanned(Len(events) + 1) /\ STypeOK
    BY <1>3 DEF CheckResult, KInv
  <2>2. Scanned(Len(events) + 1)'
    BY <2>1 DEF Scanned, FinalOf, CreditsOf
  <2>3. Checked(1)
    BY <2>1 DEF Checked, SeqRange
  <2>4. Checked(next)'
    BY <2>1, <2>3 DEF Checked
  <2>5. 1 <= Len(tool_names) + 1
    BY <2>1 DEF STypeOK
  <2> QED
    BY <2>1, <2>2, <2>4, <2>5 DEF KInv, STypeOK, Phases
<1> QED
  BY <1>1, <1>2, <1>3

(* One name checked and translated. *)
LEMMA NameInv == KInv /\ (CheckName \/ Accept) => KInv'
<1> SUFFICES ASSUME KInv, CheckName \/ Accept PROVE KInv'
  OBVIOUS
<1>1. CASE CheckName /\ Refuse
  BY <1>1, RefuseInv
<1>2. CASE CheckName /\ ~Refuse
  <2> DEFINE name == tool_names[next]
  <2>1. /\ phase = "names" /\ next <= Len(tool_names) /\ STypeOK
        /\ final # None /\ ValidResult(final)
        /\ Scanned(Len(events) + 1) /\ Checked(next)
    BY <1>2 DEF CheckName, KInv
  <2>2. /\ normalized' = Add(name) /\ next' = next + 1 /\ ~NameRefused(name)
        /\ UNCHANGED <<phase, events, tool_names, final, tokens, credits>>
    BY <1>2 DEF CheckName
  <2>3. /\ next \in Nat \ {0} /\ tool_names \in Seq(ToolNames) /\ Len(tool_names) \in Nat
        /\ normalized \in Seq(ToolNames)
    BY <2>1 DEF STypeOK
  <2>4. name \in ToolNames
    BY <2>1, <2>3
  <2>5. name \in ALLOWED_KIRO_TOOLS
    BY <2>2 DEF NameRefused
  <2> DEFINE c == Canonical(name)
  <2>6. c \in ToolNames
    BY <2>4, CanonicalType
  <2>7. /\ normalized' \in Seq(ToolNames)
        /\ SeqRange(normalized') = SeqRange(normalized) \cup {c}
        /\ \A i, j \in DOMAIN normalized' : normalized'[i] = normalized'[j] => i = j
    <3>1. CASE Listed(name)
      <4>1. normalized' = normalized /\ c \in SeqRange(normalized)
        BY <2>2, <3>1 DEF Add, Listed, SeqRange
      <4> QED
        BY <2>1, <2>3, <4>1 DEF Checked
    <3>2. CASE ~Listed(name)
      <4>1. normalized' = Append(normalized, c) /\ c \notin SeqRange(normalized)
        BY <2>2, <3>2 DEF Add, Listed, SeqRange
      <4>2. \A i, j \in DOMAIN normalized : normalized[i] = normalized[j] => i = j
        BY <2>1 DEF Checked
      <4> HIDE DEF c
      <4> QED
        BY <2>3, <2>6, <4>1, <4>2, AppendNew
    <3> QED
      BY <3>1, <3>2
  <2>8. /\ 1..(next' - 1) = 1..next /\ next \in 1..next
        /\ \A i \in 1..next : i \in 1..(next - 1) \/ i = next
        /\ \A i \in 1..(next - 1) : i \in 1..next
    BY <2>2, <2>3
  <2>9. \A i \in 1..next : tool_names[i] \in ALLOWED_KIRO_TOOLS
    BY <2>1, <2>5, <2>8 DEF Checked
  <2>10. \A x : x \in SeqRange(normalized') <=> \E i \in 1..next : x = Canonical(tool_names[i])
    BY <2>1, <2>7, <2>8 DEF Checked
  <2>11. Checked(next)'
    BY <2>2, <2>7, <2>8, <2>9, <2>10 DEF Checked
  <2>12. Scanned(Len(events) + 1)'
    BY <2>1, <2>2 DEF Scanned, FinalOf, CreditsOf
  <2>13. next' <= Len(tool_names') + 1 /\ next' \in Nat \ {0}
    BY <2>1, <2>2, <2>3
  <2> QED
    BY <2>1, <2>2, <2>7, <2>11, <2>12, <2>13 DEF KInv, STypeOK
<1>3. CASE Accept
  <2>1. /\ phase = "names" /\ phase' = "accepted" /\ next = Len(tool_names) + 1
        /\ final # None /\ ValidResult(final)
        /\ UNCHANGED <<events, next, tool_names, final, tokens, credits, normalized>>
        /\ Scanned(Len(events) + 1) /\ Checked(next) /\ STypeOK
    BY <1>3 DEF Accept, KInv, STypeOK
  <2>2. Scanned(Len(events) + 1)' /\ Checked(Len(tool_names) + 1)'
    BY <2>1 DEF Scanned, FinalOf, CreditsOf, Checked
  <2> QED
    BY <2>1, <2>2 DEF KInv, STypeOK, Phases
<1> QED
  BY <1>1, <1>2, <1>3

(* Every step of the parser, of its caller, and every step of others keeps  *)
(* the invariant.                                                           *)
LEMMA ParserKeepsInv ==
  ASSUME KInv, ParseStep \/ Opens \/ UNCHANGED svars
  PROVE  KInv'
<1>1. CASE UNCHANGED svars
  BY <1>1 DEF svars, KInv, STypeOK, Scanned, FinalOf, CreditsOf, Checked
<1>2. CASE BadLine
  BY <1>2, RefuseInv DEF BadLine
<1> QED
  BY <1>1, <1>2, OpensInv, ReadInv, ScanInv, ScanEndInv, NameInv DEF ParseStep

-----------------------------------------------------------------------------
(* What the invariant says of an accepted stream. *)
LEMMA InvAllowed == KInv => AcceptedUsesAllowedOnly
<1> SUFFICES ASSUME KInv, phase = "accepted", NEW i \in DOMAIN events
             PROVE  ReportedBy(events[i]) \subseteq ALLOWED_KIRO_TOOLS
  BY DEF AcceptedUsesAllowedOnly
<1>1. /\ events \in Seq(Events) /\ tool_names \in Seq(ToolNames)
      /\ Scanned(Len(events) + 1) /\ Checked(Len(tool_names) + 1)
  BY DEF KInv, STypeOK
<1>2. i \in 1..((Len(events) + 1) - 1)
  BY <1>1
<1>3. ReportedBy(events[i]) \subseteq SeqRange(tool_names)
  BY <1>1, <1>2 DEF Scanned
<1>4. \A k \in DOMAIN tool_names : k \in 1..((Len(tool_names) + 1) - 1)
  BY <1>1
<1> QED
  BY <1>1, <1>3, <1>4 DEF Checked, SeqRange

LEMMA InvTools == KInv => ToolsForWorker
<1> SUFFICES ASSUME KInv, phase = "accepted"
             PROVE  /\ SeqRange(normalized) \subseteq WORKER_TOOLS
                    /\ SeqRange(normalized) =
                          {Canonical(n) : n \in UNION {ReportedBy(events[i]) : i \in DOMAIN events}}
                    /\ \A i, j \in DOMAIN normalized : normalized[i] = normalized[j] => i = j
  BY DEF ToolsForWorker
<1>1. /\ events \in Seq(Events) /\ tool_names \in Seq(ToolNames)
      /\ Scanned(Len(events) + 1) /\ Checked(Len(tool_names) + 1)
  BY DEF KInv, STypeOK
<1>2. DOMAIN events = 1..((Len(events) + 1) - 1)
      /\ DOMAIN tool_names = 1..((Len(tool_names) + 1) - 1)
  BY <1>1
<1>3. \A x : x \in SeqRange(normalized) <=> \E n \in SeqRange(tool_names) : x = Canonical(n)
  BY <1>1, <1>2 DEF Checked, SeqRange
<1>4. SeqRange(tool_names) = UNION {ReportedBy(events[i]) : i \in DOMAIN events}
  BY <1>1, <1>2 DEF Scanned
<1>5. SeqRange(tool_names) \subseteq ALLOWED_KIRO_TOOLS
  BY <1>1, <1>2 DEF Checked, SeqRange
<1>6. SeqRange(normalized) \subseteq WORKER_TOOLS
  BY <1>3, <1>5, CanonicalType
<1>7. SeqRange(normalized) =
         {Canonical(n) : n \in UNION {ReportedBy(events[i]) : i \in DOMAIN events}}
  BY <1>3, <1>4
<1> QED
  BY <1>1, <1>6, <1>7 DEF Checked

LEMMA InvLastWord == KInv => LastWordWins
<1> SUFFICES ASSUME KInv, phase = "accepted" PROVE LastWordWins
  BY DEF LastWordWins
<1>1. events \in Seq(Events) /\ final # None /\ Scanned(Len(events) + 1)
  BY DEF KInv, STypeOK
<1>2. DOMAIN events = 1..((Len(events) + 1) - 1)
  BY <1>1
<1> QED
  BY <1>1, <1>2 DEF LastWordWins, Scanned, FinalOf, CreditsOf

-----------------------------------------------------------------------------
LEMMA OffsetOfSpan ==
  ASSUME NEW n \in Nat, NEW k \in 1..(n + 4)
  PROVE  /\ Offset(k) \in Nat /\ Offset(k) <= n + 4
         /\ Offset(n + 4) = n + 4
         /\ Parent(k, n) \in 0..(k - 1)
         /\ Parent(k, n) # 0 => /\ Parent(k, n) \in 1..(n + 4)
                                /\ Offset(Parent(k, n)) <= Offset(k)
<1>1. Parent(k, n) \in 0..3 /\ Parent(k, n) < k
  <2>1. CASE k = 1
    BY <2>1 DEF Parent
  <2>2. CASE k = 2
    BY <2>2 DEF Parent
  <2>3. CASE k = 3
    BY <2>3 DEF Parent
  <2>4. CASE k = n + 4
    BY <2>4 DEF Parent
  <2>5. CASE k > 3 /\ k # n + 4
    BY <2>5 DEF Parent
  <2> QED
    BY <2>1, <2>2, <2>3, <2>4, <2>5
<1> QED
  BY <1>1 DEF Offset

(* The spans of a run nest exactly when it is as long as ShortestRun, and   *)
(* their numbers follow their order, whatever the run's times.              *)
LEMMA SpansOfRun ==
  ASSUME NEW n \in Nat, NEW started \in Int, NEW ended \in Int
  PROVE  /\ Nested(Spans(started, ended, n)) <=> ended - started >= ShortestRun(n)
         /\ InSequence(Spans(started, ended, n))
<1> DEFINE spans == Spans(started, ended, n)
<1>1. /\ DOMAIN spans = 1..(n + 4)
      /\ \A k \in 1..(n + 4) :
            /\ spans[k].seq = EventSeq(k, n) /\ spans[k].parent = Parent(k, n)
            /\ spans[k].start = started + Offset(k) /\ spans[k].end = ended - Offset(k)
  BY DEF Spans, OffsetOfEnd
<1> HIDE DEF spans
<1>2. ASSUME Nested(spans) PROVE ended - started >= ShortestRun(n)
  <2>1. n + 4 \in 1..(n + 4)
    OBVIOUS
  <2>2. started + Offset(n + 4) <= ended - Offset(n + 4)
    BY <1>1, <1>2, <2>1 DEF Nested
  <2> QED
    BY <2>1, <2>2, OffsetOfSpan DEF ShortestRun
<1>3. ASSUME ended - started >= ShortestRun(n) PROVE Nested(spans)
  <2> SUFFICES ASSUME NEW k \in 1..(n + 4)
               PROVE  /\ spans[k].start <= spans[k].end
                      /\ spans[k].parent # 0 =>
                            /\ spans[k].parent < k
                            /\ spans[spans[k].parent].start <= spans[k].start
                            /\ spans[k].end <= spans[spans[k].parent].end
    BY <1>1 DEF Nested
  <2>0. Offset(k) \in Nat /\ Offset(k) <= n + 4
    BY OffsetOfSpan
  <2>1. spans[k].start <= spans[k].end
    <3>1. started + Offset(k) <= ended - Offset(k)
      BY <1>3, <2>0 DEF ShortestRun
    <3> QED
      BY <1>1, <3>1
  <2>2. ASSUME spans[k].parent # 0
        PROVE  /\ spans[k].parent < k
               /\ spans[spans[k].parent].start <= spans[k].start
               /\ spans[k].end <= spans[spans[k].parent].end
    <3> DEFINE p == Parent(k, n)
    <3>0. spans[k].parent = p /\ p # 0
      BY <1>1, <2>2
    <3>1. p \in 1..(n + 4) /\ p \in 0..(k - 1) /\ Offset(p) <= Offset(k)
      BY <3>0, OffsetOfSpan
    <3>2. Offset(p) \in Nat
      BY <3>1, OffsetOfSpan
    <3> HIDE DEF p
    <3>3. p < k
      BY <3>1
    <3>4. /\ spans[p].start = started + Offset(p) /\ spans[p].end = ended - Offset(p)
          /\ spans[k].start = started + Offset(k) /\ spans[k].end = ended - Offset(k)
      BY <1>1, <3>1
    <3>5. started + Offset(p) <= started + Offset(k) /\ ended - Offset(k) <= ended - Offset(p)
      BY <2>0, <3>1, <3>2
    <3> QED
      BY <3>0, <3>3, <3>4, <3>5
  <2> QED
    BY <2>1, <2>2
<1>4. \A k \in 1..(n + 4) : spans[k].seq = k - 1
  BY <1>1 DEF EventSeq
<1> QED
  BY <1>1, <1>2, <1>3, <1>4 DEF InSequence, spans

(* A parsed stream has its type and keeps what it promises its reader.      *)
THEOREM ParserCorrect ==
  SSpec => [](STypeOK /\ AcceptedUsesAllowedOnly /\ ToolsForWorker /\ LastWordWins)
<1>1. KInv /\ [SNext]_svars => KInv'
  BY ParserKeepsInv DEF SNext, OpenStream, Opens
<1>2. KInv => STypeOK
  BY DEF KInv
<1> QED
  BY <1>1, <1>2, InitKInv, InvAllowed, InvTools, InvLastWord, PTL DEF SSpec
-----------------------------------------------------------------------------
(* What the scan holds is exact: the final value kept is that of the last   *)
(* event that sets one, and is absent only when that event has none or      *)
(* there is no such event.  The list handed on is never longer than the     *)
(* names looked at.                                                         *)
FinalExact(n) ==
    \/ final = None /\ \A i \in 1..(n - 1) : ~SetsFinal(events[i])
    \/ \E i \in 1..(n - 1) : /\ SetsFinal(events[i]) /\ final = events[i].final
                             /\ \A j \in 1..(n - 1) : j > i => ~SetsFinal(events[j])

KExact ==
    /\ phase = "scan" => FinalExact(next)
    /\ phase = "result" => FinalExact(Len(events) + 1)
    /\ phase = "names" => Len(normalized) < next

LEMMA ExactScan == KInv /\ KExact /\ ScanEvent => KExact'
<1> SUFFICES ASSUME KInv, KExact, ScanEvent PROVE KExact'
  OBVIOUS
<1>1. CASE Refuse
  BY <1>1 DEF Refuse, KExact
<1>2. CASE ~Refuse
  <2> DEFINE e == events[next]
  <2>1. /\ phase = "scan" /\ next <= Len(events) /\ FinalExact(next)
        /\ next \in Nat \ {0} /\ next' = next + 1
        /\ final' = FinalAfter(e, final)
        /\ UNCHANGED <<phase, events>>
    BY <1>2 DEF ScanEvent, KExact, KInv, STypeOK
  <2>2. 1..(next' - 1) = 1..next /\ \A i \in 1..next : i \in 1..(next - 1) \/ i = next
    BY <2>1
  <2>3. /\ next \in 1..next /\ \A i \in 1..(next - 1) : i \in 1..next /\ next > i
        /\ \A j \in 1..next : ~(j > next)
    BY <2>1
  <2>4. CASE SetsFinal(e)
    BY <2>1, <2>2, <2>3, <2>4 DEF FinalAfter, FinalExact, KExact
  <2>5. CASE ~SetsFinal(e)
    <3>1. final' = final
      BY <2>1, <2>5 DEF FinalAfter
    <3>2. FinalExact(next)'
      BY <2>1, <2>2, <2>3, <2>5, <3>1 DEF FinalExact
    <3> QED
      BY <2>1, <3>2 DEF KExact
  <2> QED
    BY <2>4, <2>5
<1> QED
  BY <1>1, <1>2

LEMMA ExactName == KInv /\ KExact /\ (CheckResult \/ CheckName \/ Accept) => KExact'
<1> SUFFICES ASSUME KInv, KExact, CheckResult \/ CheckName \/ Accept PROVE KExact'
  OBVIOUS
<1>1. CASE Refuse \/ Accept
  BY <1>1 DEF Refuse, Accept, KExact
<1>2. CASE CheckResult /\ ~Refuse
  <2>1. phase' = "names" /\ next' = 1 /\ normalized' = <<>>
    BY <1>2 DEF CheckResult, KInv
  <2> QED
    BY <2>1 DEF KExact
<1>3. CASE CheckName /\ ~Refuse
  <2> DEFINE c == Canonical(tool_names[next])
  <2>1. /\ phase = "names" /\ phase' = "names" /\ next \in Nat /\ next' = next + 1
        /\ normalized \in Seq(ToolNames) /\ Len(normalized) < next
        /\ normalized' = normalized \/ normalized' = Append(normalized, c)
    BY <1>3 DEF CheckName, Add, KInv, KExact, STypeOK
  <2>2. Len(normalized') <= Len(normalized) + 1
    <3> HIDE DEF c
    <3> QED
      BY <2>1
  <2>3. Len(normalized) \in Nat /\ Len(normalized') \in Nat
    <3>1. normalized' = normalized \/ Len(normalized') = Len(normalized) + 1
      <4> HIDE DEF c
      <4> QED
        BY <2>1
    <3> QED
      BY <2>1, <3>1
  <2> QED
    BY <2>1, <2>2, <2>3 DEF KExact
<1> QED
  BY <1>1, <1>2, <1>3

(* Every step of the parser, of its caller and of others keeps it exact.    *)
LEMMA ParserKeepsExact ==
  ASSUME KInv, KExact, ParseStep \/ Opens \/ UNCHANGED svars
  PROVE  KExact'
<1>1. CASE UNCHANGED svars
  BY <1>1 DEF svars, KExact, FinalExact
<1>2. CASE Opens \/ BadLine \/ \E e \in Events : ReadLine(e)
  BY <1>2 DEF Opens, BadLine, Refuse, ReadLine, KExact
<1>3. CASE EndOfStream
  BY <1>3 DEF EndOfStream, KInv, KExact, FinalExact
<1>4. CASE EndScan
  <2>1. next = Len(events) + 1
    BY <1>4 DEF EndScan, KInv, STypeOK
  <2> QED
    BY <1>4, <2>1 DEF EndScan, KExact, FinalExact
<1> QED
  BY <1>1, <1>2, <1>3, <1>4, ExactScan, ExactName DEF ParseStep

(* A call that is refused, a result that is refused, a name that is refused.*)
LEMMA RefusalStep ==
  ASSUME KInv, KExact, ParseStep, phase \in {"scan", "result", "names"}, phase' = "refused"
  PROVE  ReportsForeignTool \/ ReportsTooMany \/ ~EndsWithResult
<1>1. /\ events \in Seq(Events) /\ tool_names \in Seq(ToolNames) /\ next \in Nat \ {0}
      /\ normalized \in Seq(ToolNames) /\ MaxTools \in Nat /\ Len(tool_names) \in Nat
      /\ Len(events) \in Nat /\ Len(normalized) \in Nat
      /\ DOMAIN events = 1..Len(events) /\ DOMAIN tool_names = 1..Len(tool_names)
  BY DEF KInv, STypeOK
<1>2. CASE ScanEvent /\ CallRefused(events[next])
  <2>1. phase = "scan" /\ next \in DOMAIN events /\ NamedCall(events[next])
    BY <1>1, <1>2 DEF ScanEvent, CallRefused
  <2>2. CASE events[next].name \notin ALLOWED_KIRO_TOOLS
    <3>1. SeqRange(<<events[next].name>>) = {events[next].name}
      BY DEF SeqRange
    <3>2. events[next].name \in ReportedBy(events[next])
      BY <2>1, <3>1 DEF ReportedBy
    <3> QED
      BY <2>1, <2>2, <3>2 DEF ReportsForeignTool
  <2>3. CASE Len(tool_names) >= MaxTools
    BY <2>1, <2>3 DEF ReportsTooMany
  <2> QED
    BY <1>2, <2>2, <2>3 DEF CallRefused
<1>3. CASE CheckResult /\ ~(final # None /\ ValidResult(final))
  <2>1. FinalExact(Len(events) + 1)
    BY <1>3 DEF CheckResult, KExact
  <2>2. DOMAIN events = 1..((Len(events) + 1) - 1)
    BY <1>1
  <2>3. \A i, j \in DOMAIN events : i > j \/ j > i \/ i = j
    BY <1>1
  <2> SUFFICES ASSUME NEW i \in DOMAIN events, LastFinal(i),
                      events[i].final # None, ValidResult(events[i].final)
               PROVE  FALSE
    BY DEF EndsWithResult
  <2>4. final = events[i].final
    BY <2>1, <2>2, <2>3 DEF FinalExact, LastFinal
  <2> QED
    BY <1>3, <2>4
<1>4. CASE CheckName /\ NameRefused(tool_names[next])
  <2> DEFINE name == tool_names[next]
  <2>1. /\ phase = "names" /\ next \in DOMAIN tool_names /\ next <= Len(tool_names)
        /\ Len(normalized) < next /\ Scanned(Len(events) + 1)
    BY <1>1, <1>4 DEF CheckName, KInv, KExact
  <2>2. CASE name \notin ALLOWED_KIRO_TOOLS
    <3>1. name \in SeqRange(tool_names)
      BY <2>1 DEF SeqRange
    <3>2. \E i \in 1..((Len(events) + 1) - 1) : name \in ReportedBy(events[i])
      BY <2>1, <3>1 DEF Scanned
    <3>3. 1..((Len(events) + 1) - 1) = DOMAIN events
      BY <1>1
    <3> QED
      BY <2>2, <3>2, <3>3 DEF ReportsForeignTool
  <2>3. CASE Len(Add(name)) > MaxTools
    <3>1. Len(Add(name)) <= Len(normalized) + 1 /\ Len(Add(name)) \in Nat
      <4>1. Add(name) = normalized \/ Add(name) = Append(normalized, Canonical(name))
        BY DEF Add
      <4> DEFINE c == Canonical(name)
      <4> HIDE DEF c
      <4>2. Add(name) = normalized \/ Add(name) = Append(normalized, c)
        BY <4>1 DEF c
      <4> QED
        BY <1>1, <4>2
    <3>2. Len(tool_names) > MaxTools
      BY <1>1, <2>1, <2>3, <3>1
    <3> QED
      BY <2>1, <3>2 DEF ReportsTooMany
  <2> QED
    BY <1>4, <2>2, <2>3 DEF NameRefused
<1>5. \/ ScanEvent /\ CallRefused(events[next])
      \/ CheckResult /\ ~(final # None /\ ValidResult(final))
      \/ CheckName /\ NameRefused(tool_names[next])
  BY DEF ParseStep, ReadLine, BadLine, EndOfStream, ScanEvent, EndScan, CheckResult, CheckName,
         Accept
<1> QED
  BY <1>2, <1>3, <1>4, <1>5

(* No stream that keeps the rules is refused once it has been read.         *)
THEOREM RefusalsAreJustified == SSpec => RefusalIsJustified
<1> DEFINE Justified == phase \in {"scan", "result", "names"} /\ phase' = "refused" =>
                          ReportsForeignTool \/ ReportsTooMany \/ ~EndsWithResult
<1>1. SInit => KInv /\ KExact
  BY InitKInv DEF SInit, KExact
<1>2. KInv /\ KExact /\ [SNext]_svars => KInv' /\ KExact'
  BY ParserKeepsInv, ParserKeepsExact DEF SNext, OpenStream, Opens
<1>3. KInv /\ KExact /\ [SNext]_svars => [Justified]_svars
  BY RefusalStep DEF SNext, OpenStream
<1> QED
  BY <1>1, <1>2, <1>3, PTL DEF SSpec, RefusalIsJustified
-----------------------------------------------------------------------------
(* Why parsing ends: every step passes to a later phase, or reads one more  *)
(* line of at most MaxEvents, or scans one more event, or checks one more   *)
(* name of those collected.                                                 *)
PhaseRank(p) == CASE p = "idle" -> 0 [] p = "read" -> 1 [] p = "scan" -> 2
                  [] p = "result" -> 3 [] p = "names" -> 4 [] OTHER -> 5

NextPhase == PhaseRank(phase) < PhaseRank(phase')
NextLine == /\ phase = "read" /\ phase' = "read"
            /\ Len(events') = Len(events) + 1 /\ Len(events') <= MaxEvents
NextEvent == /\ phase = "scan" /\ phase' = "scan" /\ events' = events
             /\ next' = next + 1 /\ next <= Len(events)
NextName == /\ phase = "names" /\ phase' = "names" /\ tool_names' = tool_names
            /\ next' = next + 1 /\ next <= Len(tool_names)

ParserAdvances == NextPhase \/ NextLine \/ NextEvent \/ NextName

LEMMA ParseAdvances == ASSUME KInv, ParseStep PROVE ParserAdvances
<1>1. ASSUME NEW e \in Events, ReadLine(e) PROVE NextLine
  <2>1. events \in Seq(Events) /\ events' = Append(events, e) /\ Len(events) < MaxEvents
    BY <1>1 DEF ReadLine, KInv, STypeOK
  <2>2. Len(events') = Len(events) + 1 /\ Len(events) \in Nat
    BY <2>1
  <2> QED
    BY <1>1, <2>1, <2>2 DEF ReadLine, NextLine
<1>2. CASE BadLine \/ EndOfStream \/ EndScan \/ Accept
  BY <1>2 DEF BadLine, Refuse, EndOfStream, EndScan, Accept, ParserAdvances, NextPhase, PhaseRank
<1>3. CASE ScanEvent
  <2>1. CASE Refuse
    BY <1>3, <2>1 DEF ScanEvent, Refuse, ParserAdvances, NextPhase, PhaseRank
  <2>2. CASE ~Refuse
    BY <1>3, <2>2 DEF ScanEvent, ParserAdvances, NextEvent
  <2> QED
    BY <2>1, <2>2
<1>4. CASE CheckResult
  BY <1>4 DEF CheckResult, Refuse, ParserAdvances, NextPhase, PhaseRank
<1>5. CASE CheckName
  <2>1. CASE Refuse
    BY <1>5, <2>1 DEF CheckName, Refuse, ParserAdvances, NextPhase, PhaseRank
  <2>2. CASE ~Refuse
    BY <1>5, <2>2 DEF CheckName, ParserAdvances, NextName
  <2> QED
    BY <2>1, <2>2
<1> QED
  BY <1>1, <1>2, <1>3, <1>4, <1>5 DEF ParseStep, ParserAdvances

(* The parser never goes back and never stays: it reads any stream to its   *)
(* end, or refuses it, in boundedly many steps.                             *)
THEOREM ParsingAdvances == SSpec => [][ParserAdvances]_svars
<1>1. KInv /\ [SNext]_svars => [ParserAdvances]_svars
  <2> SUFFICES ASSUME KInv, SNext PROVE ParserAdvances
    OBVIOUS
  <2>1. CASE phase = "idle" /\ OpenStream
    BY <2>1 DEF OpenStream, ParserAdvances, NextPhase, PhaseRank
  <2> QED
    BY <2>1, ParseAdvances DEF SNext
<1>2. KInv /\ [SNext]_svars => KInv'
  BY ParserKeepsInv DEF SNext, OpenStream, Opens
<1> QED
  BY <1>1, <1>2, InitKInv, PTL DEF SSpec
=============================================================================
