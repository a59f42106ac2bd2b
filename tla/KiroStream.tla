----------------------------- MODULE KiroStream -----------------------------
(***************************************************************************)
(* parse_kiro_stream and _validate_result (kiro_runtime.py): the event     *)
(* stream of the Kiro CLI is read line by line, then scanned, then its     *)
(* final text is checked, then the tools it names.  An event is a record   *)
(* of what the scan looks at; texts are members of small classes.          *)
(***************************************************************************)
EXTENDS Integers, Sequences

CONSTANTS Events,      \* the events a stream may hold
          MaxEvents,   \* MAX_STREAM_EVENTS
          MaxTools,    \* MAX_TOOL_EVENTS
          OtherTools,  \* names of tools that are not on the allow-list
          None         \* a value that is absent, or of a type that is skipped

VARIABLES phase,       \* where the parser is
          events,      \* the lines read
          next,        \* the index of the scan, then of the tool names
          tool_names, final, tokens, credits,   \* collected by the scan
          normalized   \* normalized_tools

svars == <<phase, events, next, tool_names, final, tokens, credits, normalized>>

ALLOWED_KIRO_TOOLS == {"read", "read_file", "fs_read", "fsRead", "grep", "grep_search",
                       "glob", "list_directory", "file_search", "disclose_context"}
ToolNames == ALLOWED_KIRO_TOOLS \cup OtherTools
CanonicalAsReported(name) == name   \* mutant: the names are passed on as reported
Canonical(name) ==
    CASE name \in {"read_file", "fs_read", "fsRead"} -> "read"
      [] name = "grep_search" -> "grep"
      [] name \in {"list_directory", "file_search"} -> "glob"
      [] OTHER -> name

Severities == {"low", "medium", "high", "critical"}
Decisions == {"approve", "comment", "changes_requested"}

(* What a text is to its readers: not a string, "", one with a character    *)
(* that UTF-8 cannot encode (JSON may name half a surrogate pair), another  *)
(* that IDENTIFIER of pr_comment.py does not match, one that it does.  The  *)
(* parser and the worker take every string, the empty one too.              *)
Texts == {"absent", "empty", "unencodable", "odd", "plain"}
Findings == [rule_id: Texts, severity: Severities \cup {"absent"}, line: Int, message: Texts]
(* A skill id or digest of the wrong form is "odd".                         *)
Skills == [id: STRING, version: Int, digest: STRING]
(* The final value of a stream; json is FALSE for a text that holds none,   *)
(* large TRUE when the file it is written to has more than 2 MB.            *)
Results == [json: BOOLEAN, large: BOOLEAN, decision: Decisions \cup {"absent"},
            findings: Seq(Findings), skills: Seq(Skills)]

(* kind: "tool" for tool_call, tool_use and ToolCall; "update" for          *)
(* sessionUpdate, with the token count, the credits and the used tools of   *)
(* its summaries; "end" for result, assistant and TurnEnd; "finished" for   *)
(* runFinished, whose text is read only when data is an object.             *)
EventKinds == {"tool", "update", "end", "finished", "other"}
EventType == [kind: EventKinds, name: ToolNames \cup {None}, tokens: Nat \cup {None}, usage: Nat,
              used: Seq(ToolNames), data: BOOLEAN, final: Results \cup {None}]

ASSUME EventsAssumption == Events \subseteq EventType
ASSUME OtherAssumption == OtherTools \cap ALLOWED_KIRO_TOOLS = {}
ASSUME LimitsAssumption == MaxEvents \in Nat /\ MaxTools \in Nat
ASSUME NoneAssumption == None \notin ToolNames /\ None \notin Nat /\ None \notin Results

Phases == {"idle", "read", "scan", "result", "names", "accepted", "refused"}

SInit == /\ phase = "idle"
         /\ events = <<>> /\ next = 1
         /\ tool_names = <<>> /\ final = None /\ tokens = 0 /\ credits = 0
         /\ normalized = <<>>

(* Every stream is parsed from scratch.                                     *)
Fresh == /\ events' = <<>> /\ next' = 1
         /\ tool_names' = <<>> /\ final' = None /\ tokens' = 0 /\ credits' = 0
         /\ normalized' = <<>>

(* The review has ended with exit code 0: its output is parsed.             *)
OpenStream == phase' = "read" /\ Fresh

Refuse == /\ phase' = "refused"
          /\ UNCHANGED <<events, next, tool_names, final, tokens, credits, normalized>>

(* Every line is decoded before the first one is looked at.                 *)
ReadLine(e) ==
    /\ phase = "read"
    /\ Len(events) < MaxEvents
    /\ events' = Append(events, e)
    /\ UNCHANGED <<phase, next, tool_names, final, tokens, credits, normalized>>

(* Too many bytes, too many lines, a line that is not JSON or no object.    *)
BadLine == phase = "read" /\ Refuse

EndOfStream ==
    /\ phase = "read"
    /\ phase' = "scan"
    /\ UNCHANGED <<events, next, tool_names, final, tokens, credits, normalized>>

-----------------------------------------------------------------------------
(* The scan.  A call is checked against the allow-list where it stands; the *)
(* names of a summary are only collected.                                   *)
NamedCall(e) == e.kind = "tool" /\ e.name # None
CallRefused(e) ==
    /\ NamedCall(e)
    /\ e.name \notin ALLOWED_KIRO_TOOLS \/ Len(tool_names) >= MaxTools

Reported(e) == IF NamedCall(e) THEN <<e.name>>
               ELSE IF e.kind = "update" THEN e.used ELSE <<>>

SetsFinal(e) == e.kind = "end" \/ (e.kind = "finished" /\ e.data)
FinalKept(e, old) == IF SetsFinal(e) /\ old = None THEN e.final ELSE old   \* mutant: the first text wins
FinalAfter(e, old) == IF SetsFinal(e) THEN e.final ELSE old

TokensUnchecked(e, old) == IF e.kind = "update" THEN e.tokens ELSE old   \* mutant: any value is taken
TokensAfter(e, old) == IF e.kind = "update" /\ e.tokens # None THEN e.tokens ELSE old
CreditsAfter(e, old) == IF e.kind = "update" /\ e.usage > 0 THEN e.usage ELSE old

ScanEvent ==
    /\ phase = "scan" /\ next <= Len(events)
    /\ LET e == events[next] IN
       IF CallRefused(e) THEN Refuse
       ELSE /\ next' = next + 1
            /\ tool_names' = tool_names \o Reported(e)
            /\ final' = FinalAfter(e, final)
            /\ tokens' = TokensAfter(e, tokens)
            /\ credits' = CreditsAfter(e, credits)
            /\ UNCHANGED <<phase, events, normalized>>

EndScan ==
    /\ phase = "scan" /\ next > Len(events)
    /\ phase' = "result"
    /\ UNCHANGED <<events, next, tool_names, final, tokens, credits, normalized>>

(* The final text must hold JSON, and a result with findings and skills.    *)
ValidFindingAnySeverity(f) ==   \* mutant: the severity is left to the comment
    f.rule_id # "absent" /\ f.line >= 1 /\ f.message # "absent"
ValidFinding(f) == /\ f.rule_id # "absent"
                   /\ f.severity \in Severities
                   /\ f.line >= 1
                   /\ f.message # "absent"
ValidSkill(s) == s.id # "odd" /\ s.version >= 1 /\ s.digest # "odd"
ValidResult(r) ==
    /\ r.json
    /\ r.decision \in Decisions
    /\ \A i \in DOMAIN r.findings : ValidFinding(r.findings[i])
    /\ r.skills # <<>>
    /\ \A i \in DOMAIN r.skills : ValidSkill(r.skills[i])

CheckResult ==
    /\ phase = "result"
    /\ IF final # None /\ ValidResult(final)
       THEN /\ phase' = "names" /\ next' = 1
            /\ UNCHANGED <<events, tool_names, final, tokens, credits, normalized>>
       ELSE Refuse

(* Every collected name is checked, translated and listed once.             *)
Listed(name) == \E i \in DOMAIN normalized : normalized[i] = Canonical(name)
Add(name) == IF Listed(name) THEN normalized ELSE Append(normalized, Canonical(name))

NameRefusedNever(name) == FALSE   \* mutant: only the calls are checked
NameRefusedEarly(name) ==       \* mutant: the limit itself is refused
    name \notin ALLOWED_KIRO_TOOLS \/ Len(Add(name)) >= MaxTools
NameRefused(name) == name \notin ALLOWED_KIRO_TOOLS \/ Len(Add(name)) > MaxTools

CheckName ==
    /\ phase = "names" /\ next <= Len(tool_names)
    /\ LET name == tool_names[next] IN
       IF NameRefused(name) THEN Refuse
       ELSE /\ normalized' = Add(name)
            /\ next' = next + 1
            /\ UNCHANGED <<phase, events, tool_names, final, tokens, credits>>

Accept ==
    /\ phase = "names" /\ next > Len(tool_names)
    /\ phase' = "accepted"
    /\ UNCHANGED <<events, next, tool_names, final, tokens, credits, normalized>>

ParseStep == \/ \E e \in Events : ReadLine(e)
             \/ BadLine \/ EndOfStream \/ ScanEvent \/ EndScan
             \/ CheckResult \/ CheckName \/ Accept

SNext == (phase = "idle" /\ OpenStream) \/ ParseStep
SSpec == SInit /\ [][SNext]_svars
-----------------------------------------------------------------------------
SeqRange(s) == {s[i] : i \in DOMAIN s}

STypeOK == /\ phase \in Phases
           /\ events \in Seq(Events)
           /\ next \in Nat \ {0}
           /\ tool_names \in Seq(ToolNames)
           /\ final \in Results \cup {None}
           /\ tokens \in Nat /\ credits \in Nat
           /\ normalized \in Seq(ToolNames)

(* No accepted stream reported a disallowed tool, neither in a call nor in  *)
(* a summary of a turn, wherever the event stands.                          *)
ReportedBy(e) == SeqRange(IF NamedCall(e) THEN <<e.name>>
                          ELSE IF e.kind = "update" THEN e.used ELSE <<>>)
AcceptedUsesAllowedOnly ==
    phase = "accepted" =>
        \A i \in DOMAIN events : ReportedBy(events[i]) \subseteq ALLOWED_KIRO_TOOLS

(* What is handed to the worker: every reported tool once, under the one    *)
(* name the worker knows it by (worker.py checks the names again).          *)
WORKER_TOOLS == {"read", "grep", "glob", "disclose_context"}
ToolsForWorker ==
    phase = "accepted" =>
        /\ SeqRange(normalized) \subseteq WORKER_TOOLS
        /\ SeqRange(normalized) =
              {Canonical(n) : n \in UNION {ReportedBy(events[i]) : i \in DOMAIN events}}
        /\ \A i, j \in DOMAIN normalized : normalized[i] = normalized[j] => i = j

(* The accepted result is the last final value of the stream, and the       *)
(* credits are those of the last summary that has any: a late event         *)
(* replaces what came before it, and one without a text takes it away.      *)
LastWordWins ==
    phase = "accepted" =>
        /\ \E i \in DOMAIN events :
              /\ SetsFinal(events[i]) /\ final = events[i].final /\ final # None
              /\ \A j \in DOMAIN events : j > i => ~SetsFinal(events[j])
        /\ \/ credits = 0
           \/ \E i \in DOMAIN events :
                 /\ events[i].kind = "update" /\ events[i].usage = credits
                 /\ \A j \in DOMAIN events :
                       j > i => events[j].kind # "update" \/ events[j].usage = 0

(* Why a stream may be refused.  The limit counts the names a scan has      *)
(* collected, the repeated ones too.                                        *)
ReportsForeignTool == \E i \in DOMAIN events : ~(ReportedBy(events[i]) \subseteq ALLOWED_KIRO_TOOLS)

ReportsTooMany ==
    \/ phase = "scan" /\ Len(tool_names) >= MaxTools
    \/ phase = "names" /\ Len(tool_names) > MaxTools

LastFinal(i) == SetsFinal(events[i]) /\ \A j \in DOMAIN events : j > i => ~SetsFinal(events[j])
EndsWithResult ==
    \E i \in DOMAIN events :
        LastFinal(i) /\ events[i].final # None /\ ValidResult(events[i].final)

(* The converse of what an accepted stream promises: once every line is     *)
(* read, a stream is refused for one of three reasons only.  It reports a   *)
(* tool that is not allowed, it reports too many tools, or the last of its  *)
(* final values is missing or not a result.                                 *)
RefusalIsJustified ==
    [][phase' = "refused" /\ phase \in {"scan", "result", "names"} =>
          ReportsForeignTool \/ ReportsTooMany \/ ~EndsWithResult]_svars
=============================================================================
