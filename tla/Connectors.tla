----------------------------- MODULE Connectors -----------------------------
(***************************************************************************)
(* The two connectors a person installs beside a daemon: the MCP server,   *)
(* whose tools a model calls, and the command line, whose exit code a      *)
(* pipeline branches on.  Neither may approve anything; both report what   *)
(* the daemon says, over requests that may fail before or after they       *)
(* arrive.                                                                 *)
(*                                                                         *)
(* The daemon is here as the status of each ChangeSet and the state of     *)
(* each journal; its own rules are Daemon's.  A call proposes at most one  *)
(* ChangeSet, which therefore bears the name of the call.                  *)
(***************************************************************************)
EXTENDS Naturals, Sequences, FiniteSets

CONSTANTS
    McpCalls,      \* tool calls that are made, concurrently
    Tools,          \* the tools they may be of
    Entries,        \* journal entries
    CommandLines,   \* what is typed, see MCComponents
    MaxYes,         \* bound: times a person clears the reversal of one entry
    MaxWatches      \* bound: seconds the command line watches

VARIABLES
    connector,      \* "mcp" or "shell": the one a behaviour is about
    held,           \* daemon: ChangeSet -> its status, or "none"
    entries,        \* daemon: journal entry -> [asked, result, done]
    approvals,  \* history: ChangeSets a person approved
    pending,        \* #pending: entries whose reversal is cleared and unused
    cleared,        \* history: entry -> clearances given and not withdrawn
    reversed,       \* history: entry -> reversals asked for by tools
    calls,          \* tool call -> how far it is and what it answered
    shell           \* the command line

connectorVars == <<connector, held, entries, approvals, pending, cleared, reversed, calls, shell>>

ShellRun == "shell"          \* the ChangeSet of `forgebridge run'
HeldSets == McpCalls \cup {ShellRun}
AwaitingStudio == {"approved", "applying"}
ToldByStudio == {"applied", "partial", "failed"}

Silence == [code |-> "pending", names |-> "none", approved |-> FALSE, braces |-> FALSE]
NoToolCall == [tool |-> "none", target |-> "none", left |-> <<>>, stored |-> FALSE, answer |-> Silence]
Prompt == [line |-> <<>>, at |-> "ready", left |-> 0, exit |-> 0, wrote |-> FALSE,
           pinned |-> FALSE, hint |-> FALSE]

ConnectorsInit ==
    /\ connector \in {"mcp", "shell"}
    /\ held = [s \in HeldSets |-> "none"]
    /\ entries = [j \in Entries |-> [asked |-> FALSE, result |-> "none", done |-> FALSE]]
    /\ approvals = {} /\ pending = {}
    /\ cleared = [j \in Entries |-> 0] /\ reversed = [j \in Entries |-> 0]
    /\ calls = [c \in McpCalls |-> NoToolCall]
    /\ shell = Prompt

-----------------------------------------------------------------------------
(* The daemon and the people around it *)

(* journalStateOf *)
EntryState(j) ==
    CASE entries[j].done -> "rolled_back"
      [] ~entries[j].done /\ entries[j].result # "none" -> entries[j].result
      [] OTHER -> IF entries[j].asked THEN "rollback_requested" ELSE "applied"

PersonApproves(s) ==
    /\ held[s] = "validated"
    /\ held' = [held EXCEPT ![s] = "approved"]
    /\ approvals' = approvals \cup {s}
    /\ UNCHANGED <<entries, pending, cleared, reversed, calls, shell>>

StudioReports(s, status) ==
    /\ held[s] \in AwaitingStudio
    /\ held' = [held EXCEPT ![s] = status]
    /\ UNCHANGED <<entries, approvals, pending, cleared, reversed, calls, shell>>

(* recordRollbackResult: only of a reversal that was asked for. *)
StudioReverses(j, outcome) ==
    /\ entries[j].asked /\ ~entries[j].done
    /\ entries' = [entries EXCEPT ![j].done = (outcome = "rolled_back"),
                                  ![j].result = IF outcome = "rolled_back" THEN "none" ELSE outcome]
    /\ UNCHANGED <<held, approvals, pending, cleared, reversed, calls, shell>>

(* Another producer, or an earlier command, has asked for a reversal. *)
AnotherReverses(j) ==
    /\ ~entries[j].done
    /\ entries' = [entries EXCEPT ![j].asked = TRUE]
    /\ UNCHANGED <<held, approvals, pending, cleared, reversed, calls, shell>>

(* LocalOperatorRollbackGate: record and revoke, by the process around the *)
(* server.  DENY_ALL_ROLLBACKS is the gate nobody records into.            *)
RecordClearance(j) ==
    /\ cleared[j] < MaxYes
    /\ pending' = pending \cup {j}
    /\ cleared' = [cleared EXCEPT ![j] = @ + 1]
    /\ UNCHANGED <<held, entries, approvals, reversed, calls, shell>>

RevokeClearance(j) ==
    /\ j \in pending
    /\ pending' = pending \ {j}
    /\ cleared' = [cleared EXCEPT ![j] = @ - 1]
    /\ UNCHANGED <<held, entries, approvals, reversed, calls, shell>>

-----------------------------------------------------------------------------
(* A request to the daemon: it may not arrive, its answer may be lost or   *)
(* be unreadable, and the daemon may refuse it.                            *)
Fates == {"answered", "refused", "down", "lost", "garbled"}
Reaches(fate) == fate \in {"answered", "lost", "garbled"}

(* A code the daemon refuses a route with; what is not there and what was  *)
(* reversed already it refuses whatever the rest says.                     *)
Refusals == [link |-> "unsupported_version", read |-> "rate_limited", submit |-> "too_large",
             run |-> "provider_unconfigured", diff |-> "link_unauthenticated",
             reverse |-> "stale_base"]
RefusedAnyway(verb, subject) ==
    \/ verb = "diff" /\ held[subject] = "none"
    \/ verb = "reverse" /\ entries[subject].done

(* #request and errorFor of the tools' client: a code the daemon chose is  *)
(* passed on; everything else is `internal'.                               *)
CodeHeard(fate, verb, subject) ==
    CASE fate \in {"down", "lost", "garbled"} -> "internal"
      [] fate \in {"answered", "refused"} /\ RefusedAnyway(verb, subject) ->
             IF verb = "diff" THEN "not_found" ELSE "invalid_request"
      [] fate = "refused" /\ ~RefusedAnyway(verb, subject) -> Refusals[verb]
      [] OTHER -> "ok"

-----------------------------------------------------------------------------
(* The tools *)

(* The tools that only read; listProjects does too. *)
ReadingTools == {"link_status", "list_models", "tail_output"}

(* The requests a handler makes, in order: resolveProjectId asks for the   *)
(* default project when none is named.                                     *)
RequestsOf(tool, named) ==
    CASE tool = "propose_changeset" ->
            IF named THEN <<"submit", "render">> ELSE <<"link", "submit", "render">>
      [] tool = "start_run" -> IF named THEN <<"run">> ELSE <<"link", "run">>
      [] tool = "rollback" -> <<"reverse">>
      [] tool \in {"diff_changeset", "apply_changeset"} -> <<"diff">>
      [] tool \in {"list_projects"} \cup ReadingTools -> <<"read">>

(* toolFailure: the code, in an object behind a sentence that may itself   *)
(* contain a brace.  textResult: a value.                                  *)
ToolFailure(code, braces) == [Silence EXCEPT !.code = code, !.braces = braces]
TextResult(names, isApproved) == [Silence EXCEPT !.code = "ok", !.names = names, !.approved = isApproved]

(* classifyFailure and failureBodyOf, where the answer is read: the object *)
(* begins at the first brace, and what does not parse is not recognised.   *)
FailureRead(answer) ==
    IF answer.braces THEN [code |-> "internal", recognised |-> FALSE]
    ELSE [code |-> answer.code, recognised |-> TRUE]

(* LocalOperatorRollbackGate#consume.  Mutant: the clearance stays. *)
ConsumedNever(j) == pending
Consumed(j) == pending \ {j}

(* read_tree and read_script, run_tests: /v1 has no route for them. *)
NoRoute == {"read_tree", "read_script"}
NoSandbox == {"run_tests"}

(* The tools whose handler parses its arguments. *)
ParsingTools == {"propose_changeset", "start_run", "rollback", "diff_changeset",
                 "apply_changeset", "tail_output"}

(* The registered handler, up to its first request. *)
CallTool(c, tool, target, named, wellFormed) ==
    LET refused(code) == [NoToolCall EXCEPT !.tool = tool, !.target = target,
                                            !.answer = ToolFailure(code, FALSE)]
    IN  /\ calls[c].tool = "none" /\ (tool = "rollback" => ~wellFormed)
        /\ wellFormed \/ tool \in ParsingTools
        /\ calls' = [calls EXCEPT ![c] =
              CASE ~wellFormed -> refused("invalid_request")
                [] wellFormed /\ tool \in NoRoute -> refused("not_found")
                [] wellFormed /\ tool \in NoSandbox -> refused("provider_unconfigured")
                [] OTHER -> [NoToolCall EXCEPT !.tool = tool, !.target = target,
                                               !.left = RequestsOf(tool, named)]]
        /\ UNCHANGED <<held, entries, approvals, pending, cleared, reversed, shell>>

(* The rollback handler: the gate is asked before the daemon is, and       *)
(* answers without waiting.                                                *)
CallRollback(c, j) ==
    LET call == [NoToolCall EXCEPT !.tool = "rollback", !.target = j] IN
    /\ calls[c].tool = "none"
    /\ calls' = [calls EXCEPT ![c] =
          IF j \in pending THEN [call EXCEPT !.left = RequestsOf("rollback", TRUE)]
          ELSE [call EXCEPT !.answer = ToolFailure("not_approved", FALSE)]]
    /\ pending' = Consumed(j)
    /\ UNCHANGED <<held, entries, approvals, cleared, reversed, shell>>

(* The answer ends a call; a request that is not its last moves it on. *)
Finish(c, answer) == calls' = [calls EXCEPT ![c].answer = answer, ![c].left = <<>>]
MoveOn(c) == calls' = [calls EXCEPT ![c].left = Tail(@)]
Asking(c, verb) == calls[c].left # <<>> /\ Head(calls[c].left) = verb

Fails(c, code, braces) == Finish(c, ToolFailure(code, braces /\ code # "internal"))

(* resolveProjectId, when the daemon has to name the project. *)
AskProject(c, fate, hasDefault, braces) ==
    LET code == CodeHeard(fate, "link", "none") IN
    /\ Asking(c, "link")
    /\ CASE code # "ok" -> Fails(c, code, braces)
         [] code = "ok" /\ ~hasDefault -> Fails(c, "not_found", FALSE)
         [] OTHER -> MoveOn(c)
    /\ UNCHANGED <<held, entries, approvals, pending, cleared, reversed, shell>>

(* The reads: listProjects, linkStatus, listModels, tailOutput. *)
AskRead(c, fate, braces) ==
    LET code == CodeHeard(fate, "read", "none") IN
    /\ Asking(c, "read")
    /\ IF code = "ok" THEN Finish(c, TextResult("none", FALSE)) ELSE Fails(c, code, braces)
    /\ UNCHANGED <<held, entries, approvals, pending, cleared, reversed, shell>>

(* submitChangeSet: the daemon stores what it accepts under the id the     *)
(* tool chose, with its verdict.                                           *)
AskSubmit(c, fate, verdict, braces) ==
    LET code == CodeHeard(fate, "submit", "none") IN
    /\ Asking(c, "submit")
    /\ held' = IF Reaches(fate) THEN [held EXCEPT ![c] = verdict] ELSE held
    /\ IF code = "ok" THEN calls' = [calls EXCEPT ![c].left = Tail(@), ![c].stored = TRUE]
       ELSE Fails(c, code, braces)
    /\ UNCHANGED <<entries, approvals, pending, cleared, reversed, shell>>

(* The diff of what was just proposed: whether it comes or not, the answer *)
(* names the proposal.                                                     *)
AskRender(c) ==
    /\ Asking(c, "render")
    /\ Finish(c, TextResult(c, FALSE))
    /\ UNCHANGED <<held, entries, approvals, pending, cleared, reversed, shell>>

(* startRun: the run is answered even when it failed, with the ChangeSet   *)
(* it left, if any.                                                        *)
AskRun(c, fate, verdict, braces) ==
    LET code == CodeHeard(fate, "run", "none")
        leaves == verdict # "none"
    IN
    /\ Asking(c, "run")
    /\ held' = IF Reaches(fate) THEN [held EXCEPT ![c] = verdict] ELSE held
    /\ IF code = "ok"
       THEN calls' = [calls EXCEPT ![c].left = <<>>, ![c].stored = leaves,
                                   ![c].answer = TextResult(IF leaves THEN c ELSE "none", FALSE)]
       ELSE Fails(c, code, braces)
    /\ UNCHANGED <<entries, approvals, pending, cleared, reversed, shell>>

(* applyChangeSet: what a status means; an unknown one is not approved. *)
ApplyAnswer(s) ==
    CASE held[s] \in AwaitingStudio \cup ToldByStudio -> TextResult(s, TRUE)
      [] held[s] = "stale" -> ToolFailure("stale_base", FALSE)
      [] OTHER -> ToolFailure("not_approved", FALSE)

(* diffChangeSet and applyChangeSet read the same route. *)
AskDiff(c, fate, braces) ==
    LET s == calls[c].target
        code == CodeHeard(fate, "diff", s)
    IN
    /\ Asking(c, "diff")
    /\ CASE code # "ok" -> Fails(c, code, braces)
         [] code = "ok" /\ calls[c].tool = "apply_changeset" -> Finish(c, ApplyAnswer(s))
         [] OTHER -> Finish(c, TextResult(s, FALSE))
    /\ UNCHANGED <<held, entries, approvals, pending, cleared, reversed, shell>>

(* rollback, once it was cleared: the clearance is spent whatever happens. *)
AskReverse(c, fate, braces) ==
    LET j == calls[c].target
        code == CodeHeard(fate, "reverse", j)
    IN
    /\ Asking(c, "reverse")
    /\ reversed' = [reversed EXCEPT ![j] = @ + 1]
    /\ entries' = IF Reaches(fate) /\ ~RefusedAnyway("reverse", j)
                  THEN [entries EXCEPT ![j].asked = TRUE] ELSE entries
    /\ IF code = "ok" THEN Finish(c, TextResult("none", TRUE)) ELSE Fails(c, code, braces)
    /\ UNCHANGED <<held, approvals, pending, cleared, shell>>

-----------------------------------------------------------------------------
(* The command line.  A line is a command, its operands and its flags; the *)
(* value of a flag is "some", "zero", "pinned", or one that is refused.    *)
Broken == {"twice", "empty", "bad"}

(* parseArgs, strict: the flags each command knows. *)
FlagsOf(command) ==
    {"url", "token"} \cup
    CASE command = "link" -> {"code"}
      [] command = "models" -> {"free", "caps"}
      [] command = "run" -> {"project", "policy", "model", "baseVersion", "maxAttempts"}
      [] command = "apply" -> {"timeout"}
      [] command = "rollback" -> {"expectedVersion", "reason", "timeout"}
      [] OTHER -> {}

(* rejectPositionals, requireExactlyOnePositional, requireUuid. *)
OperandFits(line) ==
    CASE line.command \in {"link", "models", "status"} -> line.operand = "none"
      [] line.command = "run" -> line.operand \in {"id", "words"}
      [] OTHER -> line.operand = "id"

Given(line, flag) == flag \in DOMAIN line.flags

(* parseRun: `pinned' and --model are one decision. *)
PolicyFits(line) ==
    LET pins == Given(line, "policy") /\ line.flags["policy"] = "pinned" IN
    /\ pins => Given(line, "model")
    /\ Given(line, "model") /\ Given(line, "policy") => pins

Parses(line) ==
    /\ line.command # "unknown"
    /\ DOMAIN line.flags \subseteq FlagsOf(line.command)
    /\ \A f \in DOMAIN line.flags : line.flags[f] \notin Broken
    /\ OperandFits(line)
    /\ line.command = "rollback" => Given(line, "expectedVersion")
    /\ line.command = "run" => PolicyFits(line)

(* --timeout 0 reports what is true now. *)
Watches(line) ==
    IF Given(line, "timeout") /\ line.flags["timeout"] = "zero" THEN 0 ELSE MaxWatches

(* dispatch: what a command asks first. *)
FirstRequest(command) == IF command = "status" THEN "health" ELSE "link"

(* main, parseInvocation: help does nothing, a line that does    *)
(* not parse attempts nothing, and `link --code' is refused before it      *)
(* reaches the daemon.                                                     *)
TypeLine(line) ==
    /\ shell.at \in {"ready", "ended"}
    /\ line.command = "run" => held[ShellRun] = "none"
    /\ shell' = [Prompt EXCEPT
          !.line = line,
          !.at = IF line.command = "help" \/ ~Parses(line) \/ Given(line, "code") THEN "ended"
                 ELSE FirstRequest(line.command),
          !.left = Watches(line),
          !.exit = IF line.command = "help" THEN 0 ELSE 2,
          !.pinned = line.command = "run" /\ Given(line, "model")]
    /\ UNCHANGED <<held, entries, approvals, pending, cleared, reversed, calls>>

(* exitCodeFor: 3 when nothing answered, 1 for a refusal and for a body    *)
(* that is not the contract's; outcomeCode: 0 for the one good outcome.    *)
ExitOf(fate, good) ==
    IF fate \in {"down", "lost"} THEN 3 ELSE IF fate = "answered" /\ good THEN 0 ELSE 1
EndWith(exit) == shell' = [shell EXCEPT !.at = "ended", !.exit = exit]
GoTo(at) == shell' = [shell EXCEPT !.at = at]

(* #send: a producer route needs a token, and says so before it is called. *)
NoToken == ~Given(shell.line, "token")
TokenRoutes == {"diff", "reverse", "run"}
TokenMissing ==
    /\ shell.at \in TokenRoutes /\ NoToken
    /\ EndWith(2)
    /\ UNCHANGED <<held, entries, approvals, pending, cleared, reversed, calls>>

(* health, linkStatus and models need none.  Every command reads the link  *)
(* first, for its posture.                                                 *)
ShellReads(fate, configured) ==
    /\ shell.at \in {"health", "link", "models"}
    /\ LET command == shell.line.command IN
       IF shell.at = "models"
       THEN EndWith(IF command = "status" THEN 0 ELSE ExitOf(fate, configured))
       ELSE IF fate # "answered" THEN EndWith(ExitOf(fate, FALSE))
       ELSE CASE shell.at = "health" -> GoTo("link")
              [] shell.at = "link" /\ command \in {"apply", "diff"} -> GoTo("diff")
              [] shell.at = "link" /\ command = "rollback" -> GoTo("reverse")
              [] shell.at = "link" /\ command = "run" -> GoTo("run")
              [] shell.at = "link" /\ command \in {"models", "status"} -> GoTo("models")
              [] shell.at = "link" /\ command = "link" -> EndWith(0)
    /\ UNCHANGED <<held, entries, approvals, pending, cleared, reversed, calls>>

(* applyCommand and its watch; diffCommand stops at the first answer.      *)
(* Only a report ends the watch before its time.                           *)
ShellDiff(s, fate) ==
    /\ shell.at \in {"diff", "watch"} /\ ~NoToken
    /\ LET status == held[s]
           over == IF shell.at = "diff" THEN status \notin AwaitingStudio ELSE status \in ToldByStudio
       IN  CASE fate # "answered" \/ status = "none" -> EndWith(ExitOf(fate, FALSE))
             [] fate = "answered" /\ status # "none" /\ shell.line.command = "diff" -> EndWith(0)
             [] OTHER -> IF over \/ shell.left = 0 THEN EndWith(ExitOf(fate, status = "applied"))
                         ELSE shell' = [shell EXCEPT !.at = "watch", !.left = @ - 1]
    /\ UNCHANGED <<held, entries, approvals, pending, cleared, reversed, calls>>

(* rollbackCommand: dispatch, then read the entry until it is answered.    *)
ShellReverse(j, fate) ==
    /\ shell.at = "reverse" /\ ~NoToken
    /\ entries' = IF Reaches(fate) /\ ~RefusedAnyway("reverse", j)
                  THEN [entries EXCEPT ![j].asked = TRUE] ELSE entries
    /\ LET dispatched == fate = "answered" /\ ~RefusedAnyway("reverse", j)
       IN  shell' = [shell EXCEPT !.wrote = TRUE,
                                  !.at = IF dispatched THEN "journal" ELSE "ended",
                                  !.exit = IF dispatched THEN @ ELSE ExitOf(fate, FALSE)]
    /\ UNCHANGED <<held, approvals, pending, cleared, reversed, calls>>

(* IN_FLIGHT: the states the consumer has not answered from; an answer to  *)
(* an earlier request ends the watch like one to this.                     *)
ShellJournal(j, fate) ==
    /\ shell.at = "journal"
    /\ LET state == EntryState(j) IN
       IF fate = "answered" /\ state \in {"applied", "rollback_requested"} /\ shell.left > 0
       THEN shell' = [shell EXCEPT !.left = @ - 1]
       ELSE EndWith(ExitOf(fate, state = "rolled_back"))
    /\ UNCHANGED <<held, entries, approvals, pending, cleared, reversed, calls>>

(* runCommand, nextSteps: the outcome is read off the body, and the way to *)
(* approve is printed for a set that can be approved.                      *)
ShellStartsRun(fate, verdict) ==
    /\ shell.at = "run" /\ ~NoToken
    /\ held' = IF Reaches(fate) THEN [held EXCEPT ![ShellRun] = verdict] ELSE held
    /\ shell' = [shell EXCEPT !.wrote = TRUE, !.at = "ended",
                              !.exit = ExitOf(fate, verdict = "validated"),
                              !.hint = (fate = "answered" /\ verdict = "validated")]
    /\ UNCHANGED <<entries, approvals, pending, cleared, reversed, calls>>

(* The tools that are registered, and lines that name what there is. *)
ASSUME ConnectorsAssumption ==
    /\ IsFiniteSet(McpCalls)
    /\ Tools \subseteq ParsingTools \cup ReadingTools \cup NoRoute \cup NoSandbox \cup {"list_projects"}
    /\ MaxWatches \in Nat
    /\ \A line \in CommandLines :
          /\ line.command \in {"help", "link", "models", "status", "run", "diff", "apply", "rollback",
                               "unknown"}
          /\ line.command \in {"diff", "apply"} => line.target \in HeldSets
          /\ line.command = "rollback" => line.target \in Entries

-----------------------------------------------------------------------------
ProposalVerdicts == {"validated", "rejected", "stale"}

(* The sentence of a refusal is the daemon's, and may quote anything. *)
Braces(fate) == IF fate = "refused" THEN BOOLEAN ELSE {FALSE}

AnswerNext ==
    \E c \in McpCalls : calls[c].left # <<>> /\ \E fate \in Fates : \E b \in Braces(fate) :
       \/ \E hasDefault \in BOOLEAN : AskProject(c, fate, hasDefault, b)
       \/ AskRead(c, fate, b)
       \/ \E v \in ProposalVerdicts : AskSubmit(c, fate, v, b)
       \/ AskRender(c)
       \/ \E v \in ProposalVerdicts \cup {"none"} : AskRun(c, fate, v, b)
       \/ AskDiff(c, fate, b)
       \/ AskReverse(c, fate, b)

ShellNext ==
    \/ \E line \in CommandLines : TypeLine(line)
    \/ TokenMissing
    \/ \E fate \in Fates :
          \/ \E configured \in BOOLEAN : ShellReads(fate, configured)
          \/ shell.at \in {"diff", "watch"} /\ ShellDiff(shell.line.target, fate)
          \/ shell.at = "reverse" /\ ShellReverse(shell.line.target, fate)
          \/ shell.at = "journal" /\ ShellJournal(shell.line.target, fate)
          \/ \E v \in ProposalVerdicts \cup {"none"} : ShellStartsRun(fate, v)

(* What a tool is called about. *)
SubjectsOf(tool) ==
    CASE tool = "rollback" -> Entries
      [] tool \in {"diff_changeset", "apply_changeset"} -> McpCalls
      [] OTHER -> {"none"}

ToolNext ==
    \/ \E c \in McpCalls, tool \in Tools : \E t \in SubjectsOf(tool), named, ok \in BOOLEAN :
          CallTool(c, tool, t, named, ok)
    \/ \E c \in McpCalls, j \in Entries : CallRollback(c, j)
    \/ AnswerNext
    \/ \E j \in Entries : RecordClearance(j) \/ RevokeClearance(j)

ConnectorsNext ==
    /\ \/ connector = "mcp" /\ ToolNext
       \/ connector = "shell" /\ ShellNext
       \/ \E s \in HeldSets : PersonApproves(s) \/ \E o \in ToldByStudio : StudioReports(s, o)
       \/ \E j \in Entries :
             \/ AnotherReverses(j)
             \/ \E o \in {"rolled_back", "rollback_partial", "rollback_failed"} :
                   StudioReverses(j, o)
    /\ UNCHANGED connector

ConnectorsSpec == ConnectorsInit /\ [][ConnectorsNext]_connectorVars

-----------------------------------------------------------------------------
(* One clearance is one reversal: of each entry, the tools have asked for  *)
(* no more reversals than a person cleared, concurrent calls, repeated     *)
(* clearances and withdrawals included (approval.ts, forge.rollback).      *)
ClearedOneByOne ==
    \A j \in Entries :
       reversed[j] + Cardinality({c \in McpCalls : calls[c].target = j /\ Asking(c, "reverse")})
          + (IF j \in pending THEN 1 ELSE 0) <= cleared[j]

(* A tool says a ChangeSet is approved only of one a person approved, and  *)
(* a proposal the daemon acknowledged is named by the answer, whatever     *)
(* fails after it.                                                         *)
ToolsTellTheTruth ==
    \A c \in McpCalls :
       LET a == calls[c].answer IN
       /\ calls[c].tool = "apply_changeset" /\ a.approved => calls[c].target \in approvals
       /\ a # Silence /\ calls[c].stored => a.names = c
       /\ a.code \notin {"ok", "pending"} /\ FailureRead(a).recognised =>
             FailureRead(a).code = a.code

(* Exit 0 of `apply' and of `rollback' means that Studio said so of this   *)
(* very ChangeSet or entry; exit 2 means nothing was asked of the daemon   *)
(* that could change it; a run exits 0 exactly when what it left can be    *)
(* approved.                                                               *)
ExitCodesHold ==
    shell.at = "ended" =>
        /\ shell.exit = 0 /\ shell.line.command = "apply" =>
              held[shell.line.target] = "applied" /\ shell.line.target \in approvals
        /\ shell.exit = 0 /\ shell.line.command = "rollback" =>
              entries[shell.line.target].done /\ shell.wrote
        /\ shell.exit = 2 => ~shell.wrote
        /\ shell.line.command = "run" => (shell.hint <=> shell.exit = 0)
        /\ shell.wrote /\ Given(shell.line, "policy") =>
              (shell.pinned <=> shell.line.flags["policy"] = "pinned")

(* What either connector says happened did happen, and nothing it was not  *)
(* cleared for: the three above together (the tools, the gate, the exit    *)
(* codes of the commands).                                                 *)
ConnectorsAreHonest == ClearedOneByOne /\ ToolsTellTheTruth /\ ExitCodesHold
=============================================================================
