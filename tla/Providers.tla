----------------------------- MODULE Providers ------------------------------
(***************************************************************************)
(* One call of a model through a provider adapter (packages/daemon/src/    *)
(* openrouter.ts and providers/): the request, the streamed answer line by *)
(* line, and what generateChangeSet makes of it.  The caller may hang up   *)
(* and the request's timer may fire at any moment.                         *)
(*                                                                         *)
(* An answer is made of pieces: a text of two pieces, and the arguments of *)
(* two tool calls of two pieces each, of which call 1 is the ChangeSet     *)
(* tool.  Two pieces in order are a JSON document; anything less is not.   *)
(***************************************************************************)
EXTENDS Naturals, Sequences, SequencesExt, FiniteSets

CONSTANT MaxLines   \* bound: lines of an answer

VARIABLES
    adapter,    \* "openai" for the chat-completions dialect, or "anthropic"
    callAt,     \* "idle", "posted", "streaming" or "over"
    hungUp,     \* the caller's signal has fired
    timedOut,   \* AbortSignal.timeout has fired
    fired,      \* which of the two fired first: AbortSignal.any's reason
    trouble,    \* history: the provider refused, broke off or sent an error
    lines,      \* history: the lines read
    text,       \* pieces of text read
    toolCalls,  \* tool call |-> its pieces
    stopped,    \* Anthropic: tool calls whose block has stopped
    callOutcome \* the attempt's outcome, or "none" yet

providerVars == <<adapter, callAt, hungUp, timedOut, fired, trouble, lines, text,
                  toolCalls, stopped, callOutcome>>

ToolCalls == {1, 2}
ChangeSetTool == 1
WholeDocument == <<1, 2>>
NoCall == [c \in {} |-> <<>>]

ProvidersInit ==
    /\ adapter \in {"openai", "anthropic"}
    /\ callAt = "idle"
    /\ hungUp = FALSE /\ timedOut = FALSE /\ fired = "none"
    /\ trouble = FALSE
    /\ lines = <<>> /\ text = <<>> /\ toolCalls = NoCall /\ stopped = {}
    /\ callOutcome = "none"

Over(outcome) == callAt' = "over" /\ callOutcome' = outcome
Unread == UNCHANGED <<lines, text, toolCalls, stopped>>
Unsignalled == UNCHANGED <<hungUp, timedOut, fired>>

-----------------------------------------------------------------------------
CallerHangsUp ==
    /\ callAt # "over" /\ ~hungUp
    /\ hungUp' = TRUE
    /\ fired' = IF fired = "none" THEN "hangUp" ELSE fired
    /\ Unread /\ UNCHANGED <<adapter, callAt, timedOut, trouble, callOutcome>>

TimerFires ==
    /\ callAt \in {"posted", "streaming"} /\ ~timedOut
    /\ timedOut' = TRUE
    /\ fired' = IF fired = "none" THEN "timer" ELSE fired
    /\ Unread /\ UNCHANGED <<adapter, callAt, hungUp, trouble, callOutcome>>

(* #post, which needs a credential. *)
Post ==
    /\ callAt = "idle"
    /\ callAt' = "posted"
    /\ Unsignalled /\ Unread /\ UNCHANGED <<adapter, trouble, callOutcome>>
NoCredential ==
    /\ callAt = "idle"
    /\ Over("provider-error")
    /\ trouble' = TRUE
    /\ Unsignalled /\ Unread /\ UNCHANGED adapter

(* transportFailure: fetch rejected, because a signal fired or because the *)
(* provider could not be reached.                                          *)
TransportFailure ==
    IF hungUp THEN "cancelled" ELSE IF timedOut THEN "timeout" ELSE "provider-error"
FetchRejects ==
    /\ callAt = "posted"
    /\ Over(TransportFailure)
    /\ trouble' = (fired = "none")
    /\ Unsignalled /\ Unread /\ UNCHANGED adapter

(* #httpFailure, by outcomeForStatus. *)
OutcomeForStatus(status) ==
    CASE status = 429 -> "rate-limited"
      [] status \in {408, 504} -> "timeout"
      [] OTHER -> "provider-error"
HttpFailure(status) ==
    /\ callAt = "posted" /\ fired = "none"
    /\ Over(OutcomeForStatus(status))
    /\ trouble' = TRUE
    /\ Unsignalled /\ Unread /\ UNCHANGED adapter

Responds ==
    /\ callAt = "posted" /\ fired = "none"
    /\ callAt' = "streaming"
    /\ Unsignalled /\ Unread /\ UNCHANGED <<adapter, trouble, callOutcome>>

-----------------------------------------------------------------------------
(* The lines of an answer.  A provider sends the pieces of a text, or of a *)
(* call, in order, but mixes them; Anthropic brackets each call.           *)
Piece(c, n) == [line |-> "piece", call |-> c, n |-> n]
Sent(l) == Contains(lines, l)
Next2(c) == IF Sent(Piece(c, 1)) THEN 2 ELSE 1   \* the piece that is due
Starts(c) == [line |-> "start", call |-> c]
Stops(c) == [line |-> "stop", call |-> c]
MaySend(l) ==
    /\ ~Sent(l)
    /\ CASE l.line = "piece" ->
              /\ l.n = Next2(l.call)
              /\ adapter = "anthropic" /\ l.call # 0 => Sent(Starts(l.call)) /\ ~Sent(Stops(l.call))
         [] l.line = "start" -> adapter = "anthropic"
         [] l.line = "stop" -> Sent(Starts(l.call))
         [] OTHER -> TRUE
Lines == {Piece(c, n) : c \in {0} \cup ToolCalls, n \in 1 .. 2}
    \cup {Starts(c) : c \in ToolCalls} \cup {Stops(c) : c \in ToolCalls}

(* A call's pieces so far and one more; the first opens it. *)
ExtendedUnkeyed(c, n) ==
    LET k == IF toolCalls = NoCall THEN c ELSE CHOOSE m \in DOMAIN toolCalls : TRUE
    IN  [m \in DOMAIN toolCalls \cup {k} |->
            IF m = k THEN Append(IF k \in DOMAIN toolCalls THEN toolCalls[k] ELSE <<>>, n) ELSE toolCalls[m]]
Extended(c, n) ==
    [m \in DOMAIN toolCalls \cup {c} |->
        IF m = c THEN Append(IF c \in DOMAIN toolCalls THEN toolCalls[c] ELSE <<>>, n) ELSE toolCalls[m]]

(* stream(): one line of the answer. *)
ReadLine(l) ==
    /\ callAt = "streaming" /\ fired = "none"
    /\ Len(lines) < MaxLines
    /\ MaySend(l)
    /\ lines' = Append(lines, l)
    /\ text' = IF l.line = "piece" /\ l.call = 0 THEN Append(text, l.n) ELSE text
    /\ toolCalls' = IF l.line = "piece" /\ l.call # 0 THEN Extended(l.call, l.n) ELSE toolCalls
    /\ stopped' = IF l.line = "stop" THEN stopped \cup {l.call} ELSE stopped
    /\ Unsignalled /\ UNCHANGED <<adapter, callAt, trouble, callOutcome>>

(* An error envelope with its status, or a line that is not JSON. *)
ErrorLine(outcome) ==
    /\ callAt = "streaming" /\ fired = "none"
    /\ Over(outcome)
    /\ trouble' = TRUE
    /\ Unsignalled /\ Unread /\ UNCHANGED adapter

(* The wait for a chunk ends by a signal or a broken connection.  Before   *)
(* each wait the caller's signal is looked at; a wait that is under way    *)
(* rejects with the error of whichever signal fired first, and outcomeOf   *)
(* tells the two apart.                                                    *)
OutcomeOf ==
    (IF hungUp THEN {"cancelled"} ELSE {})
    \cup (CASE fired = "hangUp" -> {"cancelled"}
            [] fired = "timer" -> {"timeout"}
            [] OTHER -> {"provider-error"})
ReadRejects ==
    /\ callAt = "streaming"
    /\ \E outcome \in OutcomeOf : Over(outcome)
    /\ trouble' = (fired = "none")
    /\ Unsignalled /\ Unread /\ UNCHANGED adapter

-----------------------------------------------------------------------------
(* The tool calls of the completion: all of them in the one dialect; in    *)
(* the other those whose block has stopped.  No two are the ChangeSet      *)
(* tool's, so their order tells nothing.                                   *)
CompletedCalls == IF adapter = "openai" THEN DOMAIN toolCalls ELSE stopped
Arguments(c) == IF c \in DOMAIN toolCalls THEN toolCalls[c] ELSE <<>>

(* envelopeOf: the ChangeSet tool's arguments, or those of a call that is  *)
(* the only one, or the text.                                              *)
Envelope ==
    IF ChangeSetTool \in CompletedCalls THEN Arguments(ChangeSetTool)
    ELSE IF CompletedCalls = {} THEN text
    ELSE IF \E c \in CompletedCalls : CompletedCalls = {c}
    THEN Arguments(CHOOSE c \in CompletedCalls : TRUE)
    ELSE <<>>

(* The stream ends, with a finish reason, with [DONE] or with neither: the *)
(* adapter completes, and generateChangeSet parses what it completed with, *)
(* or reports a refusal.                                                   *)
StreamEnds(reason) ==
    /\ callAt = "streaming" /\ fired = "none"
    /\ Over(IF reason = "refusal" THEN "refused"
            ELSE IF Envelope = WholeDocument THEN "ok" ELSE "invalid-output")
    /\ Unsignalled /\ Unread /\ UNCHANGED <<adapter, trouble>>

ProvidersNext ==
    \/ CallerHangsUp \/ TimerFires
    \/ Post \/ NoCredential \/ FetchRejects \/ Responds
    \/ \E status \in {429, 408, 504, 500} : HttpFailure(status)
    \/ \E l \in Lines : ReadLine(l)
    \/ \E outcome \in {"rate-limited", "timeout", "provider-error", "invalid-output"} : ErrorLine(outcome)
    \/ ReadRejects
    \/ \E reason \in {"stop", "refusal", "none"} : StreamEnds(reason)

ProvidersSpec == ProvidersInit /\ [][ProvidersNext]_providerVars

-----------------------------------------------------------------------------
(* A ChangeSet is taken only from a document whose pieces all arrived, in  *)
(* one text or one call, however the calls are mixed and wherever the      *)
(* stream stops; a stream that broke or reported an error gives none; and  *)
(* a ChangeSet call that did arrive whole is not lost.                     *)
SentWhole(c) == Sent(Piece(c, 1)) /\ Sent(Piece(c, 2))
WholeDocumentsOnly ==
    /\ callOutcome = "ok" =>
        /\ \E c \in {0} \cup ToolCalls :
              /\ SentWhole(c)
              /\ \A other \in ToolCalls \ {c} :
                    other \in CompletedCalls => c = ChangeSetTool
        /\ ~trouble
    /\ callOutcome = "invalid-output" /\ ~trouble =>
        ~(SentWhole(ChangeSetTool) /\ (adapter = "anthropic" => Sent(Stops(ChangeSetTool))))

(* A caller that hangs up is never held against the provider: the breaker  *)
(* hears of a failure only when the provider failed or its time ran out.   *)
HangUpIsNotBlamed ==
    /\ callOutcome = "cancelled" => hungUp
    /\ callOutcome \in {"rate-limited", "provider-error", "timeout"} => trouble \/ timedOut

(* The outcome a call is recorded with is the one it deserves: the two     *)
(* above together (generateChangeSet, outcomeOf).                          *)
OutcomesAreDeserved == WholeDocumentsOnly /\ HangUpIsNotBlamed
=============================================================================
