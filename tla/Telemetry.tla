------------------------------ MODULE Telemetry -----------------------------
(***************************************************************************)
(* The OTLP exporter (packages/core/src/telemetry/otlp.ts): spans that end *)
(* are queued, a full batch is flushed, flushes post one after another,    *)
(* metrics are cumulative, and a collector may refuse a post or stall.     *)
(***************************************************************************)
EXTENDS Naturals, Sequences, SequencesExt

CONSTANTS
    Spans,          \* spans a program starts
    MaxBatchSize,   \* maxBatchSize
    MaxQueueSize,   \* maxQueueSize
    MaxCount        \* bound: counts recorded

ASSUME TelemetryAssumption ==
    MaxBatchSize \in Nat \ {0} /\ MaxQueueSize \in Nat \ {0}

VARIABLES
    span,       \* span |-> "unstarted", "open" or "ended"
    queue,      \* #spans
    dropped,    \* #dropped
    counter,    \* a cumulative counter; 0 until it is first counted
    chain,      \* the flushes behind #inFlight, each <<its spans, its counter>>
    awaited,    \* shutdown(): flushes it still waits for, plus 1; 0 before it is called
    closed,     \* #closed
    exported,   \* history: spans the collector took
    unheard,    \* history: spans of posts the collector did not take
    late,       \* history: spans that ended on a closed exporter
    totals      \* history: the counter as the collector was told it

telemetryVars == <<span, queue, dropped, counter, chain, awaited, closed, exported, unheard, late, totals>>
histories == <<exported, unheard, late, totals>>

TelemetryInit ==
    /\ span = [s \in Spans |-> "unstarted"]
    /\ queue = <<>> /\ dropped = 0 /\ counter = 0
    /\ chain = <<>> /\ awaited = 0 /\ closed = FALSE
    /\ exported = <<>> /\ unheard = <<>> /\ late = <<>> /\ totals = <<>>

StartSpan(s) ==
    /\ span[s] = "unstarted"
    /\ span' = [span EXCEPT ![s] = "open"]
    /\ UNCHANGED <<queue, dropped, counter, chain, awaited, closed, histories>>

(* counter() and histogram(). *)
Count ==
    /\ ~closed
    /\ counter < MaxCount
    /\ counter' = counter + 1
    /\ UNCHANGED <<span, queue, dropped, chain, awaited, closed, histories>>

(* flush(): these spans and the metrics as they are now go behind the      *)
(* flushes that have not finished; with neither, nothing does.             *)
Flushed(q) ==
    IF q = <<>> /\ counter = 0 THEN chain ELSE Append(chain, <<q, counter>>)

(* end() and #enqueue: the oldest of a queue that is too long are dropped, *)
(* and a full batch is flushed.                                            *)
EndSpan(s) ==
    LET all == Append(queue, s)
        over == IF Len(all) > MaxQueueSize THEN Len(all) - MaxQueueSize ELSE 0
        kept == SubSeq(all, over + 1, Len(all))
        full == Len(kept) >= MaxBatchSize
    IN  /\ span[s] = "open"
        /\ span' = [span EXCEPT ![s] = "ended"]
        /\ IF closed
           THEN late' = Append(late, s) /\ UNCHANGED <<queue, dropped, chain>>
           ELSE /\ dropped' = dropped + over
                /\ queue' = IF full THEN <<>> ELSE kept
                /\ chain' = IF full THEN Flushed(kept) ELSE chain
                /\ UNCHANGED late
        /\ UNCHANGED <<counter, awaited, closed, exported, unheard, totals>>

FlushNow ==
    /\ queue # <<>>
    /\ queue' = <<>>
    /\ chain' = Flushed(queue)
    /\ UNCHANGED <<span, dropped, counter, awaited, closed, histories>>

(* #inFlight.then(run, run): the flush whose turn it is posts its traces   *)
(* and then its metrics.  A post that fails is reported and forgotten.     *)
TurnsAny == DOMAIN chain
Turns == {k \in DOMAIN chain : k = 1}
PostTraces(k) ==
    /\ k \in Turns
    /\ chain[k][1] # <<>>
    /\ \/ exported' = exported \o chain[k][1] /\ UNCHANGED unheard
       \/ unheard' = unheard \o chain[k][1] /\ UNCHANGED exported
    /\ chain' = [chain EXCEPT ![k][1] = <<>>]
    /\ UNCHANGED <<span, queue, dropped, counter, awaited, closed, late, totals>>
PostMetrics(k) ==
    /\ k \in Turns
    /\ chain[k][1] = <<>>
    /\ totals' \in {totals} \cup (IF chain[k][2] = 0 THEN {} ELSE {Append(totals, chain[k][2])})
    /\ chain' = RemoveAt(chain, k)
    /\ awaited' = IF awaited > 1 THEN awaited - 1 ELSE awaited
    /\ UNCHANGED <<span, queue, dropped, counter, closed, exported, unheard, late>>

(* shutdown(): a flush, and closed once that one is through. *)
Shutdown ==
    /\ awaited = 0
    /\ queue' = <<>>
    /\ chain' = Flushed(queue)
    /\ awaited' = Len(chain') + 1
    /\ UNCHANGED <<span, dropped, counter, closed, histories>>
Close ==
    /\ awaited = 1 /\ ~closed
    /\ closed' = TRUE
    /\ UNCHANGED <<span, queue, dropped, counter, chain, awaited, histories>>

TelemetryNext ==
    \/ \E s \in Spans : StartSpan(s) \/ EndSpan(s)
    \/ Count \/ FlushNow \/ Shutdown \/ Close
    \/ \E k \in DOMAIN chain : PostTraces(k) \/ PostMetrics(k)

TelemetrySpec == TelemetryInit /\ [][TelemetryNext]_telemetryVars

-----------------------------------------------------------------------------
Waiting == FlattenSeq([k \in DOMAIN chain |-> chain[k][1]])
EndedSpans == {s \in Spans : span[s] = "ended"}

(* Every span that ended is in exactly one place - queued, behind a post,  *)
(* posted, or ended too late - or is counted by droppedSpans(); and the    *)
(* collector never sees the cumulative counter go back, whatever stalls.   *)
SpansAreAccounted ==
    LET everywhere == queue \o Waiting \o exported \o unheard \o late
    IN  /\ IsInjective(everywhere)
        /\ ToSet(everywhere) \subseteq EndedSpans
        /\ Len(everywhere) + dropped = Len(SetToSeq(EndedSpans))
        /\ \A i, j \in DOMAIN totals : i < j => totals[i] <= totals[j]
=============================================================================
