----------------------------- MODULE RunEvents -----------------------------
(***************************************************************************)
(* Watching runs (packages/daemon): the event log of each run (runs.ts),   *)
(* the callers that stream POST /v1/runs and the followers of              *)
(* GET /v1/runs/:id/events (server.ts).                                    *)
(*                                                                         *)
(* A log keeps the last MaxRetained of its retained events and the daemon  *)
(* keeps the logs of the last MaxResident runs.  Output deltas take an     *)
(* index and are broadcast, but are not kept.                              *)
(***************************************************************************)
EXTENDS Integers, Sequences, FiniteSets

CONSTANTS
    Runs,
    Streams,        \* responses that may be open, one use each
    Nothing,
    MaxRetained,    \* MAX_RETAINED_EVENTS
    MaxResident,    \* MAX_RESIDENT_RUN_LOGS
    MaxEvents,      \* bound: events a run emits before it settles
    Restarts        \* bound: times the daemon is closed

ASSUME LimitsAssumption ==
    /\ MaxRetained \in Nat \ {0}
    /\ MaxResident \in Nat \ {0}
    /\ MaxEvents \in Nat
    /\ Restarts \in Nat
    /\ Nothing \notin {"running", "over"}

VARIABLES
    records,    \* run |-> what the store says of it: Nothing, "running" or "over"
    logs,       \* run |-> the log of a run that was opened, or Nothing
    resident,   \* the runs whose logs are resident, oldest first
    streams,    \* stream |-> a response, or Nothing when it was not opened yet
    restarts,   \* times the daemon was closed
    lost        \* history: runs that were generating when it was

runEventsVars == <<records, logs, resident, streams, restarts, lost>>

RunEventsInit ==
    /\ records = [r \in Runs |-> Nothing]
    /\ logs = [r \in Runs |-> Nothing]
    /\ resident = <<>>
    /\ streams = [f \in Streams |-> Nothing]
    /\ restarts = 0
    /\ lost = {}

-----------------------------------------------------------------------------
(* RunEventLog *)

Following(f, r) == streams[f] # Nothing /\ streams[f].run = r /\ streams[f].state = "following"

(* #retained after one more event: the oldest go beyond MaxRetained. *)
KeepLast(retained) ==
    IF Len(retained) > MaxRetained THEN Tail(retained) ELSE retained

(* publish, seen from the log. *)
Published(log, kind) ==
    LET more == IF kind THEN Append(log.retained, Len(log.kinds)) ELSE log.retained IN
    [log EXCEPT !.kinds = Append(@, kind), !.retained = KeepLast(more),
                !.truncated = @ \/ Len(more) > MaxRetained]

(* n events of retained kind. *)
PublishedVerdict(log, n) ==
    IF n = 0 THEN log
    ELSE IF n = 1 THEN Published(log, TRUE) ELSE Published(Published(log, TRUE), TRUE)

(* publish, seen from the listeners: the next n events of run r. *)
Heard(r, n) ==
    [f \in Streams |->
        IF Following(f, r)
        THEN [streams[f] EXCEPT !.seen = @ \o [i \in 1..n |-> Len(logs[r].kinds) + i - 1]]
        ELSE streams[f]]

(* close: the close listeners are called, which ends a follower with a     *)
(* final `run' frame; a streaming caller has none and is merely forgotten. *)
ClosedLog(log) == [log EXCEPT !.closed = TRUE]
ReleaseFollowers(open, r, status) ==
    [f \in Streams |->
        IF open[f] # Nothing /\ open[f].run = r /\ open[f].state = "following"
        THEN IF open[f].caller THEN [open[f] EXCEPT !.state = "silenced"]
             ELSE [open[f] EXCEPT !.state = "ended", !.last = status]
        ELSE open[f]]

-----------------------------------------------------------------------------
(* Runs *)

(* Events are told apart by their index and by whether they are retained:  *)
(* kinds[i + 1] is TRUE when the event of index i is.                      *)
FreshLog == [kinds |-> <<>>, retained |-> <<>>, closed |-> FALSE,
             truncated |-> FALSE]

(* #streamRun.  A response has the run it is of, the cursor it gave, the   *)
(* indices of the event frames written, whether a `truncated' frame was,   *)
(* the status in the last `run' frame, and where it stands.  `caller' is   *)
(* the streamed form of POST /v1/runs, which has no close listener.        *)
StreamRun(r) ==
    [run |-> r, since |-> 0, seen |-> <<>>, told |-> FALSE,
     last |-> "running", caller |-> TRUE, state |-> "following"]

Generating(r) == records[r] = "running" /\ logs[r] # Nothing /\ r \notin lost

(* #startRun up to the first model call: the record is stored, the log is  *)
(* opened, which evicts the oldest ones, generating or not, and a caller   *)
(* that asked for a stream follows the log from its start.                 *)
StartRun(r, caller) ==
    /\ records[r] = Nothing
    /\ caller # Nothing => streams[caller] = Nothing
    /\ records' = [records EXCEPT ![r] = "running"]
    /\ LET all == Append(resident, r)
           evicted == IF Len(all) > MaxResident THEN {Head(all)} ELSE {}
           released == IF evicted = {} THEN streams
                       ELSE ReleaseFollowers(streams, Head(all), records[Head(all)])
       IN  /\ resident' = IF evicted = {} THEN all ELSE Tail(all)
           /\ logs' = [x \in Runs |-> IF x = r THEN FreshLog
                                      ELSE IF x \in evicted THEN ClosedLog(logs[x])
                                      ELSE logs[x]]
           /\ streams' = [f \in Streams |->
                             IF f = caller THEN StreamRun(r) ELSE released[f]]
    /\ UNCHANGED <<restarts, lost>>

(* executeRun emits an event. *)
Emit(r, kind) ==
    /\ Generating(r)
    /\ Len(logs[r].kinds) < MaxEvents
    /\ logs' = [logs EXCEPT ![r] = Published(@, kind)]
    /\ streams' = Heard(r, 1)
    /\ UNCHANGED <<records, resident, restarts, lost>>

(* The end of #startRun: the caller gets the final `run' frame, unless it  *)
(* hung up, and then the log is closed.                                    *)
CallerAnswered(open, r, status) ==
    [f \in Streams |->
        IF /\ open[f] # Nothing /\ open[f].run = r /\ open[f].caller
           /\ open[f].state \in {"following", "silenced"}
        THEN [open[f] EXCEPT !.state = "ended", !.last = status]
        ELSE open[f]]

(* executeRun returned: #settleRun publishes a verdict, and perhaps a      *)
(* failure, when there is a set, stores the finished record, the caller is *)
(* answered and the log is closed.                                         *)
SettleRunClosingFirst(r, n) ==
    /\ Generating(r)
    /\ records' = [records EXCEPT ![r] = "over"]
    /\ logs' = [logs EXCEPT ![r] = ClosedLog(PublishedVerdict(@, n))]
    /\ streams' = ReleaseFollowers(CallerAnswered(streams, r, "over"), r, "over")
    /\ UNCHANGED <<resident, restarts, lost>>
SettleRun(r, n) ==
    /\ Generating(r)
    /\ records' = [records EXCEPT ![r] = "over"]
    /\ logs' = [logs EXCEPT ![r] = ClosedLog(PublishedVerdict(@, n))]
    /\ streams' = ReleaseFollowers(CallerAnswered(Heard(r, n), r, "over"), r, "over")
    /\ UNCHANGED <<resident, restarts, lost>>

(* #settleRun throws, on a store that cannot be written: the log is closed *)
(* and the record says `running' for ever.                                 *)
SettleThrows(r, n) ==
    /\ Generating(r)
    /\ logs' = [logs EXCEPT ![r] = ClosedLog(PublishedVerdict(@, n))]
    /\ streams' = ReleaseFollowers(CallerAnswered(Heard(r, n), r, "running"), r, "running")
    /\ lost' = lost \cup {r}
    /\ UNCHANGED <<records, resident, restarts>>

-----------------------------------------------------------------------------
(* Followers *)

Resident(r) == \E i \in DOMAIN resident : resident[i] = r

(* since: the retained events at or above the cursor, which are the last   *)
(* of them, for events are retained in the order of their indices.         *)
Replay(log, since) ==
    LET kept == {i \in DOMAIN log.retained : log.retained[i] >= since} IN
    IF kept = {} THEN <<>>
    ELSE SubSeq(log.retained, CHOOSE i \in kept : \A j \in kept : i <= j, Len(log.retained))

(* GET /v1/runs/:id/events: the record, the replay, a `truncated' frame if *)
(* the log lost any, and then the stream follows unless the log is closed. *)
FollowUnchecked(f, r, since) ==
    /\ streams[f] = Nothing
    /\ records[r] # Nothing
    /\ streams' = [streams EXCEPT ![f] =
          IF ~Resident(r)
          THEN [run |-> r, since |-> since, seen |-> <<>>, told |-> FALSE,
                last |-> records[r], caller |-> FALSE, state |-> "unlogged"]
          ELSE [run |-> r, since |-> since, seen |-> Replay(logs[r], since),
                told |-> logs[r].truncated, last |-> records[r], caller |-> FALSE,
                state |-> "following"]]
    /\ UNCHANGED <<records, logs, resident, restarts, lost>>
Follow(f, r, since) ==
    /\ streams[f] = Nothing
    /\ records[r] # Nothing
    /\ streams' = [streams EXCEPT ![f] =
          IF ~Resident(r)
          THEN [run |-> r, since |-> since, seen |-> <<>>, told |-> FALSE,
                last |-> records[r], caller |-> FALSE, state |-> "unlogged"]
          ELSE [run |-> r, since |-> since, seen |-> Replay(logs[r], since),
                told |-> logs[r].truncated, last |-> records[r], caller |-> FALSE,
                state |-> IF logs[r].closed THEN "ended" ELSE "following"]]
    /\ UNCHANGED <<records, logs, resident, restarts, lost>>

(* The client hangs up, or the stream reaches its ceiling. *)
Cut(f) ==
    /\ streams[f] # Nothing
    /\ streams[f].state \in {"following", "silenced"}
    /\ streams' = [streams EXCEPT ![f].state = "cut"]
    /\ UNCHANGED <<records, logs, resident, restarts, lost>>

(* close(), and a start on the same store: every log is closed and dropped,*)
(* every connection is closed, and the runs that were generating are gone. *)
Restart ==
    /\ restarts < Restarts
    /\ restarts' = restarts + 1
    /\ logs' = [r \in Runs |-> IF logs[r] = Nothing THEN Nothing ELSE ClosedLog(logs[r])]
    /\ resident' = <<>>
    /\ streams' = [f \in Streams |->
          IF streams[f] # Nothing /\ streams[f].state \in {"following", "silenced"}
          THEN [streams[f] EXCEPT !.state = "cut"] ELSE streams[f]]
    /\ lost' = lost \cup {r \in Runs : Generating(r)}
    /\ UNCHANGED records

RunEventsNext ==
    \/ \E r \in Runs, caller \in Streams \cup {Nothing} : StartRun(r, caller)
    \/ \E r \in Runs, kind \in BOOLEAN : Emit(r, kind)
    \/ \E r \in Runs, n \in 0..2 : SettleRun(r, n)
    \/ \E r \in Runs, n \in 0..2 : SettleThrows(r, n)
    \/ \E f \in Streams, r \in Runs, since \in 0..MaxEvents : Follow(f, r, since)
    \/ \E f \in Streams : Cut(f)
    \/ Restart

RunEventsSpec == RunEventsInit /\ [][RunEventsNext]_runEventsVars

(* Every model call times out (DEFAULT_REQUEST_TIMEOUT_MS), so executeRun  *)
(* returns and #settleRun follows, or throws.  Nothing else is fair: no    *)
(* client has to hang up, and the ceiling of a stream is not counted on.   *)
RunSettles(r) == \E n \in 0..2 : SettleRun(r, n) \/ SettleThrows(r, n)
FairRunEventsSpec == RunEventsSpec /\ \A r \in Runs : WF_runEventsVars(RunSettles(r))

-----------------------------------------------------------------------------
(* Properties *)

SeenSet(f) == {streams[f].seen[i] : i \in DOMAIN streams[f].seen}

(* The events a follower asked for and no longer could do without: the     *)
(* retained kinds from its cursor on.                                      *)
Owed(f) ==
    LET log == logs[streams[f].run] IN
    {i \in 0..(Len(log.kinds) - 1) : i >= streams[f].since /\ log.kinds[i + 1]}

(* A follower is told everything or told that it was not: each event frame *)
(* is written once and in order, and as long as the stream follows, or     *)
(* ended with the finished record, no retained event from its cursor on is *)
(* missing without a `truncated' frame (publish, since, subscribe,         *)
(* #runEvents).                                                            *)
NothingMissedUntold ==
    \A f \in Streams : streams[f] # Nothing =>
       /\ \A i, j \in DOMAIN streams[f].seen : i < j => streams[f].seen[i] < streams[f].seen[j]
       /\ \/ streams[f].state = "following"
          \/ streams[f].state = "ended" /\ streams[f].last = "over" /\ ~streams[f].caller
          => streams[f].told \/ Owed(f) \subseteq SeenSet(f)

(* Nobody is left holding a stream that has nothing more to say: once its  *)
(* run is over, every follower is released (close, and the check for a log *)
(* that was closed before the stream was opened in #runEvents).            *)
FollowersAreReleased ==
    \A f \in Streams :
       (streams[f] # Nothing /\ streams[f].state = "following")
          ~> (streams[f] # Nothing /\ streams[f].state # "following")
=============================================================================
