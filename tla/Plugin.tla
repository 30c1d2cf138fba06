------------------------------- MODULE Plugin -------------------------------
(***************************************************************************)
(* The Studio plugin (plugin/src): the poll loop, the review queue, the    *)
(* apply and rollback executors and the outbound counter, with the place   *)
(* they change.                                                            *)
(*                                                                         *)
(* Luau threads are cooperative: one runs until it yields, and the only    *)
(* calls that yield here are HTTP requests.  An action is therefore the    *)
(* stretch of a thread from one request to the next: execute, then seal    *)
(* and send the report.  What the daemon answers to a report changes       *)
(* nothing in the plugin but a log line.                                   *)
(***************************************************************************)
EXTENDS Integers, Sequences, FiniteSets

CONSTANTS
    ChangeSetIds,
    JournalIds,
    None,
    UIThreads,       \* threads that run a click on Approve or Reject
    AutoDecisions,   \* what Approve.evaluate may answer: a subset of BOOLEAN
    QueueCap,        \* ChangeSets that may wait for review
    MaxReports       \* bound: envelopes sealed under one link

VARIABLES
    link,      \* the link stored in the settings, or None
    cursor,    \* nonce of the last delivery the running loop accepted
    saved,     \* the cursor in the settings
    sent,      \* nonce of the last envelope sealed
    known,     \* Apply._version: the version the place is taken to be at, or None
    place,     \* set |-> operations of it in effect in the place
    queue,     \* ChangeSets waiting to be presented
    pending,   \* the ChangeSet waiting for a decision, or None
    offered,   \* the panel shows its two buttons (Widget._pending)
    threads,   \* thread |-> what it still has to send
    lastPoll,  \* cursor of the poll a stopped loop still waits on, or None
    flight,    \* envelopes sealed and not yet arrived
    applies,   \* history: journal id |-> what its apply really did, or None
    reversed   \* history: journal id |-> most inverses one reversal undid

persistent == <<link, saved, sent>>
vars == <<persistent, cursor, known, place, queue, pending, offered, threads,
          lastPoll, flight, applies, reversed>>

Threads == {"poll", "stopped"} \cup UIThreads

(* A thread with no request outstanding: the poll loops then wait on their *)
(* poll, the others do not exist.                                          *)
Idle == [rest |-> <<>>, awaits |-> 0, presents |-> FALSE]
Busy(t) == threads[t].awaits > 0

Init ==
    /\ link = None
    /\ cursor = 0 /\ saved = 0 /\ sent = 0
    /\ known = None
    /\ place = [s \in ChangeSetIds |-> 0]
    /\ queue = <<>>
    /\ pending = None
    /\ offered = FALSE
    /\ threads = [t \in Threads |-> Idle]
    /\ lastPoll = None
    /\ flight = {}
    /\ applies = [j \in JournalIds |-> None]
    /\ reversed = [j \in JournalIds |-> 0]

-----------------------------------------------------------------------------
(* Reports *)

(* _seal and _postSealed: the counter moves on every attempt and the first *)
(* report leaves under it; the thread waits, with `rest' still to send.    *)
(* `place' is what the report is about; it is not on the wire.             *)
Send(t, reports, presents) ==
    /\ sent < MaxReports
    /\ sent' = sent + 1
    /\ flight' = flight \cup {[link |-> link, nonce |-> sent + 1,
                                report |-> Head(reports), place |-> place']}
    /\ threads' = [threads EXCEPT ![t] =
          [rest |-> Tail(reports), awaits |-> sent + 1, presents |-> presents]]

FreshAlways(j) == TRUE
Fresh(j) == applies[j] = None

(* An ApplyResult in which nothing was touched: _refusedResult in          *)
(* Apply.luau, refusalResult in init.server.luau.                          *)
Refusal(j, cs, at) ==
    [kind |-> "apply", journal |-> j, set |-> cs.set, ok |-> 0,
     failed |-> cs.content.ops, version |-> at]

(* What the history keeps of an apply. *)
ApplyRecord(cs, before, after, ok, inverses) ==
    [set |-> cs.set, before |-> before, after |-> after, ok |-> ok,
     inverses |-> inverses]

-----------------------------------------------------------------------------
(* Apply.execute *)

(* versionBefore: what the plugin last reported, or the producer's own     *)
(* base on first contact.                                                  *)
BaseOf(cs) == IF known = None THEN cs.base ELSE known

(* _refusal's version check. *)
StaleUnchecked(cs) == FALSE
Stale(cs) == cs.base # BaseOf(cs)

(* The set is refused as a whole: stale, or Studio opens no undo waypoint. *)
ExecuteRefused(t, cs, j) ==
    /\ known' = BaseOf(cs)
    /\ UNCHANGED place
    /\ Send(t, <<Refusal(j, cs, BaseOf(cs))>>, TRUE)
    /\ applies' = [applies EXCEPT ![j] =
          ApplyRecord(cs, BaseOf(cs), BaseOf(cs), 0, 0)]

(* The operations run in order and stop at the first failure; `ok' of them *)
(* succeed.  A failing operation may still have changed the place          *)
(* (partial): its inverse is recorded, its outcome is a failure.  The      *)
(* version moves when the place did, and an entry with the inverses        *)
(* follows the result when there are any.                                  *)
ExecuteRun(t, cs, j, ok, partial) ==
    LET failed == cs.content.ops - ok
        touched == ok + IF partial THEN 1 ELSE 0
        before == BaseOf(cs)
        after == IF touched > 0 THEN before + 1 ELSE before
        result == [kind |-> "apply", journal |-> j, set |-> cs.set, ok |-> ok,
                   failed |-> failed, version |-> after]
        entry == [kind |-> "entry", journal |-> j, set |-> cs.set,
                  before |-> before, after |-> after, n |-> touched]
    IN  /\ ~Stale(cs)
        /\ partial => failed > 0
        /\ known' = after
        /\ place' = [place EXCEPT ![cs.set] = @ + touched]
        /\ Send(t, IF touched > 0 THEN <<result, entry>> ELSE <<result>>, TRUE)
        /\ applies' = [applies EXCEPT ![j] =
              ApplyRecord(cs, before, after, ok, touched)]

(* applyChangeSet: newId mints an id never used before, and the panel      *)
(* shows the outcome in place of its buttons.                              *)
Execute(t, cs) ==
    \E j \in JournalIds :
       /\ Fresh(j)
       /\ \/ ExecuteRefused(t, cs, j)
          \/ \E ok \in 0..cs.content.ops, partial \in BOOLEAN :
                ExecuteRun(t, cs, j, ok, partial)
       /\ offered' = FALSE
       /\ UNCHANGED reversed

-----------------------------------------------------------------------------
(* Review *)

(* presentNext, on a thread that has nothing left to send: the head of the *)
(* queue is applied at once or put on screen, unless something is already  *)
(* there.                                                                  *)
PresentNext(t, waiting) ==
    IF pending # None \/ waiting = <<>>
    THEN /\ queue' = waiting
         /\ threads' = [threads EXCEPT ![t] = Idle]
         /\ UNCHANGED <<pending, offered, known, place, sent, flight, applies, reversed>>
    ELSE /\ queue' = Tail(waiting)
         /\ \E auto \in AutoDecisions :
               IF auto /\ ~Head(waiting).content.bulk
               THEN Execute(t, Head(waiting)) /\ UNCHANGED pending
               ELSE /\ pending' = Head(waiting)
                    /\ offered' = TRUE
                    /\ threads' = [threads EXCEPT ![t] = Idle]
                    /\ UNCHANGED <<known, place, sent, flight, applies, reversed>>

(* transport.onChangeSet *)
Receive(t, cs) ==
    IF Len(queue) >= QueueCap
    THEN /\ UNCHANGED <<known, place, queue, pending, offered, reversed>>
         /\ \E j \in JournalIds :
              /\ Fresh(j)
              /\ Send(t, <<Refusal(j, cs, BaseOf(cs))>>, FALSE)
              /\ applies' = [applies EXCEPT ![j] =
                    ApplyRecord(cs, BaseOf(cs), BaseOf(cs), 0, 0)]
    ELSE PresentNext(t, Append(queue, cs))

(* A click on Approve: the button acts while the panel offers it. *)
ApproveInStudio(t) ==
    /\ offered /\ pending # None
    /\ ~Busy(t)
    /\ pending' = None
    /\ Execute(t, pending)
    /\ UNCHANGED <<link, saved, cursor, queue, lastPoll>>

(* A click on Reject. *)
RejectInStudio(t) ==
    /\ offered /\ pending # None
    /\ ~Busy(t)
    /\ pending' = None
    /\ offered' = FALSE
    /\ UNCHANGED <<link, saved, cursor, known, place, queue, lastPoll, reversed>>
    /\ \E j \in JournalIds :
          /\ Fresh(j)
          /\ Send(t, <<Refusal(j, pending, BaseOf(pending))>>, TRUE)
          /\ applies' = [applies EXCEPT ![j] =
                ApplyRecord(pending, BaseOf(pending), BaseOf(pending), 0, 0)]

(* A request of thread t came back, with whatever answer: the next report  *)
(* is sent, or the thread presents the next set and ends.                  *)
Resume(t) ==
    /\ Busy(t)
    /\ IF threads[t].rest # <<>>
       THEN /\ UNCHANGED <<queue, pending, offered, known, place, applies, reversed>>
            /\ Send(t, threads[t].rest, threads[t].presents)
       ELSE IF threads[t].presents
       THEN PresentNext(t, queue)
       ELSE /\ threads' = [threads EXCEPT ![t] = Idle]
            /\ UNCHANGED <<queue, pending, offered, known, place, sent, flight,
                           applies, reversed>>
    /\ UNCHANGED <<link, saved, cursor, lastPoll>>

-----------------------------------------------------------------------------
(* Rollback.execute *)

RollbackRefusal(d) == known # None /\ d.expected # known

(* The version the place is at once `undone' of the steps were replayed.   *)
VersionAfter(d, before, undone) ==
    IF undone = d.steps THEN d.restores
    ELSE IF undone = 0 THEN before ELSE before + 1

(* How many operations `ok' successful inverses out of `steps' take back:  *)
(* one that was spent in an earlier attempt may succeed again and take     *)
(* nothing.                                                                *)
TakenBack(inEffect, steps, ok) ==
    {k \in 0..ok : k <= inEffect /\ (k = ok \/ k >= inEffect + ok - steps)}

(* transport.onRollback.  Every inverse is tried, whatever became of the   *)
(* ones before it, so any number of them may succeed; none is tried when   *)
(* the version is not the expected one or Studio opens no waypoint, and    *)
(* then the version stays as it was.  The panel shows the outcome, and no  *)
(* buttons any more, whatever it showed before.                            *)
Reverse(t, d) ==
    \E undone \in 0..d.steps :
       LET before == IF known = None THEN d.expected ELSE known
           after == VersionAfter(d, before, undone)
       IN  /\ \/ known' = after /\ ~RollbackRefusal(d)
              \/ known' = known /\ undone = 0
           /\ \E taken \in TakenBack(place[d.set], d.steps, undone) :
                 place' = [place EXCEPT ![d.set] = @ - taken]
           /\ reversed' = [reversed EXCEPT ![d.journal] = IF undone > @ THEN undone ELSE @]
           /\ Send(t, <<[kind |-> "rollback", journal |-> d.journal, set |-> d.set,
                         ok |-> undone, failed |-> d.steps - undone,
                         version |-> after]>>, TRUE)
           /\ offered' = FALSE
           /\ UNCHANGED <<queue, pending, applies>>

-----------------------------------------------------------------------------
(* The poll loops *)

(* unwrap: the nonce is above the last one accepted, and the cursor moves  *)
(* before the payload is handled.  `mine' tells the running loop from a    *)
(* stopped one, whose late answer only writes the stored cursor; `missed'  *)
(* says that plugin:SetSetting may fail to store it.                       *)
Unwrap(d, mine, missed) ==
    /\ cursor' = IF mine THEN d.nonce ELSE cursor
    /\ saved' \in IF missed THEN {saved, d.nonce} ELSE {d.nonce}

(* A delivery reaches the running loop, or a loop that was stopped while   *)
(* its poll was out.                                                       *)
Deliver(t, d, missed) ==
    /\ t \in {"poll", "stopped"}
    /\ link = d.link
    /\ ~Busy(t)
    /\ d.nonce > (IF t = "poll" THEN cursor ELSE lastPoll)
    /\ Unwrap(d, t = "poll", missed)
    /\ lastPoll' = IF t = "poll" THEN lastPoll ELSE None
    /\ IF d.payload.kind = "rollback"
       THEN Reverse(t, d.payload)
       ELSE Receive(t, d.payload)
    /\ UNCHANGED link

(* connect on a stored link: a new loop starts from the stored cursor, and *)
(* the old one, though stopped, still handles the answer it waits for or   *)
(* finishes the handler it is in.                                          *)
Reconnect ==
    /\ link # None
    /\ lastPoll = None
    /\ ~Busy("stopped")
    /\ cursor' = saved
    /\ lastPoll' = IF Busy("poll") THEN None ELSE cursor
    /\ threads' = [threads EXCEPT !["poll"] = Idle, !["stopped"] = threads["poll"]]
    /\ UNCHANGED <<persistent, known, place, queue, pending, offered, flight,
                   applies, reversed>>

(* storeLink after a pairing, then connect: both counters start again. *)
StoreLink(l) ==
    /\ ~Busy("stopped")
    /\ link' = l
    /\ cursor' = 0 /\ saved' = 0 /\ sent' = 0
    /\ lastPoll' = None
    /\ threads' = [threads EXCEPT !["poll"] = Idle, !["stopped"] = threads["poll"]]
    /\ UNCHANGED <<known, place, queue, pending, offered, flight, applies, reversed>>

(* Studio is closed and opened again: the settings and the place remain,   *)
(* the queue, the screen and the version the plugin last knew do not.      *)
StudioRestart ==
    /\ cursor' = saved
    /\ known' = None
    /\ queue' = <<>>
    /\ pending' = None
    /\ offered' = FALSE
    /\ threads' = [t \in Threads |-> Idle]
    /\ lastPoll' = None
    /\ UNCHANGED <<persistent, place, flight, applies, reversed>>

=============================================================================
