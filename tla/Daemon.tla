------------------------------- MODULE Daemon -------------------------------
(***************************************************************************)
(* The local daemon (packages/daemon): the life of a ChangeSet from        *)
(* submission through approval, delivery, apply report, journal and        *)
(* rollback, with the links, delivery queues, nonces and held polls it     *)
(* goes through.                                                           *)
(*                                                                         *)
(* One action per HTTP handler.  A handler runs to its end between two     *)
(* turns of the event loop (both stores answer without leaving the         *)
(* microtask queue), so every action is one atomic step; the places where  *)
(* a request really does wait -- a held poll and a generating run -- are   *)
(* state of their own (held, running).  The consumer is not trusted here:  *)
(* it may post any report, in any order and as often as it likes, under    *)
(* any nonce, and only what the handlers check restrains it.               *)
(***************************************************************************)
EXTENDS Integers, FiniteSets

CONSTANTS
    ChangeSetIds,       \* ids a producer may give a ChangeSet
    Contents,           \* operation lists, see ContentsAssumption
    JournalIds,         \* ids a consumer may give an apply
    LinkIds,            \* ids the daemon may mint for a link
    Projects,
    None,               \* stands for null
    DeliveriesPerLink,  \* RETENTION.DELIVERIES_PER_LINK
    Durable,            \* TRUE: SqliteDaemonStore, FALSE: InMemoryDaemonStore
    MaxVersion,         \* bound: project versions a report may claim
    MaxDeliveries,      \* bound: deliveries given to one link
    MaxReports,         \* bound: highest nonce a consumer uses
    MaxHeld,            \* bound: polls held open on one link at a time
    MaxRuns             \* bound: runs generating at one time

(* A ChangeSet's content is what validation, the approval gate and the     *)
(* journal tell apart: how many operations there are, whether the daemon's *)
(* own luau and policy verdicts clear them, and whether they delete more   *)
(* than LIMITS.BULK_DELETE_CONFIRM_THRESHOLD instances.  The content       *)
(* stands for its own digest.                                              *)
ASSUME ContentsAssumption ==
    Contents \subseteq [ops : Nat \ {0}, clears : BOOLEAN, bulk : BOOLEAN]
ASSUME BoundsAssumption ==
    /\ DeliveriesPerLink \in Nat \ {0}
    /\ MaxVersion \in Nat
    /\ MaxDeliveries \in Nat
    /\ MaxReports \in Nat
    /\ MaxHeld \in Nat
    /\ MaxRuns \in Nat
ASSUME DurableAssumption == Durable \in BOOLEAN

VARIABLES
    changeSets,  \* id |-> the stored ChangeSet, or None
    version,     \* project |-> recorded tree version
    running,     \* {<<project, base>>}: runs generating against base
    links,       \* link |-> the project it is paired with, or None
    keyring,     \* links whose session key this process holds
    mostRecent,  \* project |-> the paired link last seen most recently, or None
    deliveries,  \* retained deliveries of all links
    outNonce,    \* link |-> last nonce given to a delivery
    inNonce,     \* link |-> last nonce accepted from the consumer
    held,        \* link |-> cursors of the polls held open
    journals,    \* id |-> JournalRecord, or None
    entries,     \* id |-> number of inverses uploaded, or None
    results,     \* id |-> last RollbackResult recorded, or None
    approvedAs,  \* history: id |-> the content its approver read, or None
    trimmed      \* history: sets whose delivery fell off a full queue

store == <<changeSets, version, links, mostRecent, deliveries, outNonce,
           inNonce, journals, entries, results>>
history == <<approvedAs, trimmed>>
vars == <<store, running, keyring, held, history>>

Versions == 0..MaxVersion
Nonces == 1..MaxReports
Cursors == 0..MaxDeliveries

Statuses == {"proposed", "validated", "approved", "applying", "applied",
             "partial", "failed", "rejected", "stale"}

ChangeSet == [project : Projects, base : Nat, content : Contents,
              status : Statuses]

JournalRecord == [set : ChangeSetIds, project : Projects, before : Nat,
                  after : Nat, requested : BOOLEAN, rolledBack : BOOLEAN]

RollbackResult == [ok : Nat, failed : Nat]

Payload ==
    [kind : {"changeset"}, set : ChangeSetIds, base : Nat, content : Contents]
    \cup
    [kind : {"rollback"}, journal : JournalIds, set : ChangeSetIds, steps : Nat,
     expected : Nat, restores : Nat]

Delivery == [link : LinkIds, nonce : Nat, payload : Payload]

ASSUME NoneAssumption ==
    /\ None \notin Contents \cup LinkIds \cup Projects
    /\ None \notin Nat
    /\ None \notin ChangeSet
    /\ None \notin JournalRecord
    /\ None \notin RollbackResult

-----------------------------------------------------------------------------
Init ==
    /\ changeSets = [s \in ChangeSetIds |-> None]
    /\ version = [p \in Projects |-> 0]
    /\ links = [l \in LinkIds |-> None]
    /\ mostRecent = [p \in Projects |-> None]
    /\ deliveries = {}
    /\ outNonce = [l \in LinkIds |-> 0]
    /\ inNonce = [l \in LinkIds |-> 0]
    /\ journals = [j \in JournalIds |-> None]
    /\ entries = [j \in JournalIds |-> None]
    /\ results = [j \in JournalIds |-> None]
    /\ running = {}
    /\ keyring = {}
    /\ held = [l \in LinkIds |-> {}]
    /\ approvedAs = [s \in ChangeSetIds |-> None]
    /\ trimmed = {}

-----------------------------------------------------------------------------
(* Deliveries *)

(* nextDelivery: the oldest retained delivery after the cursor, as a set   *)
(* that is empty when there is none.                                       *)
NextDelivery(l, since) ==
    {d \in deliveries :
        /\ d.link = l
        /\ d.nonce > since
        /\ \A e \in deliveries :
              e.link = l /\ e.nonce > since => d.nonce <= e.nonce}

(* #deliver marks a delivered set `applying', whatever its status was. *)
Delivered(sets, delivered) ==
    [s \in ChangeSetIds |->
        IF /\ sets[s] # None
           /\ \E d \in delivered : d.payload.kind = "changeset"
                                   /\ d.payload.set = s
        THEN [sets[s] EXCEPT !.status = "applying"]
        ELSE sets[s]]

(* enqueueDelivery's trim: what the queue of link l keeps once `newest' is *)
(* the last nonce in it.                                                   *)
Keeps(d, l, newest) == d.link # l \/ d.nonce + DeliveriesPerLink > newest

(* #wake: the held polls of link l that a delivery is newer than. *)
WakesNone(l, nonce) == {}
Wakes(l, nonce) == {since \in held[l] : since < nonce}

(* enqueueDelivery, then #wake: the delivery takes the link's next nonce,  *)
(* the queue loses its front beyond DeliveriesPerLink, and every held poll *)
(* whose cursor the delivery is newer than answers with it, which runs     *)
(* #deliver.  `sets' is the table of ChangeSets at the time of the call.   *)
Enqueue(l, payload, sets) ==
    LET new == [link |-> l, nonce |-> outNonce[l] + 1, payload |-> payload]
        woken == Wakes(l, new.nonce)
    IN  /\ outNonce' = [outNonce EXCEPT ![l] = new.nonce]
        /\ deliveries' = {d \in deliveries : Keeps(d, l, new.nonce)} \cup {new}
        /\ trimmed' = trimmed \cup
             {d.payload.set : d \in {e \in deliveries :
                 ~Keeps(e, l, new.nonce) /\ e.payload.kind = "changeset"}}
        /\ held' = [held EXCEPT ![l] = @ \ woken]
        /\ changeSets' = IF woken = {} THEN sets ELSE Delivered(sets, {new})

(* #requirePairedLink: the most recently seen paired link of the project,  *)
(* provided this process still holds its session key.                      *)
Reachable(p) == mostRecent[p] # None /\ mostRecent[p] \in keyring

-----------------------------------------------------------------------------
(* Links *)

(* POST /v1/link/pair, after the code was redeemed. *)
Pair(l, p) ==
    /\ links[l] = None
    /\ links' = [links EXCEPT ![l] = p]
    /\ keyring' = keyring \cup {l}
    /\ mostRecent' = [mostRecent EXCEPT ![p] = l]
    /\ UNCHANGED <<changeSets, version, running, deliveries, outNonce, inNonce,
                   held, journals, entries, results, history>>

(* GET /v1/link/poll: answer at once with the oldest delivery after the    *)
(* cursor, or hold the request open.                                       *)
Poll(l, since) ==
    /\ l \in keyring
    /\ mostRecent' = [mostRecent EXCEPT ![links[l]] = l]
    /\ LET next == NextDelivery(l, since) IN
         IF next # {}
         THEN /\ changeSets' = Delivered(changeSets, next)
              /\ UNCHANGED held
         ELSE /\ Cardinality(held[l]) < MaxHeld
              /\ held' = [held EXCEPT ![l] = @ \cup {since}]
              /\ UNCHANGED changeSets
    /\ UNCHANGED <<version, running, links, keyring, deliveries, outNonce,
                   inNonce, journals, entries, results, history>>

(* A held poll times out, or its client hangs up. *)
HeldPollEnds(l, since) ==
    /\ since \in held[l]
    /\ held' = [held EXCEPT ![l] = @ \ {since}]
    /\ UNCHANGED <<store, running, keyring, history>>

(* patchLink with the timestamp a report carries.  That is the consumer's  *)
(* clock at the time of the apply, so it may place the link behind another *)
(* link of its project or before it.                                       *)
PatchLastSeen(l) ==
    \E m \in {l, mostRecent[links[l]]} \cup
             {k \in LinkIds : mostRecent[links[l]] = l /\ links[k] = links[l]} :
        mostRecent' = [mostRecent EXCEPT ![links[l]] = m]

-----------------------------------------------------------------------------
(* Proposals *)

(* POST /v1/changesets.  The status and the verdict the producer sent are  *)
(* dropped; a set whose verdict fails is stored `validated' all the same   *)
(* and is stopped at approval.                                             *)
SubmitChangeSet(s, p, base, content) ==
    /\ changeSets[s] = None
    /\ base = version[p]
    /\ changeSets' = [changeSets EXCEPT ![s] =
          [project |-> p, base |-> base, content |-> content,
           status |-> "validated"]]
    /\ UNCHANGED <<version, running, links, keyring, mostRecent, deliveries,
                   outNonce, inNonce, held, journals, entries, results, history>>

(* POST /v1/runs up to the first model call: the base is read here. *)
StartRun(p) ==
    /\ Cardinality(running) < MaxRuns
    /\ running' = running \cup {<<p, version[p]>>}
    /\ UNCHANGED <<store, keyring, held, history>>

(* #settleRun once executeRun returned, with a set or without one; the     *)
(* project may have moved meanwhile.                                       *)
SettleRun(run, s, content, failure) ==
    /\ run \in running
    /\ changeSets[s] = None
    /\ running' = running \ {run}
    /\ changeSets' = [changeSets EXCEPT ![s] =
          [project |-> run[1], base |-> run[2], content |-> content,
           status |-> IF version[run[1]] # run[2] THEN "stale"
                      ELSE IF ~content.clears \/ failure THEN "rejected"
                      ELSE "validated"]]
    /\ UNCHANGED <<version, links, keyring, mostRecent, deliveries, outNonce,
                   inNonce, held, journals, entries, results, history>>

SettleRunWithoutSet(run) ==
    /\ run \in running
    /\ running' = running \ {run}
    /\ UNCHANGED <<store, keyring, held, history>>

(* What #approve asks of a stored set, in the order it asks. *)
ApprovableUnread(set, digest, confirmBulkDelete) ==
    /\ set.status \in {"proposed", "validated"}
    /\ set.content.clears
    /\ set.content.bulk => confirmBulkDelete
    /\ set.base = version[set.project]
    /\ Reachable(set.project)
Approvable(set, digest, confirmBulkDelete) ==
    /\ digest = set.content
    /\ set.status \in {"proposed", "validated"}
    /\ set.content.clears
    /\ set.content.bulk => confirmBulkDelete
    /\ set.base = version[set.project]
    /\ Reachable(set.project)

(* What the envelope of an approved set carries. *)
ChangeSetPayload(s) ==
    [kind |-> "changeset", set |-> s, base |-> changeSets[s].base,
     content |-> changeSets[s].content]

(* POST /v1/changesets/:id/approve *)
Approve(s, digest, confirmBulkDelete) ==
    /\ changeSets[s] # None
    /\ LET set == changeSets[s]
           l == mostRecent[set.project]
       IN  /\ Approvable(set, digest, confirmBulkDelete)
           /\ outNonce[l] < MaxDeliveries
           /\ Enqueue(l, ChangeSetPayload(s), [changeSets EXCEPT ![s].status = "approved"])
           /\ approvedAs' = [approvedAs EXCEPT ![s] = digest]
    /\ UNCHANGED <<version, running, links, keyring, mostRecent, inNonce,
                   journals, entries, results>>

-----------------------------------------------------------------------------
(* Reports from the consumer *)

(* #openFromConsumer: the link is known, its key is held, the MAC verified *)
(* and the nonce is above the watermark, which moves to it before anything *)
(* else about the report is looked at.                                     *)
ClaimNonce(l, n) ==
    /\ l \in keyring
    /\ n > inNonce[l]
    /\ inNonce' = [inNonce EXCEPT ![l] = n]

(* isFullyApplied and the handler's reading of the outcomes. *)
ApplyStatus(ok, failed) ==
    IF ok > 0 /\ failed = 0 THEN "applied" ELSE IF ok > 0 THEN "partial" ELSE "failed"

(* What #applyResult checks, once the nonce is claimed. *)
AcceptedForAnyProject(l, s, j, newVersion) ==
    /\ changeSets[s] # None
    /\ changeSets[s].status \in {"approved", "applying"}
    /\ journals[j] = None
    /\ newVersion >= version[changeSets[s].project]
AcceptedOverJournal(l, s, j, newVersion) ==
    /\ changeSets[s] # None
    /\ changeSets[s].project = links[l]
    /\ changeSets[s].status \in {"approved", "applying"}
    /\ newVersion >= version[links[l]]
AcceptedOnlyApproved(l, s, j, newVersion) ==
    /\ changeSets[s] # None
    /\ changeSets[s].project = links[l]
    /\ changeSets[s].status = "approved"
    /\ journals[j] = None
    /\ newVersion >= version[changeSets[s].project]
ApplyResultAccepted(l, s, j, newVersion) ==
    /\ changeSets[s] # None
    /\ changeSets[s].project = links[l]
    /\ changeSets[s].status \in {"approved", "applying"}
    /\ journals[j] = None
    /\ newVersion >= version[changeSets[s].project]

(* POST /v1/changesets/:id/apply-result.  A refused report has still spent *)
(* its nonce.                                                              *)
ApplyResult(l, n, s, j, ok, failed, newVersion) ==
    /\ ClaimNonce(l, n)
    /\ IF ApplyResultAccepted(l, s, j, newVersion)
       THEN LET project == changeSets[s].project IN
            /\ changeSets' = [changeSets EXCEPT ![s].status = ApplyStatus(ok, failed)]
            /\ version' = [version EXCEPT ![project] = newVersion]
            /\ journals' = [journals EXCEPT ![j] =
                  [set |-> s, project |-> project, before |-> version[project],
                   after |-> newVersion, requested |-> FALSE, rolledBack |-> FALSE]]
            /\ PatchLastSeen(l)
       ELSE UNCHANGED <<changeSets, version, journals, mostRecent>>
    /\ UNCHANGED <<running, links, keyring, deliveries, outNonce, held,
                   entries, results, history>>

(* What recordJournalEntry and planRollback check: the upload names the    *)
(* apply that was recorded, brackets the same versions, and its n inverses *)
(* pair with strictly increasing operations of the approved set.           *)
EntryReplaced(l, j, s, before, after, n) ==
    /\ journals[j] # None
    /\ journals[j].project = links[l]
    /\ journals[j].set = s
    /\ journals[j].before = before
    /\ journals[j].after = after
    /\ changeSets[s] # None
    /\ n \in 1..changeSets[s].content.ops
    /\ after >= before
JournalEntryAccepted(l, j, s, before, after, n) ==
    /\ journals[j] # None
    /\ journals[j].project = links[l]
    /\ journals[j].set = s
    /\ journals[j].before = before
    /\ journals[j].after = after
    /\ changeSets[s] # None
    /\ n \in 1..changeSets[s].content.ops
    /\ after >= before
    /\ entries[j] = None

(* POST /v1/journal/:id/entry *)
JournalEntry(l, nonce, j, s, before, after, n) ==
    /\ ClaimNonce(l, nonce)
    /\ entries' = IF JournalEntryAccepted(l, j, s, before, after, n)
                  THEN [entries EXCEPT ![j] = n] ELSE entries
    /\ UNCHANGED <<changeSets, version, running, links, keyring, mostRecent,
                   deliveries, outNonce, held, journals, results, history>>

(* POST /v1/output: only the nonce is of interest here. *)
Output(l, n) ==
    /\ ClaimNonce(l, n)
    /\ UNCHANGED <<changeSets, version, running, links, keyring, mostRecent,
                   deliveries, outNonce, held, journals, entries, results, history>>

-----------------------------------------------------------------------------
(* Rollback *)

(* planRollback and rollbackDeliveryFor: every inverse held for j, last    *)
(* first, and the version replaying all of them restores.                  *)
RollbackPayload(j, expectedVersion) ==
    [kind |-> "rollback", journal |-> j, set |-> journals[j].set,
     steps |-> entries[j], expected |-> expectedVersion,
     restores |-> journals[j].before]

(* POST /v1/journal/:id/rollback: the journal is stamped as requested and  *)
(* the inverses are sent, last first, with the version they restore to.    *)
RequestRollback(j, expectedVersion) ==
    /\ journals[j] # None
    /\ ~journals[j].rolledBack
    /\ expectedVersion = version[journals[j].project]
    /\ entries[j] # None
    /\ Reachable(journals[j].project)
    /\ LET l == mostRecent[journals[j].project] IN
         /\ outNonce[l] < MaxDeliveries
         /\ journals' = [journals EXCEPT ![j].requested = TRUE]
         /\ Enqueue(l, RollbackPayload(j, expectedVersion), changeSets)
    /\ UNCHANGED <<version, running, links, keyring, mostRecent, inNonce,
                   entries, results, approvedAs>>

(* rollbackStatusOf(result, inverseCount) *)
RollbackStatus(result, inverses) ==
    IF result.ok > 0 /\ result.failed = 0 /\ result.ok = inverses THEN "rolled_back"
    ELSE IF result.ok > 0 THEN "partial" ELSE "failed"

(* What recordRollbackResult checks, once the nonce is claimed. *)
RollbackResultAccepted(l, j, s, result) ==
    /\ journals[j] # None
    /\ journals[j].project = links[l]
    /\ journals[j].set = s
    /\ ~journals[j].rolledBack
    /\ journals[j].requested
    /\ entries[j] # None
    /\ result.ok + result.failed <= entries[j]

(* POST /v1/journal/:id/rollback-result.  The recorded version follows the *)
(* report whichever way it goes.                                           *)
ReportRollbackUnversioned(l, n, j, s, result, newVersion) ==
    /\ ClaimNonce(l, n)
    /\ IF RollbackResultAccepted(l, j, s, result)
       THEN /\ results' = [results EXCEPT ![j] = result]
            /\ journals' = [journals EXCEPT ![j].rolledBack =
                              RollbackStatus(result, entries[j]) = "rolled_back"]
            /\ PatchLastSeen(l)
       ELSE UNCHANGED <<results, journals, mostRecent>>
    /\ UNCHANGED <<changeSets, version, running, links, keyring, deliveries, outNonce,
                   held, entries, history>>
ReportRollback(l, n, j, s, result, newVersion) ==
    /\ ClaimNonce(l, n)
    /\ IF RollbackResultAccepted(l, j, s, result)
       THEN /\ results' = [results EXCEPT ![j] = result]
            /\ journals' = [journals EXCEPT ![j].rolledBack =
                              RollbackStatus(result, entries[j]) = "rolled_back"]
            /\ version' = [version EXCEPT ![journals[j].project] = newVersion]
            /\ PatchLastSeen(l)
       ELSE UNCHANGED <<results, journals, version, mostRecent>>
    /\ UNCHANGED <<changeSets, running, links, keyring, deliveries, outNonce,
                   held, entries, history>>

(* journalStateOf: the word GET /v1/journal/:id answers with. *)
JournalState(j) ==
    IF journals[j].rolledBack THEN "rolled_back"
    ELSE IF results[j] # None
         THEN IF results[j].ok > 0 THEN "rollback_partial" ELSE "rollback_failed"
    ELSE IF journals[j].requested THEN "rollback_requested" ELSE "applied"

-----------------------------------------------------------------------------
StoreEmptied ==
    /\ changeSets' = [s \in ChangeSetIds |-> None]
    /\ version' = [p \in Projects |-> 0]
    /\ links' = [l \in LinkIds |-> None]
    /\ mostRecent' = [p \in Projects |-> None]
    /\ deliveries' = {}
    /\ outNonce' = [l \in LinkIds |-> 0]
    /\ inNonce' = [l \in LinkIds |-> 0]
    /\ journals' = [j \in JournalIds |-> None]
    /\ entries' = [j \in JournalIds |-> None]
    /\ results' = [j \in JournalIds |-> None]
    /\ approvedAs' = [s \in ChangeSetIds |-> None]
    /\ trimmed' = {}

(* The process ends and is started again.  Session keys, held polls and    *)
(* generating runs are gone; the store is gone too unless it is on disk.   *)
RestartLosingQueues ==
    /\ running' = {}
    /\ keyring' = {}
    /\ held' = [l \in LinkIds |-> {}]
    /\ deliveries' = {}
    /\ UNCHANGED <<changeSets, version, links, mostRecent, outNonce, inNonce,
                   journals, entries, results, history>>
Restart ==
    /\ running' = {}
    /\ keyring' = {}
    /\ held' = [l \in LinkIds |-> {}]
    /\ IF Durable THEN UNCHANGED <<store, history>> ELSE StoreEmptied

-----------------------------------------------------------------------------
Outcomes == [ok : 0..2, failed : 0..1]

Producer ==
    \/ \E s \in ChangeSetIds, p \in Projects, base \in Versions, c \in Contents :
          SubmitChangeSet(s, p, base, c)
    \/ \E p \in Projects : StartRun(p)
    \/ \E run \in running, s \in ChangeSetIds, c \in Contents, failure \in BOOLEAN :
          SettleRun(run, s, c, failure)
    \/ \E run \in running : SettleRunWithoutSet(run)
    \/ \E s \in ChangeSetIds, digest \in Contents, confirm \in BOOLEAN :
          Approve(s, digest, confirm)
    \/ \E j \in JournalIds, v \in Versions : RequestRollback(j, v)

Consumer ==
    \/ \E l \in LinkIds, p \in Projects : Pair(l, p)
    \/ \E l \in LinkIds, since \in Cursors : Poll(l, since)
    \/ \E l \in LinkIds, since \in Cursors : HeldPollEnds(l, since)
    \/ \E l \in LinkIds, n \in Nonces, s \in ChangeSetIds, j \in JournalIds,
          o \in Outcomes, v \in Versions :
          ApplyResult(l, n, s, j, o.ok, o.failed, v)
    \/ \E l \in LinkIds, nonce \in Nonces, j \in JournalIds, s \in ChangeSetIds,
          before \in Versions, after \in Versions, n \in 1..2 :
          JournalEntry(l, nonce, j, s, before, after, n)
    \/ \E l \in LinkIds, n \in Nonces : Output(l, n)
    \/ \E l \in LinkIds, n \in Nonces, j \in JournalIds, s \in ChangeSetIds,
          o \in Outcomes, v \in Versions :
          ReportRollback(l, n, j, s, o, v)

Next == Producer \/ Consumer \/ Restart

Spec == Init /\ [][Next]_vars

-----------------------------------------------------------------------------
(* Properties *)

TypeOK ==
    /\ changeSets \in [ChangeSetIds -> ChangeSet \cup {None}]
    /\ version \in [Projects -> Nat]
    /\ running \in SUBSET (Projects \X Nat)
    /\ links \in [LinkIds -> Projects \cup {None}]
    /\ keyring \in SUBSET LinkIds
    /\ mostRecent \in [Projects -> LinkIds \cup {None}]
    /\ deliveries \in SUBSET Delivery
    /\ outNonce \in [LinkIds -> Nat]
    /\ inNonce \in [LinkIds -> Nat]
    /\ held \in [LinkIds -> SUBSET Nat]
    /\ journals \in [JournalIds -> JournalRecord \cup {None}]
    /\ entries \in [JournalIds -> Nat \cup {None}]
    /\ results \in [JournalIds -> RollbackResult \cup {None}]
    /\ approvedAs \in [ChangeSetIds -> Contents \cup {None}]
    /\ trimmed \in SUBSET ChangeSetIds

(* Statuses #approve alone can bring about. *)
Cleared == {"approved", "applying", "applied", "partial", "failed"}

(* No operation reaches Studio but the ones an approver read: the content  *)
(* of every delivered set is the content its approval echoed, it passed    *)
(* the daemon's own validation, and no set is past the approval gate       *)
(* otherwise (#submitChangeSet, #settleRun, #approve, #deliver).           *)
OnlyReviewedContentLeaves ==
    /\ \A d \in deliveries :
          d.payload.kind = "changeset" =>
             /\ approvedAs[d.payload.set] = d.payload.content
             /\ d.payload.content.clears
    /\ \A s \in ChangeSetIds :
          changeSets[s] # None /\ changeSets[s].status \in Cleared =>
             approvedAs[s] = changeSets[s].content

(* The retained deliveries of a link are exactly the last                  *)
(* DeliveriesPerLink it was given, one per nonce: a cursor never skips a   *)
(* delivery that is still retained (enqueueDelivery, nextDelivery).        *)
QueueIsWindow ==
    \A l \in LinkIds :
       /\ \A d, e \in deliveries : d.link = l /\ e.link = l /\ d.nonce = e.nonce => d = e
       /\ \A n \in 1..outNonce[l] :
             (n + DeliveriesPerLink > outNonce[l]) <=>
                 \E d \in deliveries : d.link = l /\ d.nonce = n
       /\ \A d \in deliveries : d.link = l => d.nonce \in 1..outNonce[l]

(* No lost wake-up: a poll is held open only while nothing newer than its  *)
(* cursor is waiting for it (#poll, #wait, #wake).                         *)
NoLostWakeup ==
    \A l \in LinkIds : \A since \in held[l] : NextDelivery(l, since) = {}

(* What a link was given is there to be asked for, and who asked for it is *)
(* told: the two above together (enqueueDelivery, #poll, #wake).           *)
QueuesAreServed == QueueIsWindow /\ NoLostWakeup

(* An approval is never lost on the way out: a set that is approved and    *)
(* was not handed over yet still has its delivery in a queue, unless that  *)
(* queue overflowed (#approve, enqueueDelivery's trim, #deliver).          *)
ApprovedIsQueued ==
    \A s \in ChangeSetIds :
       changeSets[s] # None /\ changeSets[s].status = "approved" =>
          \/ s \in trimmed
          \/ \E d \in deliveries : d.payload.kind = "changeset" /\ d.payload.set = s

(* A journal is stamped rolled back exactly when the last report on it     *)
(* covers every inverse the daemon holds, all of them reversed; and no     *)
(* report is on record for a reversal nobody asked for or whose inverses   *)
(* the daemon never saw (recordRollbackResult).                            *)
StampedMeansReversed ==
    \A j \in JournalIds : journals[j] # None =>
       /\ results[j] # None => journals[j].requested /\ entries[j] # None
       /\ journals[j].rolledBack <=>
             /\ results[j] # None
             /\ results[j].ok = entries[j]
             /\ results[j].failed = 0

(* Every apply on record, and every inverse kept for it, is of operations  *)
(* that were approved for that project: a rollback can replay nothing that *)
(* was not in an approved set (#applyResult, recordJournalEntry).          *)
JournalOfApprovedWork ==
    \A j \in JournalIds :
       /\ journals[j] # None =>
             /\ changeSets[journals[j].set] # None
             /\ changeSets[journals[j].set].project = journals[j].project
             /\ approvedAs[journals[j].set] # None
             /\ journals[j].after >= journals[j].before
       /\ entries[j] # None =>
             /\ journals[j] # None
             /\ entries[j] \in 1..approvedAs[journals[j].set].ops

(* A dispatched reversal still matches the journal it was planned from,    *)
(* however long it waits in the queue, and is of a journal stamped as      *)
(* requested, so that its report will be accepted (#rollback).             *)
DispatchedRollbackIsOnRecord ==
    \A d \in deliveries : d.payload.kind = "rollback" =>
       LET j == d.payload.journal IN
          /\ journals[j] # None
          /\ journals[j].requested
          /\ d.payload.steps = entries[j]
          /\ d.payload.restores = journals[j].before

(* What the journals say, what is kept to undo them and what is on its way *)
(* to Studio for them agree at every moment (the three above).             *)
JournalsAreSound ==
    JournalOfApprovedWork /\ StampedMeansReversed /\ DispatchedRollbackIsOnRecord

(* A step in which the daemon loses an in-memory store. *)
StoreLost == ~Durable /\ StoreEmptied

(* A project's recorded version moves only by a link paired with that      *)
(* project, spending a nonce it had not spent before, and falls only by    *)
(* the report of a reversal that was asked for, on inverses the daemon     *)
(* holds (#openFromConsumer, #applyResult, recordRollbackResult).          *)
VersionMovesByRight ==
    [][\A p \in Projects : version'[p] # version[p] =>
          \/ StoreLost
          \/ /\ \E l \in keyring : links[l] = p /\ inNonce'[l] > inNonce[l]
             /\ version'[p] < version[p] =>
                   \E j \in JournalIds :
                      /\ journals[j] # None
                      /\ journals[j].project = p
                      /\ journals[j].requested /\ ~journals[j].rolledBack
                      /\ entries[j] # None
                      /\ results'[j] # None]_vars

(* A rollback handle is never taken away: once recorded, an apply keeps    *)
(* its set and its version bracket, its inverses are never replaced, and a *)
(* completed reversal is never reopened (putJournal, putJournalEntry and   *)
(* the checks in front of them).                                           *)
RollbackHandleIsKept ==
    [][\A j \in JournalIds : journals[j] # None =>
          \/ StoreLost
          \/ /\ journals'[j] # None
             /\ journals'[j].set = journals[j].set
             /\ journals'[j].before = journals[j].before
             /\ journals'[j].after = journals[j].after
             /\ entries[j] # None => entries'[j] = entries[j]
             /\ journals[j].rolledBack => journals'[j].rolledBack]_vars
=============================================================================
