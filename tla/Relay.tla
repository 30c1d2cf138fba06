------------------------------- MODULE Relay --------------------------------
(***************************************************************************)
(* The hosted relay (apps/relay): many sessions share one process and one  *)
(* store, each with a producer token, one pairing code, a link, its        *)
(* ChangeSets, its journals and a project version.                         *)
(*                                                                         *)
(* A request is authorised when its headers arrive and handled when its    *)
(* body has been read: between the two steps, the session it was           *)
(* authorised for may expire or be evicted.  What follows the body runs    *)
(* without leaving the microtask queue (the store is in memory), so it is  *)
(* one step.  The project of a session is minted with it and is named by   *)
(* the session here.                                                       *)
(***************************************************************************)
EXTENDS Naturals, Sequences, SequencesExt, FiniteSets

CONSTANTS
    SessionIds, LinkIds, ChangeSetIds, JournalIds,
    Requests,             \* requests whose body is being read at one time
    None,                 \* stands for null
    ChangeSetsPerSession, JournalsPerSession, DeliveriesPerLink,
    MaxVersion,           \* bound: project versions a report may claim
    MaxNonce,             \* bound: highest nonce a consumer uses
    MaxDeliveries,        \* bound: deliveries given to one link
    MaxHeld,              \* bound: polls held open at one time
    MaxCursor             \* bound: highest cursor a poll asks from

ASSUME RelayBounds ==
    /\ {ChangeSetsPerSession, JournalsPerSession, DeliveriesPerLink}
          \subseteq Nat \ {0}
    /\ {MaxVersion, MaxNonce, MaxDeliveries, MaxHeld,
        MaxCursor} \subseteq Nat

(* A delivery, as DeliveryRecord, and the queue of a link, as LinkQueue. *)
Delivery == [kind : {"changeset", "rollback"}, owner : SessionIds,
             set : ChangeSetIds, nonce : Nat]
Queue == [items : Seq(Delivery), next : Nat, inbound : Nat]

(* null is neither an identifier nor a queue. *)
ASSUME NoneIsNull == None \notin SessionIds \cup LinkIds /\ None \notin Queue

VARIABLES
    sessions,    \* live sessions, the one seen longest ago first
    lapsed,      \* sessions past their expiry that nothing has looked up since
    pending,     \* sessions with an unredeemed pairing code, oldest first
    links,       \* link |-> its session, or None
    keyring,     \* links whose session key this process holds
    queues,      \* link |-> deliveries and nonces, or None
    waiters,     \* polls held open: {<<link, since>>}
    changeSets,  \* id |-> the stored ChangeSet, or None
    setsOf,      \* session |-> ids of its sets, oldest first
    journals,    \* id |-> JournalRecord, or None
    journalsOf,  \* session |-> ids of its journals, oldest first
    version,     \* session |-> version of its project
    reqs,        \* request |-> what it was authorised as, or None
    boundTo,     \* history: link |-> the session it was paired with, or None
    approvals,   \* history: {<<session, set>>} approved in sessions not dropped
    effects      \* history: link |-> nonces of the reports that were recorded,
                 \* until its session is dropped

sessionVars == <<sessions, lapsed, pending>>
linkVars == <<links, queues>>
recordVars == <<changeSets, setsOf, journals, journalsOf, version>>
history == <<boundTo, approvals, effects>>
vars == <<sessionVars, linkVars, keyring, waiters, recordVars, reqs, history>>

Versions == 0..MaxVersion
FreshQueue == [items |-> <<>>, next |-> 1, inbound |-> 0]

Init ==
    /\ sessions = <<>> /\ lapsed = {} /\ pending = <<>>
    /\ links = [l \in LinkIds |-> None]
    /\ keyring = {}
    /\ queues = [l \in LinkIds |-> None]
    /\ waiters = {}
    /\ changeSets = [c \in ChangeSetIds |-> None]
    /\ setsOf = [s \in SessionIds |-> <<>>]
    /\ journals = [j \in JournalIds |-> None]
    /\ journalsOf = [s \in SessionIds |-> <<>>]
    /\ version = [s \in SessionIds |-> 0]
    /\ reqs = [r \in Requests |-> None]
    /\ boundTo = [l \in LinkIds |-> None]
    /\ approvals = {}
    /\ effects = [l \in LinkIds |-> <<>>]

-----------------------------------------------------------------------------
(* Sessions *)

(* dropSession: the session's links, queues, sets, journals and version go *)
(* with it; its session keys, held polls and pairing code stay behind.     *)
DropKeepsSets(dead) ==
    /\ links' = [l \in LinkIds |-> IF links[l] \in dead THEN None ELSE links[l]]
    /\ queues' = [l \in LinkIds |-> IF links[l] \in dead THEN None ELSE queues[l]]
    /\ UNCHANGED <<changeSets, setsOf>>
    /\ journals' = [j \in JournalIds |->
           IF \E s \in dead : Contains(journalsOf[s], j) THEN None ELSE journals[j]]
    /\ journalsOf' = [s \in SessionIds |-> IF s \in dead THEN <<>> ELSE journalsOf[s]]
    /\ version' = [s \in SessionIds |-> IF s \in dead THEN 0 ELSE version[s]]
    /\ approvals' = {a \in approvals : a[1] \notin dead}
    /\ effects' = [l \in LinkIds |-> IF boundTo[l] \in dead THEN <<>> ELSE effects[l]]
DropRecords(dead) ==
    /\ links' = [l \in LinkIds |-> IF links[l] \in dead THEN None ELSE links[l]]
    /\ queues' = [l \in LinkIds |-> IF links[l] \in dead THEN None ELSE queues[l]]
    /\ changeSets' = [c \in ChangeSetIds |->
           IF \E s \in dead : Contains(setsOf[s], c) THEN None ELSE changeSets[c]]
    /\ journals' = [j \in JournalIds |->
           IF \E s \in dead : Contains(journalsOf[s], j) THEN None ELSE journals[j]]
    /\ setsOf' = [s \in SessionIds |-> IF s \in dead THEN <<>> ELSE setsOf[s]]
    /\ journalsOf' = [s \in SessionIds |-> IF s \in dead THEN <<>> ELSE journalsOf[s]]
    /\ version' = [s \in SessionIds |-> IF s \in dead THEN 0 ELSE version[s]]
    /\ approvals' = {a \in approvals : a[1] \notin dead}
    /\ effects' = [l \in LinkIds |-> IF boundTo[l] \in dead THEN <<>> ELSE effects[l]]

Live == ToSet(sessions)

(* delete on a Map, whose keys are unique and in the order of insertion. *)
Without(keys, key) ==
    LET at == CHOOSE i \in 1..Len(keys) : keys[i] = key
    IN  IF Contains(keys, key)
        THEN [i \in 1..(Len(keys) - 1) |-> keys[IF i < at THEN i ELSE i + 1]] ELSE keys

Minted == Live \cup lapsed \cup ToSet(pending)
          \cup {s \in SessionIds : \E l \in LinkIds : boundTo[l] = s}

(* POST /relay/sessions: the session is the one seen last, and it gets the *)
(* newest pairing code.                                                    *)
CreateSession(s) ==
    /\ s \notin Minted
    /\ \A r \in Requests : reqs[r] # None => reqs[r].session # s
    /\ setsOf[s] = <<>>
    /\ sessions' = Append(sessions, s)
    /\ pending' = Append(pending, s)
    /\ UNCHANGED <<lapsed, linkVars, keyring, waiters, recordVars, reqs, history>>

(* A session of someone else is minted into a full store: the session seen *)
(* longest ago is evicted, and it may be one of these.                     *)
EvictOldest ==
    /\ sessions # <<>>
    /\ DropRecords({Head(sessions)})
    /\ sessions' = Tail(sessions)
    /\ lapsed' = lapsed \ {Head(sessions)}
    /\ UNCHANGED <<pending, keyring, waiters, reqs, boundTo>>

(* A session's expiresAt passes: it stays in the store until getSession    *)
(* next meets it.  A pairing code lives for less time than its session.    *)
SessionLapses(s) ==
    /\ s \in Live \ (lapsed \cup ToSet(pending))
    /\ lapsed' = lapsed \cup {s}
    /\ UNCHANGED <<sessions, pending, linkVars, keyring, waiters, recordVars,
                   reqs, history>>

(* The oldest code expires and #sweep removes it before anything reads it, *)
(* or a code issued into a full registry displaces it.                     *)
CodeLapses ==
    /\ pending # <<>>
    /\ pending' = Tail(pending)
    /\ UNCHANGED <<sessions, lapsed, linkVars, keyring, waiters, recordVars,
                   reqs, history>>

(* getSession on a session that has expired drops it. *)
DropLapsed(s) ==
    /\ s \in lapsed
    /\ DropRecords({s})
    /\ sessions' = Without(sessions, s)
    /\ lapsed' = lapsed \ {s}
    /\ UNCHANGED <<pending, keyring, waiters, reqs, boundTo>>

Current(s) == s \in Live \ lapsed

-----------------------------------------------------------------------------
(* Pairing *)

(* POST /v1/link/pair: redeem burns the code before the session is looked  *)
(* up and before the project is compared, so a refused pairing spends it.  *)
RemainingCodes(s) == Without(pending, s)
Pair(s, l, project) ==
    /\ Contains(pending, s)
    /\ boundTo[l] = None
    /\ pending' = RemainingCodes(s)
    /\ \/ /\ Current(s) /\ project \in {None, s}
          /\ links' = [links EXCEPT ![l] = s]
          /\ queues' = [queues EXCEPT ![l] = FreshQueue]
          /\ keyring' = keyring \cup {l}
          /\ boundTo' = [boundTo EXCEPT ![l] = s]
          /\ UNCHANGED <<recordVars, sessions, lapsed, approvals, effects>>
       \/ /\ s \notin lapsed /\ (s \notin Live \/ project \notin {None, s})
          /\ UNCHANGED <<linkVars, keyring, boundTo, recordVars, sessions, lapsed,
                         approvals, effects>>
       \/ /\ s \in lapsed
          /\ DropRecords({s})
          /\ sessions' = Without(sessions, s)
          /\ lapsed' = lapsed \ {s}
          /\ UNCHANGED <<keyring, boundTo>>
    /\ UNCHANGED <<waiters, reqs>>

-----------------------------------------------------------------------------
(* Authorisation *)

(* #authorise, producer route: touchSession makes the session the one seen *)
(* most recently.  Which route it is shows only when it is handled.        *)
AuthoriseProducer(r, s) ==
    /\ reqs[r] = None
    /\ Current(s)
    /\ sessions' = Append(Without(sessions, s), s)
    /\ reqs' = [reqs EXCEPT ![r] = [session |-> s, link |-> None]]
    /\ UNCHANGED <<lapsed, pending, linkVars, keyring, waiters, recordVars, history>>

(* #authorise, link route: a known link of a current session, whose key    *)
(* this process holds.                                                     *)
LinkIsServed(l) == links[l] # None /\ Current(links[l]) /\ l \in keyring

AuthoriseConsumer(r, l) ==
    /\ reqs[r] = None
    /\ LinkIsServed(l)
    /\ reqs' = [reqs EXCEPT ![r] = [session |-> links[l], link |-> l]]
    /\ UNCHANGED <<sessionVars, linkVars, keyring, waiters, recordVars, history>>

Finishes(r) ==
    /\ reqs' = [reqs EXCEPT ![r] = None]
    /\ UNCHANGED <<sessionVars, keyring, boundTo>>
HandlesProducer(r) == reqs[r] # None /\ reqs[r].link = None /\ Finishes(r)
HandlesConsumer(r) == reqs[r] # None /\ reqs[r].link # None /\ Finishes(r)

(* Any producer request may be refused for its body: wrong path, digest,   *)
(* unconfirmed bulk delete, or a condition below that fails.               *)
RefuseProducer(r) ==
    /\ HandlesProducer(r)
    /\ UNCHANGED <<linkVars, waiters, recordVars, approvals, effects>>

-----------------------------------------------------------------------------
(* Deliveries *)

(* setChangeSetStatus, which ignores a set of another session. *)
WithStatus(sets, s, c, status) ==
    IF sets[c] # None /\ sets[c].session = s
    THEN [sets EXCEPT ![c].status = status] ELSE sets

(* nextDelivery: the first one after the cursor, as a set of at most one. *)
NextDelivery(items, since) ==
    {items[i] : i \in {k \in 1..Len(items) :
        items[k].nonce > since /\ \A j \in 1..(k - 1) : items[j].nonce <= since}}

(* #deliver: a delivered set is marked as applying, through the session    *)
(* the link still belongs to.                                              *)
Delivered(sets, l, delivery) ==
    IF delivery.kind = "changeset" /\ links[l] # None
    THEN WithStatus(sets, links[l], delivery.set, "applying") ELSE sets

(* What is delivered, before the queue has numbered it. *)
Payload(kind, owner, set) == [kind |-> kind, owner |-> owner, set |-> set, nonce |-> 0]

(* enqueueDelivery, then #wake: every held poll the queue now has          *)
(* something for is answered with it.                                      *)
Enqueue(l, payload, sets) ==
    LET q == queues[l]
        all == Append(q.items, [payload EXCEPT !.nonce = q.next])
        kept == IF Len(all) > DeliveriesPerLink THEN Tail(all) ELSE all
        woken == {w \in waiters : w[1] = l /\ NextDelivery(kept, w[2]) # {}}
    IN  /\ q.next <= MaxDeliveries
        /\ queues' = [queues EXCEPT ![l].items = kept, ![l].next = @ + 1]
        /\ waiters' = waiters \ woken
        /\ changeSets' = IF woken = {} THEN sets ELSE Delivered(sets, l, payload)
        /\ UNCHANGED links

(* GET /v1/link/poll reads no body: it is authorised and answered, or      *)
(* held, in one step.                                                      *)
Poll(l, since) ==
    LET found == NextDelivery(queues[l].items, since)
    IN  /\ LinkIsServed(l)
        /\ IF found = {}
           THEN /\ Cardinality(waiters) < MaxHeld
                /\ waiters' = waiters \cup {<<l, since>>}
                /\ UNCHANGED changeSets
           ELSE /\ \E d \in found : changeSets' = Delivered(changeSets, l, d)
                /\ UNCHANGED waiters
        /\ UNCHANGED <<sessionVars, linkVars, keyring, setsOf, journals,
                       journalsOf, version, reqs, history>>

(* The poll's timer fires or its client goes away. *)
PollEnds(w) ==
    /\ w \in waiters
    /\ waiters' = waiters \ {w}
    /\ UNCHANGED <<sessionVars, linkVars, keyring, recordVars, reqs, history>>

(* #requirePairedLink: a link of the session whose key is held. *)
PairedLinkOfAny(s) == {l \in LinkIds : links[l] # None /\ l \in keyring}
PairedLink(s) == {l \in LinkIds : links[l] = s /\ l \in keyring}

-----------------------------------------------------------------------------
(* Producer handlers *)

(* POST /v1/changesets: putChangeSet under the session the request was     *)
(* authorised for, whether or not it is still there.                       *)
Submit(r, c, base, clears) ==
    LET s == reqs[r].session
        ids == Append(setsOf[s], c)
        out == IF Len(ids) > ChangeSetsPerSession THEN {Head(ids)} ELSE {}
    IN  /\ HandlesProducer(r)
        /\ changeSets[c] = None
        /\ base = version[s]
        /\ changeSets' = [x \in ChangeSetIds |->
               IF x = c THEN [session |-> s, base |-> base, clears |-> clears,
                              status |-> "validated"]
               ELSE IF x \in out THEN None ELSE changeSets[x]]
        /\ setsOf' = [setsOf EXCEPT ![s] = IF out = {} THEN ids ELSE Tail(ids)]
        /\ UNCHANGED <<linkVars, waiters, journals, journalsOf, version,
                       approvals, effects>>

(* getChangeSet and getJournal answer for the asking session only. *)
SetOf(s, c) == changeSets[c] # None /\ changeSets[c].session = s
JournalOf(s, j) == journals[j] # None /\ journals[j].session = s

(* POST /v1/changesets/:id/approve *)
Approve(r, c) ==
    LET s == reqs[r].session
    IN  /\ HandlesProducer(r)
        /\ SetOf(s, c)
        /\ changeSets[c].status = "validated"
        /\ changeSets[c].clears
        /\ changeSets[c].base = version[s]
        /\ \E l \in PairedLink(s) :
              Enqueue(l, Payload("changeset", s, c),
                      WithStatus(changeSets, s, c, "approved"))
        /\ approvals' = approvals \cup {<<s, c>>}
        /\ UNCHANGED <<setsOf, journals, journalsOf, version, effects>>

(* POST /v1/journal/:id/rollback *)
Rollback(r, j, expected) ==
    LET s == reqs[r].session
    IN  /\ HandlesProducer(r)
        /\ JournalOf(s, j)
        /\ ~journals[j].rolledBack
        /\ journals[j].inverses
        /\ expected = version[s]
        /\ \E l \in PairedLink(s) :
              Enqueue(l, Payload("rollback", journals[j].session, journals[j].set), changeSets)
        /\ journals' = [journals EXCEPT ![j].requested = TRUE]
        /\ UNCHANGED <<setsOf, journalsOf, version, approvals, effects>>

-----------------------------------------------------------------------------
(* Consumer handlers.  #openFromConsumer claims the nonce first; the queue *)
(* of a link dropped meanwhile is created afresh, watermark and all.  A    *)
(* lost report has used up its nonce, so nonces may be skipped.            *)
QueueOf(l) == IF queues[l] = None THEN FreshQueue ELSE queues[l]

Claims(l, n) ==
    /\ n > QueueOf(l).inbound
    /\ queues' = [queues EXCEPT ![l] = [QueueOf(l) EXCEPT !.inbound = n]]

Recorded(l, n) == effects' = [effects EXCEPT ![l] = Append(@, n)]

(* A report whose nonce is not above the watermark (queue made, nothing    *)
(* claimed), or one claimed and refused afterwards.                        *)
RefuseConsumer(r, n) ==
    /\ HandlesConsumer(r)
    /\ LET l == reqs[r].link IN
          \/ Claims(l, n)
          \/ n <= QueueOf(l).inbound /\ queues' = [queues EXCEPT ![l] = QueueOf(l)]
    /\ UNCHANGED <<links, waiters, recordVars, approvals, effects>>

(* POST /v1/changesets/:id/result.  `concluded' stands for applied, partial*)
(* and failed, which no handler tells apart.                               *)
ApplyResult(r, c, j, v, n) ==
    LET s == reqs[r].session
        ids == Append(journalsOf[s], j)
        out == IF Len(ids) > JournalsPerSession THEN {Head(ids)} ELSE {}
    IN  /\ HandlesConsumer(r)
        /\ Claims(reqs[r].link, n)
        /\ SetOf(s, c)
        /\ changeSets[c].status \in {"approved", "applying"}
        /\ journals[j] = None
        /\ v >= version[s]
        /\ changeSets' = WithStatus(changeSets, s, c, "concluded")
        /\ version' = [version EXCEPT ![s] = v]
        /\ journals' = [x \in JournalIds |->
               IF x = j THEN [session |-> s, set |-> c, before |-> version[s],
                              after |-> v, requested |-> FALSE,
                              rolledBack |-> FALSE, inverses |-> FALSE]
               ELSE IF x \in out THEN None ELSE journals[x]]
        /\ journalsOf' = [journalsOf EXCEPT ![s] = IF out = {} THEN ids ELSE Tail(ids)]
        /\ Recorded(reqs[r].link, n)
        /\ UNCHANGED <<links, waiters, setsOf, approvals>>

(* POST /v1/journal/:id/entry: written once, and only while the set it     *)
(* records is still stored.                                                *)
RecordJournalEntry(r, j, n) ==
    LET s == reqs[r].session
    IN  /\ HandlesConsumer(r)
        /\ Claims(reqs[r].link, n)
        /\ JournalOf(s, j)
        /\ SetOf(s, journals[j].set)
        /\ ~journals[j].inverses
        /\ journals' = [journals EXCEPT ![j].inverses = TRUE]
        /\ Recorded(reqs[r].link, n)
        /\ UNCHANGED <<links, waiters, changeSets, setsOf, journalsOf, version,
                       approvals>>

(* POST /v1/journal/:id/rollback-result: only a whole reversal stamps the  *)
(* journal; the version is taken from the report either way.               *)
RecordRollbackResult(r, j, v, whole, n) ==
    LET s == reqs[r].session
    IN  /\ HandlesConsumer(r)
        /\ Claims(reqs[r].link, n)
        /\ JournalOf(s, j)
        /\ ~journals[j].rolledBack
        /\ journals[j].requested
        /\ journals' = [journals EXCEPT ![j].rolledBack = whole]
        /\ version' = [version EXCEPT ![s] = v]
        /\ Recorded(reqs[r].link, n)
        /\ UNCHANGED <<links, waiters, changeSets, setsOf, journalsOf, approvals>>

Next ==
    \/ \E s \in SessionIds : CreateSession(s) \/ SessionLapses(s) \/ DropLapsed(s)
    \/ EvictOldest
    \/ CodeLapses
    \/ \E s \in SessionIds, l \in LinkIds, p \in SessionIds \cup {None} : Pair(s, l, p)
    \/ \E r \in Requests, s \in SessionIds : AuthoriseProducer(r, s)
    \/ \E r \in Requests, l \in LinkIds : AuthoriseConsumer(r, l)
    \/ \E l \in LinkIds, since \in 0..MaxCursor : Poll(l, since)
    \/ \E w \in waiters : PollEnds(w)
    \/ \E r \in Requests :
          \/ RefuseProducer(r)
          \/ \E n \in 1..MaxNonce : RefuseConsumer(r, n)
          \/ \E c \in ChangeSetIds, v \in Versions, ok \in BOOLEAN : Submit(r, c, v, ok)
          \/ \E c \in ChangeSetIds : Approve(r, c)
          \/ \E j \in JournalIds, v \in Versions : Rollback(r, j, v)
          \/ \E c \in ChangeSetIds, j \in JournalIds, v \in Versions, n \in 1..MaxNonce :
                ApplyResult(r, c, j, v, n)
          \/ \E j \in JournalIds, n \in 1..MaxNonce : RecordJournalEntry(r, j, n)
          \/ \E j \in JournalIds, v \in Versions, whole \in BOOLEAN, n \in 1..MaxNonce :
                RecordRollbackResult(r, j, v, whole, n)

Spec == Init /\ [][Next]_vars

(* Ids are opaque to the relay, which compares and orders none of them: a  *)
(* run may identify states that differ by a renaming.                      *)
Symmetric == Permutations(SessionIds) \cup Permutations(LinkIds)
             \cup Permutations(ChangeSetIds)

-----------------------------------------------------------------------------
(* A link's queue only ever holds the work of the session that paired it:  *)
(* #enqueue goes through findPairedLink of the approving session, and a    *)
(* link's queue is not handed on when ids are reused after an eviction.    *)
OwnWorkOnly ==
    \A l \in LinkIds : queues[l] # None =>
        \A i \in DOMAIN queues[l].items : queues[l].items[i].owner = boundTo[l]

(* A code buys one link: redeem burns it first, so no two links are ever   *)
(* paired to one session, whatever races the answer.                       *)
OneLinkPerCode ==
    \A k, l \in LinkIds : boundTo[k] # None /\ boundTo[k] = boundTo[l] => k = l

(* The reports a link had recorded carry strictly rising nonces, although  *)
(* the watermark of a dropped link's queue starts again from zero.         *)
NoReportTwice ==
    \A l \in LinkIds : \A i \in 1..(Len(effects[l]) - 1) :
        effects[l][i] < effects[l][i + 1]

(* A set is under way or concluded only if its own session approved it:    *)
(* a late poll of another session's link that still holds a delivery of    *)
(* the same id does not move it (setChangeSetStatus's session check).      *)
UnderWayWasApproved ==
    \A c \in ChangeSetIds :
        changeSets[c] # None /\ changeSets[c].status # "validated" =>
            <<changeSets[c].session, c>> \in approvals

(* Sessions that share a relay do not reach into each other: the queue,    *)
(* the code, the approvals and the reports of each are its own (#enqueue,  *)
(* redeem, setChangeSetStatus, claimNonce).                                *)
SessionsAreApart == OwnWorkOnly /\ OneLinkPerCode /\ UnderWayWasApproved /\ NoReportTwice

(* A session that has been dropped approves nothing and has no report      *)
(* recorded, whatever requests were authorised for it before it went.      *)
DroppedSessionsAreInert ==
    [][\A s \in SessionIds \ Live :
          /\ \A c \in ChangeSetIds : <<s, c>> \in approvals' => <<s, c>> \in approvals
          /\ \A l \in LinkIds : boundTo[l] = s /\ Len(effects'[l]) > 0 => effects'[l] = effects[l]]_vars
=============================================================================
