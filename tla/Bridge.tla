------------------------------- MODULE Bridge -------------------------------
(***************************************************************************)
(* The daemon and the Studio plugin together, over a network that may      *)
(* delay, reorder and lose what the plugin sends.  Every step is a handler *)
(* of the daemon (module Daemon), a stretch of a plugin thread (module     *)
(* Plugin), or both when a request carries one to the other.               *)
(*                                                                         *)
(* A poll that finds nothing is held open and answered later; here it      *)
(* simply arrives later, when there is something to answer with (MaxHeld   *)
(* is 0).                                                                  *)
(***************************************************************************)
EXTENDS Daemon, Sequences

CONSTANTS
    UIThreads, AutoDecisions, QueueCap,
    Scenarios      \* what may happen in a behaviour, see Scenario

VARIABLES
    link, cursor, saved, sent, known, place, queue, pending, offered, threads,
    lastPoll, flight, applies, reversed,
    scenario,  \* the scenario of this behaviour
    seen,      \* history: the place as the last recorded report left it
    builtOn    \* history: set |-> the place its producer knew, or None

P == INSTANCE Plugin

pluginVars == <<link, cursor, saved, sent, known, place, queue, pending, offered,
                threads, lastPoll, flight, applies, reversed>>
bridgeVars == <<vars, pluginVars, seen, builtOn>>

(* The ChangeSets proposed, what people and the network may do besides     *)
(* (requests and answers get lost, a request arrives after its sender gave *)
(* up on it, the user asks for rollbacks or presses Connect again, a       *)
(* setting is not stored, a process is restarted), and two bounds: the     *)
(* envelopes sealed and the deliveries queued under a link.                *)
Scenario ==
    [sets : SUBSET ChangeSetIds, contents : SUBSET Contents, lossy : BOOLEAN,
     timeouts : BOOLEAN, rollbacks : BOOLEAN, reconnects : BOOLEAN,
     missedWrites : BOOLEAN, restarts : SUBSET {"studio", "daemon"},
     reports : 0..MaxReports, deliveries : 0..MaxDeliveries]

ASSUME BridgeAssumption ==
    /\ AutoDecisions \in SUBSET BOOLEAN /\ AutoDecisions # {}
    /\ QueueCap \in Nat \ {0}
    /\ Scenarios \subseteq Scenario

(* What the history keeps of an apply; null is none of these. *)
ApplyRecords ==
    [set : ChangeSetIds, before : Nat, after : Nat, ok : Nat, inverses : Nat]
ASSUME AppliesAssumption == None \notin ApplyRecords

BridgeInit ==
    /\ Init
    /\ P!Init
    /\ scenario \in Scenarios
    /\ seen = place
    /\ builtOn = [s \in ChangeSetIds |-> None]

-----------------------------------------------------------------------------
(* Pairing: once, and again when the daemon no longer knows the link. *)
PairStudio(l, p) ==
    /\ link \notin keyring
    /\ Pair(l, p)
    /\ P!StoreLink(l)
    /\ UNCHANGED <<seen, builtOn>>

(* A producer submits a set built against the place as last reported. *)
Propose(s, p, c) ==
    /\ s \in scenario.sets /\ c \in scenario.contents
    /\ SubmitChangeSet(s, p, version[p], c)
    /\ builtOn' = [builtOn EXCEPT ![s] = seen]
    /\ UNCHANGED <<pluginVars, seen>>

ApproveProposal(s, c) ==
    /\ Approve(s, c, TRUE)
    /\ UNCHANGED <<pluginVars, seen, builtOn>>

AskRollback(j) ==
    /\ scenario.rollbacks
    /\ journals[j] # None
    /\ RequestRollback(j, version[journals[j].project])
    /\ UNCHANGED <<pluginVars, seen, builtOn>>

(* A poll reaches the daemon and its answer reaches the loop that sent it. *)
HandOver(t) ==
    /\ t = "stopped" => lastPoll # None
    /\ LET since == IF t = "poll" THEN cursor ELSE lastPoll IN
         /\ Poll(link, since)
         /\ \E d \in NextDelivery(link, since) : P!Deliver(t, d, scenario.missedWrites)
    /\ UNCHANGED <<seen, builtOn>>

(* The answer to a poll is lost on the way. *)
LoseAnswer ==
    /\ scenario.lossy
    /\ ~P!Busy("poll")
    /\ Poll(link, cursor)
    /\ UNCHANGED <<pluginVars, seen, builtOn>>

(* An envelope arrives.  One sealed under a link whose key the daemon lost *)
(* is refused, and so is one at or below the watermark.                    *)
Authentic(m) == m.link \in keyring /\ m.nonce > inNonce[m.link]

Arrive(m) ==
    LET r == m.report IN
    /\ m \in flight
    /\ flight' = flight \ {m}
    /\ IF ~Authentic(m)
       THEN UNCHANGED <<vars, seen>>
       ELSE CASE r.kind = "apply" ->
                   /\ ApplyResult(m.link, m.nonce, r.set, r.journal, r.ok, r.failed,
                                  r.version)
                   /\ seen' = IF ApplyResultAccepted(m.link, r.set, r.journal, r.version)
                              THEN m.place ELSE seen
              [] r.kind = "entry" ->
                   /\ JournalEntry(m.link, m.nonce, r.journal, r.set, r.before,
                                   r.after, r.n)
                   /\ UNCHANGED seen
              [] r.kind = "rollback" ->
                   /\ ReportRollback(m.link, m.nonce, r.journal, r.set,
                                     [ok |-> r.ok, failed |-> r.failed], r.version)
                   /\ seen' = IF RollbackResultAccepted(m.link, r.journal, r.set,
                                    [ok |-> r.ok, failed |-> r.failed])
                              THEN m.place ELSE seen
    /\ UNCHANGED <<link, cursor, saved, sent, known, place, queue, pending, offered,
                   threads, lastPoll, applies, reversed, builtOn>>

Lose(m) ==
    /\ scenario.lossy
    /\ m \in flight
    /\ flight' = flight \ {m}
    /\ UNCHANGED <<vars, link, cursor, saved, sent, known, place, queue, pending, offered,
                   threads, lastPoll, applies, reversed, seen, builtOn>>

(* RequestAsync returns once the request was dealt with, or gives up. *)
Continue(t) ==
    /\ \/ scenario.timeouts
       \/ \A m \in flight : m.link = link => m.nonce # threads[t].awaits
    /\ P!Resume(t)
    /\ UNCHANGED <<vars, seen, builtOn>>

Decide(t) ==
    /\ P!ApproveInStudio(t) \/ P!RejectInStudio(t)
    /\ UNCHANGED <<vars, seen, builtOn>>

PressConnect ==
    /\ scenario.reconnects
    /\ P!Reconnect
    /\ UNCHANGED <<vars, seen, builtOn>>

RestartStudio ==
    /\ "studio" \in scenario.restarts
    /\ P!StudioRestart
    /\ UNCHANGED <<vars, seen, builtOn>>

RestartDaemon ==
    /\ "daemon" \in scenario.restarts
    /\ Restart
    /\ UNCHANGED <<pluginVars, seen, builtOn>>

-----------------------------------------------------------------------------
Network ==
    \/ \E t \in {"poll", "stopped"} : HandOver(t)
    \/ \E m \in flight : Arrive(m)
    \/ \E t \in P!Threads : Continue(t)

Faults ==
    \/ LoseAnswer
    \/ \E m \in flight : Lose(m)
    \/ PressConnect
    \/ RestartStudio
    \/ RestartDaemon

People ==
    \/ \E l \in LinkIds, p \in Projects : PairStudio(l, p)
    \/ \E s \in ChangeSetIds, p \in Projects, c \in Contents : Propose(s, p, c)
    \/ \E s \in ChangeSetIds, c \in Contents : ApproveProposal(s, c)
    \/ \E j \in JournalIds : AskRollback(j)
    \/ \E t \in UIThreads : Decide(t)

BridgeNext ==
    /\ Network \/ Faults \/ People
    /\ UNCHANGED scenario
    /\ sent' <= scenario.reports
    /\ \A l \in LinkIds : outNonce'[l] <= scenario.deliveries

BridgeSpec == BridgeInit /\ [][BridgeNext]_<<scenario, bridgeVars>>

(* The event loop, the network and the poll loop keep going; a person who  *)
(* has a set on screen decides on it in the end.  Nobody has to propose,   *)
(* approve or roll back anything.                                          *)
FairBridgeSpec ==
    /\ BridgeSpec
    /\ \A t \in {"poll", "stopped"} : WF_bridgeVars(HandOver(t))
    /\ WF_bridgeVars(\E m \in flight : Arrive(m))
    /\ \A t \in P!Threads : WF_bridgeVars(Continue(t))
    /\ WF_bridgeVars(\E t \in UIThreads : Decide(t))

-----------------------------------------------------------------------------
(* A restarted Studio has no version to check a base against and takes the *)
(* next set's own: what rests on that check is claimed without restarts.   *)
StudioKeepsRunning == "studio" \notin scenario.restarts

(* A full reversal takes the version back, so that a number may come round *)
(* again (see AppliedOnReviewedTree): what rests on numbers that are not   *)
(* used twice is claimed where no reversal meets a delivery that is handed *)
(* over again.                                                             *)
NumbersTellApart == ~(scenario.rollbacks /\ scenario.reconnects)

(* An in-memory store that a restart empties lets ids be used again for    *)
(* other content: what is on record is compared with history where the     *)
(* store is on disk or the daemon keeps running.                           *)
StoreIsKept == Durable \/ "daemon" \notin scenario.restarts

(* A set goes into the place only on the tree its producer built it        *)
(* against: the base version is checked by submit, approve and execute     *)
(* (docs/PROTOCOL.md, invariant 1: "If the place moved underneath a        *)
(* ChangeSet, the apply is refused").                                      *)
AppliedOnReviewedTree ==
    [][\A s \in ChangeSetIds : (StudioKeepsRunning /\ place'[s] > place[s]) =>
          place = builtOn[s]]_bridgeVars

(* The journal tells the truth about the place: an apply on record did     *)
(* happen with that outcome and version, its inverses are those the plugin *)
(* captured, and a set recorded as applied was applied in full             *)
(* (Apply.execute, #applyResult, recordJournalEntry).                      *)
AppliesAreTrue ==
    \A j \in JournalIds :
       /\ journals[j] # None =>
             /\ applies[j] # None
             /\ applies[j].set = journals[j].set
             /\ applies[j].after = journals[j].after
       /\ entries[j] # None =>
             /\ entries[j] = applies[j].inverses
             /\ journals[j].before = applies[j].before
       /\ journals[j] # None /\ changeSets[journals[j].set].status = "applied" =>
             \E k \in JournalIds :
                /\ applies[k] # None
                /\ applies[k].set = journals[j].set
                /\ applies[k].ok = changeSets[applies[k].set].content.ops

(* What GET /v1/journal/:id says of a reversal is true of the place: a     *)
(* journal is rolled back only when one reversal the plugin carried out    *)
(* undid every inverse of it, and partly so only when one undid some       *)
(* (Rollback.execute, recordRollbackResult, journalStateOf).               *)
RolledBackIsTrue ==
    \A j \in JournalIds : journals[j] # None =>
       /\ JournalState(j) = "rolled_back" => reversed[j] = entries[j]
       /\ JournalState(j) = "rollback_partial" => reversed[j] > 0

(* A set is written into the place at most once, however often its         *)
(* delivery is handed over (unwrap's nonce check, _refusal's base check).  *)
AppliedOnce ==
    \A s \in ChangeSetIds :
       (StudioKeepsRunning /\ NumbersTellApart /\ changeSets[s] # None) =>
          place[s] <= changeSets[s].content.ops

(* What the daemon has on record is what happened to the place: the three  *)
(* above together, whatever was lost, repeated or restarted in between.    *)
JournalIsTrue == StoreIsKept => AppliesAreTrue /\ RolledBackIsTrue /\ AppliedOnce

(* No process is restarted and no request outlives its sender's patience.  *)
Undisturbed == ~scenario.lossy /\ ~scenario.timeouts /\ scenario.restarts = {}

(* The plugin and the daemon agree on the version whenever nothing is      *)
(* under way between them: the next base check compares like with like     *)
(* (Apply._version, setVersion, setProjectVersion).                        *)
VersionsAgreeAtRest ==
    (Undisturbed /\ flight = {} /\ known # None /\ \A t \in P!Threads : ~P!Busy(t)) =>
       \A p \in Projects : p = links[link] => known = version[p]

(* A ChangeSet that waits for a decision can be decided on: while one is   *)
(* waiting the panel offers the two buttons, for presentNext brings up     *)
(* nothing else until it is gone (presentNext, Widget.present).            *)
ReviewIsOpen == pending # None => offered

(* Every approved set is answered for: a report settles it in the end      *)
(* (#deliver, onChangeSet, applyChangeSet, #applyResult) - unless the      *)
(* review never opens again, see ReviewIsOpen.                             *)
ApprovedIsAnswered ==
    \A s \in ChangeSetIds :
       (Undisturbed /\ changeSets[s] # None /\ changeSets[s].status \in {"approved", "applying"})
          ~> \/ ~ReviewIsOpen
             \/ changeSets[s] # None /\ changeSets[s].status \in {"applied", "partial", "failed"}

(* A reversal that was asked for is answered for, also while a set waits   *)
(* for review (#rollback, onRollback, recordRollbackResult).               *)
RollbackIsAnswered ==
    \A j \in JournalIds :
       (Undisturbed /\ journals[j] # None /\ journals[j].requested) ~> (results[j] # None)

(* Both kinds of request are answered in the end: an approval and a        *)
(* reversal never keep each other from it (#applyResult,                   *)
(* recordRollbackResult).                                                  *)
EverythingIsAnswered == ApprovedIsAnswered /\ RollbackIsAnswered
=============================================================================
