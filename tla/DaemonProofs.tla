---------------------------- MODULE DaemonProofs ----------------------------
(***************************************************************************)
(* Theorems about the daemon, for any number of ChangeSets, links,         *)
(* journals and projects.                                                  *)
(***************************************************************************)
EXTENDS Daemon, TLAPS

(* A session key is held only for a link that is paired. *)
KeysArePaired == \A l \in keyring : links[l] \in Projects

TypeInv == TypeOK /\ KeysArePaired

(* #deliver keeps the table of ChangeSets well typed. *)
LEMMA DeliveredType ==
    ASSUME NEW sets \in [ChangeSetIds -> ChangeSet \cup {None}], NEW D
    PROVE  Delivered(sets, D) \in [ChangeSetIds -> ChangeSet \cup {None}]
<1>1. \A s \in ChangeSetIds : sets[s] # None =>
         [sets[s] EXCEPT !.status = "applying"] \in ChangeSet
  BY DEF ChangeSet, Statuses
<1> QED BY <1>1 DEF Delivered

(* Queueing a delivery keeps everything it touches well typed. *)
LEMMA EnqueueType ==
    ASSUME TypeOK, NEW l \in LinkIds, NEW payload \in Payload,
           NEW sets \in [ChangeSetIds -> ChangeSet \cup {None}],
           Enqueue(l, payload, sets)
    PROVE  /\ outNonce' \in [LinkIds -> Nat]
           /\ deliveries' \in SUBSET Delivery
           /\ trimmed' \in SUBSET ChangeSetIds
           /\ held' \in [LinkIds -> SUBSET Nat]
           /\ changeSets' \in [ChangeSetIds -> ChangeSet \cup {None}]
<1> DEFINE new == [link |-> l, nonce |-> outNonce[l] + 1, payload |-> payload]
<1>1. new \in Delivery
  BY DEF Delivery, TypeOK
<1>2. \A d \in deliveries : d.payload.kind = "changeset" => d.payload.set \in ChangeSetIds
  BY DEF Delivery, Payload, TypeOK
<1>3. outNonce' \in [LinkIds -> Nat]
  BY DEF Enqueue, TypeOK
<1>4. deliveries' \in SUBSET Delivery
  BY <1>1 DEF Enqueue, TypeOK
<1>5. trimmed' \in SUBSET ChangeSetIds
  BY <1>2 DEF Enqueue, TypeOK
<1>6. held' \in [LinkIds -> SUBSET Nat]
  BY DEF Enqueue, TypeOK
<1>7. changeSets' \in [ChangeSetIds -> ChangeSet \cup {None}]
  BY DeliveredType DEF Enqueue
<1> QED BY <1>3, <1>4, <1>5, <1>6, <1>7

(* Initially nothing is stored, so everything is well typed. *)
LEMMA TypeInit == Init => TypeInv
  BY DEF Init, TypeInv, TypeOK, KeysArePaired

(* The handlers keep the state well typed, for any numbers in a request:   *)
(* each lemma is one handler.                                              *)
LEMMA SubmitType ==
    ASSUME TypeInv, NEW s \in ChangeSetIds, NEW p \in Projects, NEW base \in Nat,
           NEW c \in Contents, SubmitChangeSet(s, p, base, c)
    PROVE  TypeInv'
  BY DEF TypeInv, TypeOK, KeysArePaired, SubmitChangeSet, ChangeSet, Statuses, history

(* Approve, with the delivery it queues. *)
LEMMA ApproveType ==
    ASSUME TypeInv, NEW s \in ChangeSetIds, NEW digest \in Contents,
           NEW confirm \in BOOLEAN, Approve(s, digest, confirm)
    PROVE  TypeInv'
<1> USE DEF TypeInv, TypeOK, KeysArePaired
<1> DEFINE set == changeSets[s]
           l == mostRecent[set.project]
           payload == ChangeSetPayload(s)
           sets == [changeSets EXCEPT ![s].status = "approved"]
<1>1. set \in ChangeSet
  BY DEF Approve
<1>2. l \in LinkIds
  BY <1>1 DEF Approve, Approvable, Reachable, ChangeSet
<1>3. payload \in Payload
  BY <1>1 DEF ChangeSetPayload, Payload, ChangeSet
<1>4. sets \in [ChangeSetIds -> ChangeSet \cup {None}]
  BY <1>1 DEF ChangeSet, Statuses
<1>5. Enqueue(l, payload, sets)
  BY DEF Approve
<1> HIDE DEF set, l, payload, sets
<1>6. /\ outNonce' \in [LinkIds -> Nat]
      /\ deliveries' \in SUBSET Delivery
      /\ trimmed' \in SUBSET ChangeSetIds
      /\ held' \in [LinkIds -> SUBSET Nat]
      /\ changeSets' \in [ChangeSetIds -> ChangeSet \cup {None}]
  BY <1>2, <1>3, <1>4, <1>5, EnqueueType
<1>7. approvedAs' \in [ChangeSetIds -> Contents \cup {None}]
  BY DEF Approve
<1> QED BY <1>6, <1>7 DEF Approve

(* RequestRollback, with the reversal it queues. *)
LEMMA RequestType ==
    ASSUME TypeInv, NEW j \in JournalIds, NEW v \in Nat, RequestRollback(j, v)
    PROVE  TypeInv'
<1> USE DEF TypeInv, TypeOK, KeysArePaired
<1> DEFINE l == mostRecent[journals[j].project]
           payload == RollbackPayload(j, v)
<1>1. journals[j] \in JournalRecord
  BY DEF RequestRollback
<1>2. l \in LinkIds
  BY <1>1 DEF RequestRollback, Reachable, JournalRecord
<1>3. payload \in Payload
  BY <1>1 DEF RequestRollback, RollbackPayload, Payload, JournalRecord
<1>4. Enqueue(l, payload, changeSets)
  BY DEF RequestRollback
<1>5. journals' \in [JournalIds -> JournalRecord \cup {None}]
  BY <1>1 DEF RequestRollback, JournalRecord
<1> HIDE DEF l, payload
<1>6. /\ outNonce' \in [LinkIds -> Nat]
      /\ deliveries' \in SUBSET Delivery
      /\ trimmed' \in SUBSET ChangeSetIds
      /\ held' \in [LinkIds -> SUBSET Nat]
      /\ changeSets' \in [ChangeSetIds -> ChangeSet \cup {None}]
  BY <1>2, <1>3, <1>4, EnqueueType
<1> QED BY <1>5, <1>6 DEF RequestRollback

(* Poll, which marks a set as delivered. *)
LEMMA PollType ==
    ASSUME TypeInv, NEW l \in LinkIds, NEW since \in Nat, Poll(l, since)
    PROVE  TypeInv'
<1> USE DEF TypeInv, TypeOK, KeysArePaired
<1>1. changeSets' \in [ChangeSetIds -> ChangeSet \cup {None}]
  BY DeliveredType DEF Poll
<1>2. held' \in [LinkIds -> SUBSET Nat]
  BY DEF Poll
<1>3. mostRecent' \in [Projects -> LinkIds \cup {None}]
  BY DEF Poll
<1> QED BY <1>1, <1>2, <1>3 DEF Poll, history

(* The watermark of a link and the time it was last seen. *)
LEMMA ReportedType ==
    ASSUME TypeInv, NEW l \in LinkIds, NEW n \in Nat, ClaimNonce(l, n)
    PROVE  /\ inNonce' \in [LinkIds -> Nat]
           /\ PatchLastSeen(l) => mostRecent' \in [Projects -> LinkIds \cup {None}]
  BY DEF TypeInv, TypeOK, KeysArePaired, ClaimNonce, PatchLastSeen

(* ApplyResult, accepted or not. *)
LEMMA ApplyResultType ==
    ASSUME TypeInv, NEW l \in LinkIds, NEW n \in Nat, NEW s \in ChangeSetIds,
           NEW j \in JournalIds, NEW ok \in Nat, NEW failed \in Nat, NEW v \in Nat,
           ApplyResult(l, n, s, j, ok, failed, v)
    PROVE  TypeInv'
<1> USE DEF TypeInv, TypeOK, KeysArePaired, history
<1>1. /\ inNonce' \in [LinkIds -> Nat]
      /\ PatchLastSeen(l) => mostRecent' \in [Projects -> LinkIds \cup {None}]
  BY ReportedType DEF ApplyResult
<1>2. CASE ApplyResultAccepted(l, s, j, v)
  <2>1. changeSets[s] \in ChangeSet /\ changeSets[s].project \in Projects
    BY <1>2 DEF ApplyResultAccepted, ChangeSet
  <2>2. changeSets' \in [ChangeSetIds -> ChangeSet \cup {None}]
    BY <1>2, <2>1 DEF ApplyResult, ApplyStatus, ChangeSet, Statuses
  <2>3. version' \in [Projects -> Nat]
    BY <1>2, <2>1 DEF ApplyResult
  <2>4. journals' \in [JournalIds -> JournalRecord \cup {None}]
    <3> DEFINE project == changeSets[s].project
               record == [set |-> s, project |-> project, before |-> version[project],
                          after |-> v, requested |-> FALSE, rolledBack |-> FALSE]
    <3>1. record \in JournalRecord
      BY <2>1 DEF JournalRecord
    <3>2. journals' = [journals EXCEPT ![j] = record]
      BY <1>2 DEF ApplyResult
    <3> QED BY <3>1, <3>2
  <2>5. mostRecent' \in [Projects -> LinkIds \cup {None}]
    BY <1>1, <1>2 DEF ApplyResult
  <2> QED BY <1>1, <2>2, <2>3, <2>4, <2>5 DEF ApplyResult
<1>3. CASE ~ApplyResultAccepted(l, s, j, v)
  BY <1>1, <1>3 DEF ApplyResult
<1> QED BY <1>2, <1>3

(* JournalEntry, which stores inverses at most. *)
LEMMA JournalEntryType ==
    ASSUME TypeInv, NEW l \in LinkIds, NEW nonce \in Nat, NEW j \in JournalIds,
           NEW s \in ChangeSetIds, NEW before \in Nat, NEW after \in Nat, NEW n \in Nat,
           JournalEntry(l, nonce, j, s, before, after, n)
    PROVE  TypeInv'
<1>1. inNonce' \in [LinkIds -> Nat]
  BY ReportedType DEF JournalEntry
<1> QED BY <1>1 DEF JournalEntry, TypeInv, TypeOK, KeysArePaired, history

(* ReportRollback, accepted or not. *)
LEMMA ReportRollbackType ==
    ASSUME TypeInv, NEW l \in LinkIds, NEW n \in Nat, NEW j \in JournalIds,
           NEW s \in ChangeSetIds, NEW o \in RollbackResult, NEW v \in Nat,
           ReportRollback(l, n, j, s, o, v)
    PROVE  TypeInv'
<1> USE DEF TypeInv, TypeOK, KeysArePaired, history
<1>1. /\ inNonce' \in [LinkIds -> Nat]
      /\ PatchLastSeen(l) => mostRecent' \in [Projects -> LinkIds \cup {None}]
  BY ReportedType DEF ReportRollback
<1>2. CASE RollbackResultAccepted(l, j, s, o)
  <2>1. journals[j] \in JournalRecord /\ journals[j].project \in Projects
    BY <1>2 DEF RollbackResultAccepted, JournalRecord
  <2>2. results' \in [JournalIds -> RollbackResult \cup {None}]
    BY <1>2 DEF ReportRollback
  <2>3. version' \in [Projects -> Nat]
    BY <1>2, <2>1 DEF ReportRollback
  <2>4. journals' \in [JournalIds -> JournalRecord \cup {None}]
    <3> DEFINE complete == RollbackStatus(o, entries[j]) = "rolled_back"
    <3>1. complete \in BOOLEAN
      OBVIOUS
    <3>2. journals' = [journals EXCEPT ![j].rolledBack = complete]
      BY <1>2 DEF ReportRollback
    <3> HIDE DEF complete
    <3> QED BY <2>1, <3>1, <3>2 DEF JournalRecord
  <2>5. mostRecent' \in [Projects -> LinkIds \cup {None}]
    BY <1>1, <1>2 DEF ReportRollback
  <2> QED BY <1>1, <2>2, <2>3, <2>4, <2>5 DEF ReportRollback
<1>3. CASE ~RollbackResultAccepted(l, j, s, o)
  BY <1>1, <1>3 DEF ReportRollback
<1> QED BY <1>2, <1>3

(* Restart, which keeps the store or empties it. *)
LEMMA RestartType == TypeInv /\ Restart => TypeInv'
  BY DEF TypeInv, TypeOK, KeysArePaired, Restart, StoreEmptied, store, history

(* Pair, which gives a link its project and its key. *)
LEMMA PairType ==
    ASSUME TypeInv, NEW l \in LinkIds, NEW p \in Projects, Pair(l, p)
    PROVE  TypeInv'
  BY DEF TypeInv, TypeOK, KeysArePaired, Pair, history

(* Every handler keeps the state well typed. *)
LEMMA TypeStep == TypeInv /\ [Next]_vars => TypeInv'
<1> SUFFICES ASSUME TypeInv, [Next]_vars
             PROVE  TypeInv'
  OBVIOUS
<1>0. Versions \subseteq Nat /\ Nonces \subseteq Nat /\ Cursors \subseteq Nat
  BY BoundsAssumption DEF Versions, Nonces, Cursors
<1>1. ASSUME NEW s \in ChangeSetIds, NEW p \in Projects, NEW base \in Versions,
             NEW c \in Contents, SubmitChangeSet(s, p, base, c)
      PROVE  TypeInv'
  BY <1>0, <1>1, SubmitType
<1>2. ASSUME NEW p \in Projects, StartRun(p)
      PROVE  TypeInv'
  BY <1>2 DEF StartRun, TypeInv, TypeOK, KeysArePaired, store, history
<1>3. ASSUME NEW run \in running, NEW s \in ChangeSetIds, NEW c \in Contents,
             NEW failure \in BOOLEAN, SettleRun(run, s, c, failure)
      PROVE  TypeInv'
  <2>1. run[1] \in Projects /\ run[2] \in Nat
    BY DEF TypeInv, TypeOK
  <2> QED BY <1>3, <2>1
          DEF SettleRun, ChangeSet, Statuses, TypeInv, TypeOK, KeysArePaired, store, history
<1>4. ASSUME NEW run \in running, SettleRunWithoutSet(run)
      PROVE  TypeInv'
  BY <1>4 DEF SettleRunWithoutSet, TypeInv, TypeOK, KeysArePaired, store, history
<1>5. ASSUME NEW s \in ChangeSetIds, NEW digest \in Contents,
             NEW confirm \in BOOLEAN, Approve(s, digest, confirm)
      PROVE  TypeInv'
  BY <1>5, ApproveType
<1>6. ASSUME NEW j \in JournalIds, NEW v \in Versions, RequestRollback(j, v)
      PROVE  TypeInv'
  BY <1>0, <1>6, RequestType
<1>7. ASSUME NEW l \in LinkIds, NEW p \in Projects, Pair(l, p)
      PROVE  TypeInv'
  BY <1>7, PairType
<1>8. ASSUME NEW l \in LinkIds, NEW since \in Cursors, Poll(l, since)
      PROVE  TypeInv'
  BY <1>0, <1>8, PollType
<1>9. ASSUME NEW l \in LinkIds, NEW since \in Cursors, HeldPollEnds(l, since)
      PROVE  TypeInv'
  BY <1>9 DEF HeldPollEnds, TypeInv, TypeOK, KeysArePaired, store, history
<1>10. ASSUME NEW l \in LinkIds, NEW n \in Nonces, NEW s \in ChangeSetIds,
              NEW j \in JournalIds, NEW o \in Outcomes, NEW v \in Versions,
              ApplyResult(l, n, s, j, o.ok, o.failed, v)
       PROVE  TypeInv'
  <2>1. o.ok \in Nat /\ o.failed \in Nat
    BY DEF Outcomes
  <2> QED BY <1>0, <1>10, <2>1, ApplyResultType
<1>11. ASSUME NEW l \in LinkIds, NEW nonce \in Nonces, NEW j \in JournalIds,
              NEW s \in ChangeSetIds, NEW before \in Versions, NEW after \in Versions,
              NEW n \in 1..2, JournalEntry(l, nonce, j, s, before, after, n)
       PROVE  TypeInv'
  <2>1. n \in Nat
    OBVIOUS
  <2> QED BY <1>0, <1>11, <2>1, JournalEntryType
<1>12. ASSUME NEW l \in LinkIds, NEW n \in Nonces, Output(l, n)
       PROVE  TypeInv'
  <2>1. inNonce' \in [LinkIds -> Nat]
    BY <1>0, <1>12, ReportedType DEF Output
  <2> QED BY <1>12, <2>1 DEF Output, TypeInv, TypeOK, KeysArePaired, history
<1>13. ASSUME NEW l \in LinkIds, NEW n \in Nonces, NEW j \in JournalIds,
              NEW s \in ChangeSetIds, NEW o \in Outcomes, NEW v \in Versions,
              ReportRollback(l, n, j, s, o, v)
       PROVE  TypeInv'
  <2>1. o \in RollbackResult
    BY DEF Outcomes, RollbackResult
  <2> QED BY <1>0, <1>13, <2>1, ReportRollbackType
<1>14. ASSUME Restart
       PROVE  TypeInv'
  BY <1>14, RestartType
<1>15. ASSUME UNCHANGED vars
       PROVE  TypeInv'
  BY <1>15 DEF vars, TypeInv, TypeOK, KeysArePaired, store, history
<1> QED
  BY <1>1, <1>2, <1>3, <1>4, <1>5, <1>6, <1>7, <1>8, <1>9, <1>10, <1>11, <1>12,
     <1>13, <1>14, <1>15 DEF Next, Producer, Consumer

(* Every reachable state of the daemon is well typed: no handler, in any   *)
(* order of requests, reports and restarts, stores a value its reader does *)
(* not expect.                                                             *)
THEOREM DaemonTypeOK == Spec => []TypeOK
<1>1. TypeInv => TypeOK
  BY DEF TypeInv
<1> QED BY <1>1, TypeInit, TypeStep, PTL DEF Spec

-----------------------------------------------------------------------------
(* What #deliver does to one ChangeSet. *)
LEMMA DeliveredFact ==
    ASSUME NEW sets \in [ChangeSetIds -> ChangeSet \cup {None}], NEW D,
           NEW s \in ChangeSetIds
    PROVE  \/ Delivered(sets, D)[s] = sets[s]
           \/ /\ sets[s] \in ChangeSet
              /\ \E d \in D : d.payload.kind = "changeset" /\ d.payload.set = s
              /\ Delivered(sets, D)[s] \in ChangeSet
              /\ Delivered(sets, D)[s].status = "applying"
              /\ Delivered(sets, D)[s].content = sets[s].content
              /\ Delivered(sets, D)[s].project = sets[s].project
              /\ Delivered(sets, D)[s].base = sets[s].base
  BY DEF Delivered, ChangeSet, Statuses

(* What #enqueue and #wake do to the queues and to one ChangeSet. *)
LEMMA EnqueueFact ==
    ASSUME NEW l \in LinkIds, NEW payload \in Payload,
           NEW sets \in [ChangeSetIds -> ChangeSet \cup {None}],
           Enqueue(l, payload, sets)
    PROVE  /\ \A d \in deliveries' :
                 d \in deliveries \/ d.payload = payload
           /\ \A s \in ChangeSetIds :
                 \/ changeSets'[s] = sets[s]
                 \/ /\ payload.kind = "changeset" /\ payload.set = s
                    /\ sets[s] \in ChangeSet
                    /\ changeSets'[s] \in ChangeSet
                    /\ changeSets'[s].status = "applying"
                    /\ changeSets'[s].content = sets[s].content
                    /\ changeSets'[s].project = sets[s].project
                    /\ changeSets'[s].base = sets[s].base
<1> DEFINE new == [link |-> l, nonce |-> outNonce[l] + 1, payload |-> payload]
<1>1. deliveries' \subseteq deliveries \cup {new} /\ new.payload = payload
  BY DEF Enqueue
<1>2. changeSets' = sets \/ changeSets' = Delivered(sets, {new})
  BY DEF Enqueue
<1> HIDE DEF new
<1>3. ASSUME NEW s \in ChangeSetIds, changeSets' = Delivered(sets, {new})
      PROVE  \/ changeSets'[s] = sets[s]
             \/ /\ payload.kind = "changeset" /\ payload.set = s
                /\ sets[s] \in ChangeSet
                /\ changeSets'[s] \in ChangeSet
                /\ changeSets'[s].status = "applying"
                /\ changeSets'[s].content = sets[s].content
                /\ changeSets'[s].project = sets[s].project
                /\ changeSets'[s].base = sets[s].base
  BY <1>1, <1>3, DeliveredFact
<1> QED BY <1>1, <1>2, <1>3

-----------------------------------------------------------------------------
(* An approval is for good: a set whose approver is on record is stored,   *)
(* is past the gate and still has the content that was read.  This is what *)
(* OnlyReviewedContentLeaves lacks to be inductive: a redelivery moves the *)
(* set of an old delivery to `applying', whatever became of it since.      *)
ApprovedForGood ==
    \A s \in ChangeSetIds : approvedAs[s] # None =>
       /\ changeSets[s] # None
       /\ changeSets[s].status \in Cleared
       /\ changeSets[s].content = approvedAs[s]

ReviewInv == OnlyReviewedContentLeaves /\ ApprovedForGood

(* Initially nothing is approved or queued. *)
LEMMA ReviewInit == Init => ReviewInv
  BY DEF Init, ReviewInv, OnlyReviewedContentLeaves, ApprovedForGood

(* No handler lets unreviewed content into a queue. *)
LEMMA ReviewStep == TypeInv /\ ReviewInv /\ [Next]_vars => ReviewInv'
<1> SUFFICES ASSUME TypeInv, ReviewInv, [Next]_vars
             PROVE  ReviewInv'
  OBVIOUS
<1> USE DEF TypeInv, TypeOK
<1>1. ASSUME UNCHANGED <<changeSets, deliveries, approvedAs>>
      PROVE  ReviewInv'
  BY <1>1 DEF ReviewInv, OnlyReviewedContentLeaves, ApprovedForGood
<1>2. ASSUME NEW s \in ChangeSetIds, NEW set \in ChangeSet, set.status \notin Cleared,
             changeSets[s] = None, changeSets' = [changeSets EXCEPT ![s] = set],
             UNCHANGED <<deliveries, approvedAs>>
      PROVE  ReviewInv'
  BY <1>2 DEF ReviewInv, OnlyReviewedContentLeaves, ApprovedForGood
<1>3. ASSUME NEW s \in ChangeSetIds, NEW p \in Projects, NEW base \in Versions,
             NEW c \in Contents, SubmitChangeSet(s, p, base, c)
      PROVE  ReviewInv'
  <2> DEFINE set == [project |-> p, base |-> base, content |-> c, status |-> "validated"]
  <2>1. set \in ChangeSet /\ set.status \notin Cleared
    BY BoundsAssumption DEF ChangeSet, Statuses, Cleared, Versions
  <2> QED BY <1>2, <1>3, <2>1 DEF SubmitChangeSet, history
<1>4. ASSUME NEW run \in running, NEW s \in ChangeSetIds, NEW c \in Contents,
             NEW failure \in BOOLEAN, SettleRun(run, s, c, failure)
      PROVE  ReviewInv'
  <2> DEFINE status == IF version[run[1]] # run[2] THEN "stale"
                       ELSE IF ~c.clears \/ failure THEN "rejected" ELSE "validated"
             set == [project |-> run[1], base |-> run[2], content |-> c, status |-> status]
  <2>1. run[1] \in Projects /\ run[2] \in Nat
    OBVIOUS
  <2>2. set \in ChangeSet /\ set.status \notin Cleared
    BY <2>1 DEF ChangeSet, Statuses, Cleared
  <2>3. changeSets' = [changeSets EXCEPT ![s] = set]
    BY <1>4 DEF SettleRun
  <2> QED BY <1>2, <1>4, <2>2, <2>3 DEF SettleRun, history
<1>5. ASSUME NEW s \in ChangeSetIds, NEW digest \in Contents,
             NEW confirm \in BOOLEAN, Approve(s, digest, confirm)
      PROVE  ReviewInv'
  <2> DEFINE l == mostRecent[changeSets[s].project]
             payload == ChangeSetPayload(s)
             sets == [changeSets EXCEPT ![s].status = "approved"]
  <2>1. /\ changeSets[s] \in ChangeSet
        /\ changeSets[s].content = digest
        /\ digest.clears
    BY <1>5 DEF Approve, Approvable
  <2>2. l \in LinkIds
    BY <1>5, <2>1 DEF Approve, Approvable, Reachable, ChangeSet
  <2>3. payload \in Payload /\ payload.set = s /\ payload.content = digest
    BY <2>1 DEF ChangeSetPayload, Payload, ChangeSet
  <2>4. /\ sets \in [ChangeSetIds -> ChangeSet \cup {None}]
        /\ \A t \in ChangeSetIds \ {s} : sets[t] = changeSets[t]
        /\ sets[s] \in ChangeSet
        /\ sets[s].status = "approved"
        /\ sets[s].content = digest
    BY <2>1 DEF ChangeSet, Statuses
  <2>5. Enqueue(l, payload, sets)
    BY <1>5 DEF Approve
  <2>6. approvedAs' = [approvedAs EXCEPT ![s] = digest]
    BY <1>5 DEF Approve
  <2> HIDE DEF l, payload, sets
  <2>7. /\ \A d \in deliveries' : d \in deliveries \/ d.payload = payload
        /\ \A t \in ChangeSetIds :
              \/ changeSets'[t] = sets[t]
              \/ /\ payload.set = t
                 /\ changeSets'[t] \in ChangeSet
                 /\ changeSets'[t].status = "applying"
                 /\ changeSets'[t].content = sets[t].content
    BY <2>2, <2>3, <2>4, <2>5, EnqueueFact
  <2>8. /\ changeSets'[s] \in ChangeSet
        /\ changeSets'[s].status \in Cleared
        /\ changeSets'[s].content = digest
        /\ \A t \in ChangeSetIds \ {s} : changeSets'[t] = changeSets[t]
    BY <2>3, <2>4, <2>7 DEF Cleared
  <2>9. ApprovedForGood'
    BY <2>6, <2>8, NoneAssumption DEF ReviewInv, ApprovedForGood
  <2>10. ASSUME NEW d \in deliveries', d.payload.kind = "changeset"
         PROVE  approvedAs'[d.payload.set] = d.payload.content /\ d.payload.content.clears
    <3>1. CASE d \in deliveries
      <4>1. d.payload.set \in ChangeSetIds /\ d.payload.content \in Contents
        BY <2>10, <3>1 DEF Delivery, Payload
      <4>2. approvedAs[d.payload.set] = d.payload.content /\ d.payload.content.clears
        BY <2>10, <3>1 DEF ReviewInv, OnlyReviewedContentLeaves
      <4>3. changeSets[d.payload.set].content = d.payload.content
        BY <4>1, <4>2, NoneAssumption DEF ReviewInv, ApprovedForGood
      <4> QED BY <2>1, <2>6, <4>1, <4>2, <4>3
    <3>2. CASE d.payload = payload
      BY <2>1, <2>3, <2>6, <3>2
    <3> QED BY <2>7, <3>1, <3>2
  <2>11. \A t \in ChangeSetIds :
            changeSets'[t] # None /\ changeSets'[t].status \in Cleared =>
               approvedAs'[t] = changeSets'[t].content
    BY <2>6, <2>8 DEF ReviewInv, OnlyReviewedContentLeaves
  <2> QED BY <2>9, <2>10, <2>11 DEF ReviewInv, OnlyReviewedContentLeaves
<1>6. ASSUME NEW j \in JournalIds, NEW v \in Versions, RequestRollback(j, v)
      PROVE  ReviewInv'
  <2> DEFINE l == mostRecent[journals[j].project]
             payload == RollbackPayload(j, v)
  <2>1. journals[j] \in JournalRecord
    BY <1>6 DEF RequestRollback
  <2>2. l \in LinkIds
    BY <1>6, <2>1 DEF RequestRollback, Reachable, JournalRecord
  <2>3. payload \in Payload /\ payload.kind = "rollback"
    BY <1>6, <2>1, BoundsAssumption DEF RequestRollback, RollbackPayload, Payload, JournalRecord, Versions
  <2>4. Enqueue(l, payload, changeSets) /\ UNCHANGED approvedAs
    BY <1>6 DEF RequestRollback
  <2> HIDE DEF l, payload
  <2>5. /\ \A d \in deliveries' : d \in deliveries \/ d.payload.kind = "rollback"
        /\ \A t \in ChangeSetIds : changeSets'[t] = changeSets[t]
    BY <2>2, <2>3, <2>4, EnqueueFact
  <2> QED BY <2>4, <2>5 DEF ReviewInv, OnlyReviewedContentLeaves, ApprovedForGood
<1>7. ASSUME NEW l \in LinkIds, NEW since \in Cursors, Poll(l, since)
      PROVE  ReviewInv'
  <2> DEFINE next == NextDelivery(l, since)
  <2>1. CASE next = {}
    BY <1>1, <1>7, <2>1 DEF Poll, history
  <2>2. CASE next # {}
    <3>1. /\ changeSets' = Delivered(changeSets, next)
          /\ UNCHANGED <<deliveries, approvedAs>>
      BY <1>7, <2>2 DEF Poll, history
    <3>2. next \subseteq deliveries
      BY DEF NextDelivery
    <3> HIDE DEF next
    <3>3. ASSUME NEW s \in ChangeSetIds
          PROVE  \/ changeSets'[s] = changeSets[s]
                 \/ /\ changeSets'[s] \in ChangeSet
                    /\ changeSets'[s].status = "applying"
                    /\ approvedAs[s] \in Contents
                    /\ changeSets'[s].content = approvedAs[s]
      <4> SUFFICES ASSUME changeSets'[s] # changeSets[s]
                   PROVE  /\ changeSets'[s] \in ChangeSet
                          /\ changeSets'[s].status = "applying"
                          /\ approvedAs[s] \in Contents
                          /\ changeSets'[s].content = approvedAs[s]
        OBVIOUS
      <4>1. /\ \E d \in next : d.payload.kind = "changeset" /\ d.payload.set = s
            /\ changeSets'[s] \in ChangeSet
            /\ changeSets'[s].status = "applying"
            /\ changeSets'[s].content = changeSets[s].content
        BY <3>1, DeliveredFact
      <4>2. PICK d \in deliveries : d.payload.kind = "changeset" /\ d.payload.set = s
        BY <3>2, <4>1
      <4>3. d.payload.content \in Contents /\ approvedAs[s] = d.payload.content
        BY <4>2 DEF Delivery, Payload, ReviewInv, OnlyReviewedContentLeaves
      <4>4. changeSets[s].content = approvedAs[s]
        BY <4>3, NoneAssumption DEF ReviewInv, ApprovedForGood
      <4> QED BY <4>1, <4>3, <4>4
    <3> QED BY <3>1, <3>3, NoneAssumption
            DEF ReviewInv, OnlyReviewedContentLeaves, ApprovedForGood, Cleared
  <2> QED BY <2>1, <2>2
<1>8. ASSUME NEW l \in LinkIds, NEW n \in Nonces, NEW s \in ChangeSetIds,
             NEW j \in JournalIds, NEW o \in Outcomes, NEW v \in Versions,
             ApplyResult(l, n, s, j, o.ok, o.failed, v)
      PROVE  ReviewInv'
  <2>1. CASE ApplyResultAccepted(l, s, j, v)
    <3>1. /\ changeSets[s] \in ChangeSet /\ changeSets[s].status \in Cleared
          /\ ApplyStatus(o.ok, o.failed) \in Cleared
      BY <2>1 DEF ApplyResultAccepted, Cleared, ApplyStatus
    <3>2. /\ changeSets'[s].status \in Cleared
          /\ changeSets'[s].content = changeSets[s].content
          /\ \A t \in ChangeSetIds \ {s} : changeSets'[t] = changeSets[t]
          /\ changeSets'[s] \in ChangeSet
      BY <1>8, <2>1, <3>1 DEF ApplyResult, ChangeSet, Cleared, Statuses
    <3>3. UNCHANGED <<deliveries, approvedAs>>
      BY <1>8 DEF ApplyResult, history
    <3>4. approvedAs[s] = changeSets[s].content
      BY <3>1, NoneAssumption DEF ReviewInv, OnlyReviewedContentLeaves
    <3>5. OnlyReviewedContentLeaves'
      BY <3>2, <3>3, <3>4 DEF ReviewInv, OnlyReviewedContentLeaves
    <3>6. ApprovedForGood'
      BY <3>1, <3>2, <3>3, <3>4, NoneAssumption DEF ReviewInv, ApprovedForGood
    <3> QED BY <3>5, <3>6 DEF ReviewInv
  <2>2. CASE ~ApplyResultAccepted(l, s, j, v)
    BY <1>1, <1>8, <2>2 DEF ApplyResult, history
  <2> QED BY <2>1, <2>2
<1>9. ASSUME Restart
      PROVE  ReviewInv'
  <2>1. CASE Durable
    BY <1>1, <1>9, <2>1 DEF Restart, store, history
  <2>2. CASE ~Durable
    BY <1>9, <2>2 DEF Restart, StoreEmptied, ReviewInv, OnlyReviewedContentLeaves, ApprovedForGood
  <2> QED BY <2>1, <2>2
<1>10. ASSUME UNCHANGED vars
       PROVE  ReviewInv'
  BY <1>1, <1>10 DEF vars, store, history
<1>11. ASSUME \/ \E p \in Projects : StartRun(p)
              \/ \E run \in running : SettleRunWithoutSet(run)
              \/ \E l \in LinkIds, p \in Projects : Pair(l, p)
              \/ \E l \in LinkIds, since \in Cursors : HeldPollEnds(l, since)
              \/ \E l \in LinkIds, n \in Nonces : Output(l, n)
              \/ \E l \in LinkIds, nonce \in Nonces, j \in JournalIds,
                    s \in ChangeSetIds, before \in Versions, after \in Versions,
                    n \in 1..2 : JournalEntry(l, nonce, j, s, before, after, n)
              \/ \E l \in LinkIds, n \in Nonces, j \in JournalIds,
                    s \in ChangeSetIds, o \in Outcomes, v \in Versions :
                    ReportRollback(l, n, j, s, o, v)
       PROVE  ReviewInv'
  BY <1>1, <1>11 DEF StartRun, SettleRunWithoutSet, Pair, HeldPollEnds, Output,
       JournalEntry, ReportRollback, store, history
<1> QED
  BY <1>3, <1>4, <1>5, <1>6, <1>7, <1>8, <1>9, <1>10, <1>11
     DEF Next, Producer, Consumer

(* No operation leaves for Studio but the ones a person approved: whatever *)
(* a producer submits, however runs settle and however often deliveries    *)
(* are redelivered, what the queues hold is what an approver's digest      *)
(* named (#submitChangeSet, #settleRun, #approve, #deliver).               *)
THEOREM DaemonOnlyReviewedContentLeaves == Spec => []OnlyReviewedContentLeaves
<1>1. ReviewInv => OnlyReviewedContentLeaves
  BY DEF ReviewInv
<1> QED BY <1>1, TypeInit, TypeStep, ReviewInit, ReviewStep, PTL DEF Spec

-----------------------------------------------------------------------------
(* Unless an in-memory store is lost, no ChangeSet is dropped or moved to  *)
(* another project and no approval is taken back or changed.               *)
SetsKept ==
    \A s \in ChangeSetIds :
       /\ changeSets[s] # None =>
             /\ changeSets'[s] # None
             /\ changeSets'[s].project = changeSets[s].project
       /\ approvedAs[s] # None => approvedAs'[s] = approvedAs[s]

(* No handler but a restart that loses the store drops a stored set,       *)
(* moves it to another project or withdraws its approval.                  *)
LEMMA SetsKeptStep ==
    ASSUME TypeInv, ReviewInv, [Next]_vars
    PROVE  SetsKept \/ (~Durable /\ Restart)
<1> USE DEF TypeInv, TypeOK
<1>1. ASSUME UNCHANGED <<changeSets, approvedAs>>
      PROVE  SetsKept
  BY <1>1 DEF SetsKept
<1>2. ASSUME NEW s \in ChangeSetIds, changeSets[s] = None, UNCHANGED approvedAs,
             \A t \in ChangeSetIds \ {s} : changeSets'[t] = changeSets[t]
      PROVE  SetsKept
  BY <1>2 DEF SetsKept
<1>3. ASSUME NEW s \in ChangeSetIds, NEW p \in Projects, NEW base \in Versions,
             NEW c \in Contents, SubmitChangeSet(s, p, base, c)
      PROVE  SetsKept
  BY <1>2, <1>3 DEF SubmitChangeSet, history
<1>4. ASSUME NEW run \in running, NEW s \in ChangeSetIds, NEW c \in Contents,
             NEW failure \in BOOLEAN, SettleRun(run, s, c, failure)
      PROVE  SetsKept
  BY <1>2, <1>4 DEF SettleRun, history
<1>5. ASSUME NEW s \in ChangeSetIds, NEW digest \in Contents,
             NEW confirm \in BOOLEAN, Approve(s, digest, confirm)
      PROVE  SetsKept
  <2> DEFINE l == mostRecent[changeSets[s].project]
             payload == ChangeSetPayload(s)
             sets == [changeSets EXCEPT ![s].status = "approved"]
  <2>1. /\ changeSets[s] \in ChangeSet
        /\ changeSets[s].status \notin Cleared
    BY <1>5 DEF Approve, Approvable, Cleared
  <2>2. l \in LinkIds
    BY <1>5, <2>1 DEF Approve, Approvable, Reachable, ChangeSet
  <2>3. payload \in Payload
    BY <2>1 DEF ChangeSetPayload, Payload, ChangeSet
  <2>4. /\ sets \in [ChangeSetIds -> ChangeSet \cup {None}]
        /\ sets[s] \in ChangeSet
        /\ sets[s].project = changeSets[s].project
        /\ \A t \in ChangeSetIds \ {s} : sets[t] = changeSets[t]
    BY <2>1 DEF ChangeSet, Statuses
  <2>5. Enqueue(l, payload, sets) /\ approvedAs' = [approvedAs EXCEPT ![s] = digest]
    BY <1>5 DEF Approve
  <2> HIDE DEF l, payload, sets
  <2>6. approvedAs[s] = None
    BY <2>1 DEF ReviewInv, ApprovedForGood
  <2>7. \A t \in ChangeSetIds :
           \/ changeSets'[t] = sets[t]
           \/ /\ changeSets'[t] \in ChangeSet
              /\ changeSets'[t].project = sets[t].project
    BY <2>2, <2>3, <2>4, <2>5, EnqueueFact
  <2>8. \A t \in ChangeSetIds : changeSets[t] # None =>
           changeSets'[t] # None /\ changeSets'[t].project = changeSets[t].project
    BY <2>4, <2>7, NoneAssumption
  <2> QED BY <2>5, <2>6, <2>8 DEF SetsKept
<1>6. ASSUME NEW j \in JournalIds, NEW v \in Versions, RequestRollback(j, v)
      PROVE  SetsKept
  <2>1. journals[j] \in JournalRecord
    BY <1>6 DEF RequestRollback
  <2>2. mostRecent[journals[j].project] \in LinkIds
    BY <1>6, <2>1 DEF RequestRollback, Reachable, JournalRecord
  <2>3. RollbackPayload(j, v) \in Payload
    BY <1>6, <2>1, BoundsAssumption DEF RequestRollback, RollbackPayload, Payload, JournalRecord, Versions
  <2>4. /\ Enqueue(mostRecent[journals[j].project], RollbackPayload(j, v), changeSets)
        /\ UNCHANGED approvedAs
    BY <1>6 DEF RequestRollback
  <2>5. RollbackPayload(j, v).kind = "rollback"
    BY DEF RollbackPayload
  <2>6. \A t \in ChangeSetIds : changeSets'[t] = changeSets[t]
    BY <2>2, <2>3, <2>4, <2>5, EnqueueFact
  <2> QED BY <2>4, <2>6 DEF SetsKept
<1>7. ASSUME NEW l \in LinkIds, NEW since \in Cursors, Poll(l, since)
      PROVE  SetsKept
  <2>1. /\ UNCHANGED approvedAs
        /\ UNCHANGED changeSets \/ changeSets' = Delivered(changeSets, NextDelivery(l, since))
    BY <1>7 DEF Poll, history
  <2>2. \A t \in ChangeSetIds :
           \/ changeSets'[t] = changeSets[t]
           \/ /\ changeSets'[t] \in ChangeSet
              /\ changeSets'[t].project = changeSets[t].project
    BY <2>1, DeliveredFact
  <2> QED BY <2>1, <2>2, NoneAssumption DEF SetsKept
<1>8. ASSUME NEW l \in LinkIds, NEW n \in Nonces, NEW s \in ChangeSetIds,
             NEW j \in JournalIds, NEW o \in Outcomes, NEW v \in Versions,
             ApplyResult(l, n, s, j, o.ok, o.failed, v)
      PROVE  SetsKept
  <2>1. CASE ApplyResultAccepted(l, s, j, v)
    <3>1. changeSets[s] \in ChangeSet
      BY <2>1 DEF ApplyResultAccepted
    <3>2. /\ changeSets'[s] \in ChangeSet
          /\ changeSets'[s].project = changeSets[s].project
          /\ \A t \in ChangeSetIds \ {s} : changeSets'[t] = changeSets[t]
      BY <1>8, <2>1, <3>1 DEF ApplyResult, ChangeSet, ApplyStatus, Statuses
    <3>3. UNCHANGED approvedAs
      BY <1>8 DEF ApplyResult, history
    <3> QED BY <3>2, <3>3, NoneAssumption DEF SetsKept
  <2>2. CASE ~ApplyResultAccepted(l, s, j, v)
    BY <1>1, <1>8, <2>2 DEF ApplyResult, history
  <2> QED BY <2>1, <2>2
<1>9. ASSUME Restart, Durable
      PROVE  SetsKept
  BY <1>1, <1>9 DEF Restart, store, history
<1>10. ASSUME UNCHANGED vars
       PROVE  SetsKept
  BY <1>1, <1>10 DEF vars, store, history
<1>11. ASSUME \/ \E p \in Projects : StartRun(p)
              \/ \E run \in running : SettleRunWithoutSet(run)
              \/ \E l \in LinkIds, p \in Projects : Pair(l, p)
              \/ \E l \in LinkIds, since \in Cursors : HeldPollEnds(l, since)
              \/ \E l \in LinkIds, n \in Nonces : Output(l, n)
              \/ \E l \in LinkIds, nonce \in Nonces, j \in JournalIds,
                    s \in ChangeSetIds, before \in Versions, after \in Versions,
                    n \in 1..2 : JournalEntry(l, nonce, j, s, before, after, n)
              \/ \E l \in LinkIds, n \in Nonces, j \in JournalIds,
                    s \in ChangeSetIds, o \in Outcomes, v \in Versions :
                    ReportRollback(l, n, j, s, o, v)
       PROVE  SetsKept
  BY <1>1, <1>11 DEF StartRun, SettleRunWithoutSet, Pair, HeldPollEnds, Output,
       JournalEntry, ReportRollback, store, history
<1> QED
  BY <1>3, <1>4, <1>5, <1>6, <1>7, <1>8, <1>9, <1>10, <1>11, DurableAssumption
     DEF Next, Producer, Consumer

-----------------------------------------------------------------------------
(* A report is on record only for an apply on record. *)
ResultsHaveJournals == \A j \in JournalIds : results[j] # None => journals[j] # None

JournalInv ==
    /\ JournalOfApprovedWork
    /\ ResultsHaveJournals
    /\ StampedMeansReversed
    /\ DispatchedRollbackIsOnRecord

(* Initially there are no journals. *)
LEMMA JournalInit == Init => JournalInv
  BY DEF Init, JournalInv, JournalOfApprovedWork, ResultsHaveJournals,
         StampedMeansReversed, DispatchedRollbackIsOnRecord

(* The rollback deliveries a step adds to the queues. *)
NewRollbacks == {d \in deliveries' : d.payload.kind = "rollback"} \ deliveries

(* Every handler keeps the journals, their inverses and the queued         *)
(* reversals in agreement.                                                 *)
LEMMA JournalStep == TypeInv /\ ReviewInv /\ JournalInv /\ [Next]_vars => JournalInv'
<1> SUFFICES ASSUME TypeInv, ReviewInv, JournalInv, [Next]_vars
             PROVE  JournalInv'
  OBVIOUS
<1> USE DEF TypeInv, TypeOK
<1>a. CASE ~Durable /\ Restart
  BY <1>a DEF Restart, StoreEmptied, JournalInv, JournalOfApprovedWork,
       ResultsHaveJournals, StampedMeansReversed, DispatchedRollbackIsOnRecord
<1>b. SUFFICES ASSUME SetsKept
               PROVE  JournalInv'
  BY <1>a, SetsKeptStep
<1>0. \A j \in JournalIds : journals[j] # None =>
         /\ journals[j] \in JournalRecord
         /\ journals[j].set \in ChangeSetIds
         /\ journals[j].before \in Nat
  BY DEF JournalRecord
<1>1. ASSUME UNCHANGED <<journals, entries, results>>, NewRollbacks = {}
      PROVE  JournalInv'
  <2>1. JournalOfApprovedWork'
    BY <1>0, <1>1, <1>b DEF JournalInv, JournalOfApprovedWork, SetsKept
  <2>2. ResultsHaveJournals' /\ StampedMeansReversed'
    BY <1>1 DEF JournalInv, ResultsHaveJournals, StampedMeansReversed
  <2>3. DispatchedRollbackIsOnRecord'
    BY <1>1 DEF JournalInv, DispatchedRollbackIsOnRecord, NewRollbacks
  <2> QED BY <2>1, <2>2, <2>3 DEF JournalInv
<1>2. ASSUME NEW s \in ChangeSetIds, NEW digest \in Contents,
             NEW confirm \in BOOLEAN, Approve(s, digest, confirm)
      PROVE  JournalInv'
  <2>1. \A d \in deliveries' : d \in deliveries \/ d.payload = ChangeSetPayload(s)
    BY <1>2 DEF Approve, Enqueue
  <2>2. ChangeSetPayload(s).kind = "changeset"
    BY DEF ChangeSetPayload
  <2>3. NewRollbacks = {}
    BY <2>1, <2>2 DEF NewRollbacks
  <2> QED BY <1>1, <1>2, <2>3 DEF Approve
<1>3. ASSUME NEW j \in JournalIds, NEW v \in Versions, RequestRollback(j, v)
      PROVE  JournalInv'
  <2>1. /\ journals[j] \in JournalRecord
        /\ entries[j] # None
        /\ ~journals[j].rolledBack
        /\ UNCHANGED <<entries, results>>
    BY <1>3 DEF RequestRollback
  <2>2. /\ journals'[j] \in JournalRecord
        /\ journals'[j].set = journals[j].set
        /\ journals'[j].project = journals[j].project
        /\ journals'[j].before = journals[j].before
        /\ journals'[j].after = journals[j].after
        /\ journals'[j].requested
        /\ journals'[j].rolledBack = journals[j].rolledBack
        /\ \A k \in JournalIds \ {j} : journals'[k] = journals[k]
    BY <1>3, <2>1 DEF RequestRollback, JournalRecord
  <2>3. \A d \in deliveries' : d \in deliveries \/ d.payload = RollbackPayload(j, v)
    BY <1>3 DEF RequestRollback, Enqueue
  <2>4. JournalOfApprovedWork'
    BY <1>0, <1>b, <2>1, <2>2, NoneAssumption DEF JournalInv, JournalOfApprovedWork, SetsKept
  <2>5. ResultsHaveJournals'
    BY <2>1, <2>2, NoneAssumption DEF JournalInv, ResultsHaveJournals
  <2>6. StampedMeansReversed'
    BY <2>1, <2>2, NoneAssumption DEF JournalInv, StampedMeansReversed
  <2>7. ASSUME NEW d \in deliveries', d.payload.kind = "rollback"
        PROVE  LET k == d.payload.journal IN
                  /\ journals'[k] # None
                  /\ journals'[k].requested
                  /\ d.payload.steps = entries'[k]
                  /\ d.payload.restores = journals'[k].before
    <3>1. CASE d \in deliveries
      <4>1. d.payload.journal \in JournalIds
        BY <2>7, <3>1 DEF Delivery, Payload
      <4> QED BY <2>1, <2>2, <2>7, <3>1, <4>1, NoneAssumption
                 DEF JournalInv, DispatchedRollbackIsOnRecord
    <3>2. CASE d.payload = RollbackPayload(j, v)
      BY <2>1, <2>2, <3>2, NoneAssumption DEF RollbackPayload
    <3> QED BY <2>3, <3>1, <3>2
  <2>8. DispatchedRollbackIsOnRecord'
    BY <2>7 DEF DispatchedRollbackIsOnRecord
  <2> QED BY <2>4, <2>5, <2>6, <2>8 DEF JournalInv
<1>4. ASSUME NEW l \in LinkIds, NEW n \in Nonces, NEW s \in ChangeSetIds,
             NEW j \in JournalIds, NEW o \in Outcomes, NEW v \in Versions,
             ApplyResult(l, n, s, j, o.ok, o.failed, v)
      PROVE  JournalInv'
  <2>1. UNCHANGED <<entries, results, deliveries, approvedAs>>
    BY <1>4 DEF ApplyResult, history
  <2>2. CASE ~ApplyResultAccepted(l, s, j, v)
    BY <1>1, <1>4, <2>1, <2>2 DEF ApplyResult, NewRollbacks
  <2>3. CASE ApplyResultAccepted(l, s, j, v)
    <3>1. /\ changeSets[s] \in ChangeSet /\ changeSets[s].project \in Projects
          /\ changeSets[s] # None
          /\ changeSets[s].content \in Contents
          /\ changeSets[s].status \in Cleared
          /\ journals[j] = None
          /\ v >= version[changeSets[s].project]
      BY <2>3 DEF ApplyResultAccepted, ChangeSet, Cleared
    <3>2. entries[j] = None /\ results[j] = None
      BY <3>1 DEF JournalInv, JournalOfApprovedWork, ResultsHaveJournals
    <3>3. approvedAs[s] # None
      BY <3>1, NoneAssumption DEF ReviewInv, OnlyReviewedContentLeaves
    <3>4. /\ journals'[j].set = s
          /\ journals'[j].project = changeSets[s].project
          /\ journals'[j].after >= journals'[j].before
          /\ ~journals'[j].rolledBack
          /\ \A k \in JournalIds \ {j} : journals'[k] = journals[k]
      BY <1>4, <2>3, <3>1, BoundsAssumption DEF ApplyResult, Versions
    <3>5. JournalOfApprovedWork'
      BY <1>0, <1>b, <2>1, <3>1, <3>2, <3>3, <3>4
         DEF JournalInv, JournalOfApprovedWork, SetsKept
    <3>6. StampedMeansReversed'
      BY <2>1, <3>2, <3>4 DEF JournalInv, StampedMeansReversed
    <3>7. ResultsHaveJournals'
      BY <2>1, <3>2, <3>4 DEF JournalInv, ResultsHaveJournals
    <3>8. \A d \in deliveries : d.payload.kind = "rollback" => d.payload.journal \in JournalIds
      BY DEF Delivery, Payload
    <3>9. DispatchedRollbackIsOnRecord'
      BY <2>1, <3>1, <3>4, <3>8 DEF JournalInv, DispatchedRollbackIsOnRecord
    <3> QED BY <3>5, <3>6, <3>7, <3>9 DEF JournalInv
  <2> QED BY <2>2, <2>3
<1>5. ASSUME NEW l \in LinkIds, NEW nonce \in Nonces, NEW j \in JournalIds,
             NEW s \in ChangeSetIds, NEW before \in Versions, NEW after \in Versions,
             NEW n \in 1..2, JournalEntry(l, nonce, j, s, before, after, n)
      PROVE  JournalInv'
  <2>1. UNCHANGED <<changeSets, journals, results, deliveries, approvedAs>>
    BY <1>5 DEF JournalEntry, history
  <2>2. CASE ~JournalEntryAccepted(l, j, s, before, after, n)
    BY <1>1, <1>5, <2>1, <2>2 DEF JournalEntry, NewRollbacks
  <2>3. CASE JournalEntryAccepted(l, j, s, before, after, n)
    <3>1. /\ journals[j] # None /\ journals[j].set = s
          /\ n \in 1..changeSets[s].content.ops
          /\ entries[j] = None
      BY <2>3 DEF JournalEntryAccepted
    <3>2. n \in Nat /\ entries' = [entries EXCEPT ![j] = n]
      BY <1>5, <2>3 DEF JournalEntry
    <3>3. approvedAs[s] # None
      BY <3>1 DEF JournalInv, JournalOfApprovedWork
    <3>4. n \in 1..approvedAs[s].ops
      BY <3>1, <3>3 DEF ReviewInv, ApprovedForGood
    <3>5. JournalOfApprovedWork'
      BY <2>1, <3>1, <3>2, <3>4 DEF JournalInv, JournalOfApprovedWork
    <3>6. results[j] = None
      BY <3>1 DEF JournalInv, StampedMeansReversed
    <3>7. StampedMeansReversed'
      BY <2>1, <3>2, <3>6 DEF JournalInv, StampedMeansReversed
    <3>8. ResultsHaveJournals'
      BY <2>1 DEF JournalInv, ResultsHaveJournals
    <3>9. \A d \in deliveries : d.payload.kind = "rollback" =>
             d.payload.journal \in JournalIds /\ d.payload.steps \in Nat
      BY DEF Delivery, Payload
    <3>10. DispatchedRollbackIsOnRecord'
      BY <2>1, <3>1, <3>2, <3>9, NoneAssumption DEF JournalInv, DispatchedRollbackIsOnRecord
    <3> QED BY <3>5, <3>7, <3>8, <3>10 DEF JournalInv
  <2> QED BY <2>2, <2>3
<1>6. ASSUME NEW l \in LinkIds, NEW n \in Nonces, NEW j \in JournalIds,
             NEW s \in ChangeSetIds, NEW o \in Outcomes, NEW v \in Versions,
             ReportRollback(l, n, j, s, o, v)
      PROVE  JournalInv'
  <2>1. UNCHANGED <<changeSets, entries, deliveries, approvedAs>>
    BY <1>6 DEF ReportRollback, history
  <2>2. CASE ~RollbackResultAccepted(l, j, s, o)
    BY <1>1, <1>6, <2>1, <2>2 DEF ReportRollback, NewRollbacks
  <2>3. CASE RollbackResultAccepted(l, j, s, o)
    <3> DEFINE complete == RollbackStatus(o, entries[j]) = "rolled_back"
    <3>1. /\ journals[j] \in JournalRecord /\ journals[j].requested
          /\ entries[j] # None
      BY <2>3 DEF RollbackResultAccepted
    <3>2. /\ results' = [results EXCEPT ![j] = o]
          /\ journals' = [journals EXCEPT ![j].rolledBack = complete]
      BY <1>6, <2>3 DEF ReportRollback
    <3>3. o.ok \in Nat /\ o.failed \in Nat /\ o \in RollbackResult
      BY DEF Outcomes, RollbackResult
    <3>4. entries[j] \in Nat /\ entries[j] > 0
      BY <3>1 DEF JournalInv, JournalOfApprovedWork
    <3>5. complete <=> o.ok = entries[j] /\ o.failed = 0
      BY <3>3, <3>4 DEF RollbackStatus
    <3>6. complete \in BOOLEAN
      OBVIOUS
    <3> HIDE DEF complete
    <3>7. /\ journals'[j] \in JournalRecord
          /\ journals'[j].set = journals[j].set
          /\ journals'[j].project = journals[j].project
          /\ journals'[j].before = journals[j].before
          /\ journals'[j].after = journals[j].after
          /\ journals'[j].requested
          /\ journals'[j].rolledBack = complete
          /\ \A k \in JournalIds \ {j} : journals'[k] = journals[k]
      BY <3>1, <3>2, <3>6 DEF JournalRecord
    <3>8. JournalOfApprovedWork'
      BY <1>0, <1>b, <2>1, <3>1, <3>7, NoneAssumption
         DEF JournalInv, JournalOfApprovedWork, SetsKept
    <3>9. /\ results'[j] = o /\ results'[j] # None
          /\ \A k \in JournalIds \ {j} : results'[k] = results[k]
      BY <3>2, <3>3, NoneAssumption
    <3>10. StampedMeansReversed'
      BY <2>1, <3>1, <3>5, <3>7, <3>9 DEF JournalInv, StampedMeansReversed
    <3>11. ResultsHaveJournals'
      BY <3>7, <3>9, NoneAssumption DEF JournalInv, ResultsHaveJournals
    <3>12. \A d \in deliveries : d.payload.kind = "rollback" => d.payload.journal \in JournalIds
      BY DEF Delivery, Payload
    <3>13. DispatchedRollbackIsOnRecord'
      BY <2>1, <3>7, <3>12, NoneAssumption DEF JournalInv, DispatchedRollbackIsOnRecord
    <3> QED BY <3>8, <3>10, <3>11, <3>13 DEF JournalInv
  <2> QED BY <2>2, <2>3
<1>7. ASSUME Restart, Durable
      PROVE  JournalInv'
  BY <1>1, <1>7 DEF Restart, store, NewRollbacks
<1>8. ASSUME UNCHANGED vars
      PROVE  JournalInv'
  BY <1>1, <1>8 DEF vars, store, NewRollbacks
<1>9. ASSUME \/ \E s \in ChangeSetIds, p \in Projects, base \in Versions, c \in Contents :
                   SubmitChangeSet(s, p, base, c)
             \/ \E p \in Projects : StartRun(p)
             \/ \E run \in running, s \in ChangeSetIds, c \in Contents, failure \in BOOLEAN :
                   SettleRun(run, s, c, failure)
             \/ \E run \in running : SettleRunWithoutSet(run)
             \/ \E l \in LinkIds, p \in Projects : Pair(l, p)
             \/ \E l \in LinkIds, since \in Cursors : Poll(l, since)
             \/ \E l \in LinkIds, since \in Cursors : HeldPollEnds(l, since)
             \/ \E l \in LinkIds, n \in Nonces : Output(l, n)
      PROVE  JournalInv'
  BY <1>1, <1>9 DEF SubmitChangeSet, StartRun, SettleRun, SettleRunWithoutSet, Pair,
       Poll, HeldPollEnds, Output, store, NewRollbacks
<1> QED
  BY <1>a, <1>2, <1>3, <1>4, <1>5, <1>6, <1>7, <1>8, <1>9, DurableAssumption
     DEF Next, Producer, Consumer

(* Whatever reports arrive, in whatever order and however often, every     *)
(* apply on record is of an approved set and every inverse kept is within  *)
(* it (#applyResult, recordJournalEntry).                                  *)
THEOREM DaemonJournalOfApprovedWork == Spec => []JournalOfApprovedWork
<1>1. JournalInv => JournalOfApprovedWork
  BY DEF JournalInv
<1> QED BY <1>1, TypeInit, TypeStep, ReviewInit, ReviewStep, JournalInit, JournalStep, PTL
           DEF Spec

(* The `rolled back' stamp is never set, kept or cleared against the last  *)
(* report: it means that report covers every inverse held, all reversed    *)
(* (recordRollbackResult).                                                 *)
THEOREM DaemonStampedMeansReversed == Spec => []StampedMeansReversed
<1>1. JournalInv => StampedMeansReversed
  BY DEF JournalInv
<1> QED BY <1>1, TypeInit, TypeStep, ReviewInit, ReviewStep, JournalInit, JournalStep, PTL
           DEF Spec

(* A queued reversal never goes out of date with the journal it came from  *)
(* (#rollback, putJournalEntry).                                           *)
THEOREM DaemonDispatchedRollbackIsOnRecord == Spec => []DispatchedRollbackIsOnRecord
<1>1. JournalInv => DispatchedRollbackIsOnRecord
  BY DEF JournalInv
<1> QED BY <1>1, TypeInit, TypeStep, ReviewInit, ReviewStep, JournalInit, JournalStep, PTL
           DEF Spec

(* The journals, the inverses kept for them and the reversals on their way *)
(* agree, for any sets, journals, links and reports (#applyResult,         *)
(* recordJournalEntry, #rollback, recordRollbackResult).                   *)
THEOREM DaemonJournalsAreSound == Spec => []JournalsAreSound
<1>1. JournalInv => JournalsAreSound
  BY DEF JournalInv, JournalsAreSound
<1> QED BY <1>1, TypeInit, TypeStep, ReviewInit, ReviewStep, JournalInit, JournalStep, PTL
           DEF Spec

-----------------------------------------------------------------------------
QueueInv == QueueIsWindow /\ NoLostWakeup /\ ApprovedIsQueued

(* Initially every queue is empty and no poll is parked. *)
LEMMA QueueInit == Init => QueueInv
  BY DEF Init, QueueInv, QueueIsWindow, NoLostWakeup, ApprovedIsQueued

(* #enqueue keeps every queue a window and loses no parked poll. *)
LEMMA EnqueueQueue ==
    ASSUME TypeOK, QueueIsWindow, NoLostWakeup, NEW l \in LinkIds, NEW payload, NEW sets,
           Enqueue(l, payload, sets)
    PROVE  QueueIsWindow' /\ NoLostWakeup'
<1> DEFINE new == [link |-> l, nonce |-> outNonce[l] + 1, payload |-> payload]
           o == outNonce[l]
<1> USE DEF TypeOK
<1>1. \A d \in deliveries : d.nonce \in Nat /\ d.link \in LinkIds
  BY DEF Delivery
<1>2. /\ deliveries' = {d \in deliveries : Keeps(d, l, new.nonce)} \cup {new}
      /\ outNonce' = [outNonce EXCEPT ![l] = new.nonce]
      /\ held' = [held EXCEPT ![l] = @ \ Wakes(l, new.nonce)]
  BY DEF Enqueue
<1>3. /\ o \in Nat /\ new.nonce = o + 1 /\ new.link = l
      /\ outNonce'[l] = o + 1
      /\ \A k \in LinkIds \ {l} : outNonce'[k] = outNonce[k] /\ held'[k] = held[k]
      /\ held'[l] = {since \in held[l] : ~(since < o + 1)}
  BY <1>2 DEF Wakes
<1>4. \A d \in deliveries : d.link = l => d.nonce \in 1..o
  BY DEF QueueIsWindow
<1>5. \A d : d \in deliveries' <=>
         \/ d = new
         \/ d \in deliveries /\ (d.link # l \/ d.nonce + DeliveriesPerLink > o + 1)
  BY <1>2, <1>3 DEF Keeps
<1> HIDE DEF new, o
<1>6. ASSUME NEW k \in LinkIds \ {l}
      PROVE  /\ \A d, e \in deliveries' : d.link = k /\ e.link = k /\ d.nonce = e.nonce => d = e
             /\ \A n \in 1..outNonce'[k] :
                   (n + DeliveriesPerLink > outNonce'[k]) <=>
                       \E d \in deliveries' : d.link = k /\ d.nonce = n
             /\ \A d \in deliveries' : d.link = k => d.nonce \in 1..outNonce'[k]
             /\ \A since \in held'[k] : NextDelivery(k, since)' = {}
  <2>1. \A d : d \in deliveries' /\ d.link = k <=> d \in deliveries /\ d.link = k
    BY <1>3, <1>5, <1>6
  <2>2. \A d, e \in deliveries' : d.link = k /\ e.link = k /\ d.nonce = e.nonce => d = e
    BY <2>1 DEF QueueIsWindow
  <2>3. \A n \in 1..outNonce'[k] :
           (n + DeliveriesPerLink > outNonce'[k]) <=>
              \E d \in deliveries' : d.link = k /\ d.nonce = n
    <3>1. \A n : (\E d \in deliveries' : d.link = k /\ d.nonce = n) <=>
                 (\E d \in deliveries : d.link = k /\ d.nonce = n)
      BY <2>1
    <3>2. outNonce'[k] = outNonce[k]
      BY <1>3
    <3> QED BY <3>1, <3>2, ZenonT(60) DEF QueueIsWindow
  <2>4. \A d \in deliveries' : d.link = k => d.nonce \in 1..outNonce'[k]
    BY <1>3, <2>1 DEF QueueIsWindow
  <2>5. ASSUME NEW since \in held'[k] PROVE NextDelivery(k, since)' = {}
    <3>1. NextDelivery(k, since) = {}
      BY <1>3, <2>5 DEF NoLostWakeup
    <3>2. \A d : d \in NextDelivery(k, since)' <=> d \in NextDelivery(k, since)
      BY <2>1 DEF NextDelivery
    <3> QED BY <3>1, <3>2
  <2> QED BY <2>2, <2>3, <2>4, <2>5
<1>7. \A d, e \in deliveries' : d.link = l /\ e.link = l /\ d.nonce = e.nonce => d = e
  BY <1>1, <1>3, <1>4, <1>5 DEF QueueIsWindow
<1>8. \A d \in deliveries' : d.link = l => d.nonce \in 1..outNonce'[l]
  BY <1>1, <1>3, <1>4, <1>5
<1>9. ASSUME NEW n \in 1..outNonce'[l]
      PROVE  (n + DeliveriesPerLink > outNonce'[l]) <=>
                \E d \in deliveries' : d.link = l /\ d.nonce = n
  <2>1. CASE n = o + 1
    <3>1. n + DeliveriesPerLink > outNonce'[l]
      BY <1>3, <2>1, BoundsAssumption
    <3>2. new \in deliveries' /\ new.link = l /\ new.nonce = n
      BY <1>3, <1>5, <2>1
    <3> QED BY <3>1, <3>2
  <2>2. CASE n # o + 1
    <3>1. n \in 1..o
      BY <1>3, <1>9, <2>2
    <3>2. ASSUME n + DeliveriesPerLink > o + 1
          PROVE  \E d \in deliveries' : d.link = l /\ d.nonce = n
      <4>1. PICK d \in deliveries : d.link = l /\ d.nonce = n
        BY <1>3, <3>1, <3>2, BoundsAssumption DEF QueueIsWindow, o
      <4> QED BY <1>5, <3>2, <4>1
    <3>3. ASSUME NEW d \in deliveries', d.link = l, d.nonce = n
          PROVE  n + DeliveriesPerLink > o + 1
      BY <1>3, <1>5, <2>2, <3>3
    <3> QED BY <1>3, <3>2, <3>3
  <2> QED BY <2>1, <2>2
<1>10. \A since \in held'[l] : NextDelivery(l, since)' = {}
  <2>1. ASSUME NEW since \in held'[l], NEW d \in deliveries', d.link = l
        PROVE  ~(d.nonce > since)
    <3>1. since \in Nat /\ since >= o + 1
      BY <1>3, <2>1
    <3>2. d.nonce \in 1..(o + 1)
      BY <1>3, <1>8, <2>1
    <3> QED BY <1>3, <3>1, <3>2
  <2> QED BY <2>1 DEF NextDelivery
<1> HIDE DEF TypeOK
<1>11. QueueIsWindow'
  <2> SUFFICES ASSUME NEW k \in LinkIds
               PROVE  /\ \A d, e \in deliveries' :
                            d.link = k /\ e.link = k /\ d.nonce = e.nonce => d = e
                      /\ \A n \in 1..outNonce'[k] :
                            (n + DeliveriesPerLink > outNonce'[k]) <=>
                                \E d \in deliveries' : d.link = k /\ d.nonce = n
                      /\ \A d \in deliveries' : d.link = k => d.nonce \in 1..outNonce'[k]
    BY Zenon DEF QueueIsWindow
  <2>1. CASE k = l
    BY <1>7, <1>8, <1>9, <2>1, Zenon
  <2>2. CASE k # l
    <3>1. k \in LinkIds \ {l}
      BY <2>2
    <3> QED BY <1>6, <3>1, Zenon
  <2> QED BY <2>1, <2>2
<1>12. NoLostWakeup'
  <2> SUFFICES ASSUME NEW k \in LinkIds
               PROVE  \A since \in held'[k] : NextDelivery(k, since)' = {}
    BY Zenon DEF NoLostWakeup
  <2>1. CASE k = l
    BY <1>10, <2>1, Zenon
  <2>2. CASE k # l
    <3>1. k \in LinkIds \ {l}
      BY <2>2
    <3> QED BY <1>6, <3>1, Zenon
  <2> QED BY <2>1, <2>2
<1> QED BY <1>11, <1>12

(* #enqueue forgets no delivery of an approved set without saying so. *)
LEMMA EnqueueApproved ==
    ASSUME TypeOK, NEW l \in LinkIds, NEW payload, NEW sets, Enqueue(l, payload, sets)
    PROVE  /\ \A s \in trimmed : s \in trimmed'
           /\ \A d \in deliveries : d.payload.kind = "changeset" =>
                 d \in deliveries' \/ d.payload.set \in trimmed'
           /\ \E d \in deliveries' : d.payload = payload
<1> DEFINE new == [link |-> l, nonce |-> outNonce[l] + 1, payload |-> payload]
<1>1. deliveries' = {d \in deliveries : Keeps(d, l, new.nonce)} \cup {new}
  BY DEF Enqueue
<1>2. trimmed' = trimmed \cup
         {d.payload.set : d \in {e \in deliveries :
             ~Keeps(e, l, new.nonce) /\ e.payload.kind = "changeset"}}
  BY DEF Enqueue
<1>3. new.payload = payload
  OBVIOUS
<1> HIDE DEF new
<1> QED BY <1>1, <1>2, <1>3

(* Every handler keeps the queues windows, the parked polls without news   *)
(* and the approved sets queued.                                           *)
LEMMA QueueStep == TypeInv /\ ReviewInv /\ QueueInv /\ [Next]_vars => QueueInv'
<1> SUFFICES ASSUME TypeInv, ReviewInv, QueueInv, [Next]_vars
             PROVE  QueueInv'
  OBVIOUS
<1> USE DEF TypeInv, TypeOK
<1>1. ASSUME UNCHANGED <<deliveries, outNonce, trimmed>>,
             \A l \in LinkIds : held'[l] \subseteq held[l],
             \A s \in ChangeSetIds :
                \/ changeSets'[s] = changeSets[s]
                \/ changeSets'[s].status # "approved"
      PROVE  QueueInv'
  <2>1. QueueIsWindow'
    BY <1>1 DEF QueueInv, QueueIsWindow
  <2>2. NoLostWakeup'
    <3>1. \A l \in LinkIds, since \in Nat : NextDelivery(l, since)' = NextDelivery(l, since)
      BY <1>1 DEF NextDelivery
    <3> QED BY <1>1, <3>1 DEF QueueInv, NoLostWakeup
  <2>3. ApprovedIsQueued'
    BY <1>1 DEF QueueInv, ApprovedIsQueued
  <2> QED BY <2>1, <2>2, <2>3 DEF QueueInv
<1>2. ASSUME NEW s \in ChangeSetIds, NEW p \in Projects, NEW base \in Versions,
             NEW c \in Contents, SubmitChangeSet(s, p, base, c)
      PROVE  QueueInv'
  BY <1>1, <1>2 DEF SubmitChangeSet, history
<1>3. ASSUME NEW run \in running, NEW s \in ChangeSetIds, NEW c \in Contents,
             NEW failure \in BOOLEAN, SettleRun(run, s, c, failure)
      PROVE  QueueInv'
  <2>1. changeSets'[s].status # "approved" /\
        \A t \in ChangeSetIds \ {s} : changeSets'[t] = changeSets[t]
    BY <1>3 DEF SettleRun
  <2> QED BY <1>1, <1>3, <2>1 DEF SettleRun, history
<1>4. ASSUME NEW s \in ChangeSetIds, NEW digest \in Contents,
             NEW confirm \in BOOLEAN, Approve(s, digest, confirm)
      PROVE  QueueInv'
  <2> DEFINE l == mostRecent[changeSets[s].project]
             payload == ChangeSetPayload(s)
             sets == [changeSets EXCEPT ![s].status = "approved"]
  <2>1. changeSets[s] \in ChangeSet
    BY <1>4 DEF Approve
  <2>2. l \in LinkIds
    BY <1>4, <2>1 DEF Approve, Approvable, Reachable, ChangeSet
  <2>3. payload \in Payload /\ payload.kind = "changeset" /\ payload.set = s
    BY <2>1 DEF ChangeSetPayload, Payload, ChangeSet
  <2>4. /\ sets \in [ChangeSetIds -> ChangeSet \cup {None}]
        /\ \A t \in ChangeSetIds \ {s} : sets[t] = changeSets[t]
    BY <2>1 DEF ChangeSet, Statuses
  <2>5. Enqueue(l, payload, sets)
    BY <1>4 DEF Approve
  <2> HIDE DEF l, payload, sets
  <2>6. QueueIsWindow' /\ NoLostWakeup'
    BY <2>2, <2>5, EnqueueQueue DEF QueueInv
  <2>7. /\ \A t \in trimmed : t \in trimmed'
        /\ \A d \in deliveries : d.payload.kind = "changeset" =>
              d \in deliveries' \/ d.payload.set \in trimmed'
        /\ \E d \in deliveries' : d.payload = payload
    BY <2>2, <2>5, EnqueueApproved
  <2>8. \A t \in ChangeSetIds \ {s} :
           changeSets'[t] = changeSets[t] \/ changeSets'[t].status # "approved"
    BY <2>2, <2>3, <2>4, <2>5, EnqueueFact
  <2>9. ApprovedIsQueued'
    BY <2>3, <2>7, <2>8 DEF QueueInv, ApprovedIsQueued
  <2> QED BY <2>6, <2>9 DEF QueueInv
<1>5. ASSUME NEW j \in JournalIds, NEW v \in Versions, RequestRollback(j, v)
      PROVE  QueueInv'
  <2> DEFINE l == mostRecent[journals[j].project]
             payload == RollbackPayload(j, v)
  <2>1. journals[j] \in JournalRecord
    BY <1>5 DEF RequestRollback
  <2>2. l \in LinkIds
    BY <1>5, <2>1 DEF RequestRollback, Reachable, JournalRecord
  <2>3. payload \in Payload /\ payload.kind = "rollback"
    BY <1>5, <2>1, BoundsAssumption DEF RequestRollback, RollbackPayload, Payload, JournalRecord, Versions
  <2>4. Enqueue(l, payload, changeSets)
    BY <1>5 DEF RequestRollback
  <2> HIDE DEF l, payload
  <2>5. QueueIsWindow' /\ NoLostWakeup'
    BY <2>2, <2>4, EnqueueQueue DEF QueueInv
  <2>6. /\ \A t \in trimmed : t \in trimmed'
        /\ \A d \in deliveries : d.payload.kind = "changeset" =>
              d \in deliveries' \/ d.payload.set \in trimmed'
    BY <2>2, <2>4, EnqueueApproved
  <2>7. \A t \in ChangeSetIds : changeSets'[t] = changeSets[t]
    BY <2>2, <2>3, <2>4, EnqueueFact
  <2>8. ApprovedIsQueued'
    BY <2>6, <2>7 DEF QueueInv, ApprovedIsQueued
  <2> QED BY <2>5, <2>8 DEF QueueInv
<1>6. ASSUME NEW l \in LinkIds, NEW since \in Cursors, Poll(l, since)
      PROVE  QueueInv'
  <2>1. CASE NextDelivery(l, since) # {}
    <3>1. /\ changeSets' = Delivered(changeSets, NextDelivery(l, since))
          /\ UNCHANGED <<deliveries, outNonce, trimmed, held>>
      BY <1>6, <2>1 DEF Poll, history
    <3>2. \A s \in ChangeSetIds :
             changeSets'[s] = changeSets[s] \/ changeSets'[s].status # "approved"
      BY <3>1, DeliveredFact
    <3> QED BY <1>1, <3>1, <3>2
  <2>2. CASE NextDelivery(l, since) = {}
    <3>1. /\ UNCHANGED <<changeSets, deliveries, outNonce, trimmed>>
          /\ held' = [held EXCEPT ![l] = @ \cup {since}]
      BY <1>6, <2>2 DEF Poll, history
    <3>2. \A k \in LinkIds, c \in Nat : NextDelivery(k, c)' = NextDelivery(k, c)
      BY <3>1 DEF NextDelivery
    <3>3. since \in Nat
      BY BoundsAssumption DEF Cursors
    <3>4. NoLostWakeup'
      BY <2>2, <3>1, <3>2, <3>3 DEF QueueInv, NoLostWakeup
    <3>5. QueueIsWindow'
      BY <3>1 DEF QueueInv, QueueIsWindow
    <3>6. ApprovedIsQueued'
      BY <3>1 DEF QueueInv, ApprovedIsQueued
    <3> QED BY <3>4, <3>5, <3>6 DEF QueueInv
  <2> QED BY <2>1, <2>2
<1>7. ASSUME NEW l \in LinkIds, NEW n \in Nonces, NEW s \in ChangeSetIds,
             NEW j \in JournalIds, NEW o \in Outcomes, NEW v \in Versions,
             ApplyResult(l, n, s, j, o.ok, o.failed, v)
      PROVE  QueueInv'
  <2>1. ASSUME NEW t \in ChangeSetIds
        PROVE  changeSets'[t] = changeSets[t] \/ changeSets'[t].status # "approved"
    <3>1. CASE ApplyResultAccepted(l, s, j, v)
      <4>1. changeSets[s] \in ChangeSet
        BY <3>1 DEF ApplyResultAccepted
      <4> QED BY <1>7, <3>1, <4>1 DEF ApplyResult, ApplyStatus, ChangeSet
    <3>2. CASE ~ApplyResultAccepted(l, s, j, v)
      BY <1>7, <3>2 DEF ApplyResult
    <3> QED BY <3>1, <3>2
  <2> QED BY <1>1, <1>7, <2>1 DEF ApplyResult, history
<1>8. ASSUME Restart
      PROVE  QueueInv'
  <2>1. CASE Durable
    BY <1>1, <1>8, <2>1 DEF Restart, store, history
  <2>2. CASE ~Durable
    BY <1>8, <2>2 DEF Restart, StoreEmptied, QueueInv, QueueIsWindow, NoLostWakeup, ApprovedIsQueued
  <2> QED BY <2>1, <2>2
<1>9. ASSUME UNCHANGED vars
      PROVE  QueueInv'
  BY <1>1, <1>9 DEF vars, store, history
<1>10. ASSUME NEW l \in LinkIds, NEW since \in Cursors, HeldPollEnds(l, since)
       PROVE  QueueInv'
  BY <1>1, <1>10 DEF HeldPollEnds, store, history
<1>11. ASSUME \/ \E p \in Projects : StartRun(p)
              \/ \E run \in running : SettleRunWithoutSet(run)
              \/ \E l \in LinkIds, p \in Projects : Pair(l, p)
              \/ \E l \in LinkIds, n \in Nonces : Output(l, n)
              \/ \E l \in LinkIds, nonce \in Nonces, j \in JournalIds,
                    s \in ChangeSetIds, before \in Versions, after \in Versions,
                    n \in 1..2 : JournalEntry(l, nonce, j, s, before, after, n)
              \/ \E l \in LinkIds, n \in Nonces, j \in JournalIds,
                    s \in ChangeSetIds, o \in Outcomes, v \in Versions :
                    ReportRollback(l, n, j, s, o, v)
       PROVE  QueueInv'
  BY <1>1, <1>11 DEF StartRun, SettleRunWithoutSet, Pair, Output,
       JournalEntry, ReportRollback, store, history
<1> QED
  BY <1>2, <1>3, <1>4, <1>5, <1>6, <1>7, <1>8, <1>9, <1>10, <1>11
     DEF Next, Producer, Consumer

(* A queue is always exactly the window of its last DeliveriesPerLink      *)
(* deliveries, for every length of the window, and no wake-up is lost,     *)
(* however many polls are parked on however many links (enqueueDelivery,   *)
(* #poll, #wait, #wake).                                                   *)
THEOREM DaemonQueuesAreServed == Spec => []QueuesAreServed
<1>1. QueueInv => QueuesAreServed
  BY DEF QueueInv, QueuesAreServed
<1> QED BY <1>1, TypeInit, TypeStep, ReviewInit, ReviewStep, QueueInit, QueueStep, PTL
           DEF Spec

(* An approved set that was not handed over is in a queue, or fell off a   *)
(* full one (#approve, enqueueDelivery).                                   *)
THEOREM DaemonApprovedIsQueued == Spec => []ApprovedIsQueued
<1>1. QueueInv => ApprovedIsQueued
  BY DEF QueueInv
<1> QED BY <1>1, TypeInit, TypeStep, ReviewInit, ReviewStep, QueueInit, QueueStep, PTL
           DEF Spec

(* A step that changes neither journals nor inverses takes no handle away. *)
KeepsHandle(j) ==
    /\ journals'[j] # None
    /\ journals'[j].set = journals[j].set
    /\ journals'[j].before = journals[j].before
    /\ journals'[j].after = journals[j].after
    /\ entries[j] # None => entries'[j] = entries[j]
    /\ journals[j].rolledBack => journals'[j].rolledBack

(* Only three handlers write the two tables, each behind the check that    *)
(* keeps the handle.                                                       *)
LEMMA HandleStep ==
    ASSUME TypeInv, [Next]_vars, NEW j \in JournalIds, journals[j] # None
    PROVE  StoreLost \/ KeepsHandle(j)
<1> USE DEF TypeInv, TypeOK
<1>1. journals[j] \in JournalRecord
  OBVIOUS
<1>2. ASSUME UNCHANGED <<journals, entries>>
      PROVE  KeepsHandle(j)
  BY <1>2 DEF KeepsHandle
<1>3. ASSUME NEW l \in LinkIds, NEW n \in Nonces, NEW s \in ChangeSetIds, NEW k \in JournalIds,
             NEW o \in Outcomes, NEW v \in Versions,
             ApplyResult(l, n, s, k, o.ok, o.failed, v)
      PROVE  KeepsHandle(j)
  BY <1>3 DEF ApplyResult, ApplyResultAccepted, KeepsHandle
<1>4. ASSUME NEW l \in LinkIds, NEW nonce \in Nonces, NEW k \in JournalIds, NEW s \in ChangeSetIds,
             NEW before \in Versions, NEW after \in Versions, NEW n \in 1..2,
             JournalEntry(l, nonce, k, s, before, after, n)
      PROVE  KeepsHandle(j)
  BY <1>4 DEF JournalEntry, JournalEntryAccepted, KeepsHandle
<1>5. ASSUME NEW k \in JournalIds, NEW v \in Versions, RequestRollback(k, v)
      PROVE  KeepsHandle(j)
  <2>1. journals' = [journals EXCEPT ![k].requested = TRUE] /\ entries' = entries
    BY <1>5 DEF RequestRollback
  <2>2. journals'[j] \in JournalRecord
    BY <1>1, <2>1 DEF JournalRecord
  <2> QED BY <1>1, <2>1, <2>2, NoneAssumption DEF KeepsHandle, JournalRecord
<1>6. ASSUME NEW l \in LinkIds, NEW n \in Nonces, NEW k \in JournalIds, NEW s \in ChangeSetIds,
             NEW o \in Outcomes, NEW v \in Versions,
             ReportRollback(l, n, k, s, o, v)
      PROVE  KeepsHandle(j)
  <2>1. CASE RollbackResultAccepted(l, k, s, o)
    <3> DEFINE stamp == RollbackStatus(o, entries[k]) = "rolled_back"
    <3>1. journals' = [journals EXCEPT ![k].rolledBack = stamp] /\ entries' = entries
      BY <1>6, <2>1 DEF ReportRollback
    <3>2. ~journals[k].rolledBack
      BY <2>1 DEF RollbackResultAccepted
    <3>3. stamp \in BOOLEAN
      OBVIOUS
    <3> HIDE DEF stamp
    <3> QED BY <1>1, <3>1, <3>2, <3>3, NoneAssumption DEF KeepsHandle, JournalRecord
  <2>2. CASE ~RollbackResultAccepted(l, k, s, o)
    BY <1>2, <1>6, <2>2 DEF ReportRollback
  <2> QED BY <2>1, <2>2
<1>7. ASSUME Restart
      PROVE  StoreLost \/ KeepsHandle(j)
  BY <1>2, <1>7 DEF Restart, StoreLost, store
<1>8. ASSUME \/ \E s \in ChangeSetIds, p \in Projects, base \in Versions, c \in Contents :
                   SubmitChangeSet(s, p, base, c)
             \/ \E p \in Projects : StartRun(p)
             \/ \E run \in running, s \in ChangeSetIds, c \in Contents, failure \in BOOLEAN :
                   SettleRun(run, s, c, failure)
             \/ \E run \in running : SettleRunWithoutSet(run)
             \/ \E s \in ChangeSetIds, digest \in Contents, confirm \in BOOLEAN :
                   Approve(s, digest, confirm)
             \/ \E l \in LinkIds, p \in Projects : Pair(l, p)
             \/ \E l \in LinkIds, since \in Cursors : Poll(l, since)
             \/ \E l \in LinkIds, since \in Cursors : HeldPollEnds(l, since)
             \/ \E l \in LinkIds, n \in Nonces : Output(l, n)
             \/ UNCHANGED vars
      PROVE  KeepsHandle(j)
  BY <1>2, <1>8 DEF SubmitChangeSet, StartRun, SettleRun, SettleRunWithoutSet, Approve, Pair,
       Poll, HeldPollEnds, Output, vars, store
<1> QED BY <1>3, <1>4, <1>5, <1>6, <1>7, <1>8 DEF Next, Producer, Consumer

(* For any sets, links and journals, and reports in any order: once        *)
(* recorded, an apply keeps its set and version bracket, its inverses are  *)
(* never replaced, and a completed reversal is never reopened.             *)
THEOREM DaemonRollbackHandleIsKept == Spec => RollbackHandleIsKept
<1>1. TypeInv /\ [Next]_vars =>
      [\A j \in JournalIds : journals[j] # None =>
          \/ StoreLost
          \/ /\ journals'[j] # None
             /\ journals'[j].set = journals[j].set
             /\ journals'[j].before = journals[j].before
             /\ journals'[j].after = journals[j].after
             /\ entries[j] # None => entries'[j] = entries[j]
             /\ journals[j].rolledBack => journals'[j].rolledBack]_vars
  BY HandleStep DEF KeepsHandle
<1> QED BY <1>1, TypeInit, TypeStep, PTL DEF Spec, RollbackHandleIsKept

(* A step that leaves the versions alone moves none of them, and one that  *)
(* moves them has its right to (VersionMovesByRight, for one project).     *)
MovedByRight(p) ==
    /\ \E l \in keyring : links[l] = p /\ inNonce'[l] > inNonce[l]
    /\ version'[p] < version[p] =>
          \E j \in JournalIds :
             /\ journals[j] # None
             /\ journals[j].project = p
             /\ journals[j].requested /\ ~journals[j].rolledBack
             /\ entries[j] # None
             /\ results'[j] # None

(* Two reports move a version, each for the project of the link it came    *)
(* from and after spending a nonce.                                        *)
LEMMA VersionStep ==
    ASSUME TypeInv, [Next]_vars, NEW p \in Projects, version'[p] # version[p]
    PROVE  StoreLost \/ MovedByRight(p)
<1> USE DEF TypeInv, TypeOK, KeysArePaired
<1>1. ASSUME NEW l \in LinkIds, NEW n \in Nonces, NEW s \in ChangeSetIds, NEW k \in JournalIds,
             NEW o \in Outcomes, NEW v \in Versions,
             ApplyResult(l, n, s, k, o.ok, o.failed, v)
      PROVE  MovedByRight(p)
  <2>1. ApplyResultAccepted(l, s, k, v) /\ links[l] = p
    BY <1>1 DEF ApplyResult, ApplyResultAccepted
  <2>2. version'[p] = v /\ v >= version[p]
    BY <1>1, <2>1 DEF ApplyResult, ApplyResultAccepted
  <2>3. l \in keyring /\ inNonce'[l] > inNonce[l]
    BY <1>1 DEF ApplyResult, ClaimNonce
  <2>4. version[p] \in Nat /\ v \in Nat
    BY BoundsAssumption DEF Versions
  <2> QED BY <2>1, <2>2, <2>3, <2>4 DEF MovedByRight
<1>2. ASSUME NEW l \in LinkIds, NEW n \in Nonces, NEW k \in JournalIds, NEW s \in ChangeSetIds,
             NEW o \in Outcomes, NEW v \in Versions,
             ReportRollback(l, n, k, s, o, v)
      PROVE  MovedByRight(p)
  <2>1. RollbackResultAccepted(l, k, s, o) /\ journals[k].project = p
    BY <1>2 DEF ReportRollback
  <2>2. l \in keyring /\ inNonce'[l] > inNonce[l]
    BY <1>2 DEF ReportRollback, ClaimNonce
  <2>3. results'[k] = o
    BY <1>2, <2>1 DEF ReportRollback
  <2>4. o # None
    BY NoneAssumption DEF Outcomes, RollbackResult
  <2> QED BY <2>1, <2>2, <2>3, <2>4 DEF MovedByRight, RollbackResultAccepted
<1>3. ASSUME Restart
      PROVE  StoreLost
  BY <1>3 DEF Restart, StoreLost, store
<1>4. ASSUME \/ \E s \in ChangeSetIds, q \in Projects, base \in Versions, c \in Contents :
                   SubmitChangeSet(s, q, base, c)
             \/ \E q \in Projects : StartRun(q)
             \/ \E run \in running, s \in ChangeSetIds, c \in Contents, failure \in BOOLEAN :
                   SettleRun(run, s, c, failure)
             \/ \E run \in running : SettleRunWithoutSet(run)
             \/ \E s \in ChangeSetIds, digest \in Contents, confirm \in BOOLEAN :
                   Approve(s, digest, confirm)
             \/ \E j \in JournalIds, v \in Versions : RequestRollback(j, v)
             \/ \E l \in LinkIds, q \in Projects : Pair(l, q)
             \/ \E l \in LinkIds, since \in Cursors : Poll(l, since)
             \/ \E l \in LinkIds, since \in Cursors : HeldPollEnds(l, since)
             \/ \E l \in LinkIds, n \in Nonces : Output(l, n)
             \/ \E l \in LinkIds, nonce \in Nonces, j \in JournalIds, s \in ChangeSetIds,
                   before \in Versions, after \in Versions, n \in 1..2 :
                   JournalEntry(l, nonce, j, s, before, after, n)
             \/ UNCHANGED vars
      PROVE  FALSE
  BY <1>4 DEF SubmitChangeSet, StartRun, SettleRun, SettleRunWithoutSet, Approve, RequestRollback,
       Pair, Poll, HeldPollEnds, Output, JournalEntry, vars, store
<1> HIDE DEF TypeInv, TypeOK, KeysArePaired
<1> QED BY <1>1, <1>2, <1>3, <1>4 DEF Next, Producer, Consumer

(* For any projects, links and reports in any order: a recorded version    *)
(* moves only by a link paired with that project, spending a fresh nonce,  *)
(* and falls only by the report of a reversal that was asked for.          *)
THEOREM DaemonVersionMovesByRight == Spec => VersionMovesByRight
<1>1. TypeInv /\ [Next]_vars =>
      [\A p \in Projects : version'[p] # version[p] =>
          \/ StoreLost
          \/ /\ \E l \in keyring : links[l] = p /\ inNonce'[l] > inNonce[l]
             /\ version'[p] < version[p] =>
                   \E j \in JournalIds :
                      /\ journals[j] # None
                      /\ journals[j].project = p
                      /\ journals[j].requested /\ ~journals[j].rolledBack
                      /\ entries[j] # None
                      /\ results'[j] # None]_vars
  BY VersionStep DEF MovedByRight
<1> QED BY <1>1, TypeInit, TypeStep, PTL DEF Spec, VersionMovesByRight
=============================================================================
