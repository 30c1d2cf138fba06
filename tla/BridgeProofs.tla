---------------------------- MODULE BridgeProofs ----------------------------
(***************************************************************************)
(* Theorems about the daemon and the plugin together, for any number of    *)
(* ChangeSets, links, journals, projects and threads, and whatever the     *)
(* network, the user and the two processes do.                             *)
(***************************************************************************)
EXTENDS Bridge, DaemonProofs

(* What the plugin holds and sends. *)
SetPayload ==
    [kind : {"changeset"}, set : ChangeSetIds, base : Nat, content : Contents]
ReversePayload ==
    [kind : {"rollback"}, journal : JournalIds, set : ChangeSetIds, steps : Nat,
     expected : Nat, restores : Nat]
ApplyReport ==
    [kind : {"apply"}, journal : JournalIds, set : ChangeSetIds, ok : Nat,
     failed : Nat, version : Nat]
EntryReport ==
    [kind : {"entry"}, journal : JournalIds, set : ChangeSetIds, before : Nat,
     after : Nat, n : Nat]
RollbackReport ==
    [kind : {"rollback"}, journal : JournalIds, set : ChangeSetIds, ok : Nat,
     failed : Nat, version : Nat]
Report == ApplyReport \cup EntryReport \cup RollbackReport
Places == [ChangeSetIds -> Nat]
Envelope ==
    [link : LinkIds \cup {None}, nonce : Nat, report : Report, place : Places]
Thread == [rest : Seq(Report), awaits : Nat, presents : BOOLEAN]

PluginTypeOK ==
    /\ link \in LinkIds \cup {None}
    /\ cursor \in Nat /\ saved \in Nat /\ sent \in Nat
    /\ known \in Nat \cup {None}
    /\ place \in Places
    /\ queue \in Seq(SetPayload)
    /\ pending \in SetPayload \cup {None}
    /\ offered \in BOOLEAN
    /\ threads \in [P!Threads -> Thread]
    /\ lastPoll \in Nat \cup {None}
    /\ flight \in SUBSET Envelope
    /\ applies \in [JournalIds -> ApplyRecords \cup {None}]
    /\ reversed \in [JournalIds -> Nat]

BridgeTypeInv == TypeInv /\ PluginTypeOK

-----------------------------------------------------------------------------
(* The plugin's operators keep its state well typed. *)

(* Sealing a report. *)
LEMMA SendType ==
    ASSUME PluginTypeOK, place' \in Places, NEW t \in P!Threads,
           NEW reports \in Seq(Report), reports # <<>>, NEW presents \in BOOLEAN,
           P!Send(t, reports, presents)
    PROVE  /\ sent' \in Nat
           /\ flight' \in SUBSET Envelope
           /\ threads' \in [P!Threads -> Thread]
<1>1. Head(reports) \in Report /\ Tail(reports) \in Seq(Report)
  OBVIOUS
<1>2. [link |-> link, nonce |-> sent + 1, report |-> Head(reports), place |-> place'] \in Envelope
  BY <1>1 DEF Envelope, PluginTypeOK
<1>3. [rest |-> Tail(reports), awaits |-> sent + 1, presents |-> presents] \in Thread
  BY <1>1 DEF Thread, PluginTypeOK
<1> QED BY <1>2, <1>3 DEF P!Send, PluginTypeOK

(* A refusal, and what the history keeps of it. *)
LEMMA RefusalType ==
    ASSUME NEW j \in JournalIds, NEW cs \in SetPayload, NEW at \in Nat
    PROVE  /\ P!Refusal(j, cs, at) \in ApplyReport
           /\ P!ApplyRecord(cs, at, at, 0, 0) \in ApplyRecords
  BY ContentsAssumption DEF P!Refusal, P!ApplyRecord, ApplyReport, ApplyRecords, SetPayload

(* The version a set is compared with. *)
LEMMA BaseType ==
    ASSUME PluginTypeOK, NEW cs \in SetPayload
    PROVE  P!BaseOf(cs) \in Nat
  BY DEF P!BaseOf, PluginTypeOK, SetPayload

(* A thread that has nothing to send. *)
LEMMA IdleType == P!Idle \in Thread
  BY DEF P!Idle, Thread

(* Apply.execute. *)
LEMMA ExecuteType ==
    ASSUME PluginTypeOK, NEW t \in P!Threads, NEW cs \in SetPayload, P!Execute(t, cs)
    PROVE  /\ sent' \in Nat
           /\ flight' \in SUBSET Envelope
           /\ threads' \in [P!Threads -> Thread]
           /\ known' \in Nat
           /\ place' \in Places
           /\ offered' \in BOOLEAN
           /\ applies' \in [JournalIds -> ApplyRecords \cup {None}]
           /\ reversed' \in [JournalIds -> Nat]
<1>0. P!BaseOf(cs) \in Nat
  BY BaseType
<1>1. PICK j \in JournalIds :
         /\ P!Fresh(j)
         /\ \/ P!ExecuteRefused(t, cs, j)
            \/ \E ok \in 0..cs.content.ops, partial \in BOOLEAN : P!ExecuteRun(t, cs, j, ok, partial)
         /\ offered' = FALSE /\ UNCHANGED reversed
  BY DEF P!Execute
<1>2. CASE P!ExecuteRefused(t, cs, j)
  <2> DEFINE r == P!Refusal(j, cs, P!BaseOf(cs))
             a == P!ApplyRecord(cs, P!BaseOf(cs), P!BaseOf(cs), 0, 0)
  <2>1. r \in Report /\ a \in ApplyRecords
    BY <1>0, RefusalType DEF Report
  <2>2. known' = P!BaseOf(cs) /\ place' = place /\ P!Send(t, <<r>>, TRUE)
        /\ applies' = [applies EXCEPT ![j] = a]
    BY <1>2 DEF P!ExecuteRefused
  <2> HIDE DEF r, a
  <2>3. <<r>> \in Seq(Report) /\ <<r>> # <<>>
    BY <2>1
  <2>4. place' \in Places
    BY <2>2 DEF PluginTypeOK
  <2>5. sent' \in Nat /\ flight' \in SUBSET Envelope /\ threads' \in [P!Threads -> Thread]
    BY <2>2, <2>3, <2>4, SendType
  <2> QED BY <1>0, <1>1, <2>1, <2>2, <2>4, <2>5 DEF PluginTypeOK
<1>3. ASSUME NEW ok \in 0..cs.content.ops, NEW partial \in BOOLEAN, P!ExecuteRun(t, cs, j, ok, partial)
      PROVE  /\ sent' \in Nat
             /\ flight' \in SUBSET Envelope
             /\ threads' \in [P!Threads -> Thread]
             /\ known' \in Nat
             /\ place' \in Places
             /\ applies' \in [JournalIds -> ApplyRecords \cup {None}]
  <2> DEFINE failed == cs.content.ops - ok
             touched == ok + IF partial THEN 1 ELSE 0
             before == P!BaseOf(cs)
             after == IF touched > 0 THEN before + 1 ELSE before
             result == [kind |-> "apply", journal |-> j, set |-> cs.set, ok |-> ok,
                        failed |-> failed, version |-> after]
             entry == [kind |-> "entry", journal |-> j, set |-> cs.set,
                       before |-> before, after |-> after, n |-> touched]
             a == P!ApplyRecord(cs, before, after, ok, touched)
  <2>1. cs.set \in ChangeSetIds /\ cs.content.ops \in Nat
    BY ContentsAssumption DEF SetPayload
  <2>2. ok \in Nat /\ failed \in Nat /\ touched \in Nat /\ before \in Nat /\ after \in Nat
    BY <1>0, <2>1
  <2>3. result \in Report /\ entry \in Report /\ a \in ApplyRecords
    BY <2>1, <2>2 DEF Report, ApplyReport, EntryReport, ApplyRecords, P!ApplyRecord
  <2>4. /\ known' = after
        /\ place' = [place EXCEPT ![cs.set] = @ + touched]
        /\ \/ P!Send(t, <<result, entry>>, TRUE)
           \/ P!Send(t, <<result>>, TRUE)
        /\ applies' = [applies EXCEPT ![j] = a]
    BY <1>3 DEF P!ExecuteRun
  <2> HIDE DEF failed, touched, before, after, result, entry, a
  <2>5. place' \in Places
    BY <2>1, <2>2, <2>4 DEF PluginTypeOK, Places
  <2>6. /\ <<result, entry>> \in Seq(Report) /\ <<result, entry>> # <<>>
        /\ <<result>> \in Seq(Report) /\ <<result>> # <<>>
    BY <2>3
  <2>7. sent' \in Nat /\ flight' \in SUBSET Envelope /\ threads' \in [P!Threads -> Thread]
    BY <2>4, <2>5, <2>6, SendType
  <2> QED BY <2>2, <2>3, <2>4, <2>5, <2>7 DEF PluginTypeOK
<1> QED BY <1>1, <1>2, <1>3 DEF PluginTypeOK

(* presentNext. *)
LEMMA PresentType ==
    ASSUME PluginTypeOK, NEW t \in P!Threads, NEW waiting \in Seq(SetPayload),
           P!PresentNext(t, waiting)
    PROVE  /\ sent' \in Nat
           /\ flight' \in SUBSET Envelope
           /\ threads' \in [P!Threads -> Thread]
           /\ known' \in Nat \cup {None}
           /\ place' \in Places
           /\ queue' \in Seq(SetPayload)
           /\ pending' \in SetPayload \cup {None}
           /\ offered' \in BOOLEAN
           /\ applies' \in [JournalIds -> ApplyRecords \cup {None}]
           /\ reversed' \in [JournalIds -> Nat]
<1>1. CASE pending # None \/ waiting = <<>>
  BY <1>1, IdleType DEF P!PresentNext, PluginTypeOK
<1>2. CASE ~(pending # None \/ waiting = <<>>)
  <2>1. Head(waiting) \in SetPayload /\ Tail(waiting) \in Seq(SetPayload)
    BY <1>2
  <2>2. PICK auto \in AutoDecisions :
           IF auto /\ ~Head(waiting).content.bulk
           THEN P!Execute(t, Head(waiting)) /\ UNCHANGED pending
           ELSE /\ pending' = Head(waiting)
                /\ offered' = TRUE
                /\ threads' = [threads EXCEPT ![t] = P!Idle]
                /\ UNCHANGED <<known, place, sent, flight, applies, reversed>>
    BY <1>2 DEF P!PresentNext
  <2>3. queue' = Tail(waiting)
    BY <1>2 DEF P!PresentNext
  <2>4. CASE P!Execute(t, Head(waiting)) /\ UNCHANGED pending
    BY <2>1, <2>3, <2>4, ExecuteType DEF PluginTypeOK
  <2>5. CASE /\ pending' = Head(waiting)
             /\ offered' = TRUE
             /\ threads' = [threads EXCEPT ![t] = P!Idle]
             /\ UNCHANGED <<known, place, sent, flight, applies, reversed>>
    BY <2>1, <2>3, <2>5, IdleType DEF PluginTypeOK
  <2> QED BY <2>2, <2>4, <2>5
<1> QED BY <1>1, <1>2

(* A set that cannot be queued, or is rejected by hand, is refused whole. *)
LEMMA RefuseType ==
    ASSUME PluginTypeOK, NEW t \in P!Threads, NEW cs \in SetPayload, NEW presents \in BOOLEAN,
           NEW j \in JournalIds, place' = place,
           P!Send(t, <<P!Refusal(j, cs, P!BaseOf(cs))>>, presents),
           applies' = [applies EXCEPT ![j] =
                          P!ApplyRecord(cs, P!BaseOf(cs), P!BaseOf(cs), 0, 0)]
    PROVE  /\ sent' \in Nat
           /\ flight' \in SUBSET Envelope
           /\ threads' \in [P!Threads -> Thread]
           /\ place' \in Places
           /\ applies' \in [JournalIds -> ApplyRecords \cup {None}]
<1> DEFINE r == P!Refusal(j, cs, P!BaseOf(cs))
           a == P!ApplyRecord(cs, P!BaseOf(cs), P!BaseOf(cs), 0, 0)
<1>1. r \in Report /\ a \in ApplyRecords
  BY BaseType, RefusalType DEF Report
<1>2. P!Send(t, <<r>>, presents) /\ applies' = [applies EXCEPT ![j] = a]
  OBVIOUS
<1> HIDE DEF r, a
<1>3. <<r>> \in Seq(Report) /\ <<r>> # <<>> /\ place' \in Places
  BY <1>1 DEF PluginTypeOK
<1>4. sent' \in Nat /\ flight' \in SUBSET Envelope /\ threads' \in [P!Threads -> Thread]
  BY <1>2, <1>3, SendType
<1> QED BY <1>1, <1>2, <1>3, <1>4 DEF PluginTypeOK

(* transport.onChangeSet. *)
LEMMA ReceiveType ==
    ASSUME PluginTypeOK, NEW t \in P!Threads, NEW cs \in SetPayload, P!Receive(t, cs)
    PROVE  /\ sent' \in Nat
           /\ flight' \in SUBSET Envelope
           /\ threads' \in [P!Threads -> Thread]
           /\ known' \in Nat \cup {None}
           /\ place' \in Places
           /\ queue' \in Seq(SetPayload)
           /\ pending' \in SetPayload \cup {None}
           /\ offered' \in BOOLEAN
           /\ applies' \in [JournalIds -> ApplyRecords \cup {None}]
           /\ reversed' \in [JournalIds -> Nat]
<1>1. CASE Len(queue) >= QueueCap
  <2>1. PICK j \in JournalIds :
           /\ P!Send(t, <<P!Refusal(j, cs, P!BaseOf(cs))>>, FALSE)
           /\ applies' = [applies EXCEPT ![j] =
                             P!ApplyRecord(cs, P!BaseOf(cs), P!BaseOf(cs), 0, 0)]
    BY <1>1 DEF P!Receive
  <2>2. UNCHANGED <<known, place, queue, pending, offered, reversed>>
    BY <1>1 DEF P!Receive
  <2>3. /\ sent' \in Nat /\ flight' \in SUBSET Envelope
        /\ threads' \in [P!Threads -> Thread]
        /\ applies' \in [JournalIds -> ApplyRecords \cup {None}]
    BY <2>1, <2>2, RefuseType
  <2> QED BY <2>2, <2>3 DEF PluginTypeOK
<1>2. CASE ~(Len(queue) >= QueueCap)
  <2>1. Append(queue, cs) \in Seq(SetPayload)
    BY DEF PluginTypeOK
  <2>2. P!PresentNext(t, Append(queue, cs))
    BY <1>2 DEF P!Receive
  <2> QED BY <2>1, <2>2, PresentType
<1> QED BY <1>1, <1>2

(* Rollback.execute, with what it does to the place and to the history. *)
LEMMA ReverseType ==
    ASSUME PluginTypeOK, NEW t \in P!Threads, NEW d \in ReversePayload, P!Reverse(t, d)
    PROVE  /\ sent' \in Nat
           /\ flight' \in SUBSET Envelope
           /\ threads' \in [P!Threads -> Thread]
           /\ known' \in Nat \cup {None}
           /\ place' \in Places
           /\ offered' \in BOOLEAN
           /\ UNCHANGED <<queue, pending, applies>>
           /\ reversed' \in [JournalIds -> Nat]
<1> DEFINE before == IF known = None THEN d.expected ELSE known
<1>1. /\ d.steps \in Nat /\ d.expected \in Nat /\ d.restores \in Nat
      /\ d.journal \in JournalIds /\ d.set \in ChangeSetIds
  BY DEF ReversePayload
<1>2. before \in Nat
  BY <1>1 DEF PluginTypeOK
<1>3. PICK undone \in 0..d.steps :
         /\ \/ known' = P!VersionAfter(d, before, undone) /\ ~P!RollbackRefusal(d)
            \/ known' = known /\ undone = 0
         /\ \E taken \in P!TakenBack(place[d.set], d.steps, undone) :
               place' = [place EXCEPT ![d.set] = @ - taken]
         /\ reversed' = [reversed EXCEPT ![d.journal] = IF undone > @ THEN undone ELSE @]
         /\ P!Send(t, <<[kind |-> "rollback", journal |-> d.journal, set |-> d.set,
                         ok |-> undone, failed |-> d.steps - undone,
                         version |-> P!VersionAfter(d, before, undone)]>>, TRUE)
         /\ offered' = FALSE
         /\ UNCHANGED <<queue, pending, applies>>
  BY DEF P!Reverse
<1> DEFINE after == P!VersionAfter(d, before, undone)
           r == [kind |-> "rollback", journal |-> d.journal, set |-> d.set,
                 ok |-> undone, failed |-> d.steps - undone, version |-> after]
<1>4. after \in Nat
  BY <1>1, <1>2 DEF P!VersionAfter
<1>5. P!Send(t, <<r>>, TRUE)
  BY <1>3
<1>6. known' \in Nat \cup {None}
  BY <1>3, <1>4 DEF PluginTypeOK
<1>7. r \in Report
  <2> HIDE DEF before, after
  <2> QED BY <1>1, <1>4 DEF Report, RollbackReport
<1> HIDE DEF before, after, r
<1>8. place' \in Places
  <2>1. PICK taken \in P!TakenBack(place[d.set], d.steps, undone) :
           place' = [place EXCEPT ![d.set] = @ - taken]
    BY <1>3
  <2>2. place[d.set] \in Nat
    BY <1>1 DEF PluginTypeOK, Places
  <2>3. taken \in Nat /\ taken <= place[d.set]
    BY <2>2, <1>1 DEF P!TakenBack
  <2>4. place[d.set] - taken \in Nat
    BY <2>2, <2>3
  <2> QED BY <1>1, <2>1, <2>4 DEF PluginTypeOK, Places
<1>9. reversed' \in [JournalIds -> Nat]
  BY <1>1, <1>3 DEF PluginTypeOK
<1>10. <<r>> \in Seq(Report) /\ <<r>> # <<>>
  BY <1>7
<1>11. sent' \in Nat /\ flight' \in SUBSET Envelope /\ threads' \in [P!Threads -> Thread]
  BY <1>5, <1>8, <1>10, SendType
<1> QED BY <1>3, <1>6, <1>8, <1>9, <1>11 DEF PluginTypeOK

(* One of the threads that poll. *)
LEMMA PollThreads == {"poll", "stopped"} \subseteq P!Threads /\ UIThreads \subseteq P!Threads
  BY DEF P!Threads

(* A payload is one of the two kinds. *)
LEMMA PayloadKinds ==
    ASSUME NEW d \in Delivery
    PROVE  /\ d.link \in LinkIds /\ d.nonce \in Nat
           /\ d.payload.kind = "rollback" => d.payload \in ReversePayload
           /\ d.payload.kind # "rollback" => d.payload \in SetPayload
  BY DEF Delivery, Payload, ReversePayload, SetPayload

(* Every stretch of a plugin thread keeps the plugin well typed. *)
LEMMA DeliverType ==
    ASSUME PluginTypeOK, NEW t, NEW d \in Delivery, NEW missed, P!Deliver(t, d, missed)
    PROVE  PluginTypeOK'
<1>1. t \in P!Threads
  BY PollThreads DEF P!Deliver
<1>2. d.link \in LinkIds /\ d.nonce \in Nat
  BY PayloadKinds
<1>3. cursor' \in Nat /\ saved' \in Nat /\ lastPoll' \in Nat \cup {None} /\ link' \in LinkIds \cup {None}
  BY <1>2 DEF P!Deliver, P!Unwrap, PluginTypeOK
<1>4. CASE d.payload.kind = "rollback"
  <2>1. d.payload \in ReversePayload /\ P!Reverse(t, d.payload)
    BY <1>4, PayloadKinds DEF P!Deliver
  <2> QED BY <1>1, <1>3, <2>1, ReverseType DEF PluginTypeOK
<1>5. CASE d.payload.kind # "rollback"
  <2>1. d.payload \in SetPayload /\ P!Receive(t, d.payload)
    BY <1>5, PayloadKinds DEF P!Deliver
  <2> QED BY <1>1, <1>3, <2>1, ReceiveType DEF PluginTypeOK
<1> QED BY <1>4, <1>5

(* A thread that goes on with its reports, or ends, stays well typed. *)
LEMMA ResumeType ==
    ASSUME PluginTypeOK, NEW t \in P!Threads, P!Resume(t)
    PROVE  PluginTypeOK'
<1>1. threads[t] \in Thread
  BY DEF PluginTypeOK
<1>2. CASE threads[t].rest # <<>>
  <2>1. P!Send(t, threads[t].rest, threads[t].presents)
        /\ UNCHANGED <<queue, pending, offered, known, place, applies, reversed>>
        /\ UNCHANGED <<link, saved, cursor, lastPoll>>
    BY <1>2 DEF P!Resume
  <2>2. threads[t].rest \in Seq(Report) /\ threads[t].presents \in BOOLEAN
    BY <1>1 DEF Thread
  <2>3. place' \in Places
    BY <2>1 DEF PluginTypeOK
  <2>4. sent' \in Nat /\ flight' \in SUBSET Envelope /\ threads' \in [P!Threads -> Thread]
    BY <1>2, <2>1, <2>2, <2>3, SendType
  <2> QED BY <2>1, <2>4 DEF PluginTypeOK
<1>3. CASE threads[t].rest = <<>> /\ threads[t].presents
  <2>1. P!PresentNext(t, queue) /\ UNCHANGED <<link, saved, cursor, lastPoll>>
    BY <1>3 DEF P!Resume
  <2>2. queue \in Seq(SetPayload)
    BY DEF PluginTypeOK
  <2> QED BY <2>1, <2>2, PresentType DEF PluginTypeOK
<1>4. CASE threads[t].rest = <<>> /\ ~threads[t].presents
  <2>1. /\ threads' = [threads EXCEPT ![t] = P!Idle]
        /\ UNCHANGED <<queue, pending, offered, known, place, sent, flight, applies, reversed>>
        /\ UNCHANGED <<link, saved, cursor, lastPoll>>
    BY <1>4 DEF P!Resume
  <2> QED BY <2>1, IdleType DEF PluginTypeOK
<1> QED BY <1>2, <1>3, <1>4

(* A decision on the set under review takes it off the screen and leaves   *)
(* everything well typed.                                                  *)
LEMMA DecideType ==
    ASSUME PluginTypeOK, NEW t \in P!Threads, P!ApproveInStudio(t) \/ P!RejectInStudio(t)
    PROVE  PluginTypeOK'
<1>1. CASE P!ApproveInStudio(t)
  <2>1. pending \in SetPayload /\ P!Execute(t, pending) /\ pending' = None
        /\ UNCHANGED <<link, saved, cursor, queue, lastPoll>>
    BY <1>1 DEF P!ApproveInStudio, PluginTypeOK
  <2> QED BY <2>1, ExecuteType DEF PluginTypeOK
<1>2. CASE P!RejectInStudio(t)
  <2>1. pending \in SetPayload /\ pending' = None /\ offered' = FALSE
        /\ UNCHANGED <<link, saved, cursor, known, place, queue, lastPoll, reversed>>
    BY <1>2 DEF P!RejectInStudio, PluginTypeOK
  <2>2. PICK j \in JournalIds :
           /\ P!Send(t, <<P!Refusal(j, pending, P!BaseOf(pending))>>, TRUE)
           /\ applies' = [applies EXCEPT ![j] =
                             P!ApplyRecord(pending, P!BaseOf(pending), P!BaseOf(pending), 0, 0)]
    BY <1>2 DEF P!RejectInStudio
  <2>3. /\ sent' \in Nat /\ flight' \in SUBSET Envelope
        /\ threads' \in [P!Threads -> Thread] /\ place' \in Places
        /\ applies' \in [JournalIds -> ApplyRecords \cup {None}]
    BY <2>1, <2>2, RefuseType
  <2> QED BY <2>1, <2>3 DEF PluginTypeOK
<1> QED BY <1>1, <1>2

(* Connecting anew, restarting Studio and storing a new link leave the     *)
(* plugin well typed.                                                      *)
LEMMA ConnectType ==
    ASSUME PluginTypeOK,
           P!Reconnect \/ P!StudioRestart \/ \E l \in LinkIds : P!StoreLink(l)
    PROVE  PluginTypeOK'
<1>1. P!Idle \in Thread /\ "poll" \in P!Threads
  BY IdleType, PollThreads
<1>2. threads["poll"] \in Thread
  BY <1>1 DEF PluginTypeOK
<1>3. CASE P!Reconnect
  BY <1>1, <1>2, <1>3 DEF P!Reconnect, PluginTypeOK, P!persistent
<1>4. CASE P!StudioRestart
  <2>1. <<>> \in Seq(SetPayload)
    OBVIOUS
  <2>2. threads' \in [P!Threads -> Thread]
    BY <1>1, <1>4 DEF P!StudioRestart
  <2> QED BY <1>4, <2>1, <2>2 DEF P!StudioRestart, PluginTypeOK, P!persistent
<1>5. ASSUME NEW l \in LinkIds, P!StoreLink(l)
      PROVE  PluginTypeOK'
  BY <1>1, <1>2, <1>5 DEF P!StoreLink, PluginTypeOK
<1> QED BY <1>3, <1>4, <1>5

(* The daemon's handler of an envelope that arrives. *)
LEMMA ArriveType ==
    ASSUME BridgeTypeInv, NEW m \in flight, Arrive(m)
    PROVE  BridgeTypeInv'
<1> DEFINE r == m.report
           o == [ok |-> r.ok, failed |-> r.failed]
<1>1. m \in Envelope /\ r \in Report
  BY DEF BridgeTypeInv, PluginTypeOK, Envelope
<1>2. PluginTypeOK'
  BY DEF Arrive, BridgeTypeInv, PluginTypeOK
<1>3. CASE ~Authentic(m)
  BY <1>2, <1>3 DEF Arrive, BridgeTypeInv, TypeInv, TypeOK, KeysArePaired, vars, store, history
<1>4. CASE Authentic(m)
  <2>1. m.link \in LinkIds /\ m.nonce \in Nat
    BY <1>1, <1>4 DEF Authentic, BridgeTypeInv, TypeInv, TypeOK, Envelope
  <2>2. CASE r.kind = "apply"
    <3>1. r \in ApplyReport
      BY <1>1, <2>2 DEF Report, ApplyReport, EntryReport, RollbackReport
    <3>2. ApplyResult(m.link, m.nonce, r.set, r.journal, r.ok, r.failed, r.version)
      BY <1>4, <2>2 DEF Arrive
    <3> HIDE DEF r
    <3>3. TypeInv'
      BY <2>1, <3>1, <3>2, ApplyResultType DEF ApplyReport, BridgeTypeInv
    <3> QED BY <1>2, <3>3 DEF BridgeTypeInv
  <2>3. CASE r.kind = "entry"
    <3>1. r \in EntryReport
      BY <1>1, <2>3 DEF Report, ApplyReport, EntryReport, RollbackReport
    <3>2. JournalEntry(m.link, m.nonce, r.journal, r.set, r.before, r.after, r.n)
      BY <1>4, <2>3 DEF Arrive
    <3> HIDE DEF r
    <3>3. TypeInv'
      BY <2>1, <3>1, <3>2, JournalEntryType DEF EntryReport, BridgeTypeInv
    <3> QED BY <1>2, <3>3 DEF BridgeTypeInv
  <2>4. CASE r.kind = "rollback"
    <3>1. r \in RollbackReport
      BY <1>1, <2>4 DEF Report, ApplyReport, EntryReport, RollbackReport
    <3>2. ReportRollback(m.link, m.nonce, r.journal, r.set, o, r.version)
      BY <1>4, <2>4 DEF Arrive
    <3> HIDE DEF r
    <3>3. o \in RollbackResult
      BY <3>1 DEF RollbackReport, RollbackResult
    <3> HIDE DEF o
    <3>4. TypeInv'
      BY <2>1, <3>1, <3>2, <3>3, ReportRollbackType DEF RollbackReport, BridgeTypeInv
    <3> QED BY <1>2, <3>4 DEF BridgeTypeInv
  <2> QED BY <1>1, <2>2, <2>3, <2>4 DEF Report, ApplyReport, EntryReport, RollbackReport
<1> QED BY <1>3, <1>4

(* A poll and the loop that gets its answer. *)
LEMMA HandOverType ==
    ASSUME BridgeTypeInv, NEW t \in {"poll", "stopped"}, HandOver(t)
    PROVE  BridgeTypeInv'
<1> DEFINE since == IF t = "poll" THEN cursor ELSE lastPoll
<1>1. Poll(link, since) /\ link \in LinkIds /\ since \in Nat
  BY DEF HandOver, Poll, BridgeTypeInv, TypeInv, TypeOK, PluginTypeOK
<1>2. PICK d \in NextDelivery(link, since) : P!Deliver(t, d, scenario.missedWrites)
  BY DEF HandOver
<1>3. d \in Delivery
  BY DEF NextDelivery, BridgeTypeInv, TypeInv, TypeOK
<1> HIDE DEF since
<1> QED BY <1>1, <1>2, <1>3, PollType, DeliverType DEF BridgeTypeInv

(* The plugin is untouched by most of the daemon's handlers, and the       *)
(* daemon by most of what goes on in the plugin.                           *)
LEMMA PluginUntouched == PluginTypeOK /\ UNCHANGED pluginVars => PluginTypeOK'
  BY DEF PluginTypeOK, pluginVars
(* The daemon's types do not depend on what goes on in the plugin. *)
LEMMA DaemonUntouched == TypeInv /\ UNCHANGED vars => TypeInv'
  BY DEF TypeInv, TypeOK, KeysArePaired, vars, store, history

(* Every step of the two together keeps both well typed. *)
LEMMA BridgeTypeStep == BridgeTypeInv /\ [BridgeNext]_<<scenario, bridgeVars>> => BridgeTypeInv'
<1> SUFFICES ASSUME BridgeTypeInv, [BridgeNext]_<<scenario, bridgeVars>>
             PROVE  BridgeTypeInv'
  OBVIOUS
<1>0. TypeInv /\ PluginTypeOK
  BY DEF BridgeTypeInv
<1>1. ASSUME NEW t \in {"poll", "stopped"}, HandOver(t)
      PROVE  BridgeTypeInv'
  BY <1>1, HandOverType
<1>2. ASSUME NEW m \in flight, Arrive(m)
      PROVE  BridgeTypeInv'
  BY <1>2, ArriveType
<1>3. ASSUME NEW t \in P!Threads, Continue(t)
      PROVE  BridgeTypeInv'
  BY <1>0, <1>3, ResumeType, DaemonUntouched DEF Continue, BridgeTypeInv
<1>4. ASSUME LoseAnswer
      PROVE  BridgeTypeInv'
  <2>1. Poll(link, cursor) /\ link \in LinkIds /\ cursor \in Nat /\ UNCHANGED pluginVars
    BY <1>0, <1>4 DEF LoseAnswer, Poll, TypeInv, TypeOK, PluginTypeOK
  <2> QED BY <1>0, <2>1, PollType, PluginUntouched DEF BridgeTypeInv
<1>5. ASSUME NEW m \in flight, Lose(m)
      PROVE  BridgeTypeInv'
  <2>1. UNCHANGED vars /\ PluginTypeOK'
    BY <1>0, <1>5 DEF Lose, PluginTypeOK
  <2> QED BY <1>0, <2>1, DaemonUntouched DEF BridgeTypeInv
<1>6. ASSUME PressConnect \/ RestartStudio
      PROVE  BridgeTypeInv'
  BY <1>0, <1>6, ConnectType, DaemonUntouched DEF PressConnect, RestartStudio, BridgeTypeInv
<1>7. ASSUME RestartDaemon
      PROVE  BridgeTypeInv'
  BY <1>0, <1>7, RestartType, PluginUntouched DEF RestartDaemon, BridgeTypeInv
<1>8. ASSUME NEW l \in LinkIds, NEW p \in Projects, PairStudio(l, p)
      PROVE  BridgeTypeInv'
  BY <1>0, <1>8, PairType, ConnectType DEF PairStudio, BridgeTypeInv
<1>9. ASSUME NEW s \in ChangeSetIds, NEW p \in Projects, NEW c \in Contents, Propose(s, p, c)
      PROVE  BridgeTypeInv'
  <2>1. version[p] \in Nat /\ SubmitChangeSet(s, p, version[p], c) /\ UNCHANGED pluginVars
    BY <1>0, <1>9 DEF Propose, TypeInv, TypeOK
  <2> QED BY <1>0, <2>1, SubmitType, PluginUntouched DEF BridgeTypeInv
<1>10. ASSUME NEW s \in ChangeSetIds, NEW c \in Contents, ApproveProposal(s, c)
       PROVE  BridgeTypeInv'
  BY <1>0, <1>10, ApproveType, PluginUntouched DEF ApproveProposal, BridgeTypeInv
<1>11. ASSUME NEW j \in JournalIds, AskRollback(j)
       PROVE  BridgeTypeInv'
  <2>1. version[journals[j].project] \in Nat
    BY <1>0, <1>11 DEF AskRollback, TypeInv, TypeOK, JournalRecord
  <2>2. RequestRollback(j, version[journals[j].project]) /\ UNCHANGED pluginVars
    BY <1>11 DEF AskRollback
  <2> QED BY <1>0, <2>1, <2>2, RequestType, PluginUntouched DEF BridgeTypeInv
<1>12. ASSUME NEW t \in UIThreads, Decide(t)
       PROVE  BridgeTypeInv'
  <2>1. t \in P!Threads
    BY PollThreads
  <2> QED BY <1>0, <1>12, <2>1, DecideType, DaemonUntouched DEF Decide, BridgeTypeInv
<1>13. ASSUME UNCHANGED <<scenario, bridgeVars>>
       PROVE  BridgeTypeInv'
  BY <1>0, <1>13, PluginUntouched, DaemonUntouched DEF bridgeVars, BridgeTypeInv
<1> QED
  BY <1>1, <1>2, <1>3, <1>4, <1>5, <1>6, <1>7, <1>8, <1>9, <1>10, <1>11, <1>12, <1>13
  DEF BridgeNext, Network, Faults, People

(* Initially the plugin has done nothing. *)
LEMMA BridgeTypeInit == BridgeInit => BridgeTypeInv
<1> SUFFICES ASSUME BridgeInit
             PROVE  BridgeTypeInv
  OBVIOUS
<1>1. TypeInv
  BY TypeInit DEF BridgeInit
<1>2. PluginTypeOK
  <2>1. <<>> \in Seq(SetPayload) /\ P!Idle \in Thread
    BY IdleType
  <2> QED BY <2>1 DEF BridgeInit, P!Init, PluginTypeOK, Places
<1> QED BY <1>1, <1>2 DEF BridgeTypeInv

-----------------------------------------------------------------------------
(* What is on record, on its way or under review is true of what the       *)
(* plugin did.  The tables a statement is compared with are parameters:    *)
(* the ChangeSets stored, the applies and the reversals carried out.       *)

(* A set the plugin holds is the one that is stored. *)
TrueSet(cs, sets) ==
    /\ sets[cs.set] # None
    /\ sets[cs.set].base = cs.base
    /\ sets[cs.set].content = cs.content

(* ... and a reversal it is told to carry out has the inverses of its      *)
(* apply.                                                                  *)
TruePayload(p, sets, did) ==
    /\ p.kind = "changeset" => TrueSet(p, sets)
    /\ p.kind = "rollback" =>
          did[p.journal] # None /\ p.steps = did[p.journal].inverses

TrueReport(r, sets, did, undid) ==
    /\ r.kind = "apply" =>
          /\ did[r.journal] # None
          /\ did[r.journal].set = r.set
          /\ did[r.journal].after = r.version
          /\ did[r.journal].ok = r.ok
          /\ sets[r.set] # None
          /\ r.ok + r.failed = sets[r.set].content.ops
    /\ r.kind = "entry" =>
          /\ did[r.journal] # None
          /\ did[r.journal].before = r.before
          /\ did[r.journal].inverses = r.n
    /\ r.kind = "rollback" => r.ok <= undid[r.journal]

(* The reports sealed and the reports a thread still has to send. *)
ReportsTrue(sets, did, undid, sealed, waiting) ==
    /\ \A m \in sealed : TrueReport(m.report, sets, did, undid)
    /\ \A t \in P!Threads : \A i \in DOMAIN waiting[t].rest :
          TrueReport(waiting[t].rest[i], sets, did, undid)

(* The sets the plugin waits to present, and the one on screen. *)
ReviewTrue(sets, waiting, shown) ==
    /\ \A i \in DOMAIN waiting : TrueSet(waiting[i], sets)
    /\ shown # None => TrueSet(shown, sets)

RecordTrue(j) ==
    /\ journals[j] # None =>
          /\ applies[j] # None
          /\ applies[j].set = journals[j].set
          /\ applies[j].after = journals[j].after
    /\ entries[j] # None =>
          /\ journals[j] # None
          /\ entries[j] = applies[j].inverses
          /\ journals[j].before = applies[j].before
    /\ reversed[j] > 0 => applies[j] # None /\ reversed[j] <= applies[j].inverses
    /\ results[j] # None => results[j].ok <= reversed[j]
    /\ journals[j] # None /\ journals[j].rolledBack =>
          entries[j] # None /\ entries[j] <= reversed[j]

(* A set recorded as applied was applied in full. *)
AppliedInFull(s) ==
    changeSets[s] # None /\ changeSets[s].status = "applied" =>
       \E k \in JournalIds :
          /\ applies[k] # None
          /\ applies[k].set = s
          /\ applies[k].ok = changeSets[s].content.ops

(* An apply on record is of a set that is stored. *)
Stored(j) == journals[j] # None => changeSets[journals[j].set] # None

TruthInv ==
    /\ ReportsTrue(changeSets, applies, reversed, flight, threads)
    /\ ReviewTrue(changeSets, queue, pending)
    /\ \A d \in deliveries : TruePayload(d.payload, changeSets, applies)
    /\ \A j \in JournalIds : RecordTrue(j) /\ Stored(j)
    /\ \A s \in ChangeSetIds : AppliedInFull(s)

(* What is true stays true: a stored set keeps its content, an apply of    *)
(* the history is never written again, and reversals only add up.          *)
SetsGrow ==
    \A s \in ChangeSetIds : changeSets[s] # None =>
       /\ changeSets'[s] # None
       /\ changeSets'[s].base = changeSets[s].base
       /\ changeSets'[s].content = changeSets[s].content
       /\ changeSets'[s].project = changeSets[s].project
HistoryGrows ==
    /\ \A j \in JournalIds : applies[j] # None => applies'[j] = applies[j]
    /\ \A j \in JournalIds : reversed'[j] \in Nat /\ reversed'[j] >= reversed[j]

(* A true report stays true while sets keep their contents and the history *)
(* grows.                                                                  *)
LEMMA ReportStays ==
    ASSUME PluginTypeOK, SetsGrow, HistoryGrows, NEW r \in Report,
           TrueReport(r, changeSets, applies, reversed)
    PROVE  TrueReport(r, changeSets', applies', reversed')
<1>1. r.journal \in JournalIds /\ r.set \in ChangeSetIds
  BY DEF Report, ApplyReport, EntryReport, RollbackReport
<1>2. r.kind = "rollback" => r.ok \in Nat
  BY DEF Report, ApplyReport, EntryReport, RollbackReport
<1>3. reversed[r.journal] \in Nat
  BY <1>1 DEF PluginTypeOK
<1> QED BY <1>1, <1>2, <1>3 DEF TrueReport, SetsGrow, HistoryGrows

(* Hence so do all reports that are sealed or unsent. *)
LEMMA ReportsStay ==
    ASSUME PluginTypeOK, SetsGrow, HistoryGrows,
           ReportsTrue(changeSets, applies, reversed, flight, threads)
    PROVE  ReportsTrue(changeSets', applies', reversed', flight, threads)
<1>1. \A m \in flight : m.report \in Report
  BY DEF PluginTypeOK, Envelope
<1>2. \A t \in P!Threads : \A i \in DOMAIN threads[t].rest : threads[t].rest[i] \in Report
  <2>1. \A t \in P!Threads : threads[t].rest \in Seq(Report)
    BY DEF PluginTypeOK, Thread
  <2> QED BY <2>1
<1> QED BY <1>1, <1>2, ReportStays DEF ReportsTrue

(* A payload that tells a set as it was proposed goes on telling it. *)
LEMMA SetStays ==
    ASSUME SetsGrow, NEW cs \in SetPayload, TrueSet(cs, changeSets)
    PROVE  TrueSet(cs, changeSets')
  BY DEF SetsGrow, TrueSet, SetPayload

(* Hence what is queued for review and on screen stays true. *)
LEMMA ReviewStays ==
    ASSUME PluginTypeOK, SetsGrow, ReviewTrue(changeSets, queue, pending)
    PROVE  ReviewTrue(changeSets', queue, pending)
<1>1. \A i \in DOMAIN queue : queue[i] \in SetPayload
  BY DEF PluginTypeOK
<1>2. pending # None => pending \in SetPayload
  BY DEF PluginTypeOK
<1> QED BY <1>1, <1>2, SetStays DEF ReviewTrue

(* Hence what waits in a link's queue stays true. *)
LEMMA PayloadStays ==
    ASSUME TypeInv, SetsGrow, HistoryGrows, NEW d \in deliveries,
           TruePayload(d.payload, changeSets, applies)
    PROVE  TruePayload(d.payload, changeSets', applies')
<1>1. d \in Delivery
  BY DEF TypeInv, TypeOK
<1>2. d.payload.kind = "changeset" => d.payload \in SetPayload
  BY <1>1, PayloadKinds
<1>3. d.payload.kind = "rollback" => d.payload.journal \in JournalIds
  BY <1>1, PayloadKinds DEF ReversePayload
<1>4. d.payload.kind = "rollback" => TruePayload(d.payload, changeSets', applies')
  BY <1>3 DEF TruePayload, HistoryGrows
<1>5. d.payload.kind = "changeset" => TruePayload(d.payload, changeSets', applies')
  BY <1>2, SetStays DEF TruePayload
<1>6. d.payload.kind \in {"changeset", "rollback"}
  BY <1>1 DEF Delivery, Payload
<1> QED BY <1>4, <1>5, <1>6

(* Sealing true reports leaves only true ones. *)
LEMMA SendTrue ==
    ASSUME PluginTypeOK, NEW S, NEW A, NEW R, NEW t \in P!Threads,
           NEW reports \in Seq(Report), reports # <<>>, NEW presents,
           ReportsTrue(S, A, R, flight, threads),
           \A i \in DOMAIN reports : TrueReport(reports[i], S, A, R),
           P!Send(t, reports, presents)
    PROVE  ReportsTrue(S, A, R, flight', threads')
<1>1. TrueReport(Head(reports), S, A, R)
  OBVIOUS
<1>2. \A m \in flight' : TrueReport(m.report, S, A, R)
  <2> DEFINE m == [link |-> link, nonce |-> sent + 1, report |-> Head(reports), place |-> place']
  <2>1. flight' = flight \cup {m} /\ m.report = Head(reports)
    BY DEF P!Send
  <2> HIDE DEF m
  <2> QED BY <1>1, <2>1 DEF ReportsTrue
<1>3. ASSUME NEW u \in P!Threads, NEW i \in DOMAIN threads'[u].rest
      PROVE  TrueReport(threads'[u].rest[i], S, A, R)
  <2>1. CASE u = t
    <3>1. threads'[u].rest = Tail(reports)
      BY <2>1 DEF P!Send, PluginTypeOK
    <3>2. i \in 1..Len(Tail(reports)) /\ Tail(reports)[i] = reports[i + 1] /\ i + 1 \in DOMAIN reports
      BY <3>1, <1>3
    <3> QED BY <3>1, <3>2
  <2>2. CASE u # t
    <3>1. threads'[u] = threads[u]
      BY <2>2 DEF P!Send, PluginTypeOK
    <3> QED BY <3>1, <1>3 DEF ReportsTrue
  <2> QED BY <2>1, <2>2
<1> QED BY <1>2, <1>3 DEF ReportsTrue

(* ... and so does a thread that ends. *)
LEMMA IdleTrue ==
    ASSUME PluginTypeOK, NEW S, NEW A, NEW R, NEW t \in P!Threads,
           ReportsTrue(S, A, R, flight, threads),
           threads' = [threads EXCEPT ![t] = P!Idle], flight' = flight
    PROVE  ReportsTrue(S, A, R, flight', threads')
<1>1. P!Idle.rest = <<>>
  BY DEF P!Idle
<1> QED BY <1>1 DEF ReportsTrue, PluginTypeOK

(* newId mints an id never used before, so an apply adds to the history. *)
LEMMA NewApply ==
    ASSUME PluginTypeOK, NEW j \in JournalIds, P!Fresh(j), NEW a \in ApplyRecords,
           applies' = [applies EXCEPT ![j] = a], reversed' = reversed
    PROVE  HistoryGrows /\ applies'[j] = a /\ a # None
  BY AppliesAssumption DEF P!Fresh, HistoryGrows, PluginTypeOK

(* A refusal says what happened: nothing. *)
LEMMA RefuseTrue ==
    ASSUME PluginTypeOK, SetsGrow, NEW t \in P!Threads, NEW cs \in SetPayload,
           NEW presents \in BOOLEAN, NEW j \in JournalIds, P!Fresh(j),
           TrueSet(cs, changeSets'),
           ReportsTrue(changeSets, applies, reversed, flight, threads),
           P!Send(t, <<P!Refusal(j, cs, P!BaseOf(cs))>>, presents),
           applies' = [applies EXCEPT ![j] =
                          P!ApplyRecord(cs, P!BaseOf(cs), P!BaseOf(cs), 0, 0)],
           reversed' = reversed
    PROVE  /\ HistoryGrows
           /\ ReportsTrue(changeSets', applies', reversed', flight', threads')
<1> DEFINE r == P!Refusal(j, cs, P!BaseOf(cs))
           a == P!ApplyRecord(cs, P!BaseOf(cs), P!BaseOf(cs), 0, 0)
<1>1. r \in ApplyReport /\ r \in Report /\ a \in ApplyRecords
  BY BaseType, RefusalType DEF Report
<1>2. HistoryGrows /\ applies'[j] = a /\ a # None
  BY <1>1, NewApply
<1>3. TrueReport(r, changeSets', applies', reversed')
  <2>1. cs.content.ops \in Nat
    BY ContentsAssumption DEF SetPayload
  <2> QED BY <1>2, <2>1 DEF TrueReport, TrueSet, P!Refusal, P!ApplyRecord
<1>4. ReportsTrue(changeSets', applies', reversed', flight, threads)
  BY <1>2, ReportsStay
<1>5. P!Send(t, <<r>>, presents)
  OBVIOUS
<1> HIDE DEF r, a
<1>6. <<r>> \in Seq(Report) /\ <<r>> # <<>>
  BY <1>1
<1>7. \A i \in DOMAIN <<r>> : TrueReport(<<r>>[i], changeSets', applies', reversed')
  BY <1>3
<1>8. ReportsTrue(changeSets', applies', reversed', flight', threads')
  BY <1>4, <1>5, <1>6, <1>7, SendTrue
<1> QED BY <1>2, <1>8

(* Apply.execute reports what it did. *)
LEMMA ExecuteTrue ==
    ASSUME PluginTypeOK, SetsGrow, NEW t \in P!Threads, NEW cs \in SetPayload,
           TrueSet(cs, changeSets'),
           ReportsTrue(changeSets, applies, reversed, flight, threads),
           P!Execute(t, cs)
    PROVE  /\ HistoryGrows
           /\ ReportsTrue(changeSets', applies', reversed', flight', threads')
           /\ reversed' = reversed
<1>1. PICK j \in JournalIds :
         /\ P!Fresh(j)
         /\ \/ P!ExecuteRefused(t, cs, j)
            \/ \E ok \in 0..cs.content.ops, partial \in BOOLEAN : P!ExecuteRun(t, cs, j, ok, partial)
         /\ offered' = FALSE /\ UNCHANGED reversed
  BY DEF P!Execute
<1>2. CASE P!ExecuteRefused(t, cs, j)
  BY <1>1, <1>2, RefuseTrue DEF P!ExecuteRefused
<1>3. ASSUME NEW ok \in 0..cs.content.ops, NEW partial \in BOOLEAN, P!ExecuteRun(t, cs, j, ok, partial)
      PROVE  /\ HistoryGrows
             /\ ReportsTrue(changeSets', applies', reversed', flight', threads')
  <2> DEFINE failed == cs.content.ops - ok
             touched == ok + IF partial THEN 1 ELSE 0
             before == P!BaseOf(cs)
             after == IF touched > 0 THEN before + 1 ELSE before
             result == [kind |-> "apply", journal |-> j, set |-> cs.set, ok |-> ok,
                        failed |-> failed, version |-> after]
             entry == [kind |-> "entry", journal |-> j, set |-> cs.set,
                       before |-> before, after |-> after, n |-> touched]
             a == P!ApplyRecord(cs, before, after, ok, touched)
  <2>1. cs.set \in ChangeSetIds /\ cs.content.ops \in Nat
    BY ContentsAssumption DEF SetPayload
  <2>2. ok \in Nat /\ failed \in Nat /\ touched \in Nat /\ before \in Nat /\ after \in Nat
        /\ ok + failed = cs.content.ops
    BY <2>1, BaseType
  <2>3. /\ \/ P!Send(t, <<result, entry>>, TRUE)
           \/ P!Send(t, <<result>>, TRUE)
        /\ applies' = [applies EXCEPT ![j] = a]
    BY <1>3 DEF P!ExecuteRun
  <2> HIDE DEF failed, touched, before, after
  <2>4. result \in Report /\ entry \in Report /\ a \in ApplyRecords
    BY <2>1, <2>2 DEF Report, ApplyReport, EntryReport, ApplyRecords, P!ApplyRecord
  <2>5. HistoryGrows /\ applies'[j] = a /\ a # None
    BY <1>1, <2>3, <2>4, NewApply
  <2>6. TrueReport(result, changeSets', applies', reversed')
    BY <2>2, <2>5 DEF TrueReport, TrueSet, P!ApplyRecord
  <2>7. TrueReport(entry, changeSets', applies', reversed')
    BY <2>2, <2>5 DEF TrueReport, P!ApplyRecord
  <2>8. ReportsTrue(changeSets', applies', reversed', flight, threads)
    BY <2>5, ReportsStay
  <2> HIDE DEF result, entry, a
  <2>9. /\ <<result, entry>> \in Seq(Report) /\ <<result, entry>> # <<>>
        /\ <<result>> \in Seq(Report) /\ <<result>> # <<>>
    BY <2>4
  <2>10. /\ \A i \in DOMAIN <<result, entry>> :
               TrueReport(<<result, entry>>[i], changeSets', applies', reversed')
         /\ \A i \in DOMAIN <<result>> :
               TrueReport(<<result>>[i], changeSets', applies', reversed')
    BY <2>6, <2>7
  <2>11. ReportsTrue(changeSets', applies', reversed', flight', threads')
    BY <2>3, <2>8, <2>9, <2>10, SendTrue
  <2> QED BY <2>5, <2>11
<1> QED BY <1>1, <1>2, <1>3

(* The plugin's history stands still. *)
LEMMA HistoryStands ==
    ASSUME PluginTypeOK, UNCHANGED <<applies, reversed>>
    PROVE  HistoryGrows
  BY DEF HistoryGrows, PluginTypeOK

(* presentNext takes the head of the queue, or nothing. *)
LEMMA PresentTrue ==
    ASSUME PluginTypeOK, SetsGrow, NEW t \in P!Threads, NEW waiting \in Seq(SetPayload),
           ReviewTrue(changeSets', waiting, pending),
           ReportsTrue(changeSets, applies, reversed, flight, threads),
           P!PresentNext(t, waiting)
    PROVE  /\ HistoryGrows
           /\ ReportsTrue(changeSets', applies', reversed', flight', threads')
           /\ ReviewTrue(changeSets', queue', pending')
           /\ reversed' = reversed
<1>1. CASE pending # None \/ waiting = <<>>
  <2>1. /\ queue' = waiting /\ threads' = [threads EXCEPT ![t] = P!Idle]
        /\ UNCHANGED <<pending, applies, reversed, flight>>
    BY <1>1 DEF P!PresentNext
  <2>2. HistoryGrows
    BY <2>1, HistoryStands
  <2>3. ReportsTrue(changeSets', applies', reversed', flight, threads)
    BY <2>2, ReportsStay
  <2>4. ReportsTrue(changeSets', applies', reversed', flight', threads')
    BY <2>1, <2>3, IdleTrue
  <2> QED BY <2>1, <2>2, <2>4
<1>2. CASE ~(pending # None \/ waiting = <<>>)
  <2>1. Head(waiting) \in SetPayload /\ TrueSet(Head(waiting), changeSets')
    BY <1>2 DEF ReviewTrue
  <2>2. PICK auto \in AutoDecisions :
           IF auto /\ ~Head(waiting).content.bulk
           THEN P!Execute(t, Head(waiting)) /\ UNCHANGED pending
           ELSE /\ pending' = Head(waiting)
                /\ offered' = TRUE
                /\ threads' = [threads EXCEPT ![t] = P!Idle]
                /\ UNCHANGED <<known, place, sent, flight, applies, reversed>>
    BY <1>2 DEF P!PresentNext
  <2>3. queue' = Tail(waiting)
    BY <1>2 DEF P!PresentNext
  <2>4. ASSUME NEW i \in DOMAIN Tail(waiting)
        PROVE  TrueSet(Tail(waiting)[i], changeSets')
    <3>1. Tail(waiting)[i] = waiting[i + 1] /\ i + 1 \in DOMAIN waiting
      BY <1>2, <2>4
    <3> QED BY <3>1 DEF ReviewTrue
  <2>5. CASE P!Execute(t, Head(waiting)) /\ UNCHANGED pending
    <3>1. /\ HistoryGrows /\ reversed' = reversed
          /\ ReportsTrue(changeSets', applies', reversed', flight', threads')
      BY <2>1, <2>5, ExecuteTrue
    <3> QED BY <2>3, <2>4, <2>5, <3>1 DEF ReviewTrue
  <2>6. CASE /\ pending' = Head(waiting)
             /\ threads' = [threads EXCEPT ![t] = P!Idle]
             /\ UNCHANGED <<known, place, sent, flight, applies, reversed>>
    <3>1. HistoryGrows
      BY <2>6, HistoryStands
    <3>2. ReportsTrue(changeSets', applies', reversed', flight, threads)
      BY <3>1, ReportsStay
    <3>3. ReportsTrue(changeSets', applies', reversed', flight', threads')
      BY <2>6, <3>2, IdleTrue
    <3> QED BY <2>1, <2>3, <2>4, <2>6, <3>1, <3>3 DEF ReviewTrue
  <2> QED BY <2>2, <2>5, <2>6
<1> QED BY <1>1, <1>2

(* A delivered set is refused, queued or shown as the daemon holds it, and *)
(* the reports stay true.                                                  *)
LEMMA ReceiveTrue ==
    ASSUME PluginTypeOK, SetsGrow, NEW t \in P!Threads, NEW cs \in SetPayload,
           TrueSet(cs, changeSets'), ReviewTrue(changeSets, queue, pending),
           ReportsTrue(changeSets, applies, reversed, flight, threads),
           P!Receive(t, cs)
    PROVE  /\ HistoryGrows
           /\ ReportsTrue(changeSets', applies', reversed', flight', threads')
           /\ ReviewTrue(changeSets', queue', pending')
           /\ reversed' = reversed
<1>0. ReviewTrue(changeSets', queue, pending)
  BY ReviewStays
<1>1. CASE Len(queue) >= QueueCap
  <2>1. PICK j \in JournalIds :
           /\ P!Fresh(j)
           /\ P!Send(t, <<P!Refusal(j, cs, P!BaseOf(cs))>>, FALSE)
           /\ applies' = [applies EXCEPT ![j] =
                             P!ApplyRecord(cs, P!BaseOf(cs), P!BaseOf(cs), 0, 0)]
    BY <1>1 DEF P!Receive
  <2>2. UNCHANGED <<queue, pending, reversed>>
    BY <1>1 DEF P!Receive
  <2>3. HistoryGrows /\ ReportsTrue(changeSets', applies', reversed', flight', threads')
    BY <2>1, <2>2, RefuseTrue
  <2> QED BY <1>0, <2>2, <2>3
<1>2. CASE ~(Len(queue) >= QueueCap)
  <2>1. Append(queue, cs) \in Seq(SetPayload)
    BY DEF PluginTypeOK
  <2>2. P!PresentNext(t, Append(queue, cs))
    BY <1>2 DEF P!Receive
  <2>3. ASSUME NEW i \in DOMAIN Append(queue, cs)
        PROVE  TrueSet(Append(queue, cs)[i], changeSets')
    <3>1. CASE i \in DOMAIN queue
      BY <1>0, <3>1 DEF ReviewTrue, PluginTypeOK
    <3>2. CASE i \notin DOMAIN queue
      <4>1. Append(queue, cs)[i] = cs
        BY <2>3, <3>2 DEF PluginTypeOK
      <4> QED BY <4>1
    <3> QED BY <3>1, <3>2
  <2>4. ReviewTrue(changeSets', Append(queue, cs), pending)
    BY <1>0, <2>3 DEF ReviewTrue
  <2> QED BY <2>1, <2>2, <2>4, PresentTrue
<1> QED BY <1>1, <1>2

(* A reversal reports how much of it was undone. *)
LEMMA ReverseTrue ==
    ASSUME PluginTypeOK, SetsGrow, NEW t \in P!Threads, NEW d \in ReversePayload,
           ReportsTrue(changeSets, applies, reversed, flight, threads),
           P!Reverse(t, d)
    PROVE  /\ HistoryGrows
           /\ ReportsTrue(changeSets', applies', reversed', flight', threads')
           /\ UNCHANGED <<queue, pending, applies>>
           /\ \A j \in JournalIds : reversed'[j] # reversed[j] =>
                 j = d.journal /\ reversed'[j] <= d.steps
<1> DEFINE before == IF known = None THEN d.expected ELSE known
<1>1. /\ d.steps \in Nat /\ d.expected \in Nat /\ d.restores \in Nat
      /\ d.journal \in JournalIds /\ d.set \in ChangeSetIds
  BY DEF ReversePayload
<1>2. before \in Nat
  BY <1>1 DEF PluginTypeOK
<1>3. PICK undone \in 0..d.steps :
         /\ reversed' = [reversed EXCEPT ![d.journal] = IF undone > @ THEN undone ELSE @]
         /\ P!Send(t, <<[kind |-> "rollback", journal |-> d.journal, set |-> d.set,
                         ok |-> undone, failed |-> d.steps - undone,
                         version |-> P!VersionAfter(d, before, undone)]>>, TRUE)
         /\ UNCHANGED <<queue, pending, applies>>
  BY DEF P!Reverse
<1> DEFINE after == P!VersionAfter(d, before, undone)
           r == [kind |-> "rollback", journal |-> d.journal, set |-> d.set,
                 ok |-> undone, failed |-> d.steps - undone, version |-> after]
<1>4. after \in Nat
  BY <1>1, <1>2 DEF P!VersionAfter
<1>5. P!Send(t, <<r>>, TRUE)
  BY <1>3
<1> HIDE DEF before, after
<1>6. HistoryGrows /\ undone <= reversed'[d.journal]
  BY <1>1, <1>3 DEF HistoryGrows, PluginTypeOK
<1>7. r \in Report
  BY <1>1, <1>4 DEF Report, RollbackReport
<1>8. TrueReport(r, changeSets', applies', reversed')
  BY <1>6 DEF TrueReport
<1>9. ReportsTrue(changeSets', applies', reversed', flight, threads)
  BY <1>6, ReportsStay
<1> HIDE DEF r
<1>10. <<r>> \in Seq(Report) /\ <<r>> # <<>>
  BY <1>7
<1>11. \A i \in DOMAIN <<r>> : TrueReport(<<r>>[i], changeSets', applies', reversed')
  BY <1>8
<1>12. ReportsTrue(changeSets', applies', reversed', flight', threads')
  BY <1>5, <1>9, <1>10, <1>11, SendTrue
<1>13. \A j \in JournalIds : reversed'[j] # reversed[j] =>
          j = d.journal /\ reversed'[j] <= d.steps
  BY <1>1, <1>3 DEF PluginTypeOK
<1> QED BY <1>3, <1>6, <1>12, <1>13

-----------------------------------------------------------------------------
(* What the daemon's handlers do to what is true. *)

(* No set becomes `applied' in this step. *)
NoneSettles ==
    \A s \in ChangeSetIds : changeSets'[s] # None /\ changeSets'[s].status = "applied" =>
       changeSets[s] # None /\ changeSets[s].status = "applied"

(* A set that was never approved: nothing of it has left the daemon. *)
Open(sets, s) == sets[s] = None \/ sets[s].status \in {"proposed", "validated"}

(* An approval is not taken back in this step. *)
NoneReopens == \A s \in ChangeSetIds : Open(changeSets', s) => Open(changeSets, s)

(* POST /v1/changesets only adds a set. *)
LEMMA SubmitGrows ==
    ASSUME TypeInv, NEW s \in ChangeSetIds, NEW p \in Projects, NEW base \in Nat,
           NEW c \in Contents, SubmitChangeSet(s, p, base, c)
    PROVE  SetsGrow /\ NoneSettles /\ NoneReopens
  BY DEF SubmitChangeSet, SetsGrow, NoneSettles, NoneReopens, Open, TypeInv, TypeOK

(* POST /v1/changesets/:id/approve moves a status and queues the set as    *)
(* it is stored.                                                           *)
LEMMA ApproveGrows ==
    ASSUME TypeInv, NEW s \in ChangeSetIds, NEW c \in Contents, Approve(s, c, TRUE)
    PROVE  /\ SetsGrow /\ NoneSettles /\ NoneReopens
           /\ Open(changeSets, s) /\ ~Open(changeSets', s)
           /\ \A d \in deliveries' : d \in deliveries \/ TruePayload(d.payload, changeSets', applies')
<1> USE DEF TypeInv, TypeOK
<1> DEFINE l == mostRecent[changeSets[s].project]
           sets == [changeSets EXCEPT ![s].status = "approved"]
           payload == ChangeSetPayload(s)
<1>1. changeSets[s] \in ChangeSet /\ l \in LinkIds
  BY NoneAssumption DEF Approve, Approvable, Reachable, ChangeSet
<1>2. payload \in Payload /\ payload.kind = "changeset" /\ payload.set = s
      /\ payload.base = changeSets[s].base /\ payload.content = changeSets[s].content
  BY <1>1 DEF ChangeSetPayload, Payload, ChangeSet
<1>3. /\ sets \in [ChangeSetIds -> ChangeSet \cup {None}]
      /\ \A t \in ChangeSetIds \ {s} : sets[t] = changeSets[t]
      /\ sets[s] \in ChangeSet
      /\ sets[s].base = changeSets[s].base
      /\ sets[s].content = changeSets[s].content
      /\ sets[s].project = changeSets[s].project
      /\ sets[s].status = "approved"
  BY <1>1 DEF ChangeSet, Statuses
<1>4. Enqueue(l, payload, sets)
  BY DEF Approve
<1> HIDE DEF l, sets, payload
<1>5. /\ \A d \in deliveries' : d \in deliveries \/ d.payload = payload
      /\ \A t \in ChangeSetIds :
            \/ changeSets'[t] = sets[t]
            \/ /\ sets[t] \in ChangeSet
               /\ changeSets'[t] \in ChangeSet
               /\ changeSets'[t].status = "applying"
               /\ changeSets'[t].content = sets[t].content
               /\ changeSets'[t].project = sets[t].project
               /\ changeSets'[t].base = sets[t].base
  BY <1>1, <1>2, <1>3, <1>4, EnqueueFact
<1>6. \A x \in ChangeSet : x # None
  BY NoneAssumption
<1>7. SetsGrow
  BY <1>1, <1>3, <1>5, <1>6 DEF SetsGrow
<1>8. NoneSettles
  BY <1>3, <1>5, <1>6 DEF NoneSettles
<1>9. TrueSet(payload, changeSets')
  BY <1>1, <1>2, <1>6, <1>7 DEF TrueSet, SetsGrow
<1>10. Open(changeSets, s) /\ ~Open(changeSets', s)
  BY <1>1, <1>3, <1>5, <1>6 DEF Approve, Approvable, Open
<1>11. NoneReopens
  BY <1>3, <1>5, <1>6, <1>10 DEF NoneReopens, Open
<1> QED BY <1>2, <1>5, <1>7, <1>8, <1>9, <1>10, <1>11 DEF TruePayload

(* POST /v1/journal/:id/rollback queues the inverses on record. *)
LEMMA RequestGrows ==
    ASSUME TypeInv, NEW j \in JournalIds, NEW expected \in Nat, RequestRollback(j, expected)
    PROVE  /\ SetsGrow /\ NoneSettles /\ NoneReopens
           /\ \A d \in deliveries' : d \in deliveries \/
                 (d.payload.kind = "rollback" /\ d.payload.journal = j /\ d.payload.steps = entries[j])
           /\ \A k \in JournalIds :
                 /\ journals'[k] # None <=> journals[k] # None
                 /\ journals[k] # None =>
                       /\ journals'[k].set = journals[k].set
                       /\ journals'[k].before = journals[k].before
                       /\ journals'[k].after = journals[k].after
                       /\ journals'[k].rolledBack = journals[k].rolledBack
           /\ entries[j] # None
           /\ UNCHANGED <<entries, results>>
<1> USE DEF TypeInv, TypeOK
<1> DEFINE l == mostRecent[journals[j].project]
           payload == RollbackPayload(j, expected)
<1>1. journals[j] \in JournalRecord /\ entries[j] \in Nat /\ l \in LinkIds
  BY NoneAssumption DEF RequestRollback, Reachable, JournalRecord
<1>2. payload \in Payload /\ payload.kind = "rollback" /\ payload.journal = j
      /\ payload.steps = entries[j]
  BY <1>1 DEF RollbackPayload, Payload, JournalRecord
<1>3. Enqueue(l, payload, changeSets)
  BY DEF RequestRollback
<1>4. journals' = [journals EXCEPT ![j].requested = TRUE] /\ UNCHANGED <<entries, results>>
  BY DEF RequestRollback
<1>5. \A k \in JournalIds :
         /\ journals'[k] # None <=> journals[k] # None
         /\ journals[k] # None =>
               /\ journals'[k].set = journals[k].set
               /\ journals'[k].before = journals[k].before
               /\ journals'[k].after = journals[k].after
               /\ journals'[k].rolledBack = journals[k].rolledBack
  <2>1. journals'[j] \in JournalRecord
    BY <1>1, <1>4 DEF JournalRecord
  <2> QED BY <1>1, <1>4, <2>1, NoneAssumption DEF JournalRecord
<1> HIDE DEF l, payload
<1>6. /\ \A d \in deliveries' : d \in deliveries \/ d.payload = payload
      /\ \A t \in ChangeSetIds : changeSets'[t] = changeSets[t]
  BY <1>1, <1>2, <1>3, EnqueueFact
<1>7. SetsGrow /\ NoneSettles /\ NoneReopens
  BY <1>6 DEF SetsGrow, NoneSettles, NoneReopens, Open
<1> QED BY <1>1, <1>2, <1>4, <1>5, <1>6, <1>7, NoneAssumption

(* GET /v1/link/poll moves a status. *)
LEMMA PollGrows ==
    ASSUME TypeInv, NEW l, NEW since, Poll(l, since)
    PROVE  /\ SetsGrow /\ NoneSettles /\ NoneReopens
           /\ UNCHANGED <<deliveries, journals, entries, results>>
<1> USE DEF TypeInv, TypeOK
<1>1. changeSets' = changeSets \/ changeSets' = Delivered(changeSets, NextDelivery(l, since))
  BY DEF Poll
<1>2. UNCHANGED <<deliveries, journals, entries, results>>
  BY DEF Poll
<1>3. \A s \in ChangeSetIds :
         \/ changeSets'[s] = changeSets[s]
         \/ /\ changeSets'[s] \in ChangeSet
            /\ changeSets'[s].status = "applying"
            /\ changeSets'[s].content = changeSets[s].content
            /\ changeSets'[s].project = changeSets[s].project
            /\ changeSets'[s].base = changeSets[s].base
  BY <1>1, DeliveredFact
<1>4. SetsGrow /\ NoneSettles
  BY <1>3, NoneAssumption DEF SetsGrow, NoneSettles
<1>5. NoneReopens
  BY <1>3, NoneAssumption DEF NoneReopens, Open
<1> QED BY <1>2, <1>4, <1>5

(* What an apply report does to the record. *)
ApplyMoves(s, j, ok, failed, v) ==
    /\ SetsGrow
    /\ UNCHANGED <<deliveries, entries, results>>
    /\ \A t \in ChangeSetIds \ {s} : changeSets'[t] = changeSets[t]
    /\ \A k \in JournalIds \ {j} : journals'[k] = journals[k]
    /\ \/ UNCHANGED <<changeSets, journals>>
       \/ /\ journals[j] = None /\ changeSets[s] # None
          /\ changeSets'[s].status = ApplyStatus(ok, failed)
          /\ journals'[j] # None
          /\ journals'[j].set = s
          /\ journals'[j].after = v
          /\ ~journals'[j].rolledBack

(* A report moves the status of one set. *)
LEMMA ApplyResultGrows ==
    ASSUME TypeInv, NEW l, NEW n, NEW s \in ChangeSetIds, NEW j \in JournalIds, NEW ok, NEW failed,
           NEW v \in Nat, ApplyResult(l, n, s, j, ok, failed, v)
    PROVE  NoneReopens /\ ApplyMoves(s, j, ok, failed, v)
<1> USE DEF TypeInv, TypeOK
<1>1. CASE ApplyResultAccepted(l, s, j, v)
  <2> DEFINE project == changeSets[s].project
             new == [set |-> s, project |-> project, before |-> version[project],
                     after |-> v, requested |-> FALSE, rolledBack |-> FALSE]
  <2>1. /\ changeSets' = [changeSets EXCEPT ![s].status = ApplyStatus(ok, failed)]
        /\ journals' = [journals EXCEPT ![j] = new]
        /\ UNCHANGED <<deliveries, entries, results>>
        /\ changeSets[s] \in ChangeSet /\ journals[j] = None
    BY <1>1 DEF ApplyResult, ApplyResultAccepted
  <2>2. /\ changeSets'[s].base = changeSets[s].base
        /\ changeSets'[s].content = changeSets[s].content
        /\ changeSets'[s].project = changeSets[s].project
        /\ changeSets'[s].status = ApplyStatus(ok, failed)
        /\ \A t \in ChangeSetIds \ {s} : changeSets'[t] = changeSets[t]
    BY <2>1 DEF ChangeSet
  <2>3. changeSets'[s] \in ChangeSet
    BY <2>1 DEF ChangeSet, ApplyStatus, Statuses
  <2>4. SetsGrow /\ NoneReopens
    <3>1. SetsGrow
      BY <2>1, <2>2, <2>3, NoneAssumption DEF SetsGrow
    <3>2. ~Open(changeSets', s)
      BY <2>2, <2>3, NoneAssumption DEF Open, ApplyStatus
    <3> QED BY <2>2, <3>1, <3>2 DEF NoneReopens, Open
  <2>5. new.set = s /\ new.after = v /\ ~new.rolledBack /\ new # None
    <3>1. new \in JournalRecord
      BY <2>1 DEF JournalRecord, ChangeSet
    <3> QED BY <3>1, NoneAssumption
  <2> HIDE DEF new
  <2>6. journals'[j] = new /\ \A k \in JournalIds \ {j} : journals'[k] = journals[k]
    BY <2>1
  <2> QED BY <2>1, <2>2, <2>4, <2>5, <2>6, NoneAssumption DEF ApplyMoves
<1>2. CASE ~ApplyResultAccepted(l, s, j, v)
  BY <1>2 DEF ApplyResult, SetsGrow, NoneReopens, ApplyMoves
<1> QED BY <1>1, <1>2

(* The records stand as they are, up to a request for a reversal. *)
RecordsStand ==
    /\ UNCHANGED <<entries, results>>
    /\ \A k \in JournalIds :
          /\ journals'[k] # None <=> journals[k] # None
          /\ journals[k] # None =>
                /\ journals'[k].set = journals[k].set
                /\ journals'[k].before = journals[k].before
                /\ journals'[k].after = journals[k].after
                /\ journals'[k].rolledBack = journals[k].rolledBack

(* A reversal undoes at most the inverses of the apply it reverses. *)
ReversalsFit ==
    \A j \in JournalIds : reversed'[j] # reversed[j] =>
       applies[j] # None /\ reversed'[j] <= applies[j].inverses

(* A true record stays true while the plugin adds to its history. *)
LEMMA RecordStays ==
    ASSUME BridgeTypeInv, HistoryGrows, ReversalsFit, RecordsStand,
           \A j \in JournalIds : RecordTrue(j)
    PROVE  \A j \in JournalIds : RecordTrue(j)'
<1> SUFFICES ASSUME NEW j \in JournalIds
             PROVE  RecordTrue(j)'
  OBVIOUS
<1>1. reversed[j] \in Nat /\ (results[j] # None => results[j].ok \in Nat)
      /\ (entries[j] # None => entries[j] \in Nat)
  BY DEF BridgeTypeInv, TypeInv, TypeOK, PluginTypeOK, RollbackResult
<1>2. reversed'[j] \in Nat /\ reversed'[j] >= reversed[j]
      /\ (applies[j] # None => applies'[j] = applies[j])
  BY DEF HistoryGrows
<1>3. RecordTrue(j)
  OBVIOUS
<1>4. reversed'[j] > 0 => applies'[j] # None /\ reversed'[j] <= applies'[j].inverses
  BY <1>1, <1>2, <1>3 DEF RecordTrue, ReversalsFit
<1> QED BY <1>1, <1>2, <1>3, <1>4 DEF RecordTrue, RecordsStand

(* ... and the set of a record stays stored. *)
LEMMA StoredStays ==
    ASSUME TypeInv, SetsGrow, NEW j \in JournalIds, Stored(j),
           journals'[j] # None => journals[j] # None /\ journals'[j].set = journals[j].set
    PROVE  Stored(j)'
  BY DEF TypeInv, TypeOK, JournalRecord, SetsGrow, Stored

(* ... and a set applied in full was applied in full. *)
LEMMA FullStays ==
    ASSUME SetsGrow, HistoryGrows, NEW s \in ChangeSetIds, AppliedInFull(s),
           changeSets[s] # None, changeSets[s].status = "applied"
    PROVE  AppliedInFull(s)'
  BY DEF SetsGrow, HistoryGrows, AppliedInFull

(* The truth survives a step that settles no set and writes no record. *)
LEMMA TruthKept ==
    ASSUME BridgeTypeInv, TruthInv, SetsGrow, NoneSettles, HistoryGrows, ReversalsFit, RecordsStand,
           ReportsTrue(changeSets', applies', reversed', flight', threads'),
           ReviewTrue(changeSets', queue', pending'),
           \A d \in deliveries' : d \in deliveries \/ TruePayload(d.payload, changeSets', applies')
    PROVE  TruthInv'
<1>1. \A d \in deliveries' : TruePayload(d.payload, changeSets', applies')
  BY PayloadStays DEF TruthInv, BridgeTypeInv
<1>2. \A j \in JournalIds : RecordTrue(j)' /\ Stored(j)'
  <2>1. \A j \in JournalIds : RecordTrue(j)
    BY DEF TruthInv
  <2>2. \A j \in JournalIds : RecordTrue(j)'
    BY <2>1, RecordStays
  <2>3. \A j \in JournalIds : Stored(j)'
    BY StoredStays DEF TruthInv, BridgeTypeInv, RecordsStand
  <2> QED BY <2>2, <2>3
<1>3. ASSUME NEW s \in ChangeSetIds
      PROVE  AppliedInFull(s)'
  <2>1. CASE changeSets'[s] # None /\ changeSets'[s].status = "applied"
    BY <2>1, FullStays DEF NoneSettles, TruthInv
  <2>2. CASE ~(changeSets'[s] # None /\ changeSets'[s].status = "applied")
    BY <2>2 DEF AppliedInFull
  <2> QED BY <2>1, <2>2
<1> QED BY <1>1, <1>2, <1>3 DEF TruthInv

(* A step of the daemon alone. *)
LEMMA TruthInDaemon ==
    ASSUME BridgeTypeInv, TruthInv, SetsGrow, NoneSettles, RecordsStand, UNCHANGED pluginVars,
           \A d \in deliveries' : d \in deliveries \/ TruePayload(d.payload, changeSets', applies')
    PROVE  TruthInv'
<1>1. PluginTypeOK
  BY DEF BridgeTypeInv
<1>2. /\ UNCHANGED <<applies, reversed>>
      /\ flight' = flight /\ threads' = threads /\ queue' = queue /\ pending' = pending
  BY DEF pluginVars
<1>3. HistoryGrows
  BY <1>1, <1>2, HistoryStands
<1>4. ReversalsFit
  BY <1>2 DEF ReversalsFit
<1>5. ReportsTrue(changeSets', applies', reversed', flight, threads)
  BY <1>1, <1>3, ReportsStay DEF TruthInv
<1>6. ReviewTrue(changeSets', queue, pending)
  BY <1>1, ReviewStays DEF TruthInv
<1>7. ReportsTrue(changeSets', applies', reversed', flight', threads')
  BY <1>2, <1>5
<1>8. ReviewTrue(changeSets', queue', pending')
  BY <1>2, <1>6
<1> QED BY <1>3, <1>4, <1>7, <1>8, TruthKept

(* A step of the plugin alone. *)
LEMMA DaemonStands ==
    ASSUME UNCHANGED vars
    PROVE  /\ SetsGrow /\ NoneSettles /\ NoneReopens /\ RecordsStand
           /\ deliveries' = deliveries /\ changeSets' = changeSets
  BY DEF vars, store, SetsGrow, NoneSettles, NoneReopens, RecordsStand

(* Hence such a step keeps everything true if it keeps the reports and     *)
(* what is under review true.                                              *)
LEMMA TruthInPlugin ==
    ASSUME BridgeTypeInv, TruthInv, UNCHANGED vars, HistoryGrows, reversed' = reversed,
           ReportsTrue(changeSets', applies', reversed', flight', threads'),
           ReviewTrue(changeSets', queue', pending')
    PROVE  TruthInv'
<1>1. ReversalsFit
  BY DEF ReversalsFit
<1>2. SetsGrow /\ NoneSettles /\ RecordsStand /\ deliveries' = deliveries
  BY DaemonStands
<1> QED BY <1>1, <1>2, TruthKept

(* A poll's answer is handled. *)
LEMMA HandOverTrue ==
    ASSUME BridgeTypeInv, TruthInv, NEW t \in {"poll", "stopped"}, HandOver(t)
    PROVE  TruthInv'
<1> DEFINE since == IF t = "poll" THEN cursor ELSE lastPoll
<1>1. Poll(link, since)
  BY DEF HandOver
<1>2. PICK d \in NextDelivery(link, since) : P!Deliver(t, d, scenario.missedWrites)
  BY DEF HandOver
<1>3. d \in deliveries /\ d \in Delivery
  BY DEF NextDelivery, BridgeTypeInv, TypeInv, TypeOK
<1> HIDE DEF since
<1>4. PluginTypeOK /\ TypeInv
  BY DEF BridgeTypeInv
<1>5. SetsGrow /\ NoneSettles /\ UNCHANGED <<deliveries, journals, entries, results>>
  BY <1>1, <1>4, PollGrows
<1>6. RecordsStand
  BY <1>5 DEF RecordsStand
<1>7. t \in P!Threads
  BY PollThreads
<1>8. TruePayload(d.payload, changeSets, applies)
  BY <1>3 DEF TruthInv
<1>9. CASE d.payload.kind = "rollback"
  <2>1. d.payload \in ReversePayload /\ P!Reverse(t, d.payload)
    BY <1>2, <1>3, <1>9, PayloadKinds DEF P!Deliver
  <2>2. /\ HistoryGrows
        /\ ReportsTrue(changeSets', applies', reversed', flight', threads')
        /\ UNCHANGED <<queue, pending, applies>>
        /\ \A j \in JournalIds : reversed'[j] # reversed[j] =>
              j = d.payload.journal /\ reversed'[j] <= d.payload.steps
    BY <1>4, <1>5, <1>7, <2>1, ReverseTrue DEF TruthInv
  <2>3. ReversalsFit
    BY <1>8, <1>9, <2>2 DEF ReversalsFit, TruePayload
  <2>4. ReviewTrue(changeSets', queue, pending)
    BY <1>4, <1>5, ReviewStays DEF TruthInv
  <2>5. ReviewTrue(changeSets', queue', pending')
    BY <2>2, <2>4
  <2> QED BY <1>5, <1>6, <2>2, <2>3, <2>5, TruthKept
<1>10. CASE d.payload.kind # "rollback"
  <2>1. d.payload \in SetPayload /\ P!Receive(t, d.payload)
    BY <1>2, <1>3, <1>10, PayloadKinds DEF P!Deliver
  <2>2. TrueSet(d.payload, changeSets)
    BY <1>8, <2>1 DEF TruePayload, SetPayload
  <2>3. TrueSet(d.payload, changeSets')
    BY <1>5, <2>1, <2>2, SetStays
  <2>4. /\ HistoryGrows
        /\ ReportsTrue(changeSets', applies', reversed', flight', threads')
        /\ ReviewTrue(changeSets', queue', pending')
        /\ reversed' = reversed
    BY <1>4, <1>5, <1>7, <2>1, <2>3, ReceiveTrue DEF TruthInv
  <2>5. ReversalsFit
    BY <2>4 DEF ReversalsFit
  <2> QED BY <1>5, <1>6, <2>4, <2>5, TruthKept
<1> QED BY <1>9, <1>10

(* A thread goes on once its request came back. *)
LEMMA ContinueTrue ==
    ASSUME BridgeTypeInv, TruthInv, NEW t \in P!Threads, Continue(t)
    PROVE  TruthInv'
<1>0. PluginTypeOK /\ UNCHANGED vars /\ P!Resume(t)
  BY DEF BridgeTypeInv, Continue
<1>1. SetsGrow /\ changeSets' = changeSets
  BY <1>0, DaemonStands
<1>2. threads[t] \in Thread
  BY <1>0 DEF PluginTypeOK
<1>3. ReviewTrue(changeSets', queue, pending)
  BY <1>0, <1>1, ReviewStays DEF TruthInv
<1>4. CASE threads[t].rest # <<>>
  <2>1. /\ P!Send(t, threads[t].rest, threads[t].presents)
        /\ UNCHANGED <<applies, reversed>> /\ queue' = queue /\ pending' = pending
    BY <1>0, <1>4 DEF P!Resume
  <2>2. threads[t].rest \in Seq(Report)
    BY <1>2 DEF Thread
  <2>3. HistoryGrows
    BY <1>0, <2>1, HistoryStands
  <2>4. ReportsTrue(changeSets', applies', reversed', flight, threads)
    BY <1>0, <1>1, <2>3, ReportsStay DEF TruthInv
  <2>5. \A i \in DOMAIN threads[t].rest : TrueReport(threads[t].rest[i], changeSets', applies', reversed')
    BY <2>4 DEF ReportsTrue
  <2>6. ReportsTrue(changeSets', applies', reversed', flight', threads')
    BY <1>0, <1>4, <2>1, <2>2, <2>4, <2>5, SendTrue
  <2> QED BY <1>0, <1>3, <2>1, <2>3, <2>6, TruthInPlugin
<1>5. CASE threads[t].rest = <<>> /\ threads[t].presents
  <2>1. P!PresentNext(t, queue) /\ queue \in Seq(SetPayload)
    BY <1>0, <1>5 DEF P!Resume, PluginTypeOK
  <2>2. /\ HistoryGrows
        /\ ReportsTrue(changeSets', applies', reversed', flight', threads')
        /\ ReviewTrue(changeSets', queue', pending')
        /\ reversed' = reversed
    BY <1>0, <1>1, <1>3, <2>1, PresentTrue DEF TruthInv
  <2> QED BY <1>0, <2>2, TruthInPlugin
<1>6. CASE threads[t].rest = <<>> /\ ~threads[t].presents
  <2>1. /\ threads' = [threads EXCEPT ![t] = P!Idle]
        /\ UNCHANGED <<applies, reversed>> /\ queue' = queue /\ pending' = pending /\ flight' = flight
    BY <1>0, <1>6 DEF P!Resume
  <2>2. HistoryGrows
    BY <1>0, <2>1, HistoryStands
  <2>3. ReportsTrue(changeSets', applies', reversed', flight, threads)
    BY <1>0, <1>1, <2>2, ReportsStay DEF TruthInv
  <2>4. ReportsTrue(changeSets', applies', reversed', flight', threads')
    BY <1>0, <2>1, <2>3, IdleTrue
  <2> QED BY <1>0, <1>3, <2>1, <2>2, <2>4, TruthInPlugin
<1> QED BY <1>4, <1>5, <1>6

(* The user decides on the set on screen. *)
LEMMA DecideTrue ==
    ASSUME BridgeTypeInv, TruthInv, NEW t \in P!Threads, Decide(t)
    PROVE  TruthInv'
<1>0. PluginTypeOK /\ UNCHANGED vars
  BY DEF BridgeTypeInv, Decide
<1>1. SetsGrow /\ changeSets' = changeSets
  BY <1>0, DaemonStands
<1>2. /\ pending \in SetPayload /\ pending' = None /\ queue' = queue
  BY <1>0 DEF Decide, P!ApproveInStudio, P!RejectInStudio, PluginTypeOK
<1>3. TrueSet(pending, changeSets') /\ ReviewTrue(changeSets', queue', pending')
  BY <1>1, <1>2, NoneAssumption DEF TruthInv, ReviewTrue, P!ApproveInStudio, P!RejectInStudio, Decide
<1>4. CASE P!ApproveInStudio(t)
  <2>1. P!Execute(t, pending)
    BY <1>4 DEF P!ApproveInStudio
  <2>2. /\ HistoryGrows /\ reversed' = reversed
        /\ ReportsTrue(changeSets', applies', reversed', flight', threads')
    BY <1>0, <1>1, <1>2, <1>3, <2>1, ExecuteTrue DEF TruthInv
  <2> QED BY <1>0, <1>3, <2>2, TruthInPlugin
<1>5. CASE P!RejectInStudio(t)
  <2>1. PICK j \in JournalIds :
           /\ P!Fresh(j)
           /\ P!Send(t, <<P!Refusal(j, pending, P!BaseOf(pending))>>, TRUE)
           /\ applies' = [applies EXCEPT ![j] =
                             P!ApplyRecord(pending, P!BaseOf(pending), P!BaseOf(pending), 0, 0)]
    BY <1>5 DEF P!RejectInStudio
  <2>2. reversed' = reversed
    BY <1>5 DEF P!RejectInStudio
  <2>3. HistoryGrows /\ ReportsTrue(changeSets', applies', reversed', flight', threads')
    BY <1>0, <1>1, <1>2, <1>3, <2>1, <2>2, RefuseTrue DEF TruthInv
  <2> QED BY <1>0, <1>3, <2>2, <2>3, TruthInPlugin
<1> QED BY <1>4, <1>5 DEF Decide

(* Envelopes that are gone and threads that are stopped claim nothing new. *)
LEMMA FewerReports ==
    ASSUME NEW S, NEW A, NEW R, ReportsTrue(S, A, R, flight, threads), flight' \subseteq flight,
           \A t \in P!Threads :
              threads'[t].rest = <<>> \/ \E u \in P!Threads : threads'[t].rest = threads[u].rest
    PROVE  ReportsTrue(S, A, R, flight', threads')
<1>1. \A m \in flight' : TrueReport(m.report, S, A, R)
  BY DEF ReportsTrue
<1>2. ASSUME NEW t \in P!Threads, NEW i \in DOMAIN threads'[t].rest
      PROVE  TrueReport(threads'[t].rest[i], S, A, R)
  <2>1. CASE threads'[t].rest = <<>>
    BY <1>2, <2>1
  <2>2. ASSUME NEW u \in P!Threads, threads'[t].rest = threads[u].rest
        PROVE  TrueReport(threads'[t].rest[i], S, A, R)
    BY <1>2, <2>2 DEF ReportsTrue
  <2> QED BY <2>1, <2>2
<1> QED BY <1>1, <1>2 DEF ReportsTrue

(* The plugin connects again, is paired or is started again. *)
LEMMA ConnectReports ==
    ASSUME PluginTypeOK,
           P!Reconnect \/ P!StudioRestart \/ \E l \in LinkIds : P!StoreLink(l)
    PROVE  /\ UNCHANGED <<applies, reversed>> /\ flight' = flight
           /\ \A t \in P!Threads :
                 threads'[t].rest = <<>> \/ \E u \in P!Threads : threads'[t].rest = threads[u].rest
           /\ queue' = <<>> \/ queue' = queue
           /\ pending' = None \/ pending' = pending
<1>1. P!Idle.rest = <<>> /\ "poll" \in P!Threads
  BY PollThreads DEF P!Idle
<1>2. CASE P!Reconnect
  BY <1>1, <1>2 DEF P!Reconnect, PluginTypeOK
<1>3. CASE P!StudioRestart
  BY <1>1, <1>3 DEF P!StudioRestart, PluginTypeOK
<1>4. ASSUME NEW l \in LinkIds, P!StoreLink(l)
      PROVE  /\ UNCHANGED <<applies, reversed>> /\ flight' = flight
             /\ \A t \in P!Threads :
                   threads'[t].rest = <<>> \/ \E u \in P!Threads : threads'[t].rest = threads[u].rest
             /\ queue' = queue
             /\ pending' = pending
  BY <1>1, <1>4 DEF P!StoreLink, PluginTypeOK
<1> QED BY <1>2, <1>3, <1>4

(* Connecting anew drops reports at most, so what is left stays true. *)
LEMMA ConnectTrue ==
    ASSUME BridgeTypeInv, TruthInv, UNCHANGED <<changeSets, deliveries, journals, entries, results>>,
           P!Reconnect \/ P!StudioRestart \/ \E l \in LinkIds : P!StoreLink(l)
    PROVE  TruthInv'
<1>0. PluginTypeOK
  BY DEF BridgeTypeInv
<1>1. SetsGrow /\ NoneSettles /\ RecordsStand
  BY DEF SetsGrow, NoneSettles, RecordsStand
<1>2. /\ UNCHANGED <<applies, reversed>> /\ flight' = flight
      /\ \A t \in P!Threads :
            threads'[t].rest = <<>> \/ \E u \in P!Threads : threads'[t].rest = threads[u].rest
      /\ queue' = <<>> \/ queue' = queue
      /\ pending' = None \/ pending' = pending
  BY <1>0, ConnectReports
<1>3. HistoryGrows /\ ReversalsFit
  BY <1>0, <1>2, HistoryStands DEF ReversalsFit
<1>4. ReportsTrue(changeSets', applies', reversed', flight, threads)
  BY <1>0, <1>1, <1>3, ReportsStay DEF TruthInv
<1>5. ReportsTrue(changeSets', applies', reversed', flight', threads')
  BY <1>2, <1>4, FewerReports
<1>6. ReviewTrue(changeSets', queue', pending')
  BY <1>2 DEF TruthInv, ReviewTrue
<1> QED BY <1>1, <1>3, <1>5, <1>6, TruthKept

(* An envelope gets lost. *)
LEMMA LoseTrue ==
    ASSUME BridgeTypeInv, TruthInv, NEW m \in flight, Lose(m)
    PROVE  TruthInv'
<1>0. /\ PluginTypeOK /\ UNCHANGED vars
      /\ UNCHANGED <<applies, reversed>> /\ queue' = queue /\ pending' = pending /\ threads' = threads
      /\ flight' \subseteq flight
  BY DEF Lose, BridgeTypeInv
<1>1. SetsGrow
  BY <1>0, DaemonStands
<1>2. HistoryGrows
  BY <1>0, HistoryStands
<1>3. ReportsTrue(changeSets', applies', reversed', flight, threads)
  BY <1>0, <1>1, <1>2, ReportsStay DEF TruthInv
<1>4. ReportsTrue(changeSets', applies', reversed', flight', threads')
  BY <1>0, <1>3, FewerReports
<1>5. ReviewTrue(changeSets', queue', pending')
  BY <1>0, <1>1, ReviewStays DEF TruthInv
<1> QED BY <1>0, <1>2, <1>4, <1>5, TruthInPlugin

(* An envelope arrives: what the handler writes down is true. *)
LEMMA ArriveTrue ==
    ASSUME BridgeTypeInv, TruthInv, NEW m \in flight, Arrive(m)
    PROVE  TruthInv'
<1> DEFINE r == m.report
           o == [ok |-> r.ok, failed |-> r.failed]
<1>0. /\ PluginTypeOK /\ TypeInv
      /\ UNCHANGED <<applies, reversed>> /\ queue' = queue /\ pending' = pending /\ threads' = threads
      /\ flight' \subseteq flight
  BY DEF Arrive, BridgeTypeInv
<1>1. r \in Report /\ TrueReport(r, changeSets, applies, reversed)
  BY <1>0 DEF PluginTypeOK, Envelope, TruthInv, ReportsTrue
<1>2. HistoryGrows /\ ReversalsFit
  BY <1>0, HistoryStands DEF ReversalsFit
<1>3. ASSUME SetsGrow
      PROVE  /\ ReportsTrue(changeSets', applies', reversed', flight', threads')
             /\ ReviewTrue(changeSets', queue', pending')
  <2>1. ReportsTrue(changeSets', applies', reversed', flight, threads)
    BY <1>0, <1>2, <1>3, ReportsStay DEF TruthInv
  <2> QED BY <1>0, <1>3, <2>1, FewerReports, ReviewStays DEF TruthInv
<1>4. CASE ~Authentic(m)
  <2>1. UNCHANGED vars
    BY <1>4 DEF Arrive
  <2>2. SetsGrow
    BY <2>1, DaemonStands
  <2> QED BY <1>0, <1>2, <1>3, <2>1, <2>2, TruthInPlugin
<1>5. CASE Authentic(m) /\ r.kind = "apply"
  <2>1. r \in ApplyReport
    BY <1>1, <1>5 DEF Report, ApplyReport, EntryReport, RollbackReport
  <2>2. ApplyResult(m.link, m.nonce, r.set, r.journal, r.ok, r.failed, r.version)
    BY <1>5 DEF Arrive
  <2> HIDE DEF r
  <2>3. r.set \in ChangeSetIds /\ r.journal \in JournalIds /\ r.version \in Nat /\ r.ok \in Nat /\ r.failed \in Nat
    BY <2>1 DEF ApplyReport
  <2>4. /\ SetsGrow
        /\ UNCHANGED <<deliveries, entries, results>>
        /\ \A t \in ChangeSetIds \ {r.set} : changeSets'[t] = changeSets[t]
        /\ \A k \in JournalIds \ {r.journal} : journals'[k] = journals[k]
        /\ \/ UNCHANGED <<changeSets, journals>>
           \/ /\ journals[r.journal] = None /\ changeSets[r.set] # None
              /\ changeSets'[r.set].status = ApplyStatus(r.ok, r.failed)
              /\ journals'[r.journal] # None
              /\ journals'[r.journal].set = r.set
              /\ journals'[r.journal].after = r.version
              /\ ~journals'[r.journal].rolledBack
    <3>1. ApplyMoves(r.set, r.journal, r.ok, r.failed, r.version)
      BY <1>0, <2>2, <2>3, ApplyResultGrows
    <3> QED BY <3>1 DEF ApplyMoves
  <2>5. CASE UNCHANGED <<changeSets, journals>>
    <3>1. NoneSettles /\ RecordsStand
      BY <2>4, <2>5 DEF NoneSettles, RecordsStand
    <3> QED BY <1>2, <1>3, <2>4, <3>1, TruthKept
  <2>6. CASE /\ journals[r.journal] = None /\ changeSets[r.set] # None
             /\ changeSets'[r.set].status = ApplyStatus(r.ok, r.failed)
             /\ journals'[r.journal] # None
             /\ journals'[r.journal].set = r.set
             /\ journals'[r.journal].after = r.version
             /\ ~journals'[r.journal].rolledBack
    <3>1. \A d \in deliveries' : TruePayload(d.payload, changeSets', applies')
      BY <1>0, <1>2, <2>4, PayloadStays DEF TruthInv
    <3>2. ASSUME NEW k \in JournalIds
          PROVE  RecordTrue(k)'
      <4>0. RecordTrue(k)
        BY DEF TruthInv
      <4>1. CASE k # r.journal
        BY <1>0, <2>4, <4>0, <4>1 DEF RecordTrue
      <4>2. CASE k = r.journal
        <5>1. entries[k] = None
          BY <2>6, <4>0, <4>2 DEF RecordTrue
        <5>2. applies[k] # None /\ applies[k].set = r.set /\ applies[k].after = r.version
          BY <1>1, <1>5, <4>2 DEF TrueReport, r
        <5> QED BY <1>0, <2>4, <2>6, <4>0, <4>2, <5>1, <5>2 DEF RecordTrue
      <4> QED BY <4>1, <4>2
    <3>3. ASSUME NEW s \in ChangeSetIds
          PROVE  AppliedInFull(s)'
      <4>0. AppliedInFull(s)
        BY DEF TruthInv
      <4>1. CASE s # r.set
        <5>1. changeSets'[s] = changeSets[s]
          BY <2>4, <4>1
        <5> QED BY <1>0, <4>0, <5>1 DEF AppliedInFull
      <4>2. CASE s = r.set /\ changeSets'[s].status = "applied"
        <5>1. r.failed = 0
          BY <2>3, <2>6, <4>2 DEF ApplyStatus
        <5>2. /\ applies[r.journal] # None
              /\ applies[r.journal].set = s
              /\ applies[r.journal].ok = r.ok
              /\ r.ok + r.failed = changeSets[s].content.ops
          BY <1>1, <1>5, <4>2 DEF TrueReport, r
        <5>3. changeSets'[s].content = changeSets[s].content
          BY <2>4, <2>6, <4>2 DEF SetsGrow
        <5>4. r.ok = changeSets'[s].content.ops
          BY <2>3, <5>1, <5>2, <5>3
        <5> QED BY <1>0, <2>3, <5>2, <5>4 DEF AppliedInFull
      <4>3. CASE s = r.set /\ changeSets'[s].status # "applied"
        BY <4>3 DEF AppliedInFull
      <4> QED BY <4>1, <4>2, <4>3
    <3>4. ASSUME NEW k \in JournalIds
          PROVE  Stored(k)'
      <4>1. CASE k # r.journal
        BY <1>0, <2>4, <4>1, StoredStays DEF TruthInv
      <4>2. CASE k = r.journal
        BY <2>3, <2>4, <2>6, <4>2 DEF Stored, SetsGrow
      <4> QED BY <4>1, <4>2
    <3> QED BY <1>3, <2>4, <3>1, <3>2, <3>3, <3>4 DEF TruthInv
  <2> QED BY <2>4, <2>5, <2>6
<1>6. CASE Authentic(m) /\ r.kind = "entry"
  <2>1. r \in EntryReport
    BY <1>1, <1>6 DEF Report, ApplyReport, EntryReport, RollbackReport
  <2>2. JournalEntry(m.link, m.nonce, r.journal, r.set, r.before, r.after, r.n)
    BY <1>6 DEF Arrive
  <2> HIDE DEF r
  <2>3. r.journal \in JournalIds /\ r.n \in Nat
    BY <2>1 DEF EntryReport
  <2>4. UNCHANGED <<changeSets, deliveries, journals, results>>
    BY <2>2 DEF JournalEntry
  <2>5. SetsGrow
    BY <2>4 DEF SetsGrow
  <2>6. ASSUME NEW k \in JournalIds
        PROVE  RecordTrue(k)'
    <3>0. RecordTrue(k)
      BY DEF TruthInv
    <3>1. CASE entries'[k] = entries[k]
      BY <1>0, <2>4, <3>0, <3>1 DEF RecordTrue
    <3>2. CASE entries'[k] # entries[k]
      <4>1. /\ k = r.journal /\ entries'[k] = r.n
            /\ journals[k] # None /\ journals[k].before = r.before /\ entries[k] = None
        BY <2>2, <2>3, <3>2 DEF JournalEntry, JournalEntryAccepted, TypeInv, TypeOK
      <4>2. applies[k] # None /\ applies[k].before = r.before /\ applies[k].inverses = r.n
        BY <1>1, <1>6, <4>1 DEF TrueReport, r
      <4> QED BY <1>0, <2>4, <3>0, <4>1, <4>2 DEF RecordTrue
    <3> QED BY <3>1, <3>2
  <2>7. \A s \in ChangeSetIds : AppliedInFull(s)'
    BY <1>0, <2>4 DEF TruthInv, AppliedInFull
  <2>8. \A d \in deliveries' : TruePayload(d.payload, changeSets', applies')
    BY <1>0, <1>2, <2>4, <2>5, PayloadStays DEF TruthInv
  <2>9. \A k \in JournalIds : Stored(k)'
    BY <1>0, <2>4, <2>5, StoredStays DEF TruthInv
  <2> QED BY <1>3, <2>5, <2>6, <2>7, <2>8, <2>9 DEF TruthInv
<1>7. CASE Authentic(m) /\ r.kind = "rollback"
  <2>1. r \in RollbackReport
    BY <1>1, <1>7 DEF Report, ApplyReport, EntryReport, RollbackReport
  <2>2. ReportRollback(m.link, m.nonce, r.journal, r.set, o, r.version)
    BY <1>7 DEF Arrive
  <2> HIDE DEF r
  <2>3. r.journal \in JournalIds /\ r.ok \in Nat /\ r.failed \in Nat
    BY <2>1 DEF RollbackReport
  <2>4. UNCHANGED <<changeSets, deliveries, entries>>
    BY <2>2 DEF ReportRollback
  <2>5. SetsGrow
    BY <2>4 DEF SetsGrow
  <2>6. ASSUME NEW k \in JournalIds
        PROVE  RecordTrue(k)'
    <3>0. RecordTrue(k)
      BY DEF TruthInv
    <3>1. CASE UNCHANGED <<results, journals>>
      BY <1>0, <2>4, <3>0, <3>1 DEF RecordTrue
    <3>2. CASE ~UNCHANGED <<results, journals>>
      <4>1. /\ RollbackResultAccepted(m.link, r.journal, r.set, o)
            /\ results' = [results EXCEPT ![r.journal] = o]
            /\ journals' = [journals EXCEPT ![r.journal].rolledBack =
                              RollbackStatus(o, entries[r.journal]) = "rolled_back"]
        BY <2>2, <3>2 DEF ReportRollback
      <4>2. CASE k # r.journal
        <5>1. results'[k] = results[k] /\ journals'[k] = journals[k]
          BY <1>0, <4>1, <4>2 DEF TypeInv, TypeOK
        <5> QED BY <1>0, <2>4, <3>0, <5>1 DEF RecordTrue
      <4>3. CASE k = r.journal
        <5>1. /\ journals[k] \in JournalRecord /\ entries[k] \in Nat
          BY <1>0, <4>1, <4>3 DEF RollbackResultAccepted, TypeInv, TypeOK
        <5>2. /\ results'[k] = o /\ o.ok = r.ok
              /\ journals'[k].set = journals[k].set
              /\ journals'[k].before = journals[k].before
              /\ journals'[k].after = journals[k].after
              /\ journals'[k].rolledBack = (RollbackStatus(o, entries[k]) = "rolled_back")
          BY <1>0, <2>3, <4>1, <4>3, <5>1 DEF JournalRecord, TypeInv, TypeOK
        <5>3. r.ok <= reversed[k]
          BY <1>1, <1>7, <4>3 DEF TrueReport, r
        <5>4. journals'[k].rolledBack => r.ok = entries[k]
          BY <5>2 DEF RollbackStatus
        <5>5. journals[k] # None /\ entries[k] # None
          BY <5>1, NoneAssumption
        <5>6. entries'[k] = entries[k]
          BY <2>4
        <5>7. journals'[k] # None
          <6>1. journals'[k] \in JournalRecord
            BY <1>0, <2>3, <4>1, <4>3, <5>1 DEF JournalRecord, TypeInv, TypeOK
          <6> QED BY <6>1, NoneAssumption
        <5>8. journals'[k].rolledBack => entries'[k] <= reversed'[k]
          BY <1>0, <5>1, <5>3, <5>4, <5>6
        <5> QED BY <1>0, <3>0, <5>2, <5>3, <5>5, <5>6, <5>7, <5>8 DEF RecordTrue
      <4> QED BY <4>2, <4>3
    <3> QED BY <3>1, <3>2
  <2>7. \A s \in ChangeSetIds : AppliedInFull(s)'
    BY <1>0, <2>4 DEF TruthInv, AppliedInFull
  <2>8. \A d \in deliveries' : TruePayload(d.payload, changeSets', applies')
    BY <1>0, <1>2, <2>4, <2>5, PayloadStays DEF TruthInv
  <2>9. \A k \in JournalIds : journals'[k] # None => journals[k] # None /\ journals'[k].set = journals[k].set
    <3>1. CASE UNCHANGED journals
      BY <3>1
    <3>2. CASE ~UNCHANGED journals
      <4>1. /\ journals[r.journal] \in JournalRecord /\ journals[r.journal] # None
            /\ \E x : journals' = [journals EXCEPT ![r.journal].rolledBack = x]
        BY <1>0, <2>2, <2>3, <3>2 DEF ReportRollback, RollbackResultAccepted, TypeInv, TypeOK
      <4> QED BY <1>0, <2>3, <4>1 DEF TypeInv, TypeOK, JournalRecord
    <3> QED BY <3>1, <3>2
  <2>10. \A k \in JournalIds : Stored(k)'
    BY <1>0, <2>5, <2>9, StoredStays DEF TruthInv
  <2> QED BY <1>3, <2>5, <2>6, <2>7, <2>8, <2>10 DEF TruthInv
<1> QED BY <1>1, <1>4, <1>5, <1>6, <1>7 DEF Report, ApplyReport, EntryReport, RollbackReport

(* Every step of the two together keeps the truth. *)
LEMMA TruthStep ==
    ASSUME BridgeTypeInv, StoreIsKept, TruthInv, [BridgeNext]_<<scenario, bridgeVars>>
    PROVE  TruthInv'
<1>0. TypeInv /\ PluginTypeOK
  BY DEF BridgeTypeInv
<1>1. ASSUME NEW t \in {"poll", "stopped"}, HandOver(t)
      PROVE  TruthInv'
  BY <1>1, HandOverTrue
<1>2. ASSUME NEW m \in flight, Arrive(m)
      PROVE  TruthInv'
  BY <1>2, ArriveTrue
<1>3. ASSUME NEW t \in P!Threads, Continue(t)
      PROVE  TruthInv'
  BY <1>3, ContinueTrue
<1>4. ASSUME LoseAnswer
      PROVE  TruthInv'
  <2>1. SetsGrow /\ NoneSettles /\ UNCHANGED <<deliveries, journals, entries, results>>
    BY <1>0, <1>4, PollGrows DEF LoseAnswer
  <2>2. RecordsStand /\ UNCHANGED pluginVars
    BY <1>4, <2>1 DEF RecordsStand, LoseAnswer
  <2> QED BY <2>1, <2>2, TruthInDaemon
<1>5. ASSUME NEW m \in flight, Lose(m)
      PROVE  TruthInv'
  BY <1>5, LoseTrue
<1>6. ASSUME PressConnect \/ RestartStudio
      PROVE  TruthInv'
  <2>1. UNCHANGED <<changeSets, deliveries, journals, entries, results>>
    BY <1>6 DEF PressConnect, RestartStudio, vars, store
  <2>2. P!Reconnect \/ P!StudioRestart
    BY <1>6 DEF PressConnect, RestartStudio
  <2> QED BY <2>1, <2>2, ConnectTrue
<1>7. ASSUME RestartDaemon
      PROVE  TruthInv'
  <2>1. UNCHANGED <<changeSets, deliveries, journals, entries, results>> /\ UNCHANGED pluginVars
    BY <1>7 DEF RestartDaemon, StoreIsKept, Restart, store
  <2>2. SetsGrow /\ NoneSettles /\ RecordsStand
    BY <2>1 DEF SetsGrow, NoneSettles, RecordsStand
  <2> QED BY <2>1, <2>2, TruthInDaemon
<1>8. ASSUME NEW l \in LinkIds, NEW p \in Projects, PairStudio(l, p)
      PROVE  TruthInv'
  <2>1. UNCHANGED <<changeSets, deliveries, journals, entries, results>> /\ P!StoreLink(l)
    BY <1>8 DEF PairStudio, Pair
  <2> QED BY <2>1, ConnectTrue
<1>9. ASSUME NEW s \in ChangeSetIds, NEW p \in Projects, NEW c \in Contents, Propose(s, p, c)
      PROVE  TruthInv'
  <2>1. version[p] \in Nat /\ SubmitChangeSet(s, p, version[p], c) /\ UNCHANGED pluginVars
    BY <1>0, <1>9 DEF Propose, TypeInv, TypeOK
  <2>2. SetsGrow /\ NoneSettles
    BY <1>0, <2>1, SubmitGrows
  <2>3. RecordsStand /\ deliveries' = deliveries
    BY <2>1 DEF SubmitChangeSet, RecordsStand
  <2> QED BY <2>1, <2>2, <2>3, TruthInDaemon
<1>10. ASSUME NEW s \in ChangeSetIds, NEW c \in Contents, ApproveProposal(s, c)
       PROVE  TruthInv'
  <2>1. Approve(s, c, TRUE) /\ UNCHANGED pluginVars
    BY <1>10 DEF ApproveProposal
  <2>2. /\ SetsGrow /\ NoneSettles
        /\ \A d \in deliveries' : d \in deliveries \/ TruePayload(d.payload, changeSets', applies')
    BY <1>0, <2>1, ApproveGrows
  <2>3. RecordsStand
    BY <2>1 DEF Approve, RecordsStand
  <2> QED BY <2>1, <2>2, <2>3, TruthInDaemon
<1>11. ASSUME NEW j \in JournalIds, AskRollback(j)
       PROVE  TruthInv'
  <2>1. version[journals[j].project] \in Nat
    BY <1>0, <1>11 DEF AskRollback, TypeInv, TypeOK, JournalRecord
  <2>2. RequestRollback(j, version[journals[j].project]) /\ UNCHANGED pluginVars
    BY <1>11 DEF AskRollback
  <2>3. /\ SetsGrow /\ NoneSettles
        /\ \A d \in deliveries' : d \in deliveries \/
              (d.payload.kind = "rollback" /\ d.payload.journal = j /\ d.payload.steps = entries[j])
        /\ entries[j] # None
    BY <1>0, <2>1, <2>2, RequestGrows
  <2>4. RecordsStand
    BY <1>0, <2>1, <2>2, RequestGrows DEF RecordsStand
  <2>5. applies'[j] # None /\ entries[j] = applies'[j].inverses
    BY <2>2, <2>3 DEF TruthInv, RecordTrue, pluginVars
  <2>6. \A d \in deliveries' : d \in deliveries \/ TruePayload(d.payload, changeSets', applies')
    BY <2>3, <2>5 DEF TruePayload
  <2> QED BY <2>2, <2>3, <2>4, <2>6, TruthInDaemon
<1>12. ASSUME NEW t \in UIThreads, Decide(t)
       PROVE  TruthInv'
  BY <1>12, PollThreads, DecideTrue
<1>13. ASSUME UNCHANGED <<scenario, bridgeVars>>
       PROVE  TruthInv'
  <2>1. UNCHANGED <<changeSets, deliveries, journals, entries, results>> /\ UNCHANGED pluginVars
    BY <1>13 DEF bridgeVars, vars, store
  <2>2. SetsGrow /\ NoneSettles /\ RecordsStand
    BY <2>1 DEF SetsGrow, NoneSettles, RecordsStand
  <2> QED BY <2>1, <2>2, TruthInDaemon
<1> QED
  BY <1>1, <1>2, <1>3, <1>4, <1>5, <1>6, <1>7, <1>8, <1>9, <1>10, <1>11, <1>12, <1>13
  DEF BridgeNext, Network, Faults, People

(* Initially nothing is claimed. *)
LEMMA TruthInit == BridgeInit => TruthInv
<1> SUFFICES ASSUME BridgeInit
             PROVE  TruthInv
  OBVIOUS
<1>1. /\ changeSets = [s \in ChangeSetIds |-> None] /\ deliveries = {}
      /\ journals = [j \in JournalIds |-> None]
      /\ entries = [j \in JournalIds |-> None] /\ results = [j \in JournalIds |-> None]
  BY DEF BridgeInit, Init
<1>2. /\ flight = {} /\ queue = <<>> /\ pending = None
      /\ reversed = [j \in JournalIds |-> 0]
      /\ threads = [t \in P!Threads |-> P!Idle] /\ P!Idle.rest = <<>>
  BY DEF BridgeInit, P!Init, P!Idle
<1>3. \A t \in P!Threads : threads[t].rest = <<>>
  BY <1>2
<1>4. ReportsTrue(changeSets, applies, reversed, flight, threads)
  BY <1>2, <1>3 DEF ReportsTrue
<1>5. ReviewTrue(changeSets, queue, pending)
  BY <1>2 DEF ReviewTrue
<1>6. \A j \in JournalIds : RecordTrue(j)
  BY <1>1, <1>2 DEF RecordTrue
<1>7. \A s \in ChangeSetIds : AppliedInFull(s)
  BY <1>1 DEF AppliedInFull
<1>8. \A j \in JournalIds : Stored(j)
  BY <1>1 DEF Stored
<1> QED BY <1>1, <1>4, <1>5, <1>6, <1>7, <1>8 DEF TruthInv

(* What the invariant says of the journal. *)
LEMMA TruthMeans ==
    ASSUME BridgeTypeInv, TruthInv
    PROVE  AppliesAreTrue /\ RolledBackIsTrue
<1> SUFFICES ASSUME NEW j \in JournalIds
             PROVE  /\ journals[j] # None =>
                          /\ applies[j] # None
                          /\ applies[j].set = journals[j].set
                          /\ applies[j].after = journals[j].after
                    /\ entries[j] # None =>
                          /\ entries[j] = applies[j].inverses
                          /\ journals[j].before = applies[j].before
                    /\ journals[j] # None /\ changeSets[journals[j].set].status = "applied" =>
                          \E k \in JournalIds :
                             /\ applies[k] # None
                             /\ applies[k].set = journals[j].set
                             /\ applies[k].ok = changeSets[applies[k].set].content.ops
                    /\ journals[j] # None =>
                          /\ JournalState(j) = "rolled_back" => reversed[j] = entries[j]
                          /\ JournalState(j) = "rollback_partial" => reversed[j] > 0
  BY DEF AppliesAreTrue, RolledBackIsTrue
<1>0. RecordTrue(j) /\ Stored(j)
  BY DEF TruthInv
<1>1. ASSUME journals[j] # None, changeSets[journals[j].set].status = "applied"
      PROVE  \E k \in JournalIds :
                /\ applies[k] # None
                /\ applies[k].set = journals[j].set
                /\ applies[k].ok = changeSets[applies[k].set].content.ops
  <2>1. journals[j].set \in ChangeSetIds /\ changeSets[journals[j].set] # None
    BY <1>0, <1>1 DEF Stored, BridgeTypeInv, TypeInv, TypeOK, JournalRecord
  <2>2. AppliedInFull(journals[j].set)
    BY <2>1 DEF TruthInv
  <2> QED BY <1>1, <2>1, <2>2 DEF AppliedInFull
<1>2. ASSUME journals[j] # None, JournalState(j) = "rolled_back"
      PROVE  reversed[j] = entries[j]
  <2>1. journals[j].rolledBack
    BY <1>2 DEF JournalState
  <2>2. entries[j] \in Nat /\ entries[j] <= reversed[j] /\ entries[j] = applies[j].inverses
    BY <1>0, <1>2, <2>1 DEF RecordTrue, BridgeTypeInv, TypeInv, TypeOK
  <2>3. reversed[j] \in Nat
    BY DEF BridgeTypeInv, PluginTypeOK
  <2>4. reversed[j] <= entries[j]
    BY <1>0, <2>2, <2>3 DEF RecordTrue
  <2> QED BY <2>2, <2>3, <2>4
<1>3. ASSUME journals[j] # None, JournalState(j) = "rollback_partial"
      PROVE  reversed[j] > 0
  <2>1. results[j] # None /\ results[j].ok > 0
    BY <1>3 DEF JournalState
  <2>2. results[j].ok \in Nat /\ reversed[j] \in Nat
    BY <2>1 DEF BridgeTypeInv, TypeInv, TypeOK, RollbackResult, PluginTypeOK
  <2> QED BY <1>0, <2>1, <2>2 DEF RecordTrue
<1> QED BY <1>0, <1>1, <1>2, <1>3 DEF RecordTrue

-----------------------------------------------------------------------------
(* A set is written into the place once. *)

(* No step forgets a stored set or takes an approval back. *)
LEMMA GrowStep ==
    ASSUME BridgeTypeInv, StoreIsKept, [BridgeNext]_<<scenario, bridgeVars>>
    PROVE  SetsGrow /\ NoneReopens
<1>0. TypeInv /\ PluginTypeOK
  BY DEF BridgeTypeInv
<1>1. ASSUME changeSets' = changeSets
      PROVE  SetsGrow /\ NoneReopens
  BY <1>1 DEF SetsGrow, NoneReopens
<1>2. ASSUME NEW l, NEW since, Poll(l, since)
      PROVE  SetsGrow /\ NoneReopens
  BY <1>0, <1>2, PollGrows
<1>3. ASSUME NEW m \in flight, Arrive(m)
      PROVE  SetsGrow /\ NoneReopens
  <2> DEFINE r == m.report
  <2>1. r \in Report
    BY <1>0 DEF PluginTypeOK, Envelope
  <2>2. CASE Authentic(m) /\ r.kind = "apply"
    <3>1. ApplyResult(m.link, m.nonce, r.set, r.journal, r.ok, r.failed, r.version)
      BY <1>3, <2>2 DEF Arrive
    <3> HIDE DEF r
    <3>2. r.set \in ChangeSetIds /\ r.journal \in JournalIds /\ r.version \in Nat
      BY <2>1, <2>2 DEF Report, ApplyReport, EntryReport, RollbackReport
    <3>3. NoneReopens /\ ApplyMoves(r.set, r.journal, r.ok, r.failed, r.version)
      BY <1>0, <3>1, <3>2, ApplyResultGrows
    <3> QED BY <3>3 DEF ApplyMoves
  <2>3. CASE ~(Authentic(m) /\ r.kind = "apply")
    <3>1. r.kind \in {"apply", "entry", "rollback"}
      BY <2>1 DEF Report, ApplyReport, EntryReport, RollbackReport
    <3>2. changeSets' = changeSets
      BY <1>3, <2>3, <3>1 DEF Arrive, JournalEntry, ReportRollback, vars, store
    <3> QED BY <1>1, <3>2
  <2> QED BY <2>2, <2>3
<1>4. ASSUME NEW s \in ChangeSetIds, NEW p \in Projects, NEW c \in Contents, Propose(s, p, c)
      PROVE  SetsGrow /\ NoneReopens
  <2>1. version[p] \in Nat /\ SubmitChangeSet(s, p, version[p], c)
    BY <1>0, <1>4 DEF Propose, TypeInv, TypeOK
  <2> QED BY <1>0, <2>1, SubmitGrows
<1>5. ASSUME NEW s \in ChangeSetIds, NEW c \in Contents, ApproveProposal(s, c)
      PROVE  SetsGrow /\ NoneReopens
  BY <1>0, <1>5, ApproveGrows DEF ApproveProposal
<1>6. ASSUME NEW j \in JournalIds, AskRollback(j)
      PROVE  SetsGrow /\ NoneReopens
  <2>1. version[journals[j].project] \in Nat
    BY <1>0, <1>6 DEF AskRollback, TypeInv, TypeOK, JournalRecord
  <2>2. RequestRollback(j, version[journals[j].project])
    BY <1>6 DEF AskRollback
  <2> QED BY <1>0, <2>1, <2>2, RequestGrows
<1>7. ASSUME RestartDaemon
      PROVE  changeSets' = changeSets
  BY <1>7 DEF RestartDaemon, StoreIsKept, Restart, store
<1>8. ASSUME NEW l \in LinkIds, NEW p \in Projects, PairStudio(l, p)
      PROVE  changeSets' = changeSets
  BY <1>8 DEF PairStudio, Pair
<1>9. ASSUME \/ \E t \in P!Threads : Continue(t) \/ Decide(t)
             \/ \E t \in UIThreads : Decide(t)
             \/ \E m \in flight : Lose(m)
             \/ PressConnect \/ RestartStudio
             \/ UNCHANGED <<scenario, bridgeVars>>
      PROVE  changeSets' = changeSets
  BY <1>9 DEF Continue, Decide, Lose, PressConnect, RestartStudio, bridgeVars, vars, store
<1>10. ASSUME NEW t \in {"poll", "stopped"}, HandOver(t)
       PROVE  SetsGrow /\ NoneReopens
  BY <1>2, <1>10 DEF HandOver
<1>11. ASSUME LoseAnswer
       PROVE  SetsGrow /\ NoneReopens
  BY <1>2, <1>11 DEF LoseAnswer
<1> QED
  BY <1>1, <1>3, <1>4, <1>5, <1>6, <1>7, <1>8, <1>9, <1>10, <1>11
  DEF BridgeNext, Network, Faults, People

(* What an apply does to the place and to the version the plugin knows:    *)
(* operations go in only when the set was built on that version, which     *)
(* then moves.                                                             *)
Wrote(cs) ==
    /\ known' \in Nat /\ (known # None => known' >= known)
    /\ \/ place' = place
       \/ \E n \in 1..cs.content.ops :
             /\ place' = [place EXCEPT ![cs.set] = @ + n]
             /\ known = None \/ known = cs.base
             /\ known' > cs.base

(* Apply.execute. *)
LEMMA ExecuteWrites ==
    ASSUME PluginTypeOK, NEW t \in P!Threads, NEW cs \in SetPayload, P!Execute(t, cs)
    PROVE  Wrote(cs)
<1>0. P!BaseOf(cs) \in Nat /\ cs.base \in Nat /\ cs.content.ops \in Nat
      /\ known \in Nat \cup {None}
  BY BaseType, ContentsAssumption DEF SetPayload, PluginTypeOK
<1>1. PICK j \in JournalIds :
         \/ P!ExecuteRefused(t, cs, j)
         \/ \E ok \in 0..cs.content.ops, partial \in BOOLEAN : P!ExecuteRun(t, cs, j, ok, partial)
  BY DEF P!Execute
<1>2. CASE P!ExecuteRefused(t, cs, j)
  <2>1. known' = P!BaseOf(cs) /\ place' = place
    BY <1>2 DEF P!ExecuteRefused
  <2>2. known # None => P!BaseOf(cs) = known
    BY DEF P!BaseOf
  <2> QED BY <1>0, <2>1, <2>2 DEF Wrote
<1>3. ASSUME NEW ok \in 0..cs.content.ops, NEW partial \in BOOLEAN, P!ExecuteRun(t, cs, j, ok, partial)
      PROVE  Wrote(cs)
  <2> DEFINE touched == ok + IF partial THEN 1 ELSE 0
  <2>1. /\ ~P!Stale(cs)
        /\ partial => cs.content.ops - ok > 0
        /\ known' = IF touched > 0 THEN P!BaseOf(cs) + 1 ELSE P!BaseOf(cs)
        /\ place' = [place EXCEPT ![cs.set] = @ + touched]
    BY <1>3 DEF P!ExecuteRun
  <2>2. touched \in 0..cs.content.ops
    BY <1>0, <2>1
  <2>3. cs.base = P!BaseOf(cs) /\ (known # None => P!BaseOf(cs) = known)
    BY <2>1 DEF P!Stale, P!BaseOf
  <2> HIDE DEF touched
  <2>4. known' \in Nat /\ (known # None => known' >= known)
    BY <1>0, <2>1, <2>3
  <2>5. CASE touched = 0
    <3>1. place' = place
      <4>1. cs.set \in ChangeSetIds /\ place[cs.set] \in Nat
        BY DEF SetPayload, PluginTypeOK, Places
      <4>2. place[cs.set] + touched = place[cs.set]
        BY <2>5, <4>1
      <4> QED BY <2>1, <4>1, <4>2 DEF PluginTypeOK, Places
    <3> QED BY <2>4, <3>1 DEF Wrote
  <2>6. CASE touched # 0
    <3>1. touched \in 1..cs.content.ops /\ known' > cs.base
      BY <1>0, <2>1, <2>2, <2>3, <2>6
    <3> QED BY <2>1, <2>3, <2>4, <3>1 DEF Wrote
  <2> QED BY <2>5, <2>6
<1> QED BY <1>1, <1>2, <1>3

(* presentNext. *)
LEMMA PresentWrites ==
    ASSUME PluginTypeOK, NEW t \in P!Threads, NEW waiting \in Seq(SetPayload),
           P!PresentNext(t, waiting)
    PROVE  \/ queue' = waiting /\ pending' = pending /\ place' = place /\ known' = known
           \/ /\ waiting # <<>> /\ pending = None /\ queue' = Tail(waiting)
              /\ \/ pending' = None /\ Wrote(Head(waiting))
                 \/ pending' = Head(waiting) /\ place' = place /\ known' = known
<1>1. CASE pending # None \/ waiting = <<>>
  BY <1>1 DEF P!PresentNext
<1>2. CASE ~(pending # None \/ waiting = <<>>)
  <2>1. Head(waiting) \in SetPayload
    BY <1>2
  <2>2. /\ queue' = Tail(waiting)
        /\ \/ P!Execute(t, Head(waiting)) /\ UNCHANGED pending
           \/ pending' = Head(waiting) /\ UNCHANGED <<known, place>>
    BY <1>2 DEF P!PresentNext
  <2> QED BY <1>2, <2>1, <2>2, ExecuteWrites
<1> QED BY <1>1, <1>2

(* Where nothing is reversed the version only rises: a set that went in    *)
(* left the plugin above its base, so that no later delivery of it passes  *)
(* _refusal's base check, whatever counters were set back meanwhile.       *)
RisenInv ==
    /\ \A d \in deliveries : d.payload.kind = "changeset"
    /\ \A s \in ChangeSetIds : place[s] > 0 =>
          changeSets[s] # None /\ known # None /\ known > changeSets[s].base
    /\ \A s \in ChangeSetIds : changeSets[s] # None => place[s] <= changeSets[s].content.ops

(* The place stands and the version does not fall. *)
LEMMA RisenStays ==
    ASSUME BridgeTypeInv, RisenInv, SetsGrow, place' = place,
           changeSets' \in [ChangeSetIds -> ChangeSet \cup {None}],
           known # None => known' \in Nat /\ known' >= known,
           \A d \in deliveries' : d.payload.kind = "changeset"
    PROVE  RisenInv'
<1>1. ASSUME NEW s \in ChangeSetIds
      PROVE  /\ place'[s] > 0 =>
                   changeSets'[s] # None /\ known' # None /\ known' > changeSets'[s].base
             /\ changeSets'[s] # None => place'[s] <= changeSets'[s].content.ops
  <2>1. place[s] \in Nat /\ known \in Nat \cup {None}
    BY DEF BridgeTypeInv, PluginTypeOK, Places
  <2>2. changeSets'[s] # None => changeSets'[s].content.ops \in Nat
    BY ContentsAssumption DEF ChangeSet
  <2>3. changeSets[s] # None => changeSets[s].base \in Nat
    BY DEF BridgeTypeInv, TypeInv, TypeOK, ChangeSet
  <2> QED BY <2>1, <2>2, <2>3, NoneAssumption DEF RisenInv, SetsGrow
<1> QED BY <1>1 DEF RisenInv

(* An apply writes only a set that is not in the place yet. *)
LEMMA RisenWrites ==
    ASSUME BridgeTypeInv, RisenInv, SetsGrow, NEW cs \in SetPayload, TrueSet(cs, changeSets),
           changeSets' \in [ChangeSetIds -> ChangeSet \cup {None}],
           Wrote(cs), deliveries' = deliveries
    PROVE  RisenInv'
<1>0. \A d \in deliveries' : d.payload.kind = "changeset"
  BY DEF RisenInv
<1>1. CASE place' = place
  BY <1>0, <1>1, RisenStays DEF Wrote
<1>2. ASSUME NEW n \in 1..cs.content.ops,
             place' = [place EXCEPT ![cs.set] = @ + n],
             known = None \/ known = cs.base,
             known' > cs.base
      PROVE  RisenInv'
  <2>1. /\ cs.set \in ChangeSetIds /\ cs.base \in Nat /\ cs.content.ops \in Nat
        /\ known \in Nat \cup {None} /\ place \in Places
        /\ known' \in Nat /\ (known # None => known' >= known)
    BY ContentsAssumption DEF SetPayload, BridgeTypeInv, PluginTypeOK, Wrote
  <2>2. changeSets[cs.set] # None /\ changeSets[cs.set].base = cs.base
        /\ changeSets[cs.set].content = cs.content
    BY DEF TrueSet
  <2>3. place[cs.set] = 0
    BY <1>2, <2>1, <2>2 DEF RisenInv, Places
  <2>4. ASSUME NEW s \in ChangeSetIds
        PROVE  /\ place'[s] > 0 =>
                     changeSets'[s] # None /\ known' # None /\ known' > changeSets'[s].base
               /\ changeSets'[s] # None => place'[s] <= changeSets'[s].content.ops
    <3>1. CASE s = cs.set
      <4>1. place'[s] = n /\ n \in Nat /\ n <= cs.content.ops
        BY <1>2, <2>1, <2>3, <3>1 DEF Places
      <4>2. changeSets'[s] # None /\ changeSets'[s].base = cs.base
            /\ changeSets'[s].content = cs.content
        BY <2>1, <2>2, <3>1 DEF SetsGrow
      <4> QED BY <1>2, <2>1, <4>1, <4>2, NoneAssumption
    <3>2. CASE s # cs.set
      <4>1. place'[s] = place[s] /\ place[s] \in Nat
        BY <1>2, <2>1, <3>2 DEF Places
      <4>2. changeSets'[s] # None => changeSets'[s].content.ops \in Nat
        BY ContentsAssumption DEF ChangeSet
      <4>3. changeSets[s] # None => changeSets[s].base \in Nat
        BY DEF BridgeTypeInv, TypeInv, TypeOK, ChangeSet
      <4> QED BY <2>1, <4>1, <4>2, <4>3, NoneAssumption DEF RisenInv, SetsGrow
    <3> QED BY <3>1, <3>2
  <2> QED BY <1>0, <2>4 DEF RisenInv
<1> QED BY <1>1, <1>2 DEF Wrote

(* The head of what waits is presented or applied. *)
LEMMA RisenPresents ==
    ASSUME BridgeTypeInv, RisenInv, SetsGrow, NEW t \in P!Threads,
           NEW waiting \in Seq(SetPayload), ReviewTrue(changeSets, waiting, pending),
           changeSets' \in [ChangeSetIds -> ChangeSet \cup {None}],
           P!PresentNext(t, waiting), deliveries' = deliveries
    PROVE  RisenInv'
<1>0. PluginTypeOK /\ known \in Nat \cup {None}
  BY DEF BridgeTypeInv, PluginTypeOK
<1>1. \A d \in deliveries' : d.payload.kind = "changeset"
  BY DEF RisenInv
<1>2. CASE place' = place /\ known' = known
  <2>1. known # None => known' \in Nat /\ known' >= known
    BY <1>0, <1>2
  <2> QED BY <1>1, <1>2, <2>1, RisenStays
<1>3. CASE waiting # <<>> /\ Wrote(Head(waiting))
  <2>1. Head(waiting) \in SetPayload /\ TrueSet(Head(waiting), changeSets)
    BY <1>3 DEF ReviewTrue
  <2> QED BY <1>3, <2>1, RisenWrites
<1> QED BY <1>0, <1>2, <1>3, PresentWrites

(* Every step keeps it where the user never asks for a reversal and Studio *)
(* keeps running.                                                          *)
LEMMA RisenStep ==
    ASSUME BridgeTypeInv, TruthInv, RisenInv, StoreIsKept, StudioKeepsRunning,
           ~scenario.rollbacks, [BridgeNext]_<<scenario, bridgeVars>>
    PROVE  RisenInv'
<1>0. /\ TypeInv /\ PluginTypeOK /\ ReviewTrue(changeSets, queue, pending)
      /\ known \in Nat \cup {None} /\ queue \in Seq(SetPayload)
  BY DEF BridgeTypeInv, PluginTypeOK, TruthInv
<1>1. SetsGrow
  BY GrowStep
<1>2. changeSets' \in [ChangeSetIds -> ChangeSet \cup {None}]
  BY BridgeTypeStep DEF BridgeTypeInv, TypeInv, TypeOK
<1>3. ASSUME place' = place, known' = known, deliveries' = deliveries
      PROVE  RisenInv'
  <2>1. known # None => known' \in Nat /\ known' >= known
    BY <1>0, <1>3
  <2>2. \A d \in deliveries' : d.payload.kind = "changeset"
    BY <1>3 DEF RisenInv
  <2> QED BY <1>1, <1>2, <1>3, <2>1, <2>2, RisenStays
<1>4. ASSUME NEW t \in {"poll", "stopped"}, HandOver(t)
      PROVE  RisenInv'
  <2> DEFINE since == IF t = "poll" THEN cursor ELSE lastPoll
  <2>1. PICK d \in NextDelivery(link, since) : P!Deliver(t, d, scenario.missedWrites)
    BY <1>4 DEF HandOver
  <2>2. d \in deliveries /\ d \in Delivery
    BY <1>0 DEF NextDelivery, TypeInv, TypeOK
  <2>3. deliveries' = deliveries
    BY <1>4 DEF HandOver, Poll
  <2> HIDE DEF since
  <2>4. t \in P!Threads
    BY PollThreads
  <2>5. d.payload.kind = "changeset" /\ d.payload \in SetPayload /\ P!Receive(t, d.payload)
    BY <2>1, <2>2, PayloadKinds DEF P!Deliver, RisenInv
  <2>6. TrueSet(d.payload, changeSets)
    BY <2>2, <2>5 DEF TruthInv, TruePayload
  <2>7. CASE Len(queue) >= QueueCap
    BY <1>3, <2>3, <2>5, <2>7 DEF P!Receive
  <2>8. CASE ~(Len(queue) >= QueueCap)
    <3>1. P!PresentNext(t, Append(queue, d.payload))
      BY <2>5, <2>8 DEF P!Receive
    <3>2. Append(queue, d.payload) \in Seq(SetPayload)
      BY <1>0, <2>5
    <3>3. ReviewTrue(changeSets, Append(queue, d.payload), pending)
      BY <1>0, <2>5, <2>6 DEF ReviewTrue
    <3> QED BY <1>1, <1>2, <2>3, <2>4, <3>1, <3>2, <3>3, RisenPresents
  <2> QED BY <2>7, <2>8
<1>5. ASSUME NEW t \in P!Threads, Continue(t)
      PROVE  RisenInv'
  <2>1. deliveries' = deliveries /\ P!Resume(t)
    BY <1>5 DEF Continue, vars, store
  <2>2. CASE P!PresentNext(t, queue)
    BY <1>0, <1>1, <1>2, <2>1, <2>2, RisenPresents
  <2>3. CASE UNCHANGED <<known, place>>
    BY <1>3, <2>1, <2>3
  <2> QED BY <2>1, <2>2, <2>3 DEF P!Resume
<1>6. ASSUME NEW t \in UIThreads, Decide(t)
      PROVE  RisenInv'
  <2>1. deliveries' = deliveries /\ t \in P!Threads
    BY <1>6, PollThreads DEF Decide, vars, store
  <2>2. CASE P!ApproveInStudio(t)
    <3>1. pending \in SetPayload /\ TrueSet(pending, changeSets) /\ P!Execute(t, pending)
      BY <1>0, <2>2 DEF P!ApproveInStudio, PluginTypeOK, ReviewTrue
    <3>2. Wrote(pending)
      BY <1>0, <2>1, <3>1, ExecuteWrites
    <3> QED BY <1>1, <1>2, <2>1, <3>1, <3>2, RisenWrites
  <2>3. CASE P!RejectInStudio(t)
    BY <1>3, <2>1, <2>3 DEF P!RejectInStudio
  <2> QED BY <1>6, <2>2, <2>3 DEF Decide
<1>7. ASSUME NEW m \in flight, Arrive(m) \/ Lose(m)
      PROVE  RisenInv'
  <2>1. place' = place /\ known' = known
    BY <1>7 DEF Arrive, Lose
  <2>2. m.report.kind \in {"apply", "entry", "rollback"}
    BY <1>0 DEF PluginTypeOK, Envelope, Report, ApplyReport, EntryReport, RollbackReport
  <2>3. deliveries' = deliveries
    BY <1>7, <2>2 DEF Arrive, Lose, ApplyResult, JournalEntry, ReportRollback, vars, store
  <2> QED BY <1>3, <2>1, <2>3
<1>8. ASSUME LoseAnswer
      PROVE  RisenInv'
  BY <1>3, <1>8 DEF LoseAnswer, Poll, pluginVars
<1>9. ASSUME PressConnect
      PROVE  RisenInv'
  BY <1>3, <1>9 DEF PressConnect, P!Reconnect, vars, store
<1>10. ~RestartStudio
  BY DEF RestartStudio, StudioKeepsRunning
<1>11. ASSUME RestartDaemon
       PROVE  RisenInv'
  <2>1. deliveries' = deliveries /\ place' = place /\ known' = known
    BY <1>11 DEF RestartDaemon, StoreIsKept, Restart, store, pluginVars
  <2> QED BY <1>3, <2>1
<1>12. ASSUME NEW l \in LinkIds, NEW p \in Projects, PairStudio(l, p)
       PROVE  RisenInv'
  BY <1>3, <1>12 DEF PairStudio, Pair, P!StoreLink
<1>13. ASSUME NEW s \in ChangeSetIds, NEW p \in Projects, NEW c \in Contents, Propose(s, p, c)
       PROVE  RisenInv'
  BY <1>3, <1>13 DEF Propose, SubmitChangeSet, pluginVars
<1>14. ASSUME NEW s \in ChangeSetIds, NEW c \in Contents, ApproveProposal(s, c)
       PROVE  RisenInv'
  <2>1. \A d \in deliveries' : d \in deliveries \/ d.payload = ChangeSetPayload(s)
    BY <1>14 DEF ApproveProposal, Approve, Enqueue
  <2>2. \A d \in deliveries' : d.payload.kind = "changeset"
    BY <2>1 DEF RisenInv, ChangeSetPayload
  <2>3. place' = place /\ known' = known
    BY <1>14 DEF ApproveProposal, pluginVars
  <2>4. known # None => known' \in Nat /\ known' >= known
    BY <1>0, <2>3
  <2> QED BY <1>1, <1>2, <2>2, <2>3, <2>4, RisenStays
<1>15. \A j \in JournalIds : ~AskRollback(j)
  BY DEF AskRollback
<1>16. ASSUME UNCHANGED <<scenario, bridgeVars>>
       PROVE  RisenInv'
  BY <1>3, <1>16 DEF bridgeVars, pluginVars, vars, store
<1> QED
  BY <1>4, <1>5, <1>6, <1>7, <1>8, <1>9, <1>10, <1>11, <1>12, <1>13, <1>14, <1>15, <1>16
  DEF BridgeNext, Network, Faults, People

(* Where the plugin never connects again on a stored link, a delivery is   *)
(* handed over once: unwrap's nonce check alone keeps a set from going in  *)
(* twice, also while reversals take the version back.                      *)
QueuedIn(q, s) == \E i \in DOMAIN q : q[i].set = s
ShownIn(p, s) == p # None /\ p.set = s
CarriesSet(d, s) == d.payload.kind = "changeset" /\ d.payload.set = s
ComingIn(D, l, c, s) == \E d \in D : d.link = l /\ d.nonce > c /\ CarriesSet(d, s)

(* A set is coming, waiting or on screen, one of the three, and then it is *)
(* not in the place.                                                       *)
OneWay(q, p, D, l, c, where) ==
    /\ \A s \in ChangeSetIds : QueuedIn(q, s) \/ ShownIn(p, s) \/ ComingIn(D, l, c, s) => where[s] = 0
    /\ \A i, k \in DOMAIN q : q[i].set = q[k].set => i = k
    /\ \A s \in ChangeSetIds : ~(QueuedIn(q, s) /\ ShownIn(p, s))
    /\ \A s \in ChangeSetIds : ComingIn(D, l, c, s) => ~QueuedIn(q, s) /\ ~ShownIn(p, s)

(* A set that was never approved has not been anywhere. *)
Untouched(q, p, D, where, s) ==
    where[s] = 0 /\ ~QueuedIn(q, s) /\ ~ShownIn(p, s) /\ \A d \in D : ~CarriesSet(d, s)

(* No more of a set is in the place than it has operations. *)
WithinOps(sets, where) ==
    \A s \in ChangeSetIds : sets[s] # None => where[s] <= sets[s].content.ops

OnceInv ==
    /\ lastPoll = None
    /\ OneWay(queue, pending, deliveries, link, cursor, place)
    /\ \A s \in ChangeSetIds : Open(changeSets, s) => Untouched(queue, pending, deliveries, place, s)
    /\ \A d, e \in deliveries : \A s \in ChangeSetIds : CarriesSet(d, s) /\ CarriesSet(e, s) => d = e
    /\ \A d \in deliveries : links[d.link] # None
    /\ WithinOps(changeSets, place)

(* An apply of a set that is nowhere else any more. *)
LEMMA WriteOnce ==
    ASSUME PluginTypeOK, NEW cs \in SetPayload, Wrote(cs), place[cs.set] = 0
    PROVE  /\ \A s \in ChangeSetIds \ {cs.set} : place'[s] = place[s]
           /\ place'[cs.set] \in 0..cs.content.ops
<1>1. cs.set \in ChangeSetIds /\ place \in Places /\ cs.content.ops \in Nat
  BY ContentsAssumption DEF SetPayload, PluginTypeOK
<1>2. CASE place' = place
  BY <1>1, <1>2
<1>3. ASSUME NEW n \in 1..cs.content.ops, place' = [place EXCEPT ![cs.set] = @ + n]
      PROVE  /\ \A s \in ChangeSetIds \ {cs.set} : place'[s] = place[s]
             /\ place'[cs.set] \in 0..cs.content.ops
  BY <1>1, <1>3 DEF Places
<1> QED BY <1>2, <1>3 DEF Wrote

(* presentNext moves the head of what waits on, and nothing else. *)
LEMMA PresentOnce ==
    ASSUME PluginTypeOK, NEW t \in P!Threads, NEW waiting \in Seq(SetPayload),
           NEW D, NEW l, NEW c, OneWay(waiting, pending, D, l, c, place),
           P!PresentNext(t, waiting)
    PROVE  /\ OneWay(queue', pending', D, l, c, place')
           /\ \A s \in ChangeSetIds :
                 Untouched(waiting, pending, D, place, s) => Untouched(queue', pending', D, place', s)
           /\ \A s \in ChangeSetIds :
                 \/ place'[s] = place[s]
                 \/ \E i \in DOMAIN waiting :
                       waiting[i].set = s /\ place'[s] \in 0..waiting[i].content.ops
<1>1. CASE queue' = waiting /\ pending' = pending /\ place' = place
  BY <1>1
<1>2. CASE waiting # <<>> /\ pending = None /\ queue' = Tail(waiting)
  <2> DEFINE h == Head(waiting)
  <2>1. h \in SetPayload /\ h = waiting[1] /\ 1 \in DOMAIN waiting
    BY <1>2
  <2>2. h.set \in ChangeSetIds
    BY <2>1 DEF SetPayload
  <2>3. \A i \in DOMAIN Tail(waiting) : i + 1 \in DOMAIN waiting /\ Tail(waiting)[i] = waiting[i + 1] /\ i + 1 # 1 /\ i \in Nat
    BY <1>2
  <2>4. QueuedIn(waiting, h.set)
    BY <2>1 DEF QueuedIn
  <2>5. place[h.set] = 0 /\ ~ComingIn(D, l, c, h.set)
    BY <2>2, <2>4 DEF OneWay
  <2>6. ~QueuedIn(Tail(waiting), h.set)
    BY <2>1, <2>3 DEF QueuedIn, OneWay
  <2>7. \A s \in ChangeSetIds : QueuedIn(Tail(waiting), s) => QueuedIn(waiting, s)
    BY <2>3 DEF QueuedIn
  <2>8. \A i, k \in DOMAIN Tail(waiting) : Tail(waiting)[i].set = Tail(waiting)[k].set => i = k
    BY <2>3 DEF OneWay
  <2> HIDE DEF h
  <2>9. CASE pending' = None /\ Wrote(h)
    <3>1. /\ \A s \in ChangeSetIds \ {h.set} : place'[s] = place[s]
          /\ place'[h.set] \in 0..h.content.ops
      BY <2>1, <2>5, <2>9, WriteOnce
    <3>2. OneWay(queue', pending', D, l, c, place')
      BY <1>2, <2>5, <2>6, <2>7, <2>8, <2>9, <3>1 DEF OneWay, ShownIn
    <3>3. \A s \in ChangeSetIds :
             Untouched(waiting, pending, D, place, s) => Untouched(queue', pending', D, place', s)
      BY <1>2, <2>4, <2>7, <2>9, <3>1 DEF Untouched, ShownIn
    <3> QED BY <2>1, <3>1, <3>2, <3>3
  <2>10. CASE pending' = h /\ place' = place
    <3>1. OneWay(queue', pending', D, l, c, place')
      BY <1>2, <2>2, <2>4, <2>5, <2>6, <2>7, <2>8, <2>10 DEF OneWay, ShownIn
    <3>2. \A s \in ChangeSetIds :
             Untouched(waiting, pending, D, place, s) => Untouched(queue', pending', D, place', s)
      BY <1>2, <2>4, <2>7, <2>10 DEF Untouched, ShownIn
    <3> QED BY <2>10, <3>1, <3>2
  <2> QED BY <1>2, <2>9, <2>10, PresentWrites DEF h
<1> QED BY <1>1, <1>2, PresentWrites

(* The delivery a poll is answered with joins what waits. *)
LEMMA AppendOnce ==
    ASSUME PluginTypeOK, NEW D \in SUBSET Delivery, NEW l, NEW c \in Nat, NEW d \in D,
           OneWay(queue, pending, D, l, c, place),
           \A e \in D : \A s \in ChangeSetIds : CarriesSet(d, s) /\ CarriesSet(e, s) => d = e,
           d.link = l, d.nonce > c
    PROVE  /\ OneWay(queue, pending, D, l, d.nonce, place)
           /\ d.payload.kind = "changeset" =>
                 OneWay(Append(queue, d.payload), pending, D, l, d.nonce, place)
<1>1. \A e \in D : e.nonce \in Nat
  BY DEF Delivery
<1>2. \A s \in ChangeSetIds : ComingIn(D, l, d.nonce, s) => ComingIn(D, l, c, s)
  BY <1>1 DEF ComingIn
<1>3. OneWay(queue, pending, D, l, d.nonce, place)
  BY <1>2 DEF OneWay
<1>4. ASSUME d.payload.kind = "changeset"
      PROVE  OneWay(Append(queue, d.payload), pending, D, l, d.nonce, place)
  <2> DEFINE cs == d.payload
             q == Append(queue, cs)
  <2>1. d \in Delivery /\ cs \in SetPayload /\ cs.set \in ChangeSetIds /\ CarriesSet(d, cs.set)
    <3>1. d \in Delivery
      OBVIOUS
    <3>2. cs \in SetPayload
      BY <1>4, <3>1, PayloadKinds
    <3> QED BY <1>4, <3>1, <3>2 DEF SetPayload, CarriesSet
  <2>2. ComingIn(D, l, c, cs.set)
    BY <2>1 DEF ComingIn
  <2>3. ~ComingIn(D, l, d.nonce, cs.set)
    BY <1>1, <2>1 DEF ComingIn
  <2>4. place[cs.set] = 0 /\ ~QueuedIn(queue, cs.set) /\ ~ShownIn(pending, cs.set)
    BY <2>1, <2>2 DEF OneWay
  <2> HIDE DEF cs
  <2>5. queue \in Seq(SetPayload)
    BY DEF PluginTypeOK
  <2>6. \A i \in DOMAIN q : \/ i \in DOMAIN queue /\ q[i] = queue[i]
                            \/ i = Len(queue) + 1 /\ q[i] = cs
    BY <2>1, <2>5
  <2> HIDE DEF q
  <2>7. \A s \in ChangeSetIds : QueuedIn(q, s) => QueuedIn(queue, s) \/ s = cs.set
    BY <2>6 DEF QueuedIn
  <2>8. \A i, k \in DOMAIN q : q[i].set = q[k].set => i = k
    BY <2>4, <2>6 DEF OneWay, QueuedIn
  <2> QED BY <1>3, <2>3, <2>4, <2>7, <2>8 DEF OneWay, cs, q
<1> QED BY <1>3, <1>4

(* Fewer deliveries are coming under a higher cursor or to another link. *)
LEMMA OneWayLess ==
    ASSUME NEW q, NEW p, NEW D, NEW l, NEW c, NEW E, NEW m, NEW k, NEW where, NEW there,
           OneWay(q, p, D, l, c, where),
           \A s \in ChangeSetIds : ComingIn(E, m, k, s) => ComingIn(D, l, c, s),
           \A s \in ChangeSetIds : where[s] = 0 => there[s] = 0
    PROVE  OneWay(q, p, E, m, k, there)
  BY DEF OneWay

(* A poll's answer is handled, once. *)
LEMMA HandOverOnce ==
    ASSUME BridgeTypeInv, TruthInv, OnceInv, SetsGrow, NoneReopens,
           changeSets' \in [ChangeSetIds -> ChangeSet \cup {None}],
           NEW t \in {"poll", "stopped"}, HandOver(t)
    PROVE  OnceInv'
<1>0. PluginTypeOK /\ TypeInv
  BY DEF BridgeTypeInv
<1>1. t = "poll" /\ Poll(link, cursor)
  BY DEF HandOver, OnceInv
<1>2. PICK d \in NextDelivery(link, cursor) : P!Deliver(t, d, scenario.missedWrites)
  BY <1>1 DEF HandOver
<1>3. d \in deliveries /\ d \in Delivery /\ d.link = link /\ d.nonce > cursor
      /\ cursor \in Nat /\ deliveries \in SUBSET Delivery
  BY <1>0 DEF NextDelivery, TypeInv, TypeOK, PluginTypeOK
<1>4. /\ deliveries' = deliveries /\ links' = links /\ link' = link /\ cursor' = d.nonce
      /\ lastPoll' = None
  BY <1>1, <1>2 DEF Poll, P!Deliver, P!Unwrap, OnceInv
<1>5. t \in P!Threads
  BY PollThreads
<1>6. \A e \in deliveries : \A s \in ChangeSetIds : CarriesSet(d, s) /\ CarriesSet(e, s) => d = e
  BY <1>3 DEF OnceInv
<1>7. /\ OneWay(queue, pending, deliveries, link, d.nonce, place)
      /\ d.payload.kind = "changeset" =>
            OneWay(Append(queue, d.payload), pending, deliveries, link, d.nonce, place)
  BY <1>0, <1>3, <1>6, AppendOnce DEF OnceInv
<1>8. \A s \in ChangeSetIds : changeSets'[s] # None => changeSets'[s].content.ops \in Nat
  BY ContentsAssumption DEF ChangeSet
<1>9. \A s \in ChangeSetIds : place[s] \in Nat
  BY <1>0 DEF PluginTypeOK, Places
<1>10. ASSUME OneWay(queue', pending', deliveries, link, d.nonce, place'),
              \A s \in ChangeSetIds : Open(changeSets, s) =>
                 Untouched(queue', pending', deliveries, place', s),
              WithinOps(changeSets', place')
       PROVE  OnceInv'
  <2>1. OneWay(queue', pending', deliveries', link', cursor', place')
    BY <1>4, <1>10
  <2>2. \A s \in ChangeSetIds : Open(changeSets', s) =>
           Untouched(queue', pending', deliveries', place', s)
    BY <1>4, <1>10 DEF NoneReopens
  <2>3. \A e, f \in deliveries' : \A s \in ChangeSetIds : CarriesSet(e, s) /\ CarriesSet(f, s) => e = f
    BY <1>4 DEF OnceInv
  <2>4. \A e \in deliveries' : links'[e.link] # None
    BY <1>4 DEF OnceInv
  <2> QED BY <1>4, <1>10, <2>1, <2>2, <2>3, <2>4 DEF OnceInv
<1>11. ASSUME \A s \in ChangeSetIds : place'[s] \in Nat /\ place'[s] <= place[s]
       PROVE  WithinOps(changeSets', place')
  <2> SUFFICES ASSUME NEW s \in ChangeSetIds, changeSets'[s] # None
               PROVE  place'[s] <= changeSets'[s].content.ops
    BY DEF WithinOps
  <2>1. CASE changeSets[s] # None
    <3>1. place[s] <= changeSets[s].content.ops /\ changeSets'[s].content = changeSets[s].content
      BY <2>1 DEF OnceInv, WithinOps, SetsGrow
    <3> QED BY <1>8, <1>9, <1>11, <3>1
  <2>2. CASE changeSets[s] = None
    <3>1. place[s] = 0
      BY <2>2 DEF OnceInv, Open, Untouched
    <3> QED BY <1>8, <1>11, <3>1
  <2> QED BY <2>1, <2>2
<1>12. CASE d.payload.kind = "rollback"
  <2>1. d.payload \in ReversePayload /\ P!Reverse(t, d.payload)
    BY <1>2, <1>3, <1>12, PayloadKinds DEF P!Deliver
  <2>2. queue' = queue /\ pending' = pending
    BY <2>1 DEF P!Reverse
  <2>3. \A s \in ChangeSetIds : place'[s] \in Nat /\ place'[s] <= place[s]
    <3>1. PICK undone \in 0..d.payload.steps :
             \E taken \in P!TakenBack(place[d.payload.set], d.payload.steps, undone) :
                place' = [place EXCEPT ![d.payload.set] = @ - taken]
      BY <2>1 DEF P!Reverse
    <3>2. PICK taken \in P!TakenBack(place[d.payload.set], d.payload.steps, undone) :
             place' = [place EXCEPT ![d.payload.set] = @ - taken]
      BY <3>1
    <3>3. d.payload.set \in ChangeSetIds /\ d.payload.steps \in Nat
      BY <2>1 DEF ReversePayload
    <3>4. taken \in Nat /\ taken <= place[d.payload.set]
      BY <1>9, <3>3 DEF P!TakenBack
    <3> QED BY <1>0, <1>9, <3>2, <3>3, <3>4 DEF PluginTypeOK, Places
  <2>4. \A s \in ChangeSetIds : place[s] = 0 => place'[s] = 0
    BY <1>9, <2>3
  <2>5. OneWay(queue', pending', deliveries, link, d.nonce, place')
    BY <1>7, <2>2, <2>4, OneWayLess
  <2>6. \A s \in ChangeSetIds : Open(changeSets, s) =>
           Untouched(queue', pending', deliveries, place', s)
    BY <2>2, <2>4 DEF OnceInv, Untouched
  <2> QED BY <1>10, <1>11, <2>3, <2>5, <2>6
<1>13. CASE d.payload.kind # "rollback"
  <2>1. d.payload \in SetPayload /\ P!Receive(t, d.payload)
    BY <1>2, <1>3, <1>13, PayloadKinds DEF P!Deliver
  <2>2. d.payload.kind = "changeset" /\ d.payload.set \in ChangeSetIds
    BY <2>1 DEF SetPayload
  <2>3. CASE Len(queue) >= QueueCap
    <3>1. queue' = queue /\ pending' = pending /\ place' = place
      BY <2>1, <2>3 DEF P!Receive
    <3> QED BY <1>7, <1>9, <1>10, <1>11, <3>1 DEF OnceInv
  <2>4. CASE ~(Len(queue) >= QueueCap)
    <3> DEFINE q == Append(queue, d.payload)
    <3>1. P!PresentNext(t, q) /\ q \in Seq(SetPayload)
      BY <1>0, <2>1, <2>4 DEF P!Receive, PluginTypeOK
    <3>2. \A i \in DOMAIN q : (i \in DOMAIN queue /\ q[i] = queue[i]) \/ q[i] = d.payload
      BY <1>0, <2>1 DEF PluginTypeOK
    <3>3. \A i \in DOMAIN q : TrueSet(q[i], changeSets)
      BY <1>3, <2>2, <3>2 DEF TruthInv, ReviewTrue, TruePayload
    <3>4. OneWay(q, pending, deliveries, link, d.nonce, place)
      BY <1>7, <2>2
    <3> HIDE DEF q
    <3>5. /\ OneWay(queue', pending', deliveries, link, d.nonce, place')
          /\ \A s \in ChangeSetIds :
                Untouched(q, pending, deliveries, place, s) =>
                   Untouched(queue', pending', deliveries, place', s)
          /\ \A s \in ChangeSetIds :
                \/ place'[s] = place[s]
                \/ \E i \in DOMAIN q : q[i].set = s /\ place'[s] \in 0..q[i].content.ops
      BY <1>0, <1>5, <3>1, <3>4, PresentOnce
    <3>6. ASSUME NEW s \in ChangeSetIds, Open(changeSets, s)
          PROVE  Untouched(queue', pending', deliveries, place', s)
      <4>1. Untouched(queue, pending, deliveries, place, s)
        BY <3>6 DEF OnceInv
      <4>2. d.payload.set # s
        BY <1>3, <2>2, <4>1 DEF Untouched, CarriesSet
      <4>3. ~QueuedIn(q, s)
        BY <3>2, <4>1, <4>2 DEF QueuedIn, Untouched
      <4> QED BY <3>5, <4>1, <4>3 DEF Untouched
    <3>7. ASSUME NEW s \in ChangeSetIds, changeSets'[s] # None
          PROVE  place'[s] <= changeSets'[s].content.ops
      <4>1. CASE place'[s] = place[s] /\ changeSets[s] # None
        BY <4>1 DEF OnceInv, WithinOps, SetsGrow
      <4>2. CASE place'[s] = place[s] /\ changeSets[s] = None
        BY <1>8, <3>7, <4>2 DEF OnceInv, Open, Untouched
      <4>3. ASSUME NEW i \in DOMAIN q, q[i].set = s, place'[s] \in 0..q[i].content.ops
            PROVE  place'[s] <= changeSets'[s].content.ops
        <5>1. changeSets[s] # None /\ changeSets[s].content = q[i].content
          BY <3>3, <4>3 DEF TrueSet
        <5>2. changeSets'[s].content = q[i].content
          BY <5>1 DEF SetsGrow
        <5> QED BY <1>8, <3>7, <4>3, <5>2
      <4> QED BY <3>5, <4>1, <4>2, <4>3
    <3> QED BY <1>10, <3>5, <3>6, <3>7 DEF WithinOps
  <2> QED BY <2>3, <2>4
<1> QED BY <1>12, <1>13

(* The operations in the place still fit once more sets are stored. *)
LEMMA WithinStays ==
    ASSUME BridgeTypeInv, OnceInv, SetsGrow, place' = place,
           changeSets' \in [ChangeSetIds -> ChangeSet \cup {None}]
    PROVE  WithinOps(changeSets', place')
<1> SUFFICES ASSUME NEW s \in ChangeSetIds, changeSets'[s] # None
             PROVE  place'[s] <= changeSets'[s].content.ops
  BY DEF WithinOps
<1>1. CASE changeSets[s] # None
  BY <1>1 DEF OnceInv, WithinOps, SetsGrow
<1>2. CASE changeSets[s] = None
  <2>1. place[s] = 0
    BY <1>2 DEF OnceInv, Open, Untouched
  <2> QED BY <2>1, ContentsAssumption DEF ChangeSet
<1> QED BY <1>1, <1>2

(* A step that presents nothing and queues nothing. *)
LEMMA OnceStays ==
    ASSUME BridgeTypeInv, OnceInv, SetsGrow, NoneReopens,
           changeSets' \in [ChangeSetIds -> ChangeSet \cup {None}],
           queue' = queue, pending' = pending \/ pending' = None, place' = place,
           lastPoll' = None, deliveries' = deliveries,
           \A s \in ChangeSetIds :
              ComingIn(deliveries, link', cursor', s) => ComingIn(deliveries, link, cursor, s),
           \A d \in deliveries : links'[d.link] # None
    PROVE  OnceInv'
<1>1. OneWay(queue, pending, deliveries, link', cursor', place')
  BY OneWayLess DEF OnceInv
<1>2. OneWay(queue', pending', deliveries', link', cursor', place')
  BY <1>1 DEF OneWay, ShownIn
<1>3. \A s \in ChangeSetIds : Open(changeSets', s) =>
         Untouched(queue', pending', deliveries', place', s)
  BY DEF OnceInv, NoneReopens, Untouched, ShownIn
<1>4. WithinOps(changeSets', place')
  BY WithinStays
<1> QED BY <1>2, <1>3, <1>4 DEF OnceInv

(* A step of the plugin that presents the next set. *)
LEMMA OncePresents ==
    ASSUME BridgeTypeInv, TruthInv, OnceInv, NEW t \in P!Threads, P!PresentNext(t, queue),
           UNCHANGED <<changeSets, deliveries, links, link, cursor, lastPoll>>
    PROVE  OnceInv'
<1>0. PluginTypeOK /\ queue \in Seq(SetPayload)
  BY DEF BridgeTypeInv, PluginTypeOK
<1>1. /\ OneWay(queue', pending', deliveries, link, cursor, place')
      /\ \A s \in ChangeSetIds :
            Untouched(queue, pending, deliveries, place, s) =>
               Untouched(queue', pending', deliveries, place', s)
      /\ \A s \in ChangeSetIds :
            \/ place'[s] = place[s]
            \/ \E i \in DOMAIN queue : queue[i].set = s /\ place'[s] \in 0..queue[i].content.ops
  BY <1>0, PresentOnce DEF OnceInv
<1>2. ASSUME NEW s \in ChangeSetIds, changeSets[s] # None
      PROVE  place'[s] <= changeSets[s].content.ops
  <2>1. CASE place'[s] = place[s]
    BY <1>2, <2>1 DEF OnceInv, WithinOps
  <2>2. ASSUME NEW i \in DOMAIN queue, queue[i].set = s, place'[s] \in 0..queue[i].content.ops
        PROVE  place'[s] <= changeSets[s].content.ops
    <3>1. changeSets[s].content = queue[i].content
      BY <2>2 DEF TruthInv, ReviewTrue, TrueSet
    <3>2. changeSets[s].content.ops \in Nat
      BY <1>2, ContentsAssumption DEF BridgeTypeInv, TypeInv, TypeOK, ChangeSet
    <3> QED BY <2>2, <3>1, <3>2
  <2> QED BY <1>1, <2>1, <2>2
<1> QED BY <1>1, <1>2 DEF OnceInv, WithinOps

(* A click on Approve takes the set off the screen and puts it in. *)
LEMMA ApproveOnce ==
    ASSUME BridgeTypeInv, TruthInv, OnceInv, NEW t \in P!Threads, P!ApproveInStudio(t),
           UNCHANGED <<changeSets, deliveries, links>>
    PROVE  OnceInv'
<1>0. /\ PluginTypeOK /\ pending \in SetPayload /\ pending # None /\ pending' = None
      /\ P!Execute(t, pending) /\ UNCHANGED <<link, cursor, queue, lastPoll>>
  BY DEF BridgeTypeInv, PluginTypeOK, P!ApproveInStudio
<1>1. pending.set \in ChangeSetIds /\ ShownIn(pending, pending.set)
  BY <1>0 DEF SetPayload, ShownIn
<1>2. place[pending.set] = 0 /\ ~QueuedIn(queue, pending.set)
      /\ ~ComingIn(deliveries, link, cursor, pending.set)
  BY <1>1 DEF OnceInv, OneWay
<1>3. Wrote(pending)
  BY <1>0, ExecuteWrites
<1>4. /\ \A s \in ChangeSetIds \ {pending.set} : place'[s] = place[s]
      /\ place'[pending.set] \in 0..pending.content.ops
  BY <1>0, <1>2, <1>3, WriteOnce
<1>5. OneWay(queue', pending', deliveries', link', cursor', place')
  BY <1>0, <1>2, <1>4 DEF OnceInv, OneWay, ShownIn
<1>6. \A s \in ChangeSetIds : Open(changeSets', s) =>
         Untouched(queue', pending', deliveries', place', s)
  BY <1>0, <1>1, <1>4 DEF OnceInv, Untouched, ShownIn
<1>7. changeSets[pending.set] # None /\ changeSets[pending.set].content = pending.content
  BY <1>0 DEF TruthInv, ReviewTrue, TrueSet
<1>8. WithinOps(changeSets', place')
  <2>1. pending.content.ops \in Nat
    BY <1>0, ContentsAssumption DEF SetPayload
  <2>2. place'[pending.set] <= changeSets[pending.set].content.ops
    BY <1>4, <1>7, <2>1
  <2>3. \A s \in ChangeSetIds \ {pending.set} : changeSets[s] # None => place'[s] <= changeSets[s].content.ops
    BY <1>4 DEF OnceInv, WithinOps
  <2> QED BY <2>2, <2>3 DEF WithinOps
<1> QED BY <1>0, <1>5, <1>6, <1>8 DEF OnceInv

(* A delivery is queued: a reversal, or a set that has been nowhere. *)
LEMMA QueueOnce ==
    ASSUME BridgeTypeInv, OnceInv, SetsGrow, NoneReopens,
           changeSets' \in [ChangeSetIds -> ChangeSet \cup {None}],
           UNCHANGED pluginVars, UNCHANGED links, NEW new, deliveries' \subseteq deliveries \cup {new},
           links[new.link] # None,
           \A s \in ChangeSetIds : CarriesSet(new, s) => Open(changeSets, s) /\ ~Open(changeSets', s)
    PROVE  OnceInv'
<1>1. queue' = queue /\ pending' = pending /\ place' = place /\ lastPoll' = lastPoll
      /\ link' = link /\ cursor' = cursor
  BY DEF pluginVars
<1>2. \A s \in ChangeSetIds : CarriesSet(new, s) => Untouched(queue, pending, deliveries, place, s)
  BY DEF OnceInv
<1>3. \A s \in ChangeSetIds : ComingIn(deliveries', link, cursor, s) =>
         ComingIn(deliveries, link, cursor, s) \/ CarriesSet(new, s)
  BY DEF ComingIn
<1>4. OneWay(queue', pending', deliveries', link', cursor', place')
  BY <1>1, <1>2, <1>3 DEF OnceInv, OneWay, Untouched
<1>5. \A s \in ChangeSetIds : Open(changeSets', s) =>
         Untouched(queue', pending', deliveries', place', s)
  BY <1>1 DEF OnceInv, NoneReopens, Untouched
<1>6. \A d, e \in deliveries' : \A s \in ChangeSetIds : CarriesSet(d, s) /\ CarriesSet(e, s) => d = e
  BY <1>2 DEF OnceInv, Untouched
<1>7. \A d \in deliveries' : links'[d.link] # None
  BY DEF OnceInv
<1>8. WithinOps(changeSets', place')
  BY <1>1, WithinStays
<1> QED BY <1>1, <1>4, <1>5, <1>6, <1>7, <1>8 DEF OnceInv

(* What enqueueDelivery adds is one delivery to a paired link. *)
LEMMA EnqueueOne ==
    ASSUME TypeInv, NEW l \in keyring, NEW payload, NEW sets, Enqueue(l, payload, sets)
    PROVE  \E new : /\ deliveries' \subseteq deliveries \cup {new}
                    /\ new.payload = payload /\ links[new.link] # None
<1> DEFINE new == [link |-> l, nonce |-> outNonce[l] + 1, payload |-> payload]
<1>1. deliveries' \subseteq deliveries \cup {new} /\ new.payload = payload /\ new.link = l
  BY DEF Enqueue
<1>2. links[l] # None
  BY NoneAssumption DEF TypeInv, KeysArePaired
<1> HIDE DEF new
<1> QED BY <1>1, <1>2

(* Every step keeps it where the plugin never connects again and Studio    *)
(* keeps running.                                                          *)
LEMMA OnceStep ==
    ASSUME BridgeTypeInv, TruthInv, OnceInv, StoreIsKept, StudioKeepsRunning,
           ~scenario.reconnects, [BridgeNext]_<<scenario, bridgeVars>>
    PROVE  OnceInv'
<1>0. /\ TypeInv /\ PluginTypeOK
  BY DEF BridgeTypeInv
<1>1. SetsGrow /\ NoneReopens
  BY GrowStep
<1>2. changeSets' \in [ChangeSetIds -> ChangeSet \cup {None}]
  BY BridgeTypeStep DEF BridgeTypeInv, TypeInv, TypeOK
<1>3. ASSUME UNCHANGED <<queue, place, lastPoll, deliveries, links, link, cursor>>,
             pending' = pending \/ pending' = None
      PROVE  OnceInv'
  <2>1. lastPoll' = None /\ queue' = queue /\ place' = place /\ deliveries' = deliveries
    BY <1>3 DEF OnceInv
  <2>2. \A s \in ChangeSetIds :
           ComingIn(deliveries, link', cursor', s) => ComingIn(deliveries, link, cursor, s)
    BY <1>3
  <2>3. \A d \in deliveries : links'[d.link] # None
    BY <1>3 DEF OnceInv
  <2> QED BY <1>1, <1>2, <1>3, <2>1, <2>2, <2>3, OnceStays
<1>4. ASSUME NEW t \in {"poll", "stopped"}, HandOver(t)
      PROVE  OnceInv'
  BY <1>1, <1>2, <1>4, HandOverOnce
<1>5. ASSUME NEW t \in P!Threads, Continue(t)
      PROVE  OnceInv'
  <2>1. P!Resume(t) /\ UNCHANGED <<changeSets, deliveries, links, link, cursor, lastPoll>>
    BY <1>5 DEF Continue, P!Resume, vars, store
  <2>2. CASE P!PresentNext(t, queue)
    BY <2>1, <2>2, OncePresents
  <2>3. CASE UNCHANGED <<queue, pending, place>>
    BY <1>3, <2>1, <2>3
  <2> QED BY <2>1, <2>2, <2>3 DEF P!Resume
<1>6. ASSUME NEW t \in UIThreads, Decide(t)
      PROVE  OnceInv'
  <2>1. UNCHANGED <<changeSets, deliveries, links>> /\ t \in P!Threads
    BY <1>6, PollThreads DEF Decide, vars, store
  <2>2. CASE P!ApproveInStudio(t)
    BY <2>1, <2>2, ApproveOnce
  <2>3. CASE P!RejectInStudio(t)
    BY <1>3, <2>1, <2>3 DEF P!RejectInStudio
  <2> QED BY <1>6, <2>2, <2>3 DEF Decide
<1>7. ASSUME NEW m \in flight, Arrive(m) \/ Lose(m)
      PROVE  OnceInv'
  <2>1. UNCHANGED <<queue, pending, place, lastPoll, link, cursor>>
    BY <1>7 DEF Arrive, Lose
  <2>2. m.report.kind \in {"apply", "entry", "rollback"}
    BY <1>0 DEF PluginTypeOK, Envelope, Report, ApplyReport, EntryReport, RollbackReport
  <2>3. UNCHANGED <<deliveries, links>>
    BY <1>7, <2>2 DEF Arrive, Lose, ApplyResult, JournalEntry, ReportRollback, vars, store
  <2> QED BY <1>3, <2>1, <2>3
<1>8. ASSUME LoseAnswer
      PROVE  OnceInv'
  BY <1>3, <1>8 DEF LoseAnswer, Poll, pluginVars
<1>9. ~PressConnect /\ ~RestartStudio
  BY DEF PressConnect, RestartStudio, StudioKeepsRunning
<1>10. ASSUME RestartDaemon
       PROVE  OnceInv'
  <2>1. UNCHANGED <<queue, pending, place, lastPoll, deliveries, links, link, cursor>>
    BY <1>10 DEF RestartDaemon, StoreIsKept, Restart, store, pluginVars
  <2> QED BY <1>3, <2>1
<1>11. ASSUME NEW l \in LinkIds, NEW p \in Projects, PairStudio(l, p)
       PROVE  OnceInv'
  <2>1. /\ links[l] = None /\ links' = [links EXCEPT ![l] = p] /\ deliveries' = deliveries
        /\ link' = l /\ lastPoll' = None /\ queue' = queue /\ pending' = pending /\ place' = place
    BY <1>11 DEF PairStudio, Pair, P!StoreLink
  <2>2. \A d \in deliveries : d.link # l
    BY <2>1 DEF OnceInv
  <2>3. \A s \in ChangeSetIds :
           ComingIn(deliveries, link', cursor', s) => ComingIn(deliveries, link, cursor, s)
    BY <2>1, <2>2 DEF ComingIn
  <2>4. \A d \in deliveries : links'[d.link] # None
    BY <1>0, <2>1, <2>2 DEF OnceInv, TypeInv, TypeOK, Delivery
  <2> QED BY <1>1, <1>2, <2>1, <2>3, <2>4, OnceStays
<1>12. ASSUME NEW s \in ChangeSetIds, NEW p \in Projects, NEW c \in Contents, Propose(s, p, c)
       PROVE  OnceInv'
  BY <1>3, <1>12 DEF Propose, SubmitChangeSet, pluginVars
<1>13. ASSUME NEW s \in ChangeSetIds, NEW c \in Contents, ApproveProposal(s, c)
       PROVE  OnceInv'
  <2> DEFINE l == mostRecent[changeSets[s].project]
  <2>1. Approve(s, c, TRUE) /\ UNCHANGED pluginVars /\ UNCHANGED links
    BY <1>13 DEF ApproveProposal, Approve
  <2>2. l \in keyring /\ Enqueue(l, ChangeSetPayload(s), [changeSets EXCEPT ![s].status = "approved"])
    BY <2>1 DEF Approve, Approvable, Reachable
  <2>3. Open(changeSets, s) /\ ~Open(changeSets', s)
    BY <1>0, <2>1, ApproveGrows
  <2> HIDE DEF l
  <2>4. PICK new : /\ deliveries' \subseteq deliveries \cup {new}
                   /\ new.payload = ChangeSetPayload(s) /\ links[new.link] # None
    BY <1>0, <2>2, EnqueueOne
  <2>5. \A u \in ChangeSetIds : CarriesSet(new, u) => u = s
    BY <2>4 DEF CarriesSet, ChangeSetPayload
  <2> QED BY <1>1, <1>2, <2>1, <2>3, <2>4, <2>5, QueueOnce
<1>14. ASSUME NEW j \in JournalIds, AskRollback(j)
       PROVE  OnceInv'
  <2> DEFINE l == mostRecent[journals[j].project]
             v == version[journals[j].project]
  <2>1. RequestRollback(j, v) /\ UNCHANGED pluginVars /\ UNCHANGED links
    BY <1>14 DEF AskRollback, RequestRollback
  <2>2. l \in keyring /\ Enqueue(l, RollbackPayload(j, v), changeSets)
    BY <2>1 DEF RequestRollback, Reachable
  <2> HIDE DEF l, v
  <2>3. PICK new : /\ deliveries' \subseteq deliveries \cup {new}
                   /\ new.payload = RollbackPayload(j, v) /\ links[new.link] # None
    BY <1>0, <2>2, EnqueueOne
  <2>4. \A u \in ChangeSetIds : ~CarriesSet(new, u)
    BY <2>3 DEF CarriesSet, RollbackPayload
  <2> QED BY <1>1, <1>2, <2>1, <2>3, <2>4, QueueOnce
<1>15. ASSUME UNCHANGED <<scenario, bridgeVars>>
       PROVE  OnceInv'
  BY <1>3, <1>15 DEF bridgeVars, pluginVars, vars, store
<1> QED
  BY <1>4, <1>5, <1>6, <1>7, <1>8, <1>9, <1>10, <1>11, <1>12, <1>13, <1>14, <1>15
  DEF BridgeNext, Network, Faults, People

-----------------------------------------------------------------------------
(* The invariant of the two together: each part where it is claimed. *)
BridgeInv ==
    /\ BridgeTypeInv
    /\ StoreIsKept =>
          /\ TruthInv
          /\ StudioKeepsRunning /\ ~scenario.rollbacks => RisenInv
          /\ StudioKeepsRunning /\ ~scenario.reconnects => OnceInv

(* Initially the place is as it was found and nothing is queued. *)
LEMMA BridgeInvInit == BridgeInit => BridgeInv
<1> SUFFICES ASSUME BridgeInit
             PROVE  BridgeInv
  OBVIOUS
<1>1. /\ changeSets = [s \in ChangeSetIds |-> None] /\ deliveries = {}
      /\ place = [s \in ChangeSetIds |-> 0] /\ queue = <<>> /\ pending = None /\ lastPoll = None
  BY DEF BridgeInit, Init, P!Init
<1>2. RisenInv
  BY <1>1 DEF RisenInv
<1>3. OneWay(queue, pending, deliveries, link, cursor, place)
  BY <1>1 DEF OneWay, QueuedIn, ShownIn, ComingIn
<1>4. \A s \in ChangeSetIds : Untouched(queue, pending, deliveries, place, s)
  BY <1>1 DEF Untouched, QueuedIn, ShownIn
<1>5. WithinOps(changeSets, place)
  BY <1>1 DEF WithinOps
<1>6. OnceInv
  BY <1>1, <1>3, <1>4, <1>5 DEF OnceInv
<1> QED BY <1>2, <1>6, TruthInit, BridgeTypeInit DEF BridgeInv

(* Every step keeps it. *)
LEMMA BridgeInvStep == BridgeInv /\ [BridgeNext]_<<scenario, bridgeVars>> => BridgeInv'
<1> SUFFICES ASSUME BridgeInv, [BridgeNext]_<<scenario, bridgeVars>>
             PROVE  BridgeInv'
  OBVIOUS
<1>1. BridgeTypeInv /\ BridgeTypeInv'
  BY BridgeTypeStep DEF BridgeInv
<1>2. scenario' = scenario
  BY DEF BridgeNext
<1>3. (StoreIsKept' <=> StoreIsKept) /\ (StudioKeepsRunning' <=> StudioKeepsRunning)
  BY <1>2 DEF StoreIsKept, StudioKeepsRunning
<1>4. ASSUME StoreIsKept
      PROVE  TruthInv'
  BY <1>1, <1>4, TruthStep DEF BridgeInv
<1>5. ASSUME StoreIsKept, StudioKeepsRunning, ~scenario.rollbacks
      PROVE  RisenInv'
  BY <1>1, <1>5, RisenStep DEF BridgeInv
<1>6. ASSUME StoreIsKept, StudioKeepsRunning, ~scenario.reconnects
      PROVE  OnceInv'
  BY <1>1, <1>6, OnceStep DEF BridgeInv
<1> QED BY <1>1, <1>2, <1>3, <1>4, <1>5, <1>6 DEF BridgeInv

(* ... and it says what is claimed of the journal and of the place. *)
LEMMA BridgeInvMeans == BridgeInv => JournalIsTrue
<1> SUFFICES ASSUME BridgeInv, StoreIsKept
             PROVE  AppliesAreTrue /\ RolledBackIsTrue /\ AppliedOnce
  BY DEF JournalIsTrue
<1>1. AppliesAreTrue /\ RolledBackIsTrue
  BY TruthMeans DEF BridgeInv
<1>2. AppliedOnce
  <2> SUFFICES ASSUME NEW s \in ChangeSetIds, StudioKeepsRunning, NumbersTellApart,
                      changeSets[s] # None
               PROVE  place[s] <= changeSets[s].content.ops
    BY DEF AppliedOnce
  <2>1. CASE ~scenario.rollbacks
    BY <2>1 DEF BridgeInv, RisenInv
  <2>2. CASE ~scenario.reconnects
    BY <2>2 DEF BridgeInv, OnceInv, WithinOps
  <2> QED BY <2>1, <2>2 DEF NumbersTellApart
<1> QED BY <1>1, <1>2

(* Whatever is lost, repeated, restarted or decided in between, and for    *)
(* any number of sets, links, journals and threads: what the daemon has on *)
(* record of applies and reversals is what the plugin did to the place,    *)
(* and a set is written into the place at most once (Apply.execute,        *)
(* Rollback.execute, #applyResult, recordJournalEntry,                     *)
(* recordRollbackResult, unwrap).                                          *)
THEOREM BridgeJournalIsTrue == BridgeSpec => []JournalIsTrue
<1>1. BridgeSpec => []BridgeInv
  BY BridgeInvInit, BridgeInvStep, PTL DEF BridgeSpec
<1> QED BY <1>1, BridgeInvMeans, PTL

(* The daemon and the plugin keep every variable of theirs in its type,    *)
(* whatever the two exchange (all handlers of the two).                    *)
THEOREM BridgeTypeOK == BridgeSpec => [](TypeOK /\ PluginTypeOK)
<1>1. BridgeTypeInv => TypeOK /\ PluginTypeOK
  BY DEF BridgeTypeInv, TypeInv
<1> QED BY <1>1, BridgeTypeInit, BridgeTypeStep, PTL DEF BridgeSpec
=============================================================================
