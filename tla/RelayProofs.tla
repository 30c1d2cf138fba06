----------------------------- MODULE RelayProofs -----------------------------
(***************************************************************************)
(* Sessions of one relay are apart, for every number of sessions, links,   *)
(* ChangeSets, journals and requests and whatever the limits of the store; *)
(* and what a host says of its journals is true of the place.              *)
(***************************************************************************)
EXTENDS Relay, RelayJournal, TLAPS

Statuses == {"validated", "approved", "applying", "concluded"}
StoredSet == [session : SessionIds, base : Nat, clears : BOOLEAN, status : Statuses]
Journal == [session : SessionIds, set : ChangeSetIds, before : Nat, after : Nat,
            requested : BOOLEAN, rolledBack : BOOLEAN, inverses : BOOLEAN]

Shape ==
    /\ sessions \in Seq(SessionIds) /\ pending \in Seq(SessionIds)
    /\ links \in [LinkIds -> SessionIds \cup {None}]
    /\ boundTo \in [LinkIds -> SessionIds \cup {None}]
    /\ queues \in [LinkIds -> Queue \cup {None}]
    /\ changeSets \in [ChangeSetIds -> StoredSet \cup {None}]
    /\ setsOf \in [SessionIds -> Seq(ChangeSetIds)]
    /\ journals \in [JournalIds -> Journal \cup {None}]
    /\ journalsOf \in [SessionIds -> Seq(JournalIds)]
    /\ version \in [SessionIds -> Nat]
    /\ reqs \in [Requests -> [session : SessionIds, link : LinkIds \cup {None}] \cup {None}]
    /\ effects \in [LinkIds -> Seq(Nat)]

(* What is stored for a session is in the session's list, so that dropping *)
(* the session finds it.                                                   *)
Listed ==
    /\ \A c \in ChangeSetIds : changeSets[c] # None =>
          c \in ToSet(setsOf[changeSets[c].session])
    /\ \A j \in JournalIds : journals[j] # None =>
          j \in ToSet(journalsOf[journals[j].session])

(* A link is live only for the session it was paired with, which is live,  *)
(* and a request on a link was authorised as that session.                 *)
Bound ==
    /\ \A l \in LinkIds : links[l] # None =>
          links[l] = boundTo[l] /\ queues[l] \in Queue /\ links[l] \in Live
    /\ \A r \in Requests : reqs[r] # None /\ reqs[r].link # None =>
          reqs[r].session = boundTo[reqs[r].link]

Distinct(q) == \A i, j \in DOMAIN q : q[i] = q[j] => i = j

(* A code that can still be redeemed has bought no link. *)
Unspent ==
    /\ Distinct(pending)
    /\ \A l \in LinkIds : boundTo[l] \notin ToSet(pending)

(* What waits in the queue of a live link is its session's own, approved.  *)
QueuedWasApproved ==
    \A l \in LinkIds : links[l] # None =>
        \A i \in DOMAIN queues[l].items :
            /\ queues[l].items[i].owner = links[l]
            /\ queues[l].items[i].kind = "changeset" =>
                  <<links[l], queues[l].items[i].set>> \in approvals

(* Once a link's session is dropped nothing of it is left to act on. *)
Severed ==
    \A l \in LinkIds : links[l] = None =>
        /\ effects[l] = <<>>
        /\ \A c \in ChangeSetIds : <<boundTo[l], c>> \notin approvals
        /\ \A j \in JournalIds : journals[j] # None => journals[j].session # boundTo[l]

(* The watermark of a live link's queue is above every report recorded.    *)
Watermark ==
    \A l \in LinkIds : links[l] # None =>
        \A i \in DOMAIN effects[l] : effects[l][i] <= queues[l].inbound

Apart ==
    /\ Shape /\ Listed /\ Bound /\ Unspent
    /\ QueuedWasApproved /\ Severed /\ Watermark
    /\ SessionsAreApart

-----------------------------------------------------------------------------
(* Lists and maps *)

(* An array includes what is among its elements.                            *)
LEMMA ContainsIsMember ==
    ASSUME NEW S, NEW q \in Seq(S), NEW e
    PROVE  Contains(q, e) <=> e \in ToSet(q)
  BY DEF Contains, ToSet

(* Filtering an id out of an array leaves the others, in order.             *)
LEMMA WithoutFacts ==
    ASSUME NEW S, NEW q \in Seq(S), NEW e
    PROVE  /\ Without(q, e) \in Seq(S)
           /\ ToSet(Without(q, e)) \subseteq ToSet(q)
           /\ \A x \in ToSet(q) : x # e => x \in ToSet(Without(q, e))
           /\ Distinct(q) => Distinct(Without(q, e)) /\ e \notin ToSet(Without(q, e))
<1>1. CASE ~Contains(q, e)
  BY <1>1, ContainsIsMember DEF Without
<1>2. CASE Contains(q, e)
  <2> DEFINE at == CHOOSE i \in 1..Len(q) : q[i] = e
             w == [i \in 1..(Len(q) - 1) |-> q[IF i < at THEN i ELSE i + 1]]
  <2>1. at \in 1..Len(q) /\ q[at] = e
    BY <1>2 DEF Contains
  <2>2. Without(q, e) = w
    BY <1>2 DEF Without
  <2> HIDE DEF at
  <2>3. Len(q) \in Nat /\ DOMAIN q = 1..Len(q) /\ \A i \in 1..Len(q) : q[i] \in S
    OBVIOUS
  <2>4. w \in Seq(S) /\ DOMAIN w = 1..(Len(q) - 1)
    <3>1. Len(q) - 1 \in Nat
      BY <2>1, <2>3
    <3>2. w \in [1..(Len(q) - 1) -> S]
      BY <2>1, <2>3
    <3> QED BY <3>1, <3>2
  <2>5. \A i \in 1..(Len(q) - 1) : w[i] = q[IF i < at THEN i ELSE i + 1]
    OBVIOUS
  <2> HIDE DEF w
  <2>6. ToSet(w) \subseteq ToSet(q)
    <3>1. \A i \in 1..(Len(q) - 1) : (IF i < at THEN i ELSE i + 1) \in 1..Len(q)
      BY <2>1, <2>3
    <3> QED BY <3>1, <2>3, <2>4, <2>5 DEF ToSet
  <2>7. ASSUME NEW x \in ToSet(q), x # e PROVE x \in ToSet(w)
    <3>1. PICK k \in 1..Len(q) : q[k] = x
      BY <2>3 DEF ToSet
    <3>2. CASE k < at
      <4>1. k \in 1..(Len(q) - 1) /\ w[k] = x
        BY <3>1, <3>2, <2>1, <2>3, <2>5
      <4> QED BY <4>1, <2>4 DEF ToSet
    <3>3. CASE k > at
      <4>1. k - 1 \in 1..(Len(q) - 1) /\ ~(k - 1 < at) /\ (k - 1) + 1 = k
        BY <3>3, <2>1, <2>3
      <4>2. w[k - 1] = x
        BY <3>1, <4>1, <2>5
      <4> QED BY <4>1, <4>2, <2>4 DEF ToSet
    <3> QED BY <3>1, <3>2, <3>3, <2>1, <2>7
  <2>8. ASSUME Distinct(q) PROVE Distinct(w) /\ e \notin ToSet(w)
    <3>1. \A i, j \in 1..Len(q) : q[i] = q[j] => i = j
      BY <2>8, <2>3 DEF Distinct
    <3>2. Distinct(w)
      <4>1. ASSUME NEW i \in 1..(Len(q) - 1), NEW j \in 1..(Len(q) - 1), w[i] = w[j]
            PROVE  i = j
        <5> DEFINE a == IF i < at THEN i ELSE i + 1
                   b == IF j < at THEN j ELSE j + 1
        <5>1. a \in 1..Len(q) /\ b \in 1..Len(q)
          BY <2>1, <2>3
        <5>2. q[a] = q[b]
          BY <4>1, <2>5
        <5> HIDE DEF a, b
        <5>3. a = b
          BY <5>1, <5>2, <3>1
        <5> QED BY <5>3, <2>1, <2>3 DEF a, b
      <4> QED BY <4>1, <2>4 DEF Distinct
    <3>3. e \notin ToSet(w)
      BY <3>1, <2>1, <2>3, <2>4, <2>5 DEF ToSet
    <3> QED BY <3>2, <3>3
  <2> QED BY <2>2, <2>4, <2>6, <2>7, <2>8
<1> QED BY <1>1, <1>2

(* Pushing a new id onto an array without repetitions repeats none.         *)
LEMMA AppendFacts ==
    ASSUME NEW S, NEW q \in Seq(S), NEW e \in S
    PROVE  /\ Append(q, e) \in Seq(S)
           /\ ToSet(Append(q, e)) = ToSet(q) \cup {e}
           /\ Distinct(q) /\ e \notin ToSet(q) => Distinct(Append(q, e))
<1>1. /\ Append(q, e) \in Seq(S) /\ Len(Append(q, e)) = Len(q) + 1 /\ Len(q) \in Nat
      /\ \A i \in 1..Len(q) : Append(q, e)[i] = q[i]
      /\ Append(q, e)[Len(q) + 1] = e
      /\ DOMAIN Append(q, e) = 1..(Len(q) + 1) /\ DOMAIN q = 1..Len(q)
  OBVIOUS
<1>2. ToSet(Append(q, e)) = ToSet(q) \cup {e}
  <2>1. ASSUME NEW x \in ToSet(Append(q, e)) PROVE x \in ToSet(q) \cup {e}
    <3>1. PICK k \in 1..(Len(q) + 1) : Append(q, e)[k] = x
      BY <1>1, <2>1 DEF ToSet
    <3>2. k \in 1..Len(q) \/ k = Len(q) + 1
      BY <1>1
    <3> QED BY <1>1, <3>1, <3>2 DEF ToSet
  <2>2. ASSUME NEW x \in ToSet(q) PROVE x \in ToSet(Append(q, e))
    <3>1. PICK k \in 1..Len(q) : q[k] = x
      BY <1>1, <2>2 DEF ToSet
    <3>2. k \in 1..(Len(q) + 1)
      BY <1>1
    <3> QED BY <1>1, <3>1, <3>2 DEF ToSet
  <2>3. e \in ToSet(Append(q, e))
    <3>1. Len(q) + 1 \in 1..(Len(q) + 1)
      BY <1>1
    <3> QED BY <1>1, <3>1 DEF ToSet
  <2> QED BY <2>1, <2>2, <2>3
<1>3. ASSUME Distinct(q), e \notin ToSet(q) PROVE Distinct(Append(q, e))
  <2>1. ASSUME NEW i \in 1..(Len(q) + 1), NEW j \in 1..(Len(q) + 1),
               Append(q, e)[i] = Append(q, e)[j]
        PROVE  i = j
    <3>1. (i \in 1..Len(q) \/ i = Len(q) + 1) /\ (j \in 1..Len(q) \/ j = Len(q) + 1)
      BY <1>1
    <3> QED BY <1>1, <1>3, <2>1, <3>1 DEF Distinct, ToSet
  <2> QED BY <1>1, <2>1 DEF Distinct
<1> QED BY <1>1, <1>2, <1>3

(* Taking the oldest element off an array leaves the others.                *)
LEMMA TailFacts ==
    ASSUME NEW S, NEW q \in Seq(S), q # <<>>
    PROVE  /\ Tail(q) \in Seq(S) /\ Head(q) \in ToSet(q)
           /\ ToSet(q) = ToSet(Tail(q)) \cup {Head(q)}
           /\ Distinct(q) => Distinct(Tail(q))
<1>1. /\ Tail(q) \in Seq(S) /\ Len(q) \in Nat \ {0} /\ DOMAIN q = 1..Len(q)
      /\ DOMAIN Tail(q) = 1..(Len(q) - 1)
      /\ \A i \in 1..(Len(q) - 1) : Tail(q)[i] = q[i + 1]
      /\ Head(q) = q[1]
  OBVIOUS
<1>2. Head(q) \in ToSet(q)
  BY <1>1 DEF ToSet
<1>3. \A x \in ToSet(Tail(q)) : x \in ToSet(q)
  <2> TAKE x \in ToSet(Tail(q))
  <2>1. PICK k \in 1..(Len(q) - 1) : Tail(q)[k] = x
    BY <1>1 DEF ToSet
  <2>2. k + 1 \in 1..Len(q) /\ q[k + 1] = x
    BY <1>1, <2>1
  <2> QED BY <1>1, <2>2 DEF ToSet
<1>4. \A x \in ToSet(q) : x = Head(q) \/ x \in ToSet(Tail(q))
  <2> TAKE x \in ToSet(q)
  <2>1. PICK k \in 1..Len(q) : q[k] = x
    BY <1>1 DEF ToSet
  <2>2. CASE k # 1
    <3>1. k - 1 \in 1..(Len(q) - 1) /\ (k - 1) + 1 = k
      BY <1>1, <2>2
    <3>2. Tail(q)[k - 1] = x
      BY <1>1, <2>1, <3>1
    <3> QED BY <1>1, <3>1, <3>2 DEF ToSet
  <2> QED BY <1>1, <2>1, <2>2
<1>5. ASSUME Distinct(q) PROVE Distinct(Tail(q))
  <2>1. ASSUME NEW i \in 1..(Len(q) - 1), NEW j \in 1..(Len(q) - 1), Tail(q)[i] = Tail(q)[j]
        PROVE  i = j
    <3>1. i + 1 \in 1..Len(q) /\ j + 1 \in 1..Len(q) /\ q[i + 1] = q[j + 1]
      BY <1>1, <2>1
    <3>2. i + 1 = j + 1
      BY <1>1, <1>5, <3>1 DEF Distinct
    <3> QED BY <3>2, <1>1
  <2> QED BY <1>1, <2>1 DEF Distinct
<1> QED BY <1>1, <1>2, <1>3, <1>4, <1>5

-----------------------------------------------------------------------------
(* Each part of the invariant depends on a few variables only. *)

(* The parts of the invariant.                                              *)
LEMMA ApartHas ==
    ASSUME Apart
    PROVE  /\ Shape /\ Listed /\ Bound /\ Unspent /\ QueuedWasApproved /\ Severed /\ Watermark
           /\ OwnWorkOnly /\ OneLinkPerCode /\ UnderWayWasApproved /\ NoReportTwice
  BY DEF Apart, SessionsAreApart

(* A step that writes no set, journal or approval keeps what they promise.  *)
LEMMA RecordsKept ==
    ASSUME Apart, UNCHANGED <<changeSets, setsOf, journals, journalsOf, approvals>>
    PROVE  Listed' /\ UnderWayWasApproved'
  BY ApartHas DEF Listed, UnderWayWasApproved

(* A step that writes no link and no queue keeps what is said of them.      *)
LEMMA QueuesKept ==
    ASSUME Apart, UNCHANGED <<links, queues, boundTo, effects, approvals, journals>>
    PROVE  /\ QueuedWasApproved' /\ Severed' /\ Watermark' /\ NoReportTwice'
           /\ OwnWorkOnly' /\ OneLinkPerCode'
<1>1. QueuedWasApproved' /\ Severed' /\ Watermark'
  BY ApartHas DEF QueuedWasApproved, Severed, Watermark
<1>2. NoReportTwice' /\ OwnWorkOnly' /\ OneLinkPerCode'
  BY ApartHas DEF NoReportTwice, OwnWorkOnly, OneLinkPerCode
<1> QED BY <1>1, <1>2

(* A step that spends no code keeps every code unspent.                     *)
LEMMA CodesKept ==
    ASSUME Apart, UNCHANGED <<pending, boundTo>>
    PROVE  Unspent'
  BY ApartHas DEF Unspent

(* Sessions come and codes go, the rest stays. *)
LEMMA SessionStep ==
    ASSUME Apart, UNCHANGED <<linkVars, recordVars, history>>,
           Unspent', Bound', sessions' \in Seq(SessionIds), pending' \in Seq(SessionIds),
           Shape => reqs' \in [Requests -> [session : SessionIds, link : LinkIds \cup {None}] \cup {None}]
    PROVE  Apart'
<1>1. Shape'
  BY ApartHas DEF Shape, linkVars, recordVars, history
<1>2. Listed' /\ UnderWayWasApproved'
  BY RecordsKept DEF recordVars, history
<1>3. /\ QueuedWasApproved' /\ Severed' /\ Watermark' /\ NoReportTwice'
      /\ OwnWorkOnly' /\ OneLinkPerCode'
  BY QueuesKept DEF linkVars, recordVars, history
<1> QED BY <1>1, <1>2, <1>3 DEF Apart, SessionsAreApart

(* An empty relay.                                                          *)
LEMMA ApartInit == Init => Apart
<1> SUFFICES ASSUME Init PROVE Apart OBVIOUS
<1> USE NoneIsNull DEF Init
<1>1. Shape
  BY DEF Shape
<1>2. Listed /\ Bound /\ QueuedWasApproved /\ Watermark
  BY DEF Listed, Bound, QueuedWasApproved, Watermark
<1>3. Unspent /\ Severed
  BY DEF Unspent, Distinct, ToSet, Severed
<1>4. OwnWorkOnly /\ OneLinkPerCode /\ UnderWayWasApproved /\ NoReportTwice
  BY DEF OwnWorkOnly, OneLinkPerCode, UnderWayWasApproved, NoReportTwice
<1> QED BY <1>1, <1>2, <1>3, <1>4 DEF Apart, SessionsAreApart

(* POST of a session: it is new, so nothing is stored for it yet.           *)
LEMMA CreateSessionStep ==
    ASSUME Apart, NEW s \in SessionIds, CreateSession(s)
    PROVE  Apart'
<1>1. sessions \in Seq(SessionIds) /\ pending \in Seq(SessionIds)
  BY ApartHas DEF Shape
<1>2. /\ sessions' \in Seq(SessionIds) /\ pending' \in Seq(SessionIds)
      /\ Live' = Live \cup {s} /\ ToSet(pending)' = ToSet(pending) \cup {s}
      /\ Distinct(pending) /\ s \notin ToSet(pending) => Distinct(pending)'
  BY <1>1, AppendFacts DEF CreateSession, Live
<1>3. Unspent'
  <2>1. s \notin ToSet(pending) /\ \A l \in LinkIds : boundTo[l] # s
    BY DEF CreateSession, Minted
  <2>2. UNCHANGED boundTo
    BY DEF CreateSession, history
  <2> QED BY <1>2, <2>1, <2>2, ApartHas DEF Unspent
<1>4. Bound'
  <2>1. UNCHANGED <<links, queues, reqs, boundTo>>
    BY DEF CreateSession, history, linkVars
  <2> QED BY <1>2, <2>1, ApartHas DEF Bound
<1> QED BY <1>2, <1>3, <1>4, SessionStep DEF CreateSession, Shape

(* A session lapses: it stays until somebody looks at it.                   *)
LEMMA LapseSteps ==
    ASSUME Apart, \/ \E s \in SessionIds : SessionLapses(s)
                  \/ \E w \in waiters : PollEnds(w)
    PROVE  Apart'
<1>1. UNCHANGED <<sessions, pending, linkVars, recordVars, reqs, history>>
  BY DEF SessionLapses, PollEnds, sessionVars
<1>2. Bound'
  BY <1>1, ApartHas DEF Bound, linkVars, history, Live, recordVars
<1>3. Unspent'
  BY <1>1, CodesKept DEF history
<1> QED BY <1>1, <1>2, <1>3, ApartHas, SessionStep DEF Shape

(* A code lapses: one that can be redeemed less.                            *)
LEMMA CodeLapsesStep ==
    ASSUME Apart, CodeLapses
    PROVE  Apart'
<1>1. UNCHANGED <<sessions, linkVars, recordVars, reqs, history>>
  BY DEF CodeLapses
<1>2. pending \in Seq(SessionIds) /\ pending # <<>> /\ pending' = Tail(pending)
  BY ApartHas DEF CodeLapses, Shape
<1>3. /\ pending' \in Seq(SessionIds)
      /\ ToSet(pending') \subseteq ToSet(pending) /\ (Distinct(pending) => Distinct(pending'))
  BY <1>2, TailFacts
<1>4. Bound'
  BY <1>1, ApartHas DEF Bound, linkVars, history, Live, recordVars
<1>5. Unspent'
  BY <1>1, <1>3, ApartHas DEF history, Unspent
<1> QED BY <1>1, <1>3, <1>4, <1>5, ApartHas, SessionStep DEF Shape

(* A request is authorised as the session that is live at that time.        *)
LEMMA AuthoriseSteps ==
    ASSUME Apart, NEW r \in Requests,
           \/ \E s \in SessionIds : AuthoriseProducer(r, s)
           \/ \E l \in LinkIds : AuthoriseConsumer(r, l)
    PROVE  Apart'
<1>1. UNCHANGED <<pending, linkVars, recordVars, history>>
  BY DEF AuthoriseProducer, AuthoriseConsumer, sessionVars
<1>2. Unspent'
  BY <1>1, CodesKept DEF history
<1>3. CASE \E s \in SessionIds : AuthoriseProducer(r, s)
  <2>1. PICK s \in SessionIds : AuthoriseProducer(r, s)
    BY <1>3
  <2>2. /\ sessions' = Append(Without(sessions, s), s)
        /\ reqs' = [reqs EXCEPT ![r] = [session |-> s, link |-> None]]
    BY <2>1 DEF AuthoriseProducer
  <2>3. sessions \in Seq(SessionIds)
    BY ApartHas DEF Shape
  <2>4. sessions' \in Seq(SessionIds) /\ Live \subseteq Live'
    BY <2>2, <2>3, WithoutFacts, AppendFacts DEF Live
  <2>5. Bound'
    BY <1>1, <2>2, <2>4, ApartHas DEF Bound, linkVars, history, Shape
  <2> QED BY <1>1, <1>2, <2>2, <2>4, <2>5, ApartHas, SessionStep DEF Shape
<1>4. CASE \E l \in LinkIds : AuthoriseConsumer(r, l)
  <2>1. PICK l \in LinkIds : AuthoriseConsumer(r, l)
    BY <1>4
  <2>2. /\ UNCHANGED sessions /\ links[l] # None
        /\ reqs' = [reqs EXCEPT ![r] = [session |-> links[l], link |-> l]]
    BY <2>1 DEF AuthoriseConsumer, sessionVars, LinkIsServed
  <2>3. Bound'
    BY <1>1, <2>2, ApartHas DEF Bound, linkVars, history, Shape, Live
  <2>4. links[l] \in SessionIds
    BY <2>2, ApartHas DEF Shape
  <2> QED BY <1>1, <1>2, <2>2, <2>3, <2>4, ApartHas, SessionStep DEF Shape
<1> QED BY <1>3, <1>4

-----------------------------------------------------------------------------
(* A session is dropped *)

(* Dropping a session takes all that is stored for it, and its links.       *)
LEMMA DropStep ==
    ASSUME Apart, NEW s \in SessionIds, DropRecords({s}), UNCHANGED <<reqs, boundTo>>,
           sessions' \in Seq(SessionIds), pending' \in Seq(SessionIds),
           \A x \in Live : x # s => x \in Live', Unspent'
    PROVE  Apart'
<1> USE NoneIsNull
<1>1. /\ links' = [l \in LinkIds |-> IF links[l] = s THEN None ELSE links[l]]
      /\ queues' = [l \in LinkIds |-> IF links[l] = s THEN None ELSE queues[l]]
      /\ changeSets' = [c \in ChangeSetIds |-> IF Contains(setsOf[s], c) THEN None ELSE changeSets[c]]
      /\ journals' = [j \in JournalIds |-> IF Contains(journalsOf[s], j) THEN None ELSE journals[j]]
      /\ setsOf' = [x \in SessionIds |-> IF x = s THEN <<>> ELSE setsOf[x]]
      /\ journalsOf' = [x \in SessionIds |-> IF x = s THEN <<>> ELSE journalsOf[x]]
      /\ version' = [x \in SessionIds |-> IF x = s THEN 0 ELSE version[x]]
      /\ approvals' = {a \in approvals : a[1] # s}
      /\ effects' = [l \in LinkIds |-> IF boundTo[l] = s THEN <<>> ELSE effects[l]]
  BY DEF DropRecords
<1>2. Shape
  BY ApartHas
<1>3. Shape'
  BY <1>1, <1>2 DEF Shape
<1>4. /\ \A c \in ChangeSetIds : changeSets'[c] # None =>
             changeSets'[c] = changeSets[c] /\ changeSets[c] # None /\ changeSets[c].session # s
      /\ \A j \in JournalIds : journals'[j] # None =>
             journals'[j] = journals[j] /\ journals[j] # None /\ journals[j].session # s
  <2>1. setsOf[s] \in Seq(ChangeSetIds) /\ journalsOf[s] \in Seq(JournalIds)
    BY <1>2 DEF Shape
  <2>2. /\ \A c \in ChangeSetIds : Contains(setsOf[s], c) <=> c \in ToSet(setsOf[s])
        /\ \A j \in JournalIds : Contains(journalsOf[s], j) <=> j \in ToSet(journalsOf[s])
    BY <2>1, ContainsIsMember
  <2> QED BY <1>1, <2>2, ApartHas DEF Listed
<1>5. \A c \in ChangeSetIds : changeSets[c] # None => changeSets[c].session \in SessionIds
  BY <1>2 DEF Shape, StoredSet
<1>6. \A j \in JournalIds : journals[j] # None => journals[j].session \in SessionIds
  BY <1>2 DEF Shape, Journal
<1>7. Listed'
  BY <1>1, <1>4, <1>5, <1>6, ApartHas DEF Listed
<1>8. \A l \in LinkIds : links'[l] # None =>
         links'[l] = links[l] /\ links[l] # None /\ links[l] # s /\ queues'[l] = queues[l]
  BY <1>1
<1>9. Bound'
  BY <1>8, ApartHas DEF Bound
<1>10. \A l \in LinkIds : links'[l] # None => effects'[l] = effects[l]
  BY <1>1, <1>8, ApartHas DEF Bound
<1>11. Watermark'
  BY <1>8, <1>10, ApartHas DEF Watermark
<1>12. QueuedWasApproved'
  BY <1>1, <1>8, ApartHas DEF QueuedWasApproved
<1>13. Severed'
  <2> SUFFICES ASSUME NEW l \in LinkIds, links'[l] = None
               PROVE  /\ effects'[l] = <<>>
                      /\ \A c \in ChangeSetIds : <<boundTo[l], c>> \notin approvals'
                      /\ \A j \in JournalIds : journals'[j] # None => journals'[j].session # boundTo[l]
    BY DEF Severed
  <2>1. CASE links[l] = None
    BY <1>1, <1>4, <2>1, ApartHas DEF Severed
  <2>2. CASE links[l] # None
    <3>1. links[l] = s /\ boundTo[l] = s
      BY <1>1, <2>2, ApartHas DEF Bound
    <3>2. \A c \in ChangeSetIds : <<s, c>> \notin approvals'
      BY <1>1
    <3> QED BY <1>1, <1>4, <3>1, <3>2
  <2> QED BY <2>1, <2>2
<1>14. OwnWorkOnly'
  BY <1>1, ApartHas DEF OwnWorkOnly
<1>15. OneLinkPerCode'
  BY ApartHas DEF OneLinkPerCode
<1>16. UnderWayWasApproved'
  BY <1>1, <1>4, ApartHas DEF UnderWayWasApproved
<1>17. NoReportTwice'
  BY <1>1, ApartHas DEF NoReportTwice
<1> QED BY <1>3, <1>7, <1>9, <1>11, <1>12, <1>13, <1>14, <1>15, <1>16, <1>17
       DEF Apart, SessionsAreApart

(* The two ways to lose a session: it is found lapsed, or it is evicted.    *)
LEMMA DropSteps ==
    ASSUME Apart, EvictOldest \/ \E s \in SessionIds : DropLapsed(s)
    PROVE  Apart'
<1>1. sessions \in Seq(SessionIds) /\ pending \in Seq(SessionIds)
  BY ApartHas DEF Shape
<1>2. CASE EvictOldest
  <2>1. Head(sessions) \in SessionIds /\ \A x \in Live : x # Head(sessions) => x \in Live'
    BY <1>1, <1>2, TailFacts DEF EvictOldest, Live
  <2>2. sessions' \in Seq(SessionIds)
    BY <1>1, <1>2, TailFacts DEF EvictOldest
  <2>3. Unspent' /\ UNCHANGED <<pending, reqs, boundTo>> /\ DropRecords({Head(sessions)})
    BY <1>2, CodesKept DEF EvictOldest
  <2> QED BY <1>1, <2>1, <2>2, <2>3, DropStep
<1>3. ASSUME NEW s \in SessionIds, DropLapsed(s) PROVE Apart'
  <2>1. sessions' \in Seq(SessionIds) /\ \A x \in Live : x # s => x \in Live'
    BY <1>1, <1>3, WithoutFacts DEF DropLapsed, Live
  <2>3. Unspent' /\ UNCHANGED <<pending, reqs, boundTo>> /\ DropRecords({s})
    BY <1>3, CodesKept DEF DropLapsed
  <2> QED BY <1>1, <2>1, <2>3, DropStep
<1> QED BY <1>2, <1>3

-----------------------------------------------------------------------------
(* Pairing *)

(* A code is redeemed: the link is new, and the code is spent with it.      *)
LEMMA PairStep ==
    ASSUME Apart, NEW s \in SessionIds, NEW l \in LinkIds, NEW p, Pair(s, l, p)
    PROVE  Apart'
<1> USE NoneIsNull
<1>1. sessions \in Seq(SessionIds) /\ pending \in Seq(SessionIds)
  BY ApartHas DEF Shape
<1>2. /\ pending' = Without(pending, s) /\ s \in ToSet(pending) /\ boundTo[l] = None
      /\ UNCHANGED <<waiters, reqs>>
  BY <1>1, ContainsIsMember DEF Pair, RemainingCodes
<1>3. /\ pending' \in Seq(SessionIds) /\ Distinct(pending')
      /\ ToSet(pending') \subseteq ToSet(pending) \ {s}
  BY <1>1, <1>2, WithoutFacts, ApartHas DEF Unspent
<1>4. CASE /\ Current(s) /\ p \in {None, s}
           /\ links' = [links EXCEPT ![l] = s]
           /\ queues' = [queues EXCEPT ![l] = FreshQueue]
           /\ keyring' = keyring \cup {l}
           /\ boundTo' = [boundTo EXCEPT ![l] = s]
           /\ UNCHANGED <<recordVars, sessions, lapsed, approvals, effects>>
  <2>1. links[l] = None /\ effects[l] = <<>> /\ s \in Live
    BY <1>2, <1>4, ApartHas DEF Bound, Severed, Current, Shape
  <2>2. FreshQueue \in Queue /\ DOMAIN FreshQueue.items = {} /\ FreshQueue.inbound = 0
    BY DEF FreshQueue, Queue
  <2> HIDE DEF FreshQueue
  <2>3. \A k \in LinkIds : boundTo[k] # s
    BY <1>2, ApartHas DEF Unspent
  <2>4. Shape'
    BY <1>1, <1>2, <1>3, <1>4, <2>2, ApartHas DEF Shape, recordVars
  <2>5. Listed' /\ UnderWayWasApproved'
    BY <1>4, RecordsKept DEF recordVars
  <2>6. Bound'
    <3>1. Live' = Live
      BY <1>4 DEF Live
    <3>2. \A r \in Requests : reqs[r] # None /\ reqs[r].link # None => reqs[r].link \in LinkIds /\ reqs[r].link # l
      BY <1>2, ApartHas DEF Bound, Shape
    <3> QED BY <1>2, <1>4, <2>1, <2>2, <3>1, <3>2, ApartHas DEF Bound, Shape
  <2>7. Unspent'
    BY <1>3, <1>4, ApartHas DEF Unspent, Shape
  <2>8. QueuedWasApproved' /\ Watermark'
    <3>1. /\ \A k \in LinkIds : k # l => links'[k] = links[k] /\ queues'[k] = queues[k]
          /\ queues'[l] = FreshQueue /\ effects' = effects /\ approvals' = approvals
      BY <1>4, ApartHas DEF Shape
    <3>2. QueuedWasApproved'
      BY <2>2, <3>1, ApartHas DEF QueuedWasApproved
    <3>3. DOMAIN effects[l] = {}
      BY <2>1
    <3>4. Watermark'
      BY <3>1, <3>3, ApartHas DEF Watermark
    <3> QED BY <3>2, <3>4
  <2>9. Severed'
    BY <1>4, <2>1, ApartHas DEF Severed, Shape, recordVars
  <2>10. OwnWorkOnly'
    BY <1>4, <2>2, ApartHas DEF OwnWorkOnly, Shape
  <2>11. OneLinkPerCode'
    BY <1>4, <2>3, ApartHas DEF OneLinkPerCode, Shape
  <2>12. NoReportTwice'
    BY <1>4, ApartHas DEF NoReportTwice
  <2> QED BY <2>4, <2>5, <2>6, <2>7, <2>8, <2>9, <2>10, <2>11, <2>12 DEF Apart, SessionsAreApart
<1>5. CASE UNCHANGED <<linkVars, keyring, boundTo, recordVars, sessions, lapsed, approvals, effects>>
  <2>1. Unspent'
    BY <1>3, <1>5, ApartHas DEF Unspent
  <2>2. Bound'
    BY <1>2, <1>5, ApartHas DEF Bound, linkVars, Live
  <2> QED BY <1>1, <1>2, <1>3, <1>5, <2>1, <2>2, ApartHas, SessionStep DEF history, Shape
<1>6. CASE DropRecords({s}) /\ sessions' = Without(sessions, s) /\ UNCHANGED <<keyring, boundTo>>
  <2>1. sessions' \in Seq(SessionIds) /\ \A x \in Live : x # s => x \in Live'
    BY <1>1, <1>6, WithoutFacts DEF Live
  <2>2. Unspent'
    BY <1>3, <1>6, ApartHas DEF Unspent
  <2> QED BY <1>2, <1>3, <1>6, <2>1, <2>2, DropStep
<1> QED BY <1>4, <1>5, <1>6 DEF Pair

-----------------------------------------------------------------------------
(* Requests are handled *)

(* What a handler owes the invariant, once its request was authorised.      *)
LEMMA HandlerStep ==
    ASSUME Apart, NEW r \in Requests, Finishes(r), UNCHANGED links,
           queues' \in [LinkIds -> Queue \cup {None}],
           \A l \in LinkIds : links[l] # None => queues'[l] \in Queue,
           changeSets' \in [ChangeSetIds -> StoredSet \cup {None}],
           setsOf' \in [SessionIds -> Seq(ChangeSetIds)],
           journals' \in [JournalIds -> Journal \cup {None}],
           journalsOf' \in [SessionIds -> Seq(JournalIds)],
           version' \in [SessionIds -> Nat],
           effects' \in [LinkIds -> Seq(Nat)],
           Listed', QueuedWasApproved', Severed', Watermark', OwnWorkOnly',
           UnderWayWasApproved', NoReportTwice'
    PROVE  Apart'
<1>1. /\ UNCHANGED <<sessions, pending, boundTo>> /\ Live' = Live
      /\ reqs' = [reqs EXCEPT ![r] = None]
  BY DEF Finishes, sessionVars, Live
<1>2. Shape'
  BY <1>1, ApartHas DEF Shape
<1>3. Bound'
  BY <1>1, ApartHas DEF Bound, Shape
<1>4. Unspent'
  BY <1>1, CodesKept
<1>5. OneLinkPerCode'
  BY <1>1, ApartHas DEF OneLinkPerCode
<1> QED BY <1>2, <1>3, <1>4, <1>5 DEF Apart, SessionsAreApart

(* What a handler knows of the request it handles. *)
LEMMA HandlerFacts ==
    ASSUME Apart, NEW r \in Requests, reqs[r] # None
    PROVE  /\ reqs[r].session \in SessionIds
           /\ reqs[r].link # None =>
                /\ reqs[r].link \in LinkIds
                /\ reqs[r].session = boundTo[reqs[r].link]
  BY ApartHas DEF Shape, Bound

(* A refusal ends the request and writes nothing.                           *)
LEMMA RefuseProducerStep ==
    ASSUME Apart, NEW r \in Requests, RefuseProducer(r)
    PROVE  Apart'
<1>1. /\ UNCHANGED <<sessions, pending, linkVars, recordVars, history>>
      /\ reqs' = [reqs EXCEPT ![r] = None]
  BY DEF RefuseProducer, HandlesProducer, Finishes, sessionVars, history
<1>2. Bound'
  BY <1>1, ApartHas DEF Bound, linkVars, history, Live, Shape
<1>3. Unspent'
  BY <1>1, CodesKept DEF history
<1> QED BY <1>1, <1>2, <1>3, ApartHas, SessionStep DEF Shape

(* Statuses move along sets that were approved. *)
SetsMove(sets) ==
    \A x \in ChangeSetIds : sets[x] # None =>
        /\ changeSets[x] # None /\ sets[x].session = changeSets[x].session
        /\ sets[x] = changeSets[x] \/ <<sets[x].session, x>> \in approvals'

(* setStatus writes the status of a set of the session that asks.           *)
LEMMA WithStatusFacts ==
    ASSUME NEW sets \in [ChangeSetIds -> StoredSet \cup {None}], NEW s, NEW c \in ChangeSetIds,
           NEW status \in Statuses
    PROVE  /\ WithStatus(sets, s, c, status) \in [ChangeSetIds -> StoredSet \cup {None}]
           /\ \A x \in ChangeSetIds : WithStatus(sets, s, c, status)[x] # None =>
                 /\ sets[x] # None
                 /\ WithStatus(sets, s, c, status)[x].session = sets[x].session
                 /\ \/ WithStatus(sets, s, c, status)[x] = sets[x]
                    \/ x = c /\ sets[x].session = s
<1>1. CASE sets[c] # None /\ sets[c].session = s
  <2> DEFINE new == [sets[c] EXCEPT !.status = status]
  <2>1. sets[c] \in StoredSet
    BY <1>1
  <2>2. new \in StoredSet /\ new.session = sets[c].session
    BY <2>1 DEF StoredSet
  <2>3. WithStatus(sets, s, c, status) = [sets EXCEPT ![c] = new]
    BY <1>1 DEF WithStatus
  <2> HIDE DEF new
  <2> QED BY <1>1, <2>2, <2>3
<1>2. CASE ~(sets[c] # None /\ sets[c].session = s)
  <2>1. WithStatus(sets, s, c, status) = sets
    BY <1>2 DEF WithStatus
  <2> QED BY <2>1
<1> QED BY <1>1, <1>2

(* A status that moves with its approval keeps the sets listed and approved. *)
LEMMA SetsMoveKeeps ==
    ASSUME Apart, SetsMove(changeSets'), UNCHANGED setsOf, approvals \subseteq approvals'
    PROVE  /\ UnderWayWasApproved'
           /\ \A c \in ChangeSetIds : changeSets'[c] # None =>
                 c \in ToSet(setsOf'[changeSets'[c].session])
  BY ApartHas DEF SetsMove, UnderWayWasApproved, Listed

(* #deliver *)
LEMMA DeliveredFacts ==
    ASSUME Apart, NEW sets \in [ChangeSetIds -> StoredSet \cup {None}], SetsMove(sets),
           NEW l \in LinkIds, NEW d \in Delivery,
           d.kind = "changeset" => <<links[l], d.set>> \in approvals'
    PROVE  /\ Delivered(sets, l, d) \in [ChangeSetIds -> StoredSet \cup {None}]
           /\ SetsMove(Delivered(sets, l, d))
<1>1. d.set \in ChangeSetIds
  BY DEF Delivery
<1>2. CASE d.kind = "changeset" /\ links[l] # None
  <2> DEFINE to == WithStatus(sets, links[l], d.set, "applying")
  <2>1. Delivered(sets, l, d) = to
    BY <1>2 DEF Delivered
  <2>2. /\ to \in [ChangeSetIds -> StoredSet \cup {None}]
        /\ \A x \in ChangeSetIds : to[x] # None =>
              /\ sets[x] # None /\ to[x].session = sets[x].session
              /\ to[x] = sets[x] \/ (x = d.set /\ sets[x].session = links[l])
    <3>1. "applying" \in Statuses
      BY DEF Statuses
    <3>2. PICK s : s = links[l]
      OBVIOUS
    <3>3. PICK c \in ChangeSetIds : c = d.set
      BY <1>1
    <3> HIDE DEF to
    <3>4. to = WithStatus(sets, s, c, "applying")
      BY <3>2, <3>3 DEF to
    <3> QED BY <3>1, <3>2, <3>3, <3>4, WithStatusFacts
  <2> HIDE DEF to
  <2>3. SetsMove(to)
    BY <1>2, <2>2 DEF SetsMove
  <2> QED BY <2>1, <2>2, <2>3
<1>3. CASE ~(d.kind = "changeset" /\ links[l] # None)
  BY <1>3 DEF Delivered
<1> QED BY <1>2, <1>3

(* A poll acknowledges by its cursor, hands over what is queued, or is held. *)
LEMMA PollStep ==
    ASSUME Apart, NEW l \in LinkIds, NEW since, Poll(l, since)
    PROVE  Apart'
<1>1. /\ UNCHANGED <<sessions, pending, links, queues, boundTo, effects, approvals, setsOf,
                     journals, journalsOf, version, reqs>>
      /\ links[l] # None
  BY DEF Poll, LinkIsServed, sessionVars, linkVars, history
<1>2. queues[l] \in Queue /\ changeSets \in [ChangeSetIds -> StoredSet \cup {None}]
  BY <1>1, ApartHas DEF Bound, Shape
<1>3. changeSets' \in [ChangeSetIds -> StoredSet \cup {None}] /\ SetsMove(changeSets')
  <2>1. SetsMove(changeSets)
    BY DEF SetsMove
  <2>2. CASE UNCHANGED changeSets
    BY <1>2, <2>1, <2>2
  <2>3. ASSUME NEW d \in NextDelivery(queues[l].items, since),
               changeSets' = Delivered(changeSets, l, d)
        PROVE  changeSets' \in [ChangeSetIds -> StoredSet \cup {None}] /\ SetsMove(changeSets')
    <3>1. PICK i \in 1..Len(queues[l].items) : d = queues[l].items[i]
      BY <2>3 DEF NextDelivery
    <3>2. queues[l].items \in Seq(Delivery)
      BY <1>2 DEF Queue
    <3>3. d \in Delivery
      BY <3>1, <3>2
    <3>4. i \in DOMAIN queues[l].items
      BY <3>1, <3>2
    <3>5. d.kind = "changeset" => <<links[l], d.set>> \in approvals'
      BY <1>1, <3>1, <3>4, ApartHas DEF QueuedWasApproved
    <3> QED BY <1>2, <2>1, <2>3, <3>3, <3>5, DeliveredFacts
  <2> QED BY <2>2, <2>3 DEF Poll
<1>4. UnderWayWasApproved' /\ Listed'
  BY <1>1, <1>3, SetsMoveKeeps, ApartHas DEF Listed
<1>5. /\ QueuedWasApproved' /\ Severed' /\ Watermark' /\ NoReportTwice'
      /\ OwnWorkOnly' /\ OneLinkPerCode'
  BY <1>1, QueuesKept
<1>6. Shape'
  BY <1>1, <1>3, ApartHas DEF Shape
<1>7. Bound' /\ Unspent'
  BY <1>1, ApartHas DEF Bound, Unspent, Live
<1> QED BY <1>4, <1>5, <1>6, <1>7 DEF Apart, SessionsAreApart

(* enqueueDelivery: one queue changes, by what was put in and what fell out. *)
Enqueued(l, kind, s, c) ==
    /\ queues' \in [LinkIds -> Queue \cup {None}]
    /\ UNCHANGED links
    /\ \A k \in LinkIds : k # l => queues'[k] = queues[k]
    /\ queues'[l] \in Queue /\ queues'[l].inbound = queues[l].inbound
    /\ \A i \in DOMAIN queues'[l].items :
          \/ queues'[l].items[i] \in ToSet(queues[l].items)
          \/ /\ queues'[l].items[i] \in Delivery
             /\ queues'[l].items[i].kind = kind
             /\ queues'[l].items[i].owner = s
             /\ queues'[l].items[i].set = c

(* A delivery is queued on the link, or handed to the poll that waits there. *)
LEMMA EnqueueFacts ==
    ASSUME Apart, NEW l \in LinkIds, NEW s \in SessionIds, links[l] = s,
           NEW kind \in {"changeset", "rollback"}, NEW c \in ChangeSetIds,
           NEW sets, Enqueue(l, Payload(kind, s, c), sets)
    PROVE  /\ Enqueued(l, kind, s, c)
           /\ Payload(kind, s, c) \in Delivery
           /\ changeSets' = sets \/ changeSets' = Delivered(sets, l, Payload(kind, s, c))
<1> USE NoneIsNull
<1>1. PICK q \in Queue : q = queues[l]
  BY ApartHas DEF Bound
<1> DEFINE p == Payload(kind, s, c)
           new == [p EXCEPT !.nonce = q.next]
           all == Append(q.items, new)
           kept == IF Len(all) > DeliveriesPerLink THEN Tail(all) ELSE all
<1>2. /\ p \in Delivery /\ new \in Delivery /\ p.kind = kind /\ p.set = c
      /\ new.kind = kind /\ new.owner = s /\ new.set = c
  BY <1>1 DEF Payload, Delivery, Queue
<1>3. q.items \in Seq(Delivery) /\ q.next \in Nat
  BY <1>1 DEF Queue
<1>4. /\ queues' = [queues EXCEPT ![l].items = kept, ![l].next = @ + 1] /\ UNCHANGED links
      /\ changeSets' = sets \/ changeSets' = Delivered(sets, l, p)
  BY <1>1 DEF Enqueue
<1> HIDE DEF new, p
<1>5. all \in Seq(Delivery) /\ ToSet(all) = ToSet(q.items) \cup {new} /\ all # <<>>
  BY <1>2, <1>3, AppendFacts
<1> HIDE DEF all
<1>6. kept \in Seq(Delivery) /\ ToSet(kept) \subseteq ToSet(q.items) \cup {new}
  BY <1>5, TailFacts
<1> HIDE DEF kept
<1>7. queues' = [queues EXCEPT ![l] = [q EXCEPT !.items = kept, !.next = q.next + 1]]
  BY <1>1, <1>4
<1>8. /\ [q EXCEPT !.items = kept, !.next = q.next + 1] \in Queue
      /\ [q EXCEPT !.items = kept, !.next = q.next + 1].items = kept
      /\ [q EXCEPT !.items = kept, !.next = q.next + 1].inbound = q.inbound
  <2>1. PICK n \in Nat : n = q.next + 1
    BY <1>3
  <2>2. PICK items \in Seq(Delivery) : items = kept
    BY <1>6
  <2>3. [q EXCEPT !.items = items, !.next = n] \in Queue
    BY DEF Queue
  <2>4. /\ [q EXCEPT !.items = items, !.next = n].items = items
        /\ [q EXCEPT !.items = items, !.next = n].inbound = q.inbound
    BY DEF Queue
  <2> QED BY <2>1, <2>2, <2>3, <2>4
<1>9. queues \in [LinkIds -> Queue \cup {None}]
  BY ApartHas DEF Shape
<1>10. queues'[l].items = kept /\ queues'[l] \in Queue /\ queues'[l].inbound = q.inbound
  BY <1>1, <1>7, <1>8, <1>9
<1>11. \A i \in DOMAIN kept : kept[i] \in ToSet(q.items) \cup {new}
  BY <1>6 DEF ToSet
<1>12. /\ queues' \in [LinkIds -> Queue \cup {None}]
       /\ \A k \in LinkIds : k # l => queues'[k] = queues[k]
  BY <1>7, <1>8, <1>9
<1>13. p = Payload(kind, s, c)
  BY DEF p
<1>14. Enqueued(l, kind, s, c)
  BY <1>1, <1>2, <1>4, <1>10, <1>11, <1>12 DEF Enqueued
<1> QED BY <1>2, <1>4, <1>13, <1>14

(* What is put into the queue of a link is that link's session's own. *)
LEMMA EnqueueKeeps ==
    ASSUME Apart, NEW l \in LinkIds, NEW s \in SessionIds, links[l] = s,
           NEW kind \in {"changeset", "rollback"}, NEW c \in ChangeSetIds,
           NEW sets, Enqueue(l, Payload(kind, s, c), sets),
           UNCHANGED <<boundTo, effects>>, approvals \subseteq approvals',
           kind = "changeset" => <<s, c>> \in approvals'
    PROVE  /\ QueuedWasApproved' /\ OwnWorkOnly' /\ Watermark' /\ NoReportTwice'
           /\ queues' \in [LinkIds -> Queue \cup {None}] /\ UNCHANGED links
           /\ \A k \in LinkIds : links[k] # None => queues'[k] \in Queue
<1> USE NoneIsNull
<1>1. /\ queues' \in [LinkIds -> Queue \cup {None}]
      /\ UNCHANGED links
      /\ \A k \in LinkIds : k # l => queues'[k] = queues[k]
      /\ queues'[l] \in Queue /\ queues'[l].inbound = queues[l].inbound
      /\ \A i \in DOMAIN queues'[l].items :
            \/ queues'[l].items[i] \in ToSet(queues[l].items)
            \/ /\ queues'[l].items[i] \in Delivery
               /\ queues'[l].items[i].kind = kind
               /\ queues'[l].items[i].owner = s
               /\ queues'[l].items[i].set = c
  <2>1. Enqueued(l, kind, s, c)
    BY EnqueueFacts
  <2> QED BY <2>1 DEF Enqueued
<1>2. boundTo[l] = s /\ queues[l] \in Queue
  BY ApartHas DEF Bound
<1>3. \A x \in ToSet(queues[l].items) :
         x.owner = s /\ (x.kind = "changeset" => <<s, x.set>> \in approvals)
  BY ApartHas DEF QueuedWasApproved, ToSet
<1>4. \A i \in DOMAIN queues'[l].items :
         /\ queues'[l].items[i].owner = s
         /\ queues'[l].items[i].kind = "changeset" => <<s, queues'[l].items[i].set>> \in approvals'
  BY <1>1, <1>3
<1>5. QueuedWasApproved'
  BY <1>1, <1>4, ApartHas DEF QueuedWasApproved
<1>6. OwnWorkOnly'
  BY <1>1, <1>2, <1>4, ApartHas DEF OwnWorkOnly
<1>7. Watermark' /\ NoReportTwice'
  BY <1>1, ApartHas DEF Watermark, NoReportTwice
<1>8. \A k \in LinkIds : links[k] # None => queues'[k] \in Queue
  BY <1>1, ApartHas DEF Bound
<1> QED BY <1>1, <1>5, <1>6, <1>7, <1>8

(* Approval of a set of the session's own, queued on the session's link.    *)
LEMMA ApproveStep ==
    ASSUME Apart, NEW r \in Requests, NEW c \in ChangeSetIds, Approve(r, c)
    PROVE  Apart'
<1> USE NoneIsNull
<1>1. PICK s : s = reqs[r].session
  OBVIOUS
<1>2. /\ reqs[r] # None /\ Finishes(r) /\ SetOf(s, c)
      /\ approvals' = approvals \cup {<<s, c>>}
      /\ UNCHANGED <<setsOf, journals, journalsOf, version, effects>>
  BY <1>1 DEF Approve, HandlesProducer
<1>3. s \in SessionIds /\ UNCHANGED boundTo
  BY <1>1, <1>2, HandlerFacts DEF Finishes
<1> DEFINE sets == WithStatus(changeSets, s, c, "approved")
<1>4. PICK l \in LinkIds : links[l] = s /\ Enqueue(l, Payload("changeset", s, c), sets)
  BY <1>1 DEF Approve, PairedLink
<1>5. /\ sets \in [ChangeSetIds -> StoredSet \cup {None}] /\ SetsMove(sets)
  <2>1. changeSets \in [ChangeSetIds -> StoredSet \cup {None}] /\ "approved" \in Statuses
    BY ApartHas DEF Shape, Statuses
  <2>2. /\ sets \in [ChangeSetIds -> StoredSet \cup {None}]
        /\ \A x \in ChangeSetIds : sets[x] # None =>
              /\ changeSets[x] # None /\ sets[x].session = changeSets[x].session
              /\ sets[x] = changeSets[x] \/ (x = c /\ changeSets[x].session = s)
    BY <2>1, WithStatusFacts
  <2> HIDE DEF sets
  <2> QED BY <1>2, <2>2 DEF SetsMove
<1> HIDE DEF sets
<1>6. /\ QueuedWasApproved' /\ OwnWorkOnly' /\ Watermark' /\ NoReportTwice'
      /\ queues' \in [LinkIds -> Queue \cup {None}] /\ UNCHANGED links
      /\ \A k \in LinkIds : links[k] # None => queues'[k] \in Queue
  BY <1>2, <1>3, <1>4, EnqueueKeeps
<1>7. changeSets' \in [ChangeSetIds -> StoredSet \cup {None}] /\ SetsMove(changeSets')
  <2>1. /\ Payload("changeset", s, c) \in Delivery
        /\ changeSets' = sets \/ changeSets' = Delivered(sets, l, Payload("changeset", s, c))
    BY <1>3, <1>4, EnqueueFacts
  <2>2. Payload("changeset", s, c).set = c
    BY DEF Payload
  <2>3. <<links[l], Payload("changeset", s, c).set>> \in approvals'
    BY <1>2, <1>4, <2>2
  <2> HIDE DEF Payload
  <2>4. PICK d \in Delivery : d = Payload("changeset", s, c)
    BY <2>1
  <2> QED BY <1>5, <2>1, <2>3, <2>4, DeliveredFacts
<1>8. UnderWayWasApproved' /\ Listed'
  BY <1>2, <1>7, SetsMoveKeeps, ApartHas DEF Listed
<1>9. Severed'
  BY <1>2, <1>3, <1>4, <1>6, ApartHas DEF Severed, OneLinkPerCode, Bound
<1>10. /\ setsOf' \in [SessionIds -> Seq(ChangeSetIds)]
       /\ journals' \in [JournalIds -> Journal \cup {None}]
       /\ journalsOf' \in [SessionIds -> Seq(JournalIds)]
       /\ version' \in [SessionIds -> Nat]
       /\ effects' \in [LinkIds -> Seq(Nat)]
  BY <1>2, ApartHas DEF Shape
<1> QED BY <1>2, <1>6, <1>7, <1>8, <1>9, <1>10, HandlerStep

(* A reversal of a journal of the session's own, queued on its link.        *)
LEMMA RollbackStep ==
    ASSUME Apart, NEW r \in Requests, NEW j \in JournalIds, NEW v, Rollback(r, j, v)
    PROVE  Apart'
<1> USE NoneIsNull
<1>1. PICK s : s = reqs[r].session
  OBVIOUS
<1>2. /\ reqs[r] # None /\ Finishes(r) /\ journals[j] # None /\ journals[j].session = s
      /\ journals' = [journals EXCEPT ![j].requested = TRUE]
      /\ UNCHANGED <<setsOf, journalsOf, version, approvals, effects>>
  BY <1>1 DEF Rollback, HandlesProducer, JournalOf
<1>3. s \in SessionIds /\ UNCHANGED boundTo
  BY <1>1, <1>2, HandlerFacts DEF Finishes
<1>4. journals \in [JournalIds -> Journal \cup {None}] /\ journals[j] \in Journal
  BY <1>2, ApartHas DEF Shape
<1>5. PICK c \in ChangeSetIds : c = journals[j].set
  BY <1>4 DEF Journal
<1>6. PICK l \in LinkIds : links[l] = s /\ Enqueue(l, Payload("rollback", s, c), changeSets)
  BY <1>1, <1>2, <1>5 DEF Rollback, PairedLink
<1>7. /\ QueuedWasApproved' /\ OwnWorkOnly' /\ Watermark' /\ NoReportTwice'
      /\ queues' \in [LinkIds -> Queue \cup {None}] /\ UNCHANGED links
      /\ \A k \in LinkIds : links[k] # None => queues'[k] \in Queue
  BY <1>2, <1>3, <1>6, EnqueueKeeps
<1>8. UNCHANGED changeSets
  <2>1. changeSets' = changeSets \/ changeSets' = Delivered(changeSets, l, Payload("rollback", s, c))
    BY <1>3, <1>6, EnqueueFacts
  <2>2. Payload("rollback", s, c).kind = "rollback"
    BY DEF Payload
  <2> QED BY <2>1, <2>2 DEF Delivered
<1>9. /\ journals' \in [JournalIds -> Journal \cup {None}]
      /\ \A x \in JournalIds : journals'[x] # None =>
            journals[x] # None /\ journals'[x].session = journals[x].session
  <2> DEFINE new == [journals[j] EXCEPT !.requested = TRUE]
  <2>1. new \in Journal /\ new.session = journals[j].session
    BY <1>4 DEF Journal
  <2>2. journals' = [journals EXCEPT ![j] = new]
    BY <1>2
  <2> HIDE DEF new
  <2> QED BY <1>2, <1>4, <2>1, <2>2
<1>10. UnderWayWasApproved' /\ Listed'
  BY <1>2, <1>8, <1>9, ApartHas DEF Listed, UnderWayWasApproved
<1>11. Severed'
  BY <1>2, <1>3, <1>7, <1>9, ApartHas DEF Severed
<1>12. /\ setsOf' \in [SessionIds -> Seq(ChangeSetIds)]
       /\ changeSets' \in [ChangeSetIds -> StoredSet \cup {None}]
       /\ journalsOf' \in [SessionIds -> Seq(JournalIds)]
       /\ version' \in [SessionIds -> Nat]
       /\ effects' \in [LinkIds -> Seq(Nat)]
  BY <1>2, <1>8, ApartHas DEF Shape
<1> QED BY <1>2, <1>7, <1>9, <1>10, <1>11, <1>12, HandlerStep

(* putChangeSet: what falls off the session's list falls out of the store. *)
LEMMA SubmitStep ==
    ASSUME Apart, NEW r \in Requests, NEW c \in ChangeSetIds, NEW base \in Nat,
           NEW clears \in BOOLEAN, Submit(r, c, base, clears)
    PROVE  Apart'
<1> USE NoneIsNull
<1>1. PICK s : s = reqs[r].session
  OBVIOUS
<1> DEFINE ids == Append(setsOf[s], c)
           out == IF Len(ids) > ChangeSetsPerSession THEN {Head(ids)} ELSE {}
           kept == IF out = {} THEN ids ELSE Tail(ids)
           new == [session |-> s, base |-> base, clears |-> clears, status |-> "validated"]
<1>2. /\ reqs[r] # None /\ Finishes(r) /\ changeSets[c] = None
      /\ changeSets' = [x \in ChangeSetIds |->
            IF x = c THEN new ELSE IF x \in out THEN None ELSE changeSets[x]]
      /\ setsOf' = [setsOf EXCEPT ![s] = kept]
      /\ UNCHANGED <<links, queues, journals, journalsOf, version, approvals, effects>>
  BY <1>1 DEF Submit, HandlesProducer, linkVars
<1>3. s \in SessionIds /\ UNCHANGED boundTo
  BY <1>1, <1>2, HandlerFacts DEF Finishes
<1>4. new \in StoredSet /\ new.session = s /\ new.status = "validated"
  BY <1>3 DEF StoredSet, Statuses
<1>5. setsOf[s] \in Seq(ChangeSetIds) /\ setsOf \in [SessionIds -> Seq(ChangeSetIds)]
  BY <1>3, ApartHas DEF Shape
<1>6. ids \in Seq(ChangeSetIds) /\ ToSet(ids) = ToSet(setsOf[s]) \cup {c} /\ ids # <<>>
  BY <1>5, AppendFacts
<1>7. kept \in Seq(ChangeSetIds) /\ ToSet(ids) \subseteq ToSet(kept) \cup out
  BY <1>6, TailFacts
<1>8. c \in ToSet(kept)
  <2>1. CASE out = {}
    BY <1>6, <2>1
  <2>2. CASE out # {}
    <3>1. Len(ids) > ChangeSetsPerSession /\ ChangeSetsPerSession \in Nat \ {0} /\ kept = Tail(ids)
      BY <2>2, RelayBounds
    <3>2. Len(ids) = Len(setsOf[s]) + 1 /\ Len(setsOf[s]) \in Nat /\ ids[Len(ids)] = c
      BY <1>5
    <3> HIDE DEF ids, kept
    <3>3. Len(ids) - 1 \in DOMAIN Tail(ids) /\ Tail(ids)[Len(ids) - 1] = ids[(Len(ids) - 1) + 1]
      BY <1>6, <3>1, <3>2
    <3>4. (Len(ids) - 1) + 1 = Len(ids)
      BY <3>2
    <3> QED BY <3>1, <3>2, <3>3, <3>4 DEF ToSet
  <2> QED BY <2>1, <2>2
<1> HIDE DEF ids, out, kept, new
<1>9. changeSets' \in [ChangeSetIds -> StoredSet \cup {None}] /\ setsOf' \in [SessionIds -> Seq(ChangeSetIds)]
  BY <1>2, <1>4, <1>5, <1>7, ApartHas DEF Shape
<1>10. \A x \in ChangeSetIds : x # c /\ changeSets'[x] # None =>
          changeSets'[x] = changeSets[x] /\ x \notin out
  BY <1>2
<1>11. Listed'
  <2>1. ASSUME NEW x \in ChangeSetIds, changeSets'[x] # None
        PROVE  x \in ToSet(setsOf'[changeSets'[x].session])
    <3>1. CASE x = c
      BY <1>2, <1>3, <1>4, <1>5, <1>8, <3>1
    <3>2. CASE x # c
      <4>1. changeSets'[x] = changeSets[x] /\ x \notin out /\ changeSets[x].session \in SessionIds
        BY <1>10, <2>1, <3>2, ApartHas DEF Shape, StoredSet
      <4>2. x \in ToSet(setsOf[changeSets[x].session])
        BY <2>1, <4>1, ApartHas DEF Listed
      <4>3. CASE changeSets[x].session = s
        BY <1>2, <1>3, <1>5, <1>6, <1>7, <4>1, <4>2, <4>3
      <4>4. CASE changeSets[x].session # s
        BY <1>2, <1>5, <4>1, <4>2, <4>4
      <4> QED BY <4>3, <4>4
    <3> QED BY <3>1, <3>2
  <2> QED BY <1>2, <2>1, ApartHas DEF Listed
<1>12. UnderWayWasApproved'
  BY <1>2, <1>4, <1>10, ApartHas DEF UnderWayWasApproved
<1>13. QueuedWasApproved' /\ Severed' /\ Watermark' /\ NoReportTwice' /\ OwnWorkOnly'
  BY <1>2, <1>3, QueuesKept
<1>14. /\ queues' \in [LinkIds -> Queue \cup {None}]
       /\ \A k \in LinkIds : links[k] # None => queues'[k] \in Queue
       /\ journals' \in [JournalIds -> Journal \cup {None}]
       /\ journalsOf' \in [SessionIds -> Seq(JournalIds)]
       /\ version' \in [SessionIds -> Nat]
       /\ effects' \in [LinkIds -> Seq(Nat)]
  BY <1>2, ApartHas DEF Shape, Bound
<1> QED BY <1>2, <1>9, <1>11, <1>12, <1>13, <1>14, HandlerStep

-----------------------------------------------------------------------------
(* Reports *)

(* The watermark of a queue only rises, and its deliveries stay. *)
LEMMA TouchKeeps ==
    ASSUME Apart, NEW l \in LinkIds, NEW q \in Queue, queues' = [queues EXCEPT ![l] = q],
           q.items = QueueOf(l).items, q.inbound >= QueueOf(l).inbound,
           UNCHANGED <<links, boundTo, approvals>>
    PROVE  /\ QueuedWasApproved' /\ OwnWorkOnly'
           /\ queues' \in [LinkIds -> Queue \cup {None}]
           /\ \A k \in LinkIds : links[k] # None =>
                 queues'[k] \in Queue /\ queues'[k].inbound >= queues[k].inbound
<1> USE NoneIsNull
<1>1. queues \in [LinkIds -> Queue \cup {None}]
  BY ApartHas DEF Shape
<1>2. \A k \in LinkIds : k # l => queues'[k] = queues[k]
  BY <1>1
<1>3. queues'[l] = q
  BY <1>1
<1>4. links[l] # None => queues[l] \in Queue /\ queues[l] # None
  BY ApartHas DEF Bound
<1>5. queues[l] # None => QueueOf(l) = queues[l]
  BY DEF QueueOf
<1>6. queues[l] = None => DOMAIN q.items = {}
  BY DEF QueueOf, FreshQueue
<1>7. QueuedWasApproved'
  BY <1>2, <1>3, <1>4, <1>5, ApartHas DEF QueuedWasApproved
<1>8. OwnWorkOnly'
  <2>1. \A k \in LinkIds : k # l /\ queues'[k] # None =>
           \A i \in DOMAIN queues'[k].items : queues'[k].items[i].owner = boundTo'[k]
    BY <1>2, ApartHas DEF OwnWorkOnly
  <2>2. \A i \in DOMAIN q.items : q.items[i].owner = boundTo[l]
    BY <1>5, <1>6, ApartHas DEF OwnWorkOnly
  <2> QED BY <1>3, <2>1, <2>2 DEF OwnWorkOnly
<1>9. \A k \in LinkIds : links[k] # None => queues[k] \in Queue /\ queues[k].inbound \in Nat
  BY ApartHas DEF Bound, Queue
<1>10. \A k \in LinkIds : links[k] # None =>
          queues'[k] \in Queue /\ queues'[k].inbound >= queues[k].inbound
  BY <1>2, <1>3, <1>4, <1>5, <1>9
<1>11. queues' \in [LinkIds -> Queue \cup {None}]
  BY <1>1
<1> QED BY <1>7, <1>8, <1>10, <1>11

(* A watermark that rises stays above the reports taken before.             *)
LEMMA WatermarkRises ==
    ASSUME Apart, UNCHANGED <<links, effects>>,
           \A k \in LinkIds : links[k] # None =>
              queues'[k] \in Queue /\ queues'[k].inbound >= queues[k].inbound
    PROVE  Watermark'
<1> SUFFICES ASSUME NEW k \in LinkIds, links[k] # None, NEW i \in DOMAIN effects[k]
             PROVE  effects[k][i] <= queues'[k].inbound
  BY DEF Watermark
<1>1. effects[k][i] <= queues[k].inbound
  BY ApartHas DEF Watermark
<1>2. queues[k].inbound \in Nat /\ queues'[k].inbound \in Nat
  BY ApartHas DEF Bound, Queue
<1>3. effects[k][i] \in Nat
  <2>1. effects[k] \in Seq(Nat)
    BY ApartHas DEF Shape
  <2> QED BY <2>1
<1> QED BY <1>1, <1>2, <1>3

(* The queue of a link, fresh when it has none yet.                         *)
LEMMA QueueOfType ==
    ASSUME Apart, NEW l \in LinkIds
    PROVE  QueueOf(l) \in Queue /\ QueueOf(l).inbound \in Nat
<1>1. FreshQueue \in Queue
  BY DEF FreshQueue, Queue
<1>2. QueueOf(l) \in Queue
  BY <1>1, ApartHas DEF QueueOf, Shape
<1> QED BY <1>2 DEF Queue

(* A nonce is taken only above the watermark, which it becomes.             *)
LEMMA ClaimsFacts ==
    ASSUME Apart, NEW l \in LinkIds, NEW n \in Nat, Claims(l, n)
    PROVE  \E q \in Queue :
              /\ queues' = [queues EXCEPT ![l] = q] /\ q.items = QueueOf(l).items
              /\ q.inbound = n /\ n > QueueOf(l).inbound
<1>1. PICK o \in Queue : o = QueueOf(l)
  BY QueueOfType
<1>2. [o EXCEPT !.inbound = n] \in Queue
  BY DEF Queue
<1>3. [o EXCEPT !.inbound = n].items = o.items /\ [o EXCEPT !.inbound = n].inbound = n
  BY DEF Queue
<1>4. queues' = [queues EXCEPT ![l] = [o EXCEPT !.inbound = n]] /\ n > o.inbound
  BY <1>1 DEF Claims
<1> QED BY <1>1, <1>2, <1>3, <1>4

(* A refused report may still have spent its nonce.                         *)
LEMMA RefuseConsumerStep ==
    ASSUME Apart, NEW r \in Requests, NEW n \in Nat, RefuseConsumer(r, n)
    PROVE  Apart'
<1>1. PICK l : l = reqs[r].link
  OBVIOUS
<1>2. /\ reqs[r] # None /\ Finishes(r) /\ l # None
      /\ UNCHANGED <<links, changeSets, setsOf, journals, journalsOf, version, approvals, effects>>
  BY <1>1 DEF RefuseConsumer, HandlesConsumer, recordVars
<1>3. l \in LinkIds /\ UNCHANGED boundTo
  BY <1>1, <1>2, HandlerFacts DEF Finishes
<1>4. PICK q \in Queue : /\ queues' = [queues EXCEPT ![l] = q] /\ q.items = QueueOf(l).items
                         /\ q.inbound >= QueueOf(l).inbound
  <2>1. CASE Claims(l, n)
    BY <1>3, <2>1, ClaimsFacts, QueueOfType
  <2>2. CASE queues' = [queues EXCEPT ![l] = QueueOf(l)]
    <3>1. QueueOf(l) \in Queue /\ QueueOf(l).inbound >= QueueOf(l).inbound
      BY <1>3, QueueOfType
    <3> QED BY <2>2, <3>1
  <2> QED BY <1>1, <2>1, <2>2 DEF RefuseConsumer
<1>5. /\ QueuedWasApproved' /\ OwnWorkOnly'
      /\ queues' \in [LinkIds -> Queue \cup {None}]
      /\ \A k \in LinkIds : links[k] # None =>
            queues'[k] \in Queue /\ queues'[k].inbound >= queues[k].inbound
  BY <1>2, <1>3, <1>4, TouchKeeps
<1>6. Listed' /\ UnderWayWasApproved'
  BY <1>2, RecordsKept
<1>7. Severed' /\ NoReportTwice'
  BY <1>2, <1>3, ApartHas DEF Severed, NoReportTwice
<1>8. Watermark'
  BY <1>2, <1>5, WatermarkRises
<1>9. /\ changeSets' \in [ChangeSetIds -> StoredSet \cup {None}]
      /\ setsOf' \in [SessionIds -> Seq(ChangeSetIds)]
      /\ journals' \in [JournalIds -> Journal \cup {None}]
      /\ journalsOf' \in [SessionIds -> Seq(JournalIds)]
      /\ version' \in [SessionIds -> Nat]
      /\ effects' \in [LinkIds -> Seq(Nat)]
  BY <1>2, ApartHas DEF Shape
<1> QED BY <1>2, <1>5, <1>6, <1>7, <1>8, <1>9, HandlerStep

(* A link whose session is gone has nothing to report about. *)
LEMMA ReportingLinkIsLive ==
    ASSUME Apart, NEW r \in Requests, reqs[r] # None, reqs[r].link # None,
           \/ \E c \in ChangeSetIds : /\ SetOf(reqs[r].session, c)
                                      /\ changeSets[c].status \in {"approved", "applying"}
           \/ \E j \in JournalIds : JournalOf(reqs[r].session, j)
    PROVE  links[reqs[r].link] # None
<1>1. PICK l \in LinkIds : l = reqs[r].link /\ reqs[r].session = boundTo[l]
  BY HandlerFacts
<1>2. ASSUME NEW c \in ChangeSetIds, SetOf(boundTo[l], c),
             changeSets[c].status \in {"approved", "applying"}
      PROVE  links[l] # None
  BY <1>2, ApartHas DEF SetOf, UnderWayWasApproved, Severed
<1>3. ASSUME NEW j \in JournalIds, JournalOf(boundTo[l], j)
      PROVE  links[l] # None
  BY <1>3, ApartHas DEF JournalOf, Severed
<1> QED BY <1>1, <1>2, <1>3

(* A report that is recorded is numbered above all that were. *)
LEMMA ReportKeeps ==
    ASSUME Apart, NEW l \in LinkIds, links[l] # None, NEW n \in Nat,
           Claims(l, n), Recorded(l, n), UNCHANGED <<links, boundTo, approvals>>
    PROVE  /\ QueuedWasApproved' /\ OwnWorkOnly' /\ Watermark' /\ NoReportTwice'
           /\ queues' \in [LinkIds -> Queue \cup {None}]
           /\ \A k \in LinkIds : links[k] # None => queues'[k] \in Queue
           /\ effects' \in [LinkIds -> Seq(Nat)]
           /\ \A k \in LinkIds : k # l => effects'[k] = effects[k]
<1> USE NoneIsNull
<1>1. PICK q \in Queue : /\ queues' = [queues EXCEPT ![l] = q] /\ q.items = QueueOf(l).items
                         /\ q.inbound = n /\ n > QueueOf(l).inbound
  BY ClaimsFacts
<1>2. QueueOf(l).inbound \in Nat /\ QueueOf(l) = queues[l]
  BY QueueOfType, ApartHas DEF QueueOf, Bound
<1>3. /\ QueuedWasApproved' /\ OwnWorkOnly'
      /\ queues' \in [LinkIds -> Queue \cup {None}]
      /\ \A k \in LinkIds : links[k] # None =>
            queues'[k] \in Queue /\ queues'[k].inbound >= queues[k].inbound
  <2>1. q.inbound >= QueueOf(l).inbound
    BY <1>1, <1>2
  <2> QED BY <1>1, <2>1, TouchKeeps
<1>4. effects \in [LinkIds -> Seq(Nat)] /\ effects[l] \in Seq(Nat)
  BY ApartHas DEF Shape
<1>5. PICK e \in Seq(Nat) : e = effects[l]
  BY <1>4
<1>6. /\ effects' = [effects EXCEPT ![l] = Append(e, n)]
      /\ \A k \in LinkIds : k # l => effects'[k] = effects[k]
      /\ effects'[l] = Append(e, n)
      /\ effects' \in [LinkIds -> Seq(Nat)]
  BY <1>4, <1>5 DEF Recorded
<1>7. queues \in [LinkIds -> Queue \cup {None}]
  BY ApartHas DEF Shape
<1>8. /\ queues'[l].inbound = n
      /\ \A k \in LinkIds : k # l => queues'[k] = queues[k]
      /\ \A i \in DOMAIN e : e[i] <= queues[l].inbound
  BY <1>1, <1>5, <1>7, ApartHas DEF Watermark
<1>9. /\ Len(e) \in Nat /\ Len(Append(e, n)) = Len(e) + 1 /\ DOMAIN Append(e, n) = 1..(Len(e) + 1)
      /\ DOMAIN e = 1..Len(e)
      /\ \A i \in 1..Len(e) : e[i] \in Nat /\ Append(e, n)[i] = e[i]
      /\ Append(e, n)[Len(e) + 1] = n
  OBVIOUS
<1>10. \A i \in 1..Len(e) : e[i] < n
  BY <1>1, <1>2, <1>8, <1>9
<1>11. Watermark'
  <2>1. \A i \in DOMAIN Append(e, n) : Append(e, n)[i] <= n
    <3> TAKE i \in DOMAIN Append(e, n)
    <3>1. i \in 1..Len(e) \/ i = Len(e) + 1
      BY <1>9
    <3> QED BY <1>9, <1>10, <3>1
  <2> HIDE DEF Recorded
  <2> QED BY <1>6, <1>8, <2>1, ApartHas DEF Watermark
<1>12. NoReportTwice'
  <2>1. ASSUME NEW i \in 1..(Len(Append(e, n)) - 1)
        PROVE  Append(e, n)[i] < Append(e, n)[i + 1]
    <3>1. i \in 1..Len(e)
      BY <1>9
    <3>2. CASE i = Len(e)
      BY <1>9, <1>10, <3>1, <3>2
    <3>3. CASE i # Len(e)
      <4>1. i \in 1..(Len(e) - 1) /\ i + 1 \in 1..Len(e)
        <5>1. Len(e) \in Nat
          BY <1>9
        <5> QED BY <3>1, <3>3, <5>1
      <4>2. e[i] < e[i + 1]
        BY <1>5, <4>1, ApartHas DEF NoReportTwice
      <4> QED BY <1>9, <3>1, <4>1, <4>2
    <3> QED BY <3>2, <3>3
  <2> QED BY <1>6, <2>1, ApartHas DEF NoReportTwice
<1> QED BY <1>3, <1>6, <1>11, <1>12

(* The report of an apply: its set, its journal and its version.            *)
LEMMA ApplyResultStep ==
    ASSUME Apart, NEW r \in Requests, NEW c \in ChangeSetIds, NEW j \in JournalIds,
           NEW v \in Nat, NEW n \in Nat, ApplyResult(r, c, j, v, n)
    PROVE  Apart'
<1> USE NoneIsNull
<1>1. PICK s, l : s = reqs[r].session /\ l = reqs[r].link
  OBVIOUS
<1> DEFINE ids == Append(journalsOf[s], j)
           out == IF Len(ids) > JournalsPerSession THEN {Head(ids)} ELSE {}
           kept == IF out = {} THEN ids ELSE Tail(ids)
           new == [session |-> s, set |-> c, before |-> version[s], after |-> v,
                   requested |-> FALSE, rolledBack |-> FALSE, inverses |-> FALSE]
<1>2. /\ reqs[r] # None /\ Finishes(r) /\ l # None /\ Claims(l, n) /\ Recorded(l, n)
      /\ SetOf(s, c) /\ changeSets[c].status \in {"approved", "applying"}
      /\ changeSets' = WithStatus(changeSets, s, c, "concluded")
      /\ version' = [version EXCEPT ![s] = v]
      /\ journals' = [x \in JournalIds |->
            IF x = j THEN new ELSE IF x \in out THEN None ELSE journals[x]]
      /\ journalsOf' = [journalsOf EXCEPT ![s] = kept]
      /\ UNCHANGED <<links, setsOf, approvals>>
  BY <1>1 DEF ApplyResult, HandlesConsumer
<1>3. s \in SessionIds /\ l \in LinkIds /\ s = boundTo[l] /\ UNCHANGED boundTo
  BY <1>1, <1>2, HandlerFacts DEF Finishes
<1>4. links[l] # None
  BY <1>1, <1>2, ReportingLinkIsLive
<1>5. /\ QueuedWasApproved' /\ OwnWorkOnly' /\ Watermark' /\ NoReportTwice'
      /\ queues' \in [LinkIds -> Queue \cup {None}]
      /\ \A k \in LinkIds : links[k] # None => queues'[k] \in Queue
      /\ effects' \in [LinkIds -> Seq(Nat)]
      /\ \A k \in LinkIds : k # l => effects'[k] = effects[k]
  BY <1>2, <1>3, <1>4, ReportKeeps
<1>6. changeSets' \in [ChangeSetIds -> StoredSet \cup {None}] /\ SetsMove(changeSets')
  <2>1. changeSets \in [ChangeSetIds -> StoredSet \cup {None}] /\ "concluded" \in Statuses
    BY ApartHas DEF Shape, Statuses
  <2> DEFINE sets == WithStatus(changeSets, s, c, "concluded")
  <2>2. /\ sets \in [ChangeSetIds -> StoredSet \cup {None}]
        /\ \A x \in ChangeSetIds : sets[x] # None =>
              /\ changeSets[x] # None /\ sets[x].session = changeSets[x].session
              /\ sets[x] = changeSets[x] \/ (x = c /\ changeSets[x].session = s)
    BY <2>1, WithStatusFacts
  <2>3. changeSets' = sets
    BY <1>2
  <2> HIDE DEF sets
  <2>4. <<s, c>> \in approvals'
    BY <1>2, ApartHas DEF SetOf, UnderWayWasApproved
  <2> QED BY <1>2, <2>2, <2>3, <2>4 DEF SetsMove
<1>7. new \in Journal /\ new.session = s
  <2>1. version[s] \in Nat
    BY <1>3, ApartHas DEF Shape
  <2> QED BY <1>3, <2>1 DEF Journal
<1>8. journalsOf[s] \in Seq(JournalIds) /\ journalsOf \in [SessionIds -> Seq(JournalIds)]
  BY <1>3, ApartHas DEF Shape
<1>9. ids \in Seq(JournalIds) /\ ToSet(ids) = ToSet(journalsOf[s]) \cup {j} /\ ids # <<>>
  BY <1>8, AppendFacts
<1>10. kept \in Seq(JournalIds) /\ ToSet(ids) \subseteq ToSet(kept) \cup out
  BY <1>9, TailFacts
<1>11. j \in ToSet(kept)
  <2>1. CASE out = {}
    BY <1>9, <2>1
  <2>2. CASE out # {}
    <3>1. Len(ids) > JournalsPerSession /\ JournalsPerSession \in Nat \ {0} /\ kept = Tail(ids)
      BY <2>2, RelayBounds
    <3>2. Len(ids) = Len(journalsOf[s]) + 1 /\ Len(journalsOf[s]) \in Nat /\ ids[Len(ids)] = j
      BY <1>8
    <3> HIDE DEF ids, kept
    <3>3. Len(ids) - 1 \in DOMAIN Tail(ids) /\ Tail(ids)[Len(ids) - 1] = ids[(Len(ids) - 1) + 1]
      BY <1>9, <3>1, <3>2
    <3>4. (Len(ids) - 1) + 1 = Len(ids)
      BY <3>2
    <3> QED BY <3>1, <3>2, <3>3, <3>4 DEF ToSet
  <2> QED BY <2>1, <2>2
<1> HIDE DEF ids, out, kept, new
<1>12. journals' \in [JournalIds -> Journal \cup {None}] /\ journalsOf' \in [SessionIds -> Seq(JournalIds)]
  BY <1>2, <1>7, <1>8, <1>10, ApartHas DEF Shape
<1>13. \A x \in JournalIds : x # j /\ journals'[x] # None => journals'[x] = journals[x] /\ x \notin out
  BY <1>2
<1>14. Listed' /\ UnderWayWasApproved'
  <2>1. ASSUME NEW x \in JournalIds, journals'[x] # None
        PROVE  x \in ToSet(journalsOf'[journals'[x].session])
    <3>1. CASE x = j
      BY <1>2, <1>3, <1>7, <1>8, <1>11, <3>1
    <3>2. CASE x # j
      <4>1. journals'[x] = journals[x] /\ x \notin out /\ journals[x].session \in SessionIds
        BY <1>13, <2>1, <3>2, ApartHas DEF Shape, Journal
      <4>2. x \in ToSet(journalsOf[journals[x].session])
        BY <2>1, <4>1, ApartHas DEF Listed
      <4>3. CASE journals[x].session = s
        BY <1>2, <1>3, <1>8, <1>9, <1>10, <4>1, <4>2, <4>3
      <4>4. CASE journals[x].session # s
        BY <1>2, <1>8, <4>1, <4>2, <4>4
      <4> QED BY <4>3, <4>4
    <3> QED BY <3>1, <3>2
  <2>2. /\ UnderWayWasApproved'
        /\ \A x \in ChangeSetIds : changeSets'[x] # None => x \in ToSet(setsOf'[changeSets'[x].session])
    BY <1>2, <1>6, SetsMoveKeeps
  <2> QED BY <2>1, <2>2 DEF Listed
<1>15. Severed'
  <2>1. ASSUME NEW k \in LinkIds, links[k] = None PROVE k # l /\ boundTo[k] # s
    BY <1>3, <1>4, <2>1, ApartHas DEF OneLinkPerCode
  <2>2. ASSUME NEW k \in LinkIds, links[k] = None, NEW x \in JournalIds, journals'[x] # None
        PROVE  journals'[x].session # boundTo[k]
    BY <1>2, <1>7, <1>13, <2>1, <2>2, ApartHas DEF Severed
  <2> QED BY <1>2, <1>3, <1>5, <2>1, <2>2, ApartHas DEF Severed
<1>16. version' \in [SessionIds -> Nat] /\ setsOf' \in [SessionIds -> Seq(ChangeSetIds)]
  BY <1>2, <1>3, ApartHas DEF Shape
<1> QED BY <1>2, <1>5, <1>6, <1>12, <1>14, <1>15, <1>16, HandlerStep

(* The two reports about a journal. *)
LEMMA JournalReportStep ==
    ASSUME Apart, NEW r \in Requests, NEW j \in JournalIds, NEW n \in Nat,
           \/ RecordJournalEntry(r, j, n)
           \/ \E v \in Nat, whole \in BOOLEAN : RecordRollbackResult(r, j, v, whole, n)
    PROVE  Apart'
<1> USE NoneIsNull
<1>1. PICK s, l : s = reqs[r].session /\ l = reqs[r].link
  OBVIOUS
<1>2. /\ reqs[r] # None /\ Finishes(r) /\ l # None /\ Claims(l, n) /\ Recorded(l, n)
      /\ JournalOf(s, j)
      /\ UNCHANGED <<links, changeSets, setsOf, journalsOf, approvals>>
  BY <1>1 DEF RecordJournalEntry, RecordRollbackResult, HandlesConsumer
<1>3. s \in SessionIds /\ l \in LinkIds /\ s = boundTo[l] /\ UNCHANGED boundTo
  BY <1>1, <1>2, HandlerFacts DEF Finishes
<1>4. links[l] # None
  BY <1>1, <1>2, ReportingLinkIsLive
<1>5. /\ QueuedWasApproved' /\ OwnWorkOnly' /\ Watermark' /\ NoReportTwice'
      /\ queues' \in [LinkIds -> Queue \cup {None}]
      /\ \A k \in LinkIds : links[k] # None => queues'[k] \in Queue
      /\ effects' \in [LinkIds -> Seq(Nat)]
      /\ \A k \in LinkIds : k # l => effects'[k] = effects[k]
  BY <1>2, <1>3, <1>4, ReportKeeps
<1>6. journals \in [JournalIds -> Journal \cup {None}] /\ journals[j] \in Journal /\ journals[j] # None
  BY <1>2, ApartHas DEF Shape, JournalOf
<1>7. \E new \in Journal : new.session = journals[j].session /\ journals' = [journals EXCEPT ![j] = new]
  <2>1. CASE RecordJournalEntry(r, j, n)
    <3> DEFINE new == [journals[j] EXCEPT !.inverses = TRUE]
    <3>1. new \in Journal /\ new.session = journals[j].session
      BY <1>6 DEF Journal
    <3>2. journals' = [journals EXCEPT ![j] = new]
      BY <2>1 DEF RecordJournalEntry
    <3> QED BY <3>1, <3>2
  <2>2. ASSUME NEW v \in Nat, NEW whole \in BOOLEAN, RecordRollbackResult(r, j, v, whole, n)
        PROVE  \E new \in Journal : /\ new.session = journals[j].session
                                    /\ journals' = [journals EXCEPT ![j] = new]
    <3> DEFINE new == [journals[j] EXCEPT !.rolledBack = whole]
    <3>1. new \in Journal /\ new.session = journals[j].session
      BY <1>6 DEF Journal
    <3>2. journals' = [journals EXCEPT ![j] = new]
      BY <2>2 DEF RecordRollbackResult
    <3> QED BY <3>1, <3>2
  <2> QED BY <2>1, <2>2
<1>8. /\ journals' \in [JournalIds -> Journal \cup {None}]
      /\ \A x \in JournalIds : journals'[x] # None =>
            journals[x] # None /\ journals'[x].session = journals[x].session
  BY <1>6, <1>7
<1>9. Listed' /\ UnderWayWasApproved'
  BY <1>2, <1>8, ApartHas DEF Listed, UnderWayWasApproved
<1>10. Severed'
  BY <1>2, <1>3, <1>4, <1>5, <1>8, ApartHas, SMTT(30) DEF Severed
<1>11. /\ version' \in [SessionIds -> Nat] /\ setsOf' \in [SessionIds -> Seq(ChangeSetIds)]
       /\ changeSets' \in [ChangeSetIds -> StoredSet \cup {None}]
       /\ journalsOf' \in [SessionIds -> Seq(JournalIds)]
  <2>1. version' \in [SessionIds -> Nat]
    BY <1>1, <1>3, ApartHas DEF Shape, RecordJournalEntry, RecordRollbackResult
  <2> QED BY <1>2, <2>1, ApartHas DEF Shape
<1> QED BY <1>2, <1>5, <1>8, <1>9, <1>10, <1>11, HandlerStep

-----------------------------------------------------------------------------
(* Every step keeps the invariant.                                          *)
LEMMA ApartStep ==
    ASSUME Apart, [Next]_vars
    PROVE  Apart'
<1>1. CASE UNCHANGED vars
  <2>1. UNCHANGED <<sessions, pending, linkVars, recordVars, reqs, history>>
    BY <1>1 DEF vars, sessionVars
  <2>2. Bound'
    BY <2>1, ApartHas DEF Bound, linkVars, history, Live, recordVars
  <2>3. Unspent'
    BY <2>1, CodesKept DEF history
  <2> QED BY <2>1, <2>2, <2>3, ApartHas, SessionStep DEF Shape
<1>2. CASE Next
  <2>1. \A v \in Versions : v \in Nat
    BY RelayBounds DEF Versions
  <2>2. \A n \in 1..MaxNonce : n \in Nat
    BY RelayBounds
  <2>3. ASSUME NEW r \in Requests,
               \/ RefuseProducer(r)
               \/ \E n \in 1..MaxNonce : RefuseConsumer(r, n)
               \/ \E c \in ChangeSetIds, v \in Versions, ok \in BOOLEAN : Submit(r, c, v, ok)
               \/ \E c \in ChangeSetIds : Approve(r, c)
               \/ \E j \in JournalIds, v \in Versions : Rollback(r, j, v)
        PROVE  Apart'
    BY <2>1, <2>2, <2>3, RefuseProducerStep, RefuseConsumerStep, SubmitStep, ApproveStep, RollbackStep
  <2>4. ASSUME NEW r \in Requests,
               \/ \E c \in ChangeSetIds, j \in JournalIds, v \in Versions, n \in 1..MaxNonce :
                     ApplyResult(r, c, j, v, n)
               \/ \E j \in JournalIds, n \in 1..MaxNonce : RecordJournalEntry(r, j, n)
               \/ \E j \in JournalIds, v \in Versions, whole \in BOOLEAN, n \in 1..MaxNonce :
                     RecordRollbackResult(r, j, v, whole, n)
        PROVE  Apart'
    BY <2>1, <2>2, <2>4, ApplyResultStep, JournalReportStep
  <2> QED BY <1>2, <2>3, <2>4, CreateSessionStep, LapseSteps, CodeLapsesStep, AuthoriseSteps,
             DropSteps, PairStep, PollStep DEF Next
<1> QED BY <1>1, <1>2

(* However many sessions share a relay, and whatever is evicted, expires   *)
(* or is redeemed while a request's body is being read: a queue holds its  *)
(* own session's work, a code buys one link, what is under way was         *)
(* approved in its own session, and no report is recorded twice.           *)
THEOREM RelaySessionsAreApart == Spec => []SessionsAreApart
<1>1. Init => Apart
  BY ApartInit
<1>2. Apart /\ [Next]_vars => Apart'
  BY ApartStep
<1>3. Apart => SessionsAreApart
  BY DEF Apart
<1> QED BY <1>1, <1>2, <1>3, PTL DEF Spec

-----------------------------------------------------------------------------
(* What a session that is not there can do in one step: nothing that       *)
(* counts.  Only Approve adds to the approvals and only a recorded report  *)
(* to the effects; both need a live link, whose session is live.           *)
Inert ==
    \A s \in SessionIds \ Live :
        /\ \A c \in ChangeSetIds : <<s, c>> \in approvals' => <<s, c>> \in approvals
        /\ \A l \in LinkIds : boundTo[l] = s /\ Len(effects'[l]) > 0 => effects'[l] = effects[l]

(* Dropping a session approves nothing and records nothing.                 *)
LEMMA InertWhenDropping ==
    ASSUME NEW dead, DropRecords(dead)
    PROVE  Inert
  BY DEF DropRecords, Inert

(* A report that is recorded comes over the link of a live session.         *)
LEMMA InertWhenReporting ==
    ASSUME Apart, NEW r \in Requests, NEW n, HandlesConsumer(r), Recorded(reqs[r].link, n),
           UNCHANGED approvals,
           \/ \E c \in ChangeSetIds : /\ SetOf(reqs[r].session, c)
                                      /\ changeSets[c].status \in {"approved", "applying"}
           \/ \E j \in JournalIds : JournalOf(reqs[r].session, j)
    PROVE  Inert
<1>1. links[reqs[r].link] # None /\ reqs[r].link \in LinkIds
  BY ReportingLinkIsLive, HandlerFacts DEF HandlesConsumer
<1>2. boundTo[reqs[r].link] \in Live
  BY <1>1, ApartHas DEF Bound
<1>3. \A l \in LinkIds : l # reqs[r].link => effects'[l] = effects[l]
  BY ApartHas DEF Recorded, Shape
<1> QED BY <1>2, <1>3 DEF Inert

(* Every step leaves the sessions that are gone alone.                      *)
LEMMA InertStep ==
    ASSUME Apart, Next
    PROVE  Inert
<1>1. ASSUME UNCHANGED <<approvals, effects>> PROVE Inert
  BY <1>1 DEF Inert
<1>2. CASE \E s \in SessionIds : CreateSession(s) \/ SessionLapses(s) \/ DropLapsed(s)
  BY <1>1, <1>2, InertWhenDropping DEF CreateSession, SessionLapses, DropLapsed, history
<1>3. CASE EvictOldest \/ CodeLapses
  BY <1>1, <1>3, InertWhenDropping DEF EvictOldest, CodeLapses, history
<1>4. CASE \E s \in SessionIds, l \in LinkIds, p \in SessionIds \cup {None} : Pair(s, l, p)
  BY <1>1, <1>4, InertWhenDropping DEF Pair
<1>5. CASE \/ \E r \in Requests, s \in SessionIds : AuthoriseProducer(r, s)
           \/ \E r \in Requests, l \in LinkIds : AuthoriseConsumer(r, l)
           \/ \E l \in LinkIds, since \in 0..MaxCursor : Poll(l, since)
           \/ \E w \in waiters : PollEnds(w)
  BY <1>1, <1>5 DEF AuthoriseProducer, AuthoriseConsumer, Poll, PollEnds, history
<1>6. ASSUME NEW r \in Requests,
             \/ RefuseProducer(r)
             \/ \E n \in 1..MaxNonce : RefuseConsumer(r, n)
             \/ \E c \in ChangeSetIds, v \in Versions, ok \in BOOLEAN : Submit(r, c, v, ok)
             \/ \E j \in JournalIds, v \in Versions : Rollback(r, j, v)
      PROVE  Inert
  BY <1>1, <1>6 DEF RefuseProducer, RefuseConsumer, Submit, Rollback
<1>7. ASSUME NEW r \in Requests, NEW c \in ChangeSetIds, Approve(r, c) PROVE Inert
  <2>1. reqs[r].session \in Live
    <3>1. PICK l \in LinkIds : links[l] = reqs[r].session
      BY <1>7 DEF Approve, PairedLink
    <3>2. reqs[r].session \in SessionIds
      BY <1>7, HandlerFacts DEF Approve, HandlesProducer
    <3> QED BY <3>1, <3>2, NoneIsNull, ApartHas DEF Bound
  <2> QED BY <1>7, <2>1 DEF Approve, Inert
<1>8. ASSUME NEW r \in Requests,
             \/ \E c \in ChangeSetIds, j \in JournalIds, v \in Versions, n \in 1..MaxNonce :
                   ApplyResult(r, c, j, v, n)
             \/ \E j \in JournalIds, n \in 1..MaxNonce : RecordJournalEntry(r, j, n)
             \/ \E j \in JournalIds, v \in Versions, whole \in BOOLEAN, n \in 1..MaxNonce :
                   RecordRollbackResult(r, j, v, whole, n)
      PROVE  Inert
  BY <1>8, InertWhenReporting, ZenonT(40) DEF ApplyResult, RecordJournalEntry, RecordRollbackResult
<1> QED BY <1>2, <1>3, <1>4, <1>5, <1>6, <1>7, <1>8 DEF Next

(* A session that has been dropped approves nothing and has no report      *)
(* recorded, whatever requests were authorised for it before it went.      *)
THEOREM RelayDroppedSessionsAreInert == Spec => DroppedSessionsAreInert
<1>1. Init => Apart
  BY ApartInit
<1>2. Apart /\ [Next]_vars => Apart'
  BY ApartStep
<1>3. Apart /\ [Next]_vars => [Inert]_vars
  BY InertStep
<1>4. Inert => \A s \in SessionIds \ Live :
          /\ \A c \in ChangeSetIds : <<s, c>> \in approvals' => <<s, c>> \in approvals
          /\ \A l \in LinkIds : boundTo[l] = s /\ Len(effects'[l]) > 0 => effects'[l] = effects[l]
  BY DEF Inert
<1> QED BY <1>1, <1>2, <1>3, <1>4, PTL DEF Spec, DroppedSessionsAreInert

-----------------------------------------------------------------------------
(* Journals and reversals *)

(* What a host keeps of an upload: its operations are those of the set,    *)
(* and it can be replayed.                                                 *)
Vetted(c, e) ==
    /\ e \in Uploads(c)
    /\ MatchesChangeSet(e, ReversibleSets[c])
    /\ Replayable(e)

LedgerRecord ==
    [id : {1, 2}, set : SetIds, before : Int, after : Int, requested : BOOLEAN,
     rolledBack : BOOLEAN, entry : {NotUploaded} \cup UNION {Uploads(c) : c \in SetIds},
     reported : BOOLEAN, result : Seq(BOOLEAN)]

LedgerTypeOK ==
    /\ host \in {"relay", "daemon"}
    /\ proposals \in [SetIds -> {"approved", "rejected", "settled", "gone"}]
    /\ ledger \in Seq(LedgerRecord)
    /\ treeVersion \in Int
    /\ \A d \in reversals : d.set \in SetIds /\ d.expected \in Int /\ d.restores \in Int
    /\ \A a \in relayed : a.set \in SetIds /\ a.version \in Int /\ a.outcomes \in Seq(BOOLEAN)
    /\ undone \in [SetIds -> SUBSET Nat]

(* A set settles once, so it has one journal in all, with one entry; a     *)
(* journal under another id is never taken for it.                         *)
OneJournalASet ==
    /\ \A i \in DOMAIN ledger : proposals[ledger[i].set] \in {"settled", "gone"}
    /\ \A i, k \in DOMAIN ledger : ledger[i].set = ledger[k].set => i = k
    /\ \A i \in DOMAIN ledger :
          ledger[i].entry = NotUploaded \/ Vetted(ledger[i].set, ledger[i].entry)

(* What is dispatched is the reversal of a vetted entry, the one on record *)
(* if its journal is still kept.                                           *)
DispatchedFromRecord ==
    \A d \in reversals :
       /\ proposals[d.set] \in {"settled", "gone"}
       /\ \E e \in Uploads(d.set) :
             Vetted(d.set, e) /\ d.applied = e.applied /\ d.steps = RollbackSteps(e)
       /\ \A i \in DOMAIN ledger : ledger[i].set = d.set =>
             /\ ledger[i].requested
             /\ ledger[i].entry # NotUploaded
             /\ d.applied = ledger[i].entry.applied
             /\ d.steps = RollbackSteps(ledger[i].entry)

UndoneBy(d, k) == d.applied[d.steps[k].index].index

(* A report is of a reversal that was dispatched, and true of the place.   *)
ReportIsOf(a, d) ==
    /\ a.set = d.set
    /\ Len(a.outcomes) =< Len(d.steps)
    /\ \A k \in DOMAIN a.outcomes : a.outcomes[k] => UndoneBy(d, k) \in undone[d.set]
ReportsAreOfReversals ==
    /\ \A c \in SetIds : undone[c] # {} => \E d \in reversals : d.set = c
    /\ \A a \in relayed : \E d \in reversals : ReportIsOf(a, d)

(* A result on record is of a reversal that was asked for, and is borne    *)
(* out by what is undone.                                                  *)
Backed(h, r, gone) ==
    /\ r.requested => r.entry # NotUploaded
    /\ r.reported =>
         /\ r.requested
         /\ (\E k \in DOMAIN r.result : r.result[k]) => Reversible(r) \cap gone # {}
    /\ r.rolledBack => r.reported /\ r.result # <<>> /\ StampCovers(h, r) \subseteq gone
RecordsAreBacked == \A i \in DOMAIN ledger : Backed(host, ledger[i], undone[ledger[i].set])

ConsoleIsTheLatest ==
    /\ said \in Nat
    /\ console \in Seq(Int)
    /\ \A k \in DOMAIN console : console[k] = said - Len(console) + k

LedgerInv ==
    /\ LedgerTypeOK
    /\ OneJournalASet
    /\ DispatchedFromRecord
    /\ ReportsAreOfReversals
    /\ RecordsAreBacked

LEMMA LastMessagesAre ==
  ASSUME NEW all \in Seq(Int), NEW n \in Nat \ {0}, NEW s \in Nat,
         \A k \in DOMAIN all : all[k] = s - Len(all) + k
  PROVE  /\ LastMessages(all, n) \in Seq(Int)
         /\ \A k \in DOMAIN LastMessages(all, n) :
               LastMessages(all, n)[k] = s - Len(LastMessages(all, n)) + k
<1> DEFINE b == 1 + (IF Len(all) > n THEN Len(all) - n ELSE 0)
<1>1. b \in 1..(Len(all) + 1)
  OBVIOUS
<1> HIDE DEF b
<1>2. SubSeq(all, b, Len(all)) \in Seq(Int)
  BY <1>1
<1>3. Len(SubSeq(all, b, Len(all))) = Len(all) - b + 1
  BY <1>1
<1>4. \A k \in 1..Len(SubSeq(all, b, Len(all))) : SubSeq(all, b, Len(all))[k] = all[b + k - 1]
  BY <1>1
<1> DEFINE last == SubSeq(all, b, Len(all))
<1>5. LastMessages(all, n) = last
  BY DEF LastMessages, b
<1>6. /\ last \in Seq(Int) /\ Len(last) = Len(all) - b + 1 /\ DOMAIN last = 1..Len(last)
      /\ \A k \in 1..Len(last) : last[k] = all[b + k - 1]
  BY <1>2, <1>3, <1>4
<1> HIDE DEF last
<1>7. ASSUME NEW k \in 1..Len(last) PROVE last[k] = s - Len(last) + k
  <2>1. b + k - 1 \in DOMAIN all /\ b \in Int /\ Len(all) \in Nat /\ k \in Int
    BY <1>1, <1>6
  <2>2. all[b + k - 1] = s - Len(all) + (b + k - 1)
    BY <2>1
  <2> QED BY <1>6, <2>1, <2>2
<1> QED BY <1>5, <1>6, <1>7

LEMMA ConsoleInit == RelayJournalInit => ConsoleIsTheLatest
<1> SUFFICES ASSUME RelayJournalInit PROVE ConsoleIsTheLatest
  OBVIOUS
<1>1. said \in Nat
  BY RelayJournalBounds DEF RelayJournalInit
<1> DEFINE all == [k \in 1..said |-> k]
<1>2. all \in Seq(Int) /\ Len(all) = said /\ \A k \in DOMAIN all : all[k] = said - Len(all) + k
  BY <1>1
<1> HIDE DEF all
<1>3. console = LastMessages(all, ConsoleCap) /\ ConsoleCap \in Nat \ {0}
  BY RelayJournalBounds DEF RelayJournalInit, all
<1> QED BY <1>1, <1>2, <1>3, LastMessagesAre DEF ConsoleIsTheLatest

LEMMA ConsoleStep == ConsoleIsTheLatest /\ [RelayJournalNext]_relayJournalVars => ConsoleIsTheLatest'
<1> SUFFICES ASSUME ConsoleIsTheLatest, [RelayJournalNext]_relayJournalVars
             PROVE  ConsoleIsTheLatest'
  OBVIOUS
<1>1. CASE UNCHANGED <<console, said>>
  BY <1>1 DEF ConsoleIsTheLatest
<1>2. ASSUME NEW n \in {1, 2}, AppendConsole(n)
      PROVE  ConsoleIsTheLatest'
  <2> DEFINE new == [k \in 1..n |-> said + k]
             all == console \o new
  <2>1. new \in Seq(Int) /\ Len(new) = n
    BY DEF ConsoleIsTheLatest
  <2>2. all \in Seq(Int) /\ Len(all) = Len(console) + n
    BY <2>1 DEF ConsoleIsTheLatest
  <2>3. \A k \in DOMAIN all : all[k] = (said + n) - Len(all) + k
    <3> TAKE k \in DOMAIN all
    <3>1. k \in 1..(Len(console) + n) /\ Len(console) \in Nat /\ said \in Nat
      BY <2>2 DEF ConsoleIsTheLatest
    <3>2. CASE k <= Len(console)
      <4>1. all[k] = console[k] /\ k \in DOMAIN console
        BY <2>1, <3>1, <3>2 DEF ConsoleIsTheLatest
      <4> QED BY <2>2, <3>1, <3>2, <4>1 DEF ConsoleIsTheLatest
    <3>3. CASE k > Len(console)
      <4>1. all[k] = new[k - Len(console)] /\ k - Len(console) \in 1..n
        BY <2>1, <3>1, <3>3 DEF ConsoleIsTheLatest
      <4>2. all[k] = said + (k - Len(console))
        BY <4>1
      <4> QED BY <2>2, <3>1, <4>2
    <3> QED BY <3>1, <3>2, <3>3
  <2>4. /\ console' = LastMessages(all, ConsoleCap) /\ ConsoleCap \in Nat \ {0}
        /\ said' = said + n /\ said + n \in Nat
    BY <1>2, RelayJournalBounds DEF AppendConsole, ConsoleIsTheLatest
  <2> HIDE DEF all
  <2> QED BY <2>2, <2>3, <2>4, LastMessagesAre DEF ConsoleIsTheLatest
<1> QED BY <1>1, <1>2 DEF RelayJournalNext, relayJournalVars, ReportApply, ProposalEvicted, UploadEntry,
           DispatchReversal, ReplaySteps, RecordReversal

LEMMA SetIdsAre ==
  /\ SetIds = {"shop", "code", "gate"}
  /\ ReversibleSets["shop"] = <<At("createInstance", <<"a">>, <<>>, "none"),
                                At("setProperty", <<"a">>, <<>>, "x")>>
  /\ ReversibleSets["code"] = <<At("writeScript", <<"a", "s">>, <<>>, "none")>>
  /\ ReversibleSets["gate"] = <<At("moveInstance", <<"a">>, <<"b">>, "none"),
                                At("deleteInstance", <<"b", "c">>, <<>>, "none")>>
BY DEF SetIds, ReversibleSets

LEMMA UploadsAre ==
  ASSUME NEW c \in SetIds, NEW e \in Uploads(c)
  PROVE  /\ e.applied \in Seq(Named(c)) /\ Len(e.applied) \in 0..2
         /\ e.inverses \in Seq(Inverses(c)) /\ Len(e.inverses) \in 0..2
         /\ \A k \in DOMAIN e.applied : e.applied[k].index \in Nat
<1>1. e.applied \in BoundedSeq(Named(c), 2) /\ e.inverses \in BoundedSeq(Inverses(c), 2)
  BY DEF Uploads
<1>2. \A S : \A s \in BoundedSeq(S, 2) : s \in Seq(S) /\ Len(s) \in 0..2
  <2> TAKE S
  <2> TAKE s \in BoundedSeq(S, 2)
  <2> PICK m \in 0..2 : s \in [1..m -> S]
    BY DEF BoundedSeq, SeqOf
  <2> QED OBVIOUS
<1>3. \A n \in Named(c) : n.index \in Nat
  <2>1. \A k \in DOMAIN ReversibleSets[c] : k \in Nat
    BY SetIdsAre
  <2> QED BY <2>1 DEF Named
<1>4. e.applied \in Seq(Named(c)) /\ Len(e.applied) \in 0..2
  BY <1>1, <1>2
<1>5. e.inverses \in Seq(Inverses(c)) /\ Len(e.inverses) \in 0..2
  BY <1>1, <1>2
<1> QED BY <1>3, <1>4, <1>5

LEMMA NumberedIsSeq ==
  ASSUME NEW S, NEW n \in Nat, NEW f \in [1..n -> S]
  PROVE  f \in Seq(S) /\ Len(f) = n
  OBVIOUS

LEMMA RollbackStepsAre ==
  ASSUME NEW c \in SetIds, NEW e \in Uploads(c)
  PROVE  LET n == Len(e.inverses) IN
         /\ RollbackSteps(e) = [k \in 1..n |-> [index |-> n - k + 1, inverse |-> e.inverses[n - k + 1]]]
         /\ RollbackSteps(e) \in Seq([index : 1..n, inverse : Inverses(c)])
         /\ Len(RollbackSteps(e)) = n
<1> DEFINE n == Len(e.inverses)
           s == [k \in DOMAIN e.inverses |-> [index |-> k, inverse |-> e.inverses[k]]]
<1>1. e.inverses \in Seq(Inverses(c)) /\ n \in Nat /\ DOMAIN e.inverses = 1..n
  BY UploadsAre
<1>2. DOMAIN s = 1..n /\ Len(s) = n
  BY <1>1
<1>3. \A k \in 1..n : n - k + 1 \in 1..n /\ s[n - k + 1] = [index |-> n - k + 1, inverse |-> e.inverses[n - k + 1]]
  BY <1>1
<1>4. RollbackSteps(e) = [k \in 1..n |-> s[n - k + 1]]
  BY <1>2 DEF RollbackSteps, Reverse
<1>5. RollbackSteps(e) = [k \in 1..n |-> [index |-> n - k + 1, inverse |-> e.inverses[n - k + 1]]]
  BY <1>3, <1>4
<1>6. \A k \in 1..n : [index |-> n - k + 1, inverse |-> e.inverses[n - k + 1]]
                          \in [index : 1..n, inverse : Inverses(c)]
  BY <1>1, <1>3
<1>7. ASSUME NEW R, R = [index : 1..n, inverse : Inverses(c)]
      PROVE  RollbackSteps(e) \in Seq(R) /\ Len(RollbackSteps(e)) = n
  <2> DEFINE step(k) == [index |-> n - k + 1, inverse |-> e.inverses[n - k + 1]]
  <2>1. RollbackSteps(e) = [k \in 1..n |-> step(k)]
    BY <1>5
  <2>2. \A k \in 1..n : step(k) \in R
    BY <1>6, <1>7
  <2>3. n \in Nat
    BY <1>1
  <2> HIDE DEF step, n
  <2>4. RollbackSteps(e) \in [1..n -> R]
    BY <2>1, <2>2
  <2> QED BY <2>3, <2>4, NumberedIsSeq
<1> QED BY <1>5, <1>7

(* The inverse that fits an operation, as the property has it. *)
Fits(op, inv) ==
    CASE op.op = "createInstance" -> inv = Undo("deleteCreated", op.path, <<>>, "none")
      [] op.op = "setProperty" ->
            inv = Undo("restoreProperty", op.path, <<>>, op.property)
      [] op.op = "writeScript" -> inv.path = op.path
      [] op.op = "moveInstance" -> inv = Undo("moveBack", op.to, op.path, "none")
      [] op.op = "deleteInstance" ->
            inv = Undo("restoreSubtree", Front(op.path), <<>>, "none")

LEMMA AssertedFits ==
  ASSUME NEW c \in SetIds, NEW k \in DOMAIN ReversibleSets[c], NEW inv \in Inverses(c),
         AssertInverts(ReversibleSets[c][k], inv)
  PROVE  Fits(ReversibleSets[c][k], inv)
<1> DEFINE op == ReversibleSets[c][k]
<1>1. CASE c = "shop"
  <2>1. \/ k = 1 /\ op = At("createInstance", <<"a">>, <<>>, "none")
        \/ k = 2 /\ op = At("setProperty", <<"a">>, <<>>, "x")
    <3>1. ReversibleSets[c] = <<At("createInstance", <<"a">>, <<>>, "none"),
                                At("setProperty", <<"a">>, <<>>, "x")>>
      BY <1>1, SetIdsAre
    <3>2. k \in 1..2
      BY <3>1
    <3>3. k = 1 \/ k = 2
      BY <3>2
    <3> QED BY <3>1, <3>3
  <2>2. inv \in {Undo("deleteCreated", <<"a">>, <<>>, "none"),
                 Undo("restoreProperty", <<"a">>, <<>>, "x"),
                 Undo("restoreProperty", <<"a">>, <<>>, "y")}
    BY <1>1 DEF Inverses
  <2>3. CASE op = At("createInstance", <<"a">>, <<>>, "none")
    <3>1. inv.inverse = "deleteCreated"
      BY <2>3 DEF AssertInverts, At
    <3>2. inv = Undo("deleteCreated", <<"a">>, <<>>, "none")
      BY <2>2, <3>1 DEF Undo
    <3> QED BY <2>3, <3>2 DEF Fits, At
  <2>4. CASE op = At("setProperty", <<"a">>, <<>>, "x")
    <3>1. inv.inverse = "restoreProperty" /\ inv.property = "x"
      BY <2>4 DEF AssertInverts, At
    <3>2. inv = Undo("restoreProperty", <<"a">>, <<>>, "x")
      BY <2>2, <3>1 DEF Undo
    <3> QED BY <2>4, <3>2 DEF Fits, At
  <2> QED BY <2>1, <2>3, <2>4
<1>2. CASE c = "code"
  <2>1. op = At("writeScript", <<"a", "s">>, <<>>, "none")
    BY <1>2, SetIdsAre
  <2> QED BY <2>1 DEF Fits, AssertInverts, At
<1>3. CASE c = "gate"
  <2>1. \/ k = 1 /\ op = At("moveInstance", <<"a">>, <<"b">>, "none")
        \/ k = 2 /\ op = At("deleteInstance", <<"b", "c">>, <<>>, "none")
    <3>1. ReversibleSets[c] = <<At("moveInstance", <<"a">>, <<"b">>, "none"),
                                At("deleteInstance", <<"b", "c">>, <<>>, "none")>>
      BY <1>3, SetIdsAre
    <3>2. k \in 1..2
      BY <3>1
    <3>3. k = 1 \/ k = 2
      BY <3>2
    <3> QED BY <3>1, <3>3
  <2>2. inv \in {Undo("moveBack", <<"b">>, <<"a">>, "none"),
                 Undo("moveBack", <<"a">>, <<"b">>, "none"),
                 Undo("restoreSubtree", <<"b">>, <<>>, "none")}
    BY <1>3 DEF Inverses
  <2>3. CASE op = At("moveInstance", <<"a">>, <<"b">>, "none")
    <3>1. inv.inverse = "moveBack" /\ inv.path = <<"b">> /\ inv.from = <<"a">>
      BY <2>3 DEF AssertInverts, At
    <3>2. inv = Undo("moveBack", <<"b">>, <<"a">>, "none")
      <4>1. "a" # "b" /\ <<"a">> # <<"b">>
        OBVIOUS
      <4> QED BY <2>2, <3>1, <4>1 DEF Undo
    <3> QED BY <2>3, <3>2 DEF Fits, At
  <2>4. CASE op = At("deleteInstance", <<"b", "c">>, <<>>, "none")
    <3>1. inv.inverse = "restoreSubtree" /\ inv.path = Front(op.path)
      BY <2>4 DEF AssertInverts, At
    <3>2. inv = Undo("restoreSubtree", inv.path, <<>>, "none")
      BY <2>2, <3>1 DEF Undo
    <3> QED BY <2>4, <3>1, <3>2 DEF Fits, At
  <2> QED BY <2>1, <2>3, <2>4
<1> QED BY <1>1, <1>2, <1>3, SetIdsAre

(* The reversal of a vetted entry undoes the set's own operations, the     *)
(* last first.                                                             *)
LEMMA VettedReversal ==
  ASSUME NEW c \in SetIds, NEW e, Vetted(c, e)
  PROVE  LET at(k) == e.applied[RollbackSteps(e)[k].index].index IN
         /\ RollbackSteps(e) # <<>>
         /\ \A k \in DOMAIN RollbackSteps(e) :
               Fits(ReversibleSets[c][at(k)], RollbackSteps(e)[k].inverse)
         /\ \A k, m \in DOMAIN RollbackSteps(e) : k < m => at(k) > at(m)
<1> DEFINE n == Len(e.inverses)
           steps == RollbackSteps(e)
           at(k) == e.applied[steps[k].index].index
<1>1. /\ n = Len(e.applied) /\ n \in 1..2 /\ DOMAIN e.applied = 1..n /\ DOMAIN e.inverses = 1..n
      /\ e.inverses \in Seq(Inverses(c))
      /\ \A k \in 1..n : e.applied[k].index \in Nat
  BY UploadsAre DEF Vetted, Replayable
<1>2. /\ DOMAIN steps = 1..n
      /\ \A k \in 1..n : /\ steps[k].index = n - k + 1 /\ n - k + 1 \in 1..n
                          /\ steps[k].inverse = e.inverses[n - k + 1]
  <2>1. e \in Uploads(c)
    BY DEF Vetted
  <2>2. steps = [k \in 1..n |-> [index |-> n - k + 1, inverse |-> e.inverses[n - k + 1]]]
    BY <2>1, RollbackStepsAre
  <2>3. \A k \in 1..n : n - k + 1 \in 1..n
    BY <1>1
  <2> HIDE DEF steps, n
  <2> QED BY <2>2, <2>3
<1>3. steps # <<>>
  <2> HIDE DEF steps, n
  <2>0. n \in 1..2
    BY <1>1, Zenon
  <2>1. 1 \in 1..n
    BY <2>0
  <2>2. 1 \in DOMAIN steps
    BY <1>2, <2>1
  <2> QED BY <2>2
<1>4. ASSUME NEW k \in 1..n
      PROVE  Fits(ReversibleSets[c][at(k)], steps[k].inverse)
  <2> HIDE DEF n, steps
  <2>0. PICK i \in 1..n : i = n - k + 1
    BY <1>2
  <2>1. /\ e.applied[i].index \in DOMAIN ReversibleSets[c]
        /\ e.applied[i].operation = ReversibleSets[c][e.applied[i].index]
    BY <1>1 DEF Vetted, MatchesChangeSet
  <2>2. AssertInverts(e.applied[i].operation, e.inverses[i])
    BY <1>1 DEF Vetted, Replayable
  <2>3. e.inverses[i] \in Inverses(c)
    BY <1>1
  <2>4. steps[k].index = i /\ steps[k].inverse = e.inverses[i]
    BY <1>2, <2>0
  <2> QED BY <2>1, <2>2, <2>3, <2>4, AssertedFits
<1>5. ASSUME NEW k \in 1..n, NEW m \in 1..n, k < m
      PROVE  at(k) > at(m)
  <2>1. n = 2 /\ k = 1 /\ m = 2
    BY <1>1, <1>5
  <2>2. e.applied[1].index < e.applied[2].index
    <3>1. \A i \in 2..Len(e.applied) : e.applied[i - 1].index < e.applied[i].index
      BY DEF Vetted, Replayable
    <3>2. 2 \in 2..Len(e.applied) /\ 2 - 1 = 1
      BY <1>1, <2>1
    <3> QED BY <3>1, <3>2
  <2>3. at(1) = e.applied[2].index /\ at(2) = e.applied[1].index
    BY <1>2, <2>1
  <2> QED BY <1>1, <2>1, <2>2, <2>3
<1> QED BY <1>2, <1>3, <1>4, <1>5

LEMMA LedgerInvInit == RelayJournalInit => LedgerInv
<1> SUFFICES ASSUME RelayJournalInit PROVE LedgerInv
  OBVIOUS
<1>1. LedgerTypeOK
  BY DEF RelayJournalInit, LedgerTypeOK
<1>2. OneJournalASet /\ RecordsAreBacked
  BY DEF RelayJournalInit, OneJournalASet, RecordsAreBacked
<1>3. DispatchedFromRecord /\ ReportsAreOfReversals
  BY DEF RelayJournalInit, DispatchedFromRecord, ReportsAreOfReversals
<1> QED BY <1>1, <1>2, <1>3 DEF LedgerInv

(* Looking a journal up finds one of that id. *)
LEMMA RecordFound ==
  ASSUME NEW j, InLedger(j) # {}
  PROVE  RecordOf(j) \in DOMAIN ledger /\ ledger[RecordOf(j)].id = j
BY DEF InLedger, RecordOf

(* putJournal: what is in the ledger afterwards was there or is the new    *)
(* record, in the same order.                                              *)
LEMMA JournalPut ==
  ASSUME LedgerInv, NEW rec \in LedgerRecord, PutJournal(rec)
  PROVE  /\ ledger' \in Seq(LedgerRecord)
         /\ \E s \in {0, 1} : \A i \in DOMAIN ledger' :
               /\ i + s \in 1..(Len(ledger) + 1)
               /\ ledger'[i] = IF i + s \in DOMAIN ledger THEN ledger[i + s] ELSE rec
<1> DEFINE all == Append(ledger, rec)
<1>1. ledger \in Seq(LedgerRecord)
  BY DEF LedgerInv, LedgerTypeOK
<1>2. /\ all \in Seq(LedgerRecord) /\ Len(all) = Len(ledger) + 1
      /\ \A i \in 1..(Len(ledger) + 1) : all[i] = IF i \in DOMAIN ledger THEN ledger[i] ELSE rec
  BY <1>1
<1>3. ledger' = all \/ ledger' = Tail(all)
  BY DEF PutJournal
<1> HIDE DEF all
<1>4. CASE ledger' = all
  BY <1>1, <1>2, <1>4
<1>5. CASE ledger' = Tail(all)
  <2>1. /\ Tail(all) \in Seq(LedgerRecord) /\ Len(Tail(all)) = Len(ledger)
        /\ \A i \in 1..Len(ledger) : Tail(all)[i] = all[i + 1]
    BY <1>1, <1>2
  <2>2. \A i \in DOMAIN ledger' : /\ i + 1 \in 1..(Len(ledger) + 1)
                                  /\ ledger'[i] = all[i + 1]
    BY <1>1, <1>5, <2>1
  <2>3. \A i \in DOMAIN ledger' : ledger'[i] = IF i + 1 \in DOMAIN ledger THEN ledger[i + 1] ELSE rec
    BY <1>2, <2>2
  <2> QED BY <1>5, <2>1, <2>2, <2>3
<1> QED BY <1>3, <1>4, <1>5

LEMMA LedgerReportApply ==
  ASSUME LedgerInv, NEW c \in SetIds, NEW j \in {1, 2}, NEW v \in Int, ReportApply(c, j, v)
  PROVE  LedgerInv'
<1> DEFINE rec == [id |-> j, set |-> c, before |-> treeVersion, after |-> v,
                   requested |-> FALSE, rolledBack |-> FALSE,
                   entry |-> NotUploaded, reported |-> FALSE, result |-> <<>>]
<1>1. rec \in LedgerRecord
  BY DEF LedgerInv, LedgerTypeOK, LedgerRecord
<1>2. rec.set = c /\ rec.entry = NotUploaded /\ ~rec.requested /\ ~rec.rolledBack /\ ~rec.reported
  OBVIOUS
<1>3. PutJournal(rec)
  BY DEF ReportApply
<1> HIDE DEF rec
<1>4. ledger' \in Seq(LedgerRecord)
  BY <1>1, <1>3, JournalPut
<1>5. PICK s \in {0, 1} : \A i \in DOMAIN ledger' :
               /\ i + s \in 1..(Len(ledger) + 1)
               /\ ledger'[i] = IF i + s \in DOMAIN ledger THEN ledger[i + s] ELSE rec
  BY <1>1, <1>3, JournalPut
<1>6. /\ proposals \in [SetIds -> {"approved", "rejected", "settled", "gone"}]
      /\ proposals[c] = "approved" /\ proposals' = [proposals EXCEPT ![c] = "settled"]
      /\ UNCHANGED <<host, reversals, relayed, undone>> /\ treeVersion' = v
  BY DEF ReportApply, LedgerInv, LedgerTypeOK
<1>7. LedgerTypeOK'
  BY <1>4, <1>6 DEF LedgerInv, LedgerTypeOK
<1>8. /\ \A i \in DOMAIN ledger : ledger[i].set # c /\ ledger[i].set \in SetIds
      /\ \A d \in reversals : d.set # c /\ d.set \in SetIds
  <2>1. \A i \in DOMAIN ledger : ledger[i] \in LedgerRecord
    BY DEF LedgerInv, LedgerTypeOK
  <2> QED BY <1>6, <2>1 DEF LedgerInv, LedgerTypeOK, LedgerRecord, OneJournalASet, DispatchedFromRecord
<1>9. OneJournalASet'
  <2>1. \A i \in DOMAIN ledger' : proposals'[ledger'[i].set] \in {"settled", "gone"}
    BY <1>2, <1>5, <1>6, <1>8 DEF LedgerInv, OneJournalASet
  <2>2. ASSUME NEW i \in DOMAIN ledger', NEW k \in DOMAIN ledger', ledger'[i].set = ledger'[k].set
        PROVE  i = k
    <3>1. /\ i \in Nat /\ k \in Nat /\ Len(ledger) \in Nat
          /\ DOMAIN ledger = 1..Len(ledger)
      BY <1>4 DEF LedgerInv, LedgerTypeOK
    <3>2. i + s = k + s
      BY <1>2, <1>5, <1>8, <2>2, <3>1 DEF LedgerInv, OneJournalASet
    <3> QED BY <3>1, <3>2
  <2>3. \A i \in DOMAIN ledger' :
           ledger'[i].entry = NotUploaded \/ Vetted(ledger'[i].set, ledger'[i].entry)
    BY <1>2, <1>5 DEF LedgerInv, OneJournalASet
  <2> QED BY <2>1, <2>2, <2>3 DEF OneJournalASet
<1>10. DispatchedFromRecord'
  <2> SUFFICES ASSUME NEW d \in reversals
               PROVE  /\ proposals'[d.set] \in {"settled", "gone"}
                      /\ \E e \in Uploads(d.set) :
                            Vetted(d.set, e) /\ d.applied = e.applied /\ d.steps = RollbackSteps(e)
                      /\ \A i \in DOMAIN ledger' : ledger'[i].set = d.set =>
                            /\ ledger'[i].requested
                            /\ ledger'[i].entry # NotUploaded
                            /\ d.applied = ledger'[i].entry.applied
                            /\ d.steps = RollbackSteps(ledger'[i].entry)
    BY <1>6 DEF DispatchedFromRecord
  <2>1. proposals'[d.set] \in {"settled", "gone"}
    BY <1>6, <1>8 DEF LedgerInv, DispatchedFromRecord
  <2>2. \A i \in DOMAIN ledger' : ledger'[i].set = d.set =>
           i + s \in DOMAIN ledger /\ ledger'[i] = ledger[i + s]
    BY <1>2, <1>5, <1>8
  <2> QED BY <2>1, <2>2 DEF LedgerInv, DispatchedFromRecord
<1>11. ReportsAreOfReversals'
  BY <1>6 DEF LedgerInv, ReportsAreOfReversals, ReportIsOf
<1>12. RecordsAreBacked'
  <2>1. Backed(host, rec, undone[c])
    BY <1>2 DEF Backed
  <2> QED BY <1>2, <1>5, <1>6, <2>1 DEF LedgerInv, RecordsAreBacked
<1> QED BY <1>7, <1>9, <1>10, <1>11, <1>12 DEF LedgerInv

LEMMA LedgerProposalEvicted ==
  ASSUME LedgerInv, NEW c \in SetIds, ProposalEvicted(c)
  PROVE  LedgerInv'
<1>1. /\ proposals \in [SetIds -> {"approved", "rejected", "settled", "gone"}]
      /\ proposals' = [proposals EXCEPT ![c] = "gone"]
      /\ UNCHANGED <<host, ledger, reversals, relayed, undone, treeVersion>>
  BY DEF ProposalEvicted, LedgerInv, LedgerTypeOK
<1>2. \A x \in SetIds : proposals[x] \in {"settled", "gone"} => proposals'[x] \in {"settled", "gone"}
  BY <1>1
<1>3. \A i \in DOMAIN ledger : ledger[i].set \in SetIds
  <2>1. \A i \in DOMAIN ledger : ledger[i] \in LedgerRecord
    BY DEF LedgerInv, LedgerTypeOK
  <2> QED BY <2>1 DEF LedgerRecord
<1>4. LedgerTypeOK'
  BY <1>1 DEF LedgerInv, LedgerTypeOK
<1>5. OneJournalASet'
  BY <1>1, <1>2, <1>3 DEF LedgerInv, OneJournalASet
<1>6. DispatchedFromRecord'
  BY <1>1, <1>2 DEF LedgerInv, LedgerTypeOK, DispatchedFromRecord
<1>7. ReportsAreOfReversals' /\ RecordsAreBacked'
  BY <1>1 DEF LedgerInv, ReportsAreOfReversals, ReportIsOf, RecordsAreBacked
<1> QED BY <1>4, <1>5, <1>6, <1>7 DEF LedgerInv

(* One record of the ledger is replaced by another of the same set: what   *)
(* is left to show is about that record.                                   *)
LEMMA RecordReplaced ==
  ASSUME LedgerInv, NEW q \in DOMAIN ledger, NEW r \in LedgerRecord,
         ledger' = [ledger EXCEPT ![q] = r], UNCHANGED <<host, proposals, undone, relayed>>,
         r.set = ledger[q].set,
         r.entry = NotUploaded \/ Vetted(r.set, r.entry),
         Backed(host, r, undone[r.set])
  PROVE  /\ ledger' \in Seq(LedgerRecord)
         /\ DOMAIN ledger' = DOMAIN ledger /\ ledger'[q] = r
         /\ \A i \in DOMAIN ledger : i # q => ledger'[i] = ledger[i]
         /\ \A i \in DOMAIN ledger : ledger'[i].set = ledger[i].set
         /\ OneJournalASet' /\ RecordsAreBacked'
<1>1. ledger \in Seq(LedgerRecord)
  BY DEF LedgerInv, LedgerTypeOK
<1>2. /\ ledger' \in Seq(LedgerRecord) /\ DOMAIN ledger' = DOMAIN ledger /\ ledger'[q] = r
      /\ \A i \in DOMAIN ledger : i # q => ledger'[i] = ledger[i]
  BY <1>1
<1>3. \A i \in DOMAIN ledger : ledger'[i].set = ledger[i].set
  BY <1>2
<1>4. OneJournalASet'
  <2>1. \A i \in DOMAIN ledger' : proposals'[ledger'[i].set] \in {"settled", "gone"}
    BY <1>2, <1>3 DEF LedgerInv, OneJournalASet
  <2>2. \A i, k \in DOMAIN ledger' : ledger'[i].set = ledger'[k].set => i = k
    BY <1>2, <1>3 DEF LedgerInv, OneJournalASet
  <2>3. \A i \in DOMAIN ledger' :
           ledger'[i].entry = NotUploaded \/ Vetted(ledger'[i].set, ledger'[i].entry)
    BY <1>2 DEF LedgerInv, OneJournalASet
  <2> QED BY <2>1, <2>2, <2>3 DEF OneJournalASet
<1>5. RecordsAreBacked'
  BY <1>2 DEF LedgerInv, RecordsAreBacked
<1> QED BY <1>2, <1>3, <1>4, <1>5

LEMMA LedgerUploadEntry ==
  ASSUME LedgerInv, NEW j, NEW c \in SetIds, NEW before, NEW after, NEW entry \in Uploads(c),
         UploadEntry(j, c, before, after, entry)
  PROVE  LedgerInv'
<1> DEFINE q == RecordOf(j)
           r == [ledger[q] EXCEPT !.entry = entry]
<1>1. q \in DOMAIN ledger /\ ledger[q] \in LedgerRecord
  BY RecordFound DEF UploadEntry, LedgerInv, LedgerTypeOK
<1>2. /\ ledger[q].set = c /\ ledger[q].entry = NotUploaded
      /\ ledger' = [ledger EXCEPT ![q] = r]
      /\ Vetted(c, entry)
      /\ UNCHANGED <<host, proposals, treeVersion, reversals, relayed, undone>>
  BY DEF UploadEntry, Vetted
<1> HIDE DEF q
<1>3. /\ r \in LedgerRecord /\ r.set = c /\ r.entry = entry
      /\ r.requested = ledger[q].requested /\ r.reported = ledger[q].reported
      /\ r.rolledBack = ledger[q].rolledBack
  BY <1>1, <1>2 DEF LedgerRecord
<1>4. Backed(host, r, undone[c])
  <2>1. Backed(host, ledger[q], undone[ledger[q].set])
    BY <1>1 DEF LedgerInv, RecordsAreBacked
  <2>2. ~ledger[q].requested /\ ~ledger[q].reported /\ ~ledger[q].rolledBack
    BY <1>2, <2>1 DEF Backed
  <2> QED BY <1>3, <2>2 DEF Backed
<1> HIDE DEF r
<1>5. /\ ledger' \in Seq(LedgerRecord)
      /\ DOMAIN ledger' = DOMAIN ledger
      /\ \A i \in DOMAIN ledger : i # q => ledger'[i] = ledger[i]
      /\ \A i \in DOMAIN ledger : ledger'[i].set = ledger[i].set
      /\ OneJournalASet' /\ RecordsAreBacked'
  BY <1>1, <1>2, <1>3, <1>4, RecordReplaced
<1>6. LedgerTypeOK'
  BY <1>2, <1>5 DEF LedgerInv, LedgerTypeOK
<1>7. \A d \in reversals : d.set # c
  BY <1>1, <1>2 DEF LedgerInv, DispatchedFromRecord
<1>8. DispatchedFromRecord'
  <2>1. \A d \in reversals : \A i \in DOMAIN ledger' : ledger'[i].set = d.set =>
           i \in DOMAIN ledger /\ ledger'[i] = ledger[i]
    BY <1>2, <1>5, <1>7
  <2> QED BY <1>2, <2>1 DEF LedgerInv, DispatchedFromRecord
<1>9. ReportsAreOfReversals'
  BY <1>2 DEF LedgerInv, ReportsAreOfReversals, ReportIsOf
<1> QED BY <1>5, <1>6, <1>8, <1>9 DEF LedgerInv

LEMMA LedgerDispatch ==
  ASSUME LedgerInv, NEW j, NEW v \in Int, DispatchReversal(j, v)
  PROVE  LedgerInv'
<1> DEFINE q == RecordOf(j)
           old == ledger[q]
           r == [old EXCEPT !.requested = TRUE]
           new == [journal |-> j, set |-> old.set, expected |-> v, restores |-> old.before,
                   applied |-> old.entry.applied, steps |-> RollbackSteps(old.entry)]
<1>1. q \in DOMAIN ledger /\ old \in LedgerRecord
  BY RecordFound DEF DispatchReversal, LedgerInv, LedgerTypeOK
<1>2. /\ old.entry # NotUploaded /\ ~old.rolledBack
      /\ ledger' = [ledger EXCEPT ![q] = r]
      /\ reversals' = reversals \cup {new}
      /\ UNCHANGED <<host, proposals, treeVersion, relayed, undone>>
  BY DEF DispatchReversal
<1> HIDE DEF q
<1>3. /\ old.set \in SetIds /\ old.before \in Int
      /\ Vetted(old.set, old.entry) /\ proposals[old.set] \in {"settled", "gone"}
      /\ Backed(host, old, undone[old.set])
  BY <1>1, <1>2 DEF LedgerInv, OneJournalASet, RecordsAreBacked, LedgerRecord
<1> HIDE DEF old
<1>4. /\ r \in LedgerRecord /\ r.set = old.set /\ r.entry = old.entry /\ r.requested
      /\ r.reported = old.reported /\ r.rolledBack = old.rolledBack /\ r.result = old.result
  BY <1>1 DEF LedgerRecord
<1> HIDE DEF r
<1>5. Backed(host, r, undone[r.set])
  BY <1>2, <1>3, <1>4 DEF Backed, Reversible, StampCovers, ReportedOn
<1>6. /\ ledger' \in Seq(LedgerRecord)
      /\ DOMAIN ledger' = DOMAIN ledger /\ ledger'[q] = r
      /\ \A i \in DOMAIN ledger : i # q => ledger'[i] = ledger[i]
      /\ \A i \in DOMAIN ledger : ledger'[i].set = ledger[i].set
      /\ OneJournalASet' /\ RecordsAreBacked'
  BY <1>1, <1>2, <1>3, <1>4, <1>5, RecordReplaced DEF old
<1>7. /\ new.set = old.set /\ new.expected = v /\ new.restores = old.before
      /\ new.applied = old.entry.applied /\ new.steps = RollbackSteps(old.entry)
  OBVIOUS
<1> HIDE DEF new
<1>8. LedgerTypeOK'
  BY <1>2, <1>3, <1>6, <1>7 DEF LedgerInv, LedgerTypeOK
<1>9. ASSUME NEW d \in reversals'
      PROVE  /\ proposals'[d.set] \in {"settled", "gone"}
             /\ \E e \in Uploads(d.set) :
                   Vetted(d.set, e) /\ d.applied = e.applied /\ d.steps = RollbackSteps(e)
             /\ \A i \in DOMAIN ledger' : ledger'[i].set = d.set =>
                   /\ ledger'[i].requested
                   /\ ledger'[i].entry # NotUploaded
                   /\ d.applied = ledger'[i].entry.applied
                   /\ d.steps = RollbackSteps(ledger'[i].entry)
  <2>1. CASE d \in reversals
    <3>1. /\ proposals'[d.set] \in {"settled", "gone"}
          /\ \E e \in Uploads(d.set) :
                Vetted(d.set, e) /\ d.applied = e.applied /\ d.steps = RollbackSteps(e)
      BY <1>2, <2>1 DEF LedgerInv, DispatchedFromRecord
    <3>2. ASSUME NEW i \in DOMAIN ledger', ledger'[i].set = d.set
          PROVE  /\ ledger'[i].requested
                 /\ ledger'[i].entry # NotUploaded
                 /\ d.applied = ledger'[i].entry.applied
                 /\ d.steps = RollbackSteps(ledger'[i].entry)
      <4>1. ledger[i].set = d.set /\ i \in DOMAIN ledger
        BY <1>6, <3>2
      <4>2. /\ ledger[i].requested
            /\ ledger[i].entry # NotUploaded
            /\ d.applied = ledger[i].entry.applied
            /\ d.steps = RollbackSteps(ledger[i].entry)
        BY <2>1, <4>1 DEF LedgerInv, DispatchedFromRecord
      <4> QED BY <1>4, <1>6, <4>1, <4>2 DEF old
    <3> QED BY <3>1, <3>2
  <2>2. CASE d = new
    <3>1. old.entry \in Uploads(old.set)
      BY <1>3 DEF Vetted
    <3>2. ASSUME NEW i \in DOMAIN ledger', ledger'[i].set = d.set
          PROVE  i = q
      BY <1>1, <1>6, <1>7, <2>2, <3>2 DEF LedgerInv, OneJournalASet, old
    <3> QED BY <1>2, <1>3, <1>4, <1>6, <1>7, <2>2, <3>1, <3>2
  <2> QED BY <1>2, <2>1, <2>2
<1>10. DispatchedFromRecord'
  BY <1>9 DEF DispatchedFromRecord
<1>11. ReportsAreOfReversals'
  BY <1>2 DEF LedgerInv, ReportsAreOfReversals, ReportIsOf
<1> QED BY <1>6, <1>8, <1>10, <1>11 DEF LedgerInv

(* The steps of a reversal that was dispatched undo operations, one each,  *)
(* and among them all of its journal's.                                    *)
LEMMA ReversalCovers ==
  ASSUME NEW c \in SetIds, NEW e, Vetted(c, e), NEW d,
         d.applied = e.applied, d.steps = RollbackSteps(e)
  PROVE  /\ Len(d.steps) \in Nat /\ Len(d.steps) = Len(e.inverses) /\ DOMAIN d.steps = 1..Len(d.steps)
         /\ Len(e.applied) = Len(d.steps)
         /\ \A k \in DOMAIN d.steps : UndoneBy(d, k) = e.applied[Len(e.applied) - k + 1].index
         /\ \A k \in DOMAIN d.steps : UndoneBy(d, k) \in Nat /\ \E i \in DOMAIN e.applied : UndoneBy(d, k) = e.applied[i].index
         /\ \A i \in DOMAIN e.applied : \E k \in DOMAIN d.steps : UndoneBy(d, k) = e.applied[i].index
<1> DEFINE n == Len(e.inverses)
<1>1. e \in Uploads(c) /\ Len(e.applied) = n
  BY DEF Vetted, Replayable
<1>2. /\ n \in Nat /\ DOMAIN e.applied = 1..n
      /\ \A i \in 1..n : e.applied[i].index \in Nat
  BY <1>1, UploadsAre
<1>3. /\ d.steps = [k \in 1..n |-> [index |-> n - k + 1, inverse |-> e.inverses[n - k + 1]]]
      /\ d.steps \in Seq([index : 1..n, inverse : Inverses(c)])
      /\ Len(d.steps) = n
  BY <1>1, RollbackStepsAre
<1> HIDE DEF n
<1>4. \A k \in 1..n : n - k + 1 \in 1..n /\ n - (n - k + 1) + 1 = k
  BY <1>2
<1>5. DOMAIN d.steps = 1..n /\ \A k \in 1..n : d.steps[k].index = n - k + 1
  BY <1>3
<1>6. \A k \in 1..n : UndoneBy(d, k) = e.applied[n - k + 1].index
  BY <1>5 DEF UndoneBy
<1>7. ASSUME NEW i \in 1..n PROVE \E k \in 1..n : UndoneBy(d, k) = e.applied[i].index
  <2>1. n - i + 1 \in 1..n /\ UndoneBy(d, n - i + 1) = e.applied[i].index
    BY <1>4, <1>6
  <2> QED BY <2>1
<1>8. ASSUME NEW k \in 1..n
      PROVE  UndoneBy(d, k) \in Nat /\ \E i \in 1..n : UndoneBy(d, k) = e.applied[i].index
  BY <1>2, <1>4, <1>6
<1>9. n = Len(e.inverses) /\ Len(e.applied) = n /\ DOMAIN d.steps = 1..Len(d.steps)
  BY <1>1, <1>3, <1>5 DEF n
<1> QED BY <1>2, <1>3, <1>5, <1>6, <1>7, <1>8, <1>9

LEMMA LedgerReplay ==
  ASSUME LedgerInv, NEW d \in reversals, NEW outcomes \in Seq(BOOLEAN), ReplaySteps(d, outcomes)
  PROVE  LedgerInv'
<1> DEFINE worked == {k \in DOMAIN outcomes : outcomes[k]}
           fresh == {UndoneBy(d, k) : k \in worked}
           n == Len(d.steps)
           new == [journal |-> d.journal, set |-> d.set, outcomes |-> outcomes,
                   version |-> IF Cardinality(worked) = n THEN d.restores
                               ELSE IF worked = {} THEN d.expected ELSE d.expected + 1]
<1>1. /\ d.set \in SetIds /\ d.expected \in Int /\ d.restores \in Int
      /\ undone \in [SetIds -> SUBSET Nat]
  BY DEF LedgerInv, LedgerTypeOK
<1>2. /\ undone' = [undone EXCEPT ![d.set] = @ \cup fresh]
      /\ relayed' = relayed \cup {new}
      /\ Len(outcomes) <= n
      /\ UNCHANGED <<host, proposals, ledger, treeVersion, reversals>>
  BY DEF ReplaySteps, UndoneBy
<1>3. PICK e \in Uploads(d.set) :
           Vetted(d.set, e) /\ d.applied = e.applied /\ d.steps = RollbackSteps(e)
  BY DEF LedgerInv, DispatchedFromRecord
<1>4. n \in Nat /\ DOMAIN d.steps = 1..n /\ \A k \in 1..n : UndoneBy(d, k) \in Nat
  BY <1>1, <1>3, ReversalCovers
<1>5. Len(outcomes) \in Nat /\ Len(outcomes) =< n
  BY <1>2, <1>4
<1>6. fresh \subseteq Nat
  BY <1>4, <1>5
<1>7. new.set = d.set /\ new.outcomes = outcomes /\ new.version \in Int
  BY <1>1
<1> HIDE DEF new
<1>8. /\ undone' \in [SetIds -> SUBSET Nat] /\ fresh \subseteq undone'[d.set]
      /\ \A c \in SetIds : undone[c] \subseteq undone'[c]
      /\ \A c \in SetIds : c # d.set => undone'[c] = undone[c]
  BY <1>1, <1>2, <1>6
<1>9. LedgerTypeOK'
  BY <1>1, <1>2, <1>7, <1>8 DEF LedgerInv, LedgerTypeOK
<1>10. OneJournalASet' /\ DispatchedFromRecord'
  BY <1>2 DEF LedgerInv, OneJournalASet, DispatchedFromRecord
<1>11. ReportsAreOfReversals'
  <2>1. \A c \in SetIds : undone'[c] # {} => \E x \in reversals' : x.set = c
    BY <1>2, <1>8 DEF LedgerInv, ReportsAreOfReversals
  <2>2. ASSUME NEW a \in relayed PROVE \E x \in reversals' : ReportIsOf(a, x)'
    <3>1. PICK x \in reversals : ReportIsOf(a, x)
      BY DEF LedgerInv, ReportsAreOfReversals
    <3>2. x.set \in SetIds
      BY DEF LedgerInv, LedgerTypeOK
    <3>3. ReportIsOf(a, x)'
      BY <1>2, <1>8, <3>1, <3>2 DEF ReportIsOf
    <3> QED BY <1>2, <3>3
  <2>3. ReportIsOf(new, d)'
    <3>1. \A k \in DOMAIN outcomes : outcomes[k] => UndoneBy(d, k) \in fresh
      OBVIOUS
    <3> HIDE DEF fresh, n
    <3> QED BY <1>2, <1>5, <1>7, <1>8, <3>1 DEF ReportIsOf, n
  <2> QED BY <1>2, <2>1, <2>2, <2>3 DEF ReportsAreOfReversals
<1>12. RecordsAreBacked'
  <2> SUFFICES ASSUME NEW i \in DOMAIN ledger
               PROVE  Backed(host, ledger[i], undone'[ledger[i].set])
    BY <1>2 DEF RecordsAreBacked
  <2>1. ledger[i].set \in SetIds
    <3>1. ledger[i] \in LedgerRecord
      BY DEF LedgerInv, LedgerTypeOK
    <3> QED BY <3>1 DEF LedgerRecord
  <2>2. Backed(host, ledger[i], undone[ledger[i].set]) /\ undone[ledger[i].set] \subseteq undone'[ledger[i].set]
    BY <1>8, <2>1 DEF LedgerInv, RecordsAreBacked
  <2> QED BY <2>2 DEF Backed
<1> QED BY <1>9, <1>10, <1>11, <1>12 DEF LedgerInv

LEMMA LedgerRecordReversal ==
  ASSUME LedgerInv, NEW a \in relayed, RecordReversal(a)
  PROVE  LedgerInv'
<1> DEFINE q == RecordOf(a.journal)
           old == ledger[q]
           stamp == RollbackStatusOf(a.outcomes, CountGiven(old)) = "rolled_back"
           r == [old EXCEPT !.reported = TRUE, !.result = a.outcomes, !.rolledBack = stamp]
<1>1. q \in DOMAIN ledger /\ old \in LedgerRecord
  BY RecordFound DEF RecordReversal, LedgerInv, LedgerTypeOK
<1>2. /\ old.set = a.set /\ ~old.rolledBack /\ old.requested
      /\ ledger' = [ledger EXCEPT ![q] = r]
      /\ treeVersion' = a.version
      /\ UNCHANGED <<host, proposals, reversals, relayed, undone>>
  BY DEF RecordReversal
<1> HIDE DEF q
<1>3. /\ old.set \in SetIds /\ a.outcomes \in Seq(BOOLEAN) /\ a.version \in Int
      /\ host \in {"relay", "daemon"}
  BY <1>1 DEF LedgerInv, LedgerTypeOK, LedgerRecord
<1>4. PICK d \in reversals : ReportIsOf(a, d)
  BY DEF LedgerInv, ReportsAreOfReversals
<1>5. d.set = old.set
  BY <1>2, <1>4 DEF ReportIsOf
<1>6. /\ old.entry # NotUploaded /\ Vetted(old.set, old.entry)
      /\ d.applied = old.entry.applied /\ d.steps = RollbackSteps(old.entry)
  <2>1. /\ old.entry # NotUploaded
        /\ d.applied = old.entry.applied /\ d.steps = RollbackSteps(old.entry)
    BY <1>1, <1>5 DEF LedgerInv, DispatchedFromRecord
  <2> QED BY <1>1, <2>1 DEF LedgerInv, OneJournalASet
<1> HIDE DEF old
<1>7. /\ Len(d.steps) \in Nat /\ Len(d.steps) = Len(old.entry.inverses) /\ DOMAIN d.steps = 1..Len(d.steps)
      /\ \A k \in DOMAIN d.steps : UndoneBy(d, k) = old.entry.applied[Len(old.entry.applied) - k + 1].index
      /\ \A k \in DOMAIN d.steps : \E i \in DOMAIN old.entry.applied : UndoneBy(d, k) = old.entry.applied[i].index
      /\ \A i \in DOMAIN old.entry.applied : \E k \in DOMAIN d.steps : UndoneBy(d, k) = old.entry.applied[i].index
  <2> DEFINE e == old.entry
  <2>1. Vetted(old.set, e) /\ d.applied = e.applied /\ d.steps = RollbackSteps(e)
    BY <1>6
  <2> HIDE DEF e
  <2>2. /\ Len(d.steps) \in Nat /\ Len(d.steps) = Len(e.inverses) /\ DOMAIN d.steps = 1..Len(d.steps)
        /\ \A k \in DOMAIN d.steps : UndoneBy(d, k) = e.applied[Len(e.applied) - k + 1].index
        /\ \A k \in DOMAIN d.steps : UndoneBy(d, k) \in Nat /\ \E i \in DOMAIN e.applied : UndoneBy(d, k) = e.applied[i].index
        /\ \A i \in DOMAIN e.applied : \E k \in DOMAIN d.steps : UndoneBy(d, k) = e.applied[i].index
    BY <1>3, <2>1, ReversalCovers
  <2> QED BY <2>2 DEF e
<1>8. /\ stamp \in BOOLEAN
      /\ r \in LedgerRecord /\ r.set = old.set /\ r.entry = old.entry /\ r.requested
      /\ r.reported /\ r.rolledBack = stamp /\ r.result = a.outcomes
  <2>1. stamp \in BOOLEAN
    OBVIOUS
  <2> HIDE DEF stamp
  <2> QED BY <1>1, <1>2, <1>3, <2>1 DEF LedgerRecord
<1> HIDE DEF r
<1>9. DOMAIN a.outcomes \subseteq DOMAIN d.steps
  BY <1>3, <1>4, <1>7 DEF ReportIsOf
<1>10. ASSUME stamp PROVE r.result # <<>> /\ StampCovers(host, r) \subseteq undone[r.set]
  <2>1. /\ a.outcomes # <<>>
        /\ \A k \in DOMAIN a.outcomes : a.outcomes[k]
        /\ CountGiven(old) \in {-1, Len(a.outcomes)}
    BY <1>10 DEF RollbackStatusOf
  <2>2. \A k \in DOMAIN a.outcomes : UndoneBy(d, k) \in undone[d.set]
    BY <1>4, <2>1 DEF ReportIsOf
  <2>3. CASE host = "daemon"
    <3>1. Len(a.outcomes) = Len(d.steps)
      BY <1>7, <2>1, <2>3 DEF CountGiven
    <3>2. DOMAIN a.outcomes = DOMAIN d.steps
      BY <1>3, <1>7, <3>1
    <3>3. ASSUME NEW x \in Reversible(r) PROVE x \in undone[r.set]
      <4>1. PICK i \in DOMAIN old.entry.applied : x = old.entry.applied[i].index
        BY <1>8 DEF Reversible
      <4>2. PICK k \in DOMAIN d.steps : UndoneBy(d, k) = old.entry.applied[i].index
        BY <1>7
      <4> QED BY <1>5, <1>8, <2>2, <3>2, <4>1, <4>2
    <3> QED BY <1>8, <2>1, <2>3, <3>3 DEF StampCovers
  <2>4. CASE host # "daemon"
    <3>1. ASSUME NEW x \in ReportedOn(r) PROVE x \in undone[r.set]
      <4>1. PICK k \in DOMAIN a.outcomes :
                 x = old.entry.applied[Len(old.entry.applied) - k + 1].index
        BY <1>8 DEF ReportedOn
      <4>2. k \in DOMAIN d.steps
        BY <1>9
      <4>3. x = UndoneBy(d, k)
        BY <1>7, <4>1, <4>2
      <4> QED BY <1>5, <1>8, <2>2, <4>3
    <3> QED BY <1>8, <2>1, <2>4, <3>1 DEF StampCovers
  <2> QED BY <2>3, <2>4
<1>11. ASSUME NEW k \in DOMAIN a.outcomes, a.outcomes[k]
       PROVE  Reversible(r) \cap undone[r.set] # {}
  <2>1. UndoneBy(d, k) \in undone[d.set] /\ k \in DOMAIN d.steps
    BY <1>4, <1>9, <1>11 DEF ReportIsOf
  <2>2. UndoneBy(d, k) \in Reversible(r)
    BY <1>7, <1>8, <2>1 DEF Reversible
  <2> QED BY <1>5, <1>8, <2>1, <2>2
<1> HIDE DEF stamp
<1>12. Backed(host, r, undone[r.set])
  BY <1>6, <1>8, <1>10, <1>11 DEF Backed
<1>13. /\ ledger' \in Seq(LedgerRecord)
       /\ DOMAIN ledger' = DOMAIN ledger /\ ledger'[q] = r
       /\ \A i \in DOMAIN ledger : i # q => ledger'[i] = ledger[i]
       /\ OneJournalASet' /\ RecordsAreBacked'
  BY <1>1, <1>2, <1>6, <1>8, <1>12, RecordReplaced DEF old
<1>14. LedgerTypeOK'
  BY <1>2, <1>3, <1>13 DEF LedgerInv, LedgerTypeOK
<1>15. \A i \in DOMAIN ledger : /\ ledger'[i].set = ledger[i].set /\ ledger'[i].entry = ledger[i].entry
                                /\ ledger[i].requested => ledger'[i].requested
  BY <1>8, <1>13 DEF old
<1>16. DispatchedFromRecord'
  BY <1>2, <1>13, <1>15 DEF LedgerInv, DispatchedFromRecord
<1>17. ReportsAreOfReversals'
  BY <1>2 DEF LedgerInv, ReportsAreOfReversals, ReportIsOf
<1> QED BY <1>13, <1>14, <1>16, <1>17 DEF LedgerInv

LEMMA LedgerInvStep == LedgerInv /\ [RelayJournalNext]_relayJournalVars => LedgerInv'
<1> SUFFICES ASSUME LedgerInv, [RelayJournalNext]_relayJournalVars PROVE LedgerInv'
  OBVIOUS
<1>1. ASSUME NEW c \in SetIds, NEW j \in {1, 2}, NEW v \in 0..MaxTreeVersion, ReportApply(c, j, v)
      PROVE  LedgerInv'
  BY <1>1, LedgerReportApply
<1>2. ASSUME NEW c \in SetIds, ProposalEvicted(c) PROVE LedgerInv'
  BY <1>2, LedgerProposalEvicted
<1>3. ASSUME NEW r \in ToSet(ledger), NEW entry \in Uploads(r.set),
             UploadEntry(r.id, r.set, r.before, r.after, entry)
      PROVE  LedgerInv'
  <2>1. r \in LedgerRecord
    BY DEF ToSet, LedgerInv, LedgerTypeOK
  <2>2. r.set \in SetIds
    BY <2>1 DEF LedgerRecord
  <2> QED BY <1>3, <2>2, LedgerUploadEntry
<1>4. ASSUME NEW j \in {1, 2}, NEW v \in 0..MaxTreeVersion, DispatchReversal(j, v)
      PROVE  LedgerInv'
  BY <1>4, LedgerDispatch
<1>5. ASSUME NEW d \in reversals, NEW outcomes \in BoundedSeq(BOOLEAN, 2), ReplaySteps(d, outcomes)
      PROVE  LedgerInv'
  <2>1. outcomes \in Seq(BOOLEAN)
    <3> PICK m \in 0..2 : outcomes \in [1..m -> BOOLEAN]
      BY DEF BoundedSeq, SeqOf
    <3> QED OBVIOUS
  <2> QED BY <1>5, <2>1, LedgerReplay
<1>6. ASSUME NEW a \in relayed, RecordReversal(a) PROVE LedgerInv'
  BY <1>6, LedgerRecordReversal
<1>7. CASE UNCHANGED <<host, proposals, ledger, treeVersion, reversals, relayed, undone>>
  <2>1. LedgerTypeOK' /\ OneJournalASet' /\ RecordsAreBacked'
    BY <1>7 DEF LedgerInv, LedgerTypeOK, OneJournalASet, RecordsAreBacked
  <2>2. DispatchedFromRecord' /\ ReportsAreOfReversals'
    BY <1>7 DEF LedgerInv, DispatchedFromRecord, ReportsAreOfReversals, ReportIsOf
  <2> QED BY <2>1, <2>2 DEF LedgerInv
<1> QED BY <1>1, <1>2, <1>3, <1>4, <1>5, <1>6, <1>7
        DEF RelayJournalNext, relayJournalVars, AppendConsole

LEMMA LedgerIsHonest == LedgerInv /\ ConsoleIsTheLatest => ReversalsAreHonest
<1> SUFFICES ASSUME LedgerInv, ConsoleIsTheLatest PROVE ReversalsAreHonest
  OBVIOUS
<1>1. JournalTellsTheTruth
  <2>1. ASSUME NEW r \in ToSet(ledger)
        PROVE  /\ r.rolledBack => r.result # <<>> /\ StampCovers(host, r) \subseteq undone[r.set]
               /\ JournalStateOf(r) = "rollback_partial" => Reversible(r) \cap undone[r.set] # {}
               /\ JournalStateOf(r) = "applied" =>
                     undone[r.set] = {} /\ \A d \in reversals : d.set # r.set
    <3>1. PICK i \in DOMAIN ledger : r = ledger[i]
      BY DEF ToSet
    <3>2. Backed(host, r, undone[r.set]) /\ r \in LedgerRecord
      BY <3>1 DEF LedgerInv, RecordsAreBacked, LedgerTypeOK
    <3>3. r.set \in SetIds /\ r.result \in Seq(BOOLEAN)
      BY <3>2 DEF LedgerRecord
    <3>4. ASSUME JournalStateOf(r) = "rollback_partial" PROVE Reversible(r) \cap undone[r.set] # {}
      <4>1. r.reported /\ RollbackStatusOf(r.result, -1) # "failed"
        BY <3>4 DEF JournalStateOf
      <4>2. \E k \in DOMAIN r.result : r.result[k]
        BY <3>3, <4>1 DEF RollbackStatusOf
      <4> QED BY <3>2, <4>1, <4>2 DEF Backed
    <3>5. ASSUME JournalStateOf(r) = "applied"
          PROVE  undone[r.set] = {} /\ \A d \in reversals : d.set # r.set
      <4>1. ~r.requested
        BY <3>5 DEF JournalStateOf
      <4>2. \A d \in reversals : d.set # r.set
        BY <3>1, <4>1 DEF LedgerInv, DispatchedFromRecord
      <4> QED BY <3>3, <4>2 DEF LedgerInv, ReportsAreOfReversals
    <3> QED BY <3>2, <3>4, <3>5 DEF Backed
  <2> QED BY <2>1 DEF JournalTellsTheTruth, StampedWhenReversed
<1>2. DispatchedUndoesTheApproved
  <2> SUFFICES ASSUME NEW d \in reversals
               PROVE  /\ d.steps # <<>>
                      /\ \A k \in DOMAIN d.steps :
                            Fits(ReversibleSets[d.set][UndoneBy(d, k)], d.steps[k].inverse)
                      /\ \A k, m \in DOMAIN d.steps : k < m => UndoneBy(d, k) > UndoneBy(d, m)
    BY DEF DispatchedUndoesTheApproved, Fits, UndoneBy
  <2>1. d.set \in SetIds
    BY DEF LedgerInv, LedgerTypeOK
  <2>2. PICK e \in Uploads(d.set) :
             Vetted(d.set, e) /\ d.applied = e.applied /\ d.steps = RollbackSteps(e)
    BY DEF LedgerInv, DispatchedFromRecord
  <2> QED BY <2>1, <2>2, VettedReversal DEF UndoneBy
<1>3. \A k \in DOMAIN ConsoleTail : ConsoleTail[k] = said - Len(ConsoleTail) + k
  BY RelayJournalBounds, LastMessagesAre DEF ConsoleIsTheLatest, ConsoleTail
<1> QED BY <1>1, <1>2, <1>3 DEF ReversalsAreHonest

(* What a host says of a journal is true of the place, and what it         *)
(* dispatches undoes the approved operations, last first: whatever a       *)
(* consumer uploads, however late or often reports come and whichever      *)
(* journals were evicted, on the relay and on the daemon; the relay's      *)
(* `rolled back' speaks only of the steps it was told of                   *)
(* (recordJournalEntry, planRollback, recordRollbackResult).               *)
THEOREM RelayReversalsAreHonest == RelayJournalSpec => []ReversalsAreHonest
<1>1. RelayJournalInit => LedgerInv /\ ConsoleIsTheLatest
  BY LedgerInvInit, ConsoleInit
<1>2. LedgerInv /\ ConsoleIsTheLatest /\ [RelayJournalNext]_relayJournalVars
        => (LedgerInv /\ ConsoleIsTheLatest)'
  BY LedgerInvStep, ConsoleStep
<1>3. LedgerInv /\ ConsoleIsTheLatest => ReversalsAreHonest
  BY LedgerIsHonest
<1> QED BY <1>1, <1>2, <1>3, PTL DEF RelayJournalSpec
=============================================================================
