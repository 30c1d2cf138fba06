--------------------------- MODULE ComponentProofs ---------------------------
(***************************************************************************)
(* Proofs about the smaller components, each for every value of its        *)
(* constants.                                                              *)
(***************************************************************************)
EXTENDS Generation, Pairing, Discovery, OpenCloud, Credentials, A2A, RunEvents,
        StudioLink, Providers, FiniteSetTheorems, SequenceTheorems, WellFoundedInduction, TLAPS

-----------------------------------------------------------------------------
(* Pairing: single use, the attempt cap and the time to live of a code.    *)

(* The outstanding code is the newest, and what the service keeps of it    *)
(* agrees with its history.                                                *)
PendingIsNewest ==
    pending # None =>
        /\ pending.issue = issued
        /\ pending.attempts = guesses[issued]
        /\ pending.attempts < MaxAttempts
        /\ pending.left = Ttl - age[issued]
        /\ linked[issued] = 0
        /\ storing[issued] = 0

(* A code that was not issued yet has no history. *)
UnissuedIsFresh ==
    \A n \in Issues : n > issued => /\ age[n] = 0
                                    /\ guesses[n] = 0
                                    /\ storing[n] = 0
                                    /\ linked[n] = 0

Limited ==
    \A n \in Issues : linked[n] + storing[n] <= 1 /\ guesses[n] <= MaxAttempts

PairingInv == PairingTypeOK /\ PendingIsNewest /\ UnissuedIsFresh /\ Limited

(* None is not a pending code, so the two are told apart. *)
LEMMA PendingIsRecord ==
    ASSUME PairingTypeOK, pending # None
    PROVE  /\ pending \in Pending
           /\ pending.issue \in Issues
           /\ pending.code \in Codes
           /\ pending.left \in 0..Ttl
           /\ pending.attempts \in 0..MaxAttempts
BY DEF PairingTypeOK, Pending

(* Every initial state satisfies the invariant. *)
LEMMA PairingInvInit == PairingInit => PairingInv
BY PairingAssumption DEF PairingInit, PairingInv, PairingTypeOK, PendingIsNewest,
    UnissuedIsFresh, Limited, Issues

(* issue() starts a code without history. *)
LEMMA IssueStep ==
    ASSUME PairingInv, NEW code \in Codes, Issue(code)
    PROVE  PairingInv'
<1> USE PairingAssumption DEF PairingInv, Issues
<1>1. issued + 1 \in Issues /\ issued \in 0..MaxIssues
  BY DEF Issue, PairingTypeOK
<1>2. pending' \in Pending
  BY <1>1 DEF Issue, Pending
<1>3. PairingTypeOK'
  <2>1. issued' \in 0..MaxIssues
    BY <1>1 DEF Issue
  <2>2. UNCHANGED <<age, guesses, storing, linked>>
    BY DEF Issue
  <2> HIDE DEF Issues
  <2> QED BY <1>2, <2>1, <2>2 DEF PairingTypeOK
<1>4. pending' = [issue |-> issued + 1, code |-> code, left |-> Ttl, attempts |-> 0]
      /\ issued' = issued + 1
  BY DEF Issue
<1>5. age[issued + 1] = 0 /\ guesses[issued + 1] = 0 /\ storing[issued + 1] = 0
      /\ linked[issued + 1] = 0
  BY <1>1 DEF UnissuedIsFresh
<1>6. PendingIsNewest'
  BY <1>1, <1>4, <1>5 DEF Issue, PendingIsNewest
<1>7. UnissuedIsFresh' /\ Limited'
  BY <1>1, <1>4 DEF Issue, UnissuedIsFresh, Limited
<1> QED BY <1>3, <1>6, <1>7

(* status() and redeem() dropping an expired code, and revoke(). *)
LEMMA DropStep ==
    ASSUME PairingInv, pending' = None, UNCHANGED <<issued, age, guesses, storing, linked>>
    PROVE  PairingInv'
BY DEF PairingInv, PairingTypeOK, PendingIsNewest, UnissuedIsFresh, Limited

(* redeem() counts, then burns or revokes. *)
LEMMA RedeemStep ==
    ASSUME PairingInv, NEW guess \in Codes, Redeem(guess)
    PROVE  PairingInv'
<1> USE PairingAssumption DEF PairingInv, Issues
<1> DEFINE n == pending.issue
           tried == pending.attempts + 1
<1>1. pending # None
  BY DEF Redeem
<1>2. n \in Issues /\ n = issued /\ pending.attempts = guesses[n]
      /\ pending.attempts \in Nat /\ tried \in 1..MaxAttempts
      /\ linked[n] = 0 /\ storing[n] = 0 /\ pending.left = Ttl - age[n]
  BY <1>1, PendingIsRecord DEF PendingIsNewest
<1>3. /\ guesses' = [guesses EXCEPT ![n] = @ + 1]
      /\ pending' = IF guess = pending.code \/ RevokedBy(tried) THEN None
                    ELSE [pending EXCEPT !.attempts = tried]
      /\ storing' = IF guess = pending.code THEN [storing EXCEPT ![n] = @ + 1]
                    ELSE storing
      /\ UNCHANGED <<issued, age, linked>>
  BY DEF Redeem
<1>4. guesses' \in [Issues -> Nat] /\ storing' \in [Issues -> Nat]
  BY <1>2, <1>3 DEF PairingTypeOK
<1>5. pending' \in Pending \cup {None}
  BY <1>1, <1>2, <1>3, PendingIsRecord DEF Pending
<1>6. PairingTypeOK'
  BY <1>3, <1>4, <1>5 DEF PairingTypeOK
<1>7. guesses'[n] = tried
  BY <1>2, <1>3 DEF PairingTypeOK
<1>8. PendingIsNewest'
  <2>1. SUFFICES ASSUME pending' # None PROVE PendingIsNewest'
    BY DEF PendingIsNewest
  <2>2. pending' = [pending EXCEPT !.attempts = tried] /\ storing' = storing
        /\ ~(tried >= MaxAttempts)
    BY <1>3, <2>1 DEF RevokedBy
  <2>3. pending'.issue = n /\ pending'.attempts = tried /\ pending'.left = pending.left
    BY <1>1, <2>2, PendingIsRecord DEF Pending
  <2> QED BY <1>2, <1>3, <1>7, <2>2, <2>3 DEF PendingIsNewest
<1>9. UnissuedIsFresh'
  BY <1>2, <1>3 DEF UnissuedIsFresh, PairingTypeOK
<1>10. Limited'
  <2>1. SUFFICES ASSUME NEW m \in Issues
                 PROVE  linked'[m] + storing'[m] <= 1 /\ guesses'[m] <= MaxAttempts
    BY DEF Limited
  <2>2. CASE m = n
    <3>1. storing'[n] \in 0..1 /\ linked'[n] = 0
      BY <1>2, <1>3 DEF PairingTypeOK
    <3> QED BY <1>2, <1>7, <2>2, <3>1
  <2>3. CASE m # n
    BY <1>2, <1>3, <2>3 DEF PairingTypeOK, Limited
  <2> QED BY <2>2, <2>3
<1> QED BY <1>6, <1>8, <1>9, <1>10

(* #pair's store returns: the redemption in flight becomes a link, or is   *)
(* lost with its code.                                                     *)
LEMMA PairStep ==
    ASSUME PairingInv, NEW n \in Issues, Pair(n)
    PROVE  PairingInv'
<1> USE PairingAssumption DEF PairingInv, Issues
<1>0. storing[n] \in Nat /\ linked[n] \in Nat /\ issued \in Nat /\ n \in Nat
  BY DEF PairingTypeOK
<1>1. storing[n] = 1 /\ linked[n] = 0 /\ n <= issued
  <2>1. storing[n] > 0
    BY DEF Pair
  <2>2. linked[n] + storing[n] <= 1
    BY DEF Limited
  <2>3. n > issued => storing[n] = 0
    BY DEF UnissuedIsFresh
  <2> QED BY <1>0, <2>1, <2>2, <2>3
<1>2. /\ storing' = [storing EXCEPT ![n] = 0]
      /\ linked' = linked \/ linked' = [linked EXCEPT ![n] = 1]
      /\ UNCHANGED <<pending, issued, age, guesses>>
  BY <1>1 DEF Pair
<1> HIDE DEF Issues
<1>3. PairingTypeOK'
  <2>1. storing' \in [Issues -> Nat]
    BY <1>2 DEF PairingTypeOK
  <2>2. linked' \in [Issues -> Nat]
    BY <1>2 DEF PairingTypeOK
  <2> QED BY <1>2, <2>1, <2>2 DEF PairingTypeOK
<1>4. pending # None => n # issued
  BY <1>1 DEF PendingIsNewest
<1>5. PendingIsNewest'
  <2>1. pending # None => issued \in Issues
    BY PendingIsRecord DEF PendingIsNewest
  <2>2. pending # None => storing'[issued] = storing[issued] /\ linked'[issued] = linked[issued]
    BY <1>2, <1>4, <2>1 DEF PairingTypeOK
  <2> QED BY <1>2, <2>2 DEF PendingIsNewest
<1>6. UnissuedIsFresh'
  BY <1>1, <1>2 DEF UnissuedIsFresh, PairingTypeOK
<1>7. Limited'
  <2>1. SUFFICES ASSUME NEW m \in Issues
                 PROVE  linked'[m] + storing'[m] <= 1 /\ guesses'[m] <= MaxAttempts
    BY DEF Limited
  <2>2. storing'[m] = IF m = n THEN 0 ELSE storing[m]
    BY <1>2 DEF PairingTypeOK
  <2>3. linked'[m] = linked[m] \/ (m = n /\ linked'[m] = 1)
    <3>1. linked \in [Issues -> Nat]
      BY DEF PairingTypeOK
    <3>2. CASE linked' = [linked EXCEPT ![n] = 1]
      BY <3>1, <3>2
    <3>3. CASE linked' = linked
      BY <3>3
    <3> QED BY <1>2, <3>2, <3>3
  <2>4. linked[m] + storing[m] <= 1 /\ guesses'[m] <= MaxAttempts
    BY <1>2 DEF Limited
  <2> QED BY <1>1, <2>2, <2>3, <2>4
<1> QED BY <1>3, <1>5, <1>6, <1>7

(* Time passes for the outstanding code and for its history alike. *)
LEMMA TickStep ==
    ASSUME PairingInv, PairingTick
    PROVE  PairingInv'
<1> USE PairingAssumption DEF PairingInv, Issues
<1>1. age' \in [Issues -> 0..Ttl] /\ UNCHANGED <<issued, guesses, storing, linked>>
  BY SMTT(30) DEF PairingTick, PairingTypeOK
<1>2. UnissuedIsFresh' /\ Limited'
  BY <1>1 DEF PairingTick, UnissuedIsFresh, Limited, PairingTypeOK
<1>3. CASE pending = None
  BY <1>1, <1>2, <1>3 DEF PairingTick, PairingTypeOK, PendingIsNewest
<1>4. CASE pending # None
  <2>1. issued \in Issues /\ pending \in Pending /\ pending.left \in 0..Ttl
        /\ pending.left = Ttl - age[issued] /\ age[issued] \in 0..Ttl
    BY <1>4, PendingIsRecord DEF PendingIsNewest, PairingTypeOK
  <2>2. age'[issued] = IF age[issued] < Ttl THEN age[issued] + 1 ELSE age[issued]
    BY <2>1 DEF PairingTick
  <2>3. pending' = IF pending.left > 0 THEN [pending EXCEPT !.left = @ - 1] ELSE pending
    BY <1>4 DEF PairingTick
  <2>4. pending' \in Pending /\ pending'.issue = pending.issue
        /\ pending'.attempts = pending.attempts
        /\ pending'.left = Ttl - age'[issued]
    BY <2>1, <2>2, <2>3 DEF Pending
  <2>5. PairingTypeOK'
    BY <1>1, <2>4 DEF PairingTypeOK
  <2>6. PendingIsNewest'
    BY <1>1, <1>4, <2>4 DEF PendingIsNewest
  <2> QED BY <1>2, <2>5, <2>6
<1> QED BY <1>3, <1>4

(* Every step preserves the invariant. *)
LEMMA PairingInvNext == PairingInv /\ [PairingNext]_pairingVars => PairingInv'
<1> SUFFICES ASSUME PairingInv, [PairingNext]_pairingVars PROVE PairingInv'
  OBVIOUS
<1>1. ASSUME NEW code \in Codes, Issue(code) PROVE PairingInv'
  BY <1>1, IssueStep
<1>2. CASE PairingStatus \/ RedeemExpired \/ Revoke
  BY <1>2, DropStep DEF PairingStatus, RedeemExpired, Revoke
<1>3. ASSUME NEW guess \in Codes, Redeem(guess) PROVE PairingInv'
  BY <1>3, RedeemStep
<1>4. ASSUME NEW n \in Issues, Pair(n) PROVE PairingInv'
  BY <1>4, PairStep
<1>5. CASE PairingTick
  BY <1>5, TickStep
<1>6. CASE UNCHANGED pairingVars
  BY <1>6 DEF pairingVars, PairingInv, PairingTypeOK, PendingIsNewest, UnissuedIsFresh, Limited
<1> QED BY <1>1, <1>2, <1>3, <1>4, <1>5, <1>6 DEF PairingNext

(* The invariant holds in every reachable state. *)
LEMMA PairingInvariant == PairingSpec => []PairingInv
BY PairingInvInit, PairingInvNext, PTL DEF PairingSpec

(* The invariant bounds the outstanding code as CodeIsLimited says. *)
LEMMA InvLimits == PairingInv => CodeIsLimited
<1> SUFFICES ASSUME PairingInv PROVE CodeIsLimited
  OBVIOUS
<1> USE PairingAssumption DEF PairingInv, Issues
<1>1. ASSUME pending # None
      PROVE  AttemptsRemaining > 0 /\ linked[pending.issue] + storing[pending.issue] = 0
  BY <1>1, PendingIsRecord DEF PendingIsNewest, AttemptsRemaining
<1> QED BY <1>1 DEF CodeIsLimited, Limited

(* However requests interleave, a pairing code becomes one link at most,   *)
(* is guessed at MaxAttempts times at most, and is offered only while an   *)
(* attempt is left (redeem, status, #pair).                                *)
THEOREM PairingCodeIsLimited == PairingSpec => []CodeIsLimited
BY PairingInvariant, InvLimits, PTL

(* A redemption takes the outstanding code, which is the newest and not    *)
(* yet as old as its time to live.                                         *)
LEMMA RedemptionIsLive ==
    ASSUME PairingInv, PairingNext, NEW m \in Issues, storing'[m] > storing[m]
    PROVE  m = issued /\ age[m] < Ttl
<1> USE PairingAssumption DEF PairingInv, Issues
<1>1. ASSUME NEW n \in Issues, Pair(n) PROVE FALSE
  BY <1>1 DEF Pair, PairingTypeOK
<1>2. ASSUME storing' = storing PROVE FALSE
  BY <1>2 DEF PairingTypeOK
<1>3. PICK guess \in Codes : Redeem(guess)
  BY <1>1, <1>2 DEF PairingNext, Issue, PairingStatus, RedeemExpired, Revoke, PairingTick
<1>4. pending # None /\ pending.left # 0
  BY <1>3 DEF Redeem, Expired
<1>5. m = pending.issue
  BY <1>2, <1>3, <1>4, PendingIsRecord DEF Redeem, PairingTypeOK
<1>6. issued = pending.issue /\ pending.left = Ttl - age[m] /\ pending.left \in 0..Ttl
      /\ age[m] \in 0..Ttl
  BY <1>4, <1>5, PendingIsRecord DEF PendingIsNewest, PairingTypeOK
<1> QED BY <1>4, <1>5, <1>6

(* Neither a replaced code nor an expired one is ever accepted (issue,     *)
(* redeem).                                                                *)
THEOREM PairingOnlyTheLiveCode == PairingSpec => OnlyTheLiveCodePairs
<1>1. PairingInv /\ [PairingNext]_pairingVars =>
        [\A n \in Issues : storing'[n] > storing[n] => n = issued /\ age[n] < Ttl]_pairingVars
  BY RedemptionIsLive
<1> QED BY <1>1, PairingInvariant, PTL DEF PairingSpec, OnlyTheLiveCodePairs

-----------------------------------------------------------------------------
(* Discovery: between its own refresh and its offer a run's history grows  *)
(* with whatever list another run's refresh puts in place.                 *)

Confirmed ==
    /\ runAt \in [NewRuns -> {"idle", "asking", "offering", "routing", "refused"}]
    /\ candidates = [r \in NewRuns |-> candidates[r]]
    /\ \A r \in NewRuns : runAt[r] = "offering" => configured \subseteq backed[r]
    /\ CandidatesWereConfirmed

(* Every step of a refresh, a probe or a run keeps the list confirmed.      *)
LEMMA ConfirmedStep ==
    ASSUME Confirmed, [DiscoveryNext]_discoveryVars
    PROVE  Confirmed'
<1> USE DEF Confirmed, CandidatesWereConfirmed
<1>1. ASSUME UNCHANGED <<runAt, candidates, configured, backed>> PROVE Confirmed'
  BY <1>1
<1>2. CASE UNCHANGED discoveryVars
  BY <1>1, <1>2 DEF discoveryVars
<1>3. ASSUME NEW p \in Runtimes \cup Keyed, Changes(p) PROVE Confirmed'
  BY <1>1, <1>3 DEF Changes
<1>4. CASE ProbeEnds \/ TtlPasses
  BY <1>1, <1>4 DEF ProbeEnds, TtlPasses
<1>5. ASSUME NEW r \in NewRuns,
             \/ ProbeStarts(r) \/ LocalAnswers(r)
             \/ \E p \in Keyed : KeyedAnswers(r, p)
             \/ \E p \in Runtimes \cup Keyed : Route(r, p)
      PROVE  Confirmed'
  BY <1>1, <1>5 DEF ProbeStarts, LocalAnswers, KeyedAnswers, Route
<1>6. ASSUME NEW r \in NewRuns, RunStarts(r) PROVE Confirmed'
  BY <1>6 DEF RunStarts
<1>7. ASSUME NEW r \in NewRuns, Refresh(r) PROVE Confirmed'
  BY <1>7 DEF Refresh, Refreshed
<1>8. ASSUME NEW r \in NewRuns, Offer(r) PROVE Confirmed'
  BY <1>8 DEF Offer
<1> QED BY <1>2, <1>3, <1>4, <1>5, <1>6, <1>7, <1>8 DEF DiscoveryNext

(* However many runs refresh the list of providers at once, a run offers   *)
(* only those that its own refresh or a later one confirmed.               *)
THEOREM DiscoveryCandidatesWereConfirmed == DiscoverySpec => []CandidatesWereConfirmed
<1>1. DiscoveryInit => Confirmed
  BY DEF DiscoveryInit, Confirmed, CandidatesWereConfirmed
<1>2. Confirmed /\ [DiscoveryNext]_discoveryVars => Confirmed'
  BY ConfirmedStep
<1>3. Confirmed => CandidatesWereConfirmed
  BY DEF Confirmed
<1> QED BY <1>1, <1>2, <1>3, PTL DEF DiscoverySpec

-----------------------------------------------------------------------------
(* Open Cloud: a request that writes is on the wire once, and what it did  *)
(* is done before any answer of success.                                   *)

CloudShape ==
    /\ spec \in [CloudCalls -> Requests \cup {NoSpec}]
    /\ attempt \in [CloudCalls -> Nat] /\ effects \in [CloudCalls -> Nat]
    /\ wire \in [CloudCalls -> [status : Nat, body : {"idle", "sent", "done", "over", "whole", "cut", "error"}]]
    /\ settled = [c \in CloudCalls |-> settled[c]]

WrittenOnce(c) ==
    /\ spec[c] = NoSpec => attempt[c] = 0 /\ effects[c] = 0 /\ wire[c] = Response(0, "idle")
    /\ spec[c] # NoSpec => attempt[c] \in 1 .. RetryAttempts
    /\ ~spec[c].writes => effects[c] = 0
    /\ effects[c] <= 1
    /\ OnWire(c, "sent") /\ spec[c].writes => effects[c] = 0
    /\ OnWire(c, "done") /\ spec[c].writes => effects[c] = 1
    /\ wire[c].status = 200 /\ spec[c].writes => effects[c] = 1
    /\ wire[c].status # 0 => spec[c] # NoSpec
    /\ settled[c] = "ok" => spec[c] # NoSpec
    /\ settled[c] = "ok" /\ spec[c].writes => effects[c] = 1

CloudInv == CloudShape /\ \A c \in CloudCalls : WrittenOnce(c)

(* No request that writes may be sent again.                               *)
LEMMA WritesAreNotIdempotent ==
    \A q \in Requests \cup {NoSpec} :
        /\ q.writes \in BOOLEAN
        /\ q.writes => ~q.idempotent
        /\ q \in Requests => q # NoSpec
<1> USE DEF Requests, GetEntry, GetEntryVersion, ListDataStores, ListEntries, ListEntryVersions,
            SetEntry, DeleteEntry, IncrementEntry, PublishPlaceVersion, PublishMessage
<1>1. \A n, r : /\ Request(n, TRUE, FALSE, r).writes \in BOOLEAN
                /\ Request(n, FALSE, TRUE, r).writes \in BOOLEAN
  BY DEF Request
<1>2. \A q \in Requests : q.writes \in BOOLEAN
  BY <1>1
<1>3. \A q \in Requests : q.writes => ~q.idempotent
  BY DEF Request
<1>4. \A q \in Requests : q.name # "none"
  BY DEF Request
<1>5. NoSpec.writes \in BOOLEAN /\ ~NoSpec.writes /\ NoSpec.name = "none"
  BY DEF NoSpec, Request
<1> HIDE DEF Requests
<1> QED BY <1>2, <1>3, <1>4, <1>5

(* A step of one call keeps the shapes and leaves the others alone.        *)
LEMMA CloudFrame ==
    ASSUME CloudInv, NEW c \in CloudCalls, CloudShape', WrittenOnce(c)',
           \A d \in CloudCalls : d # c =>
              /\ spec'[d] = spec[d] /\ attempt'[d] = attempt[d] /\ wire'[d] = wire[d]
              /\ settled'[d] = settled[d] /\ effects'[d] = effects[d]
    PROVE  CloudInv'
<1>1. ASSUME NEW d \in CloudCalls, d # c PROVE WrittenOnce(d)'
  BY <1>1 DEF CloudInv, WrittenOnce, OnWire, Response
<1> QED BY <1>1 DEF CloudInv

(* Every step of a call, of the network and of the retries.                 *)
LEMMA CloudStep ==
    ASSUME CloudInv, [OpenCloudNext]_cloudVars
    PROVE  CloudInv'
<1> USE OpenCloudAssumption
<1>1. CASE UNCHANGED cloudVars
  BY <1>1 DEF cloudVars, CloudInv, CloudShape, WrittenOnce, OnWire, Response
<1>2. ASSUME NEW c \in CloudCalls, NEW request \in Requests, CallCloud(c, request) PROVE CloudInv'
  <2>1. CloudShape'
    BY <1>2 DEF CallCloud, Sends, CloudInv, CloudShape, Response
  <2>2. request # NoSpec
    BY WritesAreNotIdempotent
  <2>3. WrittenOnce(c)'
    BY <1>2, <2>2 DEF CallCloud, Sends, CloudInv, CloudShape, WrittenOnce, OnWire, Response
  <2> QED BY <1>2, <2>1, <2>3, CloudFrame DEF CallCloud, Sends, CloudInv, CloudShape
<1>3. ASSUME NEW c \in CloudCalls, ServiceActs(c) PROVE CloudInv'
  <2>1. CloudShape'
    BY <1>3 DEF ServiceActs, CloudInv, CloudShape, Response
  <2>a. spec[c] \in Requests \cup {NoSpec} /\ Response(0, "sent") # Response(0, "idle")
    BY DEF CloudInv, CloudShape, Response
  <2>2. spec[c] # NoSpec
    BY <1>3, <2>a DEF ServiceActs, CloudInv, WrittenOnce, OnWire
  <2>b. spec[c].writes \in BOOLEAN
    BY <2>a, WritesAreNotIdempotent, Zenon
  <2>3. WrittenOnce(c)'
    BY <1>3, <2>2, <2>b DEF ServiceActs, CloudInv, CloudShape, WrittenOnce, OnWire, Response
  <2> QED BY <1>3, <2>1, <2>3, CloudFrame DEF ServiceActs, CloudInv, CloudShape
<1>4. ASSUME NEW c \in CloudCalls, NEW response, ServiceAnswers(c, response),
             response \in {Response(200, "whole"), Response(200, "cut"), Response(404, "error"),
                           Response(429, "error"), Response(502, "error")}
      PROVE  CloudInv'
  <2>1. CloudShape'
    BY <1>4 DEF ServiceAnswers, CloudInv, CloudShape, Response
  <2>2. spec[c] # NoSpec
    BY <1>4 DEF ServiceAnswers, CloudInv, CloudShape, WrittenOnce, OnWire, Response
  <2>3. response.status = 200 => OnWire(c, "done")
    BY <1>4 DEF ServiceAnswers, OnWire
  <2>4. response.status \in Nat \ {0} /\ response # Response(0, "sent") /\ response # Response(0, "done")
    BY <1>4 DEF Response
  <2>5. WrittenOnce(c)'
    BY <1>4, <2>2, <2>3, <2>4 DEF ServiceAnswers, CloudInv, CloudShape, WrittenOnce, OnWire
  <2> QED BY <1>4, <2>1, <2>5, CloudFrame DEF ServiceAnswers, CloudInv, CloudShape
<1>5. ASSUME NEW c \in CloudCalls, TransportFails(c) PROVE CloudInv'
  <2>1. CloudShape'
    BY <1>5 DEF TransportFails, CloudInv, CloudShape, Response
  <2>2. WrittenOnce(c)'
    BY <1>5 DEF TransportFails, CloudInv, CloudShape, WrittenOnce, OnWire, Response
  <2> QED BY <1>5, <2>1, <2>2, CloudFrame DEF TransportFails, CloudInv, CloudShape
<1>6. ASSUME NEW c \in CloudCalls, Retry(c) PROVE CloudInv'
  <2>1. CloudShape'
    BY <1>6 DEF Retry, Sends, CloudInv, CloudShape, Response
  <2>a. spec[c] \in Requests \cup {NoSpec} /\ spec[c].idempotent /\ wire[c].status # 0
    BY <1>6 DEF Retry, MayRetry, CloudInv, CloudShape
  <2>b. ~spec[c].writes
    BY <2>a, WritesAreNotIdempotent, Zenon
  <2>2. spec[c] # NoSpec /\ ~spec[c].writes
    BY <2>a, <2>b DEF CloudInv, WrittenOnce
  <2>3. WrittenOnce(c)'
    BY <1>6, <2>2 DEF Retry, MayRetry, Sends, CloudInv, CloudShape, WrittenOnce, OnWire, Response
  <2> QED BY <1>6, <2>1, <2>3, CloudFrame DEF Retry, Sends, CloudInv, CloudShape
<1>7. ASSUME NEW c \in CloudCalls, Refused(c) \/ ReadAnswer(c) PROVE CloudInv'
  <2>1. CloudShape'
    BY <1>7 DEF Refused, ReadAnswer, CloudInv, CloudShape, Response
  <2>2. spec[c] # NoSpec
    BY <1>7 DEF Refused, ReadAnswer, CloudInv, CloudShape, WrittenOnce
  <2>3. WrittenOnce(c)'
    BY <1>7, <2>2 DEF Refused, ReadAnswer, CloudInv, CloudShape, WrittenOnce, OnWire, Response
  <2> QED BY <1>7, <2>1, <2>3, CloudFrame DEF Refused, ReadAnswer, CloudInv, CloudShape
<1> QED BY <1>1, <1>2, <1>3, <1>4, <1>5, <1>6, <1>7 DEF OpenCloudNext

(* However many calls there are and whatever retries are allowed, a call   *)
(* writes at most once, and has written when it reports success.           *)
THEOREM CloudWritesHappenOnce == OpenCloudSpec => []WritesHappenOnce
<1>1. OpenCloudInit => CloudInv
  <2> SUFFICES ASSUME OpenCloudInit PROVE CloudInv
    OBVIOUS
  <2>1. ~NoSpec.writes
    BY DEF NoSpec, Request
  <2> QED BY <2>1 DEF OpenCloudInit, CloudInv, CloudShape, WrittenOnce, OnWire, Response
<1>2. CloudInv /\ [OpenCloudNext]_cloudVars => CloudInv'
  BY CloudStep
<1>3. CloudInv => WritesHappenOnce
  BY DEF CloudInv, WrittenOnce, WritesHappenOnce
<1> QED BY <1>1, <1>2, <1>3, PTL DEF OpenCloudSpec

-----------------------------------------------------------------------------
(* Credentials: tabs that take turns.  What a tab in the middle of an      *)
(* operation relies on, as long as no two were in the vault at once.       *)

InVault == [kind : {"seal", "unseal"}, at : {"find key", "store key", "use key"},
            value : Nat, key : Nat]
Forgetting == [kind |-> "forget", at |-> "forget key"]
VaultOperations == InVault \cup {Forgetting, AtRest}

VaultShape ==
    /\ sealer \in Nat /\ keysMade \in Nat /\ overlapped \in BOOLEAN
    /\ doing \in [Tabs -> VaultOperations]
    /\ sealed # NoRecord => sealed.under # 0
    /\ \A t \in Tabs : doing[t] \in InVault /\ doing[t].at # "find key" => doing[t].key # 0

OneAtATime == \A t, u \in Tabs : doing[t] # AtRest /\ doing[u] # AtRest => t = u

Promised(t) ==
    /\ doing[t] \in InVault /\ doing[t].at = "store key" => sealer = 0
    /\ doing[t] \in InVault /\ doing[t].at = "use key" => doing[t].key = sealer
    /\ doing[t] = Forgetting => sealed = NoRecord

Turns == ~overlapped => OneAtATime /\ SealedCanBeOpened /\ \A t \in Tabs : Promised(t)

VaultInv == VaultShape /\ Turns

(* The three kinds of operation are told apart. *)
LEMMA OperationKinds ==
    /\ AtRest \notin InVault /\ Forgetting \notin InVault /\ Forgetting # AtRest
    /\ \A o \in InVault : o # AtRest /\ o # Forgetting
    /\ Forgetting.at = "forget key"
    /\ \A o \in VaultOperations : o # AtRest /\ o.at # "forget key" => o \in InVault
    /\ \A o \in InVault : o.at # "forget key"
<1>1. AtRest.kind = "idle" /\ Forgetting.kind = "forget" /\ Forgetting.at = "forget key"
  BY DEF AtRest, Forgetting
<1>2. \A o \in InVault : o.kind \in {"seal", "unseal"} /\ o.at # "forget key"
  BY DEF InVault
<1> HIDE DEF AtRest, Forgetting, InVault
<1> QED BY <1>1, <1>2 DEF VaultOperations

(* One tab's operation becomes another, the record and the key with it. *)
LEMMA VaultMove ==
    ASSUME VaultInv, NEW t \in Tabs, NEW o \in VaultOperations, doing' = [doing EXCEPT ![t] = o],
           sealer' \in Nat, keysMade' \in Nat, overlapped' \in BOOLEAN,
           sealed' # NoRecord => sealed'.under # 0,
           o \in InVault /\ o.at # "find key" => o.key # 0,
           ~overlapped' =>
              /\ ~overlapped
              /\ o # AtRest => \A u \in Tabs : u # t => doing[u] = AtRest
              /\ SealedCanBeOpened'
              /\ o \in InVault /\ o.at = "store key" => sealer' = 0
              /\ o \in InVault /\ o.at = "use key" => o.key = sealer'
              /\ o = Forgetting => sealed' = NoRecord
              /\ \A u \in Tabs : u # t /\ doing[u] # AtRest =>
                    UNCHANGED sealer /\ (UNCHANGED sealed \/ sealed' = NoRecord)
    PROVE  VaultInv'
<1> HIDE DEF VaultOperations, InVault, AtRest, Forgetting, NoRecord
<1>1. /\ doing \in [Tabs -> VaultOperations]
      /\ doing'[t] = o /\ \A u \in Tabs : u # t => doing'[u] = doing[u]
      /\ doing' \in [Tabs -> VaultOperations]
  BY DEF VaultInv, VaultShape
<1>2. VaultShape'
  BY <1>1 DEF VaultInv, VaultShape
<1>3. Turns'
  <2> SUFFICES ASSUME ~overlapped' PROVE (OneAtATime /\ SealedCanBeOpened /\ \A u \in Tabs : Promised(u))'
    BY DEF Turns
  <2>1. OneAtATime'
    BY <1>1 DEF VaultInv, Turns, OneAtATime
  <2>2. Promised(t)'
    BY <1>1 DEF Promised
  <2>3. ASSUME NEW u \in Tabs, u # t PROVE Promised(u)'
    <3>1. CASE doing[u] = AtRest
      BY <1>1, <2>3, <3>1, OperationKinds DEF Promised
    <3>2. CASE doing[u] # AtRest
      BY <1>1, <2>3, <3>2 DEF Promised, VaultInv, Turns
    <3> QED BY <3>1, <3>2
  <2> QED BY <2>1, <2>2, <2>3
<1> QED BY <1>2, <1>3 DEF VaultInv

(* A tab enters the vault: alone, or the tabs no longer take turns.         *)
LEMMA EntersKeeps ==
    ASSUME VaultInv, NEW t \in Tabs, NEW o \in InVault, o.at = "find key", Enters(t, o)
    PROVE  VaultInv'
<1> HIDE DEF VaultOperations, InVault, AtRest, Forgetting, NoRecord
<1>1. /\ doing' = [doing EXCEPT ![t] = o] /\ UNCHANGED <<sealer, sealed, keysMade>>
      /\ overlapped' = (overlapped \/ \E u \in Tabs : doing[u] # AtRest)
  BY DEF Enters
<1>2. o \in VaultOperations /\ o # Forgetting /\ o # AtRest
  BY OperationKinds DEF VaultOperations
<1>3. VaultShape /\ Turns
  BY DEF VaultInv
<1>4. overlapped' \in BOOLEAN /\ (~overlapped' => ~overlapped /\ \A u \in Tabs : doing[u] = AtRest)
  BY <1>1, <1>3 DEF VaultShape
<1>5. ~overlapped' => SealedCanBeOpened'
  BY <1>1, <1>3, <1>4 DEF Turns, SealedCanBeOpened
<1> QED BY <1>1, <1>2, <1>3, <1>4, <1>5, VaultMove DEF VaultShape

(* A step that does not touch the vault.                                    *)
LEMMA VaultStays ==
    ASSUME VaultInv, UNCHANGED <<sealer, sealed, doing, keysMade, overlapped>>
    PROVE  VaultInv'
  BY DEF VaultInv, VaultShape, Turns, OneAtATime, SealedCanBeOpened, Promised

(* In the vault, with another tab there only if two were there at once. *)
LEMMA AloneInVault ==
    ASSUME VaultInv, NEW t \in Tabs, doing[t] # AtRest, doing[t].at # "forget key"
    PROVE  /\ doing[t] \in InVault /\ doing[t].key \in Nat /\ sealer \in Nat /\ keysMade \in Nat
           /\ overlapped \in BOOLEAN
           /\ ~overlapped => /\ \A u \in Tabs : u # t => doing[u] = AtRest
                             /\ SealedCanBeOpened /\ Promised(t)
<1>1. doing[t] \in InVault
  BY OperationKinds DEF VaultInv, VaultShape
<1>2. doing[t].key \in Nat
  BY <1>1 DEF InVault
<1> QED BY <1>1, <1>2 DEF VaultInv, VaultShape, Turns, OneAtATime

(* The sealing key is found, or a new one is made.                          *)
LEMMA FindKeyKeeps ==
    ASSUME VaultInv, NEW t \in Tabs, FindKey(t)
    PROVE  VaultInv'
<1>1. /\ doing[t] # AtRest /\ doing[t].at = "find key" /\ UNCHANGED <<sealer, sealed, overlapped>>
      /\ \/ /\ sealer # 0 /\ UNCHANGED keysMade
            /\ doing' = [doing EXCEPT ![t].key = sealer, ![t].at = "use key"]
         \/ /\ sealer = 0 /\ keysMade' = keysMade + 1
            /\ doing' = [doing EXCEPT ![t].key = keysMade', ![t].at = "store key"]
  BY DEF FindKey
<1>2. /\ doing[t] \in InVault /\ doing[t].key \in Nat /\ sealer \in Nat /\ keysMade \in Nat
      /\ overlapped \in BOOLEAN
      /\ ~overlapped => /\ \A u \in Tabs : u # t => doing[u] = AtRest
                        /\ SealedCanBeOpened /\ Promised(t)
  BY <1>1, AloneInVault
<1>3. PICK key \in Nat, at \in {"store key", "use key"} :
          /\ key # 0 /\ doing' = [doing EXCEPT ![t].key = key, ![t].at = at]
          /\ at = "use key" => key = sealer
          /\ at = "store key" => sealer = 0
          /\ keysMade' \in Nat
  <2>1. CASE sealer # 0 /\ UNCHANGED keysMade /\ doing' = [doing EXCEPT ![t].key = sealer, ![t].at = "use key"]
    BY <1>2, <2>1
  <2>2. CASE sealer = 0 /\ keysMade' = keysMade + 1
             /\ doing' = [doing EXCEPT ![t].key = keysMade', ![t].at = "store key"]
    <3>1. keysMade' \in Nat /\ keysMade' # 0
      <4>1. keysMade \in Nat /\ keysMade' = keysMade + 1
        BY <1>2, <2>2
      <4> QED BY <4>1
    <3> QED BY <2>2, <3>1
  <2> QED BY <1>1, <2>1, <2>2
<1>4. PICK p \in InVault : p = doing[t]
  BY <1>2
<1> DEFINE o == [p EXCEPT !.key = key, !.at = at]
<1>5. o \in InVault
  BY DEF InVault
<1>6. o.key = key /\ o.at = at
  BY DEF InVault
<1>7. doing' = [doing EXCEPT ![t] = o]
  BY <1>3, <1>4
<1> HIDE DEF o, InVault, AtRest, Forgetting, NoRecord
<1>8. o \in VaultOperations /\ o # Forgetting
  BY <1>5, OperationKinds DEF VaultOperations
<1>9. sealed' # NoRecord => sealed'.under # 0
  BY <1>1 DEF VaultInv, VaultShape
<1>10. ~overlapped' => SealedCanBeOpened'
  BY <1>1, <1>2 DEF SealedCanBeOpened
<1> QED BY <1>1, <1>2, <1>3, <1>5, <1>6, <1>7, <1>8, <1>9, <1>10, VaultMove

(* The key that was made is stored, over the one that may be there.         *)
LEMMA StoreKeyKeeps ==
    ASSUME VaultInv, NEW t \in Tabs, StoreKey(t)
    PROVE  VaultInv'
<1>1. /\ doing[t] # AtRest /\ doing[t].at = "store key" /\ sealer' = doing[t].key
      /\ doing' = [doing EXCEPT ![t].at = "use key"]
      /\ UNCHANGED <<sealed, keysMade, overlapped>>
  BY DEF StoreKey
<1>2. /\ doing[t] \in InVault /\ doing[t].key \in Nat /\ sealer \in Nat /\ keysMade \in Nat
      /\ overlapped \in BOOLEAN
      /\ ~overlapped => /\ \A u \in Tabs : u # t => doing[u] = AtRest
                        /\ SealedCanBeOpened /\ Promised(t)
  BY <1>1, AloneInVault
<1>4. PICK p \in InVault : p = doing[t]
  BY <1>2
<1> DEFINE o == [p EXCEPT !.at = "use key"]
<1>5. o \in InVault
  BY DEF InVault
<1>6. o.key = p.key /\ o.at = "use key"
  BY DEF InVault
<1>7. doing' = [doing EXCEPT ![t] = o]
  BY <1>1, <1>4
<1> HIDE DEF o, InVault, AtRest, Forgetting, NoRecord
<1>8. o \in VaultOperations /\ o # Forgetting
  BY <1>5, OperationKinds DEF VaultOperations
<1>9. (sealed' # NoRecord => sealed'.under # 0) /\ p.key # 0
  BY <1>1, <1>2, <1>4 DEF VaultInv, VaultShape
<1>10. ~overlapped' => SealedCanBeOpened'
  BY <1>1, <1>2, <1>9 DEF SealedCanBeOpened, Promised
<1> QED BY <1>1, <1>2, <1>4, <1>5, <1>6, <1>7, <1>8, <1>9, <1>10, VaultMove

(* The value is sealed or opened with the key in hand.                      *)
LEMMA UseKeyKeeps ==
    ASSUME VaultInv, NEW t \in Tabs, UseKey(t)
    PROVE  VaultInv'
<1>1. /\ doing[t] # AtRest /\ doing[t].at = "use key"
      /\ sealed' = IF doing[t].kind = "seal"
                   THEN [value |-> doing[t].value, under |-> doing[t].key] ELSE sealed
      /\ doing' = [doing EXCEPT ![t] = AtRest]
      /\ UNCHANGED <<sealer, keysMade, overlapped>>
  BY DEF UseKey
<1>2. /\ doing[t] \in InVault /\ doing[t].key \in Nat /\ sealer \in Nat /\ keysMade \in Nat
      /\ overlapped \in BOOLEAN
      /\ ~overlapped => /\ \A u \in Tabs : u # t => doing[u] = AtRest
                        /\ SealedCanBeOpened /\ Promised(t)
  BY <1>1, AloneInVault
<1>3. sealed' = sealed \/ sealed'.under = doing[t].key
  BY <1>1
<1>4. doing[t].key # 0 /\ (sealed # NoRecord => sealed.under # 0)
  BY <1>1, <1>2 DEF VaultInv, VaultShape
<1>5. AtRest \in VaultOperations /\ AtRest \notin InVault /\ AtRest # Forgetting
  BY OperationKinds DEF VaultOperations
<1> HIDE DEF InVault, AtRest, Forgetting, NoRecord
<1>6. sealed' # NoRecord => sealed'.under # 0
  BY <1>3, <1>4
<1>7. ~overlapped' => SealedCanBeOpened'
  BY <1>1, <1>2, <1>3 DEF SealedCanBeOpened, Promised
<1> QED BY <1>1, <1>2, <1>5, <1>6, <1>7, VaultMove

(* Forgetting a value or the key, and a tab that breaks off.                *)
LEMMA RestKeeps ==
    ASSUME VaultInv, NEW t \in Tabs, Forget(t) \/ ForgetKey(t) \/ TabBreaks(t)
    PROVE  VaultInv'
<1> HIDE DEF InVault, AtRest, Forgetting, NoRecord
<1>1. AtRest \in VaultOperations /\ AtRest \notin InVault /\ AtRest # Forgetting
  BY OperationKinds DEF VaultOperations
<1>2. /\ sealer \in Nat /\ keysMade \in Nat /\ overlapped \in BOOLEAN
      /\ doing \in [Tabs -> VaultOperations]
      /\ sealed # NoRecord => sealed.under # 0
      /\ ~overlapped => OneAtATime /\ SealedCanBeOpened /\ Promised(t)
  BY DEF VaultInv, VaultShape, Turns
<1>3. CASE Forget(t)
  <2>1. /\ doing' = [doing EXCEPT ![t] = AtRest] /\ sealed' = NoRecord
        /\ UNCHANGED <<sealer, keysMade, overlapped>>
    BY <1>2, <1>3 DEF Forget
  <2>2. SealedCanBeOpened'
    BY <2>1 DEF SealedCanBeOpened
  <2> QED BY <1>1, <1>2, <2>1, <2>2, VaultMove
<1>4. CASE TabBreaks(t)
  <2>1. /\ doing' = [doing EXCEPT ![t] = AtRest]
        /\ UNCHANGED <<sealer, sealed, keysMade, overlapped>>
    BY <1>4 DEF TabBreaks
  <2>2. ~overlapped' => SealedCanBeOpened'
    BY <1>2, <2>1 DEF SealedCanBeOpened
  <2> QED BY <1>1, <1>2, <2>1, <2>2, VaultMove
<1>5. CASE ForgetKey(t)
  <2>1. /\ doing[t] # AtRest /\ doing[t].at = "forget key" /\ sealer' = 0
        /\ doing' = [doing EXCEPT ![t] = AtRest]
        /\ UNCHANGED <<sealed, keysMade, overlapped>>
    BY <1>5 DEF ForgetKey
  <2>2. doing[t] = Forgetting
    BY <1>2, <2>1, OperationKinds DEF VaultOperations
  <2>3. ~overlapped => sealed = NoRecord /\ \A u \in Tabs : u # t => doing[u] = AtRest
    BY <1>2, <2>1, <2>2 DEF Promised, OneAtATime
  <2>4. ~overlapped' => SealedCanBeOpened'
    BY <2>1, <2>3 DEF SealedCanBeOpened
  <2> QED BY <1>1, <1>2, <2>1, <2>3, <2>4, VaultMove
<1> QED BY <1>3, <1>4, <1>5

(* The value is gone at once, the key in a later step.                      *)
LEMMA ForgetEverythingKeeps ==
    ASSUME VaultInv, NEW t \in Tabs, ForgetEverything(t)
    PROVE  VaultInv'
<1>1. /\ sealed' = NoRecord /\ UNCHANGED <<sealer, keysMade>>
      /\ doing' = [doing EXCEPT ![t] = Forgetting]
      /\ overlapped' = (overlapped \/ \E u \in Tabs : doing[u] # AtRest)
  BY DEF ForgetEverything, Forgetting
<1> HIDE DEF InVault, AtRest, Forgetting, NoRecord
<1>2. Forgetting \in VaultOperations /\ Forgetting \notin InVault
  BY OperationKinds DEF VaultOperations
<1>3. sealer \in Nat /\ keysMade \in Nat /\ overlapped \in BOOLEAN
  BY DEF VaultInv, VaultShape
<1>4. overlapped' \in BOOLEAN /\ (~overlapped' => ~overlapped /\ \A u \in Tabs : doing[u] = AtRest)
  BY <1>1, <1>3
<1>5. SealedCanBeOpened'
  BY <1>1 DEF SealedCanBeOpened
<1> QED BY <1>1, <1>2, <1>3, <1>4, <1>5, VaultMove

-----------------------------------------------------------------------------
(* Flows: the verifier in a tab's storage is one the tab made. *)

FlowsInv ==
    /\ startedIn \in [1..MaxFlows -> Tabs \cup {0}]
    /\ flow \in [Tabs -> 0..MaxFlows]
    /\ \E k \in 0..MaxFlows : \A v \in 1..MaxFlows : startedIn[v] # 0 <=> v <= k
    /\ \A t \in Tabs : flow[t] # 0 => startedIn[flow[t]] = t
    /\ redeemed \subseteq (1..MaxFlows) \X Tabs
    /\ OwnFlowsOnly

(* A sign-in starts with a verifier that no tab has had.                    *)
LEMMA StartAuthorizationKeeps ==
    ASSUME FlowsInv, NEW t \in Tabs, StartAuthorization(t)
    PROVE  FlowsInv'
<1> USE CredentialsAssumption
<1> DEFINE started == {v \in 1..MaxFlows : startedIn[v] # 0}
<1>1. PICK k \in 0..MaxFlows : \A v \in 1..MaxFlows : startedIn[v] # 0 <=> v <= k
  BY DEF FlowsInv
<1>2. started = 1..k /\ k \in Nat
  BY <1>1
<1>3. Cardinality(started) = k
  <2>1. Cardinality(1..k) = IF 1 > k THEN 0 ELSE k - 1 + 1
    BY <1>2, FS_Interval
  <2>2. (IF 1 > k THEN 0 ELSE k - 1 + 1) = k
    BY <1>2
  <2> QED BY <1>2, <2>1, <2>2
<1>4. /\ k < MaxFlows
      /\ flow' = [flow EXCEPT ![t] = k + 1]
      /\ startedIn' = [startedIn EXCEPT ![k + 1] = t]
      /\ UNCHANGED redeemed
  BY <1>3 DEF StartAuthorization
<1>5. k + 1 \in 1..MaxFlows /\ startedIn[k + 1] = 0
  BY <1>1, <1>4
<1>6. startedIn' \in [1..MaxFlows -> Tabs \cup {0}] /\ flow' \in [Tabs -> 0..MaxFlows]
  BY <1>4, <1>5 DEF FlowsInv
<1>7. \A v \in 1..MaxFlows : startedIn'[v] # 0 <=> v <= k + 1
  BY <1>1, <1>4, <1>5 DEF FlowsInv
<1>8. \A v \in 1..MaxFlows : startedIn[v] # 0 => startedIn'[v] = startedIn[v]
  BY <1>4, <1>5 DEF FlowsInv
<1>9. \A u \in Tabs : flow'[u] # 0 => startedIn'[flow'[u]] = u
  <2> TAKE u \in Tabs
  <2>1. CASE u = t
    BY <1>4, <1>5, <2>1 DEF FlowsInv
  <2>2. CASE u # t
    <3>1. flow'[u] = flow[u] /\ (flow[u] # 0 => flow[u] \in 1..MaxFlows /\ startedIn[flow[u]] = u)
      BY <1>4, <2>2 DEF FlowsInv
    <3> QED BY <1>8, <3>1
  <2> QED BY <2>1, <2>2
<1>10. OwnFlowsOnly'
  <2> SUFFICES ASSUME NEW pair \in redeemed PROVE startedIn'[pair[1]] = pair[2]
    BY <1>4 DEF OwnFlowsOnly
  <2>1. startedIn[pair[1]] = pair[2] /\ pair[1] \in 1..MaxFlows /\ pair[2] \in Tabs
    BY DEF FlowsInv, OwnFlowsOnly
  <2> QED BY <1>8, <2>1
<1> QED BY <1>4, <1>5, <1>6, <1>7, <1>9, <1>10 DEF FlowsInv

(* A callback takes the verifier out of the storage of its own tab.         *)
LEMMA CallbackKeeps ==
    ASSUME FlowsInv, NEW t \in Tabs, NEW v \in 1..MaxFlows,
           CallbackAccepted(t, v) \/ \E echoed \in BOOLEAN : CallbackRefused(t, v, echoed)
    PROVE  FlowsInv'
<1> USE CredentialsAssumption
<1>1. /\ UNCHANGED startedIn /\ flow' = [flow EXCEPT ![t] = 0]
      /\ redeemed' = redeemed \/ (redeemed' = redeemed \cup {<<v, t>>} /\ flow[t] = v)
  BY DEF CallbackAccepted, CallbackRefused, Exchange, ReadFlow
<1>2. flow' \in [Tabs -> 0..MaxFlows] /\ \A u \in Tabs : flow'[u] # 0 => startedIn[flow'[u]] = u
  BY <1>1 DEF FlowsInv
<1>3. OwnFlowsOnly'
  BY <1>1 DEF FlowsInv, OwnFlowsOnly
<1>4. redeemed' \subseteq (1..MaxFlows) \X Tabs
  <2>1. redeemed \subseteq (1..MaxFlows) \X Tabs /\ <<v, t>> \in (1..MaxFlows) \X Tabs
    BY DEF FlowsInv
  <2> QED BY <1>1, <2>1
<1>5. /\ startedIn' \in [1..MaxFlows -> Tabs \cup {0}]
      /\ \E k \in 0..MaxFlows : \A w \in 1..MaxFlows : startedIn'[w] # 0 <=> w <= k
  <2>1. startedIn' = startedIn
    BY <1>1
  <2> QED BY <2>1 DEF FlowsInv
<1>6. \A u \in Tabs : flow'[u] # 0 => startedIn'[flow'[u]] = u
  BY <1>1, <1>2
<1> QED BY <1>2, <1>3, <1>4, <1>5, <1>6 DEF FlowsInv

-----------------------------------------------------------------------------
SecretsInv ==
    /\ environment \subseteq Variables /\ keychain \in Keychains
    /\ portHolds \in BOOLEAN /\ SignedInHolds

(* A key that was set by hand comes before one that was found.              *)
LEMMA ExplicitAlwaysWins == SecretsInv => ExplicitWins
  BY DEF SecretsInv, Variables, Keychains, ExplicitWins, Found, Listed, FromEnvironment, FromKeychain

(* Every step of the daemon's sign-in and of its configuration.             *)
LEMMA SecretsKeep ==
    ASSUME SecretsInv,
           \/ \E vs \in SUBSET Variables, k \in Keychains : Configure(vs, k)
           \/ \E callback \in {"loopback", "elsewhere"} : BeginAuthorization(callback)
           \/ \E reply \in {"key", "none"}, stores \in BOOLEAN : CompleteAuthorization(reply, stores)
           \/ DaemonClock
    PROVE  SecretsInv'
  BY DEF SecretsInv, SignedInHolds, Configure, BeginAuthorization, CompleteAuthorization, DaemonClock

CredentialsInv == VaultInv /\ FlowsInv /\ SecretsInv

(* Every step of the tabs and of the daemon.                                *)
LEMMA CredentialsStep ==
    ASSUME CredentialsInv, [CredentialsNext]_credentialVars
    PROVE  CredentialsInv'
<1> USE CredentialsAssumption
<1>1. ASSUME UNCHANGED <<flow, startedIn, redeemed>> PROVE FlowsInv'
  BY <1>1 DEF CredentialsInv, FlowsInv, OwnFlowsOnly
<1>2. ASSUME UNCHANGED daemonSecretVars PROVE SecretsInv'
  BY <1>2 DEF CredentialsInv, SecretsInv, SignedInHolds, daemonSecretVars
<1>3. CASE UNCHANGED credentialVars
  BY <1>1, <1>2, <1>3, VaultStays DEF credentialVars, webVars, CredentialsInv
<1>4. CASE VaultStep /\ UNCHANGED daemonSecretVars
  <2>1. PICK t \in Tabs :
          \/ Seal(t, Pasted) \/ Unseal(t) \/ FindKey(t) \/ StoreKey(t) \/ UseKey(t)
          \/ Forget(t) \/ ForgetEverything(t) \/ ForgetKey(t) \/ TabBreaks(t)
    BY <1>4 DEF VaultStep
  <2>2. CASE Seal(t, Pasted) \/ Unseal(t)
    <3>1. PICK kind \in {"seal", "unseal"} :
            Enters(t, [kind |-> kind, at |-> "find key", value |-> Pasted, key |-> 0])
      BY <2>2 DEF Seal, Unseal
    <3>2. PICK o \in InVault : o = [kind |-> kind, at |-> "find key", value |-> Pasted, key |-> 0]
      BY DEF InVault, Pasted
    <3>3. o.at = "find key" /\ Enters(t, o)
      BY <3>1, <3>2
    <3> QED BY <3>3, <1>1, <1>2, <1>4, EntersKeeps DEF CredentialsInv, VaultStep
  <2>3. CASE FindKey(t) \/ StoreKey(t) \/ UseKey(t) \/ Forget(t) \/ ForgetEverything(t)
             \/ ForgetKey(t) \/ TabBreaks(t)
    BY <2>3, <1>1, <1>2, <1>4, FindKeyKeeps, StoreKeyKeeps, UseKeyKeeps, RestKeeps,
       ForgetEverythingKeeps DEF CredentialsInv, VaultStep
  <2> QED BY <2>1, <2>2, <2>3
<1>5. CASE SignInStep /\ UNCHANGED daemonSecretVars
  BY <1>1, <1>2, <1>5, VaultStays, StartAuthorizationKeeps DEF SignInStep, ProviderIssues, CredentialsInv
<1>6. ASSUME NEW t \in Tabs, NEW v \in 1..MaxFlows, UNCHANGED daemonSecretVars,
             CallbackAccepted(t, v) \/ \E echoed \in BOOLEAN : CallbackRefused(t, v, echoed)
      PROVE  CredentialsInv'
  <2>1. VaultInv'
    <3>1. CASE CallbackAccepted(t, v)
      <4>1. PICK o \in InVault : o = [kind |-> "seal", at |-> "find key", value |-> v, key |-> 0]
        <5>1. v \in Nat
          BY CredentialsAssumption
        <5> QED BY <5>1 DEF InVault
      <4>2. o.at = "find key" /\ Enters(t, o)
        BY <3>1, <4>1 DEF CallbackAccepted, Seal
      <4> QED BY <4>2, EntersKeeps DEF CredentialsInv
    <3>2. CASE \E echoed \in BOOLEAN : CallbackRefused(t, v, echoed)
      BY <3>2, VaultStays DEF CallbackRefused, CredentialsInv
    <3> QED BY <1>6, <3>1, <3>2
  <2> QED BY <1>2, <1>6, <2>1, CallbackKeeps DEF CredentialsInv
<1>7. ASSUME UNCHANGED webVars,
             \/ \E vs \in SUBSET Variables, k \in Keychains : Configure(vs, k)
             \/ \E callback \in {"loopback", "elsewhere"} : BeginAuthorization(callback)
             \/ \E reply \in {"key", "none"}, stores \in BOOLEAN : CompleteAuthorization(reply, stores)
             \/ DaemonClock
      PROVE  CredentialsInv'
  BY <1>1, <1>7, VaultStays, SecretsKeep DEF CredentialsInv, webVars
<1> QED BY <1>3, <1>4, <1>5, <1>6, <1>7 DEF CredentialsNext

(* However many tabs share a vault, sign in and are closed: tabs that take *)
(* turns lose no credential, a code is exchanged in the tab that asked for *)
(* it, what the operator exported is found, and "signed in" is said only   *)
(* of a key that is held.                                                  *)
THEOREM CredentialsStaySafe == CredentialsSpec => []CredentialsAreSafe
<1>1. CredentialsInit => CredentialsInv
  <2> SUFFICES ASSUME CredentialsInit PROVE CredentialsInv
    OBVIOUS
  <2> USE CredentialsAssumption DEF CredentialsInit
  <2>1. VaultInv
    <3>1. \A t \in Tabs : doing[t] = AtRest
      OBVIOUS
    <3>2. VaultShape
      BY <3>1, OperationKinds DEF VaultShape, VaultOperations
    <3>3. Turns
      BY <3>1, OperationKinds DEF Turns, OneAtATime, SealedCanBeOpened, Promised
    <3> QED BY <3>2, <3>3 DEF VaultInv
  <2>2. FlowsInv
    <3>1. 0 \in 0..MaxFlows /\ \A v \in 1..MaxFlows : startedIn[v] # 0 <=> v <= 0
      OBVIOUS
    <3> QED BY <3>1 DEF FlowsInv, OwnFlowsOnly
  <2>3. SecretsInv
    BY DEF SecretsInv, Variables, Keychains, SignedInHolds
  <2> QED BY <2>1, <2>2, <2>3 DEF CredentialsInv
<1>2. CredentialsInv /\ [CredentialsNext]_credentialVars => CredentialsInv'
  BY CredentialsStep
<1>3. CredentialsInv => CredentialsAreSafe
  BY ExplicitAlwaysWins DEF CredentialsInv, VaultInv, Turns, FlowsInv, SecretsInv,
     CredentialsAreSafe, TurnsLoseNothing
<1> QED BY <1>1, <1>2, <1>3, PTL DEF CredentialsSpec

-----------------------------------------------------------------------------
(* A set of naturals that is not empty has a least element.                *)
LEMMA LeastNatural ==
    ASSUME NEW T \in SUBSET Nat, T # {}
    PROVE  \E x \in T : \A y \in T : x <= y
<1> DEFINE R == OpToRel(<, Nat)
<1>1. IsWellFoundedOn(R, Nat)
  BY NatLessThanWellFounded
<1>2. R = {ss \in Nat \X Nat : ss[1] < ss[2]}
  BY DEF OpToRel
<1> HIDE DEF R
<1>3. PICK x \in T : \A y \in T : ~(<<y, x>> \in R)
  BY <1>1, WFMin
<1>4. ASSUME NEW y \in T PROVE x <= y
  <2>1. PICK p \in Nat \X Nat : p = <<y, x>>
    OBVIOUS
  <2>2. p[1] = y /\ p[2] = x
    BY <2>1
  <2>3. p \notin R
    BY <1>3, <2>1
  <2>4. ~(y < x)
    BY <1>2, <2>2, <2>3
  <2> QED BY <2>4
<1> QED BY <1>4

-----------------------------------------------------------------------------
(* Generation: what a run has tried and skipped, and what the breaker      *)
(* keeps it from.                                                          *)

Attempt == [model : Models, outcome : AttemptOutcome]
Skip == [model : Models, reason : {"circuit-open", "attempt-budget"}]
Stages == {"queued", "generating", "validating", "awaiting-approval", "failed", "cancelled"}
RunRecord == [stage : Stages, order : Seq(Models), budget : Nat, at : Nat,
              attempts : Seq(Attempt), skipped : Seq(Skip), hungUp : BOOLEAN,
              began : {"closed", "half-open", "open"}]
Entry == [failures : Nat, cooling : Nat \cup {NotCooling}, successes : Nat]

Decided(run) == Len(run.attempts) + Len(run.skipped)

(* What was tried and what was skipped are the candidates decided so far.  *)
InOrder(run) ==
    /\ Decided(run) <= Len(run.order)
    /\ ModelsOf(run.attempts) \cup ModelsOf(run.skipped) = {run.order[i] : i \in 1..Decided(run)}
    /\ \A i, j \in DOMAIN run.attempts : i < j =>
          \E k, l \in 1..Decided(run) : /\ run.order[k] = run.attempts[i].model
                                        /\ run.order[l] = run.attempts[j].model
                                        /\ k < l

WithinBudget(run) ==
    /\ Len(run.attempts) <= run.budget
    /\ \A i \in DOMAIN run.skipped :
          run.skipped[i].reason = "attempt-budget" => Len(run.attempts) = run.budget

(* A run waits for the model after the ones decided, with budget to spare, *)
(* and fails for want of output only when all of them are decided; what is *)
(* being validated came from an attempt that was recorded as ok.           *)
WaitsForNext(run) ==
    /\ run.stage = "queued" => run.attempts = <<>> /\ run.skipped = <<>>
    /\ run.stage = "generating" =>
          run.at = Decided(run) + 1 /\ run.at <= Len(run.order) /\ Len(run.attempts) < run.budget
    /\ run.stage = "failed" /\ (\A i \in DOMAIN run.attempts : run.attempts[i].outcome # "ok")
          => Decided(run) = Len(run.order)
    /\ run.stage = "validating" => \E i \in DOMAIN run.attempts : run.attempts[i].outcome = "ok"

RunInv(run) == run \in RunRecord /\ InOrder(run) /\ WithinBudget(run) /\ WaitsForNext(run)

GenerationInv ==
    /\ breaker \in [Providers -> Entry]
    /\ modelRuns \in [ModelRuns -> RunRecord]
    /\ \A r \in ModelRuns : RunInv(modelRuns[r])

(* What the breaker does to an entry; an open one is never extended.       *)
LEMMA EntriesStayEntries ==
    ASSUME NEW e \in Entry, NEW outcome
    PROVE  /\ Told(e, outcome) \in Entry /\ Cooled(e) \in Entry
           /\ StateOf(e) = "open" =>
                 /\ Told(e, outcome).cooling # NotCooling => Told(e, outcome).cooling <= e.cooling
                 /\ Cooled(e).cooling # NotCooling => Cooled(e).cooling <= e.cooling
<1> USE BreakerAssumption DEF Entry, StateOf
<1>1. FreshEntry \in Entry /\ FreshEntry.cooling = NotCooling
  BY DEF FreshEntry
<1>2. CountFailure(e) \in Entry /\ CountFailure(e).cooling = e.cooling
  BY DEF CountFailure
<1>3. /\ RecordSuccess(e) \in Entry
      /\ StateOf(e) = "open" => RecordSuccess(e).cooling \in {NotCooling, e.cooling}
  BY <1>1 DEF RecordSuccess
<1>4. /\ RecordFailure(e) \in Entry
      /\ StateOf(e) = "open" => RecordFailure(e).cooling = e.cooling
  <2>1. PICK c \in Entry : c = CountFailure(e)
    BY <1>2
  <2> QED BY <1>2, <2>1 DEF RecordFailure
<1>5. /\ Cooled(e) \in Entry
      /\ StateOf(e) = "open" => Cooled(e).cooling = e.cooling - 1 /\ e.cooling \in Nat
  BY DEF Cooled
<1>6. Told(e, outcome) \in {RecordSuccess(e), RecordFailure(e), e}
  BY DEF Told
<1> QED BY <1>3, <1>4, <1>5, <1>6

(* The models of two lists put together.                                   *)
LEMMA ModelsOfConcat ==
    ASSUME NEW s \in Seq(Skip), NEW t \in Seq(Skip)
    PROVE  ModelsOf(s \o t) = ModelsOf(s) \cup ModelsOf(t)
<1>1. ASSUME NEW m \in ModelsOf(s \o t) PROVE m \in ModelsOf(s) \cup ModelsOf(t)
  <2>1. PICK i \in DOMAIN (s \o t) : m = (s \o t)[i].model
    BY DEF ModelsOf
  <2>2. CASE i <= Len(s)
    <3>1. i \in DOMAIN s /\ m = s[i].model
      BY <2>1, <2>2
    <3> QED BY <3>1 DEF ModelsOf
  <2>3. CASE i > Len(s)
    <3>1. i - Len(s) \in DOMAIN t /\ m = t[i - Len(s)].model
      BY <2>1, <2>3
    <3> QED BY <3>1 DEF ModelsOf
  <2> QED BY <2>1, <2>2, <2>3
<1>2. ASSUME NEW m \in ModelsOf(s) PROVE m \in ModelsOf(s \o t)
  <2>1. PICK i \in DOMAIN s : m = s[i].model
    BY <1>2 DEF ModelsOf
  <2>2. i \in DOMAIN (s \o t) /\ (s \o t)[i] = s[i]
    BY <2>1
  <2> QED BY <2>1, <2>2 DEF ModelsOf
<1>3. ASSUME NEW m \in ModelsOf(t) PROVE m \in ModelsOf(s \o t)
  <2>1. PICK i \in DOMAIN t : m = t[i].model
    BY <1>3 DEF ModelsOf
  <2>2. Len(s) + i \in DOMAIN (s \o t) /\ (s \o t)[Len(s) + i] = t[i]
    BY <2>1
  <2> QED BY <2>1, <2>2 DEF ModelsOf
<1> QED BY <1>1, <1>2, <1>3

(* The order of a record is a matter of three of its fields.               *)
LEMMA SameRecord ==
    ASSUME NEW run, NEW new, InOrder(run), new.order = run.order, new.attempts = run.attempts,
           new.skipped = run.skipped
    PROVE  InOrder(new)
<1>1. Decided(new) = Decided(run)
  BY DEF Decided
<1>2. Decided(new) <= Len(new.order)
  BY <1>1 DEF InOrder
<1>3. ModelsOf(new.attempts) \cup ModelsOf(new.skipped) = {new.order[j] : j \in 1..Decided(new)}
  BY <1>1 DEF InOrder
<1>4. \A x, y \in DOMAIN new.attempts : x < y =>
         \E k, l \in 1..Decided(new) : /\ new.order[k] = new.attempts[x].model
                                       /\ new.order[l] = new.attempts[y].model
                                       /\ k < l
  BY <1>1 DEF InOrder
<1> QED BY <1>2, <1>3, <1>4 DEF InOrder

(* Going on from the first candidate that is not decided yet keeps the     *)
(* record of the run, and calls no model whose provider is suppressed.     *)
LEMMA ContinueKeeps ==
    ASSUME NEW run \in RunRecord, NEW b \in [Providers -> Entry], NEW i \in Nat,
           InOrder(run), WithinBudget(run), run.stage = "generating", i = Decided(run) + 1,
           NEW new, new = Continue(run, b, i)
    PROVE  /\ RunInv(new)
           /\ new.stage = "generating" => Allows(b[ProviderOf[new.order[new.at]]])
<1> DEFINE n == Len(run.order)
           callable == {k \in i..n : Callable(run, b, k)}
           next == IF callable = {} THEN n + 1
                   ELSE CHOOSE k \in callable : \A l \in callable : k <= l
           skips == [k \in 1..(next - i) |->
                       LET m == run.order[i + k - 1] IN
                       [model |-> m, reason |-> SkipReason(run, b, m)]]
<1>1. /\ run.order \in Seq(Models) /\ run.attempts \in Seq(Attempt) /\ run.skipped \in Seq(Skip)
      /\ run.budget \in Nat /\ run.at \in Nat /\ n \in Nat
      /\ Len(run.attempts) \in Nat /\ Len(run.skipped) \in Nat
      /\ i >= 1 /\ i <= n + 1
  BY DEF RunRecord, InOrder, Decided
<1>2. \/ run.hungUp /\ i <= n /\ new = [run EXCEPT !.stage = "cancelled"]
      \/ next <= n /\ new = [run EXCEPT !.skipped = @ \o skips, !.at = next,
                                        !.began = StateOf(b[ProviderOf[run.order[next]]])]
      \/ ~(next <= n) /\ new = [run EXCEPT !.skipped = @ \o skips, !.stage = "failed"]
  BY DEF Continue
<1>3. /\ next \in i..(n + 1)
      /\ next <= n => Callable(run, b, next)
      /\ \A k \in i..(next - 1) : ~Callable(run, b, k)
      /\ next <= n \/ \A k \in i..n : ~Callable(run, b, k)
  <2>1. CASE callable = {}
    BY <1>1, <2>1
  <2>2. CASE callable # {}
    <3>1. callable \in SUBSET Nat
      BY <1>1
    <3>2. next \in callable /\ \A l \in callable : next <= l
      BY <2>2, <3>1, LeastNatural
    <3> HIDE DEF next
    <3> QED BY <1>1, <3>2
  <2> QED BY <2>1, <2>2
<1> HIDE DEF next, callable
<1>b. next \in Nat /\ n \in Nat /\ 1 <= i /\ i <= next /\ next <= n + 1
  BY <1>1, <1>3
<1>4. /\ next - i \in Nat /\ skips \in Seq(Skip) /\ Len(skips) = next - i
      /\ \A k \in 1..(next - i) : /\ skips[k].model = run.order[i + k - 1]
                                  /\ skips[k].reason = SkipReason(run, b, run.order[i + k - 1])
  <2>1. next - i \in Nat
    BY <1>1, <1>3
  <2>2. \A k \in 1..(next - i) : i + k - 1 \in 1..n /\ run.order[i + k - 1] \in Models
    <3>1. \A k \in 1..(next - i) : i + k - 1 \in 1..n
      BY <1>b
    <3>2. \A k \in 1..n : run.order[k] \in Models
      BY <1>1
    <3> QED BY <3>1, <3>2
  <2>3. \A m : SkipReason(run, b, m) \in {"circuit-open", "attempt-budget"}
    BY DEF SkipReason
  <2>4. skips \in [1..(next - i) -> Skip]
    BY <2>2, <2>3 DEF Skip
  <2>5. \A k \in 1..(next - i) : /\ skips[k].model = run.order[i + k - 1]
                                 /\ skips[k].reason = SkipReason(run, b, run.order[i + k - 1])
    OBVIOUS
  <2> HIDE DEF skips
  <2>6. skips \in Seq(Skip) /\ Len(skips) = next - i
    BY <2>1, <2>4
  <2> QED BY <2>1, <2>5, <2>6
<1> HIDE DEF skips
<1>5. run.skipped \o skips \in Seq(Skip) /\ Len(run.skipped \o skips) = Len(run.skipped) + (next - i)
  <2>1. run.skipped \in Seq(Skip) /\ skips \in Seq(Skip) /\ Len(skips) = next - i
    BY <1>1, <1>4
  <2> QED BY <2>1
<1>6. ModelsOf(skips) = {run.order[j] : j \in i..(next - 1)}
  <2>3. DOMAIN skips = 1..(next - i)
    BY <1>4
  <2>1. \A k \in DOMAIN skips : i + k - 1 \in i..(next - 1)
    BY <1>b, <2>3
  <2>2. \A j \in i..(next - 1) : j - i + 1 \in DOMAIN skips /\ i + (j - i + 1) - 1 = j
    BY <1>b, <2>3
  <2>4. ASSUME NEW k \in DOMAIN skips PROVE skips[k].model \in {run.order[j] : j \in i..(next - 1)}
    BY <1>4, <2>1, <2>3
  <2>5. ASSUME NEW j \in i..(next - 1) PROVE \E k \in DOMAIN skips : run.order[j] = skips[k].model
    <3>1. PICK k \in DOMAIN skips : i + k - 1 = j
      BY <2>2
    <3>2. skips[k].model = run.order[i + k - 1]
      BY <1>4, <2>3
    <3> QED BY <3>1, <3>2
  <2> QED BY <2>4, <2>5 DEF ModelsOf
<1>7. ModelsOf(run.skipped \o skips) = ModelsOf(run.skipped) \cup ModelsOf(skips)
  BY <1>1, <1>4, ModelsOfConcat
<1>8. ASSUME NEW x \in DOMAIN (run.skipped \o skips), (run.skipped \o skips)[x].reason = "attempt-budget"
      PROVE  Len(run.attempts) = run.budget
  <2>1. CASE x <= Len(run.skipped)
    <3>1. x \in DOMAIN run.skipped /\ (run.skipped \o skips)[x] = run.skipped[x]
      BY <1>1, <1>4, <2>1
    <3> QED BY <1>8, <3>1 DEF WithinBudget
  <2>2. CASE x > Len(run.skipped)
    <3>1. PICK k \in 1..(next - i) : k = x - Len(run.skipped)
      <4>1. x \in 1..(Len(run.skipped) + (next - i)) /\ Len(run.skipped) \in Nat
        BY <1>1, <1>5
      <4> QED BY <1>b, <2>2, <4>1
    <3>2. (run.skipped \o skips)[x] = skips[k]
      BY <1>1, <1>4, <2>2, <3>1
    <3>3. PICK j \in i..(next - 1) : j = i + k - 1
      BY <1>b
    <3>4. SkipReason(run, b, run.order[j]) = "attempt-budget"
      BY <1>4, <1>8, <3>2, <3>3
    <3>5. Allows(b[ProviderOf[run.order[j]]]) /\ ~Callable(run, b, j)
      BY <1>3, <3>4 DEF SkipReason
    <3> QED BY <1>1, <3>5 DEF Callable, WithinBudget
  <2> QED BY <1>1, <1>5, <2>1, <2>2
<1>9. ASSUME new.order = run.order, new.attempts = run.attempts, new.budget = run.budget,
             new.skipped = run.skipped \o skips
      PROVE  InOrder(new) /\ WithinBudget(new) /\ Decided(new) = next - 1
  <2>1. Decided(new) = next - 1 /\ Decided(run) = i - 1
    <3>1. Decided(new) = Len(run.attempts) + (Len(run.skipped) + (next - i))
      BY <1>5, <1>9 DEF Decided
    <3>2. next \in Nat
      BY <1>1, <1>3
    <3>3. Decided(run) = Len(run.attempts) + Len(run.skipped)
      BY DEF Decided
    <3>4. PICK a \in Nat, k \in Nat : a = Len(run.attempts) /\ k = Len(run.skipped)
      BY <1>1
    <3>5. i = a + k + 1 /\ Decided(run) = a + k
      BY <3>3, <3>4
    <3>6. Decided(new) = a + (k + (next - (a + k + 1)))
      BY <3>1, <3>4, <3>5
    <3>7. a + (k + (next - (a + k + 1))) = next - 1 /\ a + k = (a + k + 1) - 1
      BY <3>2
    <3> QED BY <3>5, <3>6, <3>7
  <2>2. next - 1 <= n /\ i - 1 <= next - 1
    BY <1>1, <1>3
  <2>3. ModelsOf(new.attempts) \cup ModelsOf(new.skipped) = {run.order[j] : j \in 1..(next - 1)}
    <3>1. ModelsOf(run.attempts) \cup ModelsOf(run.skipped) = {run.order[j] : j \in 1..(i - 1)}
      BY <2>1 DEF InOrder
    <3>2. 1..(next - 1) = (1..(i - 1)) \cup (i..(next - 1))
      BY <1>1, <1>3
    <3>3. {run.order[j] : j \in 1..(next - 1)}
             = {run.order[j] : j \in 1..(i - 1)} \cup {run.order[j] : j \in i..(next - 1)}
      BY <3>2
    <3>4. ModelsOf(new.attempts) = ModelsOf(run.attempts)
          /\ ModelsOf(new.skipped) = ModelsOf(run.skipped) \cup ModelsOf(skips)
      BY <1>7, <1>9
    <3> QED BY <1>6, <3>1, <3>3, <3>4
  <2>4. \A x, y \in DOMAIN run.attempts : x < y =>
          \E k, l \in 1..(next - 1) : /\ run.order[k] = run.attempts[x].model
                                      /\ run.order[l] = run.attempts[y].model
                                      /\ k < l
    <3>1. \A x, y \in DOMAIN run.attempts : x < y =>
             \E k, l \in 1..(i - 1) : /\ run.order[k] = run.attempts[x].model
                                      /\ run.order[l] = run.attempts[y].model
                                      /\ k < l
      BY <2>1 DEF InOrder
    <3>2. \A k \in 1..(i - 1) : k \in 1..(next - 1)
      BY <1>1, <1>3, <2>2
    <3> QED BY <3>1, <3>2
  <2>5. InOrder(new)
    <3>1. Decided(new) <= Len(new.order)
      BY <1>9, <2>1, <2>2
    <3>2. ModelsOf(new.attempts) \cup ModelsOf(new.skipped) = {new.order[j] : j \in 1..Decided(new)}
      BY <1>9, <2>1, <2>3
    <3>3. \A x, y \in DOMAIN new.attempts : x < y =>
             \E k, l \in 1..Decided(new) : /\ new.order[k] = new.attempts[x].model
                                           /\ new.order[l] = new.attempts[y].model
                                           /\ k < l
      <4>1. ASSUME NEW x \in DOMAIN new.attempts, NEW y \in DOMAIN new.attempts, x < y
            PROVE  \E k, l \in 1..Decided(new) : /\ new.order[k] = new.attempts[x].model
                                                 /\ new.order[l] = new.attempts[y].model
                                                 /\ k < l
        <5>1. x \in DOMAIN run.attempts /\ y \in DOMAIN run.attempts
          BY <1>9
        <5>2. PICK k \in 1..(next - 1), l \in 1..(next - 1) :
                 /\ run.order[k] = run.attempts[x].model
                 /\ run.order[l] = run.attempts[y].model
                 /\ k < l
          BY <2>4, <4>1, <5>1
        <5>3. k \in 1..Decided(new) /\ l \in 1..Decided(new)
          BY <2>1
        <5>4. new.order[k] = new.attempts[x].model /\ new.order[l] = new.attempts[y].model
          BY <1>9, <5>2
        <5> QED BY <5>2, <5>3, <5>4
      <4> QED BY <4>1
    <3> QED BY <3>1, <3>2, <3>3 DEF InOrder
  <2>6. WithinBudget(new)
    BY <1>8, <1>9 DEF WithinBudget
  <2> QED BY <2>1, <2>5, <2>6
<1>10. CASE run.hungUp /\ i <= n /\ new = [run EXCEPT !.stage = "cancelled"]
  <2>1. /\ new \in RunRecord /\ new.stage = "cancelled" /\ new.order = run.order
        /\ new.attempts = run.attempts /\ new.skipped = run.skipped /\ new.budget = run.budget
    BY <1>10 DEF RunRecord, Stages
  <2>2. Decided(new) = Decided(run)
    BY <2>1 DEF Decided
  <2>3. InOrder(new) /\ WithinBudget(new)
    <3>1. InOrder(new)
      BY <2>1, SameRecord
    <3>2. WithinBudget(new)
      BY <2>1, Zenon DEF WithinBudget
    <3> QED BY <3>1, <3>2
  <2>4. WaitsForNext(new)
    BY <2>1 DEF WaitsForNext
  <2> QED BY <2>1, <2>3, <2>4 DEF RunInv
<1>11. CASE next <= n /\ new = [run EXCEPT !.skipped = @ \o skips, !.at = next,
                                        !.began = StateOf(b[ProviderOf[run.order[next]]])]
  <2>1. StateOf(b[ProviderOf[run.order[next]]]) \in {"closed", "half-open", "open"}
    BY DEF StateOf
  <2>2. /\ new \in RunRecord /\ new.stage = "generating" /\ new.order = run.order
        /\ new.attempts = run.attempts /\ new.skipped = run.skipped \o skips
        /\ new.budget = run.budget /\ new.at = next
    <3>1. PICK sk \in Seq(Skip) : sk = run.skipped \o skips
      BY <1>5
    <3>2. PICK st \in {"closed", "half-open", "open"} : st = StateOf(b[ProviderOf[run.order[next]]])
      BY <2>1
    <3>3. new = [run EXCEPT !.skipped = sk, !.at = next, !.began = st] /\ next \in Nat
      BY <1>1, <1>3, <1>11, <3>1, <3>2
    <3>4. /\ new \in RunRecord /\ new.stage = "generating" /\ new.order = run.order
          /\ new.attempts = run.attempts /\ new.skipped = sk
          /\ new.budget = run.budget /\ new.at = next
      BY <3>3 DEF RunRecord
    <3> QED BY <3>1, <3>4
  <2>3. Callable(run, b, next)
    BY <1>3, <1>11
  <2>4. WaitsForNext(new) /\ Allows(b[ProviderOf[new.order[new.at]]])
    <3>1. Decided(new) = next - 1
      BY <1>9, <2>2
    <3>2. next \in Nat /\ next - 1 + 1 = next
      BY <1>1, <1>3
    <3>3. Allows(b[ProviderOf[run.order[next]]]) /\ Len(run.attempts) < run.budget
      BY <2>3 DEF Callable
    <3> QED BY <1>11, <2>2, <3>1, <3>2, <3>3 DEF WaitsForNext
  <2> QED BY <1>9, <2>2, <2>4 DEF RunInv
<1>12. CASE ~(next <= n) /\ new = [run EXCEPT !.skipped = @ \o skips, !.stage = "failed"]
  <2>1. /\ new \in RunRecord /\ new.stage = "failed" /\ new.order = run.order
        /\ new.attempts = run.attempts /\ new.skipped = run.skipped \o skips
        /\ new.budget = run.budget
    BY <1>1, <1>5, <1>12 DEF RunRecord, Stages
  <2>2. WaitsForNext(new)
    <3>1. Decided(new) = next - 1
      BY <1>9, <2>1
    <3>2. next = n + 1
      BY <1>1, <1>3, <1>12
    <3> QED BY <1>1, <2>1, <3>1, <3>2 DEF WaitsForNext
  <2> QED BY <1>9, <2>1, <2>2 DEF RunInv
<1> QED BY <1>2, <1>10, <1>11, <1>12

(* Recording the answer of the model a run waits for.                      *)
LEMMA TriedKeeps ==
    ASSUME NEW run, RunInv(run), run.stage = "generating", NEW outcome \in AttemptOutcome,
           NEW tried,
           tried = [run EXCEPT !.attempts =
                       Append(@, [model |-> run.order[run.at], outcome |-> outcome])]
    PROVE  /\ tried \in RunRecord /\ InOrder(tried) /\ WithinBudget(tried)
           /\ tried.stage = "generating" /\ run.at = Decided(tried)
           /\ outcome = "ok" => \E i \in DOMAIN tried.attempts : tried.attempts[i].outcome = "ok"
<1>1. /\ run \in RunRecord /\ run.order \in Seq(Models) /\ run.attempts \in Seq(Attempt)
      /\ run.skipped \in Seq(Skip) /\ run.budget \in Nat
      /\ run.at = Decided(run) + 1 /\ run.at <= Len(run.order) /\ Len(run.attempts) < run.budget
      /\ Len(run.attempts) \in Nat /\ Len(run.skipped) \in Nat /\ Len(run.order) \in Nat
  BY DEF RunInv, RunRecord, WaitsForNext
<1>2. Decided(run) \in Nat /\ run.at \in 1..Len(run.order) /\ run.order[run.at] \in Models
  <2>1. Decided(run) = Len(run.attempts) + Len(run.skipped)
    BY DEF Decided
  <2>2. Decided(run) \in Nat
    <3>1. PICK x \in Nat, y \in Nat : x = Len(run.attempts) /\ y = Len(run.skipped)
      BY <1>1
    <3>2. Decided(run) = x + y
      BY <2>1, <3>1
    <3> QED BY <3>2
  <2>3. PICK d \in Nat : d = Decided(run)
    BY <2>2
  <2>4. run.at \in 1..Len(run.order)
    BY <1>1, <2>3
  <2> QED BY <1>1, <2>2, <2>4
<1>3. PICK a \in Attempt : a = [model |-> run.order[run.at], outcome |-> outcome]
  BY <1>2 DEF Attempt
<1>4. a.model = run.order[run.at] /\ a.outcome = outcome
  BY <1>3
<1>5. PICK s \in Seq(Attempt) : s = Append(run.attempts, a)
  <2>1. PICK t \in Seq(Attempt) : t = run.attempts
    BY <1>1
  <2>2. Append(t, a) \in Seq(Attempt)
    OBVIOUS
  <2> QED BY <2>1, <2>2
<1>6. /\ Len(s) = Len(run.attempts) + 1 /\ s[Len(s)] = a
      /\ \A x \in DOMAIN run.attempts : x \in DOMAIN s /\ s[x] = run.attempts[x]
      /\ \A x \in DOMAIN s : x \in DOMAIN run.attempts \/ x = Len(s)
      /\ \A x \in DOMAIN run.attempts : x < Len(s)
      /\ Len(s) \in DOMAIN s
  BY <1>1, <1>5
<1>7. tried = [run EXCEPT !.attempts = s]
  BY <1>3, <1>5
<1>8. /\ tried \in RunRecord /\ tried.stage = "generating" /\ tried.attempts = s
      /\ tried.order = run.order /\ tried.skipped = run.skipped /\ tried.budget = run.budget
  BY <1>1, <1>7 DEF RunRecord
<1>9. Decided(tried) = Decided(run) + 1
  <2>1. PICK x \in Nat, y \in Nat : x = Len(run.attempts) /\ y = Len(run.skipped)
    BY <1>1
  <2>2. Decided(tried) = (x + 1) + y /\ Decided(run) = x + y
    BY <1>6, <1>8, <2>1 DEF Decided
  <2> QED BY <2>2
<1>10. ModelsOf(s) = ModelsOf(run.attempts) \cup {run.order[run.at]}
  BY <1>4, <1>6 DEF ModelsOf
<1>11. ModelsOf(run.attempts) \cup ModelsOf(run.skipped) = {run.order[i] : i \in 1..Decided(run)}
  BY DEF RunInv, InOrder
<1>12. 1..Decided(tried) = (1..Decided(run)) \cup {run.at}
  BY <1>1, <1>2, <1>9
<1>13. InOrder(tried)
  <2>1. Decided(tried) <= Len(tried.order)
    BY <1>1, <1>8, <1>9
  <2>2. ModelsOf(tried.attempts) \cup ModelsOf(tried.skipped)
           = {tried.order[i] : i \in 1..Decided(tried)}
    <3>1. {run.order[i] : i \in 1..Decided(tried)}
             = {run.order[i] : i \in 1..Decided(run)} \cup {run.order[run.at]}
      BY <1>12
    <3>2. ModelsOf(tried.attempts) \cup ModelsOf(tried.skipped)
             = (ModelsOf(run.attempts) \cup ModelsOf(run.skipped)) \cup {run.order[run.at]}
      BY <1>8, <1>10
    <3>3. {tried.order[i] : i \in 1..Decided(tried)} = {run.order[i] : i \in 1..Decided(tried)}
      BY <1>8
    <3> QED BY <1>11, <3>1, <3>2, <3>3
  <2>3. ASSUME NEW x \in DOMAIN s, NEW y \in DOMAIN s, x < y
        PROVE  \E k, l \in 1..Decided(tried) : /\ run.order[k] = s[x].model
                                               /\ run.order[l] = s[y].model
                                               /\ k < l
    <3>1. x \in DOMAIN run.attempts
      BY <1>1, <1>6, <2>3
    <3>2. CASE y \in DOMAIN run.attempts
      <4>1. PICK k \in 1..Decided(run), l \in 1..Decided(run) :
                /\ run.order[k] = run.attempts[x].model
                /\ run.order[l] = run.attempts[y].model
                /\ k < l
        BY <2>3, <3>1, <3>2 DEF RunInv, InOrder
      <4> QED BY <1>6, <1>12, <3>1, <3>2, <4>1
    <3>3. CASE y = Len(s)
      <4>1. run.attempts[x].model \in ModelsOf(run.attempts)
        BY <3>1 DEF ModelsOf
      <4>2. PICK k \in 1..Decided(run) : run.order[k] = run.attempts[x].model
        BY <1>11, <4>1
      <4>3. k < run.at /\ k \in 1..Decided(tried) /\ run.at \in 1..Decided(tried)
        <5>1. PICK d \in Nat : d = Decided(run)
          BY <1>2
        <5>2. k \in 1..d /\ run.at = d + 1
          BY <1>1, <5>1
        <5>3. k < run.at
          BY <5>2
        <5> QED BY <1>12, <5>3
      <4> QED BY <1>4, <1>6, <3>1, <3>3, <4>2, <4>3
    <3> QED BY <1>6, <3>2, <3>3
  <2>4. \A x, y \in DOMAIN tried.attempts : x < y =>
           \E k, l \in 1..Decided(tried) : /\ tried.order[k] = tried.attempts[x].model
                                           /\ tried.order[l] = tried.attempts[y].model
                                           /\ k < l
    <3>1. tried.attempts = s /\ tried.order = run.order
      BY <1>8
    <3>2. ASSUME NEW x \in DOMAIN tried.attempts, NEW y \in DOMAIN tried.attempts, x < y
          PROVE  \E k, l \in 1..Decided(tried) : /\ tried.order[k] = tried.attempts[x].model
                                                 /\ tried.order[l] = tried.attempts[y].model
                                                 /\ k < l
      <4>1. x \in DOMAIN s /\ y \in DOMAIN s
        BY <3>1
      <4>2. PICK k \in 1..Decided(tried), l \in 1..Decided(tried) :
               run.order[k] = s[x].model /\ run.order[l] = s[y].model /\ k < l
        BY <2>3, <3>2, <4>1
      <4>3. tried.order[k] = tried.attempts[x].model /\ tried.order[l] = tried.attempts[y].model
        BY <3>1, <4>2
      <4> QED BY <4>2, <4>3
    <3> QED BY <3>2
  <2> QED BY <2>1, <2>2, <2>4 DEF InOrder
<1>14. WithinBudget(tried)
  <2>1. \A i \in DOMAIN run.skipped : run.skipped[i].reason # "attempt-budget"
    BY <1>1 DEF RunInv, WithinBudget
  <2> QED BY <1>1, <1>6, <1>8, <2>1 DEF WithinBudget
<1>15. outcome = "ok" => \E i \in DOMAIN tried.attempts : tried.attempts[i].outcome = "ok"
  BY <1>4, <1>6, <1>8
<1> QED BY <1>1, <1>8, <1>9, <1>13, <1>14, <1>15

(* One run takes a step of its own, and whatever the breaker is told, the  *)
(* suppression stays exact.                                                *)
LEMMA RunSteps ==
    ASSUME GenerationInv, NEW r \in ModelRuns, NEW new, RunInv(new),
           modelRuns' = [modelRuns EXCEPT ![r] = new], breaker' \in [Providers -> Entry],
           \A p \in Providers : \/ breaker'[p] = breaker[p]
                                \/ \E outcome \in AttemptOutcome : breaker'[p] = Told(breaker[p], outcome),
           new.stage = "generating" =>
              \/ modelRuns[r].stage = "generating" /\ new.at = modelRuns[r].at
              \/ Allows(breaker'[ProviderOf[new.order[new.at]]])
    PROVE  GenerationInv' /\ SuppressionIsExact
<1>1. /\ modelRuns'[r] = new /\ \A q \in ModelRuns : q # r => modelRuns'[q] = modelRuns[q]
      /\ modelRuns' \in [ModelRuns -> RunRecord]
  BY DEF GenerationInv, RunInv
<1>2. GenerationInv'
  <2>1. \A q \in ModelRuns : RunInv(modelRuns'[q])
    BY <1>1 DEF GenerationInv
  <2> QED BY <1>1, <2>1 DEF GenerationInv
<1>3. ASSUME NEW q \in ModelRuns, InFlight(q)',
             ~InFlight(q) \/ modelRuns'[q].at # modelRuns[q].at
      PROVE  Allows(breaker'[ProviderOf[modelRuns'[q].order[modelRuns'[q].at]]])
  <2>1. q = r
    BY <1>1, <1>3 DEF InFlight
  <2> QED BY <1>1, <1>3, <2>1 DEF InFlight
<1>4. ASSUME NEW p \in Providers, StateOf(breaker[p]) = "open", breaker'[p].cooling # NotCooling
      PROVE  breaker'[p].cooling <= breaker[p].cooling
  <2>1. PICK e \in Entry : e = breaker[p]
    BY DEF GenerationInv
  <2>2. CASE breaker'[p] = breaker[p]
    <3>1. e.cooling \in Nat
      BY <1>4, <2>1, <2>2 DEF Entry
    <3> QED BY <2>1, <2>2, <3>1
  <2>3. CASE \E outcome \in AttemptOutcome : breaker'[p] = Told(breaker[p], outcome)
    BY <1>4, <2>1, <2>3, EntriesStayEntries
  <2> QED BY <2>2, <2>3
<1> QED BY <1>2, <1>3, <1>4 DEF SuppressionIsExact

(* executeRun starts with nothing decided and goes on from the first one.  *)
LEMMA StartRunStep ==
    ASSUME GenerationInv, NEW r \in ModelRuns, NEW o \in Orders, NEW budget \in Budgets,
           StartModelRun(r, o, budget)
    PROVE  GenerationInv' /\ SuppressionIsExact
<1>1. RunInv(modelRuns[r]) /\ modelRuns[r] \in RunRecord /\ breaker \in [Providers -> Entry]
  BY DEF GenerationInv
<1>2. PICK old \in RunRecord : old = modelRuns[r]
  BY <1>1
<1>3. old.stage = "queued" /\ old.attempts = <<>> /\ old.skipped = <<>>
  BY <1>1, <1>2 DEF RunInv, WaitsForNext, StartModelRun
<1>4. PICK run \in RunRecord : run = [old EXCEPT !.stage = "generating", !.order = o, !.budget = budget]
  BY GenerationAssumption DEF RunRecord, Stages
<1>5. /\ run.stage = "generating" /\ run.order = o /\ run.budget = budget /\ run.budget \in Nat
      /\ run.attempts = <<>> /\ run.skipped = <<>> /\ Len(o) \in Nat
  BY <1>3, <1>4, GenerationAssumption DEF RunRecord
<1>6. Decided(run) = 0
  BY <1>5 DEF Decided
<1>7. InOrder(run)
  BY <1>5, <1>6 DEF InOrder, ModelsOf
<1>8. WithinBudget(run)
  BY <1>5 DEF WithinBudget
<1>9. PICK new : new = Continue(run, breaker, 1)
  OBVIOUS
<1>10. RunInv(new) /\ (new.stage = "generating" => Allows(breaker[ProviderOf[new.order[new.at]]]))
  <2>1. 1 = Decided(run) + 1
    BY <1>6
  <2> QED BY <1>1, <1>5, <1>7, <1>8, <1>9, <2>1, ContinueKeeps
<1>11. modelRuns' = [modelRuns EXCEPT ![r] = new] /\ breaker' = breaker
  BY <1>2, <1>4, <1>9 DEF StartModelRun, GenerationInv
<1> QED BY <1>1, <1>10, <1>11, RunSteps

(* A pinned model that does not fit is the one candidate, and decided.     *)
LEMMA PinnedStep ==
    ASSUME GenerationInv, NEW r \in ModelRuns, NEW m \in Models,
           NEW outcome \in {"context-exceeded", "capability-missing"}, PinnedUnfit(r, m, outcome)
    PROVE  GenerationInv' /\ SuppressionIsExact
<1>1. RunInv(modelRuns[r]) /\ modelRuns[r] \in RunRecord /\ breaker \in [Providers -> Entry]
  BY DEF GenerationInv
<1>2. PICK old \in RunRecord : old = modelRuns[r]
  BY <1>1
<1>3. old.attempts = <<>> /\ old.skipped = <<>>
  BY <1>1, <1>2 DEF RunInv, WaitsForNext, PinnedUnfit
<1>4. PICK a \in Attempt : a = [model |-> m, outcome |-> outcome]
  BY DEF Attempt, AttemptOutcome
<1>5. a.model = m /\ <<m>> \in Seq(Models) /\ <<a>> \in Seq(Attempt)
  BY <1>4
<1>6. PICK new \in RunRecord :
         new = [old EXCEPT !.stage = "failed", !.order = <<m>>, !.budget = 1, !.attempts = <<a>>]
  BY <1>5 DEF RunRecord, Stages
<1>7. /\ new.stage = "failed" /\ new.order = <<m>> /\ new.budget = 1
      /\ new.attempts = <<a>> /\ new.skipped = <<>>
  BY <1>3, <1>6 DEF RunRecord
<1>8. Decided(new) = 1 /\ Len(new.order) = 1
  BY <1>7 DEF Decided
<1>9. InOrder(new)
  <2>1. ModelsOf(new.attempts) \cup ModelsOf(new.skipped) = {new.order[i] : i \in 1..Decided(new)}
    BY <1>5, <1>7, <1>8 DEF ModelsOf
  <2>2. \A x, y \in DOMAIN new.attempts : ~(x < y)
    BY <1>7
  <2> QED BY <1>8, <2>1, <2>2 DEF InOrder
<1>10. WithinBudget(new) /\ WaitsForNext(new)
  BY <1>7, <1>8 DEF WithinBudget, WaitsForNext
<1>11. modelRuns' = [modelRuns EXCEPT ![r] = new] /\ breaker' = breaker
  BY <1>2, <1>4, <1>6 DEF PinnedUnfit, GenerationInv
<1>12. RunInv(new) /\ new.stage # "generating"
  BY <1>7, <1>9, <1>10 DEF RunInv
<1> QED BY <1>1, <1>11, <1>12, RunSteps

(* The answer is recorded, the breaker told, and the loop goes on, or ends.*)
LEMMA AnswersStep ==
    ASSUME GenerationInv, NEW r \in ModelRuns, NEW report \in Reports, ModelAnswers(r, report)
    PROVE  GenerationInv' /\ SuppressionIsExact
<1>1. RunInv(modelRuns[r]) /\ modelRuns[r] \in RunRecord /\ breaker \in [Providers -> Entry]
  BY DEF GenerationInv
<1>2. PICK run \in RunRecord : run = modelRuns[r]
  BY <1>1
<1>3. RunInv(run) /\ run.stage = "generating"
  BY <1>1, <1>2 DEF ModelAnswers
<1>4. PICK outcome \in AttemptOutcome :
         outcome = Outcome(report) /\ (report = "ok-oversize" => outcome = "ok")
  BY GenerationAssumption DEF Outcome, Reported, AttemptOutcome
<1>5. PICK tried : tried = [run EXCEPT !.attempts =
                       Append(@, [model |-> run.order[run.at], outcome |-> outcome])]
  OBVIOUS
<1>6. /\ tried \in RunRecord /\ InOrder(tried) /\ WithinBudget(tried)
      /\ tried.stage = "generating" /\ run.at = Decided(tried)
      /\ outcome = "ok" => \E i \in DOMAIN tried.attempts : tried.attempts[i].outcome = "ok"
  BY <1>3, <1>5, TriedKeeps, ZenonT(60)
<1>7. PICK p \in Providers : p = ProviderOf[run.order[run.at]]
  <2>1. run.at \in 1..Len(run.order) /\ run.order \in Seq(Models)
    <3>1. /\ run.order \in Seq(Models) /\ run.at \in Nat /\ run.at <= Len(run.order)
          /\ run.at = Decided(run) + 1
      BY <1>3 DEF RunInv, RunRecord, WaitsForNext
    <3>2. run.attempts \in Seq(Attempt) /\ run.skipped \in Seq(Skip)
      BY DEF RunRecord
    <3>3. PICK x \in Nat, y \in Nat : x = Len(run.attempts) /\ y = Len(run.skipped)
      BY <3>2
    <3>4. run.at = x + y + 1
      BY <3>1, <3>3 DEF Decided
    <3> QED BY <3>1, <3>4
  <2> QED BY <2>1, GenerationAssumption
<1>8. PICK told : told = [breaker EXCEPT ![p] = Told(breaker[p], outcome)]
  OBVIOUS
<1>9. /\ told \in [Providers -> Entry]
      /\ \A q \in Providers : told[q] = breaker[q] \/ told[q] = Told(breaker[q], outcome)
  <2>1. breaker[p] \in Entry
    BY <1>1
  <2>2. Told(breaker[p], outcome) \in Entry
    BY <2>1, EntriesStayEntries
  <2> QED BY <1>1, <1>8, <2>2
<1>10. PICK new : new =
          CASE report = "ok-oversize" -> [tried EXCEPT !.stage = "failed"]
            [] outcome = "ok" /\ report # "ok-oversize" -> [tried EXCEPT !.stage = "validating"]
            [] outcome = "cancelled" -> [tried EXCEPT !.stage = "cancelled"]
            [] OTHER -> Continue(tried, told, run.at + 1)
  OBVIOUS
<1>11. breaker' = told /\ modelRuns' = [modelRuns EXCEPT ![r] = new]
  <2>1. breaker' = told
    BY <1>2, <1>4, <1>7, <1>8 DEF ModelAnswers, GenerationInv
  <2>2. modelRuns' = [modelRuns EXCEPT ![r] = new]
    BY <1>2, <1>4, <1>5, <1>7, <1>8, <1>10 DEF ModelAnswers, GenerationInv
  <2> QED BY <2>1, <2>2
<1>12. \/ report = "ok-oversize" /\ new = [tried EXCEPT !.stage = "failed"]
       \/ outcome = "ok" /\ new = [tried EXCEPT !.stage = "validating"]
       \/ new = [tried EXCEPT !.stage = "cancelled"]
       \/ new = Continue(tried, told, run.at + 1)
  BY <1>4, <1>10
<1>13. ASSUME NEW to \in {"failed", "validating", "cancelled"}, new = [tried EXCEPT !.stage = to],
              to # "cancelled" => outcome = "ok"
       PROVE  RunInv(new) /\ new.stage # "generating"
  <2>1. /\ new \in RunRecord /\ new.stage = to /\ new.order = tried.order
        /\ new.attempts = tried.attempts /\ new.skipped = tried.skipped /\ new.budget = tried.budget
    BY <1>6, <1>13 DEF RunRecord, Stages
  <2>2. Decided(new) = Decided(tried)
    BY <2>1 DEF Decided
  <2>3. InOrder(new)
    BY <1>6, <2>1, <2>2, SameRecord
  <2>4. WithinBudget(new) /\ WaitsForNext(new)
    BY <1>6, <1>13, <2>1 DEF WithinBudget, WaitsForNext
  <2> QED BY <2>1, <2>3, <2>4 DEF RunInv
<1>14. ASSUME new = Continue(tried, told, run.at + 1)
       PROVE  RunInv(new) /\ (new.stage = "generating" => Allows(told[ProviderOf[new.order[new.at]]]))
  <2>1. run.at + 1 \in Nat /\ run.at + 1 = Decided(tried) + 1
    BY <1>6 DEF RunRecord
  <2> QED BY <1>6, <1>9, <1>14, <2>1, ContinueKeeps
<1>15. RunInv(new) /\ (new.stage = "generating" => Allows(told[ProviderOf[new.order[new.at]]]))
  BY <1>4, <1>12, <1>13, <1>14
<1> QED BY <1>9, <1>11, <1>15, RunSteps

(* Validation ends a run that has an attempt recorded as ok.               *)
LEMMA ValidatedStep ==
    ASSUME GenerationInv, NEW r \in ModelRuns, NEW clears \in BOOLEAN, Validated(r, clears)
    PROVE  GenerationInv' /\ SuppressionIsExact
<1>1. RunInv(modelRuns[r]) /\ modelRuns[r] \in RunRecord /\ breaker \in [Providers -> Entry]
  BY DEF GenerationInv
<1>2. PICK old \in RunRecord : old = modelRuns[r]
  BY <1>1
<1>3. /\ RunInv(old) /\ old.stage = "validating"
      /\ \E i \in DOMAIN old.attempts : old.attempts[i].outcome = "ok"
  BY <1>1, <1>2 DEF Validated, RunInv, WaitsForNext
<1>4. PICK to \in {"awaiting-approval", "failed"} : to = IF clears THEN "awaiting-approval" ELSE "failed"
  OBVIOUS
<1>5. PICK new \in RunRecord : new = [old EXCEPT !.stage = to]
  BY <1>4 DEF RunRecord, Stages
<1>6. /\ new.stage = to /\ new.order = old.order /\ new.attempts = old.attempts
      /\ new.skipped = old.skipped /\ new.budget = old.budget
  BY <1>5 DEF RunRecord
<1>7. InOrder(new)
  BY <1>3, <1>6, SameRecord DEF RunInv
<1>8. WithinBudget(new) /\ WaitsForNext(new)
  BY <1>3, <1>4, <1>6 DEF RunInv, WithinBudget, WaitsForNext
<1>9. RunInv(new) /\ new.stage # "generating"
  BY <1>4, <1>6, <1>7, <1>8 DEF RunInv
<1>10. modelRuns' = [modelRuns EXCEPT ![r] = new] /\ breaker' = breaker
  BY <1>2, <1>4, <1>5 DEF Validated, GenerationInv
<1> QED BY <1>1, <1>9, <1>10, RunSteps

(* A hang-up is noticed later; by itself it changes nothing of the record. *)
LEMMA HangsUpStep ==
    ASSUME GenerationInv, NEW r \in ModelRuns, RunHangsUp(r)
    PROVE  GenerationInv' /\ SuppressionIsExact
<1>1. RunInv(modelRuns[r]) /\ modelRuns[r] \in RunRecord /\ breaker \in [Providers -> Entry]
  BY DEF GenerationInv
<1>2. PICK old \in RunRecord : old = modelRuns[r]
  BY <1>1
<1>3. PICK new \in RunRecord : new = [old EXCEPT !.hungUp = TRUE]
  BY DEF RunRecord
<1>4. /\ new.stage = old.stage /\ new.order = old.order /\ new.attempts = old.attempts
      /\ new.skipped = old.skipped /\ new.budget = old.budget /\ new.at = old.at
  BY <1>3 DEF RunRecord
<1>5. InOrder(new)
  BY <1>1, <1>2, <1>4, SameRecord DEF RunInv
<1>6. Decided(new) = Decided(old)
  BY <1>4 DEF Decided
<1>7. WithinBudget(new)
  BY <1>1, <1>2, <1>4 DEF RunInv, WithinBudget
<1>8. WaitsForNext(new)
  BY <1>1, <1>2, <1>4, <1>6 DEF RunInv, WaitsForNext
<1>9. modelRuns' = [modelRuns EXCEPT ![r] = new] /\ breaker' = breaker
  BY <1>2, <1>3 DEF RunHangsUp, GenerationInv
<1>10. RunInv(new)
  BY <1>5, <1>7, <1>8 DEF RunInv
<1> QED BY <1>1, <1>2, <1>4, <1>9, <1>10, RunSteps

(* Time only shortens a suppression.                                       *)
LEMMA BreakerTickStep ==
    ASSUME GenerationInv, BreakerTick
    PROVE  GenerationInv' /\ SuppressionIsExact
<1>1. breaker' = [p \in Providers |-> Cooled(breaker[p])] /\ modelRuns' = modelRuns
  BY DEF BreakerTick
<1>2. \A p \in Providers : breaker[p] \in Entry
  BY DEF GenerationInv
<1>3. \A p \in Providers : breaker'[p] \in Entry
  BY <1>1, <1>2, EntriesStayEntries
<1>4. GenerationInv'
  BY <1>1, <1>3 DEF GenerationInv
<1>5. ASSUME NEW p \in Providers, StateOf(breaker[p]) = "open", breaker'[p].cooling # NotCooling
      PROVE  breaker'[p].cooling <= breaker[p].cooling
  BY <1>1, <1>2, <1>5, EntriesStayEntries
<1> QED BY <1>1, <1>4, <1>5 DEF SuppressionIsExact, InFlight

(* No run has begun and no breaker has tripped.                            *)
LEMMA GenerationStarts ==
    ASSUME GenerationInit
    PROVE  GenerationInv
<1>1. breaker \in [Providers -> Entry]
  BY DEF GenerationInit, FreshEntry, Entry
<1>2. PICK run : run = [stage |-> "queued", order |-> <<>>, budget |-> 0, at |-> 0,
                        attempts |-> <<>>, skipped |-> <<>>, hungUp |-> FALSE, began |-> "closed"]
  OBVIOUS
<1>3. run \in RunRecord
  BY <1>2 DEF RunRecord, Stages
<1>4. /\ run.stage = "queued" /\ run.order = <<>> /\ run.budget = 0
      /\ run.attempts = <<>> /\ run.skipped = <<>>
  BY <1>2
<1>5. Decided(run) = 0
  BY <1>4 DEF Decided
<1>6. InOrder(run)
  BY <1>4, <1>5 DEF InOrder, ModelsOf
<1>7. WithinBudget(run) /\ WaitsForNext(run)
  BY <1>4 DEF WithinBudget, WaitsForNext
<1>8. modelRuns = [r \in ModelRuns |-> run]
  BY <1>2 DEF GenerationInit
<1> QED BY <1>1, <1>3, <1>6, <1>7, <1>8 DEF GenerationInv, RunInv

(* Every step keeps the invariant and the suppression.                     *)
LEMMA GenerationSteps ==
    ASSUME GenerationInv, GenerationNext
    PROVE  GenerationInv' /\ SuppressionIsExact
  BY StartRunStep, PinnedStep, AnswersStep, ValidatedStep, HangsUpStep, BreakerTickStep
     DEF GenerationNext

(* The inductive invariant says what AttemptsAreAccounted says.            *)
LEMMA InvAccounts ==
    ASSUME GenerationInv
    PROVE  AttemptsAreAccounted
<1>1. ASSUME NEW r \in ModelRuns
      PROVE  /\ InOrder(modelRuns[r]) /\ WithinBudget(modelRuns[r]) /\ WaitsForNext(modelRuns[r])
  BY DEF GenerationInv, RunInv
<1>2. EveryCandidateIsAccounted
  BY <1>1 DEF EveryCandidateIsAccounted, InOrder, WaitsForNext, Decided, InFlight
<1>3. BudgetCountsCalls
  BY <1>1 DEF BudgetCountsCalls, WithinBudget
<1> QED BY <1>2, <1>3 DEF AttemptsAreAccounted

(* However many runs fail over side by side, over any list of candidates   *)
(* and any budget, no step leaves a candidate of a run unaccounted for,    *)
(* passes one over for a budget that is not spent, calls a model whose     *)
(* provider's breaker is open, or prolongs a suppression (ModelRouter.run, *)
(* CircuitBreaker.recordFailure).                                          *)
THEOREM GenerationFailoverIsExact == GenerationSpec => FailoverIsExact
<1>1. GenerationInit => GenerationInv
  BY GenerationStarts
<1>2. GenerationInv /\ [GenerationNext]_generationVars
         => GenerationInv' /\ [AttemptsAreAccounted' /\ SuppressionIsExact]_generationVars
  <2>1. CASE GenerationNext /\ GenerationInv
    <3>1. GenerationInv' /\ SuppressionIsExact
      BY <2>1, GenerationSteps
    <3>2. GenerationInv' => AttemptsAreAccounted'
      BY InvAccounts, PTL
    <3> QED BY <3>1, <3>2
  <2>2. CASE UNCHANGED generationVars /\ GenerationInv
    <3>1. GenerationInv'
      BY <2>2 DEF GenerationInv, generationVars
    <3> QED BY <2>2, <3>1
  <2> QED BY <2>1, <2>2
<1> QED BY <1>1, <1>2, PTL DEF GenerationSpec, FailoverIsExact

-----------------------------------------------------------------------------
(* A2A: the grants that writes use up.                                     *)

GrantsInv ==
    /\ recorded \in [Subjects -> Nat] /\ dispatched \in [Subjects -> Nat]
    /\ WritesAreGranted

(* A message is executed: a write takes a grant that is there, and no other*)
(* execution can take it again.                                            *)
LEMMA ExecutesKeeps ==
    ASSUME GrantsInv, NEW list, NEW t, NEW s \in Subjects \cup {Read}, Executes(list, t, s),
           UNCHANGED recorded
    PROVE  GrantsInv'
<1>1. CASE UNCHANGED <<grants, dispatched>>
  BY <1>1 DEF GrantsInv, WritesAreGranted
<1>2. CASE ~AwaitsApproval(s) /\ Dispatches(t, s) /\ s # Read
  <2>1. s \in Subjects /\ s \in grants
    BY <1>2 DEF AwaitsApproval
  <2>2. grants' = grants \ {s} /\ dispatched' = [dispatched EXCEPT ![s] = @ + 1]
    BY <1>2 DEF Dispatches, GateConsumes
  <2>3. dispatched' \in [Subjects -> Nat] /\ recorded' \in [Subjects -> Nat]
    BY <2>1, <2>2 DEF GrantsInv
  <2>4. ASSUME NEW q \in Subjects
        PROVE  dispatched'[q] + (IF q \in grants' THEN 1 ELSE 0) <= recorded'[q]
    <3>1. dispatched[q] + (IF q \in grants THEN 1 ELSE 0) <= recorded[q]
      BY DEF GrantsInv, WritesAreGranted
    <3>2. dispatched[q] \in Nat /\ recorded[q] \in Nat
      BY DEF GrantsInv
    <3>3. CASE q = s
      BY <2>1, <2>2, <3>1, <3>2, <3>3 DEF GrantsInv
    <3>4. CASE q # s
      BY <2>2, <3>1, <3>2, <3>4 DEF GrantsInv
    <3> QED BY <3>3, <3>4
  <2> QED BY <2>3, <2>4 DEF GrantsInv, WritesAreGranted
<1> QED BY <1>1, <1>2 DEF Executes, Dispatches

(* The process ends: the unused grants are lost, the writes stay done.     *)
LEMMA ProcessEndsKeeps ==
    ASSUME GrantsInv, ProcessEnds, UNCHANGED recorded
    PROVE  GrantsInv'
<1>1. grants' = {} /\ dispatched' = dispatched /\ recorded' = recorded
  BY DEF ProcessEnds
<1>2. ASSUME NEW q \in Subjects
      PROVE  dispatched[q] + (IF q \in {} THEN 1 ELSE 0) <= recorded[q]
  <2>1. /\ dispatched[q] \in Nat /\ recorded[q] \in Nat
        /\ dispatched[q] + (IF q \in grants THEN 1 ELSE 0) <= recorded[q]
    BY DEF GrantsInv, WritesAreGranted
  <2> QED BY <2>1
<1> QED BY <1>1, <1>2 DEF GrantsInv, WritesAreGranted

(* The operator records a grant, or takes one back that was not used.      *)
LEMMA GrantStep ==
    ASSUME GrantsInv, NEW s \in Subjects, RecordGrant(s) \/ RevokeGrant(s)
    PROVE  GrantsInv'
<1>1. /\ recorded \in [Subjects -> Nat] /\ dispatched \in [Subjects -> Nat]
      /\ dispatched' = dispatched
      /\ \A q \in Subjects : dispatched[q] + (IF q \in grants THEN 1 ELSE 0) <= recorded[q]
  BY DEF GrantsInv, WritesAreGranted, RecordGrant, RevokeGrant
<1>2. CASE RecordGrant(s)
  <2>1. grants' = grants \cup {s} /\ recorded' = [recorded EXCEPT ![s] = @ + 1]
    BY <1>2 DEF RecordGrant
  <2>2. ASSUME NEW q \in Subjects
        PROVE  dispatched[q] + (IF q \in grants' THEN 1 ELSE 0) <= recorded'[q]
    <3>1. /\ dispatched[q] \in Nat /\ recorded[q] \in Nat
          /\ dispatched[q] + (IF q \in grants THEN 1 ELSE 0) <= recorded[q]
      BY <1>1
    <3>2. recorded'[q] = (IF q = s THEN recorded[q] + 1 ELSE recorded[q])
      BY <1>1, <2>1
    <3> QED BY <2>1, <3>1, <3>2
  <2> QED BY <1>1, <2>1, <2>2 DEF GrantsInv, WritesAreGranted
<1>3. CASE RevokeGrant(s)
  <2>1. s \in grants /\ grants' = grants \ {s} /\ recorded' = [recorded EXCEPT ![s] = @ - 1]
    BY <1>3 DEF RevokeGrant
  <2>2. recorded' \in [Subjects -> Nat]
    BY <1>1, <2>1
  <2>3. ASSUME NEW q \in Subjects
        PROVE  dispatched[q] + (IF q \in grants' THEN 1 ELSE 0) <= recorded'[q]
    <3>1. /\ dispatched[q] \in Nat /\ recorded[q] \in Nat
          /\ dispatched[q] + (IF q \in grants THEN 1 ELSE 0) <= recorded[q]
      BY <1>1
    <3>2. recorded'[q] = (IF q = s THEN recorded[q] - 1 ELSE recorded[q])
      BY <1>1, <2>1
    <3> QED BY <2>1, <3>1, <3>2
  <2> QED BY <1>1, <2>2, <2>3 DEF GrantsInv, WritesAreGranted
<1> QED BY <1>2, <1>3

(* However many tasks race for a grant, are sent again, canceled, evicted  *)
(* or lost with the process, every write asked of the daemon used up a     *)
(* grant of its own (LocalOperatorApprovalGate.consume).                   *)
THEOREM A2AWritesAreGranted == A2ASpec => []WritesAreGranted
<1>1. A2AInit => GrantsInv
  BY DEF A2AInit, GrantsInv, WritesAreGranted
<1>2. ASSUME GrantsInv, [A2ANext]_a2aVars PROVE GrantsInv'
  <2>1. ASSUME UNCHANGED <<grants, recorded, dispatched>> PROVE GrantsInv'
    BY <1>2, <2>1 DEF GrantsInv, WritesAreGranted
  <2>2. ASSUME NEW s \in Subjects \cup {Read}, NEW t, SendNew(s) \/ SendMore(t, s) PROVE GrantsInv'
    <3>1. ASSUME ProcessEnds, UNCHANGED recorded PROVE GrantsInv'
      BY <1>2, <3>1, ProcessEndsKeeps
    <3> QED BY <1>2, <2>2, <3>1, ExecutesKeeps DEF SendNew, SendMore
  <2>3. ASSUME NEW s \in Subjects, RecordGrant(s) \/ RevokeGrant(s) PROVE GrantsInv'
    BY <1>2, <2>3, GrantStep
  <2>4. CASE SendNewInvalid \/ StartPaging \/ ListPage
    BY <2>1, <2>4 DEF SendNewInvalid, StartPaging, ListPage
  <2>5. CASE \E t \in TaskIds : SendMoreInvalid(t) \/ CancelTask(t)
    BY <2>1, <2>5 DEF SendMoreInvalid, CancelTask
  <2>6. CASE \E x \in execs : \/ DaemonAnswered(x)
                              \/ \E st \in FailureStates : DaemonUnanswered(x, st)
    <3>1. PICK x \in execs, st \in FailureStates \cup {"completed"} : Settles(x, st)
      BY <2>6 DEF DaemonAnswered, DaemonUnanswered
    <3>2. CASE ProcessEnds /\ UNCHANGED recorded
      BY <1>2, <3>2, ProcessEndsKeeps
    <3>3. CASE UNCHANGED <<grants, recorded, dispatched>>
      BY <2>1, <3>3
    <3> QED BY <3>1, <3>2, <3>3 DEF Settles
  <2>7. CASE UNCHANGED a2aVars
    BY <2>1, <2>7 DEF a2aVars
  <2> QED BY <1>2, <2>2, <2>3, <2>4, <2>5, <2>6, <2>7 DEF A2ANext
<1>3. GrantsInv => WritesAreGranted
  BY DEF GrantsInv
<1> QED BY <1>1, <1>2, <1>3, PTL DEF A2ASpec

-----------------------------------------------------------------------------
(* Run events: what a follower is told of a run, and what it is told that  *)
(* it was not.                                                             *)

Ascending(s) == \A i, j \in 1..Len(s) : i < j => s[i] < s[j]
Among(k, s) == \E i \in 1..Len(s) : s[i] = k

EventLog == [kinds : Seq(BOOLEAN), retained : Seq(Nat), closed : BOOLEAN, truncated : BOOLEAN]

(* A log keeps its events in order, and all of them unless it says it lost *)
(* some.                                                                   *)
LogFits(log) ==
    /\ log \in EventLog
    /\ Ascending(log.retained)
    /\ \A i \in 1..Len(log.retained) : log.retained[i] < Len(log.kinds)
    /\ ~log.truncated =>
          \A k \in 0..(Len(log.kinds) - 1) : log.kinds[k + 1] => Among(k, log.retained)

EventStream == [run : Runs, since : Nat, seen : Seq(Nat), told : BOOLEAN, caller : BOOLEAN,
             last : {"running", "over"},
             state : {"following", "silenced", "ended", "unlogged", "cut"}]

(* Whose frames have to be complete. *)
Accountable(s) == s.state = "following" \/ (s.state = "ended" /\ s.last = "over" /\ ~s.caller)
Complete(s, kinds) ==
    s.told \/ \A k \in 0..(Len(kinds) - 1) : k >= s.since /\ kinds[k + 1] => Among(k, s.seen)

(* A response is of a run that was started, has its frames in order and    *)
(* below the next index, says `over' only of a run that is, and owes       *)
(* nothing it has not told.                                                *)
ResponseFits(s, kinds, record) ==
    /\ s \in EventStream
    /\ record # Nothing
    /\ Ascending(s.seen)
    /\ \A i \in 1..Len(s.seen) : s.seen[i] < Len(kinds)
    /\ s.last = "over" => record = "over"
    /\ Accountable(s) => Complete(s, kinds)

LogsFit == \A r \in Runs : records[r] # Nothing => LogFits(logs[r])
ResponsesFit ==
    \A f \in Streams : streams[f] # Nothing =>
       ResponseFits(streams[f], logs[streams[f].run].kinds, records[streams[f].run])
RunEventsInv ==
    /\ records \in [Runs -> {Nothing, "running", "over"}]
    /\ DOMAIN logs = Runs /\ DOMAIN streams = Streams
    /\ LogsFit
    /\ ResponsesFit

(* A set of positions has a first one. *)
LEMMA FirstPosition ==
    ASSUME NEW T \in SUBSET Nat, T # {}
    PROVE  \E i \in T : \A j \in T : i <= j
<1>1. PICK i \in T : \A j \in T : ~(<<j, i>> \in OpToRel(<, Nat))
  BY NatLessThanWellFounded, WFMin
<1>2. \A j \in T : ~(j < i)
  BY <1>1 DEF OpToRel
<1> QED BY <1>2

(* One more event: the log keeps its order, and its promise. *)
LEMMA PublishedFits ==
    ASSUME NEW log, LogFits(log), NEW kind \in BOOLEAN
    PROVE  LET new == Published(log, kind) IN
           /\ LogFits(new)
           /\ new.kinds \in Seq(BOOLEAN) /\ Len(new.kinds) = Len(log.kinds) + 1
           /\ \A i \in 1..Len(log.kinds) : new.kinds[i] = log.kinds[i]
<1>1. PICK n : n = Len(log.kinds)
  OBVIOUS
<1>2. /\ log \in EventLog /\ log.kinds \in Seq(BOOLEAN) /\ log.retained \in Seq(Nat) /\ n \in Nat
      /\ log.truncated \in BOOLEAN
  BY <1>1 DEF LogFits, EventLog
<1>3. PICK more : more = IF kind THEN Append(log.retained, n) ELSE log.retained
  OBVIOUS
<1>4. PICK kept : kept = KeepLast(more)
  OBVIOUS
<1>5. PICK lost1 : lost1 = (log.truncated \/ Len(more) > MaxRetained)
  OBVIOUS
<1>6. PICK kinds : kinds = Append(log.kinds, kind)
  OBVIOUS
<1>7. PICK new : new = [log EXCEPT !.kinds = kinds, !.retained = kept, !.truncated = lost1]
  OBVIOUS
<1>8. Published(log, kind) = new
  BY <1>1, <1>3, <1>4, <1>5, <1>6, <1>7 DEF Published
<1>9. /\ more \in Seq(Nat) /\ Ascending(more)
      /\ \A i \in 1..Len(more) : more[i] < n + 1
      /\ \A k \in 0..(n - 1) : Among(k, log.retained) => Among(k, more)
      /\ kind => Among(n, more)
  <2>1. CASE kind
    <3>0. PICK m \in Nat : m = Len(log.retained)
      BY <1>2
    <3>1. /\ more \in Seq(Nat) /\ Len(more) = m + 1
          /\ \A i \in 1..m : more[i] = log.retained[i]
          /\ more[m + 1] = n
      BY <1>2, <1>3, <2>1, <3>0, AppendProperties
    <3>2. \A i \in 1..m : more[i] \in Nat /\ more[i] < n
      <4>1. \A i \in 1..m : log.retained[i] \in Nat
        BY <1>2, <3>0
      <4>2. \A i \in 1..m : log.retained[i] < n
        BY <1>1, <3>0 DEF LogFits
      <4> QED BY <3>1, <4>1, <4>2
    <3>3. \A i \in 1..(m + 1) : i \in 1..m \/ i = m + 1
      OBVIOUS
    <3>4. ASSUME NEW i \in 1..Len(more) PROVE more[i] < n + 1
      <4>1. i \in 1..m \/ i = m + 1
        BY <3>1, <3>3
      <4> QED BY <1>2, <3>1, <3>2, <4>1
    <3>5. Ascending(more)
      <4>1. SUFFICES ASSUME NEW i \in 1..(m + 1), NEW j \in 1..(m + 1), i < j
                     PROVE  more[i] < more[j]
        BY <3>1 DEF Ascending
      <4>2. i \in 1..m
        BY <4>1
      <4>3. CASE j = m + 1
        BY <3>1, <3>2, <4>2, <4>3
      <4>4. CASE j \in 1..m
        BY <3>0, <3>1, <4>1, <4>2, <4>4 DEF LogFits, Ascending
      <4> QED BY <4>3, <4>4
    <3>6. ASSUME NEW k \in 0..(n - 1), Among(k, log.retained) PROVE Among(k, more)
      <4>1. PICK i \in 1..m : log.retained[i] = k
        BY <3>0, <3>6 DEF Among
      <4>2. i \in 1..Len(more)
        BY <3>1, <4>1
      <4> QED BY <3>1, <4>1, <4>2 DEF Among
    <3>7. Among(n, more)
      <4>1. m + 1 \in 1..Len(more)
        BY <3>1
      <4> QED BY <3>1, <4>1 DEF Among
    <3> QED BY <3>1, <3>4, <3>5, <3>6, <3>7
  <2>2. CASE ~kind
    <3>1. more = log.retained
      BY <1>3, <2>2
    <3>2. \A i \in 1..Len(more) : more[i] < n + 1
      BY <1>1, <1>2, <3>1 DEF LogFits
    <3> QED BY <1>1, <1>2, <2>2, <3>1, <3>2 DEF LogFits
  <2> QED BY <2>1, <2>2
<1>10. /\ kept \in Seq(Nat) /\ Ascending(kept)
       /\ \A i \in 1..Len(kept) : kept[i] < n + 1
       /\ Len(more) <= MaxRetained => kept = more
  <2>1. CASE Len(more) > MaxRetained
    <3>1. more # <<>>
      BY <1>9, <2>1, LimitsAssumption
    <3>2. /\ kept \in Seq(Nat) /\ Len(kept) = Len(more) - 1
          /\ \A i \in 1..Len(kept) : kept[i] = more[i + 1]
      BY <1>4, <1>9, <2>1, <3>1, HeadTailProperties DEF KeepLast
    <3>3. Len(more) \in Nat
      BY <1>9
    <3>4. ASSUME NEW i \in 1..Len(kept)
          PROVE  kept[i] = more[i + 1] /\ i + 1 \in 1..Len(more) /\ i \in Int
      <4>1. i + 1 \in 1..Len(more)
        BY <3>2, <3>3
      <4> QED BY <3>2, <4>1
    <3>7. Ascending(kept)
      <4>1. SUFFICES ASSUME NEW i \in 1..Len(kept), NEW j \in 1..Len(kept), i < j
                     PROVE  kept[i] < kept[j]
        BY DEF Ascending
      <4>2. i + 1 < j + 1
        BY <3>4, <4>1
      <4> QED BY <1>9, <3>4, <4>2 DEF Ascending
    <3>5. \A i \in 1..Len(kept) : kept[i] < n + 1
      BY <1>9, <3>4
    <3>6. ~(Len(more) <= MaxRetained)
      BY <2>1, <3>3, LimitsAssumption
    <3> QED BY <3>2, <3>5, <3>6, <3>7
  <2>2. CASE ~(Len(more) > MaxRetained)
    BY <1>4, <1>9, <2>2 DEF KeepLast
  <2> QED BY <2>1, <2>2
<1>11. /\ kinds \in Seq(BOOLEAN) /\ Len(kinds) = n + 1 /\ kinds[n + 1] = kind
       /\ \A i \in 1..n : kinds[i] = log.kinds[i]
  BY <1>1, <1>2, <1>6, AppendProperties
<1>12. lost1 \in BOOLEAN
  BY <1>5
<1>13. /\ new \in EventLog /\ new.kinds = kinds /\ new.retained = kept
       /\ new.truncated = lost1
  BY <1>2, <1>7, <1>10, <1>11, <1>12 DEF EventLog
<1>14. ASSUME ~lost1, NEW k \in 0..n, kinds[k + 1] PROVE Among(k, kept)
  <2>1. ~log.truncated /\ ~(Len(more) > MaxRetained)
    BY <1>5, <1>14
  <2>2. kept = more
    BY <1>4, <2>1 DEF KeepLast
  <2>3. CASE k = n
    BY <1>9, <1>11, <1>14, <2>2, <2>3
  <2>4. CASE k \in 0..(n - 1)
    <3>1. log.kinds[k + 1]
      BY <1>2, <1>11, <1>14, <2>4
    <3> QED BY <1>1, <1>9, <2>1, <2>2, <2>4, <3>1 DEF LogFits
  <2> QED BY <1>2, <2>3, <2>4
<1>15. LogFits(new)
  <2>1. (n + 1) - 1 = n
    BY <1>2
  <2> QED BY <1>10, <1>11, <1>13, <1>14, <2>1 DEF LogFits
<1> QED BY <1>1, <1>8, <1>11, <1>13, <1>15

(* A response with the run, the cursor, the `truncated' frame and the      *)
(* asker of another.                                                       *)
SameAsker(new, s) ==
    /\ new \in EventStream /\ new.run = s.run /\ new.since = s.since /\ new.told = s.told
    /\ new.caller = s.caller

LEMMA NumberedIsSeq ==
    ASSUME NEW S, NEW n \in Nat, NEW f \in [1..n -> S]
    PROVE  f \in Seq(S)
  BY SeqDef, Zenon

(* What a listener of a log hears: the next n indices. *)
LEMMA HearsAll ==
    ASSUME NEW s, NEW kinds \in Seq(BOOLEAN), NEW more \in Seq(BOOLEAN), NEW record,
           NEW n \in Nat, Len(more) = Len(kinds) + n,
           \A i \in 1..Len(kinds) : more[i] = kinds[i],
           ResponseFits(s, kinds, record),
           NEW tail, tail = [i \in 1..n |-> Len(kinds) + i - 1],
           NEW new, SameAsker(new, s), new.seen = s.seen \o tail, new.state = s.state,
           new.last = s.last
    PROVE  ResponseFits(new, more, record)
<1>1. PICK len : len = Len(kinds)
  OBVIOUS
<1>2. tail = [i \in 1..n |-> len + i - 1]
  BY <1>1
<1>3. PICK seen : seen = s.seen \o tail
  OBVIOUS
<1>4. len \in Nat /\ s \in EventStream /\ s.seen \in Seq(Nat) /\ Len(s.seen) \in Nat
  BY <1>1 DEF ResponseFits, EventStream
<1>5. tail \in Seq(Nat) /\ Len(tail) = n /\ \A i \in 1..n : tail[i] = len + i - 1
  <2>1. \A i \in 1..n : len + i - 1 \in Nat
    BY <1>4
  <2>2. tail \in [1..n -> Nat]
    BY <1>2, <2>1
  <2>3. tail \in Seq(Nat)
    BY <2>2, NumberedIsSeq
  <2>4. \A i \in 1..n : tail[i] = len + i - 1
    BY <1>2
  <2>5. DOMAIN tail = 1..n /\ DOMAIN tail = 1..Len(tail) /\ Len(tail) \in Nat
    BY <2>2, <2>3
  <2>6. Len(tail) = n
    BY <2>5
  <2> QED BY <2>3, <2>4, <2>6
<1>m. PICK m \in Nat : m = Len(s.seen)
  BY <1>4
<1>6. /\ seen \in Seq(Nat) /\ Len(seen) = m + n
      /\ \A i \in 1..m : seen[i] = s.seen[i]
      /\ \A i \in 1..n : seen[m + i] = len + i - 1
  <2>1. /\ seen \in Seq(Nat) /\ Len(seen) = m + n
        /\ \A i \in 1..(m + n) : seen[i] = IF i <= m THEN s.seen[i] ELSE tail[i - m]
    BY <1>3, <1>4, <1>5, <1>m, ConcatProperties
  <2>2. ASSUME NEW i \in 1..m PROVE seen[i] = s.seen[i]
    <3>1. i \in 1..(m + n) /\ i <= m
      OBVIOUS
    <3> QED BY <2>1, <3>1
  <2>3. ASSUME NEW i \in 1..n PROVE seen[m + i] = len + i - 1
    <3>1. m + i \in 1..(m + n) /\ ~(m + i <= m) /\ (m + i) - m = i
      OBVIOUS
    <3>2. seen[m + i] = tail[i]
      BY <2>1, <3>1
    <3> QED BY <1>5, <3>2
  <2> QED BY <2>1, <2>2, <2>3
<1>8. /\ new \in EventStream /\ new.seen = seen /\ new.since = s.since /\ new.told = s.told
      /\ new.state = s.state /\ new.last = s.last /\ new.caller = s.caller /\ new.run = s.run
  BY <1>3 DEF SameAsker
<1>9. \A i \in 1..m : seen[i] \in Nat /\ seen[i] < len
  <2>1. \A i \in 1..m : s.seen[i] < len
    BY <1>1, <1>m DEF ResponseFits
  <2>2. \A i \in 1..m : s.seen[i] \in Nat
    BY <1>4, <1>m
  <2> QED BY <1>6, <2>1, <2>2
<1>p. ASSUME NEW i \in 1..(m + n), i \notin 1..m
      PROVE  \E d \in 1..n : i = m + d
  <2>1. i - m \in 1..n /\ i = m + (i - m)
    BY <1>p
  <2> QED BY <2>1
<1>10. Ascending(seen)
  <2>1. SUFFICES ASSUME NEW i \in 1..(m + n), NEW j \in 1..(m + n), i < j
                 PROVE  seen[i] < seen[j]
    BY <1>6 DEF Ascending
  <2>2. CASE j \in 1..m
    <3>1. i \in 1..m
      BY <2>1, <2>2
    <3> QED BY <1>6, <1>m, <2>1, <2>2, <3>1 DEF ResponseFits, Ascending
  <2>3. CASE j \notin 1..m
    <3>1. PICK d \in 1..n : j = m + d
      BY <1>p, <2>3
    <3>2. seen[j] = len + d - 1
      BY <1>6, <3>1
    <3>3. CASE i \in 1..m
      BY <1>4, <1>9, <3>2, <3>3
    <3>4. CASE i \notin 1..m
      <4>1. PICK e \in 1..n : i = m + e
        BY <1>p, <3>4
      <4>2. seen[i] = len + e - 1
        BY <1>6, <4>1
      <4> QED BY <1>4, <2>1, <3>1, <3>2, <4>1, <4>2
    <3> QED BY <3>3, <3>4
  <2> QED BY <2>2, <2>3
<1>11. ASSUME NEW i \in 1..Len(seen) PROVE seen[i] < Len(more)
  <2>1. Len(more) = len + n /\ i \in 1..(m + n)
    BY <1>1, <1>6
  <2>2. CASE i \in 1..m
    BY <1>4, <1>9, <2>1, <2>2
  <2>3. CASE i \notin 1..m
    <3>1. PICK d \in 1..n : i = m + d
      BY <1>p, <2>1, <2>3
    <3>2. seen[i] = len + d - 1
      BY <1>6, <3>1
    <3> QED BY <1>4, <2>1, <3>2
  <2> QED BY <2>2, <2>3
<1>12. ASSUME Complete(s, kinds) PROVE Complete(new, more)
  <2>1. SUFFICES ASSUME ~s.told, NEW k \in 0..(len + n - 1), k >= s.since, more[k + 1]
                 PROVE  Among(k, seen)
    <3>1. Len(more) - 1 = len + n - 1
      BY <1>1
    <3> QED BY <1>8, <3>1 DEF Complete
  <2>2. CASE k \in 0..(len - 1)
    <3>1. kinds[k + 1]
      <4>1. k + 1 \in 1..Len(kinds)
        BY <1>1, <1>4, <2>2
      <4> QED BY <2>1, <4>1
    <3>2. PICK i \in 1..m : s.seen[i] = k
      BY <1>1, <1>12, <1>m, <2>1, <2>2, <3>1 DEF Complete, Among
    <3>3. i \in 1..Len(seen)
      BY <1>6
    <3> QED BY <1>6, <3>2, <3>3 DEF Among
  <2>3. CASE k \in len..(len + n - 1)
    <3>1. PICK d \in 1..n : d = (k - len) + 1
      BY <1>4, <2>3
    <3>2. m + d \in 1..Len(seen)
      BY <1>6
    <3>3. seen[m + d] = k
      <4>1. len + d - 1 = k
        BY <1>4, <2>3, <3>1
      <4> QED BY <1>6, <4>1
    <3> QED BY <3>2, <3>3 DEF Among
  <2> QED BY <1>4, <2>1, <2>2, <2>3
<1> QED BY <1>8, <1>10, <1>11, <1>12 DEF ResponseFits, Accountable

(* The verdict of #settleRun is up to two more events. *)
LEMMA VerdictFits ==
    ASSUME NEW log, LogFits(log), NEW n \in 0..2
    PROVE  LET new == PublishedVerdict(log, n) IN
           /\ LogFits(new)
           /\ Len(new.kinds) = Len(log.kinds) + n
           /\ \A i \in 1..Len(log.kinds) : new.kinds[i] = log.kinds[i]
<1>1. PICK one : one = Published(log, TRUE)
  OBVIOUS
<1>2. PICK two : two = Published(one, TRUE)
  OBVIOUS
<1>3. /\ LogFits(one) /\ Len(one.kinds) = Len(log.kinds) + 1
      /\ \A i \in 1..Len(log.kinds) : one.kinds[i] = log.kinds[i]
  BY <1>1, PublishedFits
<1>4. /\ LogFits(two) /\ Len(two.kinds) = Len(one.kinds) + 1
      /\ \A i \in 1..Len(one.kinds) : two.kinds[i] = one.kinds[i]
  BY <1>2, <1>3, PublishedFits
<1>5. Len(log.kinds) \in Nat
  BY DEF LogFits, EventLog
<1>8. CASE n = 0
  BY <1>5, <1>8 DEF PublishedVerdict
<1>9. CASE n = 1
  <2>1. PublishedVerdict(log, n) = one
    BY <1>1, <1>9 DEF PublishedVerdict
  <2> QED BY <1>3, <1>9, <2>1
<1>10. CASE n = 2
  <2>1. PublishedVerdict(log, n) = two
    BY <1>1, <1>2, <1>10 DEF PublishedVerdict
  <2>2. \A i \in 1..Len(log.kinds) : i \in 1..Len(one.kinds)
    BY <1>3, <1>5
  <2>3. Len(two.kinds) = Len(log.kinds) + 2
    BY <1>3, <1>4, <1>5
  <2> QED BY <1>3, <1>4, <1>10, <2>1, <2>2, <2>3
<1> QED BY <1>8, <1>9, <1>10

(* A log that is closed has the same events. *)
LEMMA ClosedFits ==
    ASSUME NEW log, LogFits(log)
    PROVE  LogFits(ClosedLog(log)) /\ ClosedLog(log).kinds = log.kinds
<1>1. PICK new : new = ClosedLog(log)
  OBVIOUS
<1>2. log \in EventLog
  BY DEF LogFits
<1>3. /\ new \in EventLog /\ new.kinds = log.kinds /\ new.retained = log.retained
      /\ new.truncated = log.truncated
  BY <1>1, <1>2 DEF ClosedLog, EventLog
<1> QED BY <1>1, <1>3 DEF LogFits

(* A response nobody writes to, when its run ends. *)
LEMMA RecordEnds ==
    ASSUME NEW s, NEW kinds, NEW record, ResponseFits(s, kinds, record)
    PROVE  ResponseFits(s, kinds, "over")
  BY LimitsAssumption DEF ResponseFits

(* A response that listens no more and has not promised anything. *)
LEMMA Unheard ==
    ASSUME NEW s, NEW kinds \in Seq(BOOLEAN), NEW more \in Seq(BOOLEAN), NEW record, NEW n \in Nat,
           Len(more) = Len(kinds) + n, ResponseFits(s, kinds, record), ~Accountable(s)
    PROVE  ResponseFits(s, more, record)
<1>1. ASSUME NEW i \in 1..Len(s.seen) PROVE s.seen[i] < Len(more)
  <2>1. s.seen[i] \in Nat /\ s.seen[i] < Len(kinds) /\ Len(kinds) \in Nat
    BY DEF ResponseFits, EventStream
  <2> QED BY <2>1
<1> QED BY <1>1 DEF ResponseFits

(* A response ends, with the record as it is, if that was its turn; or is  *)
(* left by its listener.                                                   *)
LEMMA ResponseEnds ==
    ASSUME NEW s, NEW kinds, NEW record, ResponseFits(s, kinds, record),
           NEW status \in {"running", "over"}, status = "over" => record = "over",
           s.caller \/ s.state = "following",
           NEW new, SameAsker(new, s), new.seen = s.seen, new.state = "ended", new.last = status
    PROVE  ResponseFits(new, kinds, record)
  BY DEF ResponseFits, Accountable, Complete, SameAsker

(* A response loses its listener. *)
LEMMA ResponseStops ==
    ASSUME NEW s, NEW kinds, NEW record, ResponseFits(s, kinds, record),
           NEW state \in {"silenced", "cut"}, NEW new, new = [s EXCEPT !.state = state]
    PROVE  ResponseFits(new, kinds, record) /\ new.run = s.run
<1>1. s \in EventStream
  BY DEF ResponseFits
<1>2. /\ new \in EventStream /\ new.seen = s.seen /\ new.since = s.since /\ new.told = s.told
      /\ new.state = state /\ new.last = s.last /\ new.caller = s.caller /\ new.run = s.run
  BY <1>1 DEF EventStream
<1> QED BY <1>2 DEF ResponseFits, Accountable

(* One response, when the close listeners of a log are called, and when    *)
(* its caller is answered.                                                 *)
Released(s, r, status) ==
    IF s # Nothing /\ s.run = r /\ s.state = "following"
    THEN IF s.caller THEN [s EXCEPT !.state = "silenced"]
         ELSE [s EXCEPT !.state = "ended", !.last = status]
    ELSE s
Answered(s, r, status) ==
    IF s # Nothing /\ s.run = r /\ s.caller /\ s.state \in {"following", "silenced"}
    THEN [s EXCEPT !.state = "ended", !.last = status]
    ELSE s

(* Both leave a response that fits. *)
LEMMA ReleasedFits ==
    ASSUME NEW s, NEW r, NEW status \in {"running", "over"}, NEW kinds, NEW record,
           ResponseFits(s, kinds, record), status = "over" => record = "over"
    PROVE  /\ Released(s, r, status).run = s.run /\ ResponseFits(Released(s, r, status), kinds, record)
           /\ Answered(s, r, status).run = s.run /\ ResponseFits(Answered(s, r, status), kinds, record)
<1>0. s \in EventStream
  BY DEF ResponseFits
<1>1. ASSUME NEW new, new = [s EXCEPT !.state = "ended", !.last = status],
             s.caller \/ s.state = "following"
      PROVE  new.run = s.run /\ ResponseFits(new, kinds, record)
  <2>1. SameAsker(new, s) /\ new.seen = s.seen /\ new.state = "ended" /\ new.last = status
    BY <1>0, <1>1 DEF SameAsker, EventStream
  <2>2. ResponseFits(new, kinds, record)
    BY <1>1, <2>1, ResponseEnds
  <2> QED BY <2>1, <2>2 DEF SameAsker
<1>2. ASSUME NEW new, new = [s EXCEPT !.state = "silenced"]
      PROVE  new.run = s.run /\ ResponseFits(new, kinds, record)
  BY <1>2, ResponseStops
<1>3. Released(s, r, status).run = s.run /\ ResponseFits(Released(s, r, status), kinds, record)
  <2>1. PICK new : new = Released(s, r, status)
    OBVIOUS
  <2>2. \/ new = s \/ new = [s EXCEPT !.state = "silenced"]
        \/ new = [s EXCEPT !.state = "ended", !.last = status] /\ s.state = "following"
    BY <2>1 DEF Released
  <2> QED BY <1>1, <1>2, <2>1, <2>2
<1>4. Answered(s, r, status).run = s.run /\ ResponseFits(Answered(s, r, status), kinds, record)
  <2>1. PICK new : new = Answered(s, r, status)
    OBVIOUS
  <2>2. \/ new = s
        \/ new = [s EXCEPT !.state = "ended", !.last = status] /\ s.caller
    BY <2>1 DEF Answered
  <2> QED BY <1>1, <2>1, <2>2
<1> QED BY <1>3, <1>4

(* What is known of one response. *)
LEMMA ResponseFacts ==
    ASSUME RunEventsInv, NEW f \in Streams, streams[f] # Nothing
    PROVE  /\ streams[f].run \in Runs /\ records[streams[f].run] \in {"running", "over"}
           /\ LogFits(logs[streams[f].run])
           /\ ResponseFits(streams[f], logs[streams[f].run].kinds, records[streams[f].run])
<1>1. ResponseFits(streams[f], logs[streams[f].run].kinds, records[streams[f].run])
  BY DEF RunEventsInv, ResponsesFit
<1>2. streams[f].run \in Runs /\ records[streams[f].run] # Nothing
  BY <1>1 DEF ResponseFits, EventStream
<1> QED BY <1>1, <1>2 DEF RunEventsInv, LogsFit

(* The listeners of a run that generates hear its next n events, and the   *)
(* others owe nothing of them.                                             *)
LEMMA HeardFits ==
    ASSUME RunEventsInv, NEW r \in Runs, Generating(r), NEW n \in Nat, NEW more \in Seq(BOOLEAN),
           Len(more) = Len(logs[r].kinds) + n,
           \A i \in 1..Len(logs[r].kinds) : more[i] = logs[r].kinds[i],
           NEW f \in Streams, NEW new, new = Heard(r, n)[f], new # Nothing
    PROVE  /\ streams[f] # Nothing /\ new.run = streams[f].run
           /\ new.run = r => ResponseFits(new, more, "running")
           /\ new.run # r => new = streams[f]
<1>1. records[r] = "running"
  BY DEF Generating
<1>2. CASE Following(f, r)
  <2>1. streams[f] # Nothing /\ streams[f].run = r
    BY <1>2 DEF Following
  <2>2. new = [streams[f] EXCEPT !.seen = @ \o [i \in 1..n |-> Len(logs[r].kinds) + i - 1]]
    BY <1>2 DEF Heard
  <2>3. ResponseFits(streams[f], logs[r].kinds, "running") /\ LogFits(logs[r])
    BY <1>1, <2>1, ResponseFacts
  <2>4. logs[r].kinds \in Seq(BOOLEAN)
    BY <2>3 DEF LogFits, EventLog
  <2>5. ResponseFits(new, more, "running")
    <3>1. PICK s, kinds, tail : /\ s = streams[f] /\ kinds = logs[r].kinds
                                /\ tail = [i \in 1..n |-> Len(kinds) + i - 1]
      OBVIOUS
    <3>5. new = [s EXCEPT !.seen = s.seen \o tail]
      BY <2>2, <3>1
    <3>6. \A i \in 1..n : Len(kinds) + i - 1 \in Nat
      BY <2>4, <3>1
    <3>7. tail \in Seq(Nat)
      BY <3>1, <3>6, SeqDef
    <3>8. s \in EventStream /\ s.seen \o tail \in Seq(Nat)
      BY <2>3, <3>1, <3>7, ConcatProperties DEF ResponseFits, EventStream
    <3>2. SameAsker(new, s) /\ new.seen = s.seen \o tail /\ new.state = s.state /\ new.last = s.last
      BY <3>5, <3>8 DEF SameAsker, EventStream
    <3>3. ResponseFits(s, kinds, "running") /\ kinds \in Seq(BOOLEAN)
      BY <2>3, <2>4, <3>1
    <3>4. Len(more) = Len(kinds) + n /\ \A i \in 1..Len(kinds) : more[i] = kinds[i]
      BY <3>1
    <3> QED BY <3>1, <3>2, <3>3, <3>4, HearsAll
  <2>6. new.run = r
    BY <2>1, <2>2, <2>3 DEF ResponseFits, EventStream
  <2> QED BY <2>1, <2>5, <2>6
<1>3. CASE ~Following(f, r)
  <2>1. new = streams[f]
    BY <1>3 DEF Heard
  <2>2. ASSUME streams[f].run = r PROVE ResponseFits(streams[f], more, "running")
    <3>1. ResponseFits(streams[f], logs[r].kinds, "running") /\ LogFits(logs[r])
      BY <1>1, <2>1, <2>2, ResponseFacts
    <3>2. logs[r].kinds \in Seq(BOOLEAN)
      BY <3>1 DEF LogFits, EventLog
    <3>3. ~Accountable(streams[f])
      <4>1. streams[f].state # "following"
        BY <1>3, <2>1, <2>2 DEF Following
      <4>2. streams[f].last # "over"
        BY <3>1 DEF ResponseFits
      <4> QED BY <4>1, <4>2 DEF Accountable
    <3> QED BY <3>1, <3>2, <3>3, Unheard
  <2> QED BY <2>1, <2>2
<1> QED BY <1>2, <1>3

(* executeRun emits an event. *)
LEMMA EmitKeeps ==
    ASSUME RunEventsInv, NEW r \in Runs, NEW kind \in BOOLEAN, Emit(r, kind)
    PROVE  RunEventsInv'
<1>1. /\ Generating(r) /\ records[r] = "running" /\ records' = records
      /\ logs' = [logs EXCEPT ![r] = Published(logs[r], kind)]
      /\ streams' = Heard(r, 1)
  BY DEF Emit, Generating
<1>2. LogFits(logs[r])
  BY <1>1, LimitsAssumption DEF RunEventsInv, LogsFit
<1>3. PICK new : new = Published(logs[r], kind)
  OBVIOUS
<1>4. /\ LogFits(new)
      /\ new.kinds \in Seq(BOOLEAN) /\ Len(new.kinds) = Len(logs[r].kinds) + 1
      /\ \A i \in 1..Len(logs[r].kinds) : new.kinds[i] = logs[r].kinds[i]
  BY <1>2, <1>3, PublishedFits
<1>5. /\ DOMAIN logs' = Runs
      /\ logs'[r] = new /\ \A x \in Runs \ {r} : logs'[x] = logs[x]
  BY <1>1, <1>3, <1>4 DEF RunEventsInv, LogFits
<1>6. LogsFit'
  BY <1>1, <1>4, <1>5 DEF RunEventsInv, LogsFit
<1>8. DOMAIN streams' = Streams
  BY <1>1 DEF Heard
<1>9. ASSUME NEW f \in Streams, streams'[f] # Nothing
      PROVE  ResponseFits(streams'[f], logs'[streams'[f].run].kinds, records'[streams'[f].run])
  <2>1. /\ streams[f] # Nothing /\ streams'[f].run = streams[f].run
        /\ streams'[f].run = r => ResponseFits(streams'[f], new.kinds, "running")
        /\ streams'[f].run # r => streams'[f] = streams[f]
    BY <1>1, <1>4, <1>9, HeardFits
  <2> QED BY <1>1, <1>5, <2>1, ResponseFacts
<1>10. ResponsesFit'
  BY <1>9 DEF ResponsesFit
<1> QED BY <1>1, <1>5, <1>6, <1>8, <1>10 DEF RunEventsInv

(* #settleRun: its events are heard, the caller is answered and the log is *)
(* closed, whether or not the record could be stored.                      *)
LEMMA SettleKeeps ==
    ASSUME RunEventsInv, NEW r \in Runs, NEW n \in 0..2, SettleRun(r, n) \/ SettleThrows(r, n)
    PROVE  RunEventsInv'
<1>1. PICK status \in {"running", "over"} :
         /\ Generating(r) /\ records[r] = "running" /\ records' = [records EXCEPT ![r] = status]
         /\ logs' = [logs EXCEPT ![r] = ClosedLog(PublishedVerdict(logs[r], n))]
         /\ streams' = ReleaseFollowers(CallerAnswered(Heard(r, n), r, status), r, status)
  <2>1. records \in [Runs -> {Nothing, "running", "over"}]
    BY DEF RunEventsInv
  <2>2. CASE SettleRun(r, n)
    BY <2>2 DEF SettleRun, Generating
  <2>3. CASE SettleThrows(r, n)
    <3>1. records' = [records EXCEPT ![r] = "running"]
      BY <2>1, <2>3 DEF SettleThrows, Generating
    <3> QED BY <2>3, <3>1 DEF SettleThrows, Generating
  <2> QED BY <2>2, <2>3
<1>2. LogFits(logs[r]) /\ n \in Nat
  BY <1>1, LimitsAssumption DEF RunEventsInv, LogsFit
<1>3. PICK told : told = PublishedVerdict(logs[r], n)
  OBVIOUS
<1>4. PICK new : new = ClosedLog(told)
  OBVIOUS
<1>5. /\ LogFits(told) /\ Len(told.kinds) = Len(logs[r].kinds) + n
      /\ \A i \in 1..Len(logs[r].kinds) : told.kinds[i] = logs[r].kinds[i]
  BY <1>2, <1>3, VerdictFits
<1>6. LogFits(new) /\ new.kinds = told.kinds
  BY <1>4, <1>5, ClosedFits
<1>7. /\ DOMAIN logs' = Runs
      /\ logs'[r] = new /\ \A x \in Runs \ {r} : logs'[x] = logs[x]
  BY <1>1, <1>3, <1>4, <1>6 DEF RunEventsInv, LogFits
<1>8. /\ records' \in [Runs -> {Nothing, "running", "over"}]
      /\ records'[r] = status /\ \A x \in Runs \ {r} : records'[x] = records[x]
  BY <1>1 DEF RunEventsInv
<1>9. LogsFit'
  BY <1>6, <1>7, <1>8 DEF RunEventsInv, LogsFit
<1>10. told.kinds \in Seq(BOOLEAN)
  BY <1>5 DEF LogFits, EventLog
<1>11. DOMAIN streams' = Streams
  BY <1>1 DEF ReleaseFollowers
<1>12. ASSUME NEW f \in Streams, streams'[f] # Nothing
       PROVE  ResponseFits(streams'[f], logs'[streams'[f].run].kinds, records'[streams'[f].run])
  <2>1. PICK heard, answered : heard = Heard(r, n) /\ answered = CallerAnswered(heard, r, status)
    OBVIOUS
  <2>2. streams'[f] = ReleaseFollowers(answered, r, status)[f]
    BY <1>1, <2>1
  <2>3. heard[f] # Nothing =>
           /\ streams[f] # Nothing /\ heard[f].run = streams[f].run
           /\ heard[f].run = r => ResponseFits(heard[f], told.kinds, "running")
           /\ heard[f].run # r => heard[f] = streams[f]
    BY <1>1, <1>2, <1>5, <1>10, <2>1, HeardFits
  <2>4. CASE heard[f] # Nothing /\ heard[f].run = r
    <3>1. ResponseFits(heard[f], told.kinds, status)
      BY <2>3, <2>4, RecordEnds
    <3>2. answered[f].run = r /\ ResponseFits(answered[f], told.kinds, status)
      <4>1. answered[f] = Answered(heard[f], r, status)
        BY <2>1 DEF CallerAnswered, Answered
      <4> QED BY <2>4, <3>1, <4>1, ReleasedFits
    <3>3. streams'[f].run = r /\ ResponseFits(streams'[f], told.kinds, status)
      <4>1. streams'[f] = Released(answered[f], r, status)
        BY <2>2 DEF ReleaseFollowers, Released
      <4> QED BY <3>2, <4>1, ReleasedFits
    <3> QED BY <1>6, <1>7, <1>8, <3>3
  <2>5. CASE heard[f] = Nothing \/ heard[f].run # r
    <3>1. answered[f] = heard[f]
      BY <2>1, <2>5 DEF CallerAnswered
    <3>2. streams'[f] = heard[f]
      BY <2>2, <2>5, <3>1 DEF ReleaseFollowers
    <3>3. streams[f] # Nothing /\ streams'[f] = streams[f] /\ streams[f].run # r
      BY <1>12, <2>3, <2>5, <3>2
    <3> QED BY <1>7, <1>8, <3>3, ResponseFacts
  <2> QED BY <2>4, <2>5
<1>13. ResponsesFit'
  BY <1>12 DEF ResponsesFit
<1> QED BY <1>7, <1>8, <1>9, <1>11, <1>13 DEF RunEventsInv

(* The log of a run that starts has nothing to tell. *)
LEMMA FreshFits ==
    ASSUME NEW r \in Runs
    PROVE  LogFits(FreshLog) /\ ResponseFits(StreamRun(r), FreshLog.kinds, "running")
<1>1. PICK none : none = <<>>
  OBVIOUS
<1>2. none \in Seq(Nat) /\ none \in Seq(BOOLEAN) /\ Len(none) = 0
  BY <1>1
<1>3. Ascending(none) /\ \A i \in 1..Len(none) : FALSE
  BY <1>2 DEF Ascending
<1>4. /\ FreshLog \in EventLog /\ FreshLog.kinds = none /\ FreshLog.retained = none
  BY <1>1, <1>2 DEF FreshLog, EventLog
<1>5. \A k \in 0..(Len(none) - 1) : FALSE
  BY <1>2
<1>6. LogFits(FreshLog)
  BY <1>3, <1>4, <1>5 DEF LogFits
<1>7. PICK s : s = StreamRun(r)
  OBVIOUS
<1>8. /\ s \in EventStream /\ s.seen = none /\ s.last = "running"
  BY <1>1, <1>2, <1>7 DEF StreamRun, EventStream
<1>9. ResponseFits(s, none, "running")
  BY <1>3, <1>5, <1>8, LimitsAssumption DEF ResponseFits, Complete
<1> QED BY <1>4, <1>6, <1>7, <1>9

(* #startRun: a new log, perhaps a streaming caller, and the oldest log    *)
(* closed when there are too many.                                         *)
LEMMA StartRunKeeps ==
    ASSUME RunEventsInv, NEW r \in Runs, NEW caller, StartRun(r, caller)
    PROVE  RunEventsInv'
<1>1. PICK old, evicted, released :
         /\ records[r] = Nothing /\ records' = [records EXCEPT ![r] = "running"]
         /\ logs' = [x \in Runs |-> IF x = r THEN FreshLog
                                    ELSE IF x \in evicted THEN ClosedLog(logs[x]) ELSE logs[x]]
         /\ streams' = [f \in Streams |-> IF f = caller THEN StreamRun(r) ELSE released[f]]
         /\ released = streams \/ released = ReleaseFollowers(streams, old, records[old])
  BY DEF StartRun
<1>2. \A x \in Runs : records[x] # Nothing =>
         /\ x # r /\ LogFits(logs'[x]) /\ logs'[x].kinds = logs[x].kinds /\ records'[x] = records[x]
  <2>1. SUFFICES ASSUME NEW x \in Runs, records[x] # Nothing
                 PROVE  /\ x # r /\ LogFits(logs'[x]) /\ logs'[x].kinds = logs[x].kinds
                        /\ records'[x] = records[x]
    OBVIOUS
  <2>2. x # r /\ LogFits(logs[x]) /\ records'[x] = records[x]
    BY <1>1, <2>1 DEF RunEventsInv, LogsFit
  <2>3. logs'[x] = ClosedLog(logs[x]) \/ logs'[x] = logs[x]
    BY <1>1, <2>2
  <2> QED BY <2>2, <2>3, ClosedFits
<1>3. /\ logs'[r] = FreshLog /\ records'[r] = "running" /\ LogFits(FreshLog)
      /\ ResponseFits(StreamRun(r), FreshLog.kinds, "running")
  BY <1>1, FreshFits DEF RunEventsInv
<1>4. records' \in [Runs -> {Nothing, "running", "over"}]
  BY <1>1 DEF RunEventsInv
<1>5. LogsFit'
  <2>1. ASSUME NEW x \in Runs, records'[x] # Nothing PROVE LogFits(logs'[x])
    <3>1. x = r \/ records[x] # Nothing
      BY <1>1, <2>1 DEF RunEventsInv
    <3> QED BY <1>2, <1>3, <3>1
  <2> QED BY <2>1 DEF LogsFit
<1>6. DOMAIN logs' = Runs
  BY <1>1
<1>7. DOMAIN streams' = Streams
  BY <1>1
<1>8. ASSUME NEW f \in Streams, streams'[f] # Nothing
      PROVE  ResponseFits(streams'[f], logs'[streams'[f].run].kinds, records'[streams'[f].run])
  <2>1. CASE f = caller
    <3>1. streams'[f] = StreamRun(r)
      BY <1>1, <2>1
    <3>2. StreamRun(r).run = r
      BY DEF StreamRun
    <3> QED BY <1>3, <3>1, <3>2
  <2>2. CASE f # caller
    <3>1. streams'[f] = released[f]
      BY <1>1, <2>2
    <3>2. CASE released = streams
      <4>1. streams'[f] = streams[f] /\ streams[f] # Nothing
        BY <1>8, <3>1, <3>2
      <4>2. /\ streams[f].run \in Runs /\ records[streams[f].run] # Nothing
            /\ ResponseFits(streams[f], logs[streams[f].run].kinds, records[streams[f].run])
        BY <4>1, ResponseFacts, LimitsAssumption
      <4> QED BY <1>2, <4>1, <4>2
    <3>3. CASE released = ReleaseFollowers(streams, old, records[old])
      <4>1. PICK x, kinds, record : x = streams[f].run /\ kinds = logs[x].kinds /\ record = records[x]
        OBVIOUS
      <4>2. streams[f] # Nothing =>
               /\ x \in Runs /\ record \in {"running", "over"} /\ record # Nothing
               /\ ResponseFits(streams[f], kinds, record)
        BY <4>1, ResponseFacts, LimitsAssumption
      <4>3. streams[f] # Nothing /\ streams[f].run = old =>
               records[old] \in {"running", "over"} /\ (records[old] = "over" => record = "over")
        BY <4>1, <4>2
      <4>4. /\ streams[f] # Nothing /\ streams'[f].run = streams[f].run
            /\ ResponseFits(streams'[f], kinds, record)
        <5>1. streams'[f] = Released(streams[f], old, records[old])
          BY <3>1, <3>3 DEF ReleaseFollowers, Released
        <5>2. streams[f] # Nothing
          BY <1>8, <5>1 DEF Released
        <5>3. CASE streams[f].run = old
          BY <4>2, <4>3, <5>1, <5>2, <5>3, ReleasedFits
        <5>4. CASE streams[f].run # old
          BY <4>2, <5>1, <5>2, <5>4 DEF Released
        <5> QED BY <5>3, <5>4
      <4> QED BY <1>2, <4>1, <4>2, <4>4
    <3> QED BY <1>1, <3>2, <3>3
  <2> QED BY <2>1, <2>2
<1>9. ResponsesFit'
  BY <1>8 DEF ResponsesFit
<1> QED BY <1>4, <1>5, <1>6, <1>7, <1>9 DEF RunEventsInv

(* since: what a log still has at or above a cursor, in order; and that is *)
(* all there was, unless the log says it lost some.                        *)
LEMMA ReplayFits ==
    ASSUME NEW log, LogFits(log), NEW since \in Nat
    PROVE  LET seen == Replay(log, since) IN
           /\ seen \in Seq(Nat) /\ Ascending(seen)
           /\ \A i \in 1..Len(seen) : seen[i] < Len(log.kinds)
           /\ ~log.truncated => \A k \in 0..(Len(log.kinds) - 1) :
                 k >= since /\ log.kinds[k + 1] => Among(k, seen)
<1>1. PICK kept : kept = {i \in DOMAIN log.retained : log.retained[i] >= since}
  OBVIOUS
<1>2. PICK all, n : all = log.retained /\ n = Len(all)
  OBVIOUS
<1>3. /\ all \in Seq(Nat) /\ n \in Nat /\ DOMAIN all = 1..n /\ \A i \in 1..n : all[i] \in Nat
      /\ Len(log.kinds) \in Nat
  BY <1>2 DEF LogFits, EventLog
<1>4. Ascending(all) /\ \A i \in 1..n : all[i] < Len(log.kinds)
  BY <1>2 DEF LogFits
<1>5. ~log.truncated => \A k \in 0..(Len(log.kinds) - 1) : log.kinds[k + 1] => Among(k, all)
  BY <1>2 DEF LogFits
<1>6. CASE kept = {}
  <2>1. Replay(log, since) = <<>>
    BY <1>1, <1>6 DEF Replay
  <2>7. PICK seen : seen = <<>>
    OBVIOUS
  <2>2. seen = <<>> /\ seen \in Seq(Nat) /\ Len(seen) = 0
    BY <2>7
  <2>3. \A i \in 1..Len(seen) : FALSE
    BY <2>2
  <2>4. \A k \in Nat : k >= since => ~Among(k, all)
    BY <1>1, <1>2, <1>3, <1>6 DEF Among
  <2>5. \A k \in 0..(Len(log.kinds) - 1) : k \in Nat
    BY <1>3
  <2>6. Ascending(seen)
    BY <2>3 DEF Ascending
  <2> QED BY <1>5, <2>1, <2>2, <2>3, <2>4, <2>5, <2>6
<1>7. CASE kept # {}
  <2>1. PICK first : first = CHOOSE i \in kept : \A j \in kept : i <= j
    OBVIOUS
  <2>2. kept \in SUBSET Nat
    BY <1>1, <1>2, <1>3
  <2>3. first \in kept /\ \A j \in kept : first <= j
    <3>1. \E i \in kept : \A j \in kept : i <= j
      BY <1>7, <2>2, FirstPosition
    <3> QED BY <2>1, <3>1
  <2>4. first \in 1..n /\ first \in Int /\ first <= n
    BY <1>1, <1>2, <1>3, <2>3
  <2>5. PICK seen : seen = SubSeq(all, first, n)
    OBVIOUS
  <2>6. Replay(log, since) = seen
    BY <1>1, <1>2, <1>7, <2>1, <2>5 DEF Replay
  <2>7. PICK m \in Nat : m = n - first + 1
    BY <1>3, <2>4
  <2>8. seen \in Seq(Nat) /\ Len(seen) = m /\ \A i \in 1..m : seen[i] = all[first + i - 1]
    <3>1. \A i \in first..n : all[i] \in Nat
      BY <1>3, <2>4
    <3> QED BY <1>3, <2>4, <2>5, <2>7, <3>1, SubSeqProperties
  <2>9. ASSUME NEW i \in 1..m PROVE first + i - 1 \in 1..n
    BY <1>3, <2>4, <2>7
  <2>10. Ascending(seen)
    <3>1. SUFFICES ASSUME NEW i \in 1..m, NEW j \in 1..m, i < j PROVE seen[i] < seen[j]
      BY <2>8 DEF Ascending
    <3>2. first + i - 1 < first + j - 1
      BY <2>4, <3>1
    <3> QED BY <1>2, <1>4, <2>8, <2>9, <3>2 DEF Ascending
  <2>11. \A i \in 1..Len(seen) : seen[i] < Len(log.kinds)
    BY <1>4, <2>8, <2>9
  <2>12. ASSUME ~log.truncated, NEW k \in 0..(Len(log.kinds) - 1), k >= since, log.kinds[k + 1]
         PROVE  Among(k, seen)
    <3>1. PICK i \in 1..n : all[i] = k
      BY <1>2, <1>5, <2>12 DEF Among
    <3>2. i \in kept
      BY <1>1, <1>2, <1>3, <2>12, <3>1
    <3>3. first <= i
      BY <2>3, <3>2
    <3>4. PICK d \in 1..m : first + d - 1 = i
      <4>1. i - first + 1 \in 1..m /\ first + (i - first + 1) - 1 = i
        BY <1>3, <2>4, <2>7, <3>1, <3>3
      <4> QED BY <4>1
    <3> QED BY <2>8, <3>1, <3>4 DEF Among
  <2> QED BY <2>6, <2>8, <2>10, <2>11, <2>12
<1> QED BY <1>6, <1>7

(* One response changes, and nothing else. *)
LEMMA OneResponse ==
    ASSUME RunEventsInv, NEW f \in Streams, NEW new, UNCHANGED <<records, logs>>,
           streams' = [streams EXCEPT ![f] = new],
           ResponseFits(new, logs[new.run].kinds, records[new.run])
    PROVE  RunEventsInv'
<1>1. DOMAIN streams' = Streams /\ streams'[f] = new
      /\ \A g \in Streams \ {f} : streams'[g] = streams[g]
  BY DEF RunEventsInv
<1>2. ASSUME NEW g \in Streams, streams'[g] # Nothing
      PROVE  ResponseFits(streams'[g], logs[streams'[g].run].kinds, records[streams'[g].run])
  <2>1. CASE g = f
    BY <1>1, <2>1
  <2>2. CASE g # f
    BY <1>1, <1>2, <2>2, ResponseFacts
  <2> QED BY <2>1, <2>2
<1>3. ResponsesFit'
  BY <1>2 DEF ResponsesFit
<1> QED BY <1>1, <1>3 DEF RunEventsInv, LogsFit

(* GET /v1/runs/:id/events *)
LEMMA FollowKeeps ==
    ASSUME RunEventsInv, NEW f \in Streams, NEW r \in Runs, NEW since \in Nat, Follow(f, r, since)
    PROVE  RunEventsInv'
<1>1. /\ records[r] # Nothing /\ records[r] \in {"running", "over"} /\ LogFits(logs[r])
      /\ UNCHANGED <<records, logs>>
  BY DEF Follow, RunEventsInv, LogsFit
<1>2. PICK new : /\ streams' = [streams EXCEPT ![f] = new]
                 /\ new = IF ~Resident(r)
                          THEN [run |-> r, since |-> since, seen |-> <<>>, told |-> FALSE,
                                last |-> records[r], caller |-> FALSE, state |-> "unlogged"]
                          ELSE [run |-> r, since |-> since, seen |-> Replay(logs[r], since),
                                told |-> logs[r].truncated, last |-> records[r], caller |-> FALSE,
                                state |-> IF logs[r].closed THEN "ended" ELSE "following"]
  BY DEF Follow
<1>3. CASE ~Resident(r)
  <2>1. PICK none : none = <<>>
    OBVIOUS
  <2>2. none \in Seq(Nat) /\ Len(none) = 0
    BY <2>1
  <2>3. \A i \in 1..Len(none) : FALSE
    BY <2>2
  <2>4. /\ new \in EventStream /\ new.seen = none /\ new.state = "unlogged" /\ new.run = r
        /\ new.last = records[r]
    BY <1>1, <1>2, <1>3, <2>1, <2>2 DEF EventStream
  <2>5. ResponseFits(new, logs[r].kinds, records[r])
    BY <1>1, <2>3, <2>4 DEF ResponseFits, Accountable, Ascending
  <2> QED BY <1>1, <1>2, <2>4, <2>5, OneResponse
<1>4. CASE Resident(r)
  <2>1. PICK seen, kinds, truncated :
           seen = Replay(logs[r], since) /\ kinds = logs[r].kinds /\ truncated = logs[r].truncated
    OBVIOUS
  <2>2. /\ seen \in Seq(Nat) /\ Ascending(seen)
        /\ \A i \in 1..Len(seen) : seen[i] < Len(kinds)
        /\ ~truncated => \A k \in 0..(Len(kinds) - 1) : k >= since /\ kinds[k + 1] => Among(k, seen)
    BY <1>1, <2>1, ReplayFits
  <2>3. truncated \in BOOLEAN
    BY <1>1, <2>1 DEF LogFits, EventLog
  <2>4. PICK state \in {"ended", "following"} :
           new = [run |-> r, since |-> since, seen |-> seen, told |-> truncated,
                  last |-> records[r], caller |-> FALSE, state |-> state]
    BY <1>2, <1>4, <2>1
  <2>5. /\ new \in EventStream /\ new.seen = seen /\ new.run = r /\ new.last = records[r]
        /\ new.since = since /\ new.told = truncated
    BY <1>1, <2>2, <2>3, <2>4 DEF EventStream
  <2>6. ResponseFits(new, kinds, records[r])
    BY <1>1, <2>2, <2>5 DEF ResponseFits, Complete
  <2> QED BY <1>1, <1>2, <2>1, <2>5, <2>6, OneResponse
<1> QED BY <1>3, <1>4

(* The client hangs up. *)
LEMMA CutKeeps ==
    ASSUME RunEventsInv, NEW f \in Streams, Cut(f)
    PROVE  RunEventsInv'
<1>1. PICK s, new : /\ s = streams[f] /\ new = [s EXCEPT !.state = "cut"]
                    /\ streams' = [streams EXCEPT ![f] = new]
                    /\ streams[f] # Nothing /\ UNCHANGED <<records, logs>>
  BY DEF Cut
<1>2. new.run = s.run /\ ResponseFits(new, logs[s.run].kinds, records[s.run])
  BY <1>1, ResponseFacts, ResponseStops
<1> QED BY <1>1, <1>2, OneResponse

(* The daemon is closed and started. *)
LEMMA RestartKeeps ==
    ASSUME RunEventsInv, Restart
    PROVE  RunEventsInv'
<1>1. /\ records' = records
      /\ logs' = [r \in Runs |-> IF logs[r] = Nothing THEN Nothing ELSE ClosedLog(logs[r])]
      /\ streams' = [f \in Streams |->
            IF streams[f] # Nothing /\ streams[f].state \in {"following", "silenced"}
            THEN [streams[f] EXCEPT !.state = "cut"] ELSE streams[f]]
  BY DEF Restart
<1>2. ASSUME NEW r \in Runs, records[r] # Nothing
      PROVE  LogFits(logs'[r]) /\ logs'[r].kinds = logs[r].kinds
  <2>1. LogFits(logs[r])
    BY <1>2 DEF RunEventsInv, LogsFit
  <2>2. logs'[r] = logs[r] \/ logs'[r] = ClosedLog(logs[r])
    BY <1>1
  <2> QED BY <2>1, <2>2, ClosedFits
<1>3. LogsFit'
  BY <1>1, <1>2 DEF LogsFit
<1>4. ASSUME NEW f \in Streams, streams'[f] # Nothing
      PROVE  ResponseFits(streams'[f], logs'[streams'[f].run].kinds, records[streams'[f].run])
  <2>1. PICK s, new : s = streams[f] /\ new = streams'[f]
    OBVIOUS
  <2>2. new = s \/ new = [s EXCEPT !.state = "cut"]
    BY <1>1, <2>1
  <2>3. s # Nothing
    BY <1>1, <1>4, <2>1
  <2>4. /\ s.run \in Runs /\ records[s.run] # Nothing
        /\ ResponseFits(s, logs[s.run].kinds, records[s.run])
    BY <2>1, <2>3, ResponseFacts, LimitsAssumption
  <2>5. new.run = s.run /\ ResponseFits(new, logs[s.run].kinds, records[s.run])
    BY <2>2, <2>4, ResponseStops
  <2> QED BY <1>2, <2>1, <2>4, <2>5
<1>5. ResponsesFit'
  BY <1>1, <1>4 DEF ResponsesFit
<1> QED BY <1>1, <1>3, <1>5 DEF RunEventsInv

(* Followers are told everything, or told that they were not: for any      *)
(* number of runs, responses and restarts and whatever the logs retain,    *)
(* frames come once and in order, and a response that follows, or ended    *)
(* with the finished record, misses no retained event from its cursor on   *)
(* without a `truncated' frame (runs.ts, #runEvents, #streamRun).          *)
THEOREM RunEventsNothingMissed == RunEventsSpec => []NothingMissedUntold
<1>1. RunEventsInit => RunEventsInv
  BY LimitsAssumption DEF RunEventsInit, RunEventsInv, LogsFit, ResponsesFit
<1>2. RunEventsInv /\ [RunEventsNext]_runEventsVars => RunEventsInv'
  <2>1. SUFFICES ASSUME RunEventsInv, [RunEventsNext]_runEventsVars PROVE RunEventsInv'
    OBVIOUS
  <2>2. ASSUME NEW r \in Runs, NEW caller, StartRun(r, caller) PROVE RunEventsInv'
    BY <2>1, <2>2, StartRunKeeps
  <2>3. ASSUME NEW r \in Runs, NEW kind \in BOOLEAN, Emit(r, kind) PROVE RunEventsInv'
    BY <2>1, <2>3, EmitKeeps
  <2>4. ASSUME NEW r \in Runs, NEW n \in 0..2, SettleRun(r, n) \/ SettleThrows(r, n)
        PROVE  RunEventsInv'
    BY <2>1, <2>4, SettleKeeps
  <2>5. ASSUME NEW f \in Streams, NEW r \in Runs, NEW since \in 0..MaxEvents, Follow(f, r, since)
        PROVE  RunEventsInv'
    <3>1. since \in Nat
      BY LimitsAssumption
    <3> QED BY <2>1, <2>5, <3>1, FollowKeeps
  <2>6. ASSUME NEW f \in Streams, Cut(f) PROVE RunEventsInv'
    BY <2>1, <2>6, CutKeeps
  <2>7. CASE Restart
    BY <2>1, <2>7, RestartKeeps
  <2>8. CASE UNCHANGED runEventsVars
    BY <2>1, <2>8 DEF runEventsVars, RunEventsInv, LogsFit, ResponsesFit
  <2> QED BY <2>1, <2>2, <2>3, <2>4, <2>5, <2>6, <2>7, <2>8 DEF RunEventsNext
<1>3. RunEventsInv => NothingMissedUntold
  <2>1. SUFFICES ASSUME RunEventsInv, NEW f \in Streams, streams[f] # Nothing
                 PROVE  /\ \A i, j \in DOMAIN streams[f].seen :
                               i < j => streams[f].seen[i] < streams[f].seen[j]
                        /\ \/ streams[f].state = "following"
                           \/ streams[f].state = "ended" /\ streams[f].last = "over" /\ ~streams[f].caller
                           => streams[f].told \/ Owed(f) \subseteq SeenSet(f)
    BY DEF NothingMissedUntold
  <2>2. PICK s, kinds : s = streams[f] /\ kinds = logs[s.run].kinds
    OBVIOUS
  <2>3. ResponseFits(s, kinds, records[s.run])
    BY <2>1, <2>2, ResponseFacts
  <2>4. s.seen \in Seq(Nat) /\ DOMAIN s.seen = 1..Len(s.seen)
    BY <2>3 DEF ResponseFits, EventStream
  <2>5. \A i, j \in DOMAIN s.seen : i < j => s.seen[i] < s.seen[j]
    BY <2>3, <2>4 DEF ResponseFits, Ascending
  <2>6. ASSUME Accountable(s), ~s.told, NEW k \in Owed(f) PROVE k \in SeenSet(f)
    <3>1. k \in 0..(Len(kinds) - 1) /\ k >= s.since /\ kinds[k + 1]
      BY <2>2 DEF Owed
    <3>2. PICK i \in 1..Len(s.seen) : s.seen[i] = k
      BY <2>3, <2>6, <3>1 DEF ResponseFits, Complete, Among
    <3> QED BY <2>2, <2>4, <3>2 DEF SeenSet
  <2> QED BY <2>2, <2>5, <2>6 DEF Accountable
<1> QED BY <1>1, <1>2, <1>3, PTL DEF RunEventsSpec

-----------------------------------------------------------------------------
(* The plugin's transports *)

Phases == {"polling", "waiting", "ended"}
States == {"idle", "connecting", "blocked", "connected", "reconnecting", "throttled", "error",
           "update-required", "unauthenticated", "unpaired"}
TransportRecord ==
    [link : Nat, cursor : Nat, running : BOOLEAN, state : States, phase : Phases]

LinkTypeOK ==
    /\ stored \in [url : Urls, link : Nat, cursor : Nat]
    /\ transports \in Seq(TransportRecord)
    /\ transport \in 0..Len(transports)
    /\ pairings \in Seq(Urls)
    /\ codesSent \in Nat
    /\ givenUp \in BOOLEAN

AllEnded == \A i \in DOMAIN transports : transports[i].phase = "ended"

(* While there was one pairing at most and no transport was given up with  *)
(* its poll out, every loop that still runs reads the stored link, and has *)
(* handed on all that its cursor passed.                                   *)
LoopsReadTheStored ==
    codesSent <= 1 /\ ~givenUp =>
        /\ NothingSkipped
        /\ codesSent = 0 => stored.link = 0 /\ transports = <<>> /\ pairings = <<>>
        /\ Len(pairings) <= 1
        /\ pairings # <<>> => stored.link = 0
        /\ pairings # <<>> \/ transport = 0 => AllEnded
        /\ \A i \in DOMAIN transports : transports[i].phase # "ended" =>
              /\ transports[i].link = stored.link
              /\ \A n \in 1..transports[i].cursor : <<stored.link, n>> \in handedOn

LinkInv == LinkTypeOK /\ OneLoopRuns /\ StoppedDead /\ LoopsReadTheStored

LEMMA LinkInvInit == LinkInit => LinkInv
<1> SUFFICES ASSUME LinkInit PROVE LinkInv
  OBVIOUS
<1>1. stored.url \in Urls /\ stored = [url |-> stored.url, link |-> 0, cursor |-> 0]
  BY StudioLinkAssumption DEF LinkInit
<1>2. LinkTypeOK
  <2>1. stored \in [url : Urls, link : Nat, cursor : Nat]
    BY <1>1
  <2>2. transports = <<>> /\ pairings = <<>> /\ transport = 0 /\ codesSent = 0 /\ givenUp = FALSE
    BY DEF LinkInit
  <2>3. transport \in 0..Len(transports) /\ transports \in Seq(TransportRecord) /\ pairings \in Seq(Urls)
    BY <2>2
  <2> QED BY <2>1, <2>2, <2>3 DEF LinkTypeOK
<1>3. OneLoopRuns /\ StoppedDead
  BY DEF LinkInit, OneLoopRuns, StoppedDead
<1>4. LoopsReadTheStored
  BY <1>1 DEF LinkInit, LoopsReadTheStored, NothingSkipped, AllEnded
<1> QED BY <1>2, <1>3, <1>4 DEF LinkInv

(* A transport that is stopped keeps its link, its cursor and its phase,   *)
(* and afterwards none runs.                                               *)
LEMMA StoppedTransports ==
  ASSUME LinkInv
  PROVE  /\ Stopped(transport) \in Seq(TransportRecord)
         /\ Len(Stopped(transport)) = Len(transports)
         /\ \A i \in DOMAIN transports :
               /\ ~Stopped(transport)[i].running
               /\ Stopped(transport)[i].link = transports[i].link
               /\ Stopped(transport)[i].cursor = transports[i].cursor
               /\ Stopped(transport)[i].phase = transports[i].phase
               /\ Stopped(transport)[i].state \in {"idle", transports[i].state}
<1>1. transports \in Seq(TransportRecord) /\ transport \in 0..Len(transports)
  BY DEF LinkInv, LinkTypeOK
<1>2. \A i \in DOMAIN transports : transports[i].running => i = transport
  BY DEF LinkInv, OneLoopRuns
<1>3. CASE transport = 0
  BY <1>1, <1>2, <1>3 DEF Stopped
<1>4. CASE transport # 0
  <2> DEFINE t == [transports[transport] EXCEPT !.running = FALSE, !.state = "idle"]
  <2>1. transport \in DOMAIN transports /\ transports[transport] \in TransportRecord
    BY <1>1, <1>4
  <2>2. /\ t \in TransportRecord /\ ~t.running /\ t.link = transports[transport].link
        /\ t.cursor = transports[transport].cursor /\ t.phase = transports[transport].phase
        /\ t.state = "idle"
    BY <2>1 DEF TransportRecord, States
  <2>3. Stopped(transport) = [transports EXCEPT ![transport] = t]
    BY <1>4 DEF Stopped
  <2> HIDE DEF t
  <2> QED BY <1>1, <1>2, <2>1, <2>2, <2>3
<1> QED BY <1>3, <1>4

LEMMA FreshTransport ==
  ASSUME NEW url, NEW link \in Nat, NEW cursor \in Nat
  PROVE  LET t == NewTransport(url, link, cursor) IN
         /\ t \in TransportRecord /\ t.link = link /\ t.cursor = cursor
         /\ t.state \in {"update-required", "blocked"} => ~t.running /\ t.phase = "ended"
<1> DEFINE t == NewTransport(url, link, cursor)
<1>1. CASE DeliveryGate(url)
  <2>1. t = [link |-> link, cursor |-> cursor, running |-> TRUE, state |-> "connecting",
             phase |-> "polling"]
    BY <1>1 DEF NewTransport
  <2> HIDE DEF t
  <2>2. t \in TransportRecord
    BY <2>1 DEF TransportRecord, Phases, States
  <2> QED BY <2>1, <2>2 DEF t
<1>2. CASE ~DeliveryGate(url)
  <2>1. t = [link |-> link, cursor |-> cursor, running |-> FALSE, state |-> "blocked",
             phase |-> "ended"]
    <3>1. DeliveryGate(url) = FALSE
      BY <1>2 DEF DeliveryGate, Loopback
    <3> QED BY <3>1 DEF NewTransport
  <2> HIDE DEF t
  <2>2. t \in TransportRecord
    BY <2>1 DEF TransportRecord, Phases, States
  <2> QED BY <2>1, <2>2 DEF t
<1> QED BY <1>1, <1>2

(* The transport in use is given up. *)
LEMMA GivenUp ==
  ASSUME LinkInv, GiveUp
  PROVE  /\ transports' \in Seq(TransportRecord) /\ transport' = 0
         /\ givenUp' \in BOOLEAN
         /\ OneLoopRuns' /\ StoppedDead'
         /\ Len(transports') = Len(transports)
         /\ givenUp => givenUp'
         /\ ~givenUp' => AllEnded /\ AllEnded'
<1>1. transports' = Stopped(transport) /\ transport' = 0
      /\ givenUp' = (givenUp \/ \E i \in DOMAIN transports : transports[i].phase # "ended")
  BY DEF GiveUp
<1>2. /\ transports' \in Seq(TransportRecord)
      /\ Len(transports') = Len(transports)
      /\ \A i \in DOMAIN transports :
               /\ ~transports'[i].running
               /\ transports'[i].phase = transports[i].phase
               /\ transports'[i].state \in {"idle", transports[i].state}
  BY <1>1, StoppedTransports
<1>3. DOMAIN transports' = DOMAIN transports
  BY <1>2 DEF LinkInv, LinkTypeOK
<1>4. OneLoopRuns'
  BY <1>2, <1>3 DEF OneLoopRuns
<1>5. StoppedDead'
  BY <1>2, <1>3 DEF LinkInv, StoppedDead
<1>6. ~givenUp' => AllEnded /\ AllEnded'
  BY <1>1, <1>2, <1>3 DEF AllEnded
<1>7. givenUp' \in BOOLEAN /\ (givenUp => givenUp')
  BY <1>1 DEF LinkInv, LinkTypeOK
<1> QED BY <1>1, <1>2, <1>4, <1>5, <1>6, <1>7

(* The settings are connected: nothing is in use, or a new transport is    *)
(* and the others are as they were.                                        *)
LEMMA Connected ==
  ASSUME LinkInv, NEW settings \in [url : Urls, link : Nat, cursor : Nat], Connect(settings)
  PROVE  \/ GiveUp
         \/ /\ UNCHANGED givenUp
            /\ transports' \in Seq(TransportRecord)
            /\ DOMAIN transports' = 1..(Len(transports) + 1)
            /\ transport' = Len(transports) + 1 /\ transport' \in 1..Len(transports')
            /\ transports'[Len(transports) + 1].link = settings.link
            /\ transports'[Len(transports) + 1].cursor = settings.cursor
            /\ \A i \in DOMAIN transports :
                  /\ transports'[i].link = transports[i].link
                  /\ transports'[i].cursor = transports[i].cursor
                  /\ transports'[i].phase = transports[i].phase
            /\ OneLoopRuns' /\ StoppedDead'
<1> DEFINE old == Stopped(transport)
           n == Len(transports)
           t == NewTransport(settings.url, settings.link, settings.cursor)
<1>1. CASE ~GiveUp
  <2>1. UNCHANGED givenUp /\ transports' = Append(old, t) /\ transport' = n + 1
    BY <1>1 DEF Connect
  <2>2. /\ old \in Seq(TransportRecord) /\ Len(old) = n /\ n \in Nat /\ DOMAIN transports = 1..n
        /\ \A i \in 1..n :
               /\ ~old[i].running
               /\ old[i].link = transports[i].link
               /\ old[i].cursor = transports[i].cursor
               /\ old[i].phase = transports[i].phase
               /\ old[i].state \in {"idle", transports[i].state}
    BY StoppedTransports DEF LinkInv, LinkTypeOK
  <2>3. /\ t \in TransportRecord /\ t.link = settings.link /\ t.cursor = settings.cursor
        /\ t.state \in {"update-required", "blocked"} => ~t.running /\ t.phase = "ended"
    BY FreshTransport
  <2> HIDE DEF old, t, n
  <2>4. /\ transports' \in Seq(TransportRecord) /\ Len(transports') = n + 1
        /\ DOMAIN transports' = 1..(n + 1) /\ transports'[n + 1] = t
        /\ \A i \in 1..n : transports'[i] = old[i]
    BY <2>1, <2>2, <2>3
  <2>5. OneLoopRuns'
    BY <2>1, <2>2, <2>4 DEF OneLoopRuns
  <2>6. StoppedDead'
    <3> SUFFICES ASSUME NEW i \in 1..(n + 1), transports'[i].state \in {"update-required", "blocked"}
                 PROVE  ~transports'[i].running /\ transports'[i].phase = "ended"
      BY <2>4 DEF StoppedDead
    <3>1. CASE i = n + 1
      BY <2>3, <2>4, <3>1
    <3>2. CASE i \in 1..n
      BY <2>2, <2>4, <3>2 DEF LinkInv, StoppedDead
    <3> QED BY <2>2, <3>1, <3>2
  <2> QED BY <2>1, <2>2, <2>3, <2>4, <2>5, <2>6 DEF n
<1> QED BY <1>1

LEMMA LinksAreNumbered == LinksMade + 1 \in Nat
<1>1. IsFiniteSet({l \in 1..MaxLinks : queued[l] >= 0})
  <2>1. IsFiniteSet(1..MaxLinks)
    BY StudioLinkAssumption, FS_Interval
  <2> QED BY <2>1, FS_Subset, Zenon
<1> QED BY <1>1, FS_CardinalityType DEF LinksMade

(* The handlers, one by one. *)
LEMMA LinkPressConnect ==
  ASSUME LinkInv, NEW url \in Urls, PressConnect(url)
  PROVE  LinkInv'
<1>1. /\ stored' \in [url : Urls, link : Nat, cursor : Nat]
      /\ stored'.link = stored.link /\ stored'.cursor = stored.cursor
      /\ UNCHANGED <<pairings, handedOn, codesSent>>
      /\ pairings \in Seq(Urls) /\ codesSent \in Nat /\ givenUp \in BOOLEAN
  BY DEF PressConnect, LinkInv, LinkTypeOK
<1>2. NothingSkipped => NothingSkipped'
  BY <1>1 DEF NothingSkipped
<1>3. CASE UNCHANGED <<transport, transports, givenUp>>
  <2>1. LinkTypeOK' /\ OneLoopRuns' /\ StoppedDead'
    BY <1>1, <1>3 DEF LinkInv, LinkTypeOK, OneLoopRuns, StoppedDead
  <2>2. LoopsReadTheStored'
    BY <1>1, <1>2, <1>3 DEF LinkInv, LoopsReadTheStored, AllEnded
  <2> QED BY <2>1, <2>2 DEF LinkInv
<1>4. CASE GiveUp
  <2>1. /\ transports' \in Seq(TransportRecord) /\ transport' = 0
        /\ givenUp' \in BOOLEAN
        /\ OneLoopRuns' /\ StoppedDead'
        /\ Len(transports') = Len(transports)
        /\ givenUp => givenUp'
        /\ ~givenUp' => AllEnded /\ AllEnded'
    BY <1>4, GivenUp
  <2>2. transport' \in 0..Len(transports')
    BY <2>1
  <2>3. LinkTypeOK'
    BY <1>1, <2>1, <2>2 DEF LinkTypeOK
  <2>4. transports = <<>> => transports' = <<>>
    BY <2>1
  <2>5. LoopsReadTheStored'
    BY <1>1, <1>2, <2>1, <2>4 DEF LinkInv, LoopsReadTheStored, AllEnded
  <2> QED BY <2>1, <2>3, <2>5 DEF LinkInv
<1>5. CASE IsPaired(stored) /\ Connect(stored') /\ ~GiveUp
  <2> DEFINE n == Len(transports)
  <2>1. /\ UNCHANGED givenUp
        /\ transports' \in Seq(TransportRecord)
        /\ DOMAIN transports' = 1..(n + 1)
        /\ transport' = n + 1 /\ transport' \in 1..Len(transports')
        /\ transports'[n + 1].link = stored'.link
        /\ transports'[n + 1].cursor = stored'.cursor
        /\ \A i \in DOMAIN transports :
               /\ transports'[i].link = transports[i].link
               /\ transports'[i].cursor = transports[i].cursor
               /\ transports'[i].phase = transports[i].phase
        /\ OneLoopRuns' /\ StoppedDead'
    BY <1>1, <1>5, Connected
  <2>2. n \in Nat /\ DOMAIN transports = 1..n /\ stored.link # 0
    BY <1>5 DEF LinkInv, LinkTypeOK, IsPaired
  <2> HIDE DEF n
  <2>3. LinkTypeOK'
    BY <1>1, <2>1, <2>2 DEF LinkTypeOK
  <2>4. ASSUME codesSent' <= 1 /\ ~givenUp'
        PROVE  /\ NothingSkipped'
               /\ codesSent' # 0 /\ Len(pairings') <= 1 /\ pairings' = <<>> /\ transport' # 0
               /\ \A i \in DOMAIN transports' : transports'[i].phase # "ended" =>
                     /\ transports'[i].link = stored'.link
                     /\ \A m \in 1..transports'[i].cursor : <<stored'.link, m>> \in handedOn'
    <3>1. codesSent <= 1 /\ ~givenUp
      BY <1>1, <2>1, <2>4
    <3>2. LoopsReadTheStored
      BY DEF LinkInv
    <3>3. /\ NothingSkipped' /\ codesSent' # 0 /\ pairings' = <<>> /\ Len(pairings') <= 1
          /\ \A i \in 1..n : transports[i].phase # "ended" =>
                /\ transports[i].link = stored.link
                /\ \A m \in 1..transports[i].cursor : <<stored.link, m>> \in handedOn
      BY <1>1, <1>2, <2>2, <3>1, <3>2 DEF LoopsReadTheStored
    <3>4. \A m \in 1..stored'.cursor : <<stored'.link, m>> \in handedOn'
      BY <3>3 DEF NothingSkipped
    <3>5. \A i \in 1..n : i \in DOMAIN transports
      BY <2>2
    <3>6. ASSUME NEW i \in 1..(n + 1), transports'[i].phase # "ended"
          PROVE  /\ transports'[i].link = stored'.link
                 /\ \A m \in 1..transports'[i].cursor : <<stored'.link, m>> \in handedOn'
      <4>1. CASE i = n + 1
        BY <2>1, <3>4, <4>1
      <4>2. CASE i \in 1..n
        BY <1>1, <2>1, <3>3, <3>5, <3>6, <4>2
      <4> QED BY <2>2, <4>1, <4>2
    <3> QED BY <2>1, <2>2, <3>3, <3>6
  <2>5. LoopsReadTheStored'
    BY <2>4 DEF LoopsReadTheStored
  <2> QED BY <2>1, <2>3, <2>5 DEF LinkInv
<1> QED BY <1>3, <1>4, <1>5 DEF PressConnect

LEMMA LinkPressPair ==
  ASSUME LinkInv, NEW url \in Urls, NEW wellFormed, PressPair(url, wellFormed)
  PROVE  LinkInv'
<1>1. /\ stored' \in [url : Urls, link : Nat, cursor : Nat]
      /\ stored'.link = stored.link /\ stored'.cursor = stored.cursor
      /\ UNCHANGED handedOn /\ GiveUp
      /\ pairings \in Seq(Urls) /\ codesSent \in Nat
      /\ \/ codesSent' = codesSent + 1 /\ pairings' = Append(pairings, url)
         \/ UNCHANGED <<codesSent, pairings>>
  BY DEF PressPair, LinkInv, LinkTypeOK
<1>2. NothingSkipped => NothingSkipped'
  BY <1>1 DEF NothingSkipped
<1>3. /\ transports' \in Seq(TransportRecord) /\ transport' = 0
      /\ givenUp' \in BOOLEAN
      /\ OneLoopRuns' /\ StoppedDead'
      /\ Len(transports') = Len(transports)
      /\ givenUp => givenUp'
      /\ ~givenUp' => AllEnded /\ AllEnded'
  BY <1>1, GivenUp
<1>4. transport' \in 0..Len(transports') /\ (transports = <<>> => transports' = <<>>)
  BY <1>3
<1>5. pairings' \in Seq(Urls) /\ codesSent' \in Nat
  <2>1. Append(pairings, url) \in Seq(Urls)
    BY <1>1
  <2>2. codesSent + 1 \in Nat
    BY <1>1
  <2>3. CASE codesSent' = codesSent + 1 /\ pairings' = Append(pairings, url)
    BY <2>1, <2>2, <2>3
  <2>4. CASE UNCHANGED <<codesSent, pairings>>
    BY <1>1, <2>4
  <2> QED BY <1>1, <2>3, <2>4, Zenon
<1>6. LinkTypeOK'
  BY <1>1, <1>3, <1>4, <1>5 DEF LinkTypeOK
<1>7. CASE UNCHANGED <<codesSent, pairings>>
  <2>1. LoopsReadTheStored'
    BY <1>1, <1>2, <1>3, <1>4, <1>7 DEF LinkInv, LoopsReadTheStored, AllEnded
  <2> QED BY <1>3, <1>6, <2>1 DEF LinkInv
<1>8. CASE codesSent' = codesSent + 1 /\ pairings' = Append(pairings, url)
  <2>1. ASSUME codesSent' <= 1 /\ ~givenUp'
        PROVE  /\ NothingSkipped' /\ codesSent' # 0 /\ Len(pairings') = 1
               /\ stored'.link = 0 /\ AllEnded'
    <3>1. codesSent = 0 /\ ~givenUp
      BY <1>1, <1>3, <1>8, <2>1
    <3>2. NothingSkipped /\ stored.link = 0 /\ pairings = <<>>
      BY <3>1 DEF LinkInv, LoopsReadTheStored
    <3> QED BY <1>1, <1>2, <1>3, <1>8, <2>1, <3>1, <3>2
  <2>2. ASSUME AllEnded'
        PROVE  \A i \in DOMAIN transports' : transports'[i].phase = "ended"
    BY <2>2 DEF AllEnded
  <2>3. LoopsReadTheStored'
    BY <2>1, <2>2 DEF LoopsReadTheStored
  <2> QED BY <1>3, <1>6, <2>3 DEF LinkInv
<1> QED BY <1>1, <1>7, <1>8

LEMMA PairingTaken ==
  ASSUME NEW S, NEW s \in Seq(S), NEW k \in DOMAIN s
  PROVE  /\ RemoveAt(s, k) \in Seq(S) /\ Len(RemoveAt(s, k)) = Len(s) - 1
         /\ s # <<>> /\ (Len(s) <= 1 => RemoveAt(s, k) = <<>>)
<1>1. /\ SubSeq(s, 1, k - 1) \in Seq(S) /\ Len(SubSeq(s, 1, k - 1)) = k - 1
      /\ SubSeq(s, k + 1, Len(s)) \in Seq(S) /\ Len(SubSeq(s, k + 1, Len(s))) = Len(s) - k
  OBVIOUS
<1>2. RemoveAt(s, k) \in Seq(S) /\ Len(RemoveAt(s, k)) = Len(s) - 1
  <2> DEFINE a == SubSeq(s, 1, k - 1)
             z == SubSeq(s, k + 1, Len(s))
  <2>1. /\ a \in Seq(S) /\ z \in Seq(S) /\ Len(a) = k - 1 /\ Len(z) = Len(s) - k
        /\ k \in Nat /\ Len(s) \in Nat
    BY <1>1
  <2>2. RemoveAt(s, k) = a \o z
    BY DEF RemoveAt
  <2> HIDE DEF a, z
  <2>3. a \o z \in Seq(S) /\ Len(a \o z) = Len(a) + Len(z)
    BY <2>1, ConcatProperties
  <2>4. Len(a) + Len(z) = Len(s) - 1
    BY <2>1
  <2> QED BY <2>2, <2>3, <2>4
<1>3. s # <<>> /\ Len(s) \in Nat /\ Len(s) # 0
  OBVIOUS
<1>4. ASSUME Len(s) <= 1 PROVE RemoveAt(s, k) = <<>>
  <2>1. Len(RemoveAt(s, k)) = 0
    BY <1>2, <1>3, <1>4
  <2> QED BY <1>2, <2>1
<1> QED BY <1>2, <1>3, <1>4

LEMMA LinkPairingSucceeds ==
  ASSUME LinkInv, NEW k \in DOMAIN pairings, PairingSucceeds(k)
  PROVE  LinkInv'
<1> DEFINE new == LinksMade + 1
<1>1. /\ stored \in [url : Urls, link : Nat, cursor : Nat] /\ stored' = StoreLink(new)
      /\ UNCHANGED <<handedOn, codesSent>> /\ pairings' = RemoveAt(pairings, k)
      /\ pairings \in Seq(Urls) /\ codesSent \in Nat /\ givenUp \in BOOLEAN
      /\ Connect(stored')
  BY DEF PairingSucceeds, LinkInv, LinkTypeOK
<1>2. stored' \in [url : Urls, link : Nat, cursor : Nat] /\ stored'.link = new /\ stored'.cursor = 0
  BY <1>1, LinksAreNumbered DEF StoreLink
<1> HIDE DEF new
<1>3. NothingSkipped'
  BY <1>2 DEF NothingSkipped
<1>4. /\ pairings' \in Seq(Urls) /\ pairings # <<>>
      /\ Len(pairings) <= 1 => pairings' = <<>>
  BY <1>1, PairingTaken
<1>5. codesSent <= 1 /\ ~givenUp => codesSent # 0 /\ pairings' = <<>> /\ Len(pairings') <= 1 /\ AllEnded
  BY <1>4 DEF LinkInv, LoopsReadTheStored
<1>6. CASE GiveUp
  <2>1. /\ transports' \in Seq(TransportRecord) /\ transport' = 0
        /\ givenUp' \in BOOLEAN
        /\ OneLoopRuns' /\ StoppedDead'
        /\ Len(transports') = Len(transports)
        /\ givenUp => givenUp'
        /\ ~givenUp' => AllEnded /\ AllEnded'
    BY <1>6, GivenUp
  <2>2. transport' \in 0..Len(transports')
    BY <2>1
  <2>3. LinkTypeOK'
    BY <1>1, <1>2, <1>4, <2>1, <2>2 DEF LinkTypeOK
  <2>4. LoopsReadTheStored'
    BY <1>1, <1>3, <1>5, <2>1 DEF LoopsReadTheStored, AllEnded
  <2> QED BY <2>1, <2>3, <2>4 DEF LinkInv
<1>7. CASE ~GiveUp
  <2> DEFINE n == Len(transports)
  <2>1. /\ UNCHANGED givenUp
        /\ transports' \in Seq(TransportRecord)
        /\ DOMAIN transports' = 1..(n + 1)
        /\ transport' = n + 1 /\ transport' \in 1..Len(transports')
        /\ transports'[n + 1].link = stored'.link
        /\ transports'[n + 1].cursor = stored'.cursor
        /\ \A i \in DOMAIN transports : transports'[i].phase = transports[i].phase
        /\ OneLoopRuns' /\ StoppedDead'
    BY <1>1, <1>2, <1>7, Connected
  <2>2. n \in Nat /\ DOMAIN transports = 1..n
    BY DEF LinkInv, LinkTypeOK
  <2> HIDE DEF n
  <2>3. LinkTypeOK'
    BY <1>1, <1>2, <1>4, <2>1, <2>2 DEF LinkTypeOK
  <2>4. ASSUME codesSent' <= 1 /\ ~givenUp'
        PROVE  \A i \in DOMAIN transports' : transports'[i].phase # "ended" =>
                     /\ transports'[i].link = stored'.link
                     /\ \A m \in 1..transports'[i].cursor : <<stored'.link, m>> \in handedOn'
    <3>1. AllEnded
      BY <1>1, <1>5, <2>1, <2>4
    <3>2. \A i \in 1..n : transports'[i].phase = "ended"
      BY <2>1, <2>2, <3>1 DEF AllEnded
    <3>3. \A m \in 1..transports'[n + 1].cursor : <<stored'.link, m>> \in handedOn'
      BY <1>2, <2>1
    <3>4. \A i \in 1..(n + 1) : i \in 1..n \/ i = n + 1
      BY <2>2
    <3> QED BY <2>1, <3>2, <3>3, <3>4
  <2>5. transport' # 0
    BY <2>1, <2>2
  <2>6. LoopsReadTheStored'
    BY <1>1, <1>3, <1>5, <2>1, <2>4, <2>5 DEF LoopsReadTheStored
  <2> QED BY <2>1, <2>3, <2>6 DEF LinkInv
<1> QED BY <1>6, <1>7

LEMMA LinkPairingFails ==
  ASSUME LinkInv, NEW k \in DOMAIN pairings, PairingFails(k)
  PROVE  LinkInv'
<1>1. /\ pairings' = RemoveAt(pairings, k) /\ pairings \in Seq(Urls)
      /\ UNCHANGED <<stored, transport, transports, handedOn, codesSent, givenUp>>
  BY DEF PairingFails, LinkInv, LinkTypeOK
<1>2. /\ pairings' \in Seq(Urls) /\ pairings # <<>>
      /\ Len(pairings) <= 1 => pairings' = <<>>
  BY <1>1, PairingTaken
<1>3. Len(<<>>) = 0
  OBVIOUS
<1>4. LinkTypeOK' /\ OneLoopRuns' /\ StoppedDead'
  BY <1>1, <1>2 DEF LinkInv, LinkTypeOK, OneLoopRuns, StoppedDead
<1>5. LoopsReadTheStored'
  BY <1>1, <1>2, <1>3 DEF LinkInv, LoopsReadTheStored, NothingSkipped, AllEnded
<1> QED BY <1>4, <1>5 DEF LinkInv

(* One loop moves on: its record is replaced, and it did not run if it     *)
(* does not now.                                                           *)
LEMMA LoopMoves ==
  ASSUME LinkInv, NEW i \in DOMAIN transports, NEW t \in TransportRecord,
         transports' = [transports EXCEPT ![i] = t], UNCHANGED transport,
         t.running => transports[i].running,
         t.state \in {"update-required", "blocked"} => ~t.running /\ t.phase = "ended"
  PROVE  /\ transports' \in Seq(TransportRecord) /\ Len(transports') = Len(transports)
         /\ DOMAIN transports' = DOMAIN transports /\ transports'[i] = t
         /\ \A k \in DOMAIN transports : k # i => transports'[k] = transports[k]
         /\ transport' \in 0..Len(transports')
         /\ OneLoopRuns' /\ StoppedDead'
<1>1. transports \in Seq(TransportRecord) /\ transport \in 0..Len(transports)
  BY DEF LinkInv, LinkTypeOK
<1>2. /\ transports' \in Seq(TransportRecord) /\ Len(transports') = Len(transports)
      /\ DOMAIN transports' = DOMAIN transports /\ transports'[i] = t
      /\ \A k \in DOMAIN transports : k # i => transports'[k] = transports[k]
  BY <1>1
<1>3. OneLoopRuns'
  BY <1>2 DEF LinkInv, OneLoopRuns
<1>4. StoppedDead'
  BY <1>2 DEF LinkInv, StoppedDead
<1> QED BY <1>1, <1>2, <1>3, <1>4

LEMMA PollingLoop ==
  ASSUME LinkInv, NEW i \in DOMAIN transports, transports[i].phase # "ended"
  PROVE  /\ transports[i] \in TransportRecord /\ transports[i].state \notin {"update-required", "blocked"}
         /\ Onward(i) \in {"polling", "ended"}
BY DEF LinkInv, LinkTypeOK, StoppedDead, Onward

(* The answers that are no delivery, and the end of a pause: the link and  *)
(* the cursor stay.                                                        *)
LEMMA LoopGoesOn ==
  ASSUME LinkInv, NEW i \in DOMAIN transports, transports[i].phase # "ended",
         NEW t \in TransportRecord,
         transports' = [transports EXCEPT ![i] = t],
         UNCHANGED <<stored, transport, pairings, handedOn, codesSent, givenUp>>,
         t.link = transports[i].link, t.cursor = transports[i].cursor,
         t.running => transports[i].running,
         t.state \in {"update-required", "blocked"} => ~t.running /\ t.phase = "ended"
  PROVE  LinkInv'
<1>1. /\ transports' \in Seq(TransportRecord) /\ Len(transports') = Len(transports)
      /\ DOMAIN transports' = DOMAIN transports /\ transports'[i] = t
      /\ \A k \in DOMAIN transports : k # i => transports'[k] = transports[k]
      /\ transport' \in 0..Len(transports')
      /\ OneLoopRuns' /\ StoppedDead'
  BY LoopMoves
<1>2. LinkTypeOK'
  BY <1>1 DEF LinkInv, LinkTypeOK
<1>3. ASSUME codesSent <= 1 /\ ~givenUp
      PROVE  /\ NothingSkipped' /\ codesSent # 0 /\ Len(pairings) <= 1
             /\ pairings = <<>> /\ transport # 0
             /\ \A k \in DOMAIN transports' : transports'[k].phase # "ended" =>
                   /\ transports'[k].link = stored.link
                   /\ \A n \in 1..transports'[k].cursor : <<stored.link, n>> \in handedOn
  <2>1. /\ NothingSkipped /\ Len(pairings) <= 1
        /\ codesSent = 0 => transports = <<>>
        /\ pairings # <<>> \/ transport = 0 => AllEnded
        /\ \A k \in DOMAIN transports : transports[k].phase # "ended" =>
              /\ transports[k].link = stored.link
              /\ \A n \in 1..transports[k].cursor : <<stored.link, n>> \in handedOn
    BY <1>3 DEF LinkInv, LoopsReadTheStored
  <2>2. ~AllEnded /\ transports # <<>>
    BY DEF AllEnded
  <2>3. NothingSkipped'
    BY <2>1 DEF NothingSkipped
  <2> QED BY <1>1, <2>1, <2>2, <2>3
<1>4. LoopsReadTheStored'
  BY <1>3 DEF LoopsReadTheStored
<1> QED BY <1>1, <1>2, <1>4 DEF LinkInv

LEMMA LinkTakeAnswer ==
  ASSUME LinkInv, NEW i \in DOMAIN transports, NEW r, TakeAnswer(i, r)
  PROVE  LinkInv'
<1> DEFINE old == transports[i]
           verdict == Classify(r)
           state == StateAfter(verdict)
           t == IF Raises(i, state) THEN [old EXCEPT !.phase = "ended"]
                ELSE IF verdict = "update-required"
                THEN [old EXCEPT !.running = FALSE, !.state = state, !.phase = "ended"]
                ELSE IF verdict = "empty"
                THEN [old EXCEPT !.state = state, !.phase = Onward(i)]
                ELSE [old EXCEPT !.state = state, !.phase = "waiting"]
<1>1. /\ transports' = [transports EXCEPT ![i] = t] /\ old.phase # "ended"
      /\ UNCHANGED <<stored, transport, pairings, handedOn, codesSent, givenUp>>
  BY DEF TakeAnswer
<1>2. verdict \in {"retry", "update-required", "empty", "delivery", "unauthenticated", "refuse",
                   "unpaired", "rate-limited"}
  BY DEF Classify
<1> HIDE DEF verdict
<1>3. /\ state \in States \ {"blocked"}
      /\ state = "update-required" <=> verdict = "update-required"
  BY <1>2 DEF StateAfter, States
<1> HIDE DEF state
<1>4. /\ old \in TransportRecord /\ old.state \notin {"update-required", "blocked"}
      /\ Onward(i) \in {"polling", "ended"}
  BY <1>1, PollingLoop
<1> HIDE DEF old
<1>5. /\ t \in TransportRecord /\ t.link = old.link /\ t.cursor = old.cursor
      /\ t.running => old.running
      /\ t.state \in {"update-required", "blocked"} => ~t.running /\ t.phase = "ended"
  <2>1. CASE Raises(i, state)
    BY <1>4, <2>1 DEF TransportRecord, Phases
  <2>2. CASE ~Raises(i, state) /\ verdict = "update-required"
    BY <1>3, <1>4, <2>2 DEF TransportRecord, Phases
  <2>3. CASE ~Raises(i, state) /\ verdict = "empty"
    BY <1>3, <1>4, <2>3 DEF TransportRecord, Phases
  <2>4. CASE ~Raises(i, state) /\ verdict \notin {"update-required", "empty"}
    BY <1>3, <1>4, <2>4 DEF TransportRecord, Phases
  <2> QED BY <2>1, <2>2, <2>3, <2>4
<1> HIDE DEF t
<1> QED BY <1>1, <1>5, LoopGoesOn DEF old

LEMMA LinkWakeUp ==
  ASSUME LinkInv, NEW i \in DOMAIN transports, WakeUp(i)
  PROVE  LinkInv'
<1> DEFINE old == transports[i]
           t == [old EXCEPT !.phase = Onward(i)]
<1>1. /\ transports' = [transports EXCEPT ![i] = t] /\ old.phase # "ended"
      /\ UNCHANGED <<stored, transport, pairings, handedOn, codesSent, givenUp>>
  BY DEF WakeUp
<1>2. /\ old \in TransportRecord /\ old.state \notin {"update-required", "blocked"}
      /\ Onward(i) \in {"polling", "ended"}
  BY <1>1, PollingLoop
<1> HIDE DEF old
<1>3. /\ t \in TransportRecord /\ t.link = old.link /\ t.cursor = old.cursor
      /\ t.running = old.running /\ t.state = old.state
  BY <1>2 DEF TransportRecord, Phases
<1> HIDE DEF t
<1> QED BY <1>1, <1>2, <1>3, LoopGoesOn DEF old

LEMMA LinkTakeDelivery ==
  ASSUME LinkInv, NEW i \in DOMAIN transports, TakeDelivery(i)
  PROVE  LinkInv'
<1> DEFINE old == transports[i]
           nonce == old.cursor + 1
<1>1. /\ old.phase = "polling"
      /\ stored' = [stored EXCEPT !.cursor = nonce]
      /\ stored \in [url : Urls, link : Nat, cursor : Nat]
      /\ UNCHANGED <<transport, pairings, codesSent, givenUp>>
  BY DEF TakeDelivery, LinkInv, LinkTypeOK
<1>2. /\ old \in TransportRecord /\ old.state \notin {"update-required", "blocked"}
      /\ Onward(i) \in {"polling", "ended"}
  BY <1>1, PollingLoop
<1>3. PICK t : /\ transports' = [transports EXCEPT ![i] = t]
               /\ \/ /\ Raises(i, "connected") /\ handedOn' = handedOn
                     /\ t = [old EXCEPT !.cursor = nonce, !.phase = "ended"]
                  \/ /\ ~Raises(i, "connected") /\ handedOn' = handedOn \cup {<<old.link, nonce>>}
                     /\ t \in {[old EXCEPT !.cursor = nonce, !.state = "connected",
                                           !.phase = Onward(i)],
                               [old EXCEPT !.cursor = nonce, !.state = "error",
                                           !.phase = "waiting"]}
  <2>1. CASE Raises(i, "connected")
    BY <2>1 DEF TakeDelivery
  <2>2. CASE ~Raises(i, "connected")
    BY <2>2 DEF TakeDelivery
  <2> QED BY <2>1, <2>2
<1>4. nonce \in Nat /\ old.cursor \in Nat /\ old.link \in Nat
  BY <1>2 DEF TransportRecord
<1> HIDE DEF nonce, old
<1>5. /\ t \in TransportRecord /\ t.link = old.link /\ t.cursor = nonce
      /\ t.running = old.running /\ t.state \notin {"update-required", "blocked"}
  BY <1>2, <1>3, <1>4 DEF TransportRecord, Phases, States
<1>6. /\ transports' \in Seq(TransportRecord) /\ Len(transports') = Len(transports)
      /\ DOMAIN transports' = DOMAIN transports /\ transports'[i] = t
      /\ \A k \in DOMAIN transports : k # i => transports'[k] = transports[k]
      /\ transport' \in 0..Len(transports')
      /\ OneLoopRuns' /\ StoppedDead'
  BY <1>1, <1>3, <1>5, LoopMoves DEF old
<1>7. stored' \in [url : Urls, link : Nat, cursor : Nat] /\ stored'.link = stored.link /\ stored'.cursor = nonce
  BY <1>1, <1>4
<1>8. LinkTypeOK'
  BY <1>1, <1>6, <1>7 DEF LinkInv, LinkTypeOK
<1>9. ASSUME codesSent <= 1 /\ ~givenUp
      PROVE  /\ NothingSkipped' /\ codesSent # 0 /\ Len(pairings) <= 1
             /\ pairings = <<>> /\ transport # 0
             /\ \A k \in DOMAIN transports' : transports'[k].phase # "ended" =>
                   /\ transports'[k].link = stored'.link
                   /\ \A n \in 1..transports'[k].cursor : <<stored'.link, n>> \in handedOn'
  <2>1. /\ Len(pairings) <= 1
        /\ codesSent = 0 => transports = <<>>
        /\ pairings # <<>> \/ transport = 0 => AllEnded
        /\ \A k \in DOMAIN transports : transports[k].phase # "ended" =>
              /\ transports[k].link = stored.link
              /\ \A n \in 1..transports[k].cursor : <<stored.link, n>> \in handedOn
    BY <1>9 DEF LinkInv, LoopsReadTheStored
  <2>2. ~AllEnded /\ transports # <<>>
    BY <1>1 DEF AllEnded, old
  <2>3. ~Raises(i, "connected")
    BY <2>1, <2>2 DEF Raises
  <2>4. handedOn' = handedOn \cup {<<old.link, nonce>>} /\ old.link = stored.link
    BY <1>1, <1>3, <2>1, <2>3 DEF old
  <2>5. \A n \in 1..old.cursor : <<stored.link, n>> \in handedOn
    BY <1>1, <2>1 DEF old
  <2>6. \A n \in 1..nonce : <<stored.link, n>> \in handedOn'
    <3>1. \A n \in 1..nonce : n \in 1..old.cursor \/ n = nonce
      BY <1>4 DEF nonce
    <3> QED BY <2>4, <2>5, <3>1
  <2>7. NothingSkipped'
    BY <1>7, <2>6 DEF NothingSkipped
  <2>8. \A k \in DOMAIN transports : k # i /\ transports[k].phase # "ended" =>
              \A n \in 1..transports[k].cursor : <<stored.link, n>> \in handedOn'
    BY <2>1, <2>4
  <2> QED BY <1>5, <1>6, <1>7, <2>1, <2>2, <2>4, <2>6, <2>7, <2>8
<1>10. LoopsReadTheStored'
  BY <1>1, <1>9 DEF LoopsReadTheStored
<1> QED BY <1>6, <1>8, <1>10 DEF LinkInv

LEMMA LinkRestart ==
  ASSUME LinkInv, RestartStudio
  PROVE  LinkInv'
<1> DEFINE t == NewTransport(stored.url, stored.link, stored.cursor)
<1>1. /\ stored \in [url : Urls, link : Nat, cursor : Nat] /\ codesSent \in Nat /\ givenUp \in BOOLEAN
      /\ UNCHANGED <<stored, handedOn, codesSent, givenUp>> /\ pairings' = <<>>
      /\ \/ transports' = <<t>> /\ transport' = 1 /\ stored.link # 0
         \/ transports' = <<>> /\ transport' = 0
  BY DEF RestartStudio, LinkInv, LinkTypeOK, IsPaired
<1>2. /\ t \in TransportRecord /\ t.link = stored.link /\ t.cursor = stored.cursor
      /\ t.state \in {"update-required", "blocked"} => ~t.running /\ t.phase = "ended"
  BY <1>1, FreshTransport
<1> HIDE DEF t
<1>3. NothingSkipped => NothingSkipped'
  BY <1>1 DEF NothingSkipped
<1>4. Len(<<>>) = 0
  OBVIOUS
<1>5. CASE transports' = <<>> /\ transport' = 0
  <2>1. LinkTypeOK'
    BY <1>1, <1>5 DEF LinkTypeOK
  <2>2. OneLoopRuns' /\ StoppedDead' /\ AllEnded'
    BY <1>5 DEF OneLoopRuns, StoppedDead, AllEnded
  <2>3. LoopsReadTheStored'
    BY <1>1, <1>3, <1>4, <1>5, <2>2 DEF LinkInv, LoopsReadTheStored
  <2> QED BY <2>1, <2>2, <2>3 DEF LinkInv
<1>6. CASE transports' = <<t>> /\ transport' = 1 /\ stored.link # 0
  <2>1. /\ transports' \in Seq(TransportRecord) /\ Len(transports') = 1
        /\ DOMAIN transports' = {1} /\ transports'[1] = t
    BY <1>2, <1>6
  <2>2. LinkTypeOK'
    BY <1>1, <1>6, <2>1 DEF LinkTypeOK
  <2>3. OneLoopRuns' /\ StoppedDead'
    BY <1>2, <1>6, <2>1 DEF OneLoopRuns, StoppedDead
  <2>4. LoopsReadTheStored'
    BY <1>1, <1>2, <1>3, <1>4, <1>6, <2>1 DEF LinkInv, LoopsReadTheStored, NothingSkipped
  <2> QED BY <2>2, <2>3, <2>4 DEF LinkInv
<1> QED BY <1>1, <1>5, <1>6

LEMMA LinkInvStep == LinkInv /\ [LinkNext]_studioLinkVars => LinkInv'
<1> SUFFICES ASSUME LinkInv, [LinkNext]_studioLinkVars PROVE LinkInv'
  OBVIOUS
<1>1. CASE UNCHANGED <<stored, transport, transports, pairings, handedOn, codesSent, givenUp>>
  <2>1. LinkTypeOK' /\ OneLoopRuns' /\ StoppedDead'
    BY <1>1 DEF LinkInv, LinkTypeOK, OneLoopRuns, StoppedDead
  <2>2. LoopsReadTheStored'
    BY <1>1 DEF LinkInv, LoopsReadTheStored, NothingSkipped, AllEnded
  <2> QED BY <2>1, <2>2 DEF LinkInv
<1>2. ASSUME NEW i \in DOMAIN transports,
             TakeDelivery(i) \/ WakeUp(i) \/ \E r \in Responses : TakeAnswer(i, r)
      PROVE  LinkInv'
  BY <1>2, LinkTakeDelivery, LinkWakeUp, LinkTakeAnswer
<1>3. ASSUME NEW k \in DOMAIN pairings, PairingSucceeds(k) \/ PairingFails(k)
      PROVE  LinkInv'
  BY <1>3, LinkPairingSucceeds, LinkPairingFails
<1>4. ASSUME NEW url \in Urls, PressConnect(url) \/ \E wellFormed \in BOOLEAN : PressPair(url, wellFormed)
      PROVE  LinkInv'
  BY <1>4, LinkPressConnect, LinkPressPair
<1>5. CASE RestartStudio
  BY <1>5, LinkRestart
<1>6. ASSUME NEW l \in 1..MaxLinks, DaemonQueues(l)
      PROVE  UNCHANGED <<stored, transport, transports, pairings, handedOn, codesSent, givenUp>>
  BY <1>6 DEF DaemonQueues
<1> QED BY <1>1, <1>2, <1>3, <1>4, <1>5, <1>6 DEF LinkNext, studioLinkVars

(* In every session of Studio one loop at most runs, and it is the one in  *)
(* use; a server of another protocol is not asked again; and while there   *)
(* was one pairing and no poll was abandoned, the stored cursor passes no  *)
(* delivery that was not handed on (connect, pairAndConnect, classify,     *)
(* unwrap).  Any number of links, transports, pairings and restarts.       *)
THEOREM StudioLoopsAreSound == LinkSpec => []LoopsAreSound
<1>1. LinkInit => LinkInv
  BY LinkInvInit
<1>2. LinkInv /\ [LinkNext]_studioLinkVars => LinkInv'
  BY LinkInvStep
<1>3. OnlyThisProtocolDelivers
  BY DEF OnlyThisProtocolDelivers, Classify
<1>4. LinkInv => LoopsAreSound
  BY <1>3 DEF LinkInv, LoopsAreSound, NothingSkippedInPeace, LoopsReadTheStored
<1> QED BY <1>1, <1>2, <1>4, PTL DEF LinkSpec

-----------------------------------------------------------------------------
(* The outcome of a model call *)

PiecesOf(c) ==
    IF Sent(Piece(c, 2)) THEN WholeDocument ELSE IF Sent(Piece(c, 1)) THEN <<1>> ELSE <<>>

(* What the adapter has put together is what was sent, call by call. *)
AssembledAsSent ==
    /\ adapter \in {"openai", "anthropic"}
    /\ lines \in Seq(Lines)
    /\ \A c \in {0} \cup ToolCalls : Sent(Piece(c, 2)) => Sent(Piece(c, 1))
    /\ text = PiecesOf(0)
    /\ toolCalls = [c \in {c \in ToolCalls : Sent(Piece(c, 1))} |-> PiecesOf(c)]
    /\ stopped = {c \in ToolCalls : Sent(Stops(c))}

(* A signal is remembered by its own flag and by which came first; until   *)
(* the call is over there is neither an outcome nor trouble.               *)
SignalsFit ==
    /\ hungUp \in BOOLEAN /\ timedOut \in BOOLEAN /\ trouble \in BOOLEAN
    /\ fired \in {"none", "hangUp", "timer"}
    /\ fired = "none" => ~hungUp /\ ~timedOut
    /\ fired = "hangUp" => hungUp
    /\ fired = "timer" => timedOut
    /\ callAt # "over" => callOutcome = "none" /\ ~trouble

ProvidersInv == AssembledAsSent /\ SignalsFit /\ OutcomesAreDeserved

LEMMA PiecesDiffer ==
  ASSUME NEW c, NEW d, NEW m, NEW n
  PROVE  /\ Piece(c, m) = Piece(d, n) <=> c = d /\ m = n
         /\ Piece(c, m) # Starts(d) /\ Piece(c, m) # Stops(d) /\ Starts(c) # Stops(d)
         /\ Stops(c) = Stops(d) <=> c = d
<1>1. Piece(c, m).line = "piece" /\ Starts(c).line = "start" /\ Stops(c).line = "stop"
  BY DEF Piece, Starts, Stops
<1>2. Starts(d).line = "start" /\ Stops(d).line = "stop"
  BY DEF Starts, Stops
<1>3. /\ Piece(c, m).call = c /\ Piece(c, m).n = m /\ Piece(d, n).call = d /\ Piece(d, n).n = n
      /\ Stops(c).call = c /\ Stops(d).call = d
  BY DEF Piece, Stops
<1> QED BY <1>1, <1>2, <1>3

LEMMA SecondPiece == Append(<<1>>, 2) = <<1, 2>>
<1> DEFINE s == Append(<<1>>, 2)
           t == <<1, 2>>
<1>1. s \in Seq(Nat) /\ Len(s) = 2 /\ s[1] = 1 /\ s[2] = 2
  OBVIOUS
<1>2. t \in Seq(Nat) /\ Len(t) = 2 /\ t[1] = 1 /\ t[2] = 2
  OBVIOUS
<1> HIDE DEF s, t
<1>3. \A i \in 1..Len(s) : s[i] = t[i]
  BY <1>1, <1>2
<1>4. s = t
  BY <1>1, <1>2, <1>3, SeqEqual
<1> QED BY <1>4 DEF s, t

LEMMA LineSent ==
  ASSUME lines \in Seq(Lines), NEW l \in Lines, lines' = Append(lines, l)
  PROVE  lines' \in Seq(Lines) /\ \A x : Sent(x)' <=> Sent(x) \/ x = l
<1>1. /\ lines' \in Seq(Lines) /\ Len(lines') = Len(lines) + 1 /\ Len(lines) \in Nat
      /\ lines'[Len(lines) + 1] = l
      /\ \A i \in 1..Len(lines) : lines'[i] = lines[i]
  OBVIOUS
<1>2. \A i : i \in 1..Len(lines') <=> i \in 1..Len(lines) \/ i = Len(lines) + 1
  BY <1>1
<1> QED BY <1>1, <1>2 DEF Sent, Contains

LEMMA ProvidersInvInit == ProvidersInit => ProvidersInv
<1> SUFFICES ASSUME ProvidersInit PROVE ProvidersInv
  OBVIOUS
<1>1. \A x : ~Sent(x)
  BY DEF ProvidersInit, Sent, Contains
<1>2. {c \in ToolCalls : Sent(Piece(c, 1))} = {} /\ {c \in ToolCalls : Sent(Stops(c))} = {}
  BY <1>1
<1>3. [c \in {} |-> PiecesOf(c)] = [c \in {} |-> <<>>]
  OBVIOUS
<1>4. AssembledAsSent
  <2>1. lines \in Seq(Lines) /\ text = <<>> /\ stopped = {} /\ toolCalls = [c \in {} |-> <<>>]
    BY DEF ProvidersInit, NoCall
  <2>2. PiecesOf(0) = <<>>
    BY <1>1 DEF PiecesOf
  <2>3. toolCalls = [c \in {c \in ToolCalls : Sent(Piece(c, 1))} |-> PiecesOf(c)]
    BY <1>2, <1>3, <2>1
  <2> QED BY <1>1, <1>2, <2>1, <2>2, <2>3 DEF AssembledAsSent, ProvidersInit
<1>5. SignalsFit
  BY DEF ProvidersInit, SignalsFit
<1>6. OutcomesAreDeserved
  BY DEF ProvidersInit, OutcomesAreDeserved, WholeDocumentsOnly, HangUpIsNotBlamed
<1> QED BY <1>4, <1>5, <1>6 DEF ProvidersInv

LEMMA LineAssembled ==
  ASSUME ProvidersInv, NEW l \in Lines, ReadLine(l)
  PROVE  AssembledAsSent'
<1>1. AssembledAsSent /\ MaySend(l) /\ lines' = Append(lines, l)
  BY DEF ProvidersInv, ReadLine
<1>2. /\ lines' \in Seq(Lines) /\ adapter' \in {"openai", "anthropic"}
      /\ \A x : Sent(x)' <=> Sent(x) \/ x = l
  BY <1>1, LineSent DEF AssembledAsSent, ReadLine
<1>3. ASSUME NEW c \in {0} \cup ToolCalls, NEW n \in 1..2, l = Piece(c, n)
      PROVE  AssembledAsSent'
  <2>1. l.line = "piece" /\ l.call = c /\ l.n = n
    BY <1>3 DEF Piece
  <2>2. ~Sent(Piece(c, n)) /\ n = Next2(c)
    BY <1>1, <1>3, <2>1 DEF MaySend
  <2>3. /\ n = 1 => ~Sent(Piece(c, 1)) /\ ~Sent(Piece(c, 2)) /\ PiecesOf(c) = <<>>
        /\ n = 2 => Sent(Piece(c, 1)) /\ ~Sent(Piece(c, 2)) /\ PiecesOf(c) = <<1>>
    BY <1>1, <2>2 DEF Next2, PiecesOf, AssembledAsSent
  <2>4. \A d, m : Sent(Piece(d, m))' <=> Sent(Piece(d, m)) \/ (d = c /\ m = n)
    BY <1>2, <1>3, PiecesDiffer
  <2>5. \A d : Sent(Stops(d))' <=> Sent(Stops(d))
    BY <1>2, <1>3, PiecesDiffer
  <2>6. n = 1 \/ n = 2
    OBVIOUS
  <2>7. PiecesOf(c)' = Append(PiecesOf(c), n) /\ \A d : d # c => PiecesOf(d)' = PiecesOf(d)
    <3>1. \A d : d # c => PiecesOf(d)' = PiecesOf(d)
      BY <2>4 DEF PiecesOf
    <3>2. CASE n = 1
      BY <2>3, <2>4, <3>2 DEF PiecesOf
    <3>3. CASE n = 2
      <4>1. PiecesOf(c)' = <<1, 2>>
        BY <2>4, <3>3 DEF PiecesOf, WholeDocument
      <4> QED BY <2>3, <3>1, <3>3, <4>1, SecondPiece
    <3> QED BY <2>6, <3>1, <3>2, <3>3
  <2>8. \A d \in {0} \cup ToolCalls : Sent(Piece(d, 2))' => Sent(Piece(d, 1))'
    BY <1>1, <2>3, <2>4 DEF AssembledAsSent
  <2>9. stopped' = {d \in ToolCalls : Sent(Stops(d))'}
    BY <1>1, <2>1, <2>5 DEF AssembledAsSent, ReadLine
  <2>10. CASE c = 0
    <3>1. text' = PiecesOf(0)'
      BY <1>1, <2>1, <2>7, <2>10 DEF AssembledAsSent, ReadLine
    <3>2. toolCalls' = toolCalls /\ 0 \notin ToolCalls
      BY <2>1, <2>10 DEF ReadLine, ToolCalls
    <3>3. \A d \in ToolCalls : PiecesOf(d)' = PiecesOf(d) /\ (Sent(Piece(d, 1))' <=> Sent(Piece(d, 1)))
      BY <2>4, <2>7, <2>10, <3>2
    <3>4. toolCalls' = [d \in {d \in ToolCalls : Sent(Piece(d, 1))'} |-> PiecesOf(d)']
      BY <1>1, <3>2, <3>3 DEF AssembledAsSent
    <3> QED BY <1>2, <2>8, <2>9, <3>1, <3>4 DEF AssembledAsSent
  <2>11. CASE c \in ToolCalls
    <3>1. c # 0
      BY <2>11 DEF ToolCalls
    <3>2. text' = PiecesOf(0)'
      BY <1>1, <2>1, <2>7, <3>1 DEF AssembledAsSent, ReadLine
    <3>3. toolCalls' = Extended(c, n)
      BY <2>1, <3>1 DEF ReadLine
    <3>4. DOMAIN toolCalls = {d \in ToolCalls : Sent(Piece(d, 1))}
          /\ \A d \in DOMAIN toolCalls : toolCalls[d] = PiecesOf(d)
      BY <1>1 DEF AssembledAsSent
    <3>5. {d \in ToolCalls : Sent(Piece(d, 1))'} = DOMAIN toolCalls \cup {c}
      BY <2>3, <2>4, <2>6, <2>11, <3>4
    <3>6. (IF c \in DOMAIN toolCalls THEN toolCalls[c] ELSE <<>>) = PiecesOf(c)
      BY <1>1, <2>3, <2>6, <2>11, <3>4
    <3>7. \A d \in DOMAIN toolCalls \cup {c} :
             (IF d = c THEN Append(IF c \in DOMAIN toolCalls THEN toolCalls[c] ELSE <<>>, n)
              ELSE toolCalls[d]) = PiecesOf(d)'
      BY <2>7, <3>4, <3>6
    <3>8. toolCalls' = [d \in DOMAIN toolCalls \cup {c} |-> PiecesOf(d)']
      BY <3>3, <3>7 DEF Extended
    <3>9. toolCalls' = [d \in {d \in ToolCalls : Sent(Piece(d, 1))'} |-> PiecesOf(d)']
      BY <3>5, <3>8
    <3> QED BY <1>2, <2>8, <2>9, <3>2, <3>9 DEF AssembledAsSent
  <2> QED BY <2>10, <2>11
<1>4. ASSUME NEW c \in ToolCalls, l = Starts(c) \/ l = Stops(c)
      PROVE  AssembledAsSent'
  <2>1. /\ l.line # "piece" /\ l.call = c
        /\ l.line = "stop" <=> l = Stops(c)
    BY <1>4, PiecesDiffer DEF Starts, Stops
  <2>2. /\ \A d, m : Sent(Piece(d, m))' <=> Sent(Piece(d, m))
        /\ \A d : Sent(Stops(d))' <=> Sent(Stops(d)) \/ (d = c /\ l = Stops(c))
    BY <1>2, <1>4, PiecesDiffer
  <2>3. \A d : PiecesOf(d)' = PiecesOf(d)
    BY <2>2 DEF PiecesOf
  <2>4. text' = text /\ toolCalls' = toolCalls
        /\ stopped' = IF l = Stops(c) THEN stopped \cup {c} ELSE stopped
    BY <2>1 DEF ReadLine
  <2>5. stopped' = {d \in ToolCalls : Sent(Stops(d))'}
    BY <1>1, <2>2, <2>4 DEF AssembledAsSent
  <2>6. toolCalls' = [d \in {d \in ToolCalls : Sent(Piece(d, 1))'} |-> PiecesOf(d)']
    BY <1>1, <2>2, <2>3, <2>4 DEF AssembledAsSent
  <2>7. /\ \A d \in {0} \cup ToolCalls : Sent(Piece(d, 2))' => Sent(Piece(d, 1))'
        /\ text' = PiecesOf(0)'
    BY <1>1, <2>2, <2>3, <2>4 DEF AssembledAsSent
  <2> QED BY <1>2, <2>5, <2>6, <2>7 DEF AssembledAsSent
<1> QED BY <1>3, <1>4 DEF Lines

(* The document of a completed call is what was sent of it. *)
LEMMA WholeMeansSent ==
  ASSUME AssembledAsSent, NEW c \in {0} \cup ToolCalls
  PROVE  /\ c # 0 => Arguments(c) = PiecesOf(c)
         /\ (PiecesOf(c) = WholeDocument) <=> SentWhole(c)
<1>1. <<1>> # <<1, 2>> /\ <<>> # <<1, 2>>
  <2>1. Len(<<1>>) = 1 /\ Len(<<1, 2>>) = 2 /\ Len(<<>>) = 0
    OBVIOUS
  <2> QED BY <2>1
<1>2. Sent(Piece(c, 2)) => Sent(Piece(c, 1))
  BY DEF AssembledAsSent
<1>3. (PiecesOf(c) = WholeDocument) <=> SentWhole(c)
  BY <1>1, <1>2 DEF PiecesOf, WholeDocument, SentWhole
<1>4. ASSUME c # 0 PROVE Arguments(c) = PiecesOf(c)
  <2>1. c \in ToolCalls
    BY <1>4
  <2>2. /\ c \in DOMAIN toolCalls <=> Sent(Piece(c, 1))
        /\ c \in DOMAIN toolCalls => toolCalls[c] = PiecesOf(c)
    BY <2>1 DEF AssembledAsSent
  <2> QED BY <1>2, <2>2 DEF Arguments, PiecesOf
<1> QED BY <1>3, <1>4

LEMMA EnvelopeIsDeserved ==
  ASSUME AssembledAsSent
  PROVE  /\ Envelope = WholeDocument =>
               \E c \in {0} \cup ToolCalls :
                  /\ SentWhole(c)
                  /\ \A other \in ToolCalls \ {c} : other \in CompletedCalls => c = ChangeSetTool
         /\ Envelope # WholeDocument =>
               ~(SentWhole(ChangeSetTool) /\ (adapter = "anthropic" => Sent(Stops(ChangeSetTool))))
<1>1. CompletedCalls \subseteq ToolCalls /\ ChangeSetTool \in ToolCalls /\ 0 \notin ToolCalls
  BY DEF CompletedCalls, AssembledAsSent, ToolCalls, ChangeSetTool
<1>2. /\ \A c \in ToolCalls : Arguments(c) = PiecesOf(c)
      /\ \A c \in {0} \cup ToolCalls : (PiecesOf(c) = WholeDocument) <=> SentWhole(c)
  BY <1>1, WholeMeansSent
<1>3. <<>> # WholeDocument
  <2>1. Len(<<1, 2>>) = 2 /\ Len(<<>>) = 0
    OBVIOUS
  <2> QED BY <2>1 DEF WholeDocument
<1>4. CASE ChangeSetTool \in CompletedCalls
  <2>1. Envelope = PiecesOf(ChangeSetTool)
    BY <1>1, <1>2, <1>4 DEF Envelope
  <2> QED BY <1>1, <1>2, <2>1
<1>5. CASE ChangeSetTool \notin CompletedCalls
  <2>1. ~(SentWhole(ChangeSetTool) /\ (adapter = "anthropic" => Sent(Stops(ChangeSetTool))))
    <3>1. CASE adapter = "openai"
      <4>1. ChangeSetTool \notin DOMAIN toolCalls
        BY <1>5, <3>1 DEF CompletedCalls
      <4> QED BY <1>1, <4>1 DEF AssembledAsSent, SentWhole
    <3>2. CASE adapter # "openai" /\ adapter = "anthropic"
      BY <1>1, <1>5, <3>2 DEF CompletedCalls, AssembledAsSent
    <3>3. CASE adapter \notin {"openai", "anthropic"}
      BY <3>3 DEF AssembledAsSent
    <3> QED BY <3>1, <3>2, <3>3
  <2>2. CASE CompletedCalls = {}
    <3>1. Envelope = PiecesOf(0)
      BY <1>5, <2>2 DEF Envelope, AssembledAsSent
    <3> QED BY <1>2, <2>1, <2>2, <3>1
  <2>3. CASE \E c \in CompletedCalls : CompletedCalls = {c}
    <3>1. PICK c \in CompletedCalls : CompletedCalls = {c}
      BY <2>3
    <3>2. (CHOOSE d \in CompletedCalls : TRUE) = c
      BY <3>1
    <3>3. Envelope = Arguments(c)
      BY <1>5, <3>1, <3>2 DEF Envelope
    <3>4. Envelope = PiecesOf(c) /\ c \in ToolCalls
      BY <1>1, <1>2, <3>1, <3>3
    <3> QED BY <1>2, <2>1, <3>1, <3>4
  <2>4. CASE CompletedCalls # {} /\ ~\E c \in CompletedCalls : CompletedCalls = {c}
    <3>1. Envelope = <<>>
      BY <1>5, <2>4 DEF Envelope
    <3> QED BY <1>3, <2>1, <3>1
  <2> QED BY <2>2, <2>3, <2>4
<1> QED BY <1>4, <1>5

(* Nothing more is read. *)
LEMMA NothingRead ==
  ASSUME AssembledAsSent, Unread, UNCHANGED adapter
  PROVE  /\ AssembledAsSent' /\ CompletedCalls' = CompletedCalls
         /\ \A x : Sent(x)' <=> Sent(x)
         /\ \A c : SentWhole(c)' <=> SentWhole(c)
<1>1. \A x : Sent(x)' <=> Sent(x)
  BY DEF Unread, Sent
<1>2. \A c : PiecesOf(c)' = PiecesOf(c) /\ (SentWhole(c)' <=> SentWhole(c))
  BY <1>1 DEF PiecesOf, SentWhole
<1>3. CompletedCalls' = CompletedCalls
  BY DEF Unread, CompletedCalls
<1>4. AssembledAsSent'
  BY <1>1, <1>2 DEF Unread, AssembledAsSent
<1> QED BY <1>1, <1>2, <1>3, <1>4

(* A call that ends in trouble, or is ended by a signal, gives nothing. *)
LEMMA EndsWithout ==
  ASSUME ProvidersInv, NEW o, Over(o), callAt # "over", Unsignalled, Unread, UNCHANGED adapter,
         trouble' \in BOOLEAN, o # "ok", o = "invalid-output" => trouble',
         o = "cancelled" => hungUp,
         o \in {"rate-limited", "provider-error", "timeout"} => trouble' \/ timedOut
  PROVE  ProvidersInv'
<1>1. AssembledAsSent'
  BY NothingRead DEF ProvidersInv
<1>2. SignalsFit'
  BY DEF ProvidersInv, SignalsFit, Over, Unsignalled
<1>3. WholeDocumentsOnly'
  BY DEF WholeDocumentsOnly, Over
<1>4. HangUpIsNotBlamed'
  BY DEF HangUpIsNotBlamed, Over, Unsignalled
<1> QED BY <1>1, <1>2, <1>3, <1>4 DEF ProvidersInv, OutcomesAreDeserved

LEMMA StreamEndsWell ==
  ASSUME ProvidersInv, NEW reason, StreamEnds(reason)
  PROVE  ProvidersInv'
<1> DEFINE o == IF reason = "refusal" THEN "refused"
                ELSE IF Envelope = WholeDocument THEN "ok" ELSE "invalid-output"
<1>1. /\ Over(o) /\ callAt = "streaming" /\ Unsignalled /\ Unread /\ UNCHANGED <<adapter, trouble>>
      /\ AssembledAsSent /\ SignalsFit
  BY DEF StreamEnds, ProvidersInv
<1>2. /\ AssembledAsSent' /\ CompletedCalls' = CompletedCalls
      /\ \A x : Sent(x)' <=> Sent(x)
      /\ \A c : SentWhole(c)' <=> SentWhole(c)
  BY <1>1, NothingRead
<1>3. /\ o \in {"refused", "ok", "invalid-output"}
      /\ o = "ok" => Envelope = WholeDocument
      /\ o = "invalid-output" => Envelope # WholeDocument
  OBVIOUS
<1> HIDE DEF o
<1>4. ~trouble'
  BY <1>1 DEF SignalsFit
<1>5. SignalsFit'
  BY <1>1, <1>4 DEF SignalsFit, Over, Unsignalled
<1>6. HangUpIsNotBlamed'
  BY <1>1, <1>3 DEF HangUpIsNotBlamed, Over
<1>7. WholeDocumentsOnly'
  <2>1. callOutcome' = o /\ adapter' = adapter
    BY <1>1 DEF Over
  <2>2. ASSUME o = "ok"
        PROVE  \E c \in {0} \cup ToolCalls :
                  /\ SentWhole(c)'
                  /\ \A other \in ToolCalls \ {c} : other \in CompletedCalls' => c = ChangeSetTool
    <3>1. PICK c \in {0} \cup ToolCalls :
                  /\ SentWhole(c)
                  /\ \A other \in ToolCalls \ {c} : other \in CompletedCalls => c = ChangeSetTool
      BY <1>1, <1>3, <2>2, EnvelopeIsDeserved
    <3> QED BY <1>2, <3>1
  <2>3. ASSUME o = "invalid-output"
        PROVE  ~(SentWhole(ChangeSetTool)' /\ (adapter' = "anthropic" => Sent(Stops(ChangeSetTool))'))
    <3>1. ~(SentWhole(ChangeSetTool) /\ (adapter = "anthropic" => Sent(Stops(ChangeSetTool))))
      BY <1>1, <1>3, <2>3, EnvelopeIsDeserved
    <3> QED BY <1>2, <2>1, <3>1
  <2> QED BY <1>4, <2>1, <2>2, <2>3 DEF WholeDocumentsOnly
<1> QED BY <1>2, <1>5, <1>6, <1>7 DEF ProvidersInv, OutcomesAreDeserved

(* While the call is under way nothing is said of it. *)
LEMMA StillUnderWay ==
  ASSUME ProvidersInv, AssembledAsSent', SignalsFit', callOutcome' = "none"
  PROVE  ProvidersInv'
BY DEF ProvidersInv, OutcomesAreDeserved, WholeDocumentsOnly, HangUpIsNotBlamed

LEMMA ProvidersInvStep == ProvidersInv /\ [ProvidersNext]_providerVars => ProvidersInv'
<1> SUFFICES ASSUME ProvidersInv, [ProvidersNext]_providerVars PROVE ProvidersInv'
  OBVIOUS
<1> USE DEF ProvidersInv
<1>1. CASE CallerHangsUp \/ TimerFires
  <2>1. Unread /\ UNCHANGED adapter /\ callAt # "over" /\ UNCHANGED <<callAt, trouble, callOutcome>>
    BY <1>1 DEF CallerHangsUp, TimerFires
  <2>2. SignalsFit'
    <3>1. CASE CallerHangsUp
      <4>1. /\ hungUp' = TRUE /\ timedOut' = timedOut
            /\ fired' = IF fired = "none" THEN "hangUp" ELSE fired
        BY <3>1 DEF CallerHangsUp
      <4>2. SignalsFit
        OBVIOUS
      <4> QED BY <2>1, <4>1, <4>2 DEF SignalsFit
    <3>2. CASE TimerFires
      <4>1. /\ timedOut' = TRUE /\ hungUp' = hungUp
            /\ fired' = IF fired = "none" THEN "timer" ELSE fired
        BY <3>2 DEF TimerFires
      <4>2. SignalsFit
        OBVIOUS
      <4> QED BY <2>1, <4>1, <4>2 DEF SignalsFit
    <3> QED BY <1>1, <3>1, <3>2
  <2>3. callOutcome' = "none"
    BY <2>1 DEF SignalsFit
  <2> QED BY <2>1, <2>2, <2>3, NothingRead, StillUnderWay
<1>2. CASE Post \/ Responds
  <2>1. Unread /\ UNCHANGED adapter /\ callAt # "over" /\ UNCHANGED <<trouble, callOutcome>>
    BY <1>2 DEF Post, Responds
  <2>2. SignalsFit'
    BY <1>2 DEF Post, Responds, SignalsFit, Unsignalled
  <2>3. callOutcome' = "none"
    BY <2>1 DEF SignalsFit
  <2> QED BY <2>1, <2>2, <2>3, NothingRead, StillUnderWay
<1>3. CASE NoCredential
  BY <1>3, EndsWithout DEF NoCredential
<1>4. CASE FetchRejects
  <2>1. /\ Over(TransportFailure) /\ callAt # "over" /\ Unsignalled /\ Unread /\ UNCHANGED adapter
        /\ trouble' = (fired = "none")
    BY <1>4 DEF FetchRejects
  <2>2. /\ TransportFailure \in {"cancelled", "timeout", "provider-error"}
        /\ TransportFailure = "cancelled" => hungUp
        /\ TransportFailure = "timeout" => timedOut
        /\ TransportFailure = "provider-error" => fired = "none"
    BY DEF TransportFailure, SignalsFit
  <2> QED BY <2>1, <2>2, EndsWithout
<1>5. ASSUME NEW status \in {429, 408, 504, 500}, HttpFailure(status) PROVE ProvidersInv'
  <2>1. OutcomeForStatus(status) \in {"rate-limited", "timeout", "provider-error"}
    BY DEF OutcomeForStatus
  <2> QED BY <1>5, <2>1, EndsWithout DEF HttpFailure
<1>6. ASSUME NEW l \in Lines, ReadLine(l) PROVE ProvidersInv'
  <2>1. AssembledAsSent'
    BY <1>6, LineAssembled
  <2>2. SignalsFit' /\ callOutcome' = "none"
    BY <1>6 DEF ReadLine, SignalsFit, Unsignalled
  <2> QED BY <2>1, <2>2, StillUnderWay
<1>7. ASSUME NEW outcome \in {"rate-limited", "timeout", "provider-error", "invalid-output"},
             ErrorLine(outcome)
      PROVE  ProvidersInv'
  BY <1>7, EndsWithout DEF ErrorLine
<1>8. CASE ReadRejects
  <2>1. PICK outcome \in OutcomeOf : Over(outcome)
    BY <1>8 DEF ReadRejects
  <2>2. /\ callAt # "over" /\ Unsignalled /\ Unread /\ UNCHANGED adapter
        /\ trouble' = (fired = "none")
    BY <1>8 DEF ReadRejects
  <2>3. /\ outcome \in {"cancelled", "timeout", "provider-error"}
        /\ outcome = "cancelled" => hungUp
        /\ outcome = "timeout" => timedOut
        /\ outcome = "provider-error" => fired = "none"
    BY DEF OutcomeOf, SignalsFit
  <2> QED BY <2>1, <2>2, <2>3, EndsWithout
<1>9. ASSUME NEW reason \in {"stop", "refusal", "none"}, StreamEnds(reason) PROVE ProvidersInv'
  BY <1>9, StreamEndsWell
<1>10. CASE UNCHANGED providerVars
  <2>1. Unread /\ UNCHANGED <<adapter, callAt, hungUp, timedOut, fired, trouble, callOutcome>>
    BY <1>10 DEF providerVars, Unread
  <2>2. /\ AssembledAsSent' /\ CompletedCalls' = CompletedCalls
        /\ \A x : Sent(x)' <=> Sent(x)
        /\ \A c : SentWhole(c)' <=> SentWhole(c)
    BY <2>1, NothingRead
  <2>3. SignalsFit' /\ HangUpIsNotBlamed'
    BY <2>1 DEF SignalsFit, OutcomesAreDeserved, HangUpIsNotBlamed
  <2>4. WholeDocumentsOnly'
    BY <2>1, <2>2 DEF OutcomesAreDeserved, WholeDocumentsOnly
  <2> QED BY <2>2, <2>3, <2>4 DEF OutcomesAreDeserved
<1> QED BY <1>1, <1>2, <1>3, <1>4, <1>5, <1>6, <1>7, <1>8, <1>9, <1>10 DEF ProvidersNext

(* A call is recorded with the outcome it deserves, for any number of      *)
(* lines: a ChangeSet is taken only from a document that arrived whole, a  *)
(* whole ChangeSet call is not lost, and a hang-up is not held against the *)
(* provider (stream, generateChangeSet, outcomeOf).                        *)
THEOREM ProviderOutcomesAreDeserved == ProvidersSpec => []OutcomesAreDeserved
<1>1. ProvidersInit => ProvidersInv
  BY ProvidersInvInit
<1>2. ProvidersInv /\ [ProvidersNext]_providerVars => ProvidersInv'
  BY ProvidersInvStep
<1>3. ProvidersInv => OutcomesAreDeserved
  BY DEF ProvidersInv
<1> QED BY <1>1, <1>2, <1>3, PTL DEF ProvidersSpec

=============================================================================
