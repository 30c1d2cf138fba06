----------------------------- MODULE StudioLink -----------------------------
(***************************************************************************)
(* How the plugin comes by a link and keeps it: the address check, pairing *)
(* (Pairing.luau), the poll loop's reading of answers and the one after    *)
(* another transports of a Studio session (Transport.luau), and the        *)
(* settings that outlive it (init.server.luau).                            *)
(*                                                                         *)
(* Every press of Connect runs on a thread of its own, and a loop that was *)
(* stopped still gets the answer to the poll it had out.  What a delivery  *)
(* does once it is handed on is the matter of Plugin.                      *)
(***************************************************************************)
EXTENDS Integers, Sequences, FiniteSets, SequencesExt

CONSTANTS
    Urls,           \* addresses typed: scheme, host, credentials
    Responses,      \* what a poll may be answered, see Classify
    MaxLinks,       \* bound: links the daemon makes
    MaxDelivered,       \* bound: deliveries queued for a link
    MaxTransports,  \* bound: transports of a session
    MaxPairings,    \* bound: codes sent to pair
    MaxStudios      \* bound: times Studio is started

VARIABLES
    stored,         \* the settings: address, link (0: none), cursor
    transport,      \* index of the transport in use, 0: nil
    transports,     \* every transport of this session
    pairings,       \* addresses of the pairings under way
    queued,         \* daemon: link |-> deliveries made for it
    handedOn,       \* history: <<link, nonce>> a handler was called with
    codesSent,      \* history: codes that were sent
    givenUp,        \* history: a transport was dropped with its poll out
    studios         \* history: times Studio was started

studioLinkVars == <<stored, transport, transports, pairings, queued, handedOn,
                    codesSent, givenUp, studios>>

-----------------------------------------------------------------------------
(* Addresses *)

Loopback(url) == url.host = "loopback"

(* parseBaseUrl: `lookalike' is a remote name that begins like a loopback  *)
(* one.                                                                    *)
ParseBaseUrl(url) ==
    /\ url.scheme \in {"http", "https"}
    /\ ~url.credentials
    /\ Loopback(url) \/ url.scheme = "https"

(* deliveryGate: no relay speaks the handshake yet. *)
DeliveryGate(url) == Loopback(url)

(* The address a fresh installation is set to is among them. *)
ASSUME StudioLinkAssumption ==
    /\ MaxLinks \in Nat
    /\ \E u \in Urls : ParseBaseUrl(u) /\ DeliveryGate(u)

-----------------------------------------------------------------------------
(* Answers to a poll *)

(* A server that speaks another protocol major, or says that this plugin   *)
(* is too old, is obeyed whatever else the answer holds.                   *)
Classify(r) ==
    IF ~r.ok THEN "retry"
    ELSE IF r.major = "other" THEN "update-required"
    ELSE IF r.status = 426 \/ r.code = "unsupported_version" THEN "update-required"
    ELSE IF r.status = 204 THEN "empty"
    ELSE IF r.status = 200 THEN (IF r.body = "json" THEN "delivery" ELSE "retry")
    ELSE IF r.status = 401 \/ r.code = "link_unauthenticated" THEN "unauthenticated"
    ELSE IF r.status = 409 THEN (IF r.code = "replay_detected" THEN "refuse" ELSE "unpaired")
    ELSE IF r.status = 429 THEN "rate-limited"
    ELSE IF r.status >= 500 THEN "retry"
    ELSE "refuse"

StateAfter(verdict) ==
    CASE verdict \in {"empty", "delivery"} -> "connected"
      [] verdict = "retry" -> "reconnecting"
      [] verdict = "rate-limited" -> "throttled"
      [] verdict = "refuse" -> "error"
      [] OTHER -> verdict

-----------------------------------------------------------------------------
(* What is signed *)

Digit == <<"0", "1", "2", "3">>
NewLine == "nl"

(* requestMacMessage: each part after a newline, its length and a colon.   *)
RequestMacMessage(parts) ==
    FoldLeft(LAMBDA text, part : text \o <<NewLine, Digit[Len(part) + 1], ":">> \o part,
             <<"request">>, parts)

(* envelopeMacMessage: fixed fields first, the free-form payload last.     *)
EnvelopeMacMessage(link, nonce, encrypted, payload) ==
    <<"envelope", NewLine>> \o link \o <<NewLine, Digit[nonce + 1], NewLine,
      IF encrypted THEN "1" ELSE "0", NewLine>> \o payload

-----------------------------------------------------------------------------
(* Transports *)

NewTransport(url, link, cursor) ==
    [link |-> link, cursor |-> cursor, running |-> DeliveryGate(url),
     state |-> IF DeliveryGate(url) THEN "connecting" ELSE "blocked",
     phase |-> IF DeliveryGate(url) THEN "polling" ELSE "ended"]

(* Mutant: the old loop is told nothing. *)
KeptRunning(i) ==
    IF i = 0 THEN transports ELSE [transports EXCEPT ![i].state = "idle"]
Stopped(i) ==
    IF i = 0 THEN transports
    ELSE [transports EXCEPT ![i].running = FALSE, ![i].state = "idle"]

IsPaired(settings) == settings.link # 0

(* Nothing is in use any more: the transport is stopped and forgotten. *)
GiveUp ==
    /\ transports' = Stopped(transport)
    /\ transport' = 0
    /\ givenUp' = (givenUp \/ \E i \in DOMAIN transports : transports[i].phase # "ended")

(* connect: the transport in use is stopped and a new one made for the     *)
(* stored link, if its address passes.                                     *)
Connect(settings) ==
    IF IsPaired(settings) /\ ParseBaseUrl(settings.url)
    THEN /\ Len(transports) < MaxTransports
         /\ transports' = Append(Stopped(transport),
                                 NewTransport(settings.url, settings.link, settings.cursor))
         /\ transport' = Len(transports) + 1
         /\ UNCHANGED givenUp
    ELSE GiveUp

LinkInit ==
    /\ stored = [url |-> CHOOSE u \in Urls : ParseBaseUrl(u) /\ DeliveryGate(u),
                 link |-> 0, cursor |-> 0]
    /\ transport = 0
    /\ transports = <<>>
    /\ pairings = <<>>
    /\ queued = [l \in 1..MaxLinks |-> -1]
    /\ handedOn = {}
    /\ codesSent = 0
    /\ givenUp = FALSE
    /\ studios = 1

(* onConnect with an empty box: resume the stored link. *)
PressConnect(url) ==
    /\ stored' = [stored EXCEPT !.url = url]
    /\ IF IsPaired(stored) THEN Connect(stored')
       ELSE UNCHANGED <<transport, transports, givenUp>>
    /\ UNCHANGED <<pairings, queued, handedOn, codesSent, studios>>

(* onConnect with a code: the transport is given up before the answer is   *)
(* known.  Pairing.pair sends the code if address and code are in order.   *)
PressPair(url, wellFormed) ==
    /\ stored' = [stored EXCEPT !.url = url]
    /\ GiveUp
    /\ IF ParseBaseUrl(url) /\ wellFormed
       THEN /\ codesSent < MaxPairings
            /\ codesSent' = codesSent + 1
            /\ pairings' = Append(pairings, url)
       ELSE UNCHANGED <<codesSent, pairings>>
    /\ UNCHANGED <<queued, handedOn, studios>>

LinksMade == Cardinality({l \in 1..MaxLinks : queued[l] >= 0})

(* storeLink: the counters of a fresh link start over. *)
StoreLink(link) == [stored EXCEPT !.link = link, !.cursor = 0]

(* The daemon redeems a code and the answer checks out: readable, of this  *)
(* protocol, with a salt the same key follows from.  The link is stored    *)
(* with fresh counters and connected.                                      *)
PairingSucceeds(k) ==
    LET new == LinksMade + 1 IN
    /\ LinksMade < MaxLinks
    /\ pairings' = RemoveAt(pairings, k)
    /\ queued' = [queued EXCEPT ![new] = 0]
    /\ stored' = StoreLink(new)
    /\ Connect(stored')
    /\ UNCHANGED <<handedOn, codesSent, studios>>

(* No answer, a refusal, or one that does not check out (the daemon may    *)
(* have made a link nobody holds).                                         *)
PairingFails(k) ==
    /\ pairings' = RemoveAt(pairings, k)
    /\ queued' \in {queued} \cup
          (IF LinksMade < MaxLinks THEN {[queued EXCEPT ![LinksMade + 1] = 0]} ELSE {})
    /\ UNCHANGED <<stored, transport, transports, handedOn, codesSent, givenUp, studios>>

DaemonQueues(l) ==
    /\ queued[l] \in 0..(MaxDelivered - 1)
    /\ queued' = [queued EXCEPT ![l] = @ + 1]
    /\ UNCHANGED <<stored, transport, transports, pairings, handedOn, codesSent,
                   givenUp, studios>>

-----------------------------------------------------------------------------
(* The loop *)

(* _setState tells the panel through onState, which reads the transport in *)
(* use: with none in use it raises, and the loop's thread is gone.         *)
Raises(i, state) == transport = 0 /\ transports[i].state # state

Onward(i) == IF transports[i].running THEN "polling" ELSE "ended"

(* unwrap accepts the next delivery: the loop's cursor and the stored one  *)
(* move, then the handler is called; one that throws is reported.          *)
TakeDelivery(i) ==
    LET t == transports[i]
        nonce == t.cursor + 1
    IN  /\ t.phase = "polling" /\ queued[t.link] >= nonce
        /\ stored' = [stored EXCEPT !.cursor = nonce]
        /\ IF Raises(i, "connected")
           THEN /\ transports' = [transports EXCEPT ![i].cursor = nonce, ![i].phase = "ended"]
                /\ UNCHANGED handedOn
           ELSE /\ handedOn' = handedOn \cup {<<t.link, nonce>>}
                /\ \/ transports' = [transports EXCEPT ![i] =
                          [@ EXCEPT !.cursor = nonce, !.state = "connected",
                                    !.phase = Onward(i)]]
                   \/ transports' = [transports EXCEPT ![i] =
                          [@ EXCEPT !.cursor = nonce, !.state = "error",
                                    !.phase = "waiting"]]
        /\ UNCHANGED <<transport, pairings, queued, codesSent, givenUp, studios>>

(* Any other answer.  A body that unwrap refuses (another link's, a MAC    *)
(* that does not verify, a nonce not above the cursor, encrypted, of an    *)
(* unknown kind) moves nothing and is retried after a pause.               *)
TakeAnswer(i, r) ==
    LET t == transports[i]
        verdict == Classify(r)
        state == StateAfter(verdict)
    IN  /\ t.phase = "polling"
        /\ transports' = [transports EXCEPT ![i] =
              IF Raises(i, state) THEN [@ EXCEPT !.phase = "ended"]
              ELSE IF verdict = "update-required"
              THEN [@ EXCEPT !.running = FALSE, !.state = state, !.phase = "ended"]
              ELSE IF verdict = "empty"
              THEN [@ EXCEPT !.state = state, !.phase = Onward(i)]
              ELSE [@ EXCEPT !.state = state, !.phase = "waiting"]]
        /\ UNCHANGED <<stored, transport, pairings, queued, handedOn, codesSent,
                       givenUp, studios>>

(* The pause (nextBackoff, Retry-After) is over. *)
WakeUp(i) ==
    /\ transports[i].phase = "waiting"
    /\ transports' = [transports EXCEPT ![i].phase = Onward(i)]
    /\ UNCHANGED <<stored, transport, pairings, queued, handedOn, codesSent,
                   givenUp, studios>>

(* Studio is closed and opened: only the settings remain, and the plugin   *)
(* connects at once if they hold a link.                                   *)
RestartStudio ==
    /\ studios < MaxStudios
    /\ studios' = studios + 1
    /\ pairings' = <<>>
    /\ IF IsPaired(stored) /\ ParseBaseUrl(stored.url)
       THEN /\ transports' = <<NewTransport(stored.url, stored.link, stored.cursor)>>
            /\ transport' = 1
       ELSE transports' = <<>> /\ transport' = 0
    /\ UNCHANGED <<stored, queued, handedOn, codesSent, givenUp>>

LinkNext ==
    \/ \E url \in Urls : PressConnect(url)
    \/ \E url \in Urls, wellFormed \in BOOLEAN : PressPair(url, wellFormed)
    \/ \E k \in DOMAIN pairings : PairingSucceeds(k) \/ PairingFails(k)
    \/ \E l \in 1..MaxLinks : DaemonQueues(l)
    \/ \E i \in DOMAIN transports :
          TakeDelivery(i) \/ WakeUp(i) \/ \E r \in Responses : TakeAnswer(i, r)
    \/ RestartStudio

LinkSpec == LinkInit /\ [][LinkNext]_studioLinkVars

-----------------------------------------------------------------------------
(* However Connect is pressed, one loop runs at most and it is the one in  *)
(* use (connect, pairAndConnect).                                          *)
OneLoopRuns ==
    \A i \in DOMAIN transports : transports[i].running => i = transport

(* A server this plugin is too old for is not asked again by the same      *)
(* loop, and only a loopback address is polled (classify, deliveryGate).   *)
StoppedDead ==
    \A i \in DOMAIN transports :
       transports[i].state \in {"update-required", "blocked"} =>
          ~transports[i].running /\ transports[i].phase = "ended"

(* An old protocol is noticed before anything in the answer is used.       *)
OnlyThisProtocolDelivers ==
    \A r \in Responses :
       Classify(r) \in {"delivery", "empty"} =>
          r.ok /\ r.major # "other" /\ r.code # "unsupported_version"

(* The stored cursor passes no delivery that was not handed on, so that a  *)
(* restarted Studio resumes where it stopped (unwrap, onCursor).           *)
NothingSkipped ==
    \A n \in 1..stored.cursor : <<stored.link, n>> \in handedOn

(* ... which the code keeps up as long as it was paired once only and gave *)
(* up no transport that still waited for an answer.                        *)
NothingSkippedInPeace == codesSent <= 1 /\ ~givenUp => NothingSkipped

(* The loops of a session: one at a time, obedient to the protocol's       *)
(* version, and passing nothing over.                                      *)
LoopsAreSound ==
    /\ OneLoopRuns
    /\ StoppedDead
    /\ OnlyThisProtocolDelivers
    /\ NothingSkippedInPeace

(* Two different requests, or two different envelopes, never have the same *)
(* signature input, whatever characters their parts are made of            *)
(* (requestMacMessage, envelopeMacMessage).                                *)
Characters == {"1", ":", NewLine}
Texts == {<<>>} \cup {<<c>> : c \in Characters} \cup {<<c, d>> : c, d \in Characters}
PartLists == {<<>>} \cup {<<p>> : p \in Texts} \cup {<<p, q>> : p, q \in Texts}
Identifiers == {<<"1">>, <<"0">>}
Sealed == Identifiers \X (0..1) \X BOOLEAN \X Texts
SealedMessage(e) == EnvelopeMacMessage(e[1], e[2], e[3], e[4])
FramingIsInjective ==
    /\ \A parts, others \in PartLists :
          RequestMacMessage(parts) = RequestMacMessage(others) => parts = others
    /\ \A e, other \in Sealed : SealedMessage(e) = SealedMessage(other) => e = other

(* The link is sound: one loop, which obeys the protocol version, skips no *)
(* delivery and signs no two requests alike.                               *)
LinkIsSound ==
    /\ LoopsAreSound
    /\ FramingIsInjective
=============================================================================
