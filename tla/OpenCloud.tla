------------------------------ MODULE OpenCloud -----------------------------
(***************************************************************************)
(* The Open Cloud client (packages/opencloud/src): calls that read, write, *)
(* increment and publish over a network that loses requests and answers,   *)
(* and a service that may refuse, stall, or answer an error after it has   *)
(* done what was asked.  Only requests marked idempotent are sent again.   *)
(*                                                                         *)
(* The service is external: it does a request once per arrival, and what   *)
(* it holds is how often each call's request took effect.                  *)
(***************************************************************************)
EXTENDS Naturals

CONSTANTS
    CloudCalls,    \* calls made
    RetryAttempts  \* retry.attempts

ASSUME OpenCloudAssumption == RetryAttempts \in Nat \ {0}

VARIABLES
    spec,       \* call |-> the request it makes, or NoSpec
    attempt,    \* call |-> attempts made
    wire,       \* call |-> "none", "sent", "done" at the service, or a response
    settled,    \* call |-> how send and the reader of its answer ended
    effects     \* the service: call |-> times its request took effect

cloudVars == <<spec, attempt, wire, settled, effects>>

(* The requests, by what they do, whether they may be sent again, and how  *)
(* their answer is read.                                                   *)
Request(name, writes, idempotent, reader) ==
    [name |-> name, writes |-> writes, idempotent |-> idempotent, reader |-> reader]
NoSpec == Request("none", FALSE, FALSE, "none")
GetEntry == Request("getEntry", FALSE, TRUE, "entry")
GetEntryVersion == Request("getEntryVersion", FALSE, TRUE, "entry")
ListDataStores == Request("listDataStores", FALSE, TRUE, "list")
ListEntries == Request("listEntries", FALSE, TRUE, "list")
ListEntryVersions == Request("listEntryVersions", FALSE, TRUE, "list")
SetEntry == Request("setEntry", TRUE, FALSE, "version")
DeleteEntry == Request("deleteEntry", TRUE, FALSE, "nothing")
IncrementEntry == Request("incrementEntry", TRUE, FALSE, "total")
PublishPlaceVersion == Request("publishPlaceVersion", TRUE, FALSE, "versionNumber")
PublishMessage == Request("publishMessage", TRUE, FALSE, "nothing")
Requests == {GetEntry, GetEntryVersion, ListDataStores, ListEntries, ListEntryVersions,
             SetEntry, DeleteEntry, IncrementEntry, PublishPlaceVersion, PublishMessage}

Response(status, body) == [status |-> status, body |-> body]
OpenCloudInit ==
    /\ spec = [c \in CloudCalls |-> NoSpec]
    /\ attempt = [c \in CloudCalls |-> 0]
    /\ wire = [c \in CloudCalls |-> Response(0, "idle")]
    /\ settled = [c \in CloudCalls |-> "pending"]
    /\ effects = [c \in CloudCalls |-> 0]

OnWire(c, what) == wire[c] = Response(0, what)
Sends(c) ==
    /\ attempt' = [attempt EXCEPT ![c] = @ + 1]
    /\ wire' = [wire EXCEPT ![c] = Response(0, "sent")]

(* send(): the first attempt. *)
CallCloud(c, request) ==
    /\ spec[c] = NoSpec
    /\ spec' = [spec EXCEPT ![c] = request]
    /\ Sends(c)
    /\ UNCHANGED <<settled, effects>>

(* The service (external): a request that arrives is carried out, or not.  *)
ServiceActs(c) ==
    /\ OnWire(c, "sent")
    /\ wire' = [wire EXCEPT ![c] = Response(0, "done")]
    /\ effects' = [effects EXCEPT ![c] = IF spec[c].writes THEN @ + 1 ELSE @]
    /\ UNCHANGED <<spec, attempt, settled>>

(* An answer: the expected one, one cut short or in another shape, or an   *)
(* error, which may come although the request was carried out.             *)
ServiceAnswers(c, response) ==
    /\ OnWire(c, "done") \/ (OnWire(c, "sent") /\ response.status >= 400)
    /\ wire' = [wire EXCEPT ![c] = response]
    /\ UNCHANGED <<spec, attempt, settled, effects>>

(* fetch rejects: the request was lost, or its answer.  It is not retried. *)
TransportFails(c) ==
    /\ OnWire(c, "sent") \/ OnWire(c, "done")
    /\ settled[c] = "pending"
    /\ settled' = [settled EXCEPT ![c] = "transport"]
    /\ wire' = [wire EXCEPT ![c] = Response(0, "over")]
    /\ UNCHANGED <<spec, attempt, effects>>

-----------------------------------------------------------------------------
Retryable(response) == response.status = 429 \/ response.status \in 500 .. 599
MayRetryAny(c) == Retryable(wire[c]) /\ attempt[c] < RetryAttempts
MayRetry(c) == spec[c].idempotent /\ Retryable(wire[c]) /\ attempt[c] < RetryAttempts

Retry(c) ==
    /\ wire[c].status >= 400
    /\ MayRetry(c)
    /\ Sends(c)
    /\ UNCHANGED <<spec, settled, effects>>
Refused(c) ==
    /\ wire[c].status >= 400
    /\ ~MayRetry(c)
    /\ settled' = [settled EXCEPT ![c] = "refused"]
    /\ wire' = [wire EXCEPT ![c] = Response(0, "over")]
    /\ UNCHANGED <<spec, attempt, effects>>

(* A 2xx: readJson and the reader of the operation.  An entry carries the  *)
(* digest of its body, which what was cut short does not match; any other  *)
(* answer that is cut short is not JSON.                                   *)
Readable(c) == spec[c].reader = "nothing" \/ wire[c].body = "whole"
ReadAnswer(c) ==
    /\ wire[c].status = 200
    /\ settled' = [settled EXCEPT ![c] = IF Readable(c) THEN "ok" ELSE "unreadable"]
    /\ wire' = [wire EXCEPT ![c] = Response(0, "over")]
    /\ UNCHANGED <<spec, attempt, effects>>

OpenCloudNext ==
    \E c \in CloudCalls :
        \/ \E request \in Requests : CallCloud(c, request)
        \/ ServiceActs(c)
        \/ \E response \in {Response(200, "whole"), Response(200, "cut"), Response(404, "error"),
                            Response(429, "error"), Response(502, "error")} : ServiceAnswers(c, response)
        \/ TransportFails(c)
        \/ Retry(c) \/ Refused(c) \/ ReadAnswer(c)

OpenCloudSpec == OpenCloudInit /\ [][OpenCloudNext]_cloudVars

-----------------------------------------------------------------------------
(* Whatever is lost, refused, or refused after it was done, a call writes  *)
(* at most once, however often it is sent; a write that reports success    *)
(* has happened; and no call is sent more often than its policy allows.    *)
WritesHappenOnce ==
    \A c \in CloudCalls :
        /\ effects[c] <= 1
        /\ settled[c] = "ok" /\ spec[c].writes => effects[c] = 1
        /\ settled[c] = "ok" => attempt[c] \in 1 .. RetryAttempts
=============================================================================
