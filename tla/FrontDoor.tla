----------------------------- MODULE FrontDoor ------------------------------
(***************************************************************************)
(* How a request gets in: the fronts of the daemon, of the relay, of the   *)
(* MCP server and of the A2A connector, from the headers to the moment a   *)
(* handler has its body (http.ts, auth.ts, routes.ts, #handle, #route,     *)
(* #authorise, startHttp, #serveJsonRpc).                                  *)
(*                                                                         *)
(* The first two answer the same paths. The daemon trusts its own machine  *)
(* and one token; the relay takes requests from anywhere, through proxies, *)
(* for many sessions, and counts them by the address they come from. The   *)
(* connectors hold the daemon's token and ask for one of their own.        *)
(***************************************************************************)
EXTENDS Integers, Sequences, SequencesExt, FiniteSets

CONSTANTS
    Inquiries,   \* the requests that are made, see MCComponents
    BodyLimit,   \* bytes a body may have
    MaxChunks    \* bound: chunks a body arrives in

VARIABLES
    server,      \* "daemon", "relay", "mcp" or "a2a"
    request,     \* the request being served
    stage,       \* how far it got
    reply,       \* "none", "served" or the code of a refusal
    counted,     \* relay: what the request was counted against
    looked,      \* credentials that were looked up
    body,        \* bytes kept so far
    sent,        \* history: bytes the client has sent
    chunks       \* history: chunks that arrived

doorVars == <<server, request, stage, reply, counted, looked, body, sent, chunks>>

-----------------------------------------------------------------------------
(* Headers *)

(* hostIsLoopback: a missing Host is refused like a foreign one. *)
HostIsLoopback(r) == r.host = "loopback"

(* originIsAllowed: Studio sends no Origin; a sandboxed page sends `null'. *)
OriginIsAllowed(r) == r.origin \in {"none", "allowed"}

(* #assertProtocolCompatible: a caller need not name a version. *)
ProtocolCompatible(r) == r.protocol \in {"none", "same"}

(* tlsEvidence: the last entry was written by the proxy in front of us. *)
TlsEvidence(r) ==
    IF r.encrypted THEN "tls"
    ELSE IF r.hops = 0 \/ r.protos = <<>> THEN "unknown"
    ELSE CASE Last(r.protos) = "https" -> "tls"
           [] Last(r.protos) = "http" -> "plaintext"
           [] OTHER -> "unknown"

(* #assertTls: what cannot be told is refused. *)
ArrivedOverTls(r) == TlsEvidence(r) = "tls"

(* clientAddress: the entry `hops' from the right, or else the socket's.   *)
(* Mutant: the entry the client wrote.                                     *)
AddressAsClaimed(r) ==
    LET chain == SelectSeq(r.forwarded, LAMBDA a : a # "")
    IN  IF r.hops = 0 \/ Len(chain) < r.hops THEN r.socket ELSE chain[1]
ClientAddress(r) ==
    LET chain == SelectSeq(r.forwarded, LAMBDA a : a # "")
    IN  IF r.hops = 0 \/ Len(chain) < r.hops THEN r.socket
        ELSE chain[Len(chain) - r.hops + 1]

-----------------------------------------------------------------------------
(* Routes.  A path is what follows /v1; `*' stands for any identifier.     *)

(* ForgeBridgeDaemon#route *)
DaemonRoute(method, path) ==
    LET n == Len(path)
        resource == IF n > 0 THEN path[1] ELSE ""
        verb == IF n = 3 THEN path[3] ELSE ""
        get == method = "GET"
        post == method = "POST"
    IN  CASE resource = "health" /\ n = 1 /\ get -> "health"
          [] resource = "link" /\ n = 1 /\ get -> "linkStatus"
          [] resource = "link" /\ n = 2 /\ path[2] = "pair" /\ post -> "pair"
          [] resource = "link" /\ n = 2 /\ path[2] = "poll" /\ get -> "poll"
          [] resource = "changesets" /\ n = 1 /\ post -> "submitChangeSet"
          [] resource = "changesets" /\ verb = "diff" /\ get -> "diff"
          [] resource = "changesets" /\ verb = "approve" /\ post -> "approve"
          [] resource = "changesets" /\ verb = "apply-result" /\ post -> "applyResult"
          [] resource = "apply-result" /\ n = 1 /\ post -> "applyResult"
          [] resource = "journal" /\ n = 2 /\ get -> "journalState"
          [] resource = "journal" /\ verb = "rollback" /\ post -> "rollback"
          [] resource = "journal" /\ verb = "entry" /\ post -> "journalEntry"
          [] resource = "journal" /\ verb = "rollback-result" /\ post -> "rollbackResult"
          [] resource = "output" /\ n = 1 /\ post -> "output"
          [] resource = "output" /\ n = 1 /\ get -> "readOutput"
          [] resource = "models" /\ n = 1 /\ get -> "models"
          [] resource = "runs" /\ n = 1 /\ post -> "startRun"
          [] resource = "runs" /\ n = 2 /\ get -> "runStatus"
          [] resource = "runs" /\ verb = "events" /\ get -> "runEvents"
          [] OTHER -> "none"

(* What each handler of the daemon asks for: the token where #route calls  *)
(* #assertProducer, a link's MAC or envelope in the handler itself.        *)
DaemonCredential(handler) ==
    CASE handler \in {"submitChangeSet", "diff", "approve", "journalState", "rollback",
                      "readOutput", "startRun", "runStatus", "runEvents"} -> "producer"
      [] handler \in {"poll", "applyResult", "journalEntry", "rollbackResult",
                      "output"} -> "consumer"
      [] OTHER -> "public"

Row(path, method, auth, class, handler) ==
    [path |-> path, method |-> method, auth |-> auth, class |-> class, handler |-> handler]

(* RELAY_ROUTES *)
RelayRoutes ==
    {Row(<<"health">>, "GET", "public", "read", "health"),
     Row(<<"link">>, "GET", "producer", "read", "linkStatus"),
     Row(<<"link", "pair">>, "POST", "public", "pair", "pair"),
     Row(<<"link", "poll">>, "GET", "consumer", "poll", "poll"),
     Row(<<"changesets">>, "POST", "producer", "write", "submitChangeSet"),
     Row(<<"changesets", "*", "diff">>, "GET", "producer", "read", "diff"),
     Row(<<"changesets", "*", "approve">>, "POST", "producer", "write", "approve"),
     Row(<<"changesets", "*", "apply-result">>, "POST", "consumer", "write", "applyResult"),
     Row(<<"apply-result">>, "POST", "consumer", "write", "applyResult"),
     Row(<<"journal", "*">>, "GET", "producer", "read", "journalState"),
     Row(<<"journal", "*", "rollback">>, "POST", "producer", "write", "rollback"),
     Row(<<"journal", "*", "entry">>, "POST", "consumer", "write", "journalEntry"),
     Row(<<"journal", "*", "rollback-result">>, "POST", "consumer", "write", "rollbackResult"),
     Row(<<"output">>, "POST", "consumer", "write", "output"),
     Row(<<"output">>, "GET", "producer", "read", "readOutput"),
     Row(<<"runs">>, "POST", "producer", "run", "startRun"),
     Row(<<"runs", "*">>, "GET", "producer", "read", "runStatus"),
     Row(<<"runs", "*", "events">>, "GET", "producer", "read", "runEvents"),
     Row(<<"models">>, "GET", "public", "read", "models")}

(* matchRoute: the rows that fit; no two do. *)
MatchRoute(method, path) ==
    {row \in RelayRoutes :
        /\ row.method = method
        /\ Len(row.path) = Len(path)
        /\ \A i \in DOMAIN path : row.path[i] \in {"*", path[i]}}

(* The connectors serve one path each, and the A2A one its card. *)
McpRoute(method, path) == IF path = <<"mcp">> /\ method = "POST" THEN "tools" ELSE "none"
A2ARoute(method, path) ==
    CASE path = <<"card">> /\ method \in {"GET", "HEAD"} -> "card"
      [] path = <<"a2a">> /\ method = "POST" -> "rpc"
      [] OTHER -> "none"

Handler(s, r) ==
    IF s = "daemon" THEN DaemonRoute(r.method, r.path)
    ELSE IF s = "mcp" THEN McpRoute(r.method, r.path)
    ELSE IF s = "a2a" THEN A2ARoute(r.method, r.path)
    ELSE LET rows == MatchRoute(r.method, r.path)
         IN  IF rows = {} THEN "none" ELSE (CHOOSE row \in rows : TRUE).handler

Credential(s, r) ==
    IF s = "daemon" THEN DaemonCredential(Handler(s, r))
    ELSE IF s \in {"mcp", "a2a"} THEN (IF Handler(s, r) = "card" THEN "public" ELSE "producer")
    ELSE (CHOOSE row \in MatchRoute(r.method, r.path) : TRUE).auth

ReadsBody(handler) ==
    handler \in {"pair", "submitChangeSet", "approve", "applyResult", "rollback",
                 "journalEntry", "rollbackResult", "output", "startRun", "tools", "rpc"}

-----------------------------------------------------------------------------
DoorInit ==
    /\ server = "daemon" /\ request = <<>>
    /\ stage = "idle"
    /\ reply = "none"
    /\ counted = {} /\ looked = {}
    /\ body = 0 /\ sent = 0 /\ chunks = 0

(* The headers of a request have arrived. *)
RequestArrives(s, r) ==
    /\ server' = s /\ request' = r
    /\ stage' = "headers"
    /\ UNCHANGED <<reply, counted, looked, body, sent, chunks>>

(* writeJson, writeError: an answer is written once. *)
Answer(code) == reply' = (IF reply = "none" THEN code ELSE reply) /\ stage' = "done"

(* #handle of the daemon, up to the routing. *)
EnterDaemon ==
    /\ server = "daemon" /\ stage = "headers"
    /\ LET r == request IN
          CASE ~ProtocolCompatible(r) -> Answer("unsupported_version")
            [] ~HostIsLoopback(r) -> Answer("invalid_request")
            [] ~OriginIsAllowed(r) -> Answer("invalid_request")
            [] r.method = "OPTIONS" -> Answer("preflight")
            [] Handler(server, r) = "none" -> Answer("not_found")
            [] OTHER -> stage' = "credential" /\ UNCHANGED reply
    /\ UNCHANGED <<server, request, counted, looked, body, sent, chunks>>

(* #handle of the relay: the address is counted before a credential is     *)
(* looked at; `overdrawn' says whose count is used up.                     *)
EnterRelay ==
    LET r == request
        passed == /\ ProtocolCompatible(r) /\ OriginIsAllowed(r)
                  /\ r.method # "OPTIONS" /\ ArrivedOverTls(r)
                  /\ Handler(server, r) # "none"
        key == <<"ip", ClientAddress(r)>>
    IN  /\ server = "relay" /\ stage = "headers"
        /\ CASE ~ProtocolCompatible(r) -> Answer("unsupported_version")
             [] ~OriginIsAllowed(r) -> Answer("invalid_request")
             [] r.method = "OPTIONS" -> Answer("preflight")
             [] ~ArrivedOverTls(r) -> Answer("invalid_request")
             [] Handler(server, r) = "none" -> Answer("not_found")
             [] "ip" \in r.overdrawn -> Answer("rate_limited")
             [] OTHER -> stage' = "credential" /\ UNCHANGED reply
        /\ counted' = IF passed THEN counted \cup {key} ELSE counted
        /\ UNCHANGED <<server, request, looked, body, sent, chunks>>

(* hostIsAllowed of the MCP server: this machine, or the name it was bound *)
(* to.                                                                     *)
HostIsAllowed(r) == r.host \in {"loopback", "bound"}

(* authorizationMatches, #authenticated: the whole bearer token. *)
AuthorizationMatches(r) == r.token = "right"

(* The request listener of startHttp: the token before anything else, so   *)
(* that a caller without it learns nothing; no browser is a client.        *)
EnterMcp ==
    /\ server = "mcp" /\ stage = "headers"
    /\ looked' = looked \cup {"producer"}
    /\ LET r == request IN
          CASE ~AuthorizationMatches(r) -> Answer("401")
            [] ~HostIsAllowed(r) -> Answer("400")
            [] r.origin # "none" -> Answer("403")
            [] r.path # <<"mcp">> -> Answer("404")
            [] r.method # "POST" -> Answer("405")
            [] OTHER -> stage' = "body" /\ UNCHANGED reply
    /\ UNCHANGED <<server, request, counted, body, sent, chunks>>

(* requireJsonContentType: a form needs no preflight, so it is refused. *)
JsonContentType(r) == r.type = "json"

(* #negotiateVersion: no version means 0.3, which is not spoken here. *)
NegotiatedVersion(r) == r.protocol = "same"

(* A2AServer#handle, #serveCard and #serveJsonRpc up to the body: the card *)
(* is public, and neither host nor origin is looked at.                    *)
EnterA2A ==
    /\ server = "a2a" /\ stage = "headers"
    /\ LET r == request
           rpc == Handler(server, r) = "rpc"
       IN  /\ looked' = IF rpc THEN looked \cup {"producer"} ELSE looked
           /\ CASE r.path \notin {<<"card">>, <<"a2a">>} -> Answer("404")
                [] r.path \in {<<"card">>, <<"a2a">>} /\ Handler(server, r) = "none" -> Answer("405")
                [] Handler(server, r) = "card" -> Answer("served")
                [] rpc /\ ~AuthorizationMatches(r) -> Answer("401")
                [] rpc /\ ~JsonContentType(r) -> Answer("415")
                [] rpc /\ ~NegotiatedVersion(r) -> Answer("version")
                [] rpc /\ r.declared > BodyLimit -> Answer("413")
                [] OTHER -> stage' = "body" /\ UNCHANGED reply
    /\ UNCHANGED <<server, request, counted, body, sent, chunks>>

(* assertProducerToken *)
ProducerIsKnown(r) == r.token = "right"

(* #authenticate: link and key.  The MAC of a poll is verified once the    *)
(* link was counted, the one of an envelope when the body is there.        *)
ConsumerIsKnown(r) == r.link = "known"

Authorise ==
    LET r == request
        auth == Credential(server, r)
        known == CASE auth = "public" -> TRUE
                   [] auth = "producer" -> ProducerIsKnown(r)
                   [] auth = "consumer" -> ConsumerIsKnown(r)
        counts == server = "relay" /\ auth # "public" /\ known
    IN  /\ stage = "credential"
        /\ looked' = IF auth = "public" THEN looked ELSE looked \cup {auth}
        /\ counted' = IF counts THEN counted \cup {<<"link", auth>>} ELSE counted
        /\ CASE ~known -> Answer("link_unauthenticated")
             [] counts /\ "link" \in r.overdrawn -> Answer("rate_limited")
             [] ReadsBody(Handler(server, r)) -> stage' = "length" /\ UNCHANGED reply
             [] auth = "consumer" /\ ~r.mac -> Answer("link_unauthenticated")
             [] OTHER -> Answer("served")
        /\ UNCHANGED <<server, request, body, sent, chunks>>

-----------------------------------------------------------------------------
(* The body *)

(* The declared length is a claim, and too large a one is refused. *)
CheckLength ==
    /\ stage = "length"
    /\ CASE ~JsonContentType(request) -> Answer("invalid_request")
         [] request.declared < -1 -> Answer("invalid_request")
         [] request.declared > BodyLimit -> Answer("too_large")
         [] OTHER -> stage' = "body" /\ UNCHANGED reply
    /\ UNCHANGED <<server, request, counted, looked, body, sent, chunks>>

(* What too large a body and an unreadable one are answered with: the MCP  *)
(* server answers both with 500, the A2A connector the second with a       *)
(* JSON-RPC error.                                                         *)
TooLarge == CASE server = "mcp" -> "500" [] server = "a2a" -> "413" [] OTHER -> "too_large"
Unreadable == CASE server = "mcp" -> "500" [] server = "a2a" -> "parse" [] OTHER -> "invalid_request"

(* onData: the running total is checked before the chunk is kept. *)
BodyChunk(n) ==
    /\ stage = "body" /\ chunks < MaxChunks
    /\ chunks' = chunks + 1
    /\ sent' = sent + n
    /\ IF sent' > BodyLimit
       THEN Answer(TooLarge) /\ UNCHANGED body
       ELSE body' = body + n /\ UNCHANGED <<stage, reply>>
    /\ UNCHANGED <<server, request, counted, looked>>

(* onEnd, then JSON.parse, then the envelope of a consumer. *)
EndOfBody ==
    /\ stage = "body"
    /\ CASE body = 0 /\ server = "mcp" -> Answer("served")
         [] ~(body = 0 /\ server = "mcp") /\ (body = 0 \/ ~request.parses) -> Answer(Unreadable)
         [] Credential(server, request) = "consumer" /\ ~request.mac -> Answer("link_unauthenticated")
         [] OTHER -> Answer("served")
    /\ UNCHANGED <<server, request, counted, looked, body, sent, chunks>>

(* The socket fails or the client aborts; the A2A connector takes it for   *)
(* too large a body.                                                       *)
BodyFails ==
    /\ stage = "body"
    /\ Answer(IF server = "a2a" THEN TooLarge ELSE Unreadable)
    /\ UNCHANGED <<server, request, counted, looked, body, sent, chunks>>

DoorNext ==
    \/ stage = "idle" /\ \E s \in {"daemon", "relay", "mcp", "a2a"}, r \in Inquiries : RequestArrives(s, r)
    \/ EnterDaemon
    \/ EnterRelay
    \/ EnterMcp
    \/ EnterA2A
    \/ Authorise
    \/ CheckLength
    \/ \E n \in 1..2 : BodyChunk(n)
    \/ EndOfBody
    \/ BodyFails

-----------------------------------------------------------------------------
(* The two transports reply the same paths with the same handlers and the  *)
(* same credential - but for the list of links, which only the daemon      *)
(* gives to anyone (routes.ts against #route).                             *)
SurfaceIsOne ==
    /\ Handler("daemon", request) = Handler("relay", request)
    /\ Cardinality(MatchRoute(request.method, request.path)) <= 1
    /\ Handler("relay", request) \notin {"none", "linkStatus"} =>
          Credential("daemon", request) = Credential("relay", request)

(* A served caller proved what its route asks for, on either transport;    *)
(* one that wrote anything into the system proved it with a body that is   *)
(* whole and no larger than allowed.                                       *)
ServedWasProved ==
    reply = "served" =>
        /\ Credential(server, request) = "producer" => request.token = "right"
        /\ Credential(server, request) = "consumer" => request.link = "known" /\ request.mac
        /\ server # "a2a" => request.origin \notin {"null", "other"}
        /\ ReadsBody(Handler(server, request)) =>
              body = sent /\ body <= BodyLimit /\ (server # "mcp" => body > 0)

(* Whatever a client writes into X-Forwarded-For, it is counted under the  *)
(* address it really has, if the operator named the proxies there are.     *)
AddressIsNotChosen ==
    \A key \in counted :
       key[1] = "ip" /\ request.hops = request.proxies => key[2] = request.peer

(* A caller whose address has used up its count costs no lookup and no     *)
(* read.                                                                   *)
RefusedEarly ==
    server = "relay" /\ "ip" \in request.overdrawn => looked = {} /\ sent = 0

(* The connectors read nothing from a caller without their token, and the  *)
(* MCP server tells it nothing either.                                     *)
ConnectorsAreShut ==
    server \in {"mcp", "a2a"} /\ request.token # "right" =>
        /\ sent = 0
        /\ server = "mcp" => reply \in {"none", "401"}

(* Every front lets in what it should. *)
FrontDoorHolds ==
    stage # "idle" =>
        SurfaceIsOne /\ ServedWasProved /\ AddressIsNotChosen /\ RefusedEarly
          /\ ConnectorsAreShut
=============================================================================
