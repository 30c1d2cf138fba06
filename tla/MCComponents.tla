---------------------------- MODULE MCComponents ----------------------------
(* The parts of the system around the daemon, each explored by itself: a   *)
(* behaviour is about the one `part' names, and the others do not move.    *)
EXTENDS Sponsored, MCGeneration, OpenCloud, A2A, Clients, Tokenizer,
        LuauRules, FrontDoor, WebRun, Connectors, TLC

CONSTANTS c1, c2, c3, c4, u1, u2, u3, a1, a2, a3, n1, n2

VARIABLE part   \* which of them a behaviour is about

(* Sponsored runs: two callers share a user, two an address and two a      *)
(* network, and the budget is one short of a run each.                     *)
MCUserOf == c1 :> u1 @@ c2 :> u1 @@ c3 :> u2 @@ c4 :> u3
MCAddressOf == c1 :> a1 @@ c2 :> a2 @@ c3 :> a2 @@ c4 :> a3
MCAsnOf == a1 :> n1 @@ a2 :> n1 @@ a3 :> n2

(* The Luau analysis: characters that make up comments, long brackets,     *)
(* quoted and interpolated strings; scripts of few statements.             *)
MCAlphabets ==
    {[chars |-> {"-", "[", "]", "=", "a"}, length |-> 6],
     [chars |-> {"q", "bs", "nl", "a", "z"}, length |-> 6],
     [chars |-> {"tick", "{", "}", "a", "bs"}, length |-> 6],
     [chars |-> {"-", "[", "]", "nl", "q"}, length |-> 6]}
MCDialects == [name : {"blocks", "loops", "frames", "names", "signals"}, budget : {3}]

(* The front doors: every path, every mix of headers, bodies of every      *)
(* declared length, and chains of none to two proxies.                     *)
MCInquiry ==
    [host |-> "loopback", origin |-> "none", protocol |-> "same", method |-> "POST",
     path |-> <<"changesets">>, token |-> "right", link |-> "known", mac |-> TRUE,
     encrypted |-> TRUE, hops |-> 0, proxies |-> 0, forwarded |-> <<>>, protos |-> <<>>,
     socket |-> "client", peer |-> "client", overdrawn |-> {}, type |-> "json",
     declared |-> -1, parses |-> TRUE]
MCSegments == {"health", "link", "pair", "poll", "changesets", "diff", "approve", "output",
               "apply-result", "journal", "rollback", "entry", "rollback-result", "runs",
               "events", "models", "id"}
MCPaths == {<<s>> : s \in MCSegments} \cup {<<s, t>> : s, t \in MCSegments}
             \cup {<<s, "id", t>> : s, t \in MCSegments} \cup {<<s, t, t>> : s, t \in MCSegments}
MCInquiries ==
    {[MCInquiry EXCEPT !.path = p, !.method = m] : p \in MCPaths, m \in {"GET", "POST"}}
      \cup {[MCInquiry EXCEPT !.path = p, !.method = m, !.host = h, !.origin = o, !.protocol = v] :
            p \in {<<"models">>, <<"runs">>}, m \in {"GET", "OPTIONS"}, h \in {"loopback", "other"},
            o \in {"none", "allowed", "null", "other"}, v \in {"none", "same", "other"}}
      \cup {[MCInquiry EXCEPT !.path = p, !.method = m, !.token = t, !.link = l, !.mac = c,
                             !.overdrawn = d] :
            p \in {<<"runs">>, <<"link", "poll">>, <<"output">>}, m \in {"GET", "POST"},
            t \in {"right", "wrong"}, l \in {"known", "unknown"}, c \in BOOLEAN,
            d \in SUBSET {"ip", "link"}}
      \cup {[MCInquiry EXCEPT !.type = t, !.declared = d, !.parses = p] :
            t \in {"json", "form"}, d \in {-2, -1, 0, 3, 4}, p \in BOOLEAN}
      \cup UNION {{[MCInquiry EXCEPT !.encrypted = FALSE, !.hops = h, !.proxies = n,
                      !.socket = IF n = 0 THEN "client" ELSE "near",
                      !.forwarded = claim \o SubSeq(<<"client", "far">>, 1, n), !.protos = protos] :
                   claim \in {<<>>, <<"">>, <<"victim">>, <<"victim", "">>},
                   protos \in {<<>>, <<"https">>, <<"https", "http">>, <<"http", "https">>,
                               <<"odd">>}} :
                  h \in 0..2, n \in 0..2}
      \cup {[MCInquiry EXCEPT !.path = p, !.method = m, !.token = t, !.host = h, !.origin = o,
                             !.protocol = v] :
            p \in {<<"mcp">>, <<"card">>, <<"a2a">>}, m \in {"GET", "POST"}, t \in {"right", "wrong"},
            h \in {"loopback", "bound", "other"}, o \in {"none", "other"}, v \in {"none", "same"}}
      \cup {[MCInquiry EXCEPT !.path = p, !.type = t, !.declared = d, !.parses = c] :
            p \in {<<"mcp">>, <<"a2a">>}, t \in {"json", "form"}, d \in {-1, 4}, c \in BOOLEAN}

(* The web page: diffs with a script written every way, readable or not.   *)
MCShape(ops) == [ops |-> ops, stale |-> FALSE, verdict |-> "pass"]
MCCode(op, property, source) == [op |-> op, property |-> property, source |-> source]
MCDiffShapes ==
    {MCShape(<<MCCode("writeScript", "none", "text"), MCCode("setProperty", "Source", "text")>>),
     MCShape(<<MCCode("createInstance", "none", "text"), MCCode("createInstance", "none", "none"),
               MCCode("setProperty", "Name", "text"), MCCode("deleteInstance", "none", "none")>>),
     MCShape(<<MCCode("createInstance", "none", "other"), MCCode("setProperty", "Name", "text")>>),
     MCShape(<<MCCode("setProperty", "Source", "other"), MCCode("writeScript", "none", "text")>>),
     [MCShape(<<MCCode("moveInstance", "none", "none")>>) EXCEPT !.stale = TRUE],
     [MCShape(<<MCCode("writeScript", "none", "text")>>) EXCEPT !.verdict = "fail"]}

(* The command line: every command as it should be typed, and with each    *)
(* thing that can be wrong with a line.                                    *)
MCLine(command, operand, target, flags) ==
    [command |-> command, operand |-> operand, target |-> target, flags |-> flags]
MCCommandLines ==
    {MCLine(c, "none", "none", <<>>) : c \in {"help", "link", "models", "status", "unknown"}}
      \cup {MCLine("link", "none", "none", [code |-> "some"]),
            MCLine("models", "words", "none", <<>>),
            MCLine("status", "none", "none", [url |-> "bad"]),
            MCLine("diff", "words", "shell", <<>>),
            MCLine("diff", "id", "shell", <<>>),
            MCLine("diff", "id", "shell", [token |-> "some"]),
            MCLine("diff", "id", "shell", [timeout |-> "some"]),
            MCLine("apply", "id", "shell", [token |-> "some"]),
            MCLine("apply", "id", "shell", [token |-> "some", timeout |-> "zero"]),
            MCLine("apply", "id", "shell", [token |-> "some", timeout |-> "twice"]),
            MCLine("rollback", "id", "entry", [token |-> "some"]),
            MCLine("rollback", "id", "entry", [token |-> "some", expectedVersion |-> "some"])}
      \cup {MCLine("run", "words", "none", f) :
            f \in {[token |-> "some"], [token |-> "some", model |-> "some"],
                   [policy |-> "some"], [token |-> "some", policy |-> "pinned"],
                   [token |-> "some", policy |-> "some", model |-> "some"],
                   [token |-> "some", policy |-> "pinned", model |-> "some"]}}

ComponentsInit ==
    /\ part \in {"sponsored", "generation", "opencloud", "a2a", "clients",
                 "tokenizer", "luau", "front door", "web run", "connectors"}
    /\ SponsoredInit
    /\ GenerationInit
    /\ OpenCloudInit
    /\ A2AInit
    /\ ClientsInit /\ (part # "clients" => client = "cli")
    /\ TokenizerInit /\ (part # "tokenizer" => alphabet = CHOOSE a \in Alphabets : TRUE)
    /\ LuauInit /\ (part # "luau" => dialect = CHOOSE d \in Dialects : TRUE)
    /\ DoorInit
    /\ WebRunInit /\ (part # "web run" => corner = "page")
    /\ ConnectorsInit /\ (part # "connectors" => connector = "shell")

(* Only the part a behaviour is about moves. *)
Frame(p, vs) == IF part = p THEN TRUE ELSE UNCHANGED vs

ComponentsNext ==
    /\ \/ part = "sponsored" /\ SponsoredNext
       \/ part = "generation" /\ GenerationNext
       \/ part = "opencloud" /\ OpenCloudNext
       \/ part = "a2a" /\ A2ANext
       \/ part = "clients" /\ ClientsNext
       \/ part = "tokenizer" /\ TokenizerNext
       \/ part = "luau" /\ LuauNext
       \/ part = "front door" /\ DoorNext
       \/ part = "web run" /\ WebRunNext
       \/ part = "connectors" /\ ConnectorsNext
    /\ Frame("sponsored", sponsoredVars)
    /\ Frame("generation", generationVars)
    /\ Frame("opencloud", cloudVars)
    /\ Frame("a2a", a2aVars)
    /\ Frame("clients", clientVars)
    /\ Frame("tokenizer", tokenizerVars)
    /\ Frame("luau", luauVars)
    /\ Frame("front door", doorVars)
    /\ Frame("web run", webRunVars)
    /\ Frame("connectors", connectorVars)
    /\ UNCHANGED part

componentsVars ==
    <<part, sponsoredVars, generationVars, cloudVars, a2aVars,
      clientVars, tokenizerVars, luauVars, doorVars,
      webRunVars, connectorVars>>

ComponentsSpec == ComponentsInit /\ [][ComponentsNext]_componentsVars
=============================================================================
