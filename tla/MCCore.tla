------------------------------- MODULE MCCore -------------------------------
(* A run from the choice of a model to the journal, each part explored by  *)
(* itself: the pipeline, the providers' streams, the order of the          *)
(* candidates, where they come from, and the telemetry.                    *)
EXTENDS Pipeline, Providers, Candidates, Discovery, Telemetry, TLC

VARIABLE part   \* which of them a behaviour is about

(* The pipeline: one service with two folders, drafts that differ in every *)
(* way the gates look at, and policies from none to automatic approval.    *)
Op(op, path, to, refs, source) ==
    [op |-> op, path |-> path, to |-> to, refs |-> refs, source |-> source]

A == <<"S", "A">>
B == <<"S", "B">>
AX == <<"S", "A", "X">>
AY == <<"S", "A", "Y">>

Draft(ops) == [ops |-> ops, oversize |-> FALSE]

MCDrafts ==
    {Draft(<<Op("createInstance", AX, <<>>, {}, "text")>>),
     Draft(<<Op("setProperty", AX, <<>>, {B}, "none")>>),
     Draft(<<Op("deleteInstance", AX, <<>>, {}, "none"),
             Op("deleteInstance", AY, <<>>, {}, "none")>>),
     Draft(<<Op("createInstance", AX, <<>>, {}, "none"),
             Op("deleteInstance", AX, <<>>, {}, "none")>>)}

MCPolicies ==
    {[prefixes |-> {A}, autoApply |-> None],
     [prefixes |-> {<<"S">>}, autoApply |-> A]}

PipelineSymmetry == Permutations(Calls)

(* Candidates: models that are free, free by the token only, priced, about *)
(* to expire, expired, local, without tools, with too small a context.     *)
MCOffer == [local |-> FALSE, unit |-> "token", perUnit |-> 0, price |-> 0, text |-> TRUE,
            expiresIn |-> Never, coding |-> 0, agentic |-> 0, latency |-> 0,
            context |-> 1, tools |-> TRUE]
MCOffers ==
    {MCOffer,
     [MCOffer EXCEPT !.expiresIn = 30, !.coding = 2, !.latency = 1],
     [MCOffer EXCEPT !.text = FALSE, !.coding = 1, !.agentic = 2],
     [MCOffer EXCEPT !.unit = "image", !.perUnit = 2, !.coding = 2, !.agentic = 1, !.latency = 2],
     [MCOffer EXCEPT !.perUnit = 1, !.coding = 1, !.agentic = 1, !.tools = FALSE],
     [MCOffer EXCEPT !.price = 1, !.coding = 2, !.agentic = 1, !.latency = 1],
     [MCOffer EXCEPT !.price = 2, !.expiresIn = 31, !.coding = 2, !.agentic = 2, !.latency = 2,
                     !.context = 0],
     [MCOffer EXCEPT !.expiresIn = 0, !.coding = 2],
     [MCOffer EXCEPT !.local = TRUE, !.context = 0, !.tools = FALSE],
     [MCOffer EXCEPT !.local = TRUE, !.latency = 2]}

CoreInit ==
    /\ part \in {"pipeline", "providers", "candidates", "discovery", "telemetry"}
    /\ Init
    /\ ProvidersInit /\ (part # "providers" => adapter = "openai")
    /\ CandidatesInit /\ (part # "candidates" => catalogue = <<>> /\ routing = "best" /\ ~needs.tools)
    /\ DiscoveryInit /\ (part # "discovery" => there = {})
    /\ TelemetryInit

(* Only the part a behaviour is about moves. *)
Frame(p, vs) == IF part = p THEN TRUE ELSE UNCHANGED vs

CoreNext ==
    /\ \/ part = "pipeline" /\ Next
       \/ part = "providers" /\ ProvidersNext
       \/ part = "candidates" /\ CandidatesNext
       \/ part = "discovery" /\ DiscoveryNext
       \/ part = "telemetry" /\ TelemetryNext
    /\ Frame("pipeline", vars)
    /\ Frame("providers", providerVars)
    /\ Frame("candidates", candidatesVars)
    /\ Frame("discovery", discoveryVars)
    /\ Frame("telemetry", telemetryVars)
    /\ UNCHANGED part

coreVars ==
    <<part, vars, providerVars, candidatesVars, discoveryVars,
      telemetryVars>>

CoreSpec == CoreInit /\ [][CoreNext]_coreVars
=============================================================================
