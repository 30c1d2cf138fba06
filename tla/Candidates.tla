----------------------------- MODULE Candidates -----------------------------
(***************************************************************************)
(* From the catalogue to the order in which a run tries its models:        *)
(* deriveFree (model-registry/src/derive.ts), the candidates the daemon    *)
(* offers (daemon/src/models.ts, model-registry/src/local.ts), and the     *)
(* requirements and orderings of the router (core/src/router.ts).          *)
(*                                                                         *)
(* Money, scores and latencies are small numbers; Unknown is a benchmark   *)
(* or a latency nobody measured.  Time is days to the model's expiry.      *)
(***************************************************************************)
EXTENDS Naturals, Integers, Sequences, SequencesExt, FiniteSets

CONSTANTS
    Offers,     \* the models a catalogue may hold
    MaxModels   \* bound: models of a catalogue

ASSUME CandidatesAssumption ==
    \A m \in Offers :
        DOMAIN m = {"local", "unit", "perUnit", "price", "text", "expiresIn",
                    "coding", "agentic", "latency", "context", "tools"}

VARIABLES
    catalogue,   \* the models, in the order of the registry
    routing,      \* the run's routing policy
    needs,       \* its requirements: a context size and whether it needs tools
    order        \* the candidates in the order they will be tried, or NotOrdered

candidatesVars == <<catalogue, routing, needs, order>>

Unknown == 0
Never == 99          \* no expiry
SoonDays == 30
NotOrdered == <<[index |-> 0]>>
RoutingPolicies == {"cheapest", "best", "fastest", "free-first", "pinned"}

(* deriveFree.  A local model is free because nobody bills for it. *)
Expired(m) == ~m.local /\ m.expiresIn # Never /\ m.expiresIn <= 0
ExpiringSoon(m) == ~m.local /\ m.expiresIn # Never /\ m.expiresIn > 0 /\ m.expiresIn <= SoonDays
FreeByTokenPrice(m) == m.local \/ m.price = 0
Free(m) ==
    \/ m.local
    \/ m.unit = "token" /\ m.perUnit = 0 /\ m.price = 0 /\ m.text

(* candidateFor, localCandidate and CatalogModels.candidates. *)
Candidate(i) ==
    LET m == catalogue[i]
    IN  [index |-> i, free |-> Free(m), price |-> IF m.local THEN 0 ELSE m.price,
         expiring |-> ExpiringSoon(m),
         coding |-> IF m.local THEN Unknown ELSE m.coding,
         agentic |-> IF m.local THEN Unknown ELSE m.agentic,
         latency |-> m.latency, context |-> m.context, tools |-> m.tools]
OfferedCandidates ==
    {Candidate(i) : i \in {k \in DOMAIN catalogue : ~Expired(catalogue[k])}}

(* meetsRequirements: the context window first, then the capabilities. *)
MeetsRequirements(c) ==
    /\ c.context >= needs.context
    /\ needs.tools => c.tools

-----------------------------------------------------------------------------
(* The comparators.  Negative: a comes first.  An unknown value is last.   *)
Descending(a, b) == IF a = b THEN 0 ELSE IF a = Unknown THEN 1 ELSE IF b = Unknown THEN -1 ELSE b - a
CompareQuality(a, b) ==
    IF a.coding # b.coding THEN Descending(a.coding, b.coding)
    ELSE Descending(a.agentic, b.agentic)
CompareLatency(a, b) ==
    IF a.latency = b.latency THEN 0
    ELSE IF a.latency = Unknown THEN 1
    ELSE IF b.latency = Unknown THEN -1
    ELSE a.latency - b.latency
Compare(a, b) ==
    CASE routing = "cheapest" -> a.price - b.price
      [] routing = "best" -> CompareQuality(a, b)
      [] routing = "fastest" -> CompareLatency(a, b)
      [] routing = "free-first" ->
            IF a.free # b.free THEN (IF a.free THEN -1 ELSE 1)
            ELSE IF a.free THEN CompareQuality(a, b) ELSE a.price - b.price
      [] routing = "pinned" -> 0

(* orderCandidates: what is about to expire last, then the policy, then    *)
(* the given order.                                                        *)
ComesFirst(a, b) ==
    IF a.expiring # b.expiring THEN b.expiring
    ELSE IF Compare(a, b) # 0 THEN Compare(a, b) < 0
    ELSE a.index < b.index
OrderCandidates(eligible) == SetToSortSeq(eligible, ComesFirst)

(* #planPinned tries the model it is told, or none; #planFallback all that *)
(* meet the requirements.                                                  *)
PlanPinned(pinned) ==
    /\ order = NotOrdered /\ routing = "pinned"
    /\ order' = SetToSeq({c \in OfferedCandidates : c.index = pinned /\ MeetsRequirements(c)})
    /\ UNCHANGED <<catalogue, routing, needs>>
PlanFallback ==
    /\ order = NotOrdered /\ routing # "pinned"
    /\ order' = OrderCandidates({c \in OfferedCandidates : MeetsRequirements(c)})
    /\ UNCHANGED <<catalogue, routing, needs>>

CandidatesInit ==
    /\ \E n \in 0 .. MaxModels : catalogue \in [1 .. n -> Offers]
    /\ routing \in RoutingPolicies
    /\ needs \in {[context |-> 0, tools |-> FALSE], [context |-> 1, tools |-> TRUE]}
    /\ order = NotOrdered

CandidatesNext ==
    \/ PlanFallback
    \/ \E pinned \in 1 .. MaxModels : PlanPinned(pinned)

CandidatesSpec == CandidatesInit /\ [][CandidatesNext]_candidatesVars

-----------------------------------------------------------------------------
(* What a call of the model costs: its tokens, and what it bills besides.  *)
Bill(m) == IF m.local THEN 0 ELSE m.price + m.perUnit + (IF m.text THEN 0 ELSE 1)
Offered(k) == catalogue[order[k].index]

(* Whatever the catalogue holds, a model on offer that meets the           *)
(* requirements is tried exactly once and no other is; free-first bills    *)
(* nothing before every free candidate of the same standing was tried; the *)
(* best and the fastest that anybody measured come before the others; and  *)
(* a model about to be withdrawn comes after every one that stays.         *)
OrderKeepsItsPromise ==
    order # NotOrdered =>
        /\ \A j, k \in DOMAIN order : j # k => order[j].index # order[k].index
        /\ routing # "pinned" =>
              \A i \in DOMAIN catalogue :
                 (\E k \in DOMAIN order : order[k].index = i) <=>
                    /\ catalogue[i].local \/ catalogue[i].expiresIn > 0
                    /\ catalogue[i].context >= needs.context
                    /\ needs.tools => catalogue[i].tools
        /\ \A j, k \in DOMAIN order :
              j < k =>
                 /\ order[j].expiring => order[k].expiring
                 /\ routing = "free-first" /\ order[j].expiring = order[k].expiring
                        /\ Bill(Offered(k)) = 0 => Bill(Offered(j)) = 0
                 /\ routing = "best" /\ order[j].expiring = order[k].expiring =>
                       order[j].coding >= order[k].coding
                 /\ routing = "cheapest" /\ order[j].expiring = order[k].expiring =>
                       order[j].price <= order[k].price
                 /\ routing = "fastest" /\ order[j].expiring = order[k].expiring
                        /\ order[k].latency # Unknown =>
                       order[j].latency # Unknown /\ order[j].latency <= order[k].latency
=============================================================================
