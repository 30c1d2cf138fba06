------------------------------ MODULE Discovery -----------------------------
(***************************************************************************)
(* Which providers a run may call (packages/daemon/src/providers/local.ts  *)
(* and multi.ts, with #requireModelClient and #candidatesFor of server.ts):*)
(* local runtimes are probed and the answer is kept for a while, the other *)
(* adapters ask for their credential, and several runs refresh the one     *)
(* list of configured providers at once.                                   *)
(***************************************************************************)
EXTENDS Naturals, FiniteSets

CONSTANTS
    NewRuns,        \* runs that start
    Runtimes,    \* local runtimes
    Keyed,       \* providers that need a credential
    MaxChanges   \* bound: runtimes and credentials that come or go

ASSUME DiscoveryAssumption == Runtimes \cap Keyed = {}

VARIABLES
    there,        \* runtimes that serve, and providers whose credential is there
    changes,      \* how often that changed
    reports,      \* LocalDiscovery: the runtimes found at the last probe
    probe,        \* "cold", "fresh", "stale" or "flying"
    serving,      \* LocalModelClient: the runtimes it has a client for
    configured,   \* MultiProviderClient: the providers of the last refresh
    runAt,         \* run |-> where it is
    said,         \* run |-> the providers whose adapters have answered yes
    unasked,      \* run |-> adapters that have not answered
    candidates,   \* run |-> providers of its candidates
    attempts,     \* run |-> provider |-> outcome of routing a call there
    backed        \* history: run |-> providers that answered yes in a refresh that ended with or after its own

discoveryVars == <<there, changes, reports, probe, serving, configured, runAt, said, unasked,
                   candidates, attempts, backed>>

Local == "local"   \* LocalModelClient, as an adapter
Adapters == Keyed \cup {Local}

(* The world: a runtime is started or stopped, a credential set or removed.*)
Changes(p) ==
    /\ changes < MaxChanges
    /\ changes' = changes + 1
    /\ there' = IF p \in there THEN there \ {p} ELSE there \cup {p}
    /\ UNCHANGED <<reports, probe, serving, configured, runAt, said, unasked, candidates, attempts, backed>>

(* reports(): from the cache, or by the one probe in flight; probeRuntime  *)
(* asks every runtime, and getJson turns a refusal or a timeout into       *)
(* nothing there.                                                          *)
ProbeStarts(r) ==
    /\ probe \in {"cold", "stale"}
    /\ \/ runAt[r] = "asking" /\ Local \in unasked[r]
       \/ runAt[r] = "offering"
    /\ probe' = "flying"
    /\ UNCHANGED <<there, changes, reports, serving, configured, runAt, said, unasked, candidates, attempts, backed>>
ProbeEnds ==
    /\ probe = "flying"
    /\ probe' = "fresh"
    /\ reports' = there \cap Runtimes
    /\ UNCHANGED <<there, changes, serving, configured, runAt, said, unasked, candidates, attempts, backed>>
TtlPasses ==
    /\ probe = "fresh"
    /\ probe' = "stale"
    /\ UNCHANGED <<there, changes, reports, serving, configured, runAt, said, unasked, candidates, attempts, backed>>

-----------------------------------------------------------------------------
(* POST /v1/runs: #requireModelClient asks every adapter at once. *)
RunStarts(r) ==
    /\ runAt[r] = "idle"
    /\ runAt' = [runAt EXCEPT ![r] = "asking"]
    /\ UNCHANGED <<there, changes, reports, probe, serving, configured, said, unasked, candidates, attempts, backed>>

(* LocalModelClient.configured: its clients are those of the last probe.   *)
LocalAnswers(r) ==
    /\ runAt[r] = "asking" /\ Local \in unasked[r]
    /\ probe = "fresh"
    /\ serving' = reports
    /\ said' = [said EXCEPT ![r] = @ \cup reports]
    /\ unasked' = [unasked EXCEPT ![r] = @ \ {Local}]
    /\ UNCHANGED <<there, changes, reports, probe, configured, runAt, candidates, attempts, backed>>

(* An adapter with a credential says yes; one that throws says no. *)
KeyedAnswers(r, p) ==
    /\ runAt[r] = "asking" /\ p \in unasked[r]
    /\ \E yes \in IF p \in there THEN {{p}, {}} ELSE {{}} : said' = [said EXCEPT ![r] = @ \cup yes]
    /\ unasked' = [unasked EXCEPT ![r] = @ \ {p}]
    /\ UNCHANGED <<there, changes, reports, probe, serving, configured, runAt, candidates, attempts, backed>>

(* MultiProviderClient.configured, once every adapter has answered: the    *)
(* list is replaced.                                                       *)
RefreshedAdds(r) == configured \cup said[r]
Refreshed(r) == said[r]
Refresh(r) ==
    /\ runAt[r] = "asking" /\ unasked[r] = {}
    /\ configured' = Refreshed(r)
    /\ runAt' = [runAt EXCEPT ![r] = IF said[r] = {} THEN "refused" ELSE "offering"]
    /\ backed' = [q \in NewRuns |-> IF q = r THEN said[r]
                                 ELSE IF runAt[q] = "offering" THEN backed[q] \cup said[r] ELSE backed[q]]
    /\ UNCHANGED <<there, changes, reports, probe, serving, said, unasked, candidates, attempts>>

(* #candidatesFor: the catalogue's models of every keyed provider and the  *)
(* local ones, of those the providers that are configured.                 *)
Offer(r) ==
    LET offered == (Keyed \cup reports) \cap configured
    IN  /\ runAt[r] = "offering" /\ probe = "fresh"
        /\ candidates' = [candidates EXCEPT ![r] = offered]
        /\ runAt' = [runAt EXCEPT ![r] = IF offered = {} THEN "refused" ELSE "routing"]
        /\ UNCHANGED <<there, changes, reports, probe, serving, configured, said, unasked, attempts, backed>>

(* #route: to the adapter that lists the provider now, or the attempt is a *)
(* provider error that reached nobody.                                     *)
Route(r, p) ==
    /\ runAt[r] = "routing"
    /\ p \in candidates[r] /\ attempts[r][p] = "none"
    /\ attempts' = [attempts EXCEPT ![r][p] =
                       IF p \in Keyed \cup serving THEN "called" ELSE "noAdapter"]
    /\ UNCHANGED <<there, changes, reports, probe, serving, configured, runAt, said, unasked, candidates, backed>>

DiscoveryInit ==
    /\ there \in SUBSET (Runtimes \cup Keyed)
    /\ changes = 0
    /\ reports = {} /\ probe = "cold" /\ serving = {} /\ configured = {}
    /\ runAt = [r \in NewRuns |-> "idle"]
    /\ said = [r \in NewRuns |-> {}]
    /\ unasked = [r \in NewRuns |-> Adapters]
    /\ candidates = [r \in NewRuns |-> {}]
    /\ attempts = [r \in NewRuns |-> [p \in Runtimes \cup Keyed |-> "none"]]
    /\ backed = [r \in NewRuns |-> {}]

DiscoveryNext ==
    \/ \E p \in Runtimes \cup Keyed : Changes(p)
    \/ ProbeEnds
    \/ TtlPasses
    \/ \E r \in NewRuns :
          \/ ProbeStarts(r) \/ RunStarts(r) \/ LocalAnswers(r) \/ Refresh(r) \/ Offer(r)
          \/ \E p \in Keyed : KeyedAnswers(r, p)
          \/ \E p \in Runtimes \cup Keyed : Route(r, p)

DiscoverySpec == DiscoveryInit /\ [][DiscoveryNext]_discoveryVars

-----------------------------------------------------------------------------
(* However the refreshes of concurrent runs overtake one another, a run    *)
(* offers only providers whose adapter said yes in its own refresh or in   *)
(* one that ended after it: an older answer never lasts, and an adapter    *)
(* that was not asked is never called.                                     *)
CandidatesWereConfirmed ==
    \A r \in NewRuns : runAt[r] = "routing" => candidates[r] \subseteq backed[r]
=============================================================================
