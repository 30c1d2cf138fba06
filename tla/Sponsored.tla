----------------------------- MODULE Sponsored ------------------------------
(***************************************************************************)
(* Sponsored runs on the relay (apps/relay/src/abuse, #startRun): a rate   *)
(* window per address, then one unit of each of four daily counters -- the *)
(* global budget, the user, the address, the network -- taken before the   *)
(* run is dispatched and given back when it was not.                       *)
(*                                                                         *)
(* Verification, the network lookup and the dispatch are waits; everything *)
(* between two of them is one step (InMemoryAbuseStore never yields).      *)
(***************************************************************************)
EXTENDS Integers, Sequences, SequencesExt, FiniteSets

CONSTANTS
    Callers,      \* requests for a sponsored run
    Addresses,
    UserOf,       \* caller |-> the account its proof verifies
    AddressOf,    \* caller |-> the address it comes from
    AsnOf,        \* address |-> its network, or NoAsn when it cannot be told
    NoAsn,
    DailyBudget, PerUserPerDay, PerIpPerDay, PerAsnPerDay,
    WindowLimit,  \* requests one address may make in a window
    WindowTicks,  \* length of that window
    TicksPerDay,
    MaxTrackedKeys,
    MaxClock      \* bound: how far the clock runs

ASSUME SponsoredConstants ==
    /\ {DailyBudget, PerUserPerDay, PerIpPerDay, PerAsnPerDay, WindowLimit,
        WindowTicks, TicksPerDay} \subseteq Nat \ {0}
    /\ MaxTrackedKeys \in Nat /\ MaxClock \in Nat

VARIABLES
    clock,
    windows,   \* <<[key, hits, touched]>>, in the order the keys were added
    daily,     \* <<[key, day, count, touched]>>, likewise
    callers,   \* caller |-> how far its request has come
    served     \* history: address |-> when its requests passed the window

sponsoredVars == <<clock, windows, daily, callers, served>>

Today == clock \div TicksPerDay
NotAsked == [at |-> "idle"]

SponsoredInit ==
    /\ clock = 0
    /\ windows = <<>>
    /\ daily = <<>>
    /\ callers = [c \in Callers |-> NotAsked]
    /\ served = [a \in Addresses |-> <<>>]

-----------------------------------------------------------------------------
(* InMemoryAbuseStore *)

Position(map, key) == {i \in DOMAIN map : map[i].key = key}

(* #evictIfFull: both maps count towards the ceiling, and the entry        *)
(* touched longest ago goes from the map about to grow; the first of those *)
(* touched at one time.                                                    *)
Trimmed(map, tracked) ==
    IF tracked < MaxTrackedKeys \/ map = <<>> THEN map
    ELSE LET oldest == CHOOSE i \in DOMAIN map : \A k \in DOMAIN map :
                          \/ map[i].touched < map[k].touched
                          \/ map[i].touched = map[k].touched /\ i <= k
         IN  RemoveAt(map, oldest)

(* #dailyEntry: today's entry of the key, an old day's replaced in place,  *)
(* a missing one added.                                                    *)
WithEntry(map, key, day) ==
    LET fresh == [key |-> key, day |-> day, count |-> 0, touched |-> clock]
    IN  IF Position(map, key) = {}
        THEN Append(Trimmed(map, Len(map) + Len(windows)), fresh)
        ELSE LET i == CHOOSE k \in Position(map, key) : TRUE
             IN  [map EXCEPT ![i] = IF @.day = day
                                    THEN [@ EXCEPT !.touched = clock] ELSE fresh]

CountIn(map, key) == LET i == CHOOSE k \in Position(map, key) : TRUE IN map[i].count
Adjusted(map, key, by) ==
    [i \in DOMAIN map |->
        IF map[i].key = key THEN [map[i] EXCEPT !.count = @ + by] ELSE map[i]]

(* releaseDaily: never below zero, and never out of another day's counter. *)
ReleasedAnyDay(map, key, day) ==
    [i \in DOMAIN map |->
        IF map[i].key = key /\ map[i].count > 0
        THEN [map[i] EXCEPT !.count = @ - 1] ELSE map[i]]
Released(map, key, day) ==
    [i \in DOMAIN map |->
        IF map[i].key = key /\ map[i].day = day /\ map[i].count > 0
        THEN [map[i] EXCEPT !.count = @ - 1] ELSE map[i]]

ReleasedAll(map, keys, day) ==
    FoldLeft(LAMBDA m, k : Released(m, k, day), map, Reverse(keys))

(* hit, on the entry of the address without the hits that left the window. *)
Hit(a) ==
    LET known == Position(windows, a)
        map == IF known # {} THEN windows
               ELSE Append(Trimmed(windows, Len(windows) + Len(daily)),
                           [key |-> a, hits |-> <<>>, touched |-> clock])
        i == CHOOSE k \in Position(map, a) : TRUE
        recent == SelectSeq(map[i].hits, LAMBDA t : t > clock - WindowTicks)
    IN  [map EXCEPT ![i] = [@ EXCEPT !.hits = Append(recent, clock), !.touched = clock]]

-----------------------------------------------------------------------------
BudgetKey == <<"budget">>
UserKey(u) == <<"user", u>>
IpKey(a) == <<"ip", a>>
AsnKey(n) == <<"asn", n>>

(* The claims of a request, in the order they are made. *)
Claims(c) ==
    <<[key |-> BudgetKey, limit |-> DailyBudget],
      [key |-> UserKey(UserOf[c]), limit |-> PerUserPerDay],
      [key |-> IpKey(AddressOf[c]), limit |-> PerIpPerDay],
      [key |-> AsnKey(AsnOf[AddressOf[c]]), limit |-> PerAsnPerDay]>>
KeysOf(c) == [i \in 1..4 |-> Claims(c)[i].key]

(* reserveDaily for one claim of a reservation; a refusal unwinds what the *)
(* reservation had taken.                                                  *)
ClaimTaken(st, claim, day) ==
    LET map == WithEntry(st.daily, claim.key, day)
    IN  IF ~st.ok THEN st
        ELSE IF CountIn(map, claim.key) >= claim.limit
        THEN [daily |-> ReleasedAll(map, st.taken, day), taken |-> <<>>, ok |-> FALSE]
        ELSE [daily |-> Adjusted(map, claim.key, 1),
              taken |-> Append(st.taken, claim.key), ok |-> TRUE]

(* A request arrives: enforce charges the address's window whether or not  *)
(* the request then passes it.                                             *)
PassesWindow(map, a) ==
    Len(map[CHOOSE k \in Position(map, a) : TRUE].hits) <= WindowLimit

Arrive(c) ==
    LET a == AddressOf[c]
        map == Hit(a)
    IN  /\ callers[c] = NotAsked
        /\ windows' = map
        /\ IF PassesWindow(map, a)
           THEN /\ callers' = [callers EXCEPT ![c] = [at |-> "verifying"]]
                /\ served' = [served EXCEPT ![a] = Append(@, clock)]
           ELSE /\ callers' = [callers EXCEPT ![c] = [at |-> "over"]]
                /\ UNCHANGED served
        /\ UNCHANGED <<clock, daily>>

(* #verify or #resolveAsn refuses: a port that threw, an account too young *)
(* or an address no network is known for.                                  *)
Unverified(c) ==
    /\ callers[c].at = "verifying"
    /\ callers' = [callers EXCEPT ![c] = [at |-> "over"]]
    /\ UNCHANGED <<clock, windows, daily, served>>

(* Both ports answered: the rest of reserve runs on the day it is now. *)
Reserve(c) ==
    LET st == FoldLeft(LAMBDA s, claim : ClaimTaken(s, claim, Today),
                       [daily |-> daily, taken |-> <<>>, ok |-> TRUE],
                       Claims(c))
    IN  /\ callers[c].at = "verifying"
        /\ AsnOf[AddressOf[c]] # NoAsn
        /\ daily' = st.daily
        /\ callers' = [callers EXCEPT ![c] =
               IF st.ok THEN [at |-> "dispatched", day |-> Today]
               ELSE [at |-> "over"]]
        /\ UNCHANGED <<clock, windows, served>>

(* The dispatch answered, or failed after the caller hung up: either way   *)
(* the unit stays spent.                                                   *)
RunCounts(c) ==
    /\ callers[c].at = "dispatched"
    /\ callers' = [callers EXCEPT ![c].at = "ran"]
    /\ UNCHANGED <<clock, windows, daily, served>>

(* The dispatch failed with the caller still there: reservation.release(). *)
RunFails(c) ==
    /\ callers[c].at = "dispatched"
    /\ daily' = ReleasedAll(daily, KeysOf(c), callers[c].day)
    /\ callers' = [callers EXCEPT ![c] = [at |-> "over"]]
    /\ UNCHANGED <<clock, windows, served>>

ClockTicks ==
    /\ clock < MaxClock
    /\ clock' = clock + 1
    /\ UNCHANGED <<windows, daily, callers, served>>

SponsoredNext ==
    \/ \E c \in Callers : \/ Arrive(c) \/ Unverified(c) \/ Reserve(c)
                           \/ RunCounts(c) \/ RunFails(c)
    \/ ClockTicks

SponsoredSpec == SponsoredInit /\ [][SponsoredNext]_sponsoredVars

-----------------------------------------------------------------------------
(* The requests that hold a unit of the key for the day. *)
Holds(key, day) ==
    {c \in Callers : /\ callers[c].at \in {"dispatched", "ran"}
                     /\ callers[c].day = day
                     /\ Contains(KeysOf(c), key)}

(* A counter says exactly how many runs hold a unit of it on its day: no   *)
(* refusal leaks a unit, no release gives one back twice or to another     *)
(* day, whatever order verifications, dispatches and midnight come in.     *)
CountsAreHolds ==
    \A i \in DOMAIN daily :
        daily[i].count = Cardinality(Holds(daily[i].key, daily[i].day))

(* No day's runs exceed the published budget, the user's, the address's or *)
(* the network's allowance.                                                *)
WithinLimits ==
    \A c \in Callers : callers[c].at \in {"dispatched", "ran"} =>
        \A i \in 1..4 :
            LET claim == Claims(c)[i]
            IN  Cardinality(Holds(claim.key, callers[c].day)) <= claim.limit

(* No stretch of time as long as the window sees more requests of one      *)
(* address pass than its limit.                                            *)
WindowHolds ==
    \A a \in Addresses : \A i \in DOMAIN served[a] :
        Cardinality({k \in 1..i : served[a][k] > served[a][i] - WindowTicks})
            <= WindowLimit

(* The allowances of sponsored runs hold, and hold because the counters    *)
(* are exact: the three above together (reserve, release, enforce).        *)
AllowancesHold == CountsAreHolds /\ WithinLimits /\ WindowHolds
=============================================================================
