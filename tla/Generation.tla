----------------------------- MODULE Generation -----------------------------
(***************************************************************************)
(* Runs that generate a ChangeSet (executeRun and ModelRouter.run of       *)
(* packages/core) side by side in one daemon, which gives all of them one  *)
(* router and with it one circuit breaker.                                 *)
(*                                                                         *)
(* A run leaves the event loop only while a model answers and while the    *)
(* analyser reads the result.  What happens between two such waits -- one  *)
(* attempt recorded, the breaker told, a number of candidates skipped and  *)
(* the next one called -- is one action.                                   *)
(*                                                                         *)
(* An entry of the breaker (packages/core/src/breaker.ts) holds its        *)
(* cooldown as the time that is left of it, so that the clock needs no     *)
(* bound: NotCooling when the breaker is closed, zero once the cooldown    *)
(* has passed.                                                             *)
(***************************************************************************)
EXTENDS Integers, Sequences

CONSTANTS
    NotCooling,
    FailureThreshold,       \* consecutive failures that trip the breaker
    Cooldown,               \* ticks an open breaker refuses traffic
    SuccessesToClose        \* successful probes needed to close again

ASSUME BreakerAssumption ==
    /\ FailureThreshold \in Nat \ {0}
    /\ Cooldown \in Nat \ {0}
    /\ SuccessesToClose \in Nat \ {0}
    /\ NotCooling \notin Nat

(* Failures beyond the threshold are told apart by nothing but a snapshot, *)
(* so they are not counted.                                                *)
FreshEntry == [failures |-> 0, cooling |-> NotCooling, successes |-> 0]

StateOf(e) == IF e.cooling = NotCooling THEN "closed"
              ELSE IF e.cooling = 0 THEN "half-open" ELSE "open"

(* A half-open breaker lets every caller through, not just one. *)
Allows(e) == StateOf(e) # "open"

(* A success while the breaker is not closed counts as a probe, also one   *)
(* whose call began before the breaker tripped.                            *)
RecordSuccess(e) ==
    IF StateOf(e) = "closed" THEN [e EXCEPT !.failures = 0]
    ELSE IF e.successes + 1 >= SuccessesToClose THEN FreshEntry
    ELSE [e EXCEPT !.successes = @ + 1]

CountFailure(e) ==
    IF e.failures < FailureThreshold THEN [e EXCEPT !.failures = @ + 1] ELSE e

(* A failure while the breaker is open does not extend the cooldown; one   *)
(* while it is half-open starts a full fresh one.                          *)
RecordFailureExtending(e) ==
    LET counted == CountFailure(e) IN
    IF StateOf(e) # "closed" \/ counted.failures >= FailureThreshold
    THEN [counted EXCEPT !.cooling = Cooldown, !.successes = 0]
    ELSE counted
RecordFailure(e) ==
    LET counted == CountFailure(e) IN
    IF StateOf(e) = "open" THEN counted
    ELSE IF StateOf(e) = "half-open" \/ counted.failures >= FailureThreshold
    THEN [counted EXCEPT !.cooling = Cooldown, !.successes = 0]
    ELSE counted

(* One unit of time passes. *)
Cooled(e) == IF StateOf(e) = "open" THEN [e EXCEPT !.cooling = @ - 1] ELSE e

-----------------------------------------------------------------------------
(* The router *)


CONSTANTS
    ModelRuns,
    Models,
    Providers,
    ProviderOf,     \* model |-> its provider
    Orders,         \* the candidate lists the planning stage comes up with
    Budgets,        \* values of maxAttempts
    Reports         \* what adapters report, a subset of Reported

AttemptOutcome == {"ok", "rate-limited", "provider-error", "timeout", "refused",
                   "invalid-output", "context-exceeded", "capability-missing",
                   "cancelled"}

(* What an adapter may do: report an outcome, report ok with nothing to    *)
(* show for it, report ok with a set beyond the size limit, or throw.      *)
Reported == AttemptOutcome \cup {"ok-empty", "ok-oversize", "throws"}

ASSUME GenerationAssumption ==
    /\ ProviderOf \in [Models -> Providers]
    /\ Orders \subseteq Seq(Models)
    /\ \A o \in Orders : \A i, j \in DOMAIN o : o[i] = o[j] => i = j
    /\ Budgets \subseteq Nat \ {0}
    /\ Reports \subseteq Reported

VARIABLES
    breaker,    \* provider |-> its breaker entry
    modelRuns        \* run |-> its record

generationVars == <<breaker, modelRuns>>

(* The outcome the router records for what the adapter did. *)
Outcome(report) ==
    CASE report = "ok-empty" -> "invalid-output"
      [] report = "throws" -> "provider-error"
      [] report = "ok-oversize" -> "ok"
      [] OTHER -> report

HealthFailures == {"rate-limited", "provider-error", "timeout"}

(* recordSuccess or recordFailure, when the outcome says something about   *)
(* the provider.                                                           *)
Told(e, outcome) ==
    IF outcome = "ok" THEN RecordSuccess(e)
    ELSE IF outcome \in HealthFailures THEN RecordFailure(e) ELSE e

GenerationInit ==
    /\ breaker = [p \in Providers |-> FreshEntry]
    /\ modelRuns = [r \in ModelRuns |->
          [stage |-> "queued", order |-> <<>>, budget |-> 0, at |-> 0,
           attempts |-> <<>>, skipped |-> <<>>, hungUp |-> FALSE, began |-> "closed"]]

(* The reason the router has for not calling a model. *)
SkipReason(run, b, m) ==
    IF ~Allows(b[ProviderOf[m]]) THEN "circuit-open" ELSE "attempt-budget"

(* A position the router calls the model of: its provider is not           *)
(* suppressed and the budget, which counts calls, is not spent.            *)
Callable(run, b, i) ==
    /\ Allows(b[ProviderOf[run.order[i]]])
    /\ Len(run.attempts) < run.budget

(* The router's loop from position i on, up to the next call or to the end *)
(* of the list: an abort is noticed here and nowhere else.                 *)
Continue(run, b, i) ==
    LET n == Len(run.order)
        callable == {k \in i..n : Callable(run, b, k)}
        next == IF callable = {} THEN n + 1
                ELSE CHOOSE k \in callable : \A l \in callable : k <= l
        skips == [k \in 1..(next - i) |->
                    LET m == run.order[i + k - 1] IN
                    [model |-> m, reason |-> SkipReason(run, b, m)]]
    IN  IF run.hungUp /\ i <= n THEN [run EXCEPT !.stage = "cancelled"]
        ELSE IF next <= n
             THEN [run EXCEPT !.skipped = @ \o skips, !.at = next,
                              !.began = StateOf(b[ProviderOf[run.order[next]]])]
        ELSE [run EXCEPT !.skipped = @ \o skips, !.stage = "failed"]

(* executeRun up to the first model call.  Under `pinned' the list has one *)
(* element and the budget is one.                                          *)
StartModelRun(r, order, budget) ==
    /\ modelRuns[r].stage = "queued"
    /\ modelRuns' = [modelRuns EXCEPT ![r] =
          Continue([@ EXCEPT !.stage = "generating", !.order = order, !.budget = budget],
                   breaker, 1)]
    /\ UNCHANGED breaker

(* The model a run is pinned to does not meet the run's requirements: it   *)
(* is recorded as tried, although it never was.                            *)
PinnedUnfit(r, m, outcome) ==
    /\ modelRuns[r].stage = "queued"
    /\ modelRuns' = [modelRuns EXCEPT ![r] =
          [@ EXCEPT !.stage = "failed", !.order = <<m>>, !.budget = 1,
                    !.attempts = <<[model |-> m, outcome |-> outcome]>>]]
    /\ UNCHANGED breaker

(* The model called last answers: the attempt is recorded, the breaker is  *)
(* told, and the run goes on to validation, to the next candidate, or ends.*)
ModelAnswers(r, report) ==
    /\ modelRuns[r].stage = "generating"
    /\ LET run == modelRuns[r]
           model == run.order[run.at]
           outcome == Outcome(report)
           tried == [run EXCEPT !.attempts =
                        Append(@, [model |-> model, outcome |-> outcome])]
           told == [breaker EXCEPT ![ProviderOf[model]] = Told(@, outcome)]
       IN  /\ breaker' = told
           /\ modelRuns' = [modelRuns EXCEPT ![r] =
                CASE report = "ok-oversize" -> [tried EXCEPT !.stage = "failed"]
                  [] outcome = "ok" /\ report # "ok-oversize" -> [tried EXCEPT !.stage = "validating"]
                  [] outcome = "cancelled" -> [tried EXCEPT !.stage = "cancelled"]
                  [] OTHER -> Continue(tried, told, run.at + 1)]

(* The policy check and the analyser are through.  Neither looks at the    *)
(* abort signal; an analyser that throws fails the run.                    *)
Validated(r, clears) ==
    /\ modelRuns[r].stage = "validating"
    /\ modelRuns' = [modelRuns EXCEPT ![r].stage = IF clears THEN "awaiting-approval" ELSE "failed"]
    /\ UNCHANGED breaker

(* The caller of POST /v1/runs closes its connection, which aborts the run.*)
RunHangsUp(r) ==
    /\ modelRuns[r].stage \in {"generating", "validating"}
    /\ ~modelRuns[r].hungUp
    /\ modelRuns' = [modelRuns EXCEPT ![r].hungUp = TRUE]
    /\ UNCHANGED breaker

(* Time passes for every breaker. *)
BreakerTick ==
    /\ \E p \in Providers : StateOf(breaker[p]) = "open"
    /\ breaker' = [p \in Providers |-> Cooled(breaker[p])]
    /\ UNCHANGED modelRuns

GenerationNext ==
    \/ \E r \in ModelRuns, o \in Orders, b \in Budgets : StartModelRun(r, o, b)
    \/ \E r \in ModelRuns, m \in Models, outcome \in {"context-exceeded", "capability-missing"} :
          PinnedUnfit(r, m, outcome)
    \/ \E r \in ModelRuns, report \in Reports : ModelAnswers(r, report)
    \/ \E r \in ModelRuns, clears \in BOOLEAN : Validated(r, clears)
    \/ \E r \in ModelRuns : RunHangsUp(r)
    \/ BreakerTick

GenerationSpec == GenerationInit /\ [][GenerationNext]_generationVars

-----------------------------------------------------------------------------
(* Properties *)

InFlight(r) == modelRuns[r].stage = "generating"
Calling(r) == ProviderOf[modelRuns[r].order[modelRuns[r].at]]

ModelsOf(records) == {records[i].model : i \in DOMAIN records}

(* Nothing the router did is missing from the run's record: what was tried *)
(* and what was skipped are, together, the candidates decided so far, each *)
(* exactly once and tried in the planned order; a run that failed for want *)
(* of output has decided all of them (ModelRouter.run: "The full list,     *)
(* always, success or failure").                                           *)
EveryCandidateIsAccounted ==
    \A r \in ModelRuns :
       LET run == modelRuns[r]
           decided == Len(run.attempts) + Len(run.skipped)
       IN  /\ decided <= Len(run.order)
           /\ ModelsOf(run.attempts) \cup ModelsOf(run.skipped)
                 = {run.order[i] : i \in 1..decided}
           /\ \A i, j \in DOMAIN run.attempts : i < j =>
                 \E k, l \in 1..decided : /\ run.order[k] = run.attempts[i].model
                                          /\ run.order[l] = run.attempts[j].model
                                          /\ k < l
           /\ InFlight(r) => run.at = decided + 1
           /\ run.stage = "failed" /\ (\A i \in DOMAIN run.attempts :
                                          run.attempts[i].outcome # "ok")
                 => decided = Len(run.order)

(* The budget counts calls, not positions: a candidate is passed over for  *)
(* the budget only when that many models were really called, so a run that *)
(* tried nothing was kept from it by the breaker alone ("every candidate   *)
(* provider is circuit-broken", #describeFailure).                         *)
BudgetCountsCalls ==
    \A r \in ModelRuns :
       LET run == modelRuns[r] IN
       /\ Len(run.attempts) <= run.budget
       /\ \A i \in DOMAIN run.skipped :
             run.skipped[i].reason = "attempt-budget" => Len(run.attempts) = run.budget

(* The record of a run's attempts is complete and within its budget: the   *)
(* two above together (ModelRouter.run).                                   *)
AttemptsAreAccounted == EveryCandidateIsAccounted /\ BudgetCountsCalls

(* While a breaker is open no run starts a call to its provider, whichever *)
(* run tripped it and however late, and results that come in late do not   *)
(* prolong the suppression (allows, recordFailure).                        *)
SuppressionIsExact ==
    /\ \A r \in ModelRuns :
          (InFlight(r)' /\ (~InFlight(r) \/ modelRuns'[r].at # modelRuns[r].at)) =>
             Allows(breaker'[ProviderOf[modelRuns'[r].order[modelRuns'[r].at]]])
    /\ \A p \in Providers :
          StateOf(breaker[p]) = "open" /\ breaker'[p].cooling # NotCooling =>
             breaker'[p].cooling <= breaker[p].cooling

(* What every step of a failover keeps: the record of attempts and the     *)
(* suppression, the two above together (ModelRouter.run, CircuitBreaker).  *)
FailoverIsExact == [][AttemptsAreAccounted' /\ SuppressionIsExact]_generationVars

(* "How long an open breaker refuses traffic before it allows one probe"   *)
(* (breaker.ts): at most one call that began half-open is in flight.       *)
OneProbe ==
    \A r, s \in ModelRuns :
       /\ InFlight(r) /\ InFlight(s)
       /\ Calling(r) = Calling(s)
       /\ modelRuns[r].began = "half-open" /\ modelRuns[s].began = "half-open"
       => r = s
=============================================================================
