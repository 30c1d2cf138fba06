------------------------------ MODULE Pipeline ------------------------------
(***************************************************************************)
(* The run pipeline (RunPipeline of packages/core/src/pipeline.ts) over    *)
(* its storage port.  start, approve, reject and cancel are calls that may *)
(* overlap.  Every call loads the run once and works on its own copy: the  *)
(* stage it checks is the copy's, the stage it writes is the store's.  An  *)
(* action is what a call does between two awaits, which is one request to  *)
(* the store or to another port.                                           *)
(*                                                                         *)
(* A run proposes one ChangeSet, so a set goes by the name of its run.     *)
(* Attempts, timestamps, failure texts and spans are left out.             *)
(***************************************************************************)
EXTENDS Policy

CONSTANTS
    Runs,
    Calls,          \* names for the calls that are under way at one time
    Drafts,         \* what a model may produce: [ops, oversize]
    Policies,       \* the policies a project may be given
    HasSandbox,     \* whether an analyser and test runner is configured
    MaxVersion      \* bound on the versions of the place

(* What the schemas of a draft and of a policy guarantee.                  *)
ASSUME DraftsAssumption == \A d \in Drafts : \A i \in DOMAIN d.ops : IsOperation(d.ops[i])
ASSUME PoliciesAssumption == \A p \in Policies : IsPolicy(p)

VARIABLES
    runs,           \* run |-> stored stage and status
    sets,           \* run |-> stored ChangeSet
    results,        \* run |-> stored apply result, or None
    policy,         \* stored policy, None when never written
    snapshot,       \* newest stored tree version
    consumer,       \* version the consumer last reported
    place,          \* version the consumer is at
    calls,          \* call |-> where it is and what it holds
    claims,         \* history: run |-> how often its set was claimed
    claimedAs,      \* history: run |-> what the claim rested on
    delivered,      \* history: run |-> how often its set was delivered
    thrown          \* history: runs an approval left by an exception

stored == <<runs, sets, results, policy, snapshot, consumer>>
history == <<claims, claimedAs, delivered, thrown>>
vars == <<stored, place, calls, history>>

LegalTransitions ==
    [s \in {"queued", "planning", "generating", "validating", "awaiting-approval",
            "applying", "testing", "done", "failed", "cancelled"} |->
        CASE s = "queued" -> {"planning", "failed", "cancelled"}
          [] s = "planning" -> {"generating", "failed", "cancelled"}
          [] s = "generating" -> {"validating", "failed", "cancelled"}
          [] s = "validating" -> {"awaiting-approval", "applying", "failed", "cancelled"}
          [] s = "awaiting-approval" -> {"applying", "failed", "cancelled"}
          [] s = "applying" -> {"testing", "done", "failed", "cancelled"}
          [] s = "testing" -> {"done", "failed", "cancelled"}
          [] OTHER -> {}]

IsTerminal(stage) == LegalTransitions[stage] = {}

Idle == [pc |-> "idle"]

NoSet == [status |-> "none"]

CurrentVersion == IF snapshot > consumer THEN snapshot ELSE consumer

Init ==
    /\ runs = [r \in Runs |-> [stage |-> "none", status |-> "none", listed |-> FALSE]]
    /\ sets = [r \in Runs |-> NoSet]
    /\ results = [r \in Runs |-> None]
    /\ policy \in Policies \cup {None}
    /\ snapshot = 0 /\ consumer = 0 /\ place = 0
    /\ calls = [c \in Calls |-> Idle]
    /\ claims = [r \in Runs |-> 0]
    /\ claimedAs = [r \in Runs |-> None]
    /\ delivered = [r \in Runs |-> 0]
    /\ thrown = {}

-----------------------------------------------------------------------------
(* Building blocks.                                                        *)

At(c, pc) == calls[c].pc = pc
RunOf(c) == calls[c].run
Go(c, pc) == calls' = [calls EXCEPT ![c].pc = pc]
Return(c) == calls' = [calls EXCEPT ![c] = Idle]

(* assertTransition on the copy, then the store is patched.  The stored    *)
(* stage is not looked at.                                                 *)
Advance(c, to, pc) ==
    /\ to \in LegalTransitions[calls[c].stage]
    /\ runs' = [runs EXCEPT ![RunOf(c)].stage = to]
    /\ calls' = [calls EXCEPT ![c].stage = to, ![c].pc = pc]
    /\ UNCHANGED <<sets, results, policy, snapshot, consumer, place, history>>

(* setStatus of the ChangeSet store: compare and set. *)
SetStatus(r, next, expected) ==
    IF sets[r].status = expected THEN [sets EXCEPT ![r].status = next] ELSE sets

(* An exception ends start through #fail and approve by being rethrown.    *)
Throw(c) ==
    IF calls[c].kind = "start"
    THEN Go(c, "failing") /\ UNCHANGED thrown
    ELSE Return(c) /\ thrown' = thrown \cup {RunOf(c)}

-----------------------------------------------------------------------------
(* start.                                                                  *)

Start(c, r) ==
    /\ At(c, "idle") /\ runs[r].stage = "none"
    /\ runs' = [runs EXCEPT ![r].stage = "queued", ![r].status = "running"]
    /\ calls' = [calls EXCEPT ![c] =
          [pc |-> "queued", kind |-> "start", run |-> r, stage |-> "queued",
           confirm |-> FALSE, holds |-> None]]
    /\ UNCHANGED <<sets, results, policy, snapshot, consumer, place, history>>

BeginPlanning(c) == At(c, "queued") /\ Advance(c, "planning", "planning")

(* The router planned, or every candidate failed, or the client threw.     *)
Planned(c) ==
    /\ At(c, "planning")
    /\ Go(c, "planned") \/ Go(c, "failing")
    /\ UNCHANGED <<stored, place, history>>

BeginGenerating(c) == At(c, "planned") /\ Advance(c, "generating", "reading-base")

ReadBase(c) ==
    /\ At(c, "reading-base")
    /\ calls' = [calls EXCEPT ![c].pc = "generating", ![c].holds = [base |-> CurrentVersion]]
    /\ UNCHANGED <<stored, place, history>>

Generated(c) ==
    /\ At(c, "generating")
    /\ \/ Go(c, "failing")
       \/ \E d \in Drafts :
             calls' = [calls EXCEPT ![c].pc = "generated",
                                    ![c].holds = [base |-> @.base, draft |-> d]]
    /\ UNCHANGED <<stored, place, history>>

BeginValidating(c) == At(c, "generated") /\ Advance(c, "validating", "validating")

(* The draft is parsed and measured, then checked against the policy.      *)
CheckDraft(c) ==
    LET h == calls[c].holds IN
    /\ At(c, "validating")
    /\ IF Parses(h.draft.ops) /\ ~h.draft.oversize
       THEN calls' = [calls EXCEPT ![c].pc = "analysing",
              ![c].holds = [base |-> h.base, draft |-> h.draft,
                            policy |-> IF policy = None THEN DenyAllPolicy ELSE policy]]
       ELSE Go(c, "failing")
    /\ UNCHANGED <<stored, place, history>>

(* analyseChangeSet.  A report that was cut short never says ok, which     *)
(* leaves all three verdicts of a configured analyser possible.            *)
Verdicts(ops) ==
    IF \A i \in DOMAIN ops : ~HasLuauSource(ops[i]) THEN {"ok"}
    ELSE IF ~HasSandbox THEN {"warn"} ELSE {"ok", "warn", "fail"}

Analysed(c) ==
    LET h == calls[c].holds IN
    /\ At(c, "analysing")
    /\ \/ \E v \in Verdicts(h.draft.ops) :
             calls' = [calls EXCEPT ![c].pc = "saving",
                ![c].holds = [base |-> h.base, draft |-> h.draft, policy |-> h.policy,
                              luau |-> v]]
       \/ HasSandbox /\ Go(c, "failing")
    /\ UNCHANGED <<stored, place, history>>

SaveSet(c) ==
    LET h == calls[c].holds IN
    /\ At(c, "saving")
    /\ sets' = [sets EXCEPT ![RunOf(c)] =
          [status |-> "validated", base |-> h.base, ops |-> h.draft.ops, luau |-> h.luau]]
    /\ Go(c, "listing")
    /\ UNCHANGED <<runs, results, policy, snapshot, consumer, place, history>>

ListSet(c) ==
    /\ At(c, "listing")
    /\ runs' = [runs EXCEPT ![RunOf(c)].listed = TRUE]
    /\ Go(c, "deciding")
    /\ UNCHANGED <<sets, results, policy, snapshot, consumer, place, history>>

(* The set is claimed: `approved' if it is still `validated'.              *)
Claimed(c, basis) ==
    /\ sets[RunOf(c)].status = "validated"
    /\ claims' = [claims EXCEPT ![RunOf(c)] = @ + 1]
    /\ claimedAs' = [claimedAs EXCEPT ![RunOf(c)] = basis]

Basis(by, p, confirmed) == [by |-> by, policy |-> p, confirmed |-> confirmed]

(* A verdict of fail rejects the set, automatic approval claims it, and    *)
(* everything else waits for a person.                                     *)
Decide(c) ==
    LET h == calls[c].holds
        r == RunOf(c)
        decision == CheckPolicy(h.draft.ops, h.policy)
        fails == ~decision.ok \/ h.luau = "fail"
        auto == decision.autoApply /\ h.luau = "ok"
    IN
    /\ At(c, "deciding")
    /\ \/ /\ fails
          /\ sets' = SetStatus(r, "rejected", "validated")
          /\ Go(c, "failing") /\ UNCHANGED <<claims, claimedAs>>
       \/ /\ ~fails /\ auto /\ Claimed(c, Basis("auto", h.policy, FALSE))
          /\ sets' = SetStatus(r, "approved", "validated")
          /\ Go(c, "claimed")
       \/ /\ ~fails /\ (auto => sets[r].status # "validated")
          /\ Go(c, "gated") /\ UNCHANGED <<sets, claims, claimedAs>>
    /\ UNCHANGED <<runs, results, policy, snapshot, consumer, place, delivered, thrown>>

AwaitApproval(c) ==
    /\ At(c, "gated")
    /\ "awaiting-approval" \in LegalTransitions[calls[c].stage]
    /\ runs' = [runs EXCEPT ![RunOf(c)].stage = "awaiting-approval"]
    /\ Return(c)
    /\ UNCHANGED <<sets, results, policy, snapshot, consumer, place, history>>

-----------------------------------------------------------------------------
(* approve.                                                                *)

Approve(c, r, confirm) ==
    /\ At(c, "idle") /\ runs[r].stage = "awaiting-approval"
    /\ calls' = [calls EXCEPT ![c] =
          [pc |-> "loading", kind |-> "approve", run |-> r, stage |-> runs[r].stage,
           confirm |-> confirm, holds |-> None]]
    /\ UNCHANGED <<stored, place, history>>

LoadSet(c) ==
    /\ At(c, "loading")
    /\ calls' = [calls EXCEPT ![c].pc = "checking", ![c].holds = sets[RunOf(c)]]
    /\ UNCHANGED <<stored, place, history>>

(* The policy of this moment decides; an unconfirmed bulk deletion throws. *)
Recheck(c) ==
    LET p == IF policy = None THEN DenyAllPolicy ELSE policy
        decision == CheckPolicy(calls[c].holds.ops, p)
        unconfirmed == decision.requiresConfirmation /\ ~calls[c].confirm
    IN
    /\ At(c, "checking")
    /\ \/ ~decision.ok /\ Go(c, "failing")
       \/ decision.ok /\ unconfirmed /\ Return(c)
       \/ /\ decision.ok /\ ~unconfirmed
          /\ calls' = [calls EXCEPT ![c].pc = "basing",
                ![c].holds = [base |-> @.base, status |-> @.status, policy |-> p]]
    /\ UNCHANGED <<stored, place, history>>

CheckBase(c) ==
    /\ At(c, "basing")
    /\ Go(c, IF CurrentVersion = calls[c].holds.base THEN "claiming" ELSE "stale")
    /\ UNCHANGED <<stored, place, history>>

MarkStale(c) ==
    /\ At(c, "stale")
    /\ sets' = SetStatus(RunOf(c), "stale", calls[c].holds.status)
    /\ Go(c, "failing")
    /\ UNCHANGED <<runs, results, policy, snapshot, consumer, place, history>>

(* A slip: the answer of the compare-and-set is not looked at. *)
ClaimUnasked(c) ==
    /\ At(c, "claiming")
    /\ claims' = [claims EXCEPT ![RunOf(c)] = @ + 1]
    /\ claimedAs' = [claimedAs EXCEPT
          ![RunOf(c)] = Basis("human", calls[c].holds.policy, calls[c].confirm)]
    /\ sets' = SetStatus(RunOf(c), "approved", "validated")
    /\ Go(c, "claimed")
    /\ UNCHANGED <<runs, results, policy, snapshot, consumer, place, delivered, thrown>>

ClaimApproved(c) ==
    /\ At(c, "claiming")
    /\ \/ /\ Claimed(c, Basis("human", calls[c].holds.policy, calls[c].confirm))
          /\ sets' = SetStatus(RunOf(c), "approved", "validated")
          /\ Go(c, "claimed")
       \/ /\ sets[RunOf(c)].status # "validated"
          /\ Return(c) /\ UNCHANGED <<sets, claims, claimedAs>>
    /\ UNCHANGED <<runs, results, policy, snapshot, consumer, place, delivered, thrown>>

-----------------------------------------------------------------------------
(* #apply, for both of them.                                               *)

BeginApplying(c) == At(c, "claimed") /\ Advance(c, "applying", "linking")

AskLink(c) ==
    /\ At(c, "linking")
    /\ \/ Go(c, "marking") /\ UNCHANGED thrown
       \/ Go(c, "failing") /\ UNCHANGED thrown
       \/ Throw(c)
    /\ UNCHANGED <<stored, place, claims, claimedAs, delivered>>

MarkApplying(c) ==
    /\ At(c, "marking")
    /\ sets' = SetStatus(RunOf(c), "applying", "approved")
    /\ Go(c, "delivering")
    /\ UNCHANGED <<runs, results, policy, snapshot, consumer, place, history>>

(* The consumer has the set from here on, whether or not it answers.       *)
Deliver(c) ==
    /\ At(c, "delivering")
    /\ \/ /\ delivered' = [delivered EXCEPT ![RunOf(c)] = @ + 1]
          /\ Go(c, "awaiting") /\ UNCHANGED thrown
       \/ Throw(c) /\ UNCHANGED delivered
    /\ UNCHANGED <<stored, place, claims, claimedAs>>

(* External: the consumer applies all, some or none of the set and says    *)
(* which version it is at.                                                 *)
Answered(c, outcome) ==
    /\ At(c, "awaiting")
    /\ place' = IF outcome = "none" THEN place ELSE place + 1
    /\ place' <= MaxVersion
    /\ calls' = [calls EXCEPT ![c].pc = "recording",
          ![c].holds = [outcome |-> outcome, version |-> place']]
    /\ UNCHANGED <<stored, history>>

(* A slip: silence is recorded as a failed apply. *)
NoAnswerMarked(c) ==
    /\ At(c, "awaiting")
    /\ sets' = SetStatus(RunOf(c), "failed", "applying")
    /\ Go(c, "failing")
    /\ UNCHANGED <<runs, results, policy, snapshot, consumer, place, history>>

(* No answer in time, or one the protocol refuses.  What the consumer did  *)
(* is not known, and the set's status says so by staying `applying'.       *)
NoAnswer(c) ==
    /\ At(c, "awaiting")
    /\ Go(c, "failing")
    /\ UNCHANGED <<stored, place, history>>

RecordResult(c) ==
    /\ At(c, "recording")
    /\ results' = [results EXCEPT ![RunOf(c)] = calls[c].holds.outcome]
    /\ Go(c, "versioning")
    /\ UNCHANGED <<runs, sets, policy, snapshot, consumer, place, history>>

RecordVersion(c) ==
    /\ At(c, "versioning")
    /\ consumer' = calls[c].holds.version
    /\ Go(c, "concluding")
    /\ UNCHANGED <<runs, sets, results, policy, snapshot, place, history>>

Conclude(c) ==
    LET outcome == calls[c].holds.outcome
        status == CASE outcome = "all" -> "applied"
                    [] outcome = "some" -> "partial"
                    [] OTHER -> "failed"
    IN
    /\ At(c, "concluding")
    /\ sets' = SetStatus(RunOf(c), status, "applying")
    /\ Go(c, IF outcome # "all" THEN "failing"
             ELSE IF HasSandbox THEN "applied" ELSE "done")
    /\ UNCHANGED <<runs, results, policy, snapshot, consumer, place, history>>

BeginTesting(c) == At(c, "applied") /\ Advance(c, "testing", "testing")

Tested(c) ==
    /\ At(c, "testing")
    /\ \/ Go(c, "done") /\ UNCHANGED thrown
       \/ Go(c, "failing") /\ UNCHANGED thrown
       \/ Throw(c)
    /\ UNCHANGED <<stored, place, claims, claimedAs, delivered>>

Finish(c) == At(c, "done") /\ Advance(c, "done", "succeeding")

Succeed(c) ==
    /\ At(c, "succeeding")
    /\ runs' = [runs EXCEPT ![RunOf(c)].status = "succeeded"]
    /\ Return(c)
    /\ UNCHANGED <<sets, results, policy, snapshot, consumer, place, history>>

-----------------------------------------------------------------------------
(* #fail, reject and cancel.                                               *)

FailStage(c) == At(c, "failing") /\ Advance(c, "failed", "failed")

FailStatus(c) ==
    /\ At(c, "failed")
    /\ runs' = [runs EXCEPT ![RunOf(c)].status = "failed"]
    /\ Return(c)
    /\ UNCHANGED <<sets, results, policy, snapshot, consumer, place, history>>

Reject(c, r) ==
    /\ At(c, "idle") /\ runs[r].stage # "none" /\ ~IsTerminal(runs[r].stage)
    /\ calls' = [calls EXCEPT ![c] =
          [pc |-> IF runs[r].listed THEN "refusing" ELSE "failing", kind |-> "reject",
           run |-> r, stage |-> runs[r].stage, confirm |-> FALSE, holds |-> None]]
    /\ UNCHANGED <<stored, place, history>>

ReadRefused(c) ==
    /\ At(c, "refusing")
    /\ calls' = [calls EXCEPT ![c].pc = "refused",
                              ![c].holds = [status |-> sets[RunOf(c)].status]]
    /\ UNCHANGED <<stored, place, history>>

RefuseSet(c) ==
    /\ At(c, "refused")
    /\ sets' = SetStatus(RunOf(c), "rejected", calls[c].holds.status)
    /\ Go(c, "failing")
    /\ UNCHANGED <<runs, results, policy, snapshot, consumer, place, history>>

Cancel(c, r) ==
    /\ At(c, "idle") /\ runs[r].stage # "none" /\ ~IsTerminal(runs[r].stage)
    /\ calls' = [calls EXCEPT ![c] =
          [pc |-> "cancelling", kind |-> "cancel", run |-> r, stage |-> runs[r].stage,
           confirm |-> FALSE, holds |-> None]]
    /\ UNCHANGED <<stored, place, history>>

CancelStage(c) == At(c, "cancelling") /\ Advance(c, "cancelled", "cancelled")

CancelStatus(c) ==
    /\ At(c, "cancelled")
    /\ runs' = [runs EXCEPT ![RunOf(c)].status = "cancelled"]
    /\ Return(c)
    /\ UNCHANGED <<sets, results, policy, snapshot, consumer, place, history>>

-----------------------------------------------------------------------------
(* The rest of the store's users: the policy is edited, and a consumer     *)
(* uploads a tree (append, a compare-and-set on the current version).      *)

SetPolicy(p) ==
    /\ policy # p /\ policy' = p
    /\ UNCHANGED <<runs, sets, results, snapshot, consumer, place, calls, history>>

AppendTree ==
    /\ CurrentVersion < MaxVersion
    /\ snapshot' = CurrentVersion + 1
    /\ UNCHANGED <<runs, sets, results, policy, consumer, place, calls, history>>

StartSteps(c) ==
    \/ BeginPlanning(c) \/ Planned(c) \/ BeginGenerating(c) \/ ReadBase(c) \/ Generated(c)
    \/ BeginValidating(c) \/ CheckDraft(c) \/ Analysed(c) \/ SaveSet(c) \/ ListSet(c)
    \/ Decide(c) \/ AwaitApproval(c)

ApproveSteps(c) ==
    LoadSet(c) \/ Recheck(c) \/ CheckBase(c) \/ MarkStale(c) \/ ClaimApproved(c)

ApplySteps(c) ==
    \/ BeginApplying(c) \/ AskLink(c) \/ MarkApplying(c) \/ Deliver(c)
    \/ \E outcome \in {"all", "some", "none"} : Answered(c, outcome)
    \/ NoAnswer(c) \/ RecordResult(c) \/ RecordVersion(c) \/ Conclude(c)
    \/ BeginTesting(c) \/ Tested(c) \/ Finish(c) \/ Succeed(c)

EndSteps(c) ==
    \/ FailStage(c) \/ FailStatus(c) \/ ReadRefused(c) \/ RefuseSet(c)
    \/ CancelStage(c) \/ CancelStatus(c)

NewCall(c) ==
    \E r \in Runs :
        \/ Start(c, r) \/ Reject(c, r) \/ Cancel(c, r)
        \/ \E confirm \in BOOLEAN : Approve(c, r, confirm)

Next ==
    \/ \E c \in Calls :
          NewCall(c) \/ StartSteps(c) \/ ApproveSteps(c) \/ ApplySteps(c) \/ EndSteps(c)
    \/ \E p \in Policies : SetPolicy(p)
    \/ AppendTree

Spec == Init /\ [][Next]_vars

-----------------------------------------------------------------------------
(* Properties.                                                             *)

(* What the pipeline promises its consumers is the abstract specification. *)
Promise == INSTANCE AtMostOnce WITH
    Sets <- Runs,
    proposed <- {r \in Runs : sets[r].status # "none"},
    open <- {r \in Runs : sets[r].status = "validated"},
    claims <- claims,
    deliveries <- delivered

(* However start, approve, reject and cancel overlap, a ChangeSet is       *)
(* claimed at most once and delivered at most once, after it was claimed   *)
(* (setStatus as compare-and-set in #validate, approve and #apply).        *)
DeliveredAtMostOnce == Promise!Spec

(* Every path the operations name, and whether the one lies beneath the    *)
(* other or is it.                                                         *)
Named(ops) == (UNION {{ops[i].path, ops[i].to} \cup ops[i].refs : i \in DOMAIN ops}) \ {<<>>}
Beneath(p, q) == \E n \in 0..Len(p) : SubSeq(p, 1, n) = q

Vetted(ops, luau, basis) ==
    /\ luau # "fail"
    /\ \A p \in Named(ops) : \E q \in basis.policy.prefixes : Beneath(p, q)
    /\ basis.by = "auto" =>
          /\ \A p \in Named(ops) : Beneath(p, basis.policy.autoApply)
          /\ \A i \in DOMAIN ops : ops[i].op # "deleteInstance"
          /\ (\E i \in DOMAIN ops : ops[i].source = "text") => HasSandbox
    /\ (/\ basis.by = "human"
        /\ Cardinality({i \in DOMAIN ops : ops[i].op = "deleteInstance"}) > BulkDeleteThreshold)
          => basis.confirmed

(* Nothing reaches a consumer that the gates did not clear, judged by what *)
(* the set does rather than by the check's answer.  Without a person       *)
(* (decideAutoApply) every path it names is beneath the automatic prefix   *)
(* and beneath an allowed one, nothing is deleted and all Luau was         *)
(* analysed; with one (approve) the policy read at the approval covers     *)
(* every path and a bulk deletion was confirmed.                           *)
OnlyVettedIsDelivered ==
    \A r \in Runs : delivered[r] > 0 => Vetted(sets[r].ops, sets[r].luau, claimedAs[r])

(* A status that says what happened in the place is backed by a stored     *)
(* result that says the same; no answer is never read as a failed apply    *)
(* (the timeout branch of #apply).                                         *)
StatusIsEvidence ==
    \A r \in Runs :
        /\ sets[r].status = "applied" => results[r] = "all"
        /\ sets[r].status = "partial" => results[r] = "some"
        /\ sets[r].status = "failed" => results[r] = "none"

(* A run is stored as succeeded only when its set was delivered and        *)
(* applied in full, whatever other calls wrote to the run meanwhile.       *)
SucceededMeansApplied ==
    \A r \in Runs : runs[r].status = "succeeded" => delivered[r] = 1 /\ results[r] = "all"

(* When no call is at work on a run, its stored stage is one somebody can  *)
(* act on or an end; the exception is a run whose approval ended by an     *)
(* exception of the transport or the sandbox.                              *)
NoRunIsStranded ==
    \A r \in Runs \ thrown :
        \/ \E c \in Calls : ~At(c, "idle") /\ RunOf(c) = r
        \/ runs[r].stage \in {"none", "awaiting-approval", "done", "failed", "cancelled"}

(* What is stored about a run and its set can be relied on by whoever      *)
(* looks next, whatever calls overlapped: the three above together.        *)
RecordsAreTrue == StatusIsEvidence /\ SucceededMeansApplied /\ NoRunIsStranded
=============================================================================
