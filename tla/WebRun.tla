------------------------------- MODULE WebRun -------------------------------
(***************************************************************************)
(* The web application's generate page and its project records             *)
(* (generate-surface.tsx, run-state.ts, run-frames.ts, diff-model.ts,      *)
(* lib/daemon/client.ts, lib/projects).                                    *)
(*                                                                         *)
(* The page has one run on screen, and callbacks that come back later:     *)
(* frames of a stream, the end of a stream that was stopped, a diff, the   *)
(* answer to an approval.  Nothing ties them to the run that is on screen  *)
(* by then except what the page does about it.  A project record is read   *)
(* and written back in separate steps, by whoever observes a version or    *)
(* changes its name.                                                       *)
(***************************************************************************)
EXTENDS Integers, FiniteSets, Sequences

CONSTANTS
    WebProjects,      \* the projects of this browser
    DiffShapes,       \* what a diff may contain: [ops, stale, verdict]
    MaxWebRuns, MaxTried, MaxSeen, MaxWrites   \* bounds: runs, attempts of a
                      \* run, versions of a project, writes to its record

ASSUME WebRunAssumption ==
    /\ MaxWebRuns \in Nat
    /\ \A shape \in DiffShapes : Len(shape.ops) \in Nat

VARIABLES
    corner,      \* what a behaviour is about: "page" or "records"
    view,        \* the run on screen as reduceRun keeps it, or NoView
    onScreen,       \* history: the run that was last started, 0 after a reset
    running,     \* the page's flags and what it fetched
    abortOf,     \* the run whose controller the page holds, 0: none
    streams,     \* run |-> its stream and what the daemon sent on it
    diff, fetching, loading,
    approving, approvalsOut, decision,
    chosen,      \* the project chosen in the composer
    approved,    \* history: the diffs whose approval was sent
    hurried,     \* history: a run was started before an earlier one's
                 \* callbacks had all come back
    records,     \* project |-> [version, observed, name]
    jobs,        \* writes to records under way
    writes,      \* how many have been begun
    treeVersion,        \* project |-> its version at the daemon
    crossed      \* history: two writes were under way at once

pageVars == <<view, onScreen, running, abortOf, streams, diff, fetching, loading, approving,
              approvalsOut, decision, chosen, approved, hurried>>
recordVars == <<records, jobs, writes, treeVersion, crossed>>
webRunVars == <<corner, pageVars, recordVars>>

WebRuns == 1..MaxWebRuns
NoView == [runId |-> -1]
InitialRunView ==
    [runId |-> 0, status |-> "running", attempts |-> 0, set |-> 0, finished |-> FALSE, unknown |-> 0]
NoDiff == [set |-> 0]
Undecided == [kind |-> "none", set |-> 0]
NotOpened == [state |-> "none", aborted |-> FALSE, made |-> 0, set |-> FALSE, ended |-> "no"]

WebRunInit ==
    /\ corner \in {"page", "records"}
    /\ view = NoView /\ onScreen = 0 /\ running = FALSE /\ abortOf = 0
    /\ streams = [r \in WebRuns |-> NotOpened]
    /\ diff = NoDiff /\ fetching = 0 /\ loading = FALSE
    /\ approving = FALSE /\ approvalsOut = {} /\ decision = Undecided
    /\ chosen = CHOOSE p \in WebProjects : TRUE
    /\ approved = {} /\ hurried = FALSE
    /\ records = [p \in WebProjects |-> [version |-> 0, observed |-> FALSE, name |-> 0]]
    /\ jobs = {} /\ writes = 0 /\ treeVersion = [p \in WebProjects |-> 1] /\ crossed = FALSE

-----------------------------------------------------------------------------
(* The run on screen *)

(* classifyFrame by the shape of a payload, then reduceRun.  The settled   *)
(* response replaces the attempts unless it has fewer.                     *)
ReduceRun(v, frame) ==
    CASE frame.kind = "refused" -> [v EXCEPT !.finished = TRUE, !.status = "failed"]
      [] frame.kind = "unrecognised" -> [v EXCEPT !.unknown = @ + 1]
      [] frame.kind = "run" ->
            [v EXCEPT !.runId = frame.run, !.status = frame.status,
                      !.attempts = IF frame.attempts >= @ THEN frame.attempts ELSE @,
                      !.set = IF frame.set # 0 THEN frame.set ELSE @,
                      !.finished = frame.status # "running"]
      [] frame.kind = "model-attempt" -> [v EXCEPT !.attempts = @ + 1]
      [] frame.kind = "change-set" -> [v EXCEPT !.set = frame.set]
      [] frame.kind = "failed" -> [v EXCEPT !.status = "failed"]

Shown(frame) == ReduceRun(IF view = NoView THEN InitialRunView ELSE view, frame)

(* The diff effect: when the settled set or the project changes, the fetch *)
(* under way is aborted, which leaves the loading flag as it is, and a     *)
(* settled set is asked for.                                               *)
EffectKeepsFetch(newView, newChosen) ==
    /\ fetching' = IF newView # NoView /\ newView.finished /\ newView.set # 0 THEN newView.set ELSE fetching
    /\ loading' = loading
DiffEffect(newView, newChosen) ==
    LET Wanted(v) == IF v # NoView /\ v.finished THEN v.set ELSE 0
    IN IF Wanted(newView) = Wanted(view) /\ newChosen = chosen
       THEN UNCHANGED <<fetching, loading>>
       ELSE /\ fetching' = Wanted(newView)
            /\ loading' = (loading \/ Wanted(newView) # 0)

SetsView(v) == view' = v /\ DiffEffect(v, chosen)

(* A stopped stream's read fails a moment later, an approval is answered   *)
(* when it is answered.                                                    *)
ComingBack == {r \in WebRuns : streams[r].state = "open"} # {} \/ approvalsOut # {}

Start ==
    /\ ~running
    /\ \E r \in WebRuns :
        /\ streams[r] = NotOpened /\ \A q \in WebRuns : q < r => streams[q] # NotOpened
        /\ streams' = [streams EXCEPT ![r].state = "open"]
        /\ onScreen' = r /\ abortOf' = r
    /\ SetsView(InitialRunView)
    /\ running' = TRUE /\ diff' = NoDiff /\ decision' = Undecided
    /\ hurried' = (hurried \/ ComingBack)
    /\ UNCHANGED <<approving, approvalsOut, chosen, approved>>

(* A frame of a stream that has not been stopped. *)
Arrives(r, frame) ==
    /\ streams[r].state = "open" /\ ~streams[r].aborted /\ streams[r].ended = "no"
    /\ SetsView(Shown(frame))
    /\ UNCHANGED <<onScreen, running, abortOf, diff, approving, approvalsOut, decision, chosen,
                   approved, hurried>>

AttemptArrives(r, understood) ==
    /\ streams[r].made < MaxTried /\ ~streams[r].set
    /\ streams' = [streams EXCEPT ![r].made = @ + 1]
    /\ Arrives(r, [kind |-> IF understood THEN "model-attempt" ELSE "unrecognised"])
ChangeSetArrives(r) ==
    /\ streams[r].made > 0 /\ ~streams[r].set
    /\ streams' = [streams EXCEPT ![r].set = TRUE]
    /\ Arrives(r, [kind |-> "change-set", set |-> r])
SettledRunArrives(r, status) ==
    /\ status = "done" <=> streams[r].set
    /\ streams' = [streams EXCEPT ![r].ended = status]
    /\ Arrives(r, [kind |-> "run", run |-> r, status |-> status, attempts |-> streams[r].made,
                   set |-> IF streams[r].set THEN r ELSE 0])

(* Whether the stream ends, fails or was stopped, the page's flag falls.   *)
StreamOver(r) ==
    /\ streams' = [streams EXCEPT ![r].state = "over"]
    /\ abortOf' = IF abortOf = r THEN 0 ELSE abortOf
    /\ running' = FALSE
    /\ UNCHANGED <<onScreen, diff, approving, approvalsOut, decision, chosen, approved, hurried>>

StreamCloses(r) ==
    /\ streams[r].state = "open"
    /\ StreamOver(r)
    /\ UNCHANGED <<view, fetching, loading>>
StreamBreaks(r) ==
    /\ streams[r].state = "open" /\ ~streams[r].aborted /\ streams[r].ended = "no"
    /\ StreamOver(r)
    /\ SetsView(Shown([kind |-> "refused"]))

Cancel ==
    /\ running
    /\ streams' = IF abortOf = 0 THEN streams ELSE [streams EXCEPT ![abortOf].aborted = TRUE]
    /\ running' = FALSE
    /\ UNCHANGED <<view, onScreen, abortOf, diff, fetching, loading, approving, approvalsOut,
                   decision, chosen, approved, hurried>>

Reset ==
    /\ view # NoView /\ view.finished /\ ~running
    /\ SetsView(NoView) /\ onScreen' = 0
    /\ diff' = NoDiff /\ decision' = Undecided
    /\ UNCHANGED <<running, abortOf, streams, approving, approvalsOut, chosen, approved, hurried>>

ChoosesProject(p) ==
    /\ ~running /\ chosen # p
    /\ chosen' = p /\ DiffEffect(view, p)
    /\ UNCHANGED <<view, onScreen, running, abortOf, streams, diff, approving, approvalsOut,
                   decision, approved, hurried>>

-----------------------------------------------------------------------------
(* The diff.  The daemon renders an operation; the page works out what it  *)
(* does from the rendering.                                                *)

CarriesLuau(op) ==
    \/ op.op = "writeScript"
    \/ op.op = "createInstance" /\ op.source # "none"
    \/ op.op = "setProperty" /\ op.property = "Source"

(* describeOperation and the diff: raw source for a script, the source of  *)
(* a bag that has a readable one, the value as JSON for a property.        *)
Rendered(op) ==
    [op |-> op.op, property |-> op.property,
     after |-> CASE op.op = "writeScript" -> "source"
                 [] op.op = "createInstance" /\ op.source = "text" -> "source"
                 [] op.op = "setProperty" ->
                      IF op.source = "text" THEN "string as json" ELSE "other as json"
                 [] OTHER -> "none",
     unreadable |-> op.op = "createInstance" /\ op.source = "other"]

ContentOf(d) ==
    CASE d.op = "writeScript" -> IF d.after = "none" THEN "unreadable" ELSE "luau"
      [] d.op = "createInstance" ->
            IF d.after # "none" THEN "luau" ELSE IF d.unreadable THEN "unreadable" ELSE "none"
      [] d.op = "setProperty" ->
            IF d.property # "Source" THEN "value"
            ELSE IF d.after = "string as json" THEN "luau" ELSE "unreadable"
      [] OTHER -> IF d.after = "none" THEN "none" ELSE "value"

UndisclosedScripts(shape) ==
    LET counted == Cardinality({i \in 1..Len(shape.ops) : CarriesLuau(shape.ops[i])})
        displayed == Cardinality({i \in 1..Len(shape.ops) : ContentOf(Rendered(shape.ops[i])) = "luau"})
    IN IF counted > displayed THEN counted - displayed ELSE 0

Blocked(shape) == shape.verdict = "fail" \/ shape.stale \/ UndisclosedScripts(shape) > 0

(* The diff is put on screen, or why there is none. *)
DiffAnswers(shape) ==
    /\ fetching # 0
    /\ diff' = [set |-> fetching, shape |-> shape]
    /\ fetching' = 0 /\ loading' = FALSE
    /\ UNCHANGED <<view, onScreen, running, abortOf, streams, approving, approvalsOut, decision,
                   chosen, approved, hurried>>
DiffFails ==
    /\ fetching # 0
    /\ fetching' = 0 /\ loading' = FALSE
    /\ UNCHANGED <<view, onScreen, running, abortOf, streams, diff, approving, approvalsOut,
                   decision, chosen, approved, hurried>>

(* The footer offers no decision once one is shown. *)
Decidable == diff # NoDiff /\ ~approving /\ decision.kind \in {"none", "error"}
Approve ==
    /\ Decidable /\ ~Blocked(diff.shape)
    /\ approving' = TRUE /\ decision' = Undecided
    /\ approvalsOut' = approvalsOut \cup {diff.set}
    /\ approved' = approved \cup {diff}
    /\ UNCHANGED <<view, onScreen, running, abortOf, streams, diff, fetching, loading, chosen, hurried>>
ApprovalAnswered(s, kind) ==
    /\ s \in approvalsOut
    /\ approvalsOut' = approvalsOut \ {s}
    /\ approving' = FALSE /\ decision' = [kind |-> kind, set |-> s]
    /\ UNCHANGED <<view, onScreen, running, abortOf, streams, diff, fetching, loading, chosen,
                   approved, hurried>>
Reject ==
    /\ Decidable
    /\ decision' = [kind |-> "rejected", set |-> diff.set]
    /\ UNCHANGED <<view, onScreen, running, abortOf, streams, diff, fetching, loading, approving,
                   approvalsOut, chosen, approved, hurried>>

-----------------------------------------------------------------------------
(* Project records *)

Begins(job) ==
    /\ writes < MaxWrites
    /\ writes' = writes + 1
    /\ jobs' = jobs \cup {job}
    /\ crossed' = (crossed \/ jobs # {})
    /\ UNCHANGED <<records, treeVersion>>
ObserveBegins(p, version) ==
    Begins([id |-> writes, kind |-> "observe", at |-> "get", project |-> p, value |-> version,
            seen |-> records[p]])
UpdateBegins(p, name) ==
    Begins([id |-> writes, kind |-> "rename", at |-> "update", project |-> p, value |-> name,
            seen |-> records[p]])

(* observeVersion reads the record and stops if it is told nothing newer.  *)
NothingNewer(job) == job.value <= records[job.project].version /\ records[job.project].observed
ObserveReads(job) ==
    /\ job \in jobs /\ job.at = "get"
    /\ jobs' = (jobs \ {job}) \cup
                  (IF NothingNewer(job) THEN {} ELSE {[job EXCEPT !.at = "update"]})
    /\ UNCHANGED <<records, writes, treeVersion, crossed>>
(* update reads it again and writes it back with the patch. *)
UpdateReads(job) ==
    /\ job \in jobs /\ job.at = "update"
    /\ jobs' = (jobs \ {job}) \cup {[job EXCEPT !.at = "put", !.seen = records[job.project]]}
    /\ UNCHANGED <<records, writes, treeVersion, crossed>>
Patched(job) ==
    IF job.kind = "rename" THEN [job.seen EXCEPT !.name = job.value]
    ELSE [job.seen EXCEPT !.version = job.value, !.observed = TRUE]
UpdateWrites(job) ==
    /\ job \in jobs /\ job.at = "put"
    /\ records' = [records EXCEPT ![job.project] = Patched(job)]
    /\ jobs' = jobs \ {job}
    /\ UNCHANGED <<writes, treeVersion, crossed>>
TreeMoves(p) ==
    /\ treeVersion[p] < MaxSeen
    /\ treeVersion' = [treeVersion EXCEPT ![p] = @ + 1]
    /\ UNCHANGED <<records, jobs, writes, crossed>>

PageNext ==
    \/ Start \/ Cancel \/ Reset \/ DiffFails \/ Approve \/ Reject
    \/ \E r \in WebRuns :
        \/ \E understood \in BOOLEAN : AttemptArrives(r, understood)
        \/ ChangeSetArrives(r)
        \/ \E status \in {"done", "failed"} : SettledRunArrives(r, status)
        \/ StreamCloses(r)
        \/ StreamBreaks(r)
        \/ \E kind \in {"approved", "error"} : ApprovalAnswered(r, kind)
    \/ \E p \in WebProjects : ChoosesProject(p)
    \/ \E shape \in DiffShapes : DiffAnswers(shape)

RecordsNext ==
    \/ \E p \in WebProjects :
        \/ \E v \in 1..treeVersion[p] : ObserveBegins(p, v)
        \/ UpdateBegins(p, writes + 1)
        \/ TreeMoves(p)
    \/ \E job \in jobs : ObserveReads(job) \/ UpdateReads(job) \/ UpdateWrites(job)

WebRunNext ==
    /\ \/ corner = "page" /\ PageNext /\ UNCHANGED recordVars
       \/ corner = "records" /\ RecordsNext /\ UNCHANGED pageVars
    /\ UNCHANGED corner

WebRunSpec == WebRunInit /\ [][WebRunNext]_webRunVars

-----------------------------------------------------------------------------
(* The diff on screen is of the run on screen, whatever was stopped, reset *)
(* or answered late.                                                       *)
DiffIsOfTheRun == ~hurried /\ diff # NoDiff => view # NoView /\ onScreen = diff.set /\ view.set = diff.set

(* A decision on screen is about the diff on screen, if the page was left  *)
(* to itself until every callback had come back.                           *)
DecisionIsOfTheDiff == ~hurried /\ decision # Undecided /\ diff # NoDiff => decision.set = diff.set

(* The log never has more attempts than the router made, misses only those *)
(* whose frames were not understood, and none once the run has settled;    *)
(* the page says a run is under way exactly when its stream is read.       *)
LogIsComplete ==
    ~hurried =>
        /\ running <=> \E r \in WebRuns : streams[r].state = "open" /\ ~streams[r].aborted
        /\ onScreen # 0 /\ view # NoView =>
             /\ view.attempts <= streams[onScreen].made
             /\ view.attempts + view.unknown >= streams[onScreen].made
             /\ streams[onScreen].ended # "no" =>
                  view.attempts = streams[onScreen].made /\ view.status = streams[onScreen].ended

(* Only what was shown whole is approved: every script of the set appeared *)
(* as code, and its verdict was no failure.                                *)
OnlyDisclosedIsApproved ==
    \A d \in approved :
        /\ \A i \in 1..Len(d.shape.ops) :
             CarriesLuau(d.shape.ops[i]) <=> ContentOf(Rendered(d.shape.ops[i])) = "luau"
        /\ d.shape.verdict # "fail" /\ ~d.shape.stale

(* Writes that take turns lose nothing: a recorded version never falls and *)
(* the newest name stands.                                                 *)
TurnsKeepRecords ==
    ~crossed => \A p \in WebProjects, job \in jobs :
        job.project = p /\ job.at = "put" =>
            /\ Patched(job).version >= records[p].version
            /\ job.kind = "observe" => Patched(job).name = records[p].name

(* What the page shows and what it sends follow from one run, whichever    *)
(* callbacks are late; the records survive writers that take turns.        *)
PageIsHonest ==
    /\ DiffIsOfTheRun
    /\ DecisionIsOfTheDiff
    /\ LogIsComplete
    /\ OnlyDisclosedIsApproved
    /\ TurnsKeepRecords
=============================================================================
