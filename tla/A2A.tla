-------------------------------- MODULE A2A ---------------------------------
(***************************************************************************)
(* The A2A connector (packages/a2a): tasks opened by an agent's messages,  *)
(* executed against the daemon, gated by an operator's grants when they    *)
(* write, canceled, evicted and listed page by page, and lost with the     *)
(* process when an execution meets a transition the task store refuses.    *)
(*                                                                         *)
(* execute() waits only for the daemon: asking the gate and every change   *)
(* of a task's state happen in the step that leads to or from that wait.   *)
(***************************************************************************)
EXTENDS Naturals, Sequences, SequencesExt, FiniteSets

CONSTANTS
    Subjects,     \* ChangeSets and journals a writing skill may name
    MaxCreated,   \* bound: tasks created
    MaxTasks,     \* TaskStoreOptions.maxTasks
    PageSize,     \* tasks per page of ListTasks
    MaxGrants     \* bound: grants recorded for one subject

ASSUME A2ABounds == {MaxTasks, MaxCreated, PageSize, MaxGrants} \subseteq Nat \ {0}

VARIABLES
    tasks,        \* <<[id, state]>>, in the order of creation
    nextSeq,      \* #sequence: of the last task this process created, its id
    execs,        \* executions waiting for the daemon: {[task, subject]}
    grants,       \* subjects with a recorded, unused grant
    recorded,     \* history: subject |-> grants recorded and not revoked
    dispatched,   \* history: subject |-> writes the daemon was asked for
    pager         \* a client paging through the tasks, or NoPager

a2aVars == <<tasks, nextSeq, execs, grants, recorded, dispatched, pager>>

TaskIds == 1 .. MaxCreated
Read == "read"   \* the subject of the skills that do not write
NoPager == [on |-> FALSE]
Terminal == {"completed", "failed", "canceled", "rejected"}

(* LEGAL_TASK_TRANSITIONS *)
Legal(from, to) ==
    \/ from = "submitted" /\ to \in {"working", "rejected", "canceled"}
    \/ from = "working" /\ to \in Terminal \cup {"authRequired"}
    \/ from = "authRequired" /\ to \in {"working", "canceled"}

A2AInit ==
    /\ tasks = <<>> /\ nextSeq = 0
    /\ execs = {}
    /\ grants = {}
    /\ recorded = [s \in Subjects |-> 0]
    /\ dispatched = [s \in Subjects |-> 0]
    /\ pager = NoPager

-----------------------------------------------------------------------------
Known(t) == \E i \in DOMAIN tasks : tasks[i].id = t
TaskOf(t) == tasks[CHOOSE i \in DOMAIN tasks : tasks[i].id = t]

RemoveFrom(list, gone) ==
    LET kept == SetToSortSeq(DOMAIN list \ gone, LAMBDA a, b : a < b)
    IN  [i \in DOMAIN kept |-> list[kept[i]]]

(* transition(): the task's state if the move is legal, as it was if not.  *)
Moved(list, t, to) ==
    [i \in DOMAIN list |->
        IF list[i].id = t /\ Legal(list[i].state, to)
        THEN [list[i] EXCEPT !.state = to] ELSE list[i]]

(* #evict: beyond the cap the oldest terminal tasks go, and only those. *)
Evicted(list) ==
    LET ended == {i \in DOMAIN list : list[i].state \in Terminal}
        gone == {i \in ended : Cardinality({k \in ended : k < i}) < Len(list) - MaxTasks}
    IN  RemoveFrom(list, gone)

(* #dispatch: a writing skill takes its grant from the gate, or stops for  *)
(* want of one; then each skill asks the daemon one thing.                 *)
GateKeepsGrant(s) == grants
GateConsumes(s) == grants \ {s}
AwaitsApproval(s) == s # Read /\ s \notin grants
Dispatches(t, s) ==
    /\ execs' = execs \cup {[task |-> t, subject |-> s]}
    /\ IF s = Read THEN UNCHANGED <<grants, dispatched>>
       ELSE /\ grants' = GateConsumes(s)
            /\ dispatched' = [dispatched EXCEPT ![s] = @ + 1]

(* execute(): to WORKING, and then the skill. *)
Executes(list, t, s) ==
    IF AwaitsApproval(s)
    THEN /\ tasks' = Moved(Moved(list, t, "working"), t, "authRequired")
         /\ UNCHANGED <<execs, grants, dispatched>>
    ELSE tasks' = Moved(list, t, "working") /\ Dispatches(t, s)

(* A transition that is refused outside the try of execute(), or inside    *)
(* its catch, rejects the promise #track holds; what finally() derives     *)
(* from it has no handler, so the rejection ends the process.  The tasks,  *)
(* their executions and the grants were in its memory.  The next process   *)
(* counts from 0 and mints new ids: none of them is one a client saw, but  *)
(* a client that was paging still has its token.                           *)
ProcessEnds ==
    /\ tasks' = <<>> /\ nextSeq' = 0
    /\ execs' = {}
    /\ grants' = {}
    /\ pager' = IF pager.on THEN [pager EXCEPT !.first = {}, !.seen = <<>>] ELSE pager
    /\ UNCHANGED dispatched

(* SendMessage without a task id: create() and then the invocation, or a   *)
(* rejection when the message names no skill.                              *)
Created(t) ==
    Evicted(Append(tasks, [id |-> t, state |-> "submitted"]))
SendNew(s) ==
    /\ nextSeq < MaxCreated
    /\ nextSeq' = nextSeq + 1
    /\ Executes(Created(nextSeq'), nextSeq', s)
    /\ UNCHANGED <<recorded, pager>>

SendNewInvalid ==
    /\ nextSeq < MaxCreated
    /\ nextSeq' = nextSeq + 1
    /\ tasks' = Moved(Created(nextSeq'), nextSeq', "rejected")
    /\ UNCHANGED <<execs, grants, recorded, dispatched, pager>>

(* SendMessage to a task that has not ended: execute() refuses one that is *)
(* working already.  The rejection of a message that names no skill is     *)
(* legal for a working task; for one that waits for approval it throws in  *)
(* the request, which is answered with the error.                          *)
SendMore(t, s) ==
    /\ Known(t) /\ TaskOf(t).state \notin Terminal
    /\ IF Legal(TaskOf(t).state, "working")
       THEN Executes(tasks, t, s) /\ UNCHANGED <<nextSeq, pager>>
       ELSE ProcessEnds
    /\ UNCHANGED recorded

SendMoreInvalid(t) ==
    /\ Known(t) /\ TaskOf(t).state \notin Terminal
    /\ tasks' = Moved(tasks, t, "rejected")
    /\ UNCHANGED <<nextSeq, execs, grants, recorded, dispatched, pager>>

(* The end of an execution.  If the task has ended meanwhile, or is gone,  *)
(* the transition throws, and so does the one the catch block tries.       *)
Settles(x, state) ==
    /\ x \in execs
    /\ IF Known(x.task) /\ Legal(TaskOf(x.task).state, state)
       THEN /\ execs' = execs \ {x}
            /\ tasks' = Moved(tasks, x.task, state)
            /\ UNCHANGED <<nextSeq, grants, dispatched, pager>>
       ELSE ProcessEnds
    /\ UNCHANGED recorded

DaemonAnswered(x) == Settles(x, "completed")

(* The daemon refused, could not be reached, or sent its headers after the *)
(* timeout: renderFailure picks one of the two failing states.             *)
FailureStates == {"failed", "rejected"}
DaemonUnanswered(x, state) == Settles(x, state)

(* CancelTask: the task ends; its execution goes on, and ends the process  *)
(* when the daemon answers.                                                *)
CancelTask(t) ==
    /\ Known(t) /\ TaskOf(t).state \notin Terminal
    /\ tasks' = Moved(tasks, t, "canceled")
    /\ UNCHANGED <<nextSeq, execs, grants, recorded, dispatched, pager>>

(* LocalOperatorApprovalGate.record: a second grant replaces the first. *)
RecordGrant(s) ==
    /\ recorded[s] < MaxGrants
    /\ grants' = grants \cup {s}
    /\ recorded' = [recorded EXCEPT ![s] = @ + 1]
    /\ UNCHANGED <<tasks, nextSeq, execs, dispatched, pager>>

RevokeGrant(s) ==
    /\ s \in grants
    /\ grants' = grants \ {s}
    /\ recorded' = [recorded EXCEPT ![s] = @ - 1]
    /\ UNCHANGED <<tasks, nextSeq, execs, dispatched, pager>>

-----------------------------------------------------------------------------
(* ListTasks, page after page, by a client that follows nextPageToken. *)
StartPaging ==
    /\ ~pager.on
    /\ pager' = [on |-> TRUE, after |-> 0, seen |-> <<>>,
                 first |-> {tasks[i].id : i \in DOMAIN tasks}, done |-> FALSE]
    /\ UNCHANGED <<tasks, nextSeq, execs, grants, recorded, dispatched>>

(* list(): the page after the token, and the token of its last task if the *)
(* list goes on after it.                                                  *)
Page(after) ==
    LET rest == SelectSeq(tasks, LAMBDA r : r.id > after)
    IN  SubSeq(rest, 1, IF Len(rest) < PageSize THEN Len(rest) ELSE PageSize)
TokenAfter(page, after) == IF page = <<>> THEN after ELSE page[Len(page)].id
ListPage ==
    LET page == Page(pager.after)
        last == TokenAfter(page, pager.after)
        more == page # <<>> /\ \E i \in DOMAIN tasks : tasks[i].id > last
    IN  /\ pager.on /\ ~pager.done
        /\ pager' = [pager EXCEPT !.after = last, !.done = ~more,
                         !.seen = @ \o [i \in DOMAIN page |-> page[i].id]]
        /\ UNCHANGED <<tasks, nextSeq, execs, grants, recorded, dispatched>>

A2ANext ==
    \/ \E s \in Subjects \cup {Read} :
          SendNew(s) \/ \E t \in TaskIds : SendMore(t, s)
    \/ SendNewInvalid
    \/ \E t \in TaskIds : SendMoreInvalid(t) \/ CancelTask(t)
    \/ \E x \in execs : \/ DaemonAnswered(x)
                        \/ \E st \in FailureStates : DaemonUnanswered(x, st)
    \/ \E s \in Subjects : RecordGrant(s) \/ RevokeGrant(s)
    \/ StartPaging
    \/ ListPage

A2ASpec == A2AInit /\ [][A2ANext]_a2aVars

-----------------------------------------------------------------------------
(* A task that says it is working has exactly one execution in flight:     *)
(* neither a second message, nor a late answer, nor a cancel breaks that.  *)
WorkingIsBeingWorkedOn ==
    \A i \in DOMAIN tasks : tasks[i].state = "working" =>
        Cardinality({x \in execs : x.task = tasks[i].id}) = 1

(* An execution whose task was canceled, rejected or forgotten while the   *)
(* daemon was asked: its end is the end of the process.                    *)
Outlived(x) == ~Known(x.task) \/ TaskOf(x.task).state \in Terminal

(* What a step may do to the tasks: one that has ended keeps its state and *)
(* is the only kind that eviction forgets.  All are lost at once, with     *)
(* every unused grant, when the process ends, and it ends only for an      *)
(* execution that outlived its task or in a message to a working one: a    *)
(* client that neither cancels nor addresses a task while it works loses   *)
(* none.                                                                   *)
EndedStaysEnded ==
    \/ \A t \in TaskIds : Known(t) =>
          IF \E i \in DOMAIN tasks' : tasks'[i].id = t
          THEN TaskOf(t).state \in Terminal => TaskOf(t)'.state = TaskOf(t).state
          ELSE TaskOf(t).state \in Terminal
    \/ /\ tasks' = <<>> /\ execs' = {} /\ grants' = {}
       /\ \/ \E x \in execs : Outlived(x)
          \/ \E i \in DOMAIN tasks : tasks[i].state = "working"

(* Each write asked of the daemon used up a grant of its own: tasks that   *)
(* race for one grant, and tasks sent again, never share it.               *)
WritesAreGranted ==
    \A s \in Subjects :
        dispatched[s] + (IF s \in grants THEN 1 ELSE 0) <= recorded[s]

(* A client that pages to the end has met every task that was there when   *)
(* it began and is there still, and none twice, whatever is created or     *)
(* evicted in between and though the process may have ended: a token of    *)
(* the old process makes it skip tasks of the new one, but none of those   *)
(* was there when it began.                                                *)
PagingMissesNone ==
    pager.on =>
        /\ IsInjective(pager.seen)
        /\ pager.done => \A t \in pager.first :
              Known(t) => Contains(pager.seen, t)

(* What an agent is told of its tasks is true and what it has done was     *)
(* granted: the four above together (transition, consume, list), through   *)
(* the ends of the process that #track leaves possible.                    *)
TasksAreSound ==
    [][/\ (WorkingIsBeingWorkedOn /\ WritesAreGranted /\ PagingMissesNone)'
       /\ EndedStaysEnded]_a2aVars
=============================================================================
