---------------------------- MODULE SurfaceProofs ----------------------------
(***************************************************************************)
(* Proofs about what a person works with: the web application's generate   *)
(* page and project records, and the two connectors.  Each holds for every *)
(* value of the constants.                                                 *)
(***************************************************************************)
EXTENDS WebRun, Connectors, FiniteSetTheorems, TLAPS

-----------------------------------------------------------------------------
(* The generate page *)

View == [runId : Nat, status : {"running", "done", "failed"}, attempts : Nat,
         set : 0..MaxWebRuns, finished : BOOLEAN, unknown : Nat]
Stream == [state : {"none", "open", "over"}, aborted : BOOLEAN, made : Nat, set : BOOLEAN,
           ended : {"no", "done", "failed"}]
Diff == [set : WebRuns, shape : DiffShapes]

PageTypeOK ==
    /\ view = NoView \/ view \in View
    /\ onScreen \in 0..MaxWebRuns
    /\ running \in BOOLEAN /\ hurried \in BOOLEAN
    /\ abortOf \in 0..MaxWebRuns
    /\ streams \in [WebRuns -> Stream]
    /\ diff = NoDiff \/ diff \in Diff
    /\ fetching \in 0..MaxWebRuns
    /\ approvalsOut \subseteq WebRuns

(* What was approved was shown, and could be. *)
ApprovedWereOpen == \A d \in approved : d.shape \in DiffShapes /\ ~Blocked(d.shape)

Reading(r) == streams[r].state = "open" /\ ~streams[r].aborted

(* One run's callbacks are awaited at a time, and while its stream is read *)
(* it is the run on screen, whose controller the page holds.               *)
OneRunAtATime ==
    /\ \A r, q \in WebRuns : streams[r].state = "open" /\ streams[q].state = "open" => r = q
    /\ running => \E r \in WebRuns : Reading(r)
    /\ \A r \in WebRuns : Reading(r) =>
          /\ running /\ abortOf = r /\ onScreen = r /\ view # NoView
          /\ streams[r].ended = "no" => ~view.finished

(* What is on screen was told by the stream of the run on screen. *)
ViewIsOfTheRun ==
    view # NoView =>
        /\ onScreen \in WebRuns
        /\ view.set \in {0, onScreen}
        /\ view.attempts <= streams[onScreen].made
        /\ view.attempts + view.unknown >= streams[onScreen].made
        /\ streams[onScreen].ended # "no" =>
              view.attempts = streams[onScreen].made /\ view.status = streams[onScreen].ended

(* A diff is fetched and shown, and a decision made and awaited, for the   *)
(* settled run on screen only.                                             *)
LateAnswersFit ==
    /\ fetching # 0 => view # NoView /\ view.finished /\ view.set = fetching
    /\ diff # NoDiff => view # NoView /\ view.finished /\ view.set = diff.set
    /\ view # NoView => \A s \in approvalsOut : s = onScreen
    /\ view # NoView /\ decision # Undecided => decision.set = onScreen

PageInv ==
    /\ PageTypeOK
    /\ ApprovedWereOpen
    /\ ~hurried => OneRunAtATime /\ ViewIsOfTheRun /\ LateAnswersFit

(* A run's view is told from the absence of one by its id. *)
LEMMA ViewIsNotNoView == NoView \notin View
  BY DEF NoView, View

(* The frames that arrive before a run settles change the view in one      *)
(* place each (reduceRun).                                                 *)
LEMMA ReducedEarly ==
    ASSUME NEW v \in View, NEW s \in WebRuns
    PROVE  /\ ReduceRun(v, [kind |-> "model-attempt"]) = [v EXCEPT !.attempts = @ + 1]
           /\ ReduceRun(v, [kind |-> "unrecognised"]) = [v EXCEPT !.unknown = @ + 1]
           /\ ReduceRun(v, [kind |-> "change-set", set |-> s]) = [v EXCEPT !.set = s]
  BY DEF ReduceRun

(* The frame of a refusal ends the run on screen. *)
LEMMA ReducedRefused ==
    ASSUME NEW v \in View
    PROVE  ReduceRun(v, [kind |-> "refused"]) = [v EXCEPT !.finished = TRUE, !.status = "failed"]
  BY DEF ReduceRun

(* The frame of a settled run replaces what was counted, unless it has     *)
(* counted less.                                                           *)
LEMMA ReducedSettled ==
    ASSUME NEW v \in View, NEW r \in WebRuns, NEW st \in {"done", "failed"}, NEW n \in Nat,
           NEW s \in 0..MaxWebRuns
    PROVE  LET w == ReduceRun(v, [kind |-> "run", run |-> r, status |-> st,
                                  attempts |-> n, set |-> s])
           IN  /\ w \in View
               /\ w.status = st /\ w.unknown = v.unknown /\ w.finished
               /\ w.attempts = IF n >= v.attempts THEN n ELSE v.attempts
               /\ w.set = IF s # 0 THEN s ELSE v.set
<1> DEFINE f == [kind |-> "run", run |-> r, status |-> st, attempts |-> n, set |-> s]
<1>1. ReduceRun(v, f) = [v EXCEPT !.runId = r, !.status = st,
                                  !.attempts = IF n >= @ THEN n ELSE @,
                                  !.set = IF s # 0 THEN s ELSE @,
                                  !.finished = st # "running"]
  BY DEF ReduceRun
<1>2. r \in Nat
  BY WebRunAssumption DEF WebRuns
<1> QED BY <1>1, <1>2 DEF View

(* The diff effect asks for the settled set of the view it was run for,    *)
(* and keeps a fetch under way only if it is that of it.                   *)
LEMMA EffectFits ==
    ASSUME PageTypeOK, NEW v, v = NoView \/ v \in View, NEW p, DiffEffect(v, p)
    PROVE  /\ fetching' \in 0..MaxWebRuns
           /\ (fetching # 0 => view # NoView /\ view.finished /\ view.set = fetching)
                => (fetching' # 0 => v # NoView /\ v.finished /\ v.set = fetching')
<1> DEFINE Wanted(x) == IF x # NoView /\ x.finished THEN x.set ELSE 0
<1>1. \/ Wanted(v) = Wanted(view) /\ fetching' = fetching
      \/ fetching' = Wanted(v)
  BY DEF DiffEffect
<1>2. Wanted(v) \in 0..MaxWebRuns
  BY WebRunAssumption DEF View
<1>3. Wanted(v) # 0 => v # NoView /\ v.finished /\ v.set = Wanted(v)
  OBVIOUS
<1>4. view # NoView /\ view.finished => Wanted(view) = view.set
  OBVIOUS
<1>5. fetching \in 0..MaxWebRuns
  BY DEF PageTypeOK
<1> HIDE DEF Wanted
<1> QED BY <1>1, <1>2, <1>3, <1>4, <1>5

(* A frame of the stream that is read.  Its run is on screen unless        *)
(* somebody hurried.                                                       *)
LEMMA ArrivalKeeps ==
    ASSUME PageInv, NEW r \in WebRuns, NEW frame, NEW w \in View, w = Shown(frame),
           Arrives(r, frame), streams' \in [WebRuns -> Stream],
           \A q \in WebRuns \ {r} : streams'[q] = streams[q],
           streams'[r].state = "open", ~streams'[r].aborted,
           ~hurried =>
              /\ w.set \in {0, r}
              /\ streams'[r].ended = "no" => ~w.finished
              /\ w.attempts <= streams'[r].made
              /\ w.attempts + w.unknown >= streams'[r].made
              /\ streams'[r].ended # "no" =>
                    w.attempts = streams'[r].made /\ w.status = streams'[r].ended
    PROVE  PageInv'
<1>1. /\ view' = w /\ DiffEffect(w, chosen)
      /\ streams[r].state = "open" /\ ~streams[r].aborted /\ streams[r].ended = "no"
      /\ UNCHANGED <<onScreen, running, abortOf, diff, approving, approvalsOut, decision, chosen,
                     approved, hurried>>
  BY DEF Arrives, SetsView
<1>2. w # NoView
  BY ViewIsNotNoView
<1>3. fetching' \in 0..MaxWebRuns
  BY <1>1, EffectFits DEF PageInv
<1>4. PageTypeOK'
  BY <1>1, <1>3 DEF PageInv, PageTypeOK, Diff, WebRuns, NoDiff, View, Stream, NoView
<1>5. ApprovedWereOpen'
  BY <1>1 DEF PageInv, ApprovedWereOpen
<1>6. ASSUME ~hurried' PROVE (OneRunAtATime /\ ViewIsOfTheRun /\ LateAnswersFit)'
  <2>1. ~hurried /\ OneRunAtATime /\ ViewIsOfTheRun /\ LateAnswersFit
    BY <1>1, <1>6 DEF PageInv
  <2>2. onScreen = r /\ view # NoView /\ ~view.finished /\ running /\ abortOf = r
    BY <1>1, <2>1 DEF OneRunAtATime, Reading
  <2>3. fetching = 0 /\ diff = NoDiff
    BY <2>1, <2>2 DEF LateAnswersFit
  <2>4. OneRunAtATime'
    BY <1>1, <1>2, <2>1, <2>2 DEF OneRunAtATime, Reading
  <2>5. ViewIsOfTheRun'
    BY <1>1, <2>1, <2>2 DEF ViewIsOfTheRun
  <2>6. fetching' # 0 => w.finished /\ w.set = fetching'
    BY <1>1, <2>3, EffectFits DEF PageInv
  <2>7. LateAnswersFit'
    BY <1>1, <1>2, <2>1, <2>2, <2>3, <2>6 DEF LateAnswersFit
  <2> QED BY <2>4, <2>5, <2>7
<1> QED BY <1>4, <1>5, <1>6 DEF PageInv

(* What Shown starts from. *)
LEMMA ShownFrom ==
    ASSUME PageTypeOK, NEW frame
    PROVE  \E v \in View : /\ Shown(frame) = ReduceRun(v, frame)
                           /\ view # NoView => v = view
<1>1. InitialRunView \in View
  BY WebRunAssumption DEF InitialRunView, View
<1> QED BY <1>1 DEF Shown, PageTypeOK

(* An attempt of the router, in a frame that is understood or not. *)
LEMMA AttemptKeeps ==
    ASSUME PageInv, NEW r \in WebRuns, NEW understood \in BOOLEAN, AttemptArrives(r, understood)
    PROVE  PageInv'
<1> DEFINE frame == [kind |-> IF understood THEN "model-attempt" ELSE "unrecognised"]
<1>0. PageTypeOK
  BY DEF PageInv
<1>1. /\ streams' = [streams EXCEPT ![r].made = @ + 1]
      /\ Arrives(r, frame)
      /\ streams[r].state = "open" /\ ~streams[r].aborted /\ streams[r].ended = "no"
  BY DEF AttemptArrives, Arrives
<1>2. streams[r] \in Stream
  BY <1>0 DEF PageTypeOK
<1>3. /\ streams' \in [WebRuns -> Stream]
      /\ \A q \in WebRuns \ {r} : streams'[q] = streams[q]
      /\ streams'[r].state = "open" /\ ~streams'[r].aborted /\ streams'[r].ended = "no"
      /\ streams'[r].made = streams[r].made + 1
  BY <1>0, <1>1, <1>2 DEF PageTypeOK, Stream
<1>4. PICK v \in View : Shown(frame) = ReduceRun(v, frame) /\ (view # NoView => v = view)
  BY <1>0, ShownFrom
<1>5. PICK w \in View :
         /\ w = Shown(frame)
         /\ w.set = v.set /\ w.finished = v.finished /\ w.status = v.status
         /\ \/ w.attempts = v.attempts + 1 /\ w.unknown = v.unknown
            \/ w.attempts = v.attempts /\ w.unknown = v.unknown + 1
  <2>1. CASE understood
    <3>1. Shown(frame) = [v EXCEPT !.attempts = @ + 1]
      BY <1>4, <2>1 DEF ReduceRun
    <3> HIDE DEF frame
    <3> QED BY <3>1 DEF View
  <2>2. CASE ~understood
    <3>1. Shown(frame) = [v EXCEPT !.unknown = @ + 1]
      BY <1>4, <2>2 DEF ReduceRun
    <3> HIDE DEF frame
    <3> QED BY <3>1 DEF View
  <2> QED BY <2>1, <2>2
<1>6. ASSUME ~hurried
      PROVE  /\ w.set \in {0, r} /\ ~w.finished
             /\ w.attempts <= streams'[r].made
             /\ w.attempts + w.unknown >= streams'[r].made
  <2>1. onScreen = r /\ view # NoView /\ ~view.finished /\ v = view
    BY <1>1, <1>4, <1>6 DEF PageInv, OneRunAtATime, Reading
  <2>2. /\ v.set \in {0, r} /\ v.attempts <= streams[r].made
        /\ v.attempts + v.unknown >= streams[r].made
    BY <1>6, <2>1 DEF PageInv, ViewIsOfTheRun
  <2>3. /\ v.attempts \in Nat /\ v.unknown \in Nat /\ w.attempts \in Nat /\ w.unknown \in Nat
        /\ streams[r].made \in Nat
    BY <1>2 DEF View, Stream
  <2> QED BY <1>3, <1>5, <2>1, <2>2, <2>3
<1> HIDE DEF frame
<1> QED BY <1>1, <1>3, <1>5, <1>6, ArrivalKeeps

(* The ChangeSet of the run. *)
LEMMA ChangeSetKeeps ==
    ASSUME PageInv, NEW r \in WebRuns, ChangeSetArrives(r)
    PROVE  PageInv'
<1> DEFINE frame == [kind |-> "change-set", set |-> r]
<1>0. PageTypeOK
  BY DEF PageInv
<1>1. /\ streams' = [streams EXCEPT ![r].set = TRUE]
      /\ Arrives(r, frame)
      /\ streams[r].state = "open" /\ ~streams[r].aborted /\ streams[r].ended = "no"
  BY DEF ChangeSetArrives, Arrives
<1>2. streams[r] \in Stream
  BY <1>0 DEF PageTypeOK
<1>3. /\ streams' \in [WebRuns -> Stream]
      /\ \A q \in WebRuns \ {r} : streams'[q] = streams[q]
      /\ streams'[r].state = "open" /\ ~streams'[r].aborted /\ streams'[r].ended = "no"
      /\ streams'[r].made = streams[r].made
  BY <1>0, <1>1, <1>2 DEF PageTypeOK, Stream
<1>4. PICK v \in View : Shown(frame) = ReduceRun(v, frame) /\ (view # NoView => v = view)
  BY <1>0, ShownFrom
<1>5. PICK w \in View :
         /\ w = Shown(frame)
         /\ w.set = r /\ w.finished = v.finished
         /\ w.attempts = v.attempts /\ w.unknown = v.unknown
  <2>1. Shown(frame) = [v EXCEPT !.set = r]
    BY <1>4, ReducedEarly
  <2>2. r \in 0..MaxWebRuns
    BY WebRunAssumption DEF WebRuns
  <2> HIDE DEF frame
  <2> QED BY <2>1, <2>2 DEF View
<1>6. ASSUME ~hurried
      PROVE  /\ ~w.finished /\ w.attempts <= streams'[r].made
             /\ w.attempts + w.unknown >= streams'[r].made
  <2>1. onScreen = r /\ view # NoView /\ ~view.finished /\ v = view
    BY <1>1, <1>4, <1>6 DEF PageInv, OneRunAtATime, Reading
  <2>2. v.attempts <= streams[r].made /\ v.attempts + v.unknown >= streams[r].made
    BY <1>6, <2>1 DEF PageInv, ViewIsOfTheRun
  <2> QED BY <1>3, <1>5, <2>1, <2>2
<1> HIDE DEF frame
<1> QED BY <1>1, <1>3, <1>5, <1>6, ArrivalKeeps

(* The settled run. *)
LEMMA SettledKeeps ==
    ASSUME PageInv, NEW r \in WebRuns, NEW st \in {"done", "failed"}, SettledRunArrives(r, st)
    PROVE  PageInv'
<1> DEFINE s == IF streams[r].set THEN r ELSE 0
           frame == [kind |-> "run", run |-> r, status |-> st, attempts |-> streams[r].made,
                     set |-> s]
<1>0. PageTypeOK
  BY DEF PageInv
<1>1. /\ streams' = [streams EXCEPT ![r].ended = st]
      /\ Arrives(r, frame)
      /\ streams[r].state = "open" /\ ~streams[r].aborted /\ streams[r].ended = "no"
  BY DEF SettledRunArrives, Arrives
<1>2. streams[r] \in Stream /\ streams[r].made \in Nat
  BY <1>0 DEF PageTypeOK, Stream
<1>3. /\ streams' \in [WebRuns -> Stream]
      /\ \A q \in WebRuns \ {r} : streams'[q] = streams[q]
      /\ streams'[r].state = "open" /\ ~streams'[r].aborted /\ streams'[r].ended = st
      /\ streams'[r].made = streams[r].made
  BY <1>0, <1>1, <1>2 DEF PageTypeOK, Stream
<1>4. PICK v \in View : Shown(frame) = ReduceRun(v, frame) /\ (view # NoView => v = view)
  BY <1>0, ShownFrom
<1>s. s \in 0..MaxWebRuns /\ s \in {0, r}
  BY WebRunAssumption DEF WebRuns
<1>5. PICK w \in View :
         /\ w = Shown(frame)
         /\ w.status = st /\ w.finished /\ w.unknown = v.unknown
         /\ w.attempts = IF streams[r].made >= v.attempts THEN streams[r].made ELSE v.attempts
         /\ w.set = IF s # 0 THEN s ELSE v.set
  <2> HIDE DEF s
  <2> QED BY <1>2, <1>4, <1>s, ReducedSettled
<1>6. ASSUME ~hurried
      PROVE  /\ w.set \in {0, r} /\ w.attempts = streams'[r].made
             /\ w.attempts + w.unknown >= streams'[r].made
             /\ w.attempts <= streams'[r].made
  <2>1. onScreen = r /\ view # NoView /\ v = view
    BY <1>1, <1>4, <1>6 DEF PageInv, OneRunAtATime, Reading
  <2>2. v.attempts <= streams[r].made /\ v.set \in {0, r}
    BY <1>6, <2>1 DEF PageInv, ViewIsOfTheRun
  <2>3. v.attempts \in Nat /\ w.unknown \in Nat
    BY DEF View
  <2> HIDE DEF s
  <2> QED BY <1>2, <1>3, <1>s, <1>5, <2>1, <2>2, <2>3
<1> HIDE DEF frame
<1> QED BY <1>1, <1>3, <1>5, <1>6, ArrivalKeeps

(* A run is started: it is the only one awaited, or somebody hurried. *)
LEMMA StartKeeps ==
    ASSUME PageInv, Start
    PROVE  PageInv'
<1>0. PageTypeOK /\ ApprovedWereOpen
  BY DEF PageInv
<1>1. PICK r \in WebRuns :
         /\ streams[r] = NotOpened
         /\ streams' = [streams EXCEPT ![r].state = "open"]
         /\ onScreen' = r /\ abortOf' = r
  BY DEF Start
<1>2. /\ view' = InitialRunView /\ DiffEffect(InitialRunView, chosen)
      /\ running' = TRUE /\ diff' = NoDiff /\ decision' = Undecided
      /\ hurried' = (hurried \/ ComingBack)
      /\ UNCHANGED <<approving, approvalsOut, chosen, approved>>
  BY DEF Start, SetsView
<1>3. InitialRunView \in View /\ InitialRunView # NoView
  <2>1. InitialRunView \in View
    BY WebRunAssumption DEF InitialRunView, View
  <2> QED BY <2>1, ViewIsNotNoView
<1>n. /\ streams[r] \in Stream
      /\ ~streams[r].aborted /\ streams[r].ended = "no" /\ streams[r].made = 0
  <2>1. streams[r] \in Stream
    BY <1>0 DEF PageTypeOK
  <2> QED BY <1>1, <2>1 DEF NotOpened
<1>4. /\ streams' \in [WebRuns -> Stream]
      /\ \A q \in WebRuns \ {r} : streams'[q] = streams[q]
      /\ streams'[r].state = "open" /\ ~streams'[r].aborted /\ streams'[r].ended = "no"
      /\ streams'[r].made = 0
  BY <1>0, <1>1, <1>n DEF PageTypeOK, Stream
<1>5. fetching' \in 0..MaxWebRuns
  BY <1>0, <1>2, <1>3, EffectFits
<1>6. r \in 0..MaxWebRuns
  BY WebRunAssumption DEF WebRuns
<1>h. hurried' \in BOOLEAN
  BY <1>2
<1>7. PageTypeOK'
  BY <1>0, <1>1, <1>2, <1>3, <1>4, <1>5, <1>6, <1>h DEF PageTypeOK
<1>8. ApprovedWereOpen'
  BY <1>0, <1>2 DEF ApprovedWereOpen
<1>9. ASSUME ~hurried' PROVE (OneRunAtATime /\ ViewIsOfTheRun /\ LateAnswersFit)'
  <2>1. ~hurried /\ LateAnswersFit /\ ~ComingBack
    BY <1>2, <1>9 DEF PageInv
  <2>2. approvalsOut = {} /\ \A q \in WebRuns : streams[q].state # "open"
    BY <2>1 DEF ComingBack
  <2>3. OneRunAtATime'
    BY <1>1, <1>2, <1>3, <1>4, <2>2 DEF OneRunAtATime, Reading, InitialRunView
  <2>4. ViewIsOfTheRun'
    BY <1>1, <1>2, <1>3, <1>4 DEF ViewIsOfTheRun, InitialRunView
  <2>5. fetching' = 0
    BY <1>0, <1>2, <1>3, <2>1, EffectFits DEF LateAnswersFit, InitialRunView
  <2>6. LateAnswersFit'
    BY <1>2, <2>2, <2>5 DEF LateAnswersFit
  <2> QED BY <2>3, <2>4, <2>6
<1> QED BY <1>7, <1>8, <1>9 DEF PageInv

(* A stream is over, whether it ended, failed or was stopped. *)
LEMMA StreamOverFact ==
    ASSUME PageInv, NEW r \in WebRuns, streams[r].state = "open", StreamOver(r)
    PROVE  /\ streams' \in [WebRuns -> Stream]
           /\ abortOf' \in 0..MaxWebRuns
           /\ ApprovedWereOpen'
           /\ streams'[r].state = "over"
           /\ \A q \in WebRuns \ {r} : streams'[q] = streams[q]
           /\ \A q \in WebRuns : /\ streams'[q].made = streams[q].made
                                 /\ streams'[q].ended = streams[q].ended
           /\ ~hurried => \A q \in WebRuns : streams'[q].state # "open"
<1>0. PageTypeOK /\ ApprovedWereOpen
  BY DEF PageInv
<1>1. /\ streams' = [streams EXCEPT ![r].state = "over"]
      /\ abortOf' = IF abortOf = r THEN 0 ELSE abortOf
      /\ approved' = approved
  BY DEF StreamOver
<1>2. /\ streams' \in [WebRuns -> Stream]
      /\ \A q \in WebRuns \ {r} : streams'[q] = streams[q]
      /\ streams'[r].state = "over"
      /\ streams'[r].made = streams[r].made /\ streams'[r].ended = streams[r].ended
  BY <1>0, <1>1 DEF PageTypeOK, Stream
<1>3. abortOf' \in 0..MaxWebRuns
  BY <1>0, <1>1, WebRunAssumption DEF PageTypeOK
<1>4. ~hurried => \A q \in WebRuns : streams'[q].state # "open"
  BY <1>2 DEF PageInv, OneRunAtATime
<1>5. ApprovedWereOpen'
  BY <1>0, <1>1 DEF ApprovedWereOpen
<1> QED BY <1>2, <1>3, <1>4, <1>5

(* ... and leaves what is on screen. *)
LEMMA ClosesKeeps ==
    ASSUME PageInv, NEW r \in WebRuns, StreamCloses(r)
    PROVE  PageInv'
<1>0. PageTypeOK /\ streams[r].state = "open" /\ StreamOver(r)
  BY DEF PageInv, StreamCloses
<1>1. /\ running' = FALSE
      /\ UNCHANGED <<onScreen, diff, approving, approvalsOut, decision, chosen, approved, hurried,
                     view, fetching, loading>>
  BY DEF StreamCloses, StreamOver
<1>2. PageTypeOK'
  BY <1>0, <1>1, StreamOverFact DEF PageTypeOK, NoDiff, NoView, View, Diff, WebRuns, Stream
<1>3. ASSUME ~hurried' PROVE (OneRunAtATime /\ ViewIsOfTheRun /\ LateAnswersFit)'
  <2>1. ~hurried /\ ViewIsOfTheRun /\ LateAnswersFit
    BY <1>1, <1>3 DEF PageInv
  <2>2. OneRunAtATime'
    BY <1>0, <1>1, <2>1, StreamOverFact DEF OneRunAtATime, Reading
  <2>3. ViewIsOfTheRun'
    BY <1>0, <1>1, <2>1, StreamOverFact DEF ViewIsOfTheRun
  <2>4. LateAnswersFit'
    BY <1>1, <2>1 DEF LateAnswersFit
  <2> QED BY <2>2, <2>3, <2>4
<1> QED BY <1>0, <1>2, <1>3, StreamOverFact DEF PageInv

(* ... or ends the run on screen with a failure. *)
LEMMA BreaksKeeps ==
    ASSUME PageInv, NEW r \in WebRuns, StreamBreaks(r)
    PROVE  PageInv'
<1> DEFINE frame == [kind |-> "refused"]
<1>0. /\ PageTypeOK /\ StreamOver(r)
      /\ streams[r].state = "open" /\ ~streams[r].aborted /\ streams[r].ended = "no"
  BY DEF PageInv, StreamBreaks
<1>1. PICK v \in View : Shown(frame) = ReduceRun(v, frame) /\ (view # NoView => v = view)
  BY <1>0, ShownFrom
<1>2. PICK w \in View : /\ w = Shown(frame)
                        /\ w.attempts = v.attempts /\ w.unknown = v.unknown
                        /\ w.set = v.set /\ w.finished
  <2>1. Shown(frame) = [v EXCEPT !.finished = TRUE, !.status = "failed"]
    BY <1>1, ReducedRefused
  <2> HIDE DEF frame
  <2> QED BY <2>1 DEF View
<1>3. /\ view' = w /\ DiffEffect(w, chosen)
      /\ running' = FALSE
      /\ UNCHANGED <<onScreen, diff, approving, approvalsOut, decision, chosen, approved, hurried>>
  BY <1>2 DEF StreamBreaks, StreamOver, SetsView
<1> HIDE DEF frame
<1>4. w # NoView
  BY ViewIsNotNoView
<1>5. fetching' \in 0..MaxWebRuns
  BY <1>0, <1>3, EffectFits
<1>6. PageTypeOK'
  BY <1>0, <1>3, <1>5, StreamOverFact DEF PageTypeOK, NoDiff, Diff, WebRuns
<1>7. ASSUME ~hurried' PROVE (OneRunAtATime /\ ViewIsOfTheRun /\ LateAnswersFit)'
  <2>1. ~hurried /\ OneRunAtATime /\ ViewIsOfTheRun /\ LateAnswersFit
    BY <1>3, <1>7 DEF PageInv
  <2>2. onScreen = r /\ view # NoView /\ v = view /\ ~view.finished
    BY <1>0, <1>1, <2>1 DEF OneRunAtATime, Reading
  <2>3. OneRunAtATime'
    BY <1>0, <1>3, <2>1, StreamOverFact DEF OneRunAtATime, Reading
  <2>4. ViewIsOfTheRun'
    BY <1>0, <1>2, <1>3, <2>1, <2>2, StreamOverFact DEF ViewIsOfTheRun
  <2>5. fetching' # 0 => w.finished /\ w.set = fetching'
    BY <1>0, <1>3, <2>1, EffectFits DEF LateAnswersFit
  <2>6. LateAnswersFit'
    BY <1>3, <1>4, <2>1, <2>2, <2>5 DEF LateAnswersFit
  <2> QED BY <2>3, <2>4, <2>6
<1> QED BY <1>0, <1>6, <1>7, StreamOverFact DEF PageInv

(* The steps that touch no stream's progress and no view. *)
LEMMA QuietStep ==
    ASSUME PageInv, UNCHANGED <<view, onScreen, abortOf, hurried, streams, running>>,
           fetching' \in 0..MaxWebRuns, diff' = NoDiff \/ diff' \in Diff,
           approvalsOut' \subseteq WebRuns, ApprovedWereOpen',
           ~hurried /\ LateAnswersFit => LateAnswersFit'
    PROVE  PageInv'
<1>1. PageTypeOK'
  BY DEF PageInv, PageTypeOK, NoView, View, WebRuns, Stream, Diff, NoDiff
<1>2. ASSUME ~hurried' PROVE (OneRunAtATime /\ ViewIsOfTheRun /\ LateAnswersFit)'
  <2>1. ~hurried /\ OneRunAtATime /\ ViewIsOfTheRun /\ LateAnswersFit
    BY <1>2 DEF PageInv
  <2>2. OneRunAtATime'
    BY <2>1 DEF OneRunAtATime, Reading
  <2>3. ViewIsOfTheRun'
    BY <2>1 DEF ViewIsOfTheRun
  <2> QED BY <2>1, <2>2, <2>3
<1> QED BY <1>1, <1>2 DEF PageInv

(* The run is stopped: its stream is read no more. *)
LEMMA CancelKeeps ==
    ASSUME PageInv, Cancel
    PROVE  PageInv'
<1>0. PageTypeOK /\ ApprovedWereOpen
  BY DEF PageInv
<1>1. /\ running /\ running' = FALSE
      /\ streams' = IF abortOf = 0 THEN streams ELSE [streams EXCEPT ![abortOf].aborted = TRUE]
      /\ UNCHANGED <<view, onScreen, abortOf, diff, fetching, loading, approving, approvalsOut,
                     decision, chosen, approved, hurried>>
  BY DEF Cancel
<1>2. abortOf # 0 => abortOf \in WebRuns
  BY <1>0, WebRunAssumption DEF PageTypeOK, WebRuns
<1>3. /\ streams' \in [WebRuns -> Stream]
      /\ \A q \in WebRuns : /\ streams'[q].state = streams[q].state
                            /\ streams'[q].made = streams[q].made
                            /\ streams'[q].ended = streams[q].ended
                            /\ q # abortOf => streams'[q] = streams[q]
      /\ abortOf # 0 => streams'[abortOf].aborted
  <2>1. CASE abortOf = 0
    BY <1>0, <1>1, <2>1 DEF PageTypeOK
  <2>2. CASE abortOf # 0
    BY <1>0, <1>1, <1>2, <2>2 DEF PageTypeOK, Stream
  <2> QED BY <2>1, <2>2
<1>4. PageTypeOK'
  BY <1>0, <1>1, <1>3 DEF PageTypeOK, NoView, View, NoDiff, Diff, WebRuns
<1>5. ApprovedWereOpen'
  BY <1>0, <1>1 DEF ApprovedWereOpen
<1>6. ASSUME ~hurried' PROVE (OneRunAtATime /\ ViewIsOfTheRun /\ LateAnswersFit)'
  <2>1. ~hurried /\ OneRunAtATime /\ ViewIsOfTheRun /\ LateAnswersFit
    BY <1>1, <1>6 DEF PageInv
  <2>2. \A q \in WebRuns : ~Reading(q)'
    <3>1. SUFFICES ASSUME NEW q \in WebRuns, Reading(q)' PROVE FALSE
      OBVIOUS
    <3>2. q # abortOf
      <4>1. q # 0
        BY WebRunAssumption DEF WebRuns
      <4> QED BY <1>3, <3>1, <4>1 DEF Reading
    <3>3. Reading(q)
      BY <1>3, <3>1, <3>2 DEF Reading
    <3> QED BY <2>1, <3>2, <3>3 DEF OneRunAtATime
  <2>3. OneRunAtATime'
    BY <1>1, <1>3, <2>1, <2>2 DEF OneRunAtATime
  <2>4. ViewIsOfTheRun'
    BY <1>1, <1>3, <2>1 DEF ViewIsOfTheRun
  <2>5. LateAnswersFit'
    BY <1>1, <2>1 DEF LateAnswersFit
  <2> QED BY <2>3, <2>4, <2>5
<1> QED BY <1>4, <1>5, <1>6 DEF PageInv

(* The page is cleared, which only a stopped stream can outlive. *)
LEMMA ResetKeeps ==
    ASSUME PageInv, Reset
    PROVE  PageInv'
<1>0. PageTypeOK /\ ApprovedWereOpen
  BY DEF PageInv
<1>1. /\ ~running /\ view' = NoView /\ DiffEffect(NoView, chosen) /\ onScreen' = 0
      /\ diff' = NoDiff /\ decision' = Undecided
      /\ UNCHANGED <<running, abortOf, streams, approving, approvalsOut, chosen, approved, hurried>>
  BY DEF Reset, SetsView
<1>2. fetching' \in 0..MaxWebRuns
  BY <1>0, <1>1, EffectFits
<1>3. PageTypeOK'
  BY <1>0, <1>1, <1>2, WebRunAssumption DEF PageTypeOK, Stream, WebRuns
<1>4. ApprovedWereOpen'
  BY <1>0, <1>1 DEF ApprovedWereOpen
<1>5. ASSUME ~hurried' PROVE (OneRunAtATime /\ ViewIsOfTheRun /\ LateAnswersFit)'
  <2>1. ~hurried /\ OneRunAtATime /\ LateAnswersFit
    BY <1>1, <1>5 DEF PageInv
  <2>2. \A q \in WebRuns : ~Reading(q)
    BY <1>1, <2>1 DEF OneRunAtATime
  <2>3. OneRunAtATime'
    BY <1>1, <2>1, <2>2 DEF OneRunAtATime, Reading
  <2>4. ViewIsOfTheRun'
    BY <1>1 DEF ViewIsOfTheRun
  <2>5. fetching' = 0
    BY <1>0, <1>1, <2>1, EffectFits DEF LateAnswersFit
  <2>6. LateAnswersFit'
    BY <1>1, <2>5 DEF LateAnswersFit
  <2> QED BY <2>3, <2>4, <2>6
<1> QED BY <1>3, <1>4, <1>5 DEF PageInv

(* Another project is chosen: the diff is fetched again, of the same set.  *)
LEMMA ChoosesKeeps ==
    ASSUME PageInv, NEW p, ChoosesProject(p)
    PROVE  PageInv'
<1>0. PageTypeOK /\ ApprovedWereOpen /\ (view = NoView \/ view \in View)
  BY DEF PageInv, PageTypeOK
<1>1. /\ DiffEffect(view, p)
      /\ UNCHANGED <<view, onScreen, running, abortOf, streams, diff, approving, approvalsOut,
                     decision, approved, hurried>>
  BY DEF ChoosesProject
<1>2. /\ fetching' \in 0..MaxWebRuns
      /\ LateAnswersFit => (fetching' # 0 => view # NoView /\ view.finished /\ view.set = fetching')
  BY <1>0, <1>1, EffectFits DEF LateAnswersFit
<1>3. LateAnswersFit => LateAnswersFit'
  BY <1>1, <1>2 DEF LateAnswersFit
<1>4. ApprovedWereOpen'
  BY <1>0, <1>1 DEF ApprovedWereOpen
<1>5. (diff' = NoDiff \/ diff' \in Diff) /\ approvalsOut' \subseteq WebRuns
  BY <1>0, <1>1 DEF PageTypeOK
<1> QED BY <1>1, <1>2, <1>3, <1>4, <1>5, QuietStep

(* A diff is answered, or is not. *)
LEMMA DiffKeeps ==
    ASSUME PageInv, DiffFails \/ \E shape \in DiffShapes : DiffAnswers(shape)
    PROVE  PageInv'
<1>0. PageTypeOK /\ ApprovedWereOpen
  BY DEF PageInv
<1>1. /\ fetching # 0 /\ fetching' = 0
      /\ UNCHANGED <<view, onScreen, running, abortOf, streams, approving, approvalsOut, decision,
                     chosen, approved, hurried>>
  BY DEF DiffFails, DiffAnswers
<1>2. fetching \in WebRuns
  BY <1>0, <1>1, WebRunAssumption DEF PageTypeOK, WebRuns
<1>3. \/ diff' = diff
      \/ diff' \in Diff /\ diff'.set = fetching
  BY <1>2 DEF DiffFails, DiffAnswers, Diff
<1>4. LateAnswersFit => LateAnswersFit'
  BY <1>1, <1>3 DEF LateAnswersFit
<1>5. ApprovedWereOpen'
  BY <1>0, <1>1 DEF ApprovedWereOpen
<1>6. /\ diff' = NoDiff \/ diff' \in Diff
      /\ approvalsOut' \subseteq WebRuns /\ fetching' \in 0..MaxWebRuns
  BY <1>0, <1>1, <1>3, WebRunAssumption DEF PageTypeOK
<1> QED BY <1>1, <1>4, <1>5, <1>6, QuietStep

(* The diff on screen is approved or rejected, and an approval answered.   *)
LEMMA DecisionKeeps ==
    ASSUME PageInv,
           \/ Approve \/ Reject
           \/ \E s \in WebRuns, kind \in {"approved", "error"} : ApprovalAnswered(s, kind)
    PROVE  PageInv'
<1>0. /\ PageTypeOK /\ ApprovedWereOpen
      /\ fetching \in 0..MaxWebRuns /\ (diff = NoDiff \/ diff \in Diff)
      /\ approvalsOut \subseteq WebRuns
      /\ ~hurried => ViewIsOfTheRun
  BY DEF PageInv, PageTypeOK
<1>1. UNCHANGED <<view, onScreen, running, abortOf, streams, diff, fetching, chosen, hurried>>
  BY DEF Approve, Reject, ApprovalAnswered
<1>2. diff # NoDiff => diff.set \in WebRuns /\ diff.shape \in DiffShapes /\ diff.set # 0
  BY <1>0, WebRunAssumption DEF Diff, WebRuns
<1>3. CASE Approve
  <2>1. /\ diff # NoDiff /\ ~Blocked(diff.shape) /\ decision' = Undecided
        /\ approvalsOut' = approvalsOut \cup {diff.set}
        /\ approved' = approved \cup {diff}
    BY <1>3 DEF Approve, Decidable
  <2>2. ApprovedWereOpen'
    BY <1>0, <1>2, <2>1 DEF ApprovedWereOpen
  <2>3. ~hurried /\ LateAnswersFit => LateAnswersFit'
    BY <1>0, <1>1, <1>2, <2>1 DEF LateAnswersFit, ViewIsOfTheRun
  <2>4. approvalsOut' \subseteq WebRuns
    BY <1>0, <1>2, <2>1
  <2> QED BY <1>0, <1>1, <2>2, <2>3, <2>4, QuietStep
<1>4. CASE Reject
  <2>1. /\ diff # NoDiff /\ decision' = [kind |-> "rejected", set |-> diff.set]
        /\ UNCHANGED <<approvalsOut, approved>>
    BY <1>4 DEF Reject, Decidable
  <2>2. ApprovedWereOpen'
    BY <1>0, <2>1 DEF ApprovedWereOpen
  <2>3. ~hurried /\ LateAnswersFit => LateAnswersFit'
    BY <1>0, <1>1, <1>2, <2>1 DEF LateAnswersFit, ViewIsOfTheRun
  <2> QED BY <1>0, <1>1, <2>1, <2>2, <2>3, QuietStep
<1>5. CASE \E s \in WebRuns, kind \in {"approved", "error"} : ApprovalAnswered(s, kind)
  <2>1. PICK s \in approvalsOut, kind \in {"approved", "error"} :
           /\ approvalsOut' = approvalsOut \ {s}
           /\ decision' = [kind |-> kind, set |-> s] /\ approved' = approved
    BY <1>5 DEF ApprovalAnswered
  <2>2. ApprovedWereOpen'
    BY <1>0, <2>1 DEF ApprovedWereOpen
  <2>3. ~hurried /\ LateAnswersFit => LateAnswersFit'
    BY <1>1, <2>1 DEF LateAnswersFit
  <2>4. approvalsOut' \subseteq WebRuns
    BY <1>0, <2>1
  <2> QED BY <1>0, <1>1, <2>2, <2>3, <2>4, QuietStep
<1> QED BY <1>3, <1>4, <1>5

(* A diff that is not blocked shows every script it carries: what is shown *)
(* as code carries code, and there are no fewer of the one than of the     *)
(* other (undisclosedScripts).                                             *)
LEMMA OpenIsDisclosed ==
    ASSUME NEW shape \in DiffShapes, ~Blocked(shape)
    PROVE  /\ \A i \in 1..Len(shape.ops) :
                 CarriesLuau(shape.ops[i]) <=> ContentOf(Rendered(shape.ops[i])) = "luau"
           /\ shape.verdict # "fail" /\ ~shape.stale
<1> DEFINE counted == {i \in 1..Len(shape.ops) : CarriesLuau(shape.ops[i])}
           displayed == {i \in 1..Len(shape.ops) : ContentOf(Rendered(shape.ops[i])) = "luau"}
<1>1. ASSUME NEW op, ContentOf(Rendered(op)) = "luau" PROVE CarriesLuau(op)
  BY <1>1 DEF ContentOf, Rendered, CarriesLuau
<1>2. displayed \subseteq counted
  BY <1>1
<1>3. IsFiniteSet(1..Len(shape.ops))
  BY WebRunAssumption, FS_Interval
<1>4. IsFiniteSet(counted) /\ IsFiniteSet(displayed)
  BY <1>3, FS_Subset
<1>5. Cardinality(counted) \in Nat /\ Cardinality(displayed) \in Nat
  BY <1>4, FS_CardinalityType
<1>6. /\ shape.verdict # "fail" /\ ~shape.stale
      /\ ~(Cardinality(counted) > Cardinality(displayed))
  <2>1. /\ shape.verdict # "fail" /\ ~shape.stale
        /\ ~(UndisclosedScripts(shape) > 0)
    BY DEF Blocked
  <2>2. UndisclosedScripts(shape) = IF Cardinality(counted) > Cardinality(displayed)
                                    THEN Cardinality(counted) - Cardinality(displayed) ELSE 0
    BY DEF UndisclosedScripts
  <2> HIDE DEF counted, displayed
  <2> QED BY <1>5, <2>1, <2>2
<1>7. displayed = counted
  <2> HIDE DEF counted, displayed
  <2>1. /\ Cardinality(displayed) <= Cardinality(counted)
        /\ Cardinality(counted) = Cardinality(displayed) => counted = displayed
    BY <1>2, <1>4, FS_Subset
  <2> QED BY <1>5, <1>6, <2>1
<1> QED BY <1>6, <1>7

-----------------------------------------------------------------------------
(* The project records *)

Record == [version : Nat, observed : BOOLEAN, name : Nat]
Job == [id : Nat, kind : {"observe", "rename"}, at : {"get", "update", "put"},
        project : WebProjects, value : Nat, seen : Record]

RecordsTypeOK ==
    /\ records \in [WebProjects -> Record]
    /\ jobs \subseteq Job
    /\ writes \in Nat
    /\ treeVersion \in [WebProjects -> Nat]
    /\ crossed \in BOOLEAN

(* While writers take turns there is one at most; what it writes back is   *)
(* what is there, and an observation it went on with is still news.        *)
TurnIsTaken ==
    \A job \in jobs :
       /\ \A other \in jobs : other = job
       /\ job.at = "put" => job.seen = records[job.project]
       /\ job.kind = "observe" /\ job.at # "get" => ~NothingNewer(job)

(* A version nobody observed is 0. *)
UnobservedIsZero == \A p \in WebProjects : ~records[p].observed => records[p].version = 0

RecordsInv ==
    /\ RecordsTypeOK
    /\ ~crossed => TurnIsTaken /\ UnobservedIsZero

(* A job is begun: it is the only one, or two are under way. *)
LEMMA BeginsKeeps ==
    ASSUME RecordsInv, NEW job \in Job, job.at # "put", job.kind = "observe" => job.at = "get",
           Begins(job)
    PROVE  RecordsInv'
<1>1. /\ writes' = writes + 1 /\ jobs' = jobs \cup {job} /\ crossed' = (crossed \/ jobs # {})
      /\ UNCHANGED <<records, treeVersion>>
  BY DEF Begins
<1>2. RecordsTypeOK'
  BY <1>1 DEF RecordsInv, RecordsTypeOK
<1>3. ASSUME ~crossed' PROVE TurnIsTaken' /\ UnobservedIsZero'
  <2>1. ~crossed /\ jobs' = {job} /\ UnobservedIsZero
    BY <1>1, <1>3 DEF RecordsInv
  <2> QED BY <1>1, <2>1 DEF TurnIsTaken, UnobservedIsZero, NothingNewer
<1> QED BY <1>2, <1>3 DEF RecordsInv

(* A job reads the record and goes on, or stops. *)
LEMMA ReadsKeep ==
    ASSUME RecordsInv, NEW job \in jobs, ObserveReads(job) \/ UpdateReads(job)
    PROVE  RecordsInv'
<1>0. job \in Job /\ records[job.project] \in Record
  BY DEF RecordsInv, RecordsTypeOK, Job
<1>1. UNCHANGED <<records, writes, treeVersion, crossed>>
  BY DEF ObserveReads, UpdateReads
<1>2. \/ jobs' = jobs \ {job}
      \/ \E next \in Job :
           /\ jobs' = (jobs \ {job}) \cup {next}
           /\ next.project = job.project /\ next.kind = job.kind /\ next.value = job.value
           /\ next.at = "put" => next.seen = records[job.project] /\ job.at = "update"
           /\ next.at # "put" => next.at = "update" /\ ~NothingNewer(job)
  <2>1. CASE ObserveReads(job) /\ NothingNewer(job)
    BY <2>1 DEF ObserveReads
  <2>2. CASE ObserveReads(job) /\ ~NothingNewer(job)
    <3>1. PICK next : next = [job EXCEPT !.at = "update"]
      OBVIOUS
    <3>2. jobs' = (jobs \ {job}) \cup {next}
      BY <2>2, <3>1 DEF ObserveReads
    <3>3. /\ next \in Job /\ next.at = "update"
          /\ next.project = job.project /\ next.kind = job.kind /\ next.value = job.value
      BY <1>0, <3>1 DEF Job
    <3> QED BY <2>2, <3>2, <3>3
  <2>3. CASE UpdateReads(job)
    <3>1. PICK next : next = [job EXCEPT !.at = "put", !.seen = records[job.project]]
      OBVIOUS
    <3>2. jobs' = (jobs \ {job}) \cup {next} /\ job.at = "update"
      BY <2>3, <3>1 DEF UpdateReads
    <3>3. /\ next \in Job /\ next.at = "put" /\ next.seen = records[job.project]
          /\ next.project = job.project /\ next.kind = job.kind /\ next.value = job.value
      BY <1>0, <3>1 DEF Job
    <3> QED BY <3>2, <3>3
  <2> QED BY <2>1, <2>2, <2>3
<1>3. RecordsTypeOK'
  BY <1>1, <1>2 DEF RecordsInv, RecordsTypeOK, Record
<1>4. ASSUME ~crossed' PROVE TurnIsTaken' /\ UnobservedIsZero'
  <2>1. ~crossed /\ TurnIsTaken /\ UnobservedIsZero /\ jobs = {job}
    BY <1>1, <1>4 DEF RecordsInv, TurnIsTaken
  <2>2. UnobservedIsZero'
    BY <1>1, <2>1 DEF UnobservedIsZero
  <2>3. TurnIsTaken'
    BY <1>1, <1>2, <2>1 DEF TurnIsTaken, NothingNewer
  <2> QED BY <2>2, <2>3
<1> QED BY <1>3, <1>4 DEF RecordsInv

(* A job writes the record back. *)
LEMMA WritesKeep ==
    ASSUME RecordsInv, NEW job \in jobs, UpdateWrites(job)
    PROVE  RecordsInv'
<1>0. job \in Job /\ RecordsTypeOK
  BY DEF RecordsInv, RecordsTypeOK
<1>1. /\ records' = [records EXCEPT ![job.project] = Patched(job)]
      /\ jobs' = jobs \ {job} /\ job.at = "put"
      /\ UNCHANGED <<writes, treeVersion, crossed>>
  BY DEF UpdateWrites
<1>2. PICK new \in Record : /\ new = Patched(job)
                            /\ ~new.observed => ~job.seen.observed /\ new.version = job.seen.version
  <2>0. job.seen \in Record /\ job.value \in Nat
    BY <1>0 DEF Job
  <2>1. CASE job.kind = "rename"
    <3>1. Patched(job) = [job.seen EXCEPT !.name = job.value]
      BY <2>1 DEF Patched
    <3> QED BY <2>0, <3>1 DEF Record
  <2>2. CASE job.kind # "rename"
    <3>1. Patched(job) = [job.seen EXCEPT !.version = job.value, !.observed = TRUE]
      BY <2>2 DEF Patched
    <3> QED BY <2>0, <3>1 DEF Record
  <2> QED BY <2>1, <2>2
<1>3. RecordsTypeOK'
  BY <1>0, <1>1, <1>2 DEF RecordsTypeOK, Job
<1>4. ASSUME ~crossed' PROVE TurnIsTaken' /\ UnobservedIsZero'
  <2>1. ~crossed /\ TurnIsTaken /\ UnobservedIsZero /\ jobs' = {}
    BY <1>1, <1>4 DEF RecordsInv, TurnIsTaken
  <2>2. job.seen = records[job.project]
    BY <1>1, <2>1 DEF TurnIsTaken
  <2>3. UnobservedIsZero'
    BY <1>0, <1>1, <1>2, <2>1, <2>2 DEF UnobservedIsZero, RecordsTypeOK, Job
  <2> QED BY <2>1, <2>3 DEF TurnIsTaken
<1> QED BY <1>3, <1>4 DEF RecordsInv

(* Initially nothing is on screen and no record was written. *)
LEMMA WebInit == WebRunInit => PageInv /\ RecordsInv
<1>1. SUFFICES ASSUME WebRunInit PROVE PageInv /\ RecordsInv
  OBVIOUS
<1>2. NotOpened \in Stream
  BY DEF NotOpened, Stream
<1>3. PageTypeOK
  <2>1. streams \in [WebRuns -> Stream]
    BY <1>1, <1>2 DEF WebRunInit
  <2>2. 0 \in 0..MaxWebRuns
    BY WebRunAssumption
  <2> QED BY <1>1, <2>1, <2>2 DEF WebRunInit, PageTypeOK
<1>4. \A r \in WebRuns : streams[r].state = "none"
  BY <1>1 DEF WebRunInit, NotOpened
<1>5. OneRunAtATime /\ ViewIsOfTheRun /\ LateAnswersFit /\ ApprovedWereOpen
  BY <1>1, <1>4 DEF WebRunInit, OneRunAtATime, ViewIsOfTheRun, LateAnswersFit, Reading,
                    ApprovedWereOpen
<1>6. RecordsInv
  BY <1>1 DEF WebRunInit, RecordsInv, RecordsTypeOK, Record, TurnIsTaken, UnobservedIsZero
<1> QED BY <1>3, <1>5, <1>6 DEF PageInv

(* A step of the page. *)
LEMMA PageStep == PageInv /\ PageNext => PageInv'
<1>1. SUFFICES ASSUME PageInv, PageNext PROVE PageInv'
  OBVIOUS
<1>2. CASE Start
  BY <1>1, <1>2, StartKeeps
<1>3. CASE Cancel
  BY <1>1, <1>3, CancelKeeps
<1>4. CASE Reset
  BY <1>1, <1>4, ResetKeeps
<1>5. CASE DiffFails \/ \E shape \in DiffShapes : DiffAnswers(shape)
  BY <1>1, <1>5, DiffKeeps
<1>6. CASE \/ Approve \/ Reject
           \/ \E r \in WebRuns, kind \in {"approved", "error"} : ApprovalAnswered(r, kind)
  BY <1>1, <1>6, DecisionKeeps
<1>7. CASE \E r \in WebRuns, understood \in BOOLEAN : AttemptArrives(r, understood)
  BY <1>1, <1>7, AttemptKeeps
<1>8. CASE \E r \in WebRuns : ChangeSetArrives(r)
  BY <1>1, <1>8, ChangeSetKeeps
<1>9. CASE \E r \in WebRuns, status \in {"done", "failed"} : SettledRunArrives(r, status)
  BY <1>1, <1>9, SettledKeeps
<1>10. CASE \E r \in WebRuns : StreamCloses(r)
  BY <1>1, <1>10, ClosesKeeps
<1>11. CASE \E r \in WebRuns : StreamBreaks(r)
  BY <1>1, <1>11, BreaksKeeps
<1>12. CASE \E p \in WebProjects : ChoosesProject(p)
  BY <1>1, <1>12, ChoosesKeeps
<1> QED
  BY <1>1, <1>2, <1>3, <1>4, <1>5, <1>6, <1>7, <1>8, <1>9, <1>10, <1>11, <1>12 DEF PageNext

(* A step of the records. *)
LEMMA RecordsStep == RecordsInv /\ RecordsNext => RecordsInv'
<1>1. SUFFICES ASSUME RecordsInv, RecordsNext PROVE RecordsInv'
  OBVIOUS
<1>2. writes \in Nat /\ \A p \in WebProjects : records[p] \in Record /\ treeVersion[p] \in Nat
  BY <1>1 DEF RecordsInv, RecordsTypeOK
<1>3. CASE \E p \in WebProjects : \E v \in 1..treeVersion[p] : ObserveBegins(p, v)
  <2>0. PICK p \in WebProjects : \E v \in 1..treeVersion[p] : ObserveBegins(p, v)
    BY <1>3
  <2>1. PICK v \in 1..treeVersion[p] : ObserveBegins(p, v)
    BY <2>0
  <2>2. PICK job : /\ job = [id |-> writes, kind |-> "observe", at |-> "get", project |-> p,
                             value |-> v, seen |-> records[p]]
    OBVIOUS
  <2>3. job \in Job /\ job.at = "get" /\ job.kind = "observe"
    BY <1>2, <2>2 DEF Job
  <2>4. Begins(job)
    BY <2>1, <2>2 DEF ObserveBegins
  <2> QED BY <1>1, <2>3, <2>4, BeginsKeeps
<1>4. CASE \E p \in WebProjects : UpdateBegins(p, writes + 1)
  <2>1. PICK p \in WebProjects : UpdateBegins(p, writes + 1)
    BY <1>4
  <2>2. PICK job : /\ job = [id |-> writes, kind |-> "rename", at |-> "update", project |-> p,
                             value |-> writes + 1, seen |-> records[p]]
    OBVIOUS
  <2>3. job \in Job /\ job.at = "update" /\ job.kind = "rename"
    BY <1>2, <2>2 DEF Job
  <2>4. Begins(job)
    BY <2>1, <2>2 DEF UpdateBegins
  <2> QED BY <1>1, <2>3, <2>4, BeginsKeeps
<1>5. CASE \E p \in WebProjects : TreeMoves(p)
  BY <1>1, <1>5 DEF TreeMoves, RecordsInv, RecordsTypeOK, TurnIsTaken, UnobservedIsZero,
                    NothingNewer
<1>6. CASE \E job \in jobs : ObserveReads(job) \/ UpdateReads(job)
  BY <1>1, <1>6, ReadsKeep
<1>7. CASE \E job \in jobs : UpdateWrites(job)
  BY <1>1, <1>7, WritesKeep
<1> QED BY <1>1, <1>3, <1>4, <1>5, <1>6, <1>7 DEF RecordsNext

(* What does not move keeps its invariant. *)
LEMMA WebStutters ==
    /\ PageInv /\ UNCHANGED pageVars => PageInv'
    /\ RecordsInv /\ UNCHANGED recordVars => RecordsInv'
  BY DEF PageInv, pageVars, PageTypeOK, ApprovedWereOpen, OneRunAtATime, ViewIsOfTheRun,
         LateAnswersFit, Reading, RecordsInv, recordVars, RecordsTypeOK, TurnIsTaken,
         UnobservedIsZero, NothingNewer

(* The invariants give what the page and its records promise. *)
LEMMA InvIsHonest == PageInv /\ RecordsInv => PageIsHonest
<1>1. SUFFICES ASSUME PageInv, RecordsInv PROVE PageIsHonest
  OBVIOUS
<1>2. DiffIsOfTheRun
  <2>1. diff # NoDiff => diff.set # 0
    BY <1>1, WebRunAssumption DEF PageInv, PageTypeOK, Diff, WebRuns
  <2> QED BY <1>1, <2>1 DEF DiffIsOfTheRun, PageInv, LateAnswersFit, ViewIsOfTheRun
<1>3. DecisionIsOfTheDiff
  BY <1>1, <1>2 DEF DecisionIsOfTheDiff, DiffIsOfTheRun, PageInv, LateAnswersFit
<1>4. LogIsComplete
  BY <1>1 DEF LogIsComplete, PageInv, OneRunAtATime, ViewIsOfTheRun, Reading
<1>5. OnlyDisclosedIsApproved
  BY <1>1, OpenIsDisclosed DEF OnlyDisclosedIsApproved, PageInv, ApprovedWereOpen
<1>6. TurnsKeepRecords
  <2>1. SUFFICES ASSUME ~crossed, NEW p \in WebProjects, NEW job \in jobs,
                        job.project = p, job.at = "put"
                 PROVE  /\ Patched(job).version >= records[p].version
                        /\ job.kind = "observe" => Patched(job).name = records[p].name
    BY DEF TurnsKeepRecords
  <2>2. /\ job \in Job /\ records[p] \in Record /\ job.seen = records[p]
        /\ job.kind = "observe" => ~NothingNewer(job)
        /\ ~records[p].observed => records[p].version = 0
    BY <1>1, <2>1 DEF RecordsInv, RecordsTypeOK, TurnIsTaken, UnobservedIsZero
  <2>3. CASE job.kind = "rename"
    <3>1. Patched(job) = [job.seen EXCEPT !.name = job.value]
      BY <2>3 DEF Patched
    <3> QED BY <2>2, <2>3, <3>1 DEF Record
  <2>4. CASE job.kind = "observe"
    <3>1. Patched(job) = [job.seen EXCEPT !.version = job.value, !.observed = TRUE]
      BY <2>4 DEF Patched
    <3>2. job.value \in Nat /\ records[p].version \in Nat
      BY <2>2 DEF Job, Record
    <3>3. job.value >= records[p].version
      BY <2>1, <2>2, <2>4, <3>2 DEF NothingNewer
    <3> QED BY <2>2, <3>1, <3>2, <3>3 DEF Record
  <2> QED BY <2>2, <2>3, <2>4 DEF Job
<1> QED BY <1>2, <1>3, <1>4, <1>5, <1>6 DEF PageIsHonest

(* The generate page shows one run: the diff, the decision and the log on  *)
(* screen are of the run on screen as long as a person waits for one run's *)
(* callbacks before starting the next; nothing is approved whose scripts   *)
(* were not all shown; and project records lose nothing to writers that    *)
(* take turns (generate-surface.tsx, diff-model.ts, lib/projects).         *)
THEOREM WebPageIsHonest == WebRunSpec => []PageIsHonest
<1>1. WebRunInit => PageInv /\ RecordsInv
  BY WebInit
<1>2. PageInv /\ RecordsInv /\ [WebRunNext]_webRunVars => (PageInv /\ RecordsInv)'
  <2>1. SUFFICES ASSUME PageInv, RecordsInv, [WebRunNext]_webRunVars
                 PROVE  PageInv' /\ RecordsInv'
    OBVIOUS
  <2>2. CASE PageNext /\ UNCHANGED recordVars
    BY <2>1, <2>2, PageStep, WebStutters
  <2>3. CASE RecordsNext /\ UNCHANGED pageVars
    BY <2>1, <2>3, RecordsStep, WebStutters
  <2>4. CASE UNCHANGED webRunVars
    BY <2>1, <2>4, WebStutters DEF webRunVars
  <2> QED BY <2>1, <2>2, <2>3, <2>4 DEF WebRunNext
<1>3. PageInv /\ RecordsInv => PageIsHonest
  BY InvIsHonest
<1> QED BY <1>1, <1>2, <1>3, PTL DEF WebRunSpec

-----------------------------------------------------------------------------
(* The connectors *)

Statuses == {"none", "validated", "rejected", "stale"} \cup AwaitingStudio \cup ToldByStudio
Codes == {"pending", "ok", "internal", "not_found", "invalid_request", "not_approved",
          "provider_unconfigured", "unsupported_version", "rate_limited", "too_large",
          "link_unauthenticated", "stale_base"}
ToolAnswer == [code : Codes, names : McpCalls \cup {"none"}, approved : BOOLEAN, braces : BOOLEAN]
Left == {<<>>, <<"link", "submit", "render">>, <<"submit", "render">>, <<"render">>,
         <<"link", "run">>, <<"run">>, <<"reverse">>, <<"diff">>, <<"read">>}
ToolCall == [tool : Tools \cup {"none", "rollback"}, target : McpCalls \cup Entries \cup {"none"},
             left : Left, stored : BOOLEAN, answer : ToolAnswer]
Entry == [asked : BOOLEAN, done : BOOLEAN,
          result : {"none", "rollback_partial", "rollback_failed"}]

ConnectorsTypeOK ==
    /\ held \in [HeldSets -> Statuses]
    /\ entries \in [Entries -> Entry]
    /\ pending \subseteq Entries
    /\ cleared \in [Entries -> Int] /\ reversed \in [Entries -> Nat]
    /\ calls \in [McpCalls -> ToolCall]

(* Only what a person approved goes to Studio. *)
StudioHasApproved ==
    \A s \in HeldSets : held[s] \in AwaitingStudio \cup ToldByStudio => s \in approvals

(* A call that has not ended has said nothing; what it has stored, it will *)
(* name; and what it says is approved, is.                                 *)
CallIsTrue(c, k, approvedSets) ==
    /\ k.tool = "none" => k.left = <<>>
    /\ k.left # <<>> => k.answer = Silence
    /\ k.stored => k.left \in {<<>>, <<"render">>}
    /\ k.left = <<"reverse">> => k.tool = "rollback" /\ k.target \in Entries
    /\ k.left = <<"diff">> => k.target \in McpCalls
    /\ k.tool = "apply_changeset" /\ k.answer.approved => k.target \in approvedSets
    /\ k.answer # Silence /\ k.stored => k.answer.names = c
CallsAreTrue == \A c \in McpCalls : CallIsTrue(c, calls[c], approvals)

(* The calls that were cleared and have not asked yet. *)
Reversing(j) == {c \in McpCalls : calls[c].target = j /\ calls[c].left = <<"reverse">>}
ClearancesCover ==
    \A j \in Entries :
       reversed[j] + Cardinality(Reversing(j)) + (IF j \in pending THEN 1 ELSE 0) <= cleared[j]

ToolsInv == ConnectorsTypeOK /\ StudioHasApproved /\ CallsAreTrue /\ ClearancesCover

(* The first of the requests that are left, and what is left after it. *)
LEMMA LeftFacts ==
    /\ Head(<<"link", "submit", "render">>) = "link"
    /\ Tail(<<"link", "submit", "render">>) = <<"submit", "render">>
    /\ Head(<<"submit", "render">>) = "submit" /\ Tail(<<"submit", "render">>) = <<"render">>
    /\ Head(<<"render">>) = "render"
    /\ Head(<<"link", "run">>) = "link" /\ Tail(<<"link", "run">>) = <<"run">>
    /\ Head(<<"run">>) = "run"
    /\ Head(<<"reverse">>) = "reverse" /\ Head(<<"diff">>) = "diff" /\ Head(<<"read">>) = "read"
<1>1. /\ Head(<<"link", "submit", "render">>) = "link"
      /\ Head(<<"submit", "render">>) = "submit" /\ Head(<<"render">>) = "render"
      /\ Head(<<"link", "run">>) = "link" /\ Head(<<"run">>) = "run"
      /\ Head(<<"reverse">>) = "reverse" /\ Head(<<"diff">>) = "diff" /\ Head(<<"read">>) = "read"
  OBVIOUS
<1>2. Tail(<<"link", "submit", "render">>) = <<"submit", "render">>
  OBVIOUS
<1>3. Tail(<<"submit", "render">>) = <<"render">>
  OBVIOUS
<1>4. Tail(<<"link", "run">>) = <<"run">>
  OBVIOUS
<1> QED BY <1>1, <1>2, <1>3, <1>4

(* No two of them are the same. *)
LEMMA LeftApart ==
    ASSUME NEW left \in Left, left # <<>>
    PROVE  /\ Head(left) = "link" => Tail(left) \in {<<"submit", "render">>, <<"run">>}
           /\ Head(left) = "link" => left \in {<<"link", "submit", "render">>, <<"link", "run">>}
           /\ Head(left) = "submit" => left = <<"submit", "render">>
           /\ Head(left) = "render" => left = <<"render">>
           /\ Head(left) = "run" => left = <<"run">>
           /\ Head(left) = "reverse" <=> left = <<"reverse">>
           /\ Head(left) = "diff" => left = <<"diff">>
           /\ Head(left) = "read" => left = <<"read">>
  BY LeftFacts DEF Left

(* One call moves, and neither before nor after is it about to reverse. *)
LEMMA CallMoves ==
    ASSUME ToolsInv, NEW c \in McpCalls, NEW new \in ToolCall, CallIsTrue(c, new, approvals),
           calls' = [calls EXCEPT ![c] = new],
           calls[c].left # <<"reverse">>, new.left # <<"reverse">>,
           UNCHANGED <<entries, approvals, pending, cleared, reversed>>,
           held' \in [HeldSets -> Statuses], StudioHasApproved'
    PROVE  ToolsInv'
<1>1. ConnectorsTypeOK'
  BY DEF ToolsInv, ConnectorsTypeOK
<1>2. CallsAreTrue'
  <2>1. \A k \in McpCalls : CallIsTrue(k, calls'[k], approvals)
    BY DEF ToolsInv, ConnectorsTypeOK, CallsAreTrue
  <2> QED BY <2>1 DEF CallsAreTrue, CallIsTrue
<1>3. \A j \in Entries : Reversing(j)' = Reversing(j)
  BY DEF Reversing, ToolsInv, ConnectorsTypeOK
<1>4. ClearancesCover'
  BY <1>3 DEF ToolsInv, ClearancesCover
<1> QED BY <1>1, <1>2, <1>4 DEF ToolsInv

(* What an answer is made of. *)
LEMMA AnswerTypes ==
    /\ Silence \in ToolAnswer /\ Silence.code = "pending" /\ ~Silence.approved
    /\ \A code \in Codes, b \in BOOLEAN :
          /\ ToolFailure(code, b) \in ToolAnswer
          /\ ToolFailure(code, b).code = code
          /\ ~ToolFailure(code, b).approved
    /\ \A names \in McpCalls \cup {"none"}, b \in BOOLEAN :
          /\ TextResult(names, b) \in ToolAnswer
          /\ TextResult(names, b).code = "ok"
          /\ TextResult(names, b).names = names
          /\ TextResult(names, b).approved = b
  BY DEF Silence, ToolFailure, TextResult, ToolAnswer, Codes

(* A call is answered. *)
LEMMA CallFinishes ==
    ASSUME NEW c \in McpCalls, calls \in [McpCalls -> ToolCall],
           CallIsTrue(c, calls[c], approvals), NEW answer \in ToolAnswer, Finish(c, answer),
           calls[c].tool = "apply_changeset" /\ answer.approved => calls[c].target \in approvals,
           calls[c].stored => answer.names = c
    PROVE  \E new \in ToolCall : /\ calls' = [calls EXCEPT ![c] = new]
                                 /\ CallIsTrue(c, new, approvals)
                                 /\ new.left = <<>>
<1>1. calls[c] \in ToolCall
  OBVIOUS
<1>2. PICK new : new = [calls[c] EXCEPT !.answer = answer, !.left = <<>>]
  OBVIOUS
<1>3. calls' = [calls EXCEPT ![c] = new]
  BY <1>2 DEF Finish
<1>4. /\ new \in ToolCall /\ new.left = <<>> /\ new.answer = answer
      /\ new.tool = calls[c].tool /\ new.target = calls[c].target /\ new.stored = calls[c].stored
  BY <1>1, <1>2 DEF ToolCall, Left
<1>5. <<>> # <<"reverse">> /\ <<>> # <<"diff">>
  OBVIOUS
<1>6. CallIsTrue(c, new, approvals)
  BY <1>4, <1>5 DEF CallIsTrue
<1> QED BY <1>3, <1>4, <1>6

(* A call that has stored nothing fails. *)
LEMMA CallFails ==
    ASSUME NEW c \in McpCalls, calls \in [McpCalls -> ToolCall],
           CallIsTrue(c, calls[c], approvals), ~calls[c].stored,
           NEW code \in Codes, NEW b \in BOOLEAN, Fails(c, code, b)
    PROVE  \E new \in ToolCall : /\ calls' = [calls EXCEPT ![c] = new]
                                 /\ CallIsTrue(c, new, approvals)
                                 /\ new.left = <<>>
<1>1. PICK answer \in ToolAnswer : Finish(c, answer) /\ ~answer.approved
  BY AnswerTypes DEF Fails
<1> QED BY <1>1, CallFinishes

(* What a tool's client hears is one of the codes. *)
LEMMA CodeIsHeard ==
    ASSUME NEW fate \in Fates, NEW subject,
           NEW verb \in {"link", "read", "submit", "run", "diff", "reverse"}
    PROVE  CodeHeard(fate, verb, subject) \in Codes
<1>1. Refusals[verb] \in Codes
  BY DEF Refusals, Codes
<1> QED BY <1>1 DEF CodeHeard, Codes, Fates

(* What a daemon may hold of a proposal needs no approval. *)
LEMMA ProposalsNeedNone ==
    ASSUME ToolsInv, NEW s \in HeldSets, NEW v \in ProposalVerdicts \cup {"none"},
           held' = held \/ held' = [held EXCEPT ![s] = v], approvals' = approvals
    PROVE  held' \in [HeldSets -> Statuses] /\ StudioHasApproved'
<1>1. v \in Statuses /\ v \notin AwaitingStudio \cup ToldByStudio
  BY DEF ProposalVerdicts, Statuses, AwaitingStudio, ToldByStudio
<1>2. held \in [HeldSets -> Statuses]
  BY DEF ToolsInv, ConnectorsTypeOK
<1> QED BY <1>1, <1>2 DEF ToolsInv, StudioHasApproved

(* What is known of a call with requests left. *)
LEMMA AskingFacts ==
    ASSUME ToolsInv, NEW c \in McpCalls
    PROVE  /\ calls \in [McpCalls -> ToolCall] /\ calls[c] \in ToolCall
           /\ CallIsTrue(c, calls[c], approvals)
           /\ Asking(c, "link") =>
                 /\ calls[c].left # <<"reverse">> /\ ~calls[c].stored
                 /\ Tail(calls[c].left) \in {<<"submit", "render">>, <<"run">>}
           /\ Asking(c, "submit") => calls[c].left = <<"submit", "render">> /\ ~calls[c].stored
           /\ Asking(c, "render") => calls[c].left = <<"render">>
           /\ Asking(c, "run") => calls[c].left = <<"run">> /\ ~calls[c].stored
           /\ Asking(c, "diff") => calls[c].left = <<"diff">> /\ ~calls[c].stored
           /\ Asking(c, "read") => calls[c].left = <<"read">> /\ ~calls[c].stored
           /\ Asking(c, "reverse") <=> calls[c].left = <<"reverse">>
           /\ Asking(c, "reverse") => ~calls[c].stored
<1>1. /\ calls \in [McpCalls -> ToolCall] /\ calls[c] \in ToolCall
      /\ CallIsTrue(c, calls[c], approvals)
  BY DEF ToolsInv, ConnectorsTypeOK, CallsAreTrue
<1>2. calls[c].left \in Left
  BY <1>1 DEF ToolCall
<1>3. <<"reverse">> # <<>>
  OBVIOUS
<1>4. \A verb : Asking(c, verb) <=> calls[c].left # <<>> /\ Head(calls[c].left) = verb
  BY DEF Asking
<1>5. calls[c].stored => calls[c].left \in {<<>>, <<"render">>}
  BY <1>1 DEF CallIsTrue
<1> QED BY <1>1, <1>2, <1>3, <1>4, <1>5, LeftApart, LeftFacts

(* resolveProjectId *)
LEMMA ProjectKeeps ==
    ASSUME ToolsInv, NEW c \in McpCalls, NEW fate \in Fates, NEW has \in BOOLEAN,
           NEW b \in BOOLEAN, AskProject(c, fate, has, b)
    PROVE  ToolsInv'
<1> DEFINE code == CodeHeard(fate, "link", "none")
<1>1. /\ Asking(c, "link")
      /\ UNCHANGED <<held, entries, approvals, pending, cleared, reversed, shell>>
      /\ Fails(c, code, b) \/ Fails(c, "not_found", FALSE) \/ MoveOn(c)
  BY DEF AskProject
<1>2. code \in Codes /\ "not_found" \in Codes
  BY CodeIsHeard DEF Codes
<1>3. \E new \in ToolCall : /\ calls' = [calls EXCEPT ![c] = new]
                            /\ CallIsTrue(c, new, approvals)
                            /\ new.left # <<"reverse">>
  <2>0. <<>> # <<"reverse">> /\ <<>> # <<"submit", "render">> /\ <<"run">> # <<"reverse">>
        /\ <<"submit", "render">> # <<"reverse">> /\ <<"run">> # <<"diff">>
        /\ <<"submit", "render">> # <<"diff">>
    OBVIOUS
  <2>1. CASE Fails(c, code, b) \/ Fails(c, "not_found", FALSE)
    <3> HIDE DEF code
    <3> QED BY <1>1, <1>2, <2>0, <2>1, AskingFacts, CallFails
  <2>2. CASE MoveOn(c)
    <3>1. PICK new : new = [calls[c] EXCEPT !.left = Tail(calls[c].left)]
      OBVIOUS
    <3>2. calls' = [calls EXCEPT ![c] = new]
      BY <2>2, <3>1, AskingFacts DEF MoveOn
    <3>3. /\ new \in ToolCall /\ new.left \in {<<"submit", "render">>, <<"run">>}
          /\ new.tool = calls[c].tool /\ new.target = calls[c].target
          /\ new.answer = calls[c].answer /\ ~new.stored
      BY <1>1, <3>1, AskingFacts DEF ToolCall, Left
    <3>4. calls[c].left # <<>> /\ CallIsTrue(c, calls[c], approvals)
      BY <1>1, AskingFacts DEF Asking
    <3>5. CallIsTrue(c, new, approvals)
      BY <2>0, <3>3, <3>4 DEF CallIsTrue
    <3> QED BY <2>0, <3>2, <3>3, <3>5
  <2> QED BY <1>1, <2>1, <2>2
<1>4. held' \in [HeldSets -> Statuses] /\ StudioHasApproved'
  BY <1>1 DEF ToolsInv, ConnectorsTypeOK, StudioHasApproved
<1> QED BY <1>1, <1>3, <1>4, AskingFacts, CallMoves

(* The reads. *)
LEMMA ReadKeeps ==
    ASSUME ToolsInv, NEW c \in McpCalls, NEW fate \in Fates, NEW b \in BOOLEAN,
           AskRead(c, fate, b)
    PROVE  ToolsInv'
<1> DEFINE code == CodeHeard(fate, "read", "none")
<1>1. /\ Asking(c, "read")
      /\ UNCHANGED <<held, entries, approvals, pending, cleared, reversed, shell>>
      /\ Fails(c, code, b) \/ Finish(c, TextResult("none", FALSE))
  BY DEF AskRead
<1>2. code \in Codes
  BY CodeIsHeard
<1>3. <<>> # <<"reverse">> /\ <<"read">> # <<"reverse">>
  OBVIOUS
<1>4. \E new \in ToolCall : /\ calls' = [calls EXCEPT ![c] = new]
                            /\ CallIsTrue(c, new, approvals) /\ new.left = <<>>
  <2> HIDE DEF code
  <2>1. CASE Fails(c, code, b)
    BY <1>1, <1>2, <2>1, AskingFacts, CallFails
  <2>2. CASE Finish(c, TextResult("none", FALSE))
    BY <1>1, <2>2, AskingFacts, CallFinishes, AnswerTypes
  <2> QED BY <1>1, <2>1, <2>2
<1>5. held' \in [HeldSets -> Statuses] /\ StudioHasApproved'
  BY <1>1 DEF ToolsInv, ConnectorsTypeOK, StudioHasApproved
<1> QED BY <1>1, <1>3, <1>4, <1>5, AskingFacts, CallMoves

(* A proposal is submitted. *)
LEMMA SubmitKeeps ==
    ASSUME ToolsInv, NEW c \in McpCalls, NEW fate \in Fates, NEW v \in ProposalVerdicts,
           NEW b \in BOOLEAN, AskSubmit(c, fate, v, b)
    PROVE  ToolsInv'
<1> DEFINE code == CodeHeard(fate, "submit", "none")
<1>1. /\ Asking(c, "submit")
      /\ UNCHANGED <<entries, approvals, pending, cleared, reversed, shell>>
      /\ held' = held \/ held' = [held EXCEPT ![c] = v]
      /\ \/ Fails(c, code, b)
         \/ calls' = [calls EXCEPT ![c].left = Tail(@), ![c].stored = TRUE]
  BY DEF AskSubmit
<1>2. code \in Codes
  BY CodeIsHeard
<1>3. /\ <<>> # <<"reverse">> /\ <<"submit", "render">> # <<"reverse">>
      /\ <<"render">> # <<"reverse">> /\ <<"render">> # <<"diff">> /\ <<"render">> # <<>>
      /\ <<"submit", "render">> # <<>>
  OBVIOUS
<1>4. \E new \in ToolCall : /\ calls' = [calls EXCEPT ![c] = new]
                            /\ CallIsTrue(c, new, approvals)
                            /\ new.left # <<"reverse">>
  <2> HIDE DEF code
  <2>1. CASE Fails(c, code, b)
    BY <1>1, <1>2, <1>3, <2>1, AskingFacts, CallFails
  <2>2. CASE calls' = [calls EXCEPT ![c].left = Tail(@), ![c].stored = TRUE]
    <3>1. PICK new : new = [calls[c] EXCEPT !.left = Tail(calls[c].left), !.stored = TRUE]
      OBVIOUS
    <3>2. calls' = [calls EXCEPT ![c] = new]
      BY <2>2, <3>1, AskingFacts
    <3>3. Tail(calls[c].left) = <<"render">>
      BY <1>1, AskingFacts, LeftFacts
    <3>4. /\ new \in ToolCall /\ new.left = <<"render">>
          /\ new.tool = calls[c].tool /\ new.target = calls[c].target
          /\ new.answer = calls[c].answer /\ new.stored
      BY <3>1, <3>3, AskingFacts DEF ToolCall, Left
    <3>5. calls[c].left # <<>> /\ CallIsTrue(c, calls[c], approvals)
      BY <1>1, <1>3, AskingFacts
    <3>6. CallIsTrue(c, new, approvals)
      BY <1>3, <3>4, <3>5 DEF CallIsTrue
    <3> QED BY <1>3, <3>2, <3>4, <3>6
  <2> QED BY <1>1, <2>1, <2>2
<1>5. held' \in [HeldSets -> Statuses] /\ StudioHasApproved'
  BY <1>1, ProposalsNeedNone DEF HeldSets
<1> QED BY <1>1, <1>3, <1>4, <1>5, AskingFacts, CallMoves

(* The proposal is named, whether or not its diff came. *)
LEMMA RenderKeeps ==
    ASSUME ToolsInv, NEW c \in McpCalls, AskRender(c)
    PROVE  ToolsInv'
<1>1. /\ Asking(c, "render") /\ Finish(c, TextResult(c, FALSE))
      /\ UNCHANGED <<held, entries, approvals, pending, cleared, reversed, shell>>
  BY DEF AskRender
<1>2. <<>> # <<"reverse">> /\ <<"render">> # <<"reverse">>
  OBVIOUS
<1>3. \E new \in ToolCall : /\ calls' = [calls EXCEPT ![c] = new]
                            /\ CallIsTrue(c, new, approvals) /\ new.left = <<>>
  BY <1>1, AskingFacts, CallFinishes, AnswerTypes
<1>4. held' \in [HeldSets -> Statuses] /\ StudioHasApproved'
  BY <1>1 DEF ToolsInv, ConnectorsTypeOK, StudioHasApproved
<1> QED BY <1>1, <1>2, <1>3, <1>4, AskingFacts, CallMoves

(* A run is started and leaves a set, or none. *)
LEMMA RunKeeps ==
    ASSUME ToolsInv, NEW c \in McpCalls, NEW fate \in Fates,
           NEW v \in ProposalVerdicts \cup {"none"}, NEW b \in BOOLEAN, AskRun(c, fate, v, b)
    PROVE  ToolsInv'
<1> DEFINE code == CodeHeard(fate, "run", "none")
           answer == TextResult(IF v # "none" THEN c ELSE "none", FALSE)
<1>1. /\ Asking(c, "run")
      /\ UNCHANGED <<entries, approvals, pending, cleared, reversed, shell>>
      /\ held' = held \/ held' = [held EXCEPT ![c] = v]
      /\ \/ Fails(c, code, b)
         \/ calls' = [calls EXCEPT ![c].left = <<>>, ![c].stored = (v # "none"),
                                   ![c].answer = answer]
  BY DEF AskRun
<1>2. code \in Codes
  BY CodeIsHeard
<1>3. /\ <<>> # <<"reverse">> /\ <<>> # <<"diff">> /\ <<"run">> # <<"reverse">>
  OBVIOUS
<1>4. /\ answer \in ToolAnswer /\ ~answer.approved
      /\ v # "none" => answer.names = c
  BY AnswerTypes
<1>5. \E new \in ToolCall : /\ calls' = [calls EXCEPT ![c] = new]
                            /\ CallIsTrue(c, new, approvals) /\ new.left = <<>>
  <2> HIDE DEF code, answer
  <2>1. CASE Fails(c, code, b)
    BY <1>1, <1>2, <1>3, <2>1, AskingFacts, CallFails
  <2>2. CASE calls' = [calls EXCEPT ![c].left = <<>>, ![c].stored = (v # "none"),
                                    ![c].answer = answer]
    <3>1. PICK stored \in BOOLEAN : stored = (v # "none")
      OBVIOUS
    <3>2. PICK new : new = [calls[c] EXCEPT !.left = <<>>, !.stored = stored, !.answer = answer]
      OBVIOUS
    <3>3. calls' = [calls EXCEPT ![c] = new]
      BY <2>2, <3>1, <3>2, AskingFacts
    <3>4. /\ new \in ToolCall /\ new.left = <<>> /\ new.answer = answer /\ new.stored = stored
          /\ new.tool = calls[c].tool /\ new.target = calls[c].target
      BY <1>4, <3>2, AskingFacts DEF ToolCall, Left
    <3>5. CallIsTrue(c, new, approvals)
      BY <1>3, <1>4, <3>1, <3>4 DEF CallIsTrue
    <3> QED BY <3>3, <3>4, <3>5
  <2> QED BY <1>1, <2>1, <2>2
<1>6. held' \in [HeldSets -> Statuses] /\ StudioHasApproved'
  BY <1>1, ProposalsNeedNone DEF HeldSets
<1> QED BY <1>1, <1>3, <1>5, <1>6, AskingFacts, CallMoves

(* A diff is read, or what became of a set: only a set that Studio has, or *)
(* had, is said to be approved.                                            *)
LEMMA AskDiffKeeps ==
    ASSUME ToolsInv, NEW c \in McpCalls, NEW fate \in Fates, NEW b \in BOOLEAN,
           AskDiff(c, fate, b)
    PROVE  ToolsInv'
<1> DEFINE s == calls[c].target
           code == CodeHeard(fate, "diff", s)
<1>1. /\ Asking(c, "diff")
      /\ UNCHANGED <<held, entries, approvals, pending, cleared, reversed, shell>>
      /\ Fails(c, code, b) \/ Finish(c, ApplyAnswer(s)) \/ Finish(c, TextResult(s, FALSE))
  BY DEF AskDiff
<1>2. code \in Codes
  BY CodeIsHeard
<1>3. <<>> # <<"reverse">> /\ <<"diff">> # <<"reverse">>
  OBVIOUS
<1>4. s \in McpCalls
  BY <1>1, AskingFacts DEF CallIsTrue
<1>5. ApplyAnswer(s) \in ToolAnswer /\ (ApplyAnswer(s).approved => s \in approvals)
  <2>1. CASE held[s] \in AwaitingStudio \cup ToldByStudio
    <3>1. ApplyAnswer(s) = TextResult(s, TRUE)
      BY <2>1 DEF ApplyAnswer, AwaitingStudio, ToldByStudio
    <3>2. s \in approvals
      BY <1>4, <2>1 DEF ToolsInv, StudioHasApproved, HeldSets
    <3> HIDE DEF s
    <3> QED BY <1>4, <3>1, <3>2, AnswerTypes
  <2>2. CASE held[s] \notin AwaitingStudio \cup ToldByStudio
    <3>1. ApplyAnswer(s) \in {ToolFailure("stale_base", FALSE), ToolFailure("not_approved", FALSE)}
      BY <2>2 DEF ApplyAnswer
    <3>2. "stale_base" \in Codes /\ "not_approved" \in Codes
      BY DEF Codes
    <3>3. \A kind \in Codes :
             ToolFailure(kind, FALSE) \in ToolAnswer /\ ~ToolFailure(kind, FALSE).approved
      BY AnswerTypes
    <3> HIDE DEF s
    <3> QED BY <3>1, <3>2, <3>3
  <2> QED BY <2>1, <2>2
<1>6. \E new \in ToolCall : /\ calls' = [calls EXCEPT ![c] = new]
                            /\ CallIsTrue(c, new, approvals) /\ new.left = <<>>
  <2> HIDE DEF code
  <2>1. CASE Fails(c, code, b)
    BY <1>1, <1>2, <2>1, AskingFacts, CallFails
  <2>2. CASE Finish(c, ApplyAnswer(s))
    BY <1>1, <1>5, <2>2, AskingFacts, CallFinishes
  <2>3. CASE Finish(c, TextResult(s, FALSE))
    BY <1>1, <1>4, <2>3, AskingFacts, CallFinishes, AnswerTypes
  <2> QED BY <1>1, <2>1, <2>2, <2>3
<1>7. held' \in [HeldSets -> Statuses] /\ StudioHasApproved'
  BY <1>1 DEF ToolsInv, ConnectorsTypeOK, StudioHasApproved
<1> QED BY <1>1, <1>3, <1>6, <1>7, AskingFacts, CallMoves

(* An entry whose reversal is asked for is still an entry. *)
LEMMA EntryAsked ==
    ASSUME NEW old \in [Entries -> Entry], NEW j \in Entries
    PROVE  [old EXCEPT ![j].asked = TRUE] \in [Entries -> Entry]
<1>1. [old[j] EXCEPT !.asked = TRUE] \in Entry
  BY DEF Entry
<1> QED BY <1>1

(* A reversal that was cleared is asked for: the call counts as a reversal *)
(* instead of as one to come.                                              *)
LEMMA AskReverseKeeps ==
    ASSUME ToolsInv, NEW c \in McpCalls, NEW fate \in Fates, NEW b \in BOOLEAN,
           AskReverse(c, fate, b)
    PROVE  ToolsInv'
<1>j. PICK j : j = calls[c].target
  OBVIOUS
<1>k. PICK code : code = CodeHeard(fate, "reverse", j)
  OBVIOUS
<1>0. ConnectorsTypeOK /\ ClearancesCover
  BY DEF ToolsInv
<1>1. /\ Asking(c, "reverse")
      /\ UNCHANGED <<held, approvals, pending, cleared, shell>>
      /\ reversed' = [reversed EXCEPT ![j] = @ + 1]
      /\ entries' = entries \/ entries' = [entries EXCEPT ![j].asked = TRUE]
      /\ Fails(c, code, b) \/ Finish(c, TextResult("none", TRUE))
  BY <1>j, <1>k DEF AskReverse
<1>2. code \in Codes
  BY <1>k, CodeIsHeard
<1>3. /\ calls[c].left = <<"reverse">> /\ ~calls[c].stored
      /\ j \in Entries /\ calls[c].tool = "rollback"
  BY <1>j, <1>1, AskingFacts DEF CallIsTrue
<1>4. <<>> # <<"reverse">>
  OBVIOUS
<1>5. PICK new \in ToolCall : /\ calls' = [calls EXCEPT ![c] = new]
                              /\ CallIsTrue(c, new, approvals) /\ new.left = <<>>
  <2>1. CASE Fails(c, code, b)
    BY <1>2, <1>3, <2>1, AskingFacts, CallFails
  <2>2. CASE Finish(c, TextResult("none", TRUE))
    BY <1>3, <2>2, AskingFacts, CallFinishes, AnswerTypes
  <2> QED BY <1>1, <2>1, <2>2
<1>6. ConnectorsTypeOK'
  <2>1. entries' \in [Entries -> Entry]
    BY <1>0, <1>1, <1>3, EntryAsked DEF ConnectorsTypeOK
  <2>2. reversed' \in [Entries -> Nat]
    BY <1>0, <1>1, <1>3 DEF ConnectorsTypeOK
  <2> QED BY <1>0, <1>1, <1>5, <2>1, <2>2 DEF ConnectorsTypeOK
<1>7. StudioHasApproved'
  BY <1>1 DEF ToolsInv, StudioHasApproved
<1>8. CallsAreTrue'
  <2>1. \A k \in McpCalls : CallIsTrue(k, calls'[k], approvals)
    BY <1>0, <1>5 DEF ToolsInv, ConnectorsTypeOK, CallsAreTrue
  <2> QED BY <1>1, <2>1 DEF CallsAreTrue, CallIsTrue
<1>9. ClearancesCover'
  <2>1. c \in Reversing(j) /\ Reversing(j)' = Reversing(j) \ {c}
    BY <1>j, <1>0, <1>3, <1>4, <1>5 DEF Reversing, ConnectorsTypeOK
  <2>2. ASSUME NEW i \in Entries \ {j} PROVE Reversing(i)' = Reversing(i)
    <3>1. \A k \in McpCalls \ {c} : calls'[k] = calls[k]
      BY <1>0, <1>5 DEF ConnectorsTypeOK
    <3>2. c \notin Reversing(i)
      BY <1>j, <2>2 DEF Reversing
    <3>3. calls'[c].left = <<>>
      BY <1>0, <1>5 DEF ConnectorsTypeOK
    <3>4. c \notin Reversing(i)'
      BY <1>4, <3>3 DEF Reversing
    <3> QED BY <3>1, <3>2, <3>4 DEF Reversing
  <2>3. IsFiniteSet(Reversing(j)) /\ Cardinality(Reversing(j)) \in Nat
    BY ConnectorsAssumption, FS_Subset, FS_CardinalityType DEF Reversing
  <2>4. Cardinality(Reversing(j)') = Cardinality(Reversing(j)) - 1
    BY <2>1, <2>3, FS_RemoveElement
  <2>5. reversed'[j] = reversed[j] + 1 /\ \A i \in Entries \ {j} : reversed'[i] = reversed[i]
    BY <1>0, <1>1, <1>3 DEF ConnectorsTypeOK
  <2>6. pending' = pending /\ cleared' = cleared
    BY <1>1
  <2>7. reversed[j] \in Nat /\ cleared[j] \in Int
    BY <1>0, <1>3 DEF ConnectorsTypeOK
  <2>8. ASSUME NEW i \in Entries
        PROVE  reversed'[i] + Cardinality(Reversing(i)') + (IF i \in pending' THEN 1 ELSE 0)
                  <= cleared'[i]
    <3>1. CASE i = j
      <4>1. reversed[j] + Cardinality(Reversing(j)) + (IF j \in pending THEN 1 ELSE 0) <= cleared[j]
        BY <1>0, <1>3 DEF ClearancesCover
      <4> QED BY <2>3, <2>4, <2>5, <2>6, <2>7, <3>1, <4>1
    <3>2. CASE i # j
      BY <1>0, <2>2, <2>5, <2>6, <3>2 DEF ClearancesCover
    <3> QED BY <3>1, <3>2
  <2> QED BY <2>8 DEF ClearancesCover
<1> QED BY <1>6, <1>7, <1>8, <1>9 DEF ToolsInv

(* A tool is called: it is refused, or has its requests before it. *)
LEMMA CallKeeps ==
    ASSUME ToolsInv, NEW c \in McpCalls, NEW tool \in Tools, NEW t \in SubjectsOf(tool),
           NEW named \in BOOLEAN, NEW ok \in BOOLEAN, CallTool(c, tool, t, named, ok)
    PROVE  ToolsInv'
<1>1. /\ calls \in [McpCalls -> ToolCall] /\ calls[c].tool = "none" /\ calls[c].left = <<>>
      /\ UNCHANGED <<held, entries, approvals, pending, cleared, reversed, shell>>
  BY AskingFacts DEF CallTool, CallIsTrue
<1>2. <<>> # <<"reverse">> /\ <<>> # <<"diff">> /\ <<>> \in Left
  BY DEF Left
<1>3. t \in McpCalls \cup Entries \cup {"none"}
  BY DEF SubjectsOf
<1>4. \E new \in ToolCall : /\ calls' = [calls EXCEPT ![c] = new]
                            /\ CallIsTrue(c, new, approvals) /\ new.left # <<"reverse">>
  <2>1. ASSUME NEW code \in Codes,
               calls' = [calls EXCEPT ![c] = [NoToolCall EXCEPT !.tool = tool, !.target = t,
                                                 !.answer = ToolFailure(code, FALSE)]]
        PROVE  \E new \in ToolCall : /\ calls' = [calls EXCEPT ![c] = new]
                                     /\ CallIsTrue(c, new, approvals) /\ new.left # <<"reverse">>
    <3>1. PICK new : new = [NoToolCall EXCEPT !.tool = tool, !.target = t,
                                             !.answer = ToolFailure(code, FALSE)]
      OBVIOUS
    <3>2. PICK answer \in ToolAnswer : answer = ToolFailure(code, FALSE) /\ ~answer.approved
      BY AnswerTypes
    <3>3. /\ new \in ToolCall /\ new.left = <<>> /\ ~new.stored /\ ~new.answer.approved
      BY <1>2, <1>3, <3>1, <3>2 DEF NoToolCall, ToolCall
    <3> QED BY <1>2, <2>1, <3>1, <3>3 DEF CallIsTrue
  <2>2. ASSUME tool # "rollback", tool \notin NoRoute \cup NoSandbox,
               calls' = [calls EXCEPT ![c] = [NoToolCall EXCEPT !.tool = tool, !.target = t,
                                                 !.left = RequestsOf(tool, named)]]
        PROVE  \E new \in ToolCall : /\ calls' = [calls EXCEPT ![c] = new]
                                     /\ CallIsTrue(c, new, approvals) /\ new.left # <<"reverse">>
    <3>1. PICK new : new = [NoToolCall EXCEPT !.tool = tool, !.target = t,
                                             !.left = RequestsOf(tool, named)]
      OBVIOUS
    <3>2. PICK left \in Left : left = RequestsOf(tool, named) /\ left # <<"reverse">>
                               /\ (left = <<"diff">> => tool \in {"diff_changeset", "apply_changeset"})
      <4>1. RequestsOf(tool, named) \in
               {<<"submit", "render">>, <<"link", "submit", "render">>, <<"run">>, <<"link", "run">>,
                <<"diff">>, <<"read">>}
        BY <2>2, ConnectorsAssumption DEF RequestsOf, ParsingTools, ReadingTools, NoRoute, NoSandbox
      <4>2. RequestsOf(tool, named) \in Left \ {<<"reverse">>}
        BY <4>1, LeftFacts DEF Left
      <4>3. RequestsOf(tool, named) = <<"diff">> => tool \in {"diff_changeset", "apply_changeset"}
        BY <2>2, ConnectorsAssumption, LeftFacts
           DEF RequestsOf, ParsingTools, ReadingTools, NoRoute, NoSandbox
      <4> QED BY <4>2, <4>3
    <3>3. left = <<"diff">> => t \in McpCalls
      BY <3>2 DEF SubjectsOf
    <3>4. /\ new \in ToolCall /\ new.left = left /\ ~new.stored /\ new.answer = Silence
          /\ new.target = t /\ new.tool = tool
      BY <1>3, <3>1, <3>2, AnswerTypes DEF NoToolCall, ToolCall
    <3>5. tool # "none"
      BY ConnectorsAssumption DEF ParsingTools, ReadingTools, NoRoute, NoSandbox
    <3>6. ~new.answer.approved
      BY <3>4, AnswerTypes
    <3>7. CallIsTrue(c, new, approvals)
      BY <3>2, <3>3, <3>4, <3>5, <3>6 DEF CallIsTrue
    <3> QED BY <2>2, <3>1, <3>2, <3>4, <3>7
  <2>3. \/ \E code \in {"invalid_request", "not_found", "provider_unconfigured"} :
              calls' = [calls EXCEPT ![c] = [NoToolCall EXCEPT !.tool = tool, !.target = t,
                                                !.answer = ToolFailure(code, FALSE)]]
        \/ /\ tool # "rollback" /\ tool \notin NoRoute \cup NoSandbox
           /\ calls' = [calls EXCEPT ![c] = [NoToolCall EXCEPT !.tool = tool, !.target = t,
                                                 !.left = RequestsOf(tool, named)]]
    <3>1. CASE ~ok
      BY <3>1 DEF CallTool
    <3>2. CASE ok /\ tool \in NoRoute
      BY <3>2 DEF CallTool, NoRoute, NoSandbox
    <3>3. CASE ok /\ tool \in NoSandbox
      BY <3>3 DEF CallTool, NoRoute, NoSandbox
    <3>4. CASE ok /\ tool \notin NoRoute \cup NoSandbox
      BY <3>4 DEF CallTool
    <3> QED BY <3>1, <3>2, <3>3, <3>4
  <2>4. {"invalid_request", "not_found", "provider_unconfigured"} \subseteq Codes
    BY DEF Codes
  <2> QED BY <2>1, <2>2, <2>3, <2>4
<1>5. held' \in [HeldSets -> Statuses] /\ StudioHasApproved'
  BY <1>1 DEF ToolsInv, ConnectorsTypeOK, StudioHasApproved
<1> QED BY <1>1, <1>2, <1>4, <1>5, CallMoves

(* The gate: a clearance becomes a call that will reverse, or the call is  *)
(* refused.                                                                *)
LEMMA RollbackKeeps ==
    ASSUME ToolsInv, NEW c \in McpCalls, NEW j \in Entries, CallRollback(c, j)
    PROVE  ToolsInv'
<1>0. ConnectorsTypeOK /\ ClearancesCover
  BY DEF ToolsInv
<1>1. /\ calls[c].tool = "none" /\ calls[c].left = <<>>
      /\ pending' = pending \ {j}
      /\ UNCHANGED <<held, entries, approvals, cleared, reversed, shell>>
  BY AskingFacts DEF CallRollback, Consumed, CallIsTrue
<1>2. /\ <<>> # <<"reverse">> /\ <<>> # <<"diff">> /\ <<"reverse">> # <<"diff">>
      /\ <<>> \in Left /\ <<"reverse">> \in Left
  BY DEF Left
<1>3. PICK new \in ToolCall :
         /\ calls' = [calls EXCEPT ![c] = new] /\ CallIsTrue(c, new, approvals) /\ new.target = j
         /\ new.left = IF j \in pending THEN <<"reverse">> ELSE <<>>
  <2>1. CASE j \in pending
    <3>1. PICK new : new = [[NoToolCall EXCEPT !.tool = "rollback", !.target = j]
                               EXCEPT !.left = RequestsOf("rollback", TRUE)]
      OBVIOUS
    <3>2. calls' = [calls EXCEPT ![c] = new]
      BY <2>1, <3>1 DEF CallRollback
    <3>3. RequestsOf("rollback", TRUE) = <<"reverse">>
      <4>1. ASSUME NEW tool, tool = "rollback", NEW named PROVE RequestsOf(tool, named) = <<"reverse">>
        BY <4>1 DEF RequestsOf, ReadingTools
      <4> QED BY <4>1
    <3>4. /\ new \in ToolCall /\ new.left = <<"reverse">> /\ ~new.stored /\ new.answer = Silence
          /\ new.target = j /\ new.tool = "rollback"
      BY <1>2, <3>1, <3>3, AnswerTypes DEF NoToolCall, ToolCall
    <3> QED BY <1>2, <2>1, <3>2, <3>4, AnswerTypes DEF CallIsTrue
  <2>2. CASE j \notin pending
    <3>1. PICK new : new = [[NoToolCall EXCEPT !.tool = "rollback", !.target = j]
                               EXCEPT !.answer = ToolFailure("not_approved", FALSE)]
      OBVIOUS
    <3>2. calls' = [calls EXCEPT ![c] = new]
      BY <2>2, <3>1 DEF CallRollback
    <3>3. PICK answer \in ToolAnswer : answer = ToolFailure("not_approved", FALSE)
      BY AnswerTypes DEF Codes
    <3>4. /\ new \in ToolCall /\ new.left = <<>> /\ ~new.stored
          /\ new.target = j /\ new.tool = "rollback"
      BY <1>2, <3>1, <3>3 DEF NoToolCall, ToolCall
    <3> QED BY <1>2, <2>2, <3>2, <3>4 DEF CallIsTrue
  <2> QED BY <2>1, <2>2
<1>4. ConnectorsTypeOK'
  BY <1>0, <1>1, <1>3 DEF ConnectorsTypeOK
<1>5. StudioHasApproved'
  BY <1>1 DEF ToolsInv, StudioHasApproved
<1>6. CallsAreTrue'
  <2>1. \A k \in McpCalls : CallIsTrue(k, calls'[k], approvals)
    BY <1>0, <1>3 DEF ToolsInv, ConnectorsTypeOK, CallsAreTrue
  <2> QED BY <1>1, <2>1 DEF CallsAreTrue, CallIsTrue
<1>7. ClearancesCover'
  <2>1. /\ \A k \in McpCalls \ {c} : calls'[k] = calls[k]
        /\ calls'[c] = new
    BY <1>0, <1>3 DEF ConnectorsTypeOK
  <2>2. \A i \in Entries : c \notin Reversing(i)
    BY <1>1, <1>2 DEF Reversing
  <2>3. \A i \in Entries \ {j} : Reversing(i)' = Reversing(i)
    BY <1>3, <2>1, <2>2 DEF Reversing
  <2>4. IsFiniteSet(Reversing(j)) /\ Cardinality(Reversing(j)) \in Nat
    BY ConnectorsAssumption, FS_Subset, FS_CardinalityType DEF Reversing
  <2>5. \A i \in Entries \ {j} : i \in pending' <=> i \in pending
    BY <1>1
  <2>6. reversed[j] + Cardinality(Reversing(j)) + (IF j \in pending THEN 1 ELSE 0) <= cleared[j]
    BY <1>0 DEF ClearancesCover
  <2>7. reversed[j] \in Nat /\ cleared[j] \in Int
    BY <1>0 DEF ConnectorsTypeOK
  <2>8. reversed[j] + Cardinality(Reversing(j)') + (IF j \in pending' THEN 1 ELSE 0) <= cleared[j]
    <3>1. CASE j \in pending
      <4>1. Reversing(j)' = Reversing(j) \cup {c}
        BY <1>3, <2>1, <3>1 DEF Reversing
      <4>2. Cardinality(Reversing(j)') = Cardinality(Reversing(j)) + 1
        BY <2>2, <2>4, <4>1, FS_AddElement
      <4> QED BY <1>1, <2>4, <2>6, <2>7, <3>1, <4>2
    <3>2. CASE j \notin pending
      <4>1. Reversing(j)' = Reversing(j)
        BY <1>2, <1>3, <2>1, <2>2, <3>2 DEF Reversing
      <4> QED BY <1>1, <2>6, <3>2, <4>1
    <3> QED BY <3>1, <3>2
  <2> QED BY <1>0, <1>1, <2>3, <2>5, <2>8 DEF ClearancesCover
<1> QED BY <1>4, <1>5, <1>6, <1>7 DEF ToolsInv

(* A clearance is given, or withdrawn before it was used. *)
LEMMA ClearanceKeeps ==
    ASSUME ToolsInv, NEW j \in Entries, RecordClearance(j) \/ RevokeClearance(j)
    PROVE  ToolsInv'
<1>0. ConnectorsTypeOK /\ ClearancesCover
  BY DEF ToolsInv
<1>1. /\ UNCHANGED <<held, entries, approvals, reversed, calls, shell>>
      /\ \/ pending' = pending \cup {j} /\ cleared' = [cleared EXCEPT ![j] = @ + 1]
         \/ /\ pending' = pending \ {j} /\ cleared' = [cleared EXCEPT ![j] = @ - 1]
            /\ j \in pending
  BY DEF RecordClearance, RevokeClearance
<1>2. ConnectorsTypeOK'
  BY <1>0, <1>1 DEF ConnectorsTypeOK
<1>3. StudioHasApproved' /\ CallsAreTrue'
  BY <1>1 DEF ToolsInv, StudioHasApproved, CallsAreTrue, CallIsTrue
<1>4. ClearancesCover'
  <2>1. ASSUME NEW i \in Entries
        PROVE  reversed[i] + Cardinality(Reversing(i)) + (IF i \in pending' THEN 1 ELSE 0)
                  <= cleared'[i]
    <3>1. /\ Cardinality(Reversing(i)) \in Nat /\ reversed[i] \in Nat /\ cleared[i] \in Int
          /\ reversed[i] + Cardinality(Reversing(i)) + (IF i \in pending THEN 1 ELSE 0)
                <= cleared[i]
      <4>1. IsFiniteSet(Reversing(i))
        BY ConnectorsAssumption, FS_Subset DEF Reversing
      <4>2. Cardinality(Reversing(i)) \in Nat
        BY <4>1, FS_CardinalityType
      <4> QED BY <1>0, <4>2 DEF ConnectorsTypeOK, ClearancesCover
    <3>2. CASE i = j
      <4>1. \/ i \in pending' /\ cleared'[i] = cleared[i] + 1
            \/ i \notin pending' /\ i \in pending /\ cleared'[i] = cleared[i] - 1
        BY <1>0, <1>1, <3>2 DEF ConnectorsTypeOK
      <4> QED BY <3>1, <4>1
    <3>3. CASE i # j
      <4>1. (i \in pending' <=> i \in pending) /\ cleared'[i] = cleared[i]
        BY <1>0, <1>1, <3>3 DEF ConnectorsTypeOK
      <4> QED BY <3>1, <4>1
    <3> QED BY <3>2, <3>3
  <2>2. \A i \in Entries : Reversing(i)' = Reversing(i)
    BY <1>1 DEF Reversing
  <2> QED BY <1>1, <2>1, <2>2 DEF ClearancesCover
<1> QED BY <1>2, <1>3, <1>4 DEF ToolsInv

(* A step that leaves the tools alone: what the daemon holds and what was  *)
(* approved may change, and entries.                                       *)
LEMMA DaemonMoves ==
    ASSUME ToolsInv, UNCHANGED <<pending, cleared, reversed, calls>>,
           held' \in [HeldSets -> Statuses], entries' \in [Entries -> Entry],
           approvals \subseteq approvals', StudioHasApproved'
    PROVE  ToolsInv'
<1>1. ConnectorsTypeOK'
  BY DEF ToolsInv, ConnectorsTypeOK
<1>2. CallsAreTrue'
  BY DEF ToolsInv, CallsAreTrue, CallIsTrue
<1>3. ClearancesCover'
  <2>1. \A j \in Entries : Reversing(j)' = Reversing(j)
    BY DEF Reversing
  <2> QED BY <2>1 DEF ToolsInv, ClearancesCover
<1> QED BY <1>1, <1>2, <1>3 DEF ToolsInv

(* Where the command line is, and what that says of the line typed: what   *)
(* it asks for is what the command asks for, it has written only once its  *)
(* command was dispatched, and only of a line that parses.                 *)
ShellRecord ==
    [line : {<<>>} \cup CommandLines, left : Int, exit : {0, 1, 2, 3},
     at : {"ready", "health", "link", "models", "diff", "watch", "reverse", "journal", "run", "ended"},
     wrote : BOOLEAN, pinned : BOOLEAN, hint : BOOLEAN]
ShellFits(sh) ==
    /\ sh \in ShellRecord
    /\ sh.at # "ready" =>
          /\ sh.line \in CommandLines
          /\ sh.pinned <=> (sh.line.command = "run" /\ Given(sh.line, "model"))
    /\ sh.at \notin {"ready", "ended"} \/ sh.wrote => Parses(sh.line)
    /\ sh.at \notin {"ready", "ended"} => sh.line.command # "help"
    /\ sh.at = "health" => sh.line.command = "status"
    /\ sh.at = "models" => sh.line.command \in {"models", "status"}
    /\ sh.at \in {"diff", "watch"} => sh.line.command \in {"apply", "diff"}
    /\ sh.at \in {"reverse", "journal"} => sh.line.command = "rollback"
    /\ sh.at = "run" => sh.line.command = "run"
    /\ sh.at = "journal" => sh.wrote
    /\ sh.wrote => sh.at \in {"journal", "ended"} /\ sh.line.command \in {"run", "rollback"}
    /\ sh.hint => sh.at = "ended"

(* What an exit code says, of what the daemon holds. *)
ExitFits(sh, sets, journals) ==
    sh.at = "ended" =>
        /\ sh.exit = 0 /\ sh.line.command = "apply" => sets[sh.line.target] = "applied"
        /\ sh.exit = 0 /\ sh.line.command = "rollback" => journals[sh.line.target].done /\ sh.wrote
        /\ sh.exit = 2 => ~sh.wrote
        /\ sh.line.command = "run" => (sh.hint <=> sh.exit = 0)

ShellInv ==
    /\ ShellFits(shell)
    /\ ExitFits(shell, held, entries)
    /\ connector = "mcp" => shell.at = "ready"

ConnectorsInv == ToolsInv /\ ShellInv

(* A command ends. *)
LEMMA ShellEnds ==
    ASSUME ShellFits(shell), shell.at \notin {"ready", "ended"}, NEW exit \in {0, 1, 2, 3},
           EndWith(exit), UNCHANGED <<held, entries>>,
           exit = 0 /\ shell.line.command = "apply" => held[shell.line.target] = "applied",
           exit = 0 /\ shell.line.command = "rollback" =>
              entries[shell.line.target].done /\ shell.wrote,
           exit = 2 => ~shell.wrote,
           shell.line.command = "run" => exit # 0
    PROVE  ShellFits(shell') /\ ExitFits(shell', held', entries')
<1>1. PICK new : new = [shell EXCEPT !.at = "ended", !.exit = exit]
  OBVIOUS
<1>2. shell' = new /\ shell \in ShellRecord
  BY <1>1 DEF EndWith, ShellFits
<1>3. /\ new \in ShellRecord /\ new.at = "ended" /\ new.exit = exit /\ new.line = shell.line
      /\ new.wrote = shell.wrote /\ new.pinned = shell.pinned /\ new.hint = shell.hint
  BY <1>1, <1>2 DEF ShellRecord
<1>4. ShellFits(new)
  BY <1>3 DEF ShellFits
<1>5. ExitFits(new, held, entries)
  BY <1>3 DEF ExitFits, ShellFits
<1> QED BY <1>2, <1>4, <1>5

(* A command goes on to its next request. *)
LEMMA ShellGoesOn ==
    ASSUME ShellFits(shell), shell.at \in {"health", "link"},
           NEW at \in {"link", "models", "diff", "reverse", "run"}, GoTo(at),
           at = "models" => shell.line.command \in {"models", "status"},
           at = "diff" => shell.line.command \in {"apply", "diff"},
           at = "reverse" => shell.line.command = "rollback",
           at = "run" => shell.line.command = "run"
    PROVE  ShellFits(shell') /\ ExitFits(shell', held', entries')
<1>1. PICK new : new = [shell EXCEPT !.at = at]
  OBVIOUS
<1>2. shell' = new /\ shell \in ShellRecord
  BY <1>1 DEF GoTo, ShellFits
<1>3. /\ new \in ShellRecord /\ new.at = at /\ new.line = shell.line
      /\ new.wrote = shell.wrote /\ new.pinned = shell.pinned /\ new.hint = shell.hint
  BY <1>1, <1>2 DEF ShellRecord
<1>4. ShellFits(new)
  BY <1>3 DEF ShellFits
<1>5. ExitFits(new, held', entries')
  BY <1>3 DEF ExitFits
<1> QED BY <1>2, <1>4, <1>5

(* A second of watching is spent. *)
LEMMA ShellWatches ==
    ASSUME ShellFits(shell), NEW at \in {"watch", "journal"},
           shell.at \in (IF at = "watch" THEN {"diff", "watch"} ELSE {"journal"}),
           shell' = [shell EXCEPT !.at = at, !.left = @ - 1]
    PROVE  ShellFits(shell') /\ ExitFits(shell', held', entries')
<1>0. PICK left : left = shell.left - 1
  OBVIOUS
<1>1. PICK new : new = [shell EXCEPT !.at = at, !.left = left]
  OBVIOUS
<1>2. shell' = new /\ shell \in ShellRecord /\ left \in Int
  BY <1>0, <1>1 DEF ShellFits, ShellRecord
<1>3. /\ new \in ShellRecord /\ new.at = at /\ new.line = shell.line
      /\ new.wrote = shell.wrote /\ new.pinned = shell.pinned /\ new.hint = shell.hint
  BY <1>1, <1>2 DEF ShellRecord
<1>4. ShellFits(new)
  BY <1>3 DEF ShellFits
<1>5. ExitFits(new, held', entries')
  BY <1>3 DEF ExitFits
<1> QED BY <1>2, <1>4, <1>5

(* main and parseInvocation *)
LEMMA TypedFits ==
    ASSUME NEW line \in CommandLines, TypeLine(line)
    PROVE  ShellFits(shell') /\ ExitFits(shell', held', entries')
<1> DEFINE stops == line.command = "help" \/ ~Parses(line) \/ Given(line, "code")
<1>1. PICK at : at = IF stops THEN "ended" ELSE FirstRequest(line.command)
  OBVIOUS
<1>2. PICK exit : exit = IF line.command = "help" THEN 0 ELSE 2
  OBVIOUS
<1>3. PICK pinned : pinned = (line.command = "run" /\ Given(line, "model"))
  OBVIOUS
<1>4. PICK new : new = [Prompt EXCEPT !.line = line, !.at = at, !.left = Watches(line),
                                      !.exit = exit, !.pinned = pinned]
  OBVIOUS
<1>5. shell' = new
  BY <1>1, <1>2, <1>3, <1>4 DEF TypeLine
<1>6. Watches(line) \in Int
  BY ConnectorsAssumption DEF Watches
<1>7. at \in {"ended", "health", "link"} /\ exit \in {0, 2} /\ pinned \in BOOLEAN
  BY <1>1, <1>2, <1>3 DEF FirstRequest
<1>8. /\ new \in ShellRecord /\ new.at = at /\ new.line = line /\ ~new.wrote /\ ~new.hint
      /\ new.pinned = pinned /\ new.exit = exit
  BY <1>4, <1>6, <1>7 DEF Prompt, ShellRecord
<1>9. /\ at = "health" => line.command = "status"
      /\ at # "ended" => Parses(line) /\ line.command # "help"
  BY <1>1 DEF FirstRequest
<1>10. ShellFits(new)
  BY <1>3, <1>7, <1>8, <1>9 DEF ShellFits
<1>11. ExitFits(new, held', entries')
  BY <1>2, <1>8 DEF ExitFits
<1> QED BY <1>5, <1>10, <1>11

(* #send without a token *)
LEMMA TokenFits ==
    ASSUME ShellFits(shell), TokenMissing
    PROVE  ShellFits(shell') /\ ExitFits(shell', held', entries')
<1>1. /\ shell.at \in {"diff", "reverse", "run"} /\ EndWith(2)
      /\ UNCHANGED <<held, entries>>
  BY DEF TokenMissing, TokenRoutes
<1>2. ~shell.wrote /\ shell.at \notin {"ready", "ended"}
  BY <1>1 DEF ShellFits
<1> QED BY <1>1, <1>2, ShellEnds

(* health, linkStatus, models *)
LEMMA ReadsFit ==
    ASSUME ShellFits(shell), NEW fate \in Fates, NEW configured \in BOOLEAN,
           ShellReads(fate, configured)
    PROVE  ShellFits(shell') /\ ExitFits(shell', held', entries')
<1>1. shell.at \in {"health", "link", "models"} /\ UNCHANGED <<held, entries>>
  BY DEF ShellReads
<1>2. ~shell.wrote /\ shell.at \notin {"ready", "ended"} /\ shell.line \in CommandLines
  BY <1>1 DEF ShellFits
<1>3. CASE shell.at = "models"
  <2>1. PICK exit : /\ exit = IF shell.line.command = "status" THEN 0 ELSE ExitOf(fate, configured)
                    /\ EndWith(exit)
    BY <1>3 DEF ShellReads
  <2>2. exit \in {0, 1, 2, 3} /\ exit # 2
    BY <2>1 DEF ExitOf
  <2>3. shell.line.command \in {"models", "status"}
    BY <1>3 DEF ShellFits
  <2> QED BY <1>1, <1>2, <2>1, <2>2, <2>3, ShellEnds
<1>4. CASE shell.at # "models" /\ fate # "answered"
  <2>1. PICK exit : exit = ExitOf(fate, FALSE) /\ EndWith(exit)
    BY <1>4 DEF ShellReads
  <2>2. exit \in {0, 1, 2, 3} /\ exit \notin {0, 2}
    BY <2>1 DEF ExitOf
  <2> QED BY <1>1, <1>2, <2>1, <2>2, ShellEnds
<1>5. CASE shell.at = "health" /\ fate = "answered"
  <2>1. GoTo("link")
    BY <1>5 DEF ShellReads
  <2> QED BY <1>5, <2>1, ShellGoesOn
<1>6. CASE shell.at = "link" /\ fate = "answered"
  <2>1. CASE shell.line.command \in {"apply", "diff"}
    <3>1. GoTo("diff")
      BY <1>6, <2>1 DEF ShellReads
    <3> QED BY <1>6, <2>1, <3>1, ShellGoesOn
  <2>2. CASE shell.line.command = "rollback"
    <3>1. GoTo("reverse")
      BY <1>6, <2>2 DEF ShellReads
    <3> QED BY <1>6, <2>2, <3>1, ShellGoesOn
  <2>3. CASE shell.line.command = "run"
    <3>1. GoTo("run")
      BY <1>6, <2>3 DEF ShellReads
    <3> QED BY <1>6, <2>3, <3>1, ShellGoesOn
  <2>4. CASE shell.line.command \in {"models", "status"}
    <3>1. GoTo("models")
      BY <1>6, <2>4 DEF ShellReads
    <3> QED BY <1>6, <2>4, <3>1, ShellGoesOn
  <2>5. CASE shell.line.command = "link"
    <3>1. EndWith(0)
      BY <1>6, <2>5 DEF ShellReads
    <3> QED BY <1>1, <1>2, <2>5, <3>1, ShellEnds
  <2>6. shell.line.command \in {"link", "models", "status", "run", "diff", "apply", "rollback"}
    BY <1>2, <1>6, ConnectorsAssumption DEF ShellFits, Parses
  <2> QED BY <2>1, <2>2, <2>3, <2>4, <2>5, <2>6
<1> QED BY <1>1, <1>3, <1>4, <1>5, <1>6

(* applyCommand, its watch, and diffCommand *)
LEMMA DiffFits ==
    ASSUME ToolsInv, ShellFits(shell), NEW fate \in Fates, ShellDiff(shell.line.target, fate)
    PROVE  ShellFits(shell') /\ ExitFits(shell', held', entries')
<1>0. PICK s : s = shell.line.target
  OBVIOUS
<1>1. shell.at \in {"diff", "watch"} /\ UNCHANGED <<held, entries>>
  BY DEF ShellDiff
<1>2. /\ ~shell.wrote /\ shell.at \notin {"ready", "ended"}
      /\ shell.line.command \in {"apply", "diff"}
  BY <1>1 DEF ShellFits
<1>3. \/ EndWith(ExitOf(fate, FALSE))
      \/ EndWith(0) /\ shell.line.command = "diff"
      \/ EndWith(ExitOf(fate, held[s] = "applied"))
      \/ shell' = [shell EXCEPT !.at = "watch", !.left = @ - 1]
  <2>1. CASE fate # "answered" \/ held[s] = "none"
    BY <1>0, <2>1 DEF ShellDiff
  <2>2. CASE fate = "answered" /\ held[s] # "none" /\ shell.line.command = "diff"
    BY <1>0, <2>2 DEF ShellDiff
  <2>3. CASE fate = "answered" /\ held[s] # "none" /\ shell.line.command # "diff"
    BY <1>0, <2>3 DEF ShellDiff
  <2> QED BY <2>1, <2>2, <2>3
<1>4. CASE EndWith(ExitOf(fate, FALSE))
  <2>1. PICK exit : exit = ExitOf(fate, FALSE)
    OBVIOUS
  <2>2. exit \in {0, 1, 2, 3} /\ exit # 2 /\ exit # 0
    BY <2>1 DEF ExitOf
  <2> QED BY <1>1, <1>2, <1>4, <2>1, <2>2, ShellEnds
<1>5. CASE EndWith(0) /\ shell.line.command = "diff"
  BY <1>1, <1>2, <1>5, ShellEnds
<1>6. CASE EndWith(ExitOf(fate, held[s] = "applied"))
  <2>1. PICK exit : exit = ExitOf(fate, held[s] = "applied")
    OBVIOUS
  <2>2. exit \in {0, 1, 2, 3} /\ exit # 2 /\ (exit = 0 => held[s] = "applied")
    BY <2>1 DEF ExitOf
  <2> QED BY <1>0, <1>1, <1>2, <1>6, <2>1, <2>2, ShellEnds
<1>7. CASE shell' = [shell EXCEPT !.at = "watch", !.left = @ - 1]
  BY <1>1, <1>7, ShellWatches
<1> QED BY <1>3, <1>4, <1>5, <1>6, <1>7

(* The watch of rollbackCommand *)
LEMMA JournalFits ==
    ASSUME ToolsInv, ShellFits(shell), NEW fate \in Fates, ShellJournal(shell.line.target, fate)
    PROVE  ShellFits(shell') /\ ExitFits(shell', held', entries')
<1>0. PICK j : j = shell.line.target
  OBVIOUS
<1>1. shell.at = "journal" /\ UNCHANGED <<held, entries>>
  BY DEF ShellJournal
<1>2. /\ shell.wrote /\ shell \in ShellRecord /\ shell.line.command = "rollback"
      /\ shell.line \in CommandLines
  BY <1>1 DEF ShellFits
<1>3. \/ EndWith(ExitOf(fate, EntryState(j) = "rolled_back"))
      \/ shell' = [shell EXCEPT !.left = @ - 1]
  BY <1>0 DEF ShellJournal
<1>4. CASE EndWith(ExitOf(fate, EntryState(j) = "rolled_back"))
  <2>1. PICK exit : exit = ExitOf(fate, EntryState(j) = "rolled_back")
    OBVIOUS
  <2>2. exit \in {0, 1, 2, 3} /\ exit # 2 /\ (exit = 0 => EntryState(j) = "rolled_back")
    BY <2>1 DEF ExitOf
  <2>3. j \in Entries /\ entries[j] \in Entry
    BY <1>0, <1>2, ConnectorsAssumption DEF ToolsInv, ConnectorsTypeOK
  <2>4. EntryState(j) = "rolled_back" => entries[j].done
    BY <2>3 DEF EntryState, Entry
  <2> QED BY <1>0, <1>1, <1>2, <1>4, <2>1, <2>2, <2>4, ShellEnds
<1>5. CASE shell' = [shell EXCEPT !.left = @ - 1]
  <2>1. shell' = [shell EXCEPT !.at = "journal", !.left = @ - 1]
    BY <1>1, <1>2, <1>5 DEF ShellRecord
  <2> QED BY <1>1, <2>1, ShellWatches
<1> QED BY <1>3, <1>4, <1>5

(* The dispatch of rollbackCommand *)
LEMMA ReverseFits ==
    ASSUME ToolsInv, ShellFits(shell), shell.line.target \in Entries, NEW fate \in Fates,
           ShellReverse(shell.line.target, fate)
    PROVE  ShellFits(shell') /\ ExitFits(shell', held', entries') /\ ToolsInv'
<1>0. PICK j \in Entries : j = shell.line.target
  OBVIOUS
<1>1. /\ shell.at = "reverse" /\ UNCHANGED <<held, approvals, pending, cleared, reversed, calls>>
      /\ entries' = entries \/ entries' = [entries EXCEPT ![j].asked = TRUE]
  BY <1>0 DEF ShellReverse
<1>2. ToolsInv'
  <2>1. entries' \in [Entries -> Entry]
    BY <1>1, EntryAsked DEF ToolsInv, ConnectorsTypeOK
  <2>2. held' \in [HeldSets -> Statuses] /\ StudioHasApproved'
    BY <1>1 DEF ToolsInv, ConnectorsTypeOK, StudioHasApproved
  <2> QED BY <1>1, <2>1, <2>2, DaemonMoves
<1>3. PICK at, exit, new : /\ new = [shell EXCEPT !.wrote = TRUE, !.at = at, !.exit = exit]
                           /\ shell' = new
                           /\ \/ at = "journal" /\ exit = shell.exit
                              \/ at = "ended" /\ exit = ExitOf(fate, FALSE)
  <2>1. CASE fate = "answered" /\ ~RefusedAnyway("reverse", j)
    BY <1>0, <2>1 DEF ShellReverse
  <2>2. CASE ~(fate = "answered" /\ ~RefusedAnyway("reverse", j))
    BY <1>0, <2>2 DEF ShellReverse
  <2> QED BY <2>1, <2>2
<1>4. at = "ended" => exit \in {1, 3}
  BY <1>3 DEF ExitOf
<1>5. shell \in ShellRecord /\ shell.line.command = "rollback" /\ Parses(shell.line) /\ ~shell.hint
      /\ shell.line \in CommandLines
  BY <1>1 DEF ShellFits
<1>6. exit \in {0, 1, 2, 3} /\ at \in {"journal", "ended"}
  BY <1>3, <1>4, <1>5 DEF ShellRecord
<1>7. /\ new \in ShellRecord /\ new.at = at /\ new.line = shell.line /\ new.exit = exit
      /\ new.wrote /\ new.pinned = shell.pinned /\ new.hint = shell.hint
  BY <1>3, <1>5, <1>6 DEF ShellRecord
<1>8. ShellFits(new)
  BY <1>1, <1>3, <1>5, <1>6, <1>7 DEF ShellFits, Parses
<1>9. ExitFits(new, held', entries')
  <2>1. new.at = "ended" => new.exit # 0 /\ new.exit # 2
    BY <1>4, <1>7
  <2>2. new.line.command = "rollback"
    BY <1>5, <1>7
  <2> QED BY <2>1, <2>2 DEF ExitFits
<1> QED BY <1>2, <1>3, <1>8, <1>9

(* runCommand and nextSteps *)
LEMMA RunFits ==
    ASSUME ToolsInv, ShellFits(shell), NEW fate \in Fates,
           NEW v \in ProposalVerdicts \cup {"none"}, ShellStartsRun(fate, v)
    PROVE  ShellFits(shell') /\ ExitFits(shell', held', entries') /\ ToolsInv'
<1>1. /\ shell.at = "run" /\ UNCHANGED <<entries, approvals, pending, cleared, reversed, calls>>
      /\ held' = held \/ held' = [held EXCEPT ![ShellRun] = v]
  BY DEF ShellStartsRun
<1>2. ToolsInv'
  <2>1. ShellRun \in HeldSets
    BY DEF HeldSets
  <2>2. held' \in [HeldSets -> Statuses] /\ StudioHasApproved'
    BY <1>1, <2>1, ProposalsNeedNone
  <2>3. entries' \in [Entries -> Entry]
    BY <1>1 DEF ToolsInv, ConnectorsTypeOK
  <2> QED BY <1>1, <2>2, <2>3, DaemonMoves
<1>4. PICK exit : exit = ExitOf(fate, v = "validated")
  OBVIOUS
<1>5. PICK hint \in BOOLEAN : hint = (fate = "answered" /\ v = "validated")
  OBVIOUS
<1>6. PICK new : new = [shell EXCEPT !.wrote = TRUE, !.at = "ended", !.exit = exit, !.hint = hint]
  OBVIOUS
<1>7. shell' = new
  BY <1>4, <1>5, <1>6 DEF ShellStartsRun
<1>8. exit \in {0, 1, 3} /\ (exit = 0 <=> hint)
  <2>1. exit \in {0, 1, 3} /\ (exit = 0 <=> (fate = "answered" /\ v = "validated"))
    BY <1>4 DEF ExitOf, Fates
  <2>2. hint <=> (fate = "answered" /\ v = "validated")
    BY <1>5, Zenon
  <2> QED BY <2>1, <2>2
<1>9. shell \in ShellRecord /\ shell.line.command = "run" /\ Parses(shell.line)
      /\ shell.line \in CommandLines
  BY <1>1 DEF ShellFits
<1>10. /\ new \in ShellRecord /\ new.at = "ended" /\ new.line = shell.line /\ new.exit = exit
       /\ new.wrote /\ new.pinned = shell.pinned /\ new.hint = hint
  BY <1>6, <1>8, <1>9 DEF ShellRecord
<1>11. ShellFits(new)
  BY <1>1, <1>9, <1>10 DEF ShellFits
<1>12. ExitFits(new, held', entries')
  BY <1>8, <1>9, <1>10 DEF ExitFits
<1> QED BY <1>2, <1>7, <1>11, <1>12

(* One step of the tools. *)
LEMMA ToolStep == ToolsInv /\ ToolNext => ToolsInv'
<1> SUFFICES ASSUME ToolsInv, ToolNext PROVE ToolsInv'
  OBVIOUS
<1>1. ASSUME NEW c \in McpCalls, NEW tool \in Tools, NEW t \in SubjectsOf(tool),
             NEW named \in BOOLEAN, NEW ok \in BOOLEAN, CallTool(c, tool, t, named, ok)
      PROVE  ToolsInv'
  BY <1>1, CallKeeps
<1>2. ASSUME NEW c \in McpCalls, NEW j \in Entries, CallRollback(c, j) PROVE ToolsInv'
  BY <1>2, RollbackKeeps
<1>3. ASSUME NEW j \in Entries, RecordClearance(j) \/ RevokeClearance(j) PROVE ToolsInv'
  BY <1>3, ClearanceKeeps
<1>4. ASSUME AnswerNext PROVE ToolsInv'
  <2>1. PICK c \in McpCalls, fate \in Fates : \E b \in Braces(fate) :
           \/ \E hasDefault \in BOOLEAN : AskProject(c, fate, hasDefault, b)
           \/ AskRead(c, fate, b)
           \/ \E v \in ProposalVerdicts : AskSubmit(c, fate, v, b)
           \/ AskRender(c)
           \/ \E v \in ProposalVerdicts \cup {"none"} : AskRun(c, fate, v, b)
           \/ AskDiff(c, fate, b)
           \/ AskReverse(c, fate, b)
    BY <1>4, Zenon DEF AnswerNext
  <2>2. PICK b \in BOOLEAN :
           \/ \E hasDefault \in BOOLEAN : AskProject(c, fate, hasDefault, b)
           \/ AskRead(c, fate, b)
           \/ \E v \in ProposalVerdicts : AskSubmit(c, fate, v, b)
           \/ AskRender(c)
           \/ \E v \in ProposalVerdicts \cup {"none"} : AskRun(c, fate, v, b)
           \/ AskDiff(c, fate, b)
           \/ AskReverse(c, fate, b)
    <3>1. Braces(fate) \subseteq BOOLEAN
      BY DEF Braces
    <3> QED BY <2>1, <3>1, Zenon
  <2>3. CASE \E hasDefault \in BOOLEAN : AskProject(c, fate, hasDefault, b)
    BY <2>3, ProjectKeeps
  <2>4. CASE AskRead(c, fate, b)
    BY <2>4, ReadKeeps
  <2>5. CASE \E v \in ProposalVerdicts : AskSubmit(c, fate, v, b)
    BY <2>5, SubmitKeeps
  <2>6. CASE AskRender(c)
    BY <2>6, RenderKeeps
  <2>7. CASE \E v \in ProposalVerdicts \cup {"none"} : AskRun(c, fate, v, b)
    BY <2>7, RunKeeps
  <2>8. CASE AskDiff(c, fate, b)
    BY <2>8, AskDiffKeeps
  <2>9. CASE AskReverse(c, fate, b)
    BY <2>9, AskReverseKeeps
  <2> QED BY <2>2, <2>3, <2>4, <2>5, <2>6, <2>7, <2>8, <2>9
<1> QED BY <1>1, <1>2, <1>3, <1>4, Zenon DEF ToolNext

(* The tools leave the command line alone, which nobody uses beside them. *)
LEMMA ToolsLeaveShell == ToolNext => shell' = shell
<1>1. \A c, fate, b : AskRead(c, fate, b) \/ AskRender(c) \/ AskDiff(c, fate, b)
                       \/ AskReverse(c, fate, b) => shell' = shell
  BY DEF AskRead, AskRender, AskDiff, AskReverse
<1>2. \A c, fate, b, x : AskProject(c, fate, x, b) \/ AskSubmit(c, fate, x, b)
                          \/ AskRun(c, fate, x, b) => shell' = shell
  <2>1. \A c, fate, b, x : AskProject(c, fate, x, b) => shell' = shell
    BY DEF AskProject
  <2>2. \A c, fate, b, x : AskSubmit(c, fate, x, b) => shell' = shell
    BY DEF AskSubmit
  <2>3. \A c, fate, b, x : AskRun(c, fate, x, b) => shell' = shell
    BY DEF AskRun
  <2> QED BY <2>1, <2>2, <2>3, Zenon
<1>3. AnswerNext => shell' = shell
  BY <1>1, <1>2, Zenon DEF AnswerNext
<1>4. \A c, tool, t, named, ok : CallTool(c, tool, t, named, ok) => shell' = shell
  BY DEF CallTool
<1>5. \A c, j : CallRollback(c, j) \/ RecordClearance(j) \/ RevokeClearance(j) => shell' = shell
  BY DEF CallRollback, RecordClearance, RevokeClearance
<1> QED BY <1>3, <1>4, <1>5, Zenon DEF ToolNext

(* One step of the command line. *)
LEMMA ShellStep ==
    ASSUME ConnectorsInv, ShellNext
    PROVE  ToolsInv' /\ ShellFits(shell') /\ ExitFits(shell', held', entries')
<1>0. ToolsInv /\ ShellFits(shell)
  BY DEF ConnectorsInv, ShellInv
<1>1. ASSUME UNCHANGED <<held, entries, approvals, pending, cleared, reversed, calls>>
      PROVE  ToolsInv'
  <2>1. /\ held' \in [HeldSets -> Statuses] /\ entries' \in [Entries -> Entry]
        /\ StudioHasApproved'
    BY <1>0, <1>1 DEF ToolsInv, ConnectorsTypeOK, StudioHasApproved
  <2> QED BY <1>0, <1>1, <2>1, DaemonMoves
<1>2. ASSUME NEW line \in CommandLines, TypeLine(line)
      PROVE  ToolsInv' /\ ShellFits(shell') /\ ExitFits(shell', held', entries')
  BY <1>1, <1>2, TypedFits DEF TypeLine
<1>3. CASE TokenMissing
  BY <1>0, <1>1, <1>3, TokenFits DEF TokenMissing
<1>4. ASSUME NEW fate \in Fates, NEW configured \in BOOLEAN, ShellReads(fate, configured)
      PROVE  ToolsInv' /\ ShellFits(shell') /\ ExitFits(shell', held', entries')
  BY <1>0, <1>1, <1>4, ReadsFit DEF ShellReads
<1>5. ASSUME NEW fate \in Fates, ShellDiff(shell.line.target, fate)
      PROVE  ToolsInv' /\ ShellFits(shell') /\ ExitFits(shell', held', entries')
  BY <1>0, <1>1, <1>5, DiffFits DEF ShellDiff
<1>6. ASSUME NEW fate \in Fates, shell.at = "reverse", ShellReverse(shell.line.target, fate)
      PROVE  ToolsInv' /\ ShellFits(shell') /\ ExitFits(shell', held', entries')
  <2>1. shell.line.target \in Entries
    BY <1>0, <1>6, ConnectorsAssumption DEF ShellFits
  <2> QED BY <1>0, <1>6, <2>1, ReverseFits
<1>7. ASSUME NEW fate \in Fates, ShellJournal(shell.line.target, fate)
      PROVE  ToolsInv' /\ ShellFits(shell') /\ ExitFits(shell', held', entries')
  BY <1>0, <1>1, <1>7, JournalFits DEF ShellJournal
<1>8. ASSUME NEW fate \in Fates, NEW v \in ProposalVerdicts \cup {"none"}, ShellStartsRun(fate, v)
      PROVE  ToolsInv' /\ ShellFits(shell') /\ ExitFits(shell', held', entries')
  BY <1>0, <1>8, RunFits
<1> QED BY <1>2, <1>3, <1>4, <1>5, <1>6, <1>7, <1>8, Zenon DEF ShellNext

(* The command line, when it is not its turn: what an exit code told of    *)
(* stays so.                                                               *)
LEMMA ShellRests ==
    ASSUME ConnectorsInv, shell' = shell, connector' = connector,
           \A s \in HeldSets : held[s] = "applied" => held'[s] = "applied",
           \A j \in Entries : entries[j].done => entries'[j].done
    PROVE  ShellInv'
<1>1. /\ shell.at = "ended" => shell.line \in CommandLines
      /\ ExitFits(shell, held, entries)
  BY DEF ConnectorsInv, ShellInv, ShellFits
<1>2. ExitFits(shell, held', entries')
  BY <1>1, ConnectorsAssumption DEF ExitFits
<1>3. ShellFits(shell')
  BY DEF ConnectorsInv, ShellInv, ShellFits
<1>4. ExitFits(shell', held', entries')
  BY <1>2
<1> QED BY <1>3, <1>4 DEF ConnectorsInv, ShellInv, ShellFits, ExitFits

(* What the people and Studio do: a person approves, Studio reports. *)
LEMMA PeopleKeep ==
    ASSUME ConnectorsInv, connector' = connector, NEW s \in HeldSets,
           PersonApproves(s) \/ \E o \in ToldByStudio : StudioReports(s, o)
    PROVE  ConnectorsInv'
<1>0. ToolsInv /\ held \in [HeldSets -> Statuses] /\ entries \in [Entries -> Entry]
  BY DEF ConnectorsInv, ToolsInv, ConnectorsTypeOK
<1>1. PICK status \in AwaitingStudio \cup ToldByStudio :
         /\ held' = [held EXCEPT ![s] = status]
         /\ s \in approvals' /\ approvals \subseteq approvals' /\ approvals' \subseteq approvals \cup {s}
         /\ held[s] # "applied"
         /\ UNCHANGED <<entries, pending, cleared, reversed, calls, shell>>
  <2>1. CASE PersonApproves(s)
    BY <2>1 DEF PersonApproves, AwaitingStudio
  <2>2. CASE \E o \in ToldByStudio : StudioReports(s, o)
    <3>1. PICK o \in ToldByStudio : StudioReports(s, o)
      BY <2>2
    <3>2. s \in approvals
      BY <1>0, <3>1 DEF StudioReports, ToolsInv, StudioHasApproved
    <3>3. held[s] # "applied"
      BY <3>1 DEF StudioReports, AwaitingStudio
    <3> QED BY <3>1, <3>2, <3>3 DEF StudioReports
  <2> QED BY <2>1, <2>2
<1>2. held' \in [HeldSets -> Statuses]
  BY <1>0, <1>1 DEF Statuses
<1>3. StudioHasApproved'
  BY <1>0, <1>1 DEF ToolsInv, StudioHasApproved
<1>4. ToolsInv'
  BY <1>0, <1>1, <1>2, <1>3, DaemonMoves
<1>5. /\ \A i \in HeldSets : held[i] = "applied" => held'[i] = "applied"
      /\ \A j \in Entries : entries[j].done => entries'[j].done
  BY <1>0, <1>1
<1>6. ShellInv'
  BY <1>1, <1>5, ShellRests
<1> QED BY <1>4, <1>6 DEF ConnectorsInv

(* A reversal is asked for by someone else, or answered by Studio. *)
LEMMA EntriesKeep ==
    ASSUME ConnectorsInv, connector' = connector, NEW j \in Entries,
           \/ AnotherReverses(j)
           \/ \E o \in {"rolled_back", "rollback_partial", "rollback_failed"} : StudioReverses(j, o)
    PROVE  ConnectorsInv'
<1>0. /\ ToolsInv /\ held \in [HeldSets -> Statuses] /\ entries \in [Entries -> Entry]
      /\ entries[j] \in Entry
  BY DEF ConnectorsInv, ToolsInv, ConnectorsTypeOK
<1>1. PICK new \in Entry : /\ entries' = [entries EXCEPT ![j] = new] /\ ~entries[j].done
                           /\ UNCHANGED <<held, approvals, pending, cleared, reversed, calls, shell>>
  <2>1. CASE AnotherReverses(j)
    <3>1. PICK new : new = [entries[j] EXCEPT !.asked = TRUE]
      OBVIOUS
    <3>2. new \in Entry
      BY <1>0, <3>1 DEF Entry
    <3> QED BY <2>1, <3>1, <3>2 DEF AnotherReverses
  <2>2. CASE \E o \in {"rolled_back", "rollback_partial", "rollback_failed"} : StudioReverses(j, o)
    <3>1. PICK o \in {"rolled_back", "rollback_partial", "rollback_failed"} : StudioReverses(j, o)
      BY <2>2
    <3>2. PICK done \in BOOLEAN : done = (o = "rolled_back")
      OBVIOUS
    <3>3. PICK result : result = IF o = "rolled_back" THEN "none" ELSE o
      OBVIOUS
    <3>4. PICK new : new = [entries[j] EXCEPT !.done = done, !.result = result]
      OBVIOUS
    <3>5. result \in {"none", "rollback_partial", "rollback_failed"}
      BY <3>1, <3>3
    <3>6. new \in Entry
      BY <1>0, <3>4, <3>5 DEF Entry
    <3>7. entries' = [entries EXCEPT ![j] = new]
      BY <1>0, <3>1, <3>2, <3>3, <3>4 DEF StudioReverses
    <3> QED BY <3>1, <3>6, <3>7 DEF StudioReverses
  <2> QED BY <2>1, <2>2
<1>2. /\ held' \in [HeldSets -> Statuses] /\ entries' \in [Entries -> Entry] /\ StudioHasApproved'
  BY <1>0, <1>1 DEF ToolsInv, StudioHasApproved
<1>3. ToolsInv'
  BY <1>0, <1>1, <1>2, DaemonMoves
<1>4. /\ \A s \in HeldSets : held[s] = "applied" => held'[s] = "applied"
      /\ \A i \in Entries : entries[i].done => entries'[i].done
  BY <1>0, <1>1
<1>5. ShellInv'
  BY <1>1, <1>4, ShellRests
<1> QED BY <1>3, <1>5 DEF ConnectorsInv

(* Nothing has been said yet. *)
LEMMA ConnectorsStart == ConnectorsInit => ConnectorsInv
<1> SUFFICES ASSUME ConnectorsInit PROVE ConnectorsInv
  OBVIOUS
<1>1. <<>> \in Left /\ <<>> # <<"reverse">> /\ <<>> # <<"diff">>
  BY DEF Left
<1>2. /\ NoToolCall \in ToolCall /\ NoToolCall.left = <<>> /\ NoToolCall.answer = Silence
      /\ ~NoToolCall.stored
  BY <1>1, AnswerTypes DEF NoToolCall, ToolCall
<1>3. \A c \in McpCalls : CallIsTrue(c, NoToolCall, {})
  BY <1>1, <1>2, AnswerTypes DEF CallIsTrue
<1>4. ConnectorsTypeOK
  BY <1>2 DEF ConnectorsInit, ConnectorsTypeOK, Statuses, Entry
<1>5. StudioHasApproved /\ CallsAreTrue
  BY <1>3 DEF ConnectorsInit, StudioHasApproved, CallsAreTrue, AwaitingStudio, ToldByStudio
<1>6. ClearancesCover
  <2>1. \A j \in Entries : Reversing(j) = {}
    BY <1>1, <1>2 DEF ConnectorsInit, Reversing
  <2> QED BY <2>1, FS_EmptySet DEF ConnectorsInit, ClearancesCover
<1>7. Prompt \in ShellRecord /\ Prompt.at = "ready" /\ ~Prompt.wrote /\ ~Prompt.hint
  BY DEF Prompt, ShellRecord
<1>8. ShellInv
  BY <1>7 DEF ConnectorsInit, ShellInv, ShellFits, ExitFits
<1> QED BY <1>4, <1>5, <1>6, <1>8 DEF ConnectorsInv, ToolsInv

(* The invariant gives what the connectors promise. *)
LEMMA InvMakesHonest == ConnectorsInv => ConnectorsAreHonest
<1> SUFFICES ASSUME ConnectorsInv PROVE ConnectorsAreHonest
  OBVIOUS
<1>0. ToolsInv /\ ShellInv
  BY DEF ConnectorsInv
<1>1. ClearedOneByOne
  <2>1. \A j \in Entries :
           {c \in McpCalls : calls[c].target = j /\ Asking(c, "reverse")} = Reversing(j)
    BY <1>0, AskingFacts DEF Reversing
  <2> QED BY <1>0, <2>1 DEF ClearedOneByOne, ToolsInv, ClearancesCover
<1>2. ToolsTellTheTruth
  <2>1. \A a : FailureRead(a).recognised => FailureRead(a).code = a.code
    BY DEF FailureRead
  <2>2. \A c \in McpCalls : CallIsTrue(c, calls[c], approvals)
    BY <1>0 DEF ToolsInv, CallsAreTrue
  <2> QED BY <2>1, <2>2 DEF ToolsTellTheTruth, CallIsTrue
<1>3. ExitCodesHold
  <2>1. SUFFICES ASSUME shell.at = "ended" PROVE ExitCodesHold
    BY DEF ExitCodesHold
  <2>2. shell.line \in CommandLines /\ ShellFits(shell) /\ ExitFits(shell, held, entries)
    BY <1>0, <2>1 DEF ShellInv, ShellFits
  <2>3. shell.exit = 0 /\ shell.line.command = "apply" => shell.line.target \in approvals
    BY <1>0, <2>1, <2>2, ConnectorsAssumption DEF ExitFits, ToolsInv, StudioHasApproved, ToldByStudio
  <2>4. ASSUME shell.wrote, Given(shell.line, "policy")
        PROVE  shell.pinned <=> shell.line.flags["policy"] = "pinned"
    <3>1. Parses(shell.line) /\ shell.line.command \in {"run", "rollback"}
      BY <2>2, <2>4 DEF ShellFits
    <3>2. shell.line.command = "run"
      BY <2>4, <3>1 DEF Parses, Given, FlagsOf
    <3>3. shell.pinned <=> Given(shell.line, "model")
      BY <2>1, <2>2, <3>2 DEF ShellFits
    <3> QED BY <2>4, <3>1, <3>2, <3>3 DEF Parses, PolicyFits
  <2> QED BY <2>1, <2>2, <2>3, <2>4 DEF ExitCodesHold, ExitFits
<1> QED BY <1>1, <1>2, <1>3 DEF ConnectorsAreHonest

(* What the tools and the command line say is so, whatever requests fail   *)
(* before or after they arrive: one clearance is one reversal however many *)
(* calls race for it, an answer that says `approved' is of a set a person  *)
(* approved, a stored proposal is named, and an exit code is earned        *)
(* (approval.ts, forge-bridge-client.ts, cli.ts and its commands).         *)
THEOREM ConnectorsStayHonest == ConnectorsSpec => []ConnectorsAreHonest
<1>1. ConnectorsInit => ConnectorsInv
  BY ConnectorsStart
<1>2. ConnectorsInv /\ [ConnectorsNext]_connectorVars => ConnectorsInv'
  <2>1. SUFFICES ASSUME ConnectorsInv, [ConnectorsNext]_connectorVars PROVE ConnectorsInv'
    OBVIOUS
  <2>2. ASSUME connector = "mcp", ToolNext, UNCHANGED connector PROVE ConnectorsInv'
    <3>1. ToolsInv' /\ shell' = shell
      BY <2>1, <2>2, ToolStep, ToolsLeaveShell DEF ConnectorsInv
    <3>2. ShellFits(shell') /\ shell'.at = "ready"
      BY <2>1, <2>2, <3>1 DEF ConnectorsInv, ShellInv, ShellFits
    <3> QED BY <3>1, <3>2 DEF ConnectorsInv, ShellInv, ShellFits, ExitFits
  <2>3. ASSUME connector = "shell", ShellNext, UNCHANGED connector PROVE ConnectorsInv'
    <3>1. ToolsInv' /\ ShellFits(shell') /\ ExitFits(shell', held', entries')
      BY <2>1, <2>3, ShellStep
    <3>2. connector' # "mcp"
      BY <2>3
    <3> QED BY <3>1, <3>2 DEF ConnectorsInv, ShellInv, ShellFits, ExitFits
  <2>4. ASSUME NEW s \in HeldSets, UNCHANGED connector,
               PersonApproves(s) \/ \E o \in ToldByStudio : StudioReports(s, o)
        PROVE  ConnectorsInv'
    BY <2>1, <2>4, PeopleKeep
  <2>5. ASSUME NEW j \in Entries, UNCHANGED connector,
               \/ AnotherReverses(j)
               \/ \E o \in {"rolled_back", "rollback_partial", "rollback_failed"} :
                     StudioReverses(j, o)
        PROVE  ConnectorsInv'
    BY <2>1, <2>5, EntriesKeep
  <2>6. CASE UNCHANGED connectorVars
    <3>1. /\ ToolsInv /\ held' \in [HeldSets -> Statuses] /\ entries' \in [Entries -> Entry]
          /\ StudioHasApproved' /\ shell' = shell /\ connector' = connector
      BY <2>1, <2>6
         DEF connectorVars, ConnectorsInv, ToolsInv, ConnectorsTypeOK, StudioHasApproved
    <3>2. ToolsInv'
      BY <2>6, <3>1, DaemonMoves DEF connectorVars
    <3>3. ShellInv'
      BY <2>1, <2>6, <3>1, ShellRests DEF connectorVars
    <3> QED BY <3>2, <3>3 DEF ConnectorsInv
  <2> QED BY <2>1, <2>2, <2>3, <2>4, <2>5, <2>6 DEF ConnectorsNext
<1>3. ConnectorsInv => ConnectorsAreHonest
  BY InvMakesHonest
<1> QED BY <1>1, <1>2, <1>3, PTL DEF ConnectorsSpec
=============================================================================
