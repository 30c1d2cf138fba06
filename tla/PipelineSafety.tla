--------------------------- MODULE PipelineSafety ---------------------------
(***************************************************************************)
(* The two promises of the run pipeline, for every set of runs, calls,     *)
(* drafts and policies.  RecordsAreTrue: a call that claimed a set owns it *)
(* up to the end of its run, no other call is ever between the claim and   *)
(* the end, so the result it stores, the status it concludes with and the  *)
(* success it reports are of the one delivery there was; and the last call *)
(* to write a stage nobody can act on is still under way.                  *)
(* OnlyVettedIsDelivered: a set is written once, so what was checked is    *)
(* what is delivered: the check looks at the operations a call holds, the  *)
(* claim is of the operations stored, and the invariant says that they are *)
(* the same.                                                               *)
(***************************************************************************)
EXTENDS PipelineProofs, SequenceTheorems

-----------------------------------------------------------------------------
(* What is stored is true.                                                 *)

(* Where the owner of a set is, before and after the delivery, before and  *)
(* after the answer, and once the answer was that all of it was applied.   *)
After == {"awaiting", "recording", "versioning", "concluding", "applied", "testing",
          "done", "succeeding"}
Owners == WithClaim \cup After
Untold == WithClaim \cup {"awaiting", "recording", "versioning", "concluding"}
Answering == {"recording", "versioning", "concluding"}
Stored == {"versioning", "concluding"}
Applied == {"applied", "testing", "done", "succeeding"}

(* Statuses that say what happened in the place.                           *)
Told == {"applied", "partial", "failed"}
Outcomes == {"all", "some", "none"}

Owns(c) ==
    calls[c].pc # "idle" =>
        /\ calls[c].pc \in Owners => claims[calls[c].run] = 1
        /\ calls[c].pc \in After => delivered[calls[c].run] = 1
        /\ calls[c].pc \in Untold =>
              sets[calls[c].run].status \notin Told /\ runs[calls[c].run].status # "succeeded"
        /\ calls[c].pc \in Answering => calls[c].holds.outcome \in Outcomes
        /\ calls[c].pc \in Stored => results[calls[c].run] = calls[c].holds.outcome
        /\ calls[c].pc \in Applied => results[calls[c].run] = "all"

Owned == \A c \in Calls : Owns(c)

OwnersApart ==
    \A c, d \in Calls :
        (c # d /\ calls[c].pc \in Owners /\ calls[d].pc \in Owners)
          => calls[c].run # calls[d].run

Records ==
    /\ results = [r \in Runs |-> results[r]]
    /\ Owned /\ OwnersApart /\ StatusIsEvidence /\ SucceededMeansApplied

(* Where a call is bound to write a stage that somebody can act on.        *)
Bound == BeforeSet \cup {"listing", "deciding", "gated"} \cup WithClaim \cup
         {"awaiting", "recording", "versioning", "concluding", "applied", "testing",
          "done", "failing"}
Resting == {"none", "awaiting-approval", "done", "failed", "cancelled"}

Attended ==
    \A r \in Runs \ thrown :
        \/ runs[r].stage \in Resting
        \/ \E c \in Calls : calls[c].pc \in Bound /\ calls[c].run = r

(* Nothing is recorded before the first call.                              *)
LEMMA RecordsInit == Init => Records /\ Attended
  BY DEF Init, Records, Owned, Owns, OwnersApart, StatusIsEvidence, SucceededMeansApplied,
         Attended, Resting, NoSet, Idle, Owners, After, WithClaim

-----------------------------------------------------------------------------
(* A step that records nothing: no result, no delivery, no claim, no       *)
(* status of the place and no success; the call goes to a place that asks  *)
(* for no more than the one it leaves.                                     *)

Eases(c, p, h) ==
    /\ p \in Owners => calls[c].pc \in Owners
    /\ p \in After => calls[c].pc \in After
    /\ p \in Untold => calls[c].pc \in Untold
    /\ p \in Answering =>
          h.outcome \in Outcomes \/ (calls[c].pc \in Answering /\ h = calls[c].holds)
    /\ p \in Stored => calls[c].pc \in Stored /\ h = calls[c].holds
    /\ p \in Applied => calls[c].pc \in Applied

Quiet(c) ==
    /\ UNCHANGED <<results, claims, delivered>>
    /\ \A q \in Runs : sets'[q].status = sets[q].status \/ sets'[q].status \notin Told
    /\ \A q \in Runs : runs'[q].status = runs[q].status \/ runs'[q].status # "succeeded"
    /\ \A d \in Calls : d # c => calls'[d] = calls[d]
    /\ calls'[c].pc \in Owners => calls[c].pc # "idle" /\ calls'[c].run = calls[c].run
    /\ Eases(c, calls'[c].pc, calls'[c].holds)

(* Such a step leaves the records true.                                    *)
LEMMA QuietKeeps ==
    ASSUME Inv, Records, NEW c \in Calls, Quiet(c)
    PROVE  Records'
<1> USE DEF Quiet, Eases
<1>1. \A d \in Calls : calls[d].pc # "idle" => calls[d].run \in Runs
  BY RunOfCall
<1>2. OwnersApart'
  BY DEF Records, OwnersApart
<1>3. Owners \subseteq WithClaim \cup After /\ Untold \subseteq Owners /\ Answering \subseteq Owners
      /\ Stored \subseteq Answering /\ Applied \subseteq Owners /\ After \subseteq Owners
  BY DEF Owners, Untold, Answering, Stored, Applied, After
<1>4. ASSUME NEW d \in Calls, d # c PROVE Owns(d)'
  BY <1>1, <1>4, ZenonT(40) DEF Records, Owned, Owns
<1>5. Owns(c)'
  BY <1>1, <1>3 DEF Records, Owned, Owns
<1>6. Owned'
  BY <1>4, <1>5 DEF Owned
<1>7. StatusIsEvidence' /\ SucceededMeansApplied'
  BY DEF Records, StatusIsEvidence, SucceededMeansApplied, Told
<1> QED BY <1>2, <1>6, <1>7 DEF Records

(* A step of the one call that owns the set of r, or comes to own it: what *)
(* it leaves behind for r has to be true, and nobody else relies on it.    *)
Alters(c, r) ==
    /\ \A d \in Calls : d # c =>
          calls'[d] = calls[d] /\ (calls[d].pc \in Owners => calls[d].run # r)
    /\ \A q \in Runs : q # r =>
          /\ results'[q] = results[q] /\ claims'[q] = claims[q] /\ delivered'[q] = delivered[q]
          /\ sets'[q].status = sets[q].status /\ runs'[q].status = runs[q].status
    /\ calls'[c].pc \in Owners => calls'[c].run = r

Evident(r) ==
    /\ sets[r].status = "applied" => results[r] = "all"
    /\ sets[r].status = "partial" => results[r] = "some"
    /\ sets[r].status = "failed" => results[r] = "none"
    /\ runs[r].status = "succeeded" => delivered[r] = 1 /\ results[r] = "all"

(* Such a step leaves the records true.                                    *)
LEMMA AltersKeeps ==
    ASSUME Inv, Records, NEW c \in Calls, NEW r \in Runs, Alters(c, r), Owns(c)', Evident(r)',
           results' = [q \in Runs |-> results'[q]]
    PROVE  Records'
<1> USE DEF Alters
<1>1. \A d \in Calls : calls[d].pc # "idle" => calls[d].run \in Runs
  BY RunOfCall
<1>2. OwnersApart'
  BY DEF Records, OwnersApart
<1>3. ASSUME NEW d \in Calls, d # c PROVE Owns(d)'
  <2>1. calls[d].pc \notin Owners => Owns(d)'
    BY <1>3 DEF Owns, Owners, Untold, Answering, Stored, Applied, After
  <2>2. ASSUME calls[d].pc \in Owners PROVE Owns(d)'
    <3>1. calls[d].pc # "idle"
      BY <2>2 DEF Owners, WithClaim, After
    <3>2. calls[d].run \in Runs /\ calls[d].run # r /\ calls'[d] = calls[d] /\ Owns(d)
      BY <1>1, <1>3, <2>2, <3>1 DEF Records, Owned
    <3> QED BY <3>1, <3>2 DEF Owns
  <2> QED BY <2>1, <2>2
<1>4. Owned'
  BY <1>3 DEF Owned
<1>5. StatusIsEvidence' /\ SucceededMeansApplied'
  BY DEF Records, StatusIsEvidence, SucceededMeansApplied, Evident
<1> QED BY <1>2, <1>4, <1>5 DEF Records

(* A step of a call on r leaves r with a stage somebody can act on, or     *)
(* with a call that is bound to write one, unless it ends by an exception. *)
Tends(c, r) ==
    /\ thrown \subseteq thrown'
    /\ \A d \in Calls : d # c => calls'[d] = calls[d]
    /\ \A q \in Runs : q # r => runs'[q].stage = runs[q].stage
    /\ calls[c].pc \in Bound => calls[c].run = r
    /\ \/ r \in thrown'
       \/ runs'[r].stage \in Resting
       \/ calls'[c].pc \in Bound /\ calls'[c].run = r
       \/ runs'[r].stage = runs[r].stage /\ calls[c].pc \notin Bound

(* Such a step leaves no run stranded.                                     *)
LEMMA TendsKeeps ==
    ASSUME Attended, NEW c \in Calls, NEW r \in Runs, Tends(c, r)
    PROVE  Attended'
<1> SUFFICES ASSUME NEW q \in Runs, q \notin thrown'
             PROVE  \/ runs'[q].stage \in Resting
                    \/ \E d \in Calls : calls'[d].pc \in Bound /\ calls'[d].run = q
  BY DEF Attended
<1>1. q \notin thrown
  BY DEF Tends
<1>2. CASE q = r
  <2>1. CASE runs'[r].stage = runs[r].stage /\ calls[c].pc \notin Bound
    <3>1. CASE runs[r].stage \in Resting
      BY <1>2, <2>1, <3>1
    <3>2. CASE \E d \in Calls : calls[d].pc \in Bound /\ calls[d].run = r
      BY <1>2, <2>1, <3>2 DEF Tends
    <3> QED BY <1>1, <1>2, <3>1, <3>2 DEF Attended
  <2> QED BY <1>2, <2>1 DEF Tends
<1>3. CASE q # r
  <2>1. CASE runs[q].stage \in Resting
    BY <1>3, <2>1 DEF Tends
  <2>2. CASE \E d \in Calls : calls[d].pc \in Bound /\ calls[d].run = q
    BY <1>3, <2>2 DEF Tends
  <2> QED BY <1>1, <2>1, <2>2 DEF Attended
<1> QED BY <1>2, <1>3

-----------------------------------------------------------------------------
(* The forms a step takes.                                                 *)

SetsQuiet == \A q \in Runs : sets'[q].status = sets[q].status \/ sets'[q].status \notin Told

(* A step that records nothing and leaves its run attended.                *)
Passes(c) == calls[c].pc # "idle" /\ Quiet(c) /\ Tends(c, calls[c].run)

(* A compare-and-set to a status that says nothing of the place.           *)
LEMMA SetStatusQuiet ==
    ASSUME Inv, NEW r \in Runs, NEW next, next \notin Told, NEW expected,
           sets' = SetStatus(r, next, expected)
    PROVE  SetsQuiet
<1>1. CASE sets[r].status = expected
  <2>1. sets' = [sets EXCEPT ![r].status = next]
    BY <1>1 DEF SetStatus
  <2> QED BY <2>1 DEF SetsQuiet, Inv, Shapes
<1>2. CASE sets[r].status # expected
  BY <1>2 DEF SetStatus, SetsQuiet
<1> QED BY <1>1, <1>2

(* A call that goes on.                                                    *)
LEMMA GoPasses ==
    ASSUME Inv, NEW c \in Calls, calls[c].pc # "idle", NEW p, p # "idle", Go(c, p),
           Eases(c, p, calls[c].holds), p \in Bound \/ calls[c].pc \notin Bound, SetsQuiet,
           UNCHANGED <<runs, results, claims, delivered>>, thrown \subseteq thrown'
    PROVE  Passes(c)
<1>1. Moves(c) /\ calls'[c].pc = p /\ calls'[c].holds = calls[c].holds
  BY GoMoves DEF Go, Inv
<1>2. Quiet(c)
  BY <1>1 DEF Quiet, Moves, SetsQuiet
<1>3. Tends(c, calls[c].run)
  BY <1>1 DEF Tends, Moves
<1> QED BY <1>2, <1>3 DEF Passes

(* A call that reads and goes on.                                          *)
LEMMA HoldPasses ==
    ASSUME Inv, NEW c \in Calls, calls[c].pc # "idle", NEW p, p # "idle", NEW h,
           calls' = [calls EXCEPT ![c].pc = p, ![c].holds = h],
           Eases(c, p, h), p \in Bound \/ calls[c].pc \notin Bound,
           UNCHANGED <<runs, sets, results, claims, delivered, thrown>>
    PROVE  Passes(c)
<1>1. Moves(c) /\ calls'[c].pc = p /\ calls'[c].holds = h
  BY HoldMoves DEF Inv
<1>2. Quiet(c)
  BY <1>1 DEF Quiet, Moves
<1>3. Tends(c, calls[c].run)
  BY <1>1 DEF Tends, Moves
<1> QED BY <1>2, <1>3 DEF Passes

(* A call that reads what no owner reads.                                  *)
LEMMA ReadPasses ==
    ASSUME Inv, NEW c \in Calls, calls[c].pc # "idle", NEW p, p # "idle", p \notin Owners,
           \E h : calls' = [calls EXCEPT ![c].pc = p, ![c].holds = h],
           p \in Bound \/ calls[c].pc \notin Bound,
           UNCHANGED <<runs, sets, results, claims, delivered, thrown>>
    PROVE  Passes(c)
<1>1. PICK h : calls' = [calls EXCEPT ![c].pc = p, ![c].holds = h]
  OBVIOUS
<1>2. Eases(c, p, h)
  BY DEF Eases, Owners, Untold, Answering, Stored, Applied, After
<1> QED BY <1>1, <1>2, HoldPasses

(* A call that writes a stage to the store and to its copy.                *)
LEMMA AdvancePasses ==
    ASSUME Inv, NEW c \in Calls, calls[c].pc # "idle", NEW p, p # "idle", NEW to,
           Advance(c, to, p), \A h : Eases(c, p, h), p \in Bound \/ to \in Resting
    PROVE  Passes(c)
<1>1. Moves(c) /\ calls'[c].pc = p
  BY StageMoves DEF Advance, Inv
<1>2. /\ UNCHANGED <<sets, results, claims, delivered, thrown>>
      /\ runs' = [runs EXCEPT ![calls[c].run].stage = to]
  BY DEF Advance, RunOf, history
<1>3. /\ runs'[calls[c].run].stage = to
      /\ \A q \in Runs : runs'[q].status = runs[q].status
      /\ \A q \in Runs : q # calls[c].run => runs'[q] = runs[q]
  BY <1>2, RunOfCall DEF Inv, Shapes
<1>4. Quiet(c)
  BY <1>1, <1>2, <1>3 DEF Quiet, Moves
<1>5. Tends(c, calls[c].run)
  BY <1>1, <1>2, <1>3 DEF Tends, Moves
<1> QED BY <1>4, <1>5 DEF Passes

(* A call that returns.                                                    *)
LEMMA ReturnPasses ==
    ASSUME Inv, NEW c \in Calls, calls[c].pc # "idle", Return(c),
           UNCHANGED <<sets, results, claims, delivered>>, thrown \subseteq thrown',
           \A q \in Runs : runs'[q].status = runs[q].status \/ runs'[q].status # "succeeded",
           \A q \in Runs : q # calls[c].run => runs'[q].stage = runs[q].stage,
           \/ calls[c].run \in thrown'
           \/ runs'[calls[c].run].stage \in Resting
           \/ runs'[calls[c].run].stage = runs[calls[c].run].stage /\ calls[c].pc \notin Bound
    PROVE  Passes(c)
<1>1. Rests(c)
  BY ReturnRests DEF Inv
<1>2. calls'[c].pc = "idle"
  BY <1>1 DEF Rests, Idle
<1>3. "idle" \notin Owners \cup After \cup Untold \cup Answering \cup Stored \cup Applied
  BY DEF Owners, WithClaim, After, Untold, Answering, Stored, Applied
<1>4. Quiet(c)
  BY <1>1, <1>2, <1>3 DEF Quiet, Eases, Rests
<1>5. Tends(c, calls[c].run)
  BY <1>1 DEF Tends, Rests
<1> QED BY <1>4, <1>5 DEF Passes

(* A port that throws: start goes on to fail, approve leaves its run.      *)
LEMMA ThrowPasses ==
    ASSUME Inv, NEW c \in Calls, calls[c].pc # "idle", Throw(c),
           UNCHANGED <<runs, sets, results, claims, delivered>>
    PROVE  Passes(c)
<1>1. CASE Go(c, "failing") /\ UNCHANGED thrown
  BY <1>1, GoPasses DEF Eases, Owners, WithClaim, After, Untold, Answering, Stored, Applied,
                        Bound, SetsQuiet
<1>2. CASE Return(c) /\ thrown' = thrown \cup {RunOf(c)}
  BY <1>2, ReturnPasses DEF RunOf
<1> QED BY <1>1, <1>2 DEF Throw

-----------------------------------------------------------------------------
(* Every step of start passes but the claim of automatic approval.         *)
LEMMA StartStepsPass ==
    ASSUME Inv, NEW c \in Calls, StartSteps(c)
    PROVE  Passes(c) \/ (ClaimsSet(c) /\ UNCHANGED <<runs, results, thrown>>)
<1> USE DEF At, RunOf, stored, history, Eases, Owners, WithClaim, After, Untold, Answering,
            Stored, Applied, Bound, BeforeSet, Resting
<1>1. CASE BeginPlanning(c)
  BY <1>1, AdvancePasses DEF BeginPlanning
<1>2. CASE Planned(c)
  BY <1>2, GoPasses DEF Planned, SetsQuiet
<1>3. CASE BeginGenerating(c)
  BY <1>3, AdvancePasses DEF BeginGenerating
<1>4. CASE ReadBase(c)
  <2>1. calls[c].pc = "reading-base" /\ UNCHANGED <<runs, sets, results, claims, delivered, thrown>>
    BY <1>4 DEF ReadBase
  <2>2. \E h : calls' = [calls EXCEPT ![c].pc = "generating", ![c].holds = h]
    BY <1>4 DEF ReadBase
  <2>3. "generating" \notin Owners /\ ("generating" \in Bound \/ "reading-base" \notin Bound) /\ "generating" # "idle" /\ "reading-base" # "idle"
    OBVIOUS
  <2> HIDE DEF Owners, Bound
  <2> QED BY <2>1, <2>2, <2>3, ReadPasses
<1>5. CASE Generated(c)
  <2>1. CASE Go(c, "failing")
    BY <1>5, <2>1, GoPasses DEF Generated, SetsQuiet
  <2>2. CASE \E h : calls' = [calls EXCEPT ![c].pc = "generated", ![c].holds = h]
    <3>1. calls[c].pc = "generating" /\ UNCHANGED <<runs, sets, results, claims, delivered, thrown>>
      BY <1>5 DEF Generated
    <3>2. \E h : calls' = [calls EXCEPT ![c].pc = "generated", ![c].holds = h]
      BY <1>5, <2>2 DEF Generated
    <3>3. "generated" \notin Owners /\ ("generated" \in Bound \/ "generating" \notin Bound) /\ "generated" # "idle" /\ "generating" # "idle"
      OBVIOUS
    <3> HIDE DEF Owners, Bound
    <3> QED BY <3>1, <3>2, <3>3, ReadPasses
  <2> QED BY <1>5, <2>1, <2>2 DEF Generated
<1>6. CASE BeginValidating(c)
  BY <1>6, AdvancePasses DEF BeginValidating
<1>7. CASE CheckDraft(c)
  <2>1. CASE Go(c, "failing")
    BY <1>7, <2>1, GoPasses DEF CheckDraft, SetsQuiet
  <2>2. CASE \E h : calls' = [calls EXCEPT ![c].pc = "analysing", ![c].holds = h]
    <3>1. calls[c].pc = "validating" /\ UNCHANGED <<runs, sets, results, claims, delivered, thrown>>
      BY <1>7 DEF CheckDraft
    <3>2. \E h : calls' = [calls EXCEPT ![c].pc = "analysing", ![c].holds = h]
      BY <1>7, <2>2 DEF CheckDraft
    <3>3. "analysing" \notin Owners /\ ("analysing" \in Bound \/ "validating" \notin Bound) /\ "analysing" # "idle" /\ "validating" # "idle"
      OBVIOUS
    <3> HIDE DEF Owners, Bound
    <3> QED BY <3>1, <3>2, <3>3, ReadPasses
  <2> QED BY <1>7, <2>1, <2>2 DEF CheckDraft
<1>8. CASE Analysed(c)
  <2>1. CASE Go(c, "failing")
    BY <1>8, <2>1, GoPasses DEF Analysed, SetsQuiet
  <2>2. CASE \E h : calls' = [calls EXCEPT ![c].pc = "saving", ![c].holds = h]
    <3>1. calls[c].pc = "analysing" /\ UNCHANGED <<runs, sets, results, claims, delivered, thrown>>
      BY <1>8 DEF Analysed
    <3>2. \E h : calls' = [calls EXCEPT ![c].pc = "saving", ![c].holds = h]
      BY <1>8, <2>2 DEF Analysed
    <3>3. "saving" \notin Owners /\ ("saving" \in Bound \/ "analysing" \notin Bound) /\ "saving" # "idle" /\ "analysing" # "idle"
      OBVIOUS
    <3> HIDE DEF Owners, Bound
    <3> QED BY <3>1, <3>2, <3>3, ReadPasses
  <2> QED BY <1>8, <2>1, <2>2 DEF Analysed
<1>9. CASE SaveSet(c)
  <2>1. calls[c].pc = "saving" /\ UNCHANGED <<runs, results, claims, delivered, thrown>> /\ Go(c, "listing")
    BY <1>9 DEF SaveSet
  <2>2. SetsQuiet
    BY <1>9, SaveSaves DEF SavesSet, Saves, SetsQuiet, Told
  <2> QED BY <2>1, <2>2, GoPasses
<1>10. CASE ListSet(c)
  <2>1. /\ calls[c].pc = "listing" /\ UNCHANGED <<sets, results, claims, delivered, thrown>>
        /\ runs' = [runs EXCEPT ![calls[c].run].listed = TRUE] /\ Go(c, "deciding")
    BY <1>10 DEF ListSet
  <2>2. \A q \in Runs : runs'[q].status = runs[q].status /\ runs'[q].stage = runs[q].stage
    BY <2>1, RunOfCall DEF Inv, Shapes
  <2>3. Moves(c) /\ calls'[c].pc = "deciding"
    BY <2>1, GoMoves DEF Go, Inv
  <2>4. Quiet(c)
    BY <2>1, <2>2, <2>3 DEF Quiet, Moves
  <2>5. Tends(c, calls[c].run)
    BY <2>1, <2>2, <2>3 DEF Tends, Moves
  <2> QED BY <2>1, <2>4, <2>5 DEF Passes
<1>11. CASE Decide(c)
  <2>1. calls[c].pc = "deciding" /\ UNCHANGED <<runs, results, delivered, thrown>>
    BY <1>11 DEF Decide
  <2>2. CASE /\ sets' = SetStatus(calls[c].run, "rejected", "validated") /\ Go(c, "failing")
             /\ UNCHANGED claims
    <3>1. SetsQuiet
      BY <2>1, <2>2, RunOfCall, SetStatusQuiet DEF Told
    <3> QED BY <2>1, <2>2, <3>1, GoPasses
  <2>3. CASE /\ sets' = SetStatus(calls[c].run, "approved", "validated") /\ Go(c, "claimed")
             /\ \E basis : Claimed(c, basis)
    BY <2>1, <2>3, ClaimClaims
  <2>4. CASE UNCHANGED <<sets, claims>> /\ Go(c, "gated")
    BY <2>1, <2>4, GoPasses DEF SetsQuiet
  <2> QED BY <1>11, <2>2, <2>3, <2>4 DEF Decide
<1>12. CASE AwaitApproval(c)
  <2>1. /\ calls[c].pc = "gated" /\ UNCHANGED <<sets, results, claims, delivered, thrown>>
        /\ runs' = [runs EXCEPT ![calls[c].run].stage = "awaiting-approval"] /\ Return(c)
    BY <1>12 DEF AwaitApproval
  <2>2. /\ runs'[calls[c].run].stage = "awaiting-approval"
        /\ \A q \in Runs : runs'[q].status = runs[q].status
        /\ \A q \in Runs : q # calls[c].run => runs'[q] = runs[q]
    BY <2>1, RunOfCall DEF Inv, Shapes
  <2> QED BY <2>1, <2>2, ReturnPasses
<1> QED BY <1>1, <1>2, <1>3, <1>4, <1>5, <1>6, <1>7, <1>8, <1>9, <1>10, <1>11, <1>12 DEF StartSteps

(* Every step of approve passes but the claim.                             *)
LEMMA ApproveStepsPass ==
    ASSUME Inv, NEW c \in Calls, ApproveSteps(c)
    PROVE  Passes(c) \/ (ClaimsSet(c) /\ UNCHANGED <<runs, results, thrown>>)
<1> USE DEF At, RunOf, stored, history, Eases, Owners, WithClaim, After, Untold, Answering,
            Stored, Applied, Bound, BeforeSet, Resting
<1>1. CASE LoadSet(c)
  <2>1. calls[c].pc = "loading" /\ UNCHANGED <<runs, sets, results, claims, delivered, thrown>>
    BY <1>1 DEF LoadSet
  <2>2. \E h : calls' = [calls EXCEPT ![c].pc = "checking", ![c].holds = h]
    BY <1>1 DEF LoadSet
  <2>3. "checking" \notin Owners /\ ("checking" \in Bound \/ "loading" \notin Bound) /\ "checking" # "idle" /\ "loading" # "idle"
    OBVIOUS
  <2> HIDE DEF Owners, Bound
  <2> QED BY <2>1, <2>2, <2>3, ReadPasses
<1>2. CASE Recheck(c)
  <2>1. CASE Go(c, "failing")
    BY <1>2, <2>1, GoPasses DEF Recheck, SetsQuiet
  <2>2. CASE Return(c)
    BY <1>2, <2>2, ReturnPasses DEF Recheck
  <2>3. CASE \E h : calls' = [calls EXCEPT ![c].pc = "basing", ![c].holds = h]
    <3>1. calls[c].pc = "checking" /\ UNCHANGED <<runs, sets, results, claims, delivered, thrown>>
      BY <1>2 DEF Recheck
    <3>2. \E h : calls' = [calls EXCEPT ![c].pc = "basing", ![c].holds = h]
      BY <1>2, <2>3 DEF Recheck
    <3>3. "basing" \notin Owners /\ ("basing" \in Bound \/ "checking" \notin Bound) /\ "basing" # "idle" /\ "checking" # "idle"
      OBVIOUS
    <3> HIDE DEF Owners, Bound
    <3> QED BY <3>1, <3>2, <3>3, ReadPasses
  <2> QED BY <1>2, <2>1, <2>2, <2>3 DEF Recheck
<1>3. CASE CheckBase(c)
  <2>1. Go(c, "claiming") \/ Go(c, "stale")
    BY <1>3 DEF CheckBase
  <2> QED BY <1>3, <2>1, GoPasses DEF CheckBase, SetsQuiet
<1>4. CASE MarkStale(c)
  <2>1. calls[c].pc = "stale" /\ Go(c, "failing") /\ UNCHANGED <<runs, results, claims, delivered, thrown>>
    BY <1>4 DEF MarkStale
  <2>2. SetsQuiet
    BY <1>4, <2>1, RunOfCall, SetStatusQuiet DEF Told, MarkStale
  <2> QED BY <2>1, <2>2, GoPasses
<1>5. CASE ClaimApproved(c)
  <2>1. calls[c].pc = "claiming" /\ UNCHANGED <<runs, results, delivered, thrown>>
    BY <1>5 DEF ClaimApproved
  <2>2. CASE /\ sets' = SetStatus(calls[c].run, "approved", "validated") /\ Go(c, "claimed")
             /\ \E basis : Claimed(c, basis)
    BY <2>1, <2>2, ClaimClaims
  <2>3. CASE UNCHANGED <<sets, claims>> /\ Return(c)
    BY <2>1, <2>3, ReturnPasses
  <2> QED BY <1>5, <2>2, <2>3 DEF ClaimApproved
<1> QED BY <1>1, <1>2, <1>3, <1>4, <1>5 DEF ApproveSteps

(* Every step of a failure, of reject and of cancel passes.                *)
LEMMA EndStepsPass ==
    ASSUME Inv, NEW c \in Calls, EndSteps(c)
    PROVE  Passes(c)
<1> USE DEF At, RunOf, stored, history, Eases, Owners, WithClaim, After, Untold, Answering,
            Stored, Applied, Bound, BeforeSet, Resting
<1>1. CASE FailStage(c)
  BY <1>1, AdvancePasses DEF FailStage
<1>2. ASSUME NEW status, status # "succeeded", runs' = [runs EXCEPT ![calls[c].run].status = status],
             calls[c].pc # "idle"
      PROVE  /\ \A q \in Runs : runs'[q].status = runs[q].status \/ runs'[q].status # "succeeded"
             /\ \A q \in Runs : runs'[q].stage = runs[q].stage
  BY <1>2, RunOfCall DEF Inv, Shapes
<1>3. CASE FailStatus(c)
  BY <1>2, <1>3, ReturnPasses, RunOfCall DEF FailStatus
<1>4. CASE ReadRefused(c)
  <2>1. calls[c].pc = "refusing" /\ UNCHANGED <<runs, sets, results, claims, delivered, thrown>>
    BY <1>4 DEF ReadRefused
  <2>2. \E h : calls' = [calls EXCEPT ![c].pc = "refused", ![c].holds = h]
    BY <1>4 DEF ReadRefused
  <2>3. "refused" \notin Owners /\ ("refused" \in Bound \/ "refusing" \notin Bound) /\ "refused" # "idle" /\ "refusing" # "idle"
    OBVIOUS
  <2> HIDE DEF Owners, Bound
  <2> QED BY <2>1, <2>2, <2>3, ReadPasses
<1>5. CASE RefuseSet(c)
  <2>1. calls[c].pc = "refused" /\ Go(c, "failing") /\ UNCHANGED <<runs, results, claims, delivered, thrown>>
    BY <1>5 DEF RefuseSet
  <2>2. SetsQuiet
    BY <1>5, <2>1, RunOfCall, SetStatusQuiet DEF Told, RefuseSet
  <2> QED BY <2>1, <2>2, GoPasses
<1>6. CASE CancelStage(c)
  BY <1>6, AdvancePasses DEF CancelStage
<1>7. CASE CancelStatus(c)
  BY <1>2, <1>7, ReturnPasses, RunOfCall DEF CancelStatus
<1> QED BY <1>1, <1>3, <1>4, <1>5, <1>6, <1>7 DEF EndSteps

(* Every step of an apply passes but the delivery, the write of its result *)
(* and the two that conclude from it.                                      *)
LEMMA ApplyStepsPass ==
    ASSUME Inv, NEW c \in Calls, ApplySteps(c)
    PROVE  Passes(c) \/ Deliver(c) \/ RecordResult(c) \/ Conclude(c) \/ Succeed(c)
<1> USE DEF At, RunOf, stored, history, Eases, Owners, WithClaim, After, Untold, Answering,
            Stored, Applied, Bound, BeforeSet, Resting
<1>1. CASE BeginApplying(c)
  BY <1>1, AdvancePasses DEF BeginApplying
<1>2. CASE AskLink(c)
  <2>1. CASE (Go(c, "marking") \/ Go(c, "failing")) /\ UNCHANGED thrown
    BY <1>2, <2>1, GoPasses DEF AskLink, SetsQuiet
  <2>2. CASE Throw(c)
    BY <1>2, <2>2, ThrowPasses DEF AskLink
  <2> QED BY <1>2, <2>1, <2>2 DEF AskLink
<1>3. CASE MarkApplying(c)
  <2>1. calls[c].pc = "marking" /\ Go(c, "delivering") /\ UNCHANGED <<runs, results, claims, delivered, thrown>>
    BY <1>3 DEF MarkApplying
  <2>2. SetsQuiet
    BY <1>3, <2>1, RunOfCall, SetStatusQuiet DEF Told, MarkApplying
  <2> QED BY <2>1, <2>2, GoPasses
<1>4. ASSUME NEW outcome \in {"all", "some", "none"}, Answered(c, outcome) PROVE Passes(c)
  <2>1. PICK h : h = [outcome |-> outcome, version |-> place']
    OBVIOUS
  <2>2. h.outcome \in Outcomes
    BY <2>1 DEF Outcomes
  <2>3. /\ calls[c].pc = "awaiting" /\ calls' = [calls EXCEPT ![c].pc = "recording", ![c].holds = h]
        /\ UNCHANGED <<runs, sets, results, claims, delivered, thrown>>
    BY <1>4, <2>1 DEF Answered
  <2>4. Eases(c, "recording", h) /\ "recording" \in Bound
    BY <2>2, <2>3
  <2> HIDE DEF Eases, Bound
  <2> QED BY <2>3, <2>4, HoldPasses
<1>5. CASE NoAnswer(c)
  BY <1>5, GoPasses DEF NoAnswer, SetsQuiet
<1>6. CASE RecordVersion(c)
  BY <1>6, GoPasses DEF RecordVersion, SetsQuiet
<1>7. CASE BeginTesting(c)
  BY <1>7, AdvancePasses DEF BeginTesting
<1>8. CASE Tested(c)
  <2>1. CASE (Go(c, "done") \/ Go(c, "failing")) /\ UNCHANGED thrown
    BY <1>8, <2>1, GoPasses DEF Tested, SetsQuiet
  <2>2. CASE Throw(c)
    BY <1>8, <2>2, ThrowPasses DEF Tested
  <2> QED BY <1>8, <2>1, <2>2 DEF Tested
<1>9. CASE Finish(c)
  BY <1>9, AdvancePasses DEF Finish
<1> QED BY <1>1, <1>2, <1>3, <1>4, <1>5, <1>6, <1>7, <1>8, <1>9 DEF ApplySteps

-----------------------------------------------------------------------------
(* The steps that do record something.                                     *)

(* No other call is at work on what an owner owns.                         *)
LEMMA OwnerAlone ==
    ASSUME Inv, Records, NEW c \in Calls, calls[c].pc \in Owners
    PROVE  /\ calls[c].pc # "idle" /\ calls[c].run \in Runs
           /\ \A d \in Calls : (d # c /\ calls[d].pc \in Owners) => calls[d].run # calls[c].run
<1>1. calls[c].pc # "idle"
  BY DEF Owners, WithClaim, After
<1> QED BY <1>1, RunOfCall DEF Records, OwnersApart

(* A claim: nobody owned the set, and nothing was recorded of it yet.      *)
LEMMA ClaimKeeps ==
    ASSUME Inv, Records, NEW c \in Calls, ClaimsSet(c), UNCHANGED <<runs, results, thrown>>
    PROVE  Records' /\ Tends(c, calls[c].run)
<1>0. PICK r : r = calls[c].run
  OBVIOUS
<1> USE <1>0
<1>1. r \in Runs /\ calls[c].pc # "idle" /\ Claims(r) /\ Moves(c) /\ calls'[c].pc = "claimed"
  BY RunOfCall DEF ClaimsSet, Reaches
<1>2. claims[r] = 0 /\ delivered[r] = 0 /\ claims'[r] = 1 /\ delivered' = delivered
  BY <1>1 DEF Inv, SetsInv, Unused, Claims, Shapes
<1>3. \A d \in Calls : calls[d].pc \in Owners => calls[d].run # r
  <2>1. \A d \in Calls : calls[d].pc \in Owners => claims[calls[d].run] = 1
    BY OwnerAlone DEF Records, Owned, Owns
  <2> QED BY <1>2, <2>1
<1>4. runs[r].status # "succeeded"
  BY <1>1, <1>2 DEF Records, SucceededMeansApplied
<1>5. Alters(c, r)
  BY <1>1, <1>2, <1>3 DEF Alters, Moves, Claims, Inv, Shapes
<1>6. Owns(c)'
  BY <1>1, <1>2, <1>4 DEF Owns, Moves, Claims, Told, Owners, WithClaim, After, Untold, Answering,
                          Stored, Applied
<1>7. Evident(r)'
  BY <1>1, <1>4 DEF Evident, Claims
<1>8. Records'
  BY <1>1, <1>5, <1>6, <1>7, AltersKeeps DEF Records
<1>9. Tends(c, r)
  BY <1>1 DEF Tends, Moves, Bound, WithClaim
<1> QED BY <1>8, <1>9

(* A delivery is the first of its set.                                     *)
LEMMA DeliverKeeps ==
    ASSUME Inv, Records, NEW c \in Calls, Deliver(c)
    PROVE  Records' /\ Tends(c, calls[c].run)
<1>0. PICK r : r = calls[c].run
  OBVIOUS
<1> USE <1>0
<1>1. calls[c].pc = "delivering" /\ UNCHANGED <<runs, sets, results, claims>>
  BY DEF Deliver, At, stored
<1>2. CASE Throw(c) /\ UNCHANGED delivered
  BY <1>1, <1>2, ThrowPasses, QuietKeeps DEF Passes
<1>3. CASE delivered' = [delivered EXCEPT ![r] = @ + 1] /\ Go(c, "awaiting") /\ UNCHANGED thrown
  <2>1. calls[c].pc \in Owners
    BY <1>1 DEF Owners, WithClaim
  <2>2. /\ r \in Runs /\ calls[c].pc # "idle"
        /\ \A d \in Calls : (d # c /\ calls[d].pc \in Owners) => calls[d].run # r
    BY <2>1, OwnerAlone
  <2>3. claims[r] = 1 /\ delivered[r] = 0 /\ sets[r].status \notin Told /\ runs[r].status # "succeeded"
    BY <1>1, <2>2 DEF Inv, CallsInv, WithClaim, Records, Owned, Owns, Untold
  <2>4. delivered'[r] = 1 /\ \A q \in Runs : q # r => delivered'[q] = delivered[q]
    BY <1>3, <2>2, <2>3 DEF Inv, Shapes
  <2>5. Moves(c) /\ calls'[c].pc = "awaiting"
    BY <1>1, <1>3, GoMoves DEF Go, Inv
  <2>6. Alters(c, r)
    BY <1>1, <2>2, <2>4, <2>5 DEF Alters, Moves
  <2>7. Owns(c)'
    BY <1>1, <2>3, <2>4, <2>5 DEF Owns, Moves, Owners, WithClaim, After, Untold, Answering, Stored,
                                  Applied
  <2>8. Evident(r)'
    BY <1>1, <2>3 DEF Evident, Told
  <2>9. Records'
    BY <1>1, <2>2, <2>6, <2>7, <2>8, AltersKeeps DEF Records
  <2>10. Tends(c, r)
    BY <1>1, <1>3, <2>5 DEF Tends, Moves, Bound, WithClaim
  <2> QED BY <2>9, <2>10
<1> QED BY <1>2, <1>3 DEF Deliver, RunOf

(* The result is stored before any status says what it was.                *)
LEMMA RecordKeeps ==
    ASSUME Inv, Records, NEW c \in Calls, RecordResult(c)
    PROVE  Records' /\ Tends(c, calls[c].run)
<1>0. PICK r : r = calls[c].run
  OBVIOUS
<1> USE <1>0
<1>1. /\ calls[c].pc = "recording" /\ UNCHANGED <<runs, sets, claims, delivered, thrown>>
      /\ results' = [results EXCEPT ![r] = calls[c].holds.outcome] /\ Go(c, "versioning")
  BY DEF RecordResult, At, RunOf, history
<1>2. calls[c].pc \in Owners
  BY <1>1 DEF Owners, After
<1>3. /\ r \in Runs /\ calls[c].pc # "idle"
      /\ \A d \in Calls : (d # c /\ calls[d].pc \in Owners) => calls[d].run # r
  BY <1>2, OwnerAlone
<1>4. /\ claims[r] = 1 /\ delivered[r] = 1 /\ calls[c].holds.outcome \in Outcomes
      /\ sets[r].status \notin Told /\ runs[r].status # "succeeded"
  BY <1>1, <1>2, <1>3 DEF Records, Owned, Owns, Untold, After, Answering
<1>5. Moves(c) /\ calls'[c].pc = "versioning" /\ calls'[c].holds = calls[c].holds
  BY <1>1, GoMoves DEF Go, Inv
<1>6. /\ results'[r] = calls[c].holds.outcome /\ results' = [q \in Runs |-> results'[q]]
      /\ \A q \in Runs : q # r => results'[q] = results[q]
  BY <1>1, <1>3 DEF Records
<1>7. Alters(c, r)
  BY <1>1, <1>3, <1>5, <1>6 DEF Alters, Moves
<1>8. Owns(c)'
  BY <1>1, <1>4, <1>5, <1>6 DEF Owns, Moves, Applied
<1>9. Evident(r)'
  BY <1>1, <1>4 DEF Evident, Told
<1>10. Records'
  BY <1>3, <1>6, <1>7, <1>8, <1>9, AltersKeeps
<1>11. Tends(c, r)
  BY <1>1, <1>5 DEF Tends, Moves, Bound
<1> QED BY <1>10, <1>11

(* The status a set ends with says what the stored result says.            *)
LEMMA ConcludeKeeps ==
    ASSUME Inv, Records, NEW c \in Calls, Conclude(c)
    PROVE  Records' /\ Tends(c, calls[c].run)
<1>0. PICK r, outcome : r = calls[c].run /\ outcome = calls[c].holds.outcome
  OBVIOUS
<1> USE <1>0
<1>1. calls[c].pc = "concluding" /\ UNCHANGED <<runs, results, claims, delivered, thrown>>
  BY DEF Conclude, At, history
<1>2. calls[c].pc \in Owners
  BY <1>1 DEF Owners, After
<1>3. /\ r \in Runs /\ calls[c].pc # "idle"
      /\ \A d \in Calls : (d # c /\ calls[d].pc \in Owners) => calls[d].run # r
  BY <1>2, OwnerAlone
<1>4. /\ claims[r] = 1 /\ delivered[r] = 1 /\ outcome \in Outcomes /\ results[r] = outcome
      /\ sets[r].status \notin Told /\ runs[r].status # "succeeded"
  BY <1>1, <1>2, <1>3 DEF Records, Owned, Owns, Untold, After, Answering, Stored
<1>5. PICK next, p :
          /\ sets' = SetStatus(r, next, "applying") /\ Go(c, p)
          /\ \/ outcome = "all" /\ next = "applied" /\ p \in {"applied", "done"}
             \/ outcome = "some" /\ next = "partial" /\ p = "failing"
             \/ outcome = "none" /\ next = "failed" /\ p = "failing"
  <2>1. CASE outcome = "all"
    BY <2>1 DEF Conclude, RunOf
  <2>2. CASE outcome = "some"
    BY <2>2 DEF Conclude, RunOf
  <2>3. CASE outcome = "none"
    BY <2>3 DEF Conclude, RunOf
  <2> QED BY <1>4, <2>1, <2>2, <2>3 DEF Outcomes
<1>6. Moves(c) /\ calls'[c].pc = p
  BY <1>1, <1>5, GoMoves DEF Go, Inv
<1>7. /\ sets'[r].status = next \/ sets'[r].status = sets[r].status
      /\ \A q \in Runs : q # r => sets'[q].status = sets[q].status
  BY <1>3, <1>5 DEF SetStatus, Inv, Shapes
<1>8. Alters(c, r)
  BY <1>1, <1>3, <1>6, <1>7 DEF Alters, Moves
<1>9. Owns(c)'
  BY <1>1, <1>4, <1>5, <1>6 DEF Owns, Moves, Owners, WithClaim, After, Untold, Answering, Stored,
                                Applied
<1>10. Evident(r)'
  BY <1>1, <1>4, <1>5, <1>7 DEF Evident, Told
<1>11. Records'
  BY <1>1, <1>3, <1>8, <1>9, <1>10, AltersKeeps DEF Records
<1>12. Tends(c, r)
  BY <1>1, <1>5, <1>6 DEF Tends, Moves, Bound
<1> QED BY <1>11, <1>12

(* A run succeeds when all of its set was applied.                         *)
LEMMA SucceedKeeps ==
    ASSUME Inv, Records, NEW c \in Calls, Succeed(c)
    PROVE  Records' /\ Tends(c, calls[c].run)
<1>0. PICK r : r = calls[c].run
  OBVIOUS
<1> USE <1>0
<1>1. /\ calls[c].pc = "succeeding" /\ UNCHANGED <<sets, results, claims, delivered, thrown>>
      /\ runs' = [runs EXCEPT ![r].status = "succeeded"] /\ Return(c)
  BY DEF Succeed, At, RunOf, history
<1>2. calls[c].pc \in Owners
  BY <1>1 DEF Owners, After
<1>3. /\ r \in Runs /\ calls[c].pc # "idle"
      /\ \A d \in Calls : (d # c /\ calls[d].pc \in Owners) => calls[d].run # r
  BY <1>2, OwnerAlone
<1>4. delivered[r] = 1 /\ results[r] = "all"
  BY <1>1, <1>3 DEF Records, Owned, Owns, After, Applied
<1>5. Rests(c) /\ calls'[c].pc = "idle"
  BY <1>1, ReturnRests DEF Inv, Rests, Idle
<1>6. /\ runs'[r].status = "succeeded" /\ \A q \in Runs : runs'[q].stage = runs[q].stage
      /\ \A q \in Runs : q # r => runs'[q] = runs[q]
  BY <1>1, <1>3 DEF Inv, Shapes
<1>7. Alters(c, r)
  BY <1>1, <1>3, <1>5, <1>6 DEF Alters, Rests, Owners, WithClaim, After
<1>8. Owns(c)'
  BY <1>5 DEF Owns
<1>9. Evident(r)'
  BY <1>1, <1>3, <1>4 DEF Evident, Records, StatusIsEvidence
<1>10. Records'
  BY <1>1, <1>3, <1>7, <1>8, <1>9, AltersKeeps DEF Records
<1>11. Tends(c, r)
  BY <1>1, <1>5, <1>6 DEF Tends, Rests, Bound, BeforeSet, WithClaim
<1> QED BY <1>10, <1>11

(* A new call records nothing; start is bound by the stage it writes.      *)
LEMMA NewCallKeeps ==
    ASSUME Inv, Records, Attended, NEW c \in Calls, NewCall(c)
    PROVE  Records' /\ Attended'
<1> USE DEF At
<1>1. PICK r \in Runs : \/ Start(c, r) \/ Reject(c, r) \/ Cancel(c, r)
                        \/ \E confirm \in BOOLEAN : Approve(c, r, confirm)
  BY DEF NewCall
<1>2. calls[c].pc = "idle" /\ UNCHANGED <<sets, results, claims, delivered, thrown>>
  BY <1>1 DEF Start, Reject, Cancel, Approve, stored, history
<1>3. PICK new : /\ calls' = [calls EXCEPT ![c] = new] /\ new.run = r
                 /\ new.pc \in {"queued", "loading", "refusing", "failing", "cancelling"}
                 /\ \/ new.pc = "queued" /\ Start(c, r)
                    \/ UNCHANGED runs
  <2>1. CASE Start(c, r)
    <3> DEFINE x == [pc |-> "queued", kind |-> "start", run |-> r, stage |-> "queued",
                    confirm |-> FALSE, holds |-> None]
    <3>1. calls' = [calls EXCEPT ![c] = x]
      BY <2>1 DEF Start, stored
    <3>2. x.run = r /\ x.pc = "queued"
      OBVIOUS
    <3> HIDE DEF x
    <3> QED BY <2>1, <3>1, <3>2
  <2>2. CASE Reject(c, r)
    <3>0. PICK p : p = IF runs[r].listed THEN "refusing" ELSE "failing"
      OBVIOUS
    <3> DEFINE x == [pc |-> p, kind |-> "reject", run |-> r, stage |-> runs[r].stage,
                     confirm |-> FALSE, holds |-> None]
    <3>1. calls' = [calls EXCEPT ![c] = x] /\ UNCHANGED runs
      BY <2>2, <3>0 DEF Reject, stored
    <3>2. p = "refusing" \/ p = "failing"
      BY <3>0, SMT
    <3>3. x.run = r /\ x.pc = p
      OBVIOUS
    <3> HIDE DEF x
    <3> QED BY <3>1, <3>2, <3>3
  <2>3. CASE Cancel(c, r)
    <3> DEFINE x == [pc |-> "cancelling", kind |-> "cancel", run |-> r,
                    stage |-> runs[r].stage, confirm |-> FALSE, holds |-> None]
    <3>1. calls' = [calls EXCEPT ![c] = x] /\ UNCHANGED runs
      BY <2>3 DEF Cancel, stored
    <3>2. x.run = r /\ x.pc = "cancelling"
      OBVIOUS
    <3> HIDE DEF x
    <3> QED BY <2>3, <3>1, <3>2
  <2>4. ASSUME NEW confirm \in BOOLEAN, Approve(c, r, confirm)
        PROVE  \E new : /\ calls' = [calls EXCEPT ![c] = new] /\ new.run = r
                        /\ new.pc = "loading" /\ UNCHANGED runs
    <3> DEFINE x == [pc |-> "loading", kind |-> "approve", run |-> r, stage |-> runs[r].stage,
                     confirm |-> confirm, holds |-> None]
    <3>1. calls' = [calls EXCEPT ![c] = x] /\ UNCHANGED runs
      BY <2>4 DEF Approve, stored
    <3>2. x.run = r /\ x.pc = "loading"
      OBVIOUS
    <3> HIDE DEF x
    <3> QED BY <3>1, <3>2
  <2> QED BY <1>1, <2>1, <2>2, <2>3, <2>4
<1>4. calls'[c] = new /\ \A d \in Calls : d # c => calls'[d] = calls[d]
  BY <1>3 DEF Inv, Shapes
<1>5. /\ \A q \in Runs : runs'[q].status = runs[q].status \/ runs'[q].status # "succeeded"
      /\ \A q \in Runs : q # r => runs'[q] = runs[q]
  <2>1. CASE UNCHANGED runs
    BY <2>1
  <2>2. CASE Start(c, r)
    <3>1. runs' = [runs EXCEPT ![r].stage = "queued", ![r].status = "running"]
      BY <2>2 DEF Start
    <3>2. /\ runs'[r] = [[runs[r] EXCEPT !.stage = "queued"] EXCEPT !.status = "running"]
          /\ \A q \in Runs : q # r => runs'[q] = runs[q]
      BY <3>1 DEF Inv, Shapes
    <3>3. runs[r] = [stage |-> runs[r].stage, status |-> runs[r].status, listed |-> runs[r].listed]
      BY DEF Inv, Shapes
    <3>4. runs'[r].status = "running"
      BY <3>2, <3>3
    <3> QED BY <3>2, <3>4
  <2> QED BY <1>3, <2>1, <2>2
<1>6. Quiet(c)
  BY <1>2, <1>3, <1>4, <1>5 DEF Quiet, Eases, Owners, WithClaim, After, Untold, Answering, Stored, Applied
<1>7. Tends(c, r)
  BY <1>2, <1>3, <1>4, <1>5 DEF Tends, Bound, BeforeSet, WithClaim
<1> QED BY <1>6, <1>7, QuietKeeps, TendsKeeps

-----------------------------------------------------------------------------
(* Every step leaves the records true and every run attended.              *)
LEMMA RecordsStep ==
    Inv /\ Records /\ Attended /\ [Next]_vars => Records' /\ Attended'
<1> SUFFICES ASSUME Inv, Records, Attended, [Next]_vars PROVE Records' /\ Attended'
  OBVIOUS
<1>1. ASSUME NEW c \in Calls, Records', calls[c].pc # "idle", Tends(c, calls[c].run)
      PROVE  Records' /\ Attended'
  BY <1>1, RunOfCall, TendsKeeps
<1>2. ASSUME NEW c \in Calls, Passes(c) PROVE Records' /\ Attended'
  BY <1>1, <1>2, QuietKeeps DEF Passes
<1>3. ASSUME NEW c \in Calls, ClaimsSet(c), UNCHANGED <<runs, results, thrown>>
      PROVE  Records' /\ Attended'
  BY <1>1, <1>3, ClaimKeeps DEF ClaimsSet, Reaches
<1>4. ASSUME NEW c \in Calls, StartSteps(c) \/ ApproveSteps(c) PROVE Records' /\ Attended'
  BY <1>2, <1>3, <1>4, StartStepsPass, ApproveStepsPass
<1>5. ASSUME NEW c \in Calls, ApplySteps(c) PROVE Records' /\ Attended'
  <2>1. CASE Deliver(c)
    BY <1>1, <2>1, DeliverKeeps DEF Deliver, At
  <2>2. CASE RecordResult(c)
    BY <1>1, <2>2, RecordKeeps DEF RecordResult, At
  <2>3. CASE Conclude(c)
    BY <1>1, <2>3, ConcludeKeeps DEF Conclude, At
  <2>4. CASE Succeed(c)
    BY <1>1, <2>4, SucceedKeeps DEF Succeed, At
  <2> QED BY <1>2, <1>5, <2>1, <2>2, <2>3, <2>4, ApplyStepsPass
<1>6. ASSUME NEW c \in Calls, EndSteps(c) PROVE Records' /\ Attended'
  BY <1>2, <1>6, EndStepsPass
<1>7. CASE \/ \E p \in Policies : SetPolicy(p)
           \/ AppendTree \/ UNCHANGED vars
  <2>1. UNCHANGED <<runs, sets, results, calls, claims, delivered, thrown>>
    BY <1>7 DEF SetPolicy, AppendTree, vars, stored, history
  <2>2. Records'
    BY <2>1 DEF Records, Owned, Owns, OwnersApart, StatusIsEvidence, SucceededMeansApplied
  <2>3. Attended'
    BY <2>1 DEF Attended
  <2> QED BY <2>2, <2>3
<1> QED BY <1>4, <1>5, <1>6, <1>7, NewCallKeeps DEF Next

(* Whatever calls overlap: a status that says what happened in the place   *)
(* is backed by a stored result, a run is stored as succeeded only when    *)
(* its set was delivered once and applied in full, and no run is left at a *)
(* stage nobody can act on, but by an exception of a port during an        *)
(* approval.                                                               *)
THEOREM PipelineRecordsAreTrue == Spec => []RecordsAreTrue
<1>1. Inv /\ Records /\ Attended => RecordsAreTrue
  <2> SUFFICES ASSUME Records, Attended PROVE NoRunIsStranded
    BY DEF Records, RecordsAreTrue
  <2>1. "idle" \notin Bound
    BY DEF Bound, BeforeSet, WithClaim
  <2> QED BY <2>1 DEF Attended, NoRunIsStranded, At, RunOf, Resting
<1> QED BY <1>1, InvInit, InvStep, RecordsInit, RecordsStep, PTL DEF Spec

-----------------------------------------------------------------------------
(* What the policy check's answer says of the operations themselves.       *)

(* A path within a prefix begins with it.                                  *)
LEMMA WithinIsBeneath ==
    ASSUME NEW p \in Seq(STRING), NEW q \in Seq(STRING), IsWithin(p, q)
    PROVE  Beneath(p, q)
<1>1. CASE p = q
  <2>1. Len(p) \in 0..Len(p) /\ SubSeq(p, 1, Len(p)) = p
    OBVIOUS
  <2> QED BY <1>1, <2>1 DEF Beneath
<1>2. CASE Len(p) > Len(q) /\ \A i \in DOMAIN q : p[i] = q[i]
  <2>1. Len(q) \in 0..Len(p)
    BY <1>2
  <2>2. /\ SubSeq(p, 1, Len(q)) \in Seq(STRING) /\ Len(SubSeq(p, 1, Len(q))) = Len(q)
        /\ \A i \in 1..Len(q) : SubSeq(p, 1, Len(q))[i] = q[i]
    BY <1>2
  <2>3. SubSeq(p, 1, Len(q)) = q
    BY <2>2, SeqEqual
  <2> QED BY <2>1, <2>3 DEF Beneath
<1> QED BY <1>1, <1>2 DEF IsWithin

(* The paths an operation names are the ones the check looks at.           *)
LEMMA NamedAreChecked ==
    ASSUME NEW d \in Drafts, NEW p \in Named(d.ops)
    PROVE  p \in Seq(STRING) /\ \E i \in DOMAIN d.ops : p \in PathsOf(d.ops[i])
<1>a. p # <<>> /\ p \in UNION {{d.ops[i].path, d.ops[i].to} \cup d.ops[i].refs : i \in DOMAIN d.ops}
  BY DEF Named
<1>b. PICK s \in {{d.ops[i].path, d.ops[i].to} \cup d.ops[i].refs : i \in DOMAIN d.ops} : p \in s
  BY <1>a
<1>1. PICK i \in DOMAIN d.ops : p \in {d.ops[i].path, d.ops[i].to} \cup d.ops[i].refs
  BY <1>b
<1>2. IsOperation(d.ops[i])
  BY DraftsAssumption
<1> QED BY <1>a, <1>1, <1>2 DEF IsOperation, PathsOf

(* A policy a project may be given, or the one that denies everything.     *)
Known == Policies \cup {DenyAllPolicy}

(* An answer of ok means that an allowed prefix covers every path.         *)
LEMMA OkCovers ==
    ASSUME NEW d \in Drafts, NEW rules \in Known, CheckPolicy(d.ops, rules).ok
    PROVE  \A p \in Named(d.ops) : \E q \in rules.prefixes : Beneath(p, q)
<1> SUFFICES ASSUME NEW p \in Named(d.ops) PROVE \E q \in rules.prefixes : Beneath(p, q)
  OBVIOUS
<1>1. p \in Seq(STRING) /\ \E i \in DOMAIN d.ops : p \in PathsOf(d.ops[i])
  BY NamedAreChecked
<1>2. ~HasViolations(d.ops, rules)
  BY DEF CheckPolicy
<1>3. PICK q \in UsablePrefixes(rules) : IsWithin(p, q)
  BY <1>1, <1>2 DEF HasViolations, WithinAny
<1>4. rules \in Policies
  BY <1>2 DEF Known, HasViolations, UsablePrefixes, DenyAllPolicy
<1>5. q \in rules.prefixes /\ q \in Seq(STRING)
  BY <1>3, <1>4, PoliciesAssumption DEF UsablePrefixes, IsPolicy
<1> QED BY <1>1, <1>3, <1>5, WithinIsBeneath

(* What decideAutoApply lets through is vetted without a person.           *)
LEMMA AutoIsVetted ==
    ASSUME NEW d \in Drafts, NEW rules \in Known, "ok" \in Verdicts(d.ops),
           CheckPolicy(d.ops, rules).ok, CheckPolicy(d.ops, rules).autoApply
    PROVE  Vetted(d.ops, "ok", Basis("auto", rules, FALSE))
<1>1. AutoApplyEligible(d.ops, rules)
  BY DEF CheckPolicy
<1>2. \A p \in Named(d.ops) : \E q \in rules.prefixes : Beneath(p, q)
  BY OkCovers
<1>3. ASSUME NEW p \in Named(d.ops) PROVE Beneath(p, rules.autoApply)
  <2>1. p \in Seq(STRING) /\ \E i \in DOMAIN d.ops : p \in PathsOf(d.ops[i])
    BY NamedAreChecked
  <2>2. IsWithin(p, rules.autoApply)
    BY <1>1, <2>1 DEF AutoApplyEligible
  <2>3. rules.autoApply \in Seq(STRING)
    BY <1>1, PoliciesAssumption DEF AutoApplyEligible, IsPolicy, Known, DenyAllPolicy
  <2> QED BY <2>1, <2>2, <2>3, WithinIsBeneath
<1>4. \A i \in DOMAIN d.ops : d.ops[i].op # "deleteInstance"
  BY <1>1 DEF AutoApplyEligible
<1>5. (\E i \in DOMAIN d.ops : d.ops[i].source = "text") => HasSandbox
  <2> SUFFICES ASSUME NEW i \in DOMAIN d.ops, d.ops[i].source = "text", ~HasSandbox PROVE FALSE
    OBVIOUS
  <2>1. IsOperation(d.ops[i])
    BY DraftsAssumption
  <2>2. HasLuauSource(d.ops[i])
    BY <2>1 DEF IsOperation, HasLuauSource
  <2>3. Verdicts(d.ops) = {"warn"}
    BY <2>2 DEF Verdicts
  <2> QED BY <2>3
<1>6. /\ Basis("auto", rules, FALSE).by = "auto"
      /\ Basis("auto", rules, FALSE).policy = rules
  BY DEF Basis
<1> QED BY <1>2, <1>3, <1>4, <1>5, <1>6 DEF Vetted

(* What approve lets through is vetted by a person.                        *)
LEMMA HumanIsVetted ==
    ASSUME NEW d \in Drafts, NEW rules \in Known, NEW luau, luau # "fail", NEW confirm,
           CheckPolicy(d.ops, rules).ok,
           CheckPolicy(d.ops, rules).requiresConfirmation => confirm
    PROVE  Vetted(d.ops, luau, Basis("human", rules, confirm))
<1>1. \A p \in Named(d.ops) : \E q \in rules.prefixes : Beneath(p, q)
  BY OkCovers
<1>2. DeletionCount(d.ops) > BulkDeleteThreshold => confirm
  BY DEF CheckPolicy
<1>3. /\ Basis("human", rules, confirm).by = "human"
      /\ Basis("human", rules, confirm).policy = rules
      /\ Basis("human", rules, confirm).confirmed = confirm
  BY DEF Basis
<1> QED BY <1>1, <1>2, <1>3 DEF Vetted, DeletionCount

-----------------------------------------------------------------------------
(* What a call carries from gate to gate.                                  *)

Drafted == {"generated", "validating", "analysing", "saving", "listing", "deciding"}
Judged == {"analysing", "saving", "listing", "deciding"}
Analysing == {"saving", "listing", "deciding"}
Saved == {"listing", "deciding"}
Open == {"gated", "loading", "checking", "basing", "claiming"}
Cleared == {"basing", "claiming"}

Carries(c) ==
    calls[c].pc # "idle" =>
        /\ calls[c].pc \in Drafted => calls[c].holds.draft \in Drafts
        /\ calls[c].pc \in Judged => calls[c].holds.policy \in Known
        /\ calls[c].pc \in Analysing => calls[c].holds.luau \in Verdicts(calls[c].holds.draft.ops)
        /\ calls[c].pc \in Saved =>
              /\ sets[calls[c].run].ops = calls[c].holds.draft.ops
              /\ sets[calls[c].run].luau = calls[c].holds.luau
        /\ calls[c].pc \in Open => sets[calls[c].run].luau # "fail"
        /\ calls[c].pc = "checking" => calls[c].holds.ops = sets[calls[c].run].ops
        /\ calls[c].pc \in Cleared =>
              /\ calls[c].holds.policy \in Known
              /\ CheckPolicy(sets[calls[c].run].ops, calls[c].holds.policy).ok
              /\ CheckPolicy(sets[calls[c].run].ops, calls[c].holds.policy).requiresConfirmation
                    => calls[c].confirm

Whole(r) ==
    sets[r].status # "none" =>
        /\ sets[r] = [status |-> sets[r].status, base |-> sets[r].base, ops |-> sets[r].ops,
                      luau |-> sets[r].luau]
        /\ \E d \in Drafts : sets[r].ops = d.ops

Gates ==
    /\ policy \in Policies \cup {None}
    /\ claimedAs = [r \in Runs |-> claimedAs[r]]
    /\ \A r \in Runs : Whole(r)
    /\ \A c \in Calls : Carries(c)
    /\ \A r \in Runs : runs[r].stage = "awaiting-approval" => sets[r].luau # "fail"
    /\ \A r \in Runs : claims[r] # 0 => Vetted(sets[r].ops, sets[r].luau, claimedAs[r])

(* Before the first call there is nothing to carry.                        *)
LEMMA GatesInit == Init => Gates
  BY DEF Init, Gates, Whole, Carries, NoSet, Idle

(* The operations and the verdict of a stored set never change.            *)
SetsFixed ==
    \A q \in Runs :
        /\ Whole(q)'
        /\ sets[q].status # "none" =>
              sets'[q].status # "none" /\ sets'[q].ops = sets[q].ops /\ sets'[q].luau = sets[q].luau

(* What any step does to what the other calls carry.                       *)
Steady(c) ==
    /\ SetsFixed
    /\ \A d \in Calls : d # c => calls'[d] = calls[d]
    /\ Carries(c)'
    /\ policy' \in Policies \cup {None}
    /\ \A q \in Runs : runs'[q].stage = "awaiting-approval" =>
          runs[q].stage = "awaiting-approval" \/ sets'[q].luau # "fail"

(* A steady step keeps what was vetted vetted.                             *)
LEMMA SteadyKeeps ==
    ASSUME Inv, Gates, NEW c \in Calls, Steady(c), claimedAs' = [r \in Runs |-> claimedAs'[r]],
           \A r \in Runs : \/ claims'[r] = claims[r] /\ claimedAs'[r] = claimedAs[r]
                           \/ Vetted(sets'[r].ops, sets'[r].luau, claimedAs'[r])
    PROVE  Gates'
<1>1. \A r \in Runs : Whole(r)'
  BY DEF Steady, SetsFixed
<1>2. ASSUME NEW d \in Calls, d # c PROVE Carries(d)'
  <2>1. calls'[d] = calls[d] /\ Carries(d)
    BY <1>2 DEF Steady, Gates
  <2>2. CASE calls[d].pc \in WithSet
    <3>1. calls[d].run \in Runs /\ sets[calls[d].run].status # "none"
      BY <2>2, RunOfCall DEF Inv, CallsInv, WithSet
    <3>2. sets'[calls[d].run].ops = sets[calls[d].run].ops /\ sets'[calls[d].run].luau = sets[calls[d].run].luau
      BY <3>1 DEF Steady, SetsFixed
    <3> QED BY <2>1, <3>2 DEF Carries
  <2>3. CASE calls[d].pc \notin WithSet
    BY <2>1, <2>3 DEF Carries, WithSet, Saved, Open, Cleared
  <2> QED BY <2>2, <2>3
<1>3. \A d \in Calls : Carries(d)'
  BY <1>2 DEF Steady
<1>4. \A r \in Runs : runs'[r].stage = "awaiting-approval" => sets'[r].luau # "fail"
  BY DEF Steady, SetsFixed, Gates, Inv, SetsInv
<1>5. ASSUME NEW r \in Runs, claims'[r] # 0
      PROVE  Vetted(sets'[r].ops, sets'[r].luau, claimedAs'[r])
  <2>1. CASE claims'[r] = claims[r] /\ claimedAs'[r] = claimedAs[r]
    <3>1. sets[r].status # "none"
      BY <1>5, <2>1 DEF Inv, SetsInv
    <3> QED BY <1>5, <2>1, <3>1 DEF Steady, SetsFixed, Gates
  <2> QED BY <2>1
<1>6. policy' \in Policies \cup {None}
  BY DEF Steady
<1> QED BY <1>1, <1>3, <1>4, <1>5, <1>6 DEF Gates

(* Sets that are left alone, or whose status alone is written, are fixed.  *)
LEMMA UnchangedFixed ==
    ASSUME Gates, UNCHANGED sets
    PROVE  SetsFixed
  BY DEF Gates, SetsFixed, Whole

(* A compare-and-set of the status leaves the content of a set as it was.   *)
LEMMA SetStatusFixed ==
    ASSUME Inv, Gates, NEW r \in Runs, NEW next, next # "none", NEW expected, expected # "none",
           sets' = SetStatus(r, next, expected)
    PROVE  SetsFixed
<1>1. CASE sets[r].status # expected
  BY <1>1, UnchangedFixed DEF SetStatus
<1>2. CASE sets[r].status = expected
  <2>1. sets' = [sets EXCEPT ![r].status = next]
    BY <1>2 DEF SetStatus
  <2>2. Whole(r) /\ sets[r].status # "none"
    BY <1>2 DEF Gates
  <2>3. /\ sets'[r] = [sets[r] EXCEPT !.status = next]
        /\ \A q \in Runs : q # r => sets'[q] = sets[q]
    BY <2>1 DEF Inv, Shapes
  <2>4. sets'[r] = [status |-> next, base |-> sets[r].base, ops |-> sets[r].ops,
                    luau |-> sets[r].luau]
    BY <2>2, <2>3 DEF Whole
  <2>5. Whole(r)' /\ sets'[r].status # "none" /\ sets'[r].ops = sets[r].ops /\ sets'[r].luau = sets[r].luau
    BY <2>2, <2>4 DEF Whole
  <2>6. ASSUME NEW q \in Runs, q # r
        PROVE  Whole(q)' /\ sets'[q] = sets[q]
    <3>1. Whole(q) /\ sets'[q] = sets[q]
      BY <2>3, <2>6 DEF Gates
    <3> QED BY <3>1 DEF Whole
  <2> QED BY <2>5, <2>6 DEF SetsFixed
<1> QED BY <1>1, <1>2

(* Go and a write of the stage leave alone what a call holds.              *)
LEMMA GoHolds ==
    ASSUME Inv, NEW c \in Calls, calls[c].pc # "idle", NEW p, p # "idle", NEW s,
           \/ calls' = [calls EXCEPT ![c].pc = p]
           \/ calls' = [calls EXCEPT ![c].stage = s, ![c].pc = p]
    PROVE  /\ Moves(c) /\ calls'[c].pc = p
           /\ calls'[c].holds = calls[c].holds /\ calls'[c].confirm = calls[c].confirm
<1>1. IsCall(calls[c])
  BY DEF Inv, Shapes, Idle
<1>2. CASE calls' = [calls EXCEPT ![c].pc = p]
  <2>1. Moves(c) /\ calls'[c].pc = p
    BY <1>2, GoMoves DEF Inv
  <2>2. calls'[c] = [calls[c] EXCEPT !.pc = p]
    BY <1>2 DEF Inv, Shapes
  <2> QED BY <1>1, <2>1, <2>2 DEF IsCall
<1>3. CASE calls' = [calls EXCEPT ![c].stage = s, ![c].pc = p]
  <2>1. Moves(c) /\ calls'[c].pc = p
    BY <1>3, StageMoves DEF Inv
  <2>2. calls'[c] = [[calls[c] EXCEPT !.stage = s] EXCEPT !.pc = p]
    BY <1>3 DEF Inv, Shapes
  <2> QED BY <1>1, <2>1, <2>2 DEF IsCall
<1> QED BY <1>2, <1>3

(* A read does not change who confirmed.                                   *)
LEMMA HoldConfirm ==
    ASSUME Inv, NEW c \in Calls, calls[c].pc # "idle", NEW p, p # "idle", NEW h,
           calls' = [calls EXCEPT ![c].pc = p, ![c].holds = h]
    PROVE  /\ Moves(c) /\ calls'[c].pc = p /\ calls'[c].holds = h
           /\ calls'[c].confirm = calls[c].confirm
<1>1. IsCall(calls[c])
  BY DEF Inv, Shapes, Idle
<1>2. Moves(c) /\ calls'[c].pc = p /\ calls'[c].holds = h
  BY HoldMoves DEF Inv
<1>3. calls'[c] = [[calls[c] EXCEPT !.pc = p] EXCEPT !.holds = h]
  BY DEF Inv, Shapes
<1>4. calls'[c].confirm = calls[c].confirm
  BY <1>1, <1>3 DEF IsCall
<1> QED BY <1>2, <1>4

-----------------------------------------------------------------------------
(* The forms a step takes.                                                 *)

(* A steady step that claims nothing.                                      *)
Clears(c) == Steady(c) /\ UNCHANGED <<claims, claimedAs>>

(* The place a call goes to asks for no more than the one it leaves.       *)
Keeps(c, p) ==
    /\ p \in Drafted => calls[c].pc \in Drafted
    /\ p \in Judged => calls[c].pc \in Judged
    /\ p \in Analysing => calls[c].pc \in Analysing
    /\ p \in Saved => calls[c].pc \in Saved
    /\ p \in Open => calls[c].pc \in Open
    /\ p \in Cleared => calls[c].pc \in Cleared
    /\ p # "checking"

(* A call that moves on carries what it checked, since the set is fixed.    *)
LEMMA KeepsCarries ==
    ASSUME Inv, Gates, NEW c \in Calls, calls[c].pc # "idle", Moves(c), Keeps(c, calls'[c].pc),
           calls'[c].holds = calls[c].holds, calls'[c].confirm = calls[c].confirm, SetsFixed
    PROVE  Carries(c)'
<1>1. calls'[c].run = calls[c].run /\ Carries(c) /\ calls[c].run \in Runs
  BY RunOfCall DEF Moves, Gates
<1>2. calls[c].pc \in WithSet =>
        sets'[calls[c].run].ops = sets[calls[c].run].ops /\ sets'[calls[c].run].luau = sets[calls[c].run].luau
  BY <1>1 DEF SetsFixed, Inv, CallsInv
<1>3. Saved \subseteq WithSet /\ Open \subseteq WithSet /\ Cleared \subseteq WithSet
  BY DEF Saved, Open, Cleared, WithSet
<1> QED BY <1>1, <1>2, <1>3 DEF Carries, Keeps

(* A call that goes on.                                                    *)
LEMMA GoClears ==
    ASSUME Inv, Gates, NEW c \in Calls, calls[c].pc # "idle", NEW p, p # "idle", Go(c, p),
           Keeps(c, p), SetsFixed, UNCHANGED <<runs, policy, claims, claimedAs>>
    PROVE  Clears(c)
<1>1. /\ Moves(c) /\ calls'[c].pc = p
      /\ calls'[c].holds = calls[c].holds /\ calls'[c].confirm = calls[c].confirm
  BY GoHolds DEF Go
<1>2. Carries(c)'
  BY <1>1, KeepsCarries
<1> QED BY <1>1, <1>2 DEF Clears, Steady, Moves, Gates

(* A call that writes a stage to the store and to its copy.                *)
LEMMA AdvanceClears ==
    ASSUME Inv, Gates, NEW c \in Calls, calls[c].pc # "idle", NEW p, p # "idle", Keeps(c, p),
           NEW to, to # "awaiting-approval", Advance(c, to, p)
    PROVE  Clears(c)
<1>1. calls' = [calls EXCEPT ![c].stage = to, ![c].pc = p]
  BY DEF Advance
<1>2. /\ Moves(c) /\ calls'[c].pc = p
      /\ calls'[c].holds = calls[c].holds /\ calls'[c].confirm = calls[c].confirm
  BY <1>1, GoHolds
<1>3. UNCHANGED <<sets, policy, claims, claimedAs>> /\ runs' = [runs EXCEPT ![calls[c].run].stage = to]
  BY DEF Advance, RunOf, history
<1>4. \A q \in Runs : runs'[q].stage = "awaiting-approval" => runs[q].stage = "awaiting-approval"
  BY <1>3, RunOfCall DEF Inv, Shapes
<1>5. SetsFixed
  BY <1>3, UnchangedFixed
<1>6. Carries(c)'
  BY <1>2, <1>5, KeepsCarries
<1> QED BY <1>2, <1>3, <1>4, <1>5, <1>6 DEF Clears, Steady, Moves, Gates

(* A call that returns.                                                    *)
LEMMA ReturnClears ==
    ASSUME Inv, Gates, NEW c \in Calls, Return(c), UNCHANGED <<sets, policy, claims, claimedAs>>,
           \A q \in Runs : runs'[q].stage = "awaiting-approval" =>
              runs[q].stage = "awaiting-approval" \/ sets[q].luau # "fail"
    PROVE  Clears(c)
<1>1. Rests(c)
  BY ReturnRests DEF Inv
<1>2. SetsFixed
  BY UnchangedFixed
<1>3. Carries(c)'
  BY <1>1 DEF Rests, Idle, Carries
<1> QED BY <1>1, <1>2, <1>3 DEF Clears, Steady, Rests, Gates

(* A call that reads, and holds what the next place asks for.              *)
LEMMA HoldClears ==
    ASSUME Inv, Gates, NEW c \in Calls, calls[c].pc # "idle", NEW p, p # "idle", NEW h,
           calls' = [calls EXCEPT ![c].pc = p, ![c].holds = h],
           UNCHANGED <<runs, sets, policy, claims, claimedAs>>,
           p \in Drafted => h.draft \in Drafts,
           p \in Judged => h.policy \in Known,
           p \in Analysing => h.luau \in Verdicts(h.draft.ops),
           p \notin Saved,
           p \in Open => sets[calls[c].run].luau # "fail",
           p = "checking" => h.ops = sets[calls[c].run].ops,
           p \in Cleared =>
              /\ h.policy \in Known /\ CheckPolicy(sets[calls[c].run].ops, h.policy).ok
              /\ CheckPolicy(sets[calls[c].run].ops, h.policy).requiresConfirmation => calls[c].confirm
    PROVE  Clears(c)
<1>1. /\ Moves(c) /\ calls'[c].pc = p /\ calls'[c].holds = h
      /\ calls'[c].confirm = calls[c].confirm
  BY HoldConfirm
<1>2. SetsFixed
  BY UnchangedFixed
<1>3. calls'[c].run = calls[c].run
  BY <1>1 DEF Moves
<1>4. Carries(c)'
  BY <1>1, <1>3 DEF Carries
<1> QED BY <1>1, <1>2, <1>4 DEF Clears, Steady, Moves, Gates

(* A port that throws.                                                     *)
LEMMA ThrowClears ==
    ASSUME Inv, Gates, NEW c \in Calls, calls[c].pc # "idle", Throw(c),
           UNCHANGED <<runs, sets, policy, claims, claimedAs>>
    PROVE  Clears(c)
<1>1. CASE Go(c, "failing")
  BY <1>1, GoClears, UnchangedFixed DEF Keeps, Drafted, Judged, Analysing, Saved, Open, Cleared
<1>2. CASE Return(c)
  BY <1>2, ReturnClears
<1> QED BY <1>1, <1>2 DEF Throw

-----------------------------------------------------------------------------
(* Every step of an apply and every end of a call carries nothing further. *)
LEMMA ApplyStepsClear ==
    ASSUME Inv, Gates, NEW c \in Calls, ApplySteps(c)
    PROVE  Clears(c)
<1> USE DEF At, RunOf, stored, history, Keeps, Drafted, Judged, Analysing, Saved, Open, Cleared
<1>1. CASE BeginApplying(c)
  BY <1>1, AdvanceClears DEF BeginApplying
<1>2. CASE AskLink(c)
  <2>1. CASE Go(c, "marking") \/ Go(c, "failing")
    BY <1>2, <2>1, GoClears, UnchangedFixed DEF AskLink
  <2>2. CASE Throw(c)
    BY <1>2, <2>2, ThrowClears DEF AskLink
  <2> QED BY <1>2, <2>1, <2>2 DEF AskLink
<1>3. CASE MarkApplying(c)
  <2>1. calls[c].pc = "marking" /\ Go(c, "delivering") /\ UNCHANGED <<runs, policy, claims, claimedAs>>
    BY <1>3 DEF MarkApplying
  <2>2. SetsFixed
    BY <1>3, <2>1, RunOfCall, SetStatusFixed DEF MarkApplying
  <2> QED BY <2>1, <2>2, GoClears
<1>4. CASE Deliver(c)
  <2>1. CASE Go(c, "awaiting")
    BY <1>4, <2>1, GoClears, UnchangedFixed DEF Deliver
  <2>2. CASE Throw(c)
    BY <1>4, <2>2, ThrowClears DEF Deliver
  <2> QED BY <1>4, <2>1, <2>2 DEF Deliver
<1>5. ASSUME NEW outcome \in {"all", "some", "none"}, Answered(c, outcome) PROVE Clears(c)
  <2>1. PICK h : h = [outcome |-> outcome, version |-> place']
    OBVIOUS
  <2>2. /\ calls[c].pc = "awaiting" /\ calls' = [calls EXCEPT ![c].pc = "recording", ![c].holds = h]
        /\ UNCHANGED <<runs, sets, policy, claims, claimedAs>>
    BY <1>5, <2>1 DEF Answered
  <2>3. "recording" \notin Drafted \cup Judged \cup Analysing \cup Saved \cup Open \cup Cleared
    OBVIOUS
  <2> HIDE DEF Drafted, Judged, Analysing, Saved, Open, Cleared
  <2> QED BY <2>2, <2>3, HoldClears
<1>6. CASE NoAnswer(c)
  BY <1>6, GoClears, UnchangedFixed DEF NoAnswer
<1>7. CASE RecordResult(c)
  BY <1>7, GoClears, UnchangedFixed DEF RecordResult
<1>8. CASE RecordVersion(c)
  BY <1>8, GoClears, UnchangedFixed DEF RecordVersion
<1>9. CASE Conclude(c)
  <2>1. calls[c].pc = "concluding" /\ UNCHANGED <<runs, policy, claims, claimedAs>>
    BY <1>9 DEF Conclude
  <2>2. PICK next \in {"applied", "partial", "failed"} :
            sets' = SetStatus(calls[c].run, next, "applying")
    BY <1>9 DEF Conclude
  <2>3. Go(c, "failing") \/ Go(c, "applied") \/ Go(c, "done")
    BY <1>9 DEF Conclude
  <2>4. SetsFixed
    BY <2>1, <2>2, RunOfCall, SetStatusFixed
  <2> QED BY <2>1, <2>3, <2>4, GoClears
<1>10. CASE BeginTesting(c)
  BY <1>10, AdvanceClears DEF BeginTesting
<1>11. CASE Tested(c)
  <2>1. CASE Go(c, "done") \/ Go(c, "failing")
    BY <1>11, <2>1, GoClears, UnchangedFixed DEF Tested
  <2>2. CASE Throw(c)
    BY <1>11, <2>2, ThrowClears DEF Tested
  <2> QED BY <1>11, <2>1, <2>2 DEF Tested
<1>12. CASE Finish(c)
  BY <1>12, AdvanceClears DEF Finish
<1>13. CASE Succeed(c)
  <2>1. \A q \in Runs : runs'[q].stage = runs[q].stage
    BY <1>13, RunOfCall DEF Succeed, Inv, Shapes
  <2> QED BY <1>13, <2>1, ReturnClears DEF Succeed
<1> QED BY <1>1, <1>2, <1>3, <1>4, <1>5, <1>6, <1>7, <1>8, <1>9, <1>10, <1>11, <1>12, <1>13
        DEF ApplySteps

(* The steps after the delivery, and the ones that fail, check nothing more. *)
LEMMA EndStepsClear ==
    ASSUME Inv, Gates, NEW c \in Calls, EndSteps(c)
    PROVE  Clears(c)
<1> USE DEF At, RunOf, stored, history, Keeps, Drafted, Judged, Analysing, Saved, Open, Cleared
<1>1. CASE FailStage(c)
  BY <1>1, AdvanceClears DEF FailStage
<1>2. CASE FailStatus(c) \/ CancelStatus(c)
  <2>1. PICK status : runs' = [runs EXCEPT ![calls[c].run].status = status] /\ calls[c].pc # "idle"
    BY <1>2 DEF FailStatus, CancelStatus
  <2>2. \A q \in Runs : runs'[q].stage = runs[q].stage
    BY <2>1, RunOfCall DEF Inv, Shapes
  <2> QED BY <1>2, <2>2, ReturnClears DEF FailStatus, CancelStatus
<1>3. CASE ReadRefused(c)
  <2>1. PICK h : h = [status |-> sets[calls[c].run].status]
    OBVIOUS
  <2>2. /\ calls[c].pc = "refusing" /\ calls' = [calls EXCEPT ![c].pc = "refused", ![c].holds = h]
        /\ UNCHANGED <<runs, sets, policy, claims, claimedAs>>
    BY <1>3, <2>1 DEF ReadRefused
  <2>3. "refused" \notin Drafted \cup Judged \cup Analysing \cup Saved \cup Open \cup Cleared
    OBVIOUS
  <2> HIDE DEF Drafted, Judged, Analysing, Saved, Open, Cleared
  <2> QED BY <2>2, <2>3, HoldClears
<1>4. CASE RefuseSet(c)
  <2>1. calls[c].pc = "refused" /\ Go(c, "failing") /\ UNCHANGED <<runs, policy, claims, claimedAs>>
    BY <1>4 DEF RefuseSet
  <2>2. calls[c].holds.status # "none"
    BY <2>1 DEF Inv, CallsInv, WithStatus
  <2>3. SetsFixed
    BY <1>4, <2>1, <2>2, RunOfCall, SetStatusFixed DEF RefuseSet
  <2> QED BY <2>1, <2>3, GoClears
<1>5. CASE CancelStage(c)
  BY <1>5, AdvanceClears DEF CancelStage
<1> QED BY <1>1, <1>2, <1>3, <1>4, <1>5 DEF EndSteps

-----------------------------------------------------------------------------
(* A claim is of a set that was vetted.                                    *)
ClaimsVetted(c) ==
    /\ Steady(c)
    /\ \A q \in Runs : q # calls[c].run => claims'[q] = claims[q] /\ claimedAs'[q] = claimedAs[q]
    /\ claimedAs' = [q \in Runs |-> claimedAs'[q]]
    /\ calls[c].run \in Runs
    /\ Vetted(sets'[calls[c].run].ops, sets'[calls[c].run].luau, claimedAs'[calls[c].run])

(* The set a call claims is the one its gates were passed with.             *)
LEMMA ClaimIsVetted ==
    ASSUME Inv, Gates, NEW c \in Calls, calls[c].pc # "idle", NEW basis, Claimed(c, basis),
           sets' = SetStatus(calls[c].run, "approved", "validated"), Go(c, "claimed"),
           UNCHANGED <<runs, policy>>,
           Vetted(sets[calls[c].run].ops, sets[calls[c].run].luau, basis)
    PROVE  ClaimsVetted(c)
<1>1. calls[c].run \in Runs
  BY RunOfCall
<1>2. SetsFixed
  BY <1>1, SetStatusFixed
<1>3. Moves(c) /\ calls'[c].pc = "claimed"
  BY GoMoves DEF Go, Inv
<1>4. Carries(c)'
  BY <1>3 DEF Carries, Drafted, Judged, Analysing, Saved, Open, Cleared
<1>5. Steady(c)
  BY <1>2, <1>3, <1>4 DEF Steady, Moves, Gates
<1>6. /\ \A q \in Runs : q # calls[c].run => claims'[q] = claims[q] /\ claimedAs'[q] = claimedAs[q]
      /\ claimedAs' = [q \in Runs |-> claimedAs'[q]] /\ claimedAs'[calls[c].run] = basis
  BY <1>1 DEF Claimed, RunOf, Gates, Inv, Shapes
<1>7. /\ sets'[calls[c].run].ops = sets[calls[c].run].ops
      /\ sets'[calls[c].run].luau = sets[calls[c].run].luau
  BY <1>1, <1>2 DEF SetsFixed, Claimed, RunOf
<1> QED BY <1>1, <1>5, <1>6, <1>7 DEF ClaimsVetted

(* start: what is drafted is what is checked, analysed, saved and decided. *)
LEMMA StartStepsClear ==
    ASSUME Inv, Gates, NEW c \in Calls, StartSteps(c)
    PROVE  Clears(c) \/ ClaimsVetted(c)
<1> USE DEF At, RunOf, stored, history, Keeps, Drafted, Judged, Analysing, Saved, Open, Cleared
<1>1. CASE BeginPlanning(c)
  BY <1>1, AdvanceClears DEF BeginPlanning
<1>2. CASE Planned(c)
  BY <1>2, GoClears, UnchangedFixed DEF Planned
<1>3. CASE BeginGenerating(c)
  BY <1>3, AdvanceClears DEF BeginGenerating
<1>4. CASE ReadBase(c)
  <2>1. PICK h : h = [base |-> CurrentVersion]
    OBVIOUS
  <2>2. /\ calls[c].pc = "reading-base" /\ calls' = [calls EXCEPT ![c].pc = "generating", ![c].holds = h]
        /\ UNCHANGED <<runs, sets, policy, claims, claimedAs>>
    BY <1>4, <2>1 DEF ReadBase
  <2>3. "generating" \notin Drafted \cup Judged \cup Analysing \cup Saved \cup Open \cup Cleared
    OBVIOUS
  <2> HIDE DEF Drafted, Judged, Analysing, Saved, Open, Cleared
  <2> QED BY <2>2, <2>3, HoldClears
<1>5. CASE Generated(c)
  <2>1. CASE Go(c, "failing")
    BY <1>5, <2>1, GoClears, UnchangedFixed DEF Generated
  <2>2. ASSUME NEW d \in Drafts,
               calls' = [calls EXCEPT ![c].pc = "generated",
                                      ![c].holds = [base |-> calls[c].holds.base, draft |-> d]]
        PROVE  Clears(c)
    <3>1. PICK h : h = [base |-> calls[c].holds.base, draft |-> d]
      OBVIOUS
    <3>2. /\ calls[c].pc = "generating" /\ calls' = [calls EXCEPT ![c].pc = "generated", ![c].holds = h]
          /\ UNCHANGED <<runs, sets, policy, claims, claimedAs>> /\ h.draft \in Drafts
      BY <1>5, <2>2, <3>1 DEF Generated
    <3>3. "generated" \notin Judged \cup Analysing \cup Saved \cup Open \cup Cleared
      OBVIOUS
    <3> HIDE DEF Drafted, Judged, Analysing, Saved, Open, Cleared
    <3> QED BY <3>2, <3>3, HoldClears
  <2> QED BY <1>5, <2>1, <2>2 DEF Generated
<1>6. CASE BeginValidating(c)
  BY <1>6, AdvanceClears DEF BeginValidating
<1>7. CASE CheckDraft(c)
  <2>0. calls[c].pc = "validating" /\ UNCHANGED <<runs, sets, policy, claims, claimedAs>>
    BY <1>7 DEF CheckDraft
  <2>1. CASE Go(c, "failing")
    BY <2>0, <2>1, GoClears, UnchangedFixed
  <2>2. CASE ~Go(c, "failing")
    <3>0. PICK rules : rules = IF policy = None THEN DenyAllPolicy ELSE policy
      OBVIOUS
    <3>1. PICK h : h = [base |-> calls[c].holds.base, draft |-> calls[c].holds.draft, policy |-> rules]
      OBVIOUS
    <3>2. calls' = [calls EXCEPT ![c].pc = "analysing", ![c].holds = h]
      BY <1>7, <2>2, <3>0, <3>1 DEF CheckDraft
    <3>3. rules \in Known
      BY <3>0 DEF Known, Gates
    <3>4. h.draft \in Drafts /\ h.policy \in Known
      BY <2>0, <3>1, <3>3 DEF Gates, Carries
    <3>5. "analysing" \notin Analysing \cup Saved \cup Open \cup Cleared
      OBVIOUS
    <3> HIDE DEF Drafted, Judged, Analysing, Saved, Open, Cleared
    <3> QED BY <2>0, <3>2, <3>4, <3>5, HoldClears
  <2> QED BY <2>1, <2>2
<1>8. CASE Analysed(c)
  <2>0. calls[c].pc = "analysing" /\ UNCHANGED <<runs, sets, policy, claims, claimedAs>>
    BY <1>8 DEF Analysed
  <2>1. CASE Go(c, "failing")
    BY <2>0, <2>1, GoClears, UnchangedFixed
  <2>2. ASSUME NEW v \in Verdicts(calls[c].holds.draft.ops),
               calls' = [calls EXCEPT ![c].pc = "saving",
                  ![c].holds = [base |-> calls[c].holds.base, draft |-> calls[c].holds.draft,
                                policy |-> calls[c].holds.policy, luau |-> v]]
        PROVE  Clears(c)
    <3>1. PICK h : h = [base |-> calls[c].holds.base, draft |-> calls[c].holds.draft,
                        policy |-> calls[c].holds.policy, luau |-> v]
      OBVIOUS
    <3>2. calls' = [calls EXCEPT ![c].pc = "saving", ![c].holds = h]
      BY <2>2, <3>1
    <3>3. h.draft = calls[c].holds.draft /\ h.policy = calls[c].holds.policy /\ h.luau = v
      BY <3>1
    <3>4. h.draft \in Drafts /\ h.policy \in Known /\ h.luau \in Verdicts(h.draft.ops)
      BY <2>0, <3>3 DEF Gates, Carries
    <3>5. "saving" \notin Saved \cup Open \cup Cleared
      OBVIOUS
    <3> HIDE DEF Drafted, Judged, Analysing, Saved, Open, Cleared
    <3> QED BY <2>0, <3>2, <3>4, <3>5, HoldClears
  <2> QED BY <1>8, <2>1, <2>2 DEF Analysed
<1>9. CASE SaveSet(c)
  <2>0. /\ calls[c].pc = "saving" /\ UNCHANGED <<runs, policy, claims, claimedAs>> /\ Go(c, "listing")
        /\ calls[c].run \in Runs /\ calls[c].holds.draft \in Drafts
    BY <1>9, RunOfCall DEF SaveSet, Gates, Carries
  <2>1. PICK new : new = [status |-> "validated", base |-> calls[c].holds.base,
                          ops |-> calls[c].holds.draft.ops, luau |-> calls[c].holds.luau]
    OBVIOUS
  <2>2. /\ sets'[calls[c].run] = new
        /\ \A q \in Runs : q # calls[c].run => sets'[q] = sets[q]
    BY <1>9, <2>0, <2>1 DEF SaveSet, Inv, Shapes
  <2>3. sets[calls[c].run].status = "none"
    BY <2>0 DEF Inv, CallsInv, BeforeSet
  <2>4. /\ new.ops = calls[c].holds.draft.ops /\ new.luau = calls[c].holds.luau
        /\ new = [status |-> new.status, base |-> new.base, ops |-> new.ops, luau |-> new.luau]
    BY <2>1
  <2>5. SetsFixed
    BY <2>0, <2>2, <2>3, <2>4 DEF SetsFixed, Whole, Gates
  <2>6. /\ Moves(c) /\ calls'[c].pc = "listing"
        /\ calls'[c].holds = calls[c].holds /\ calls'[c].confirm = calls[c].confirm
    BY <2>0, GoHolds DEF Go
  <2>7. Carries(c)'
    BY <2>0, <2>2, <2>4, <2>6 DEF Carries, Moves, Gates
  <2> QED BY <2>0, <2>5, <2>6, <2>7 DEF Clears, Steady, Moves, Gates
<1>10. CASE ListSet(c)
  <2>0. /\ calls[c].pc = "listing" /\ UNCHANGED <<sets, policy, claims, claimedAs>> /\ Go(c, "deciding")
        /\ runs' = [runs EXCEPT ![calls[c].run].listed = TRUE]
    BY <1>10 DEF ListSet
  <2>1. \A q \in Runs : runs'[q].stage = runs[q].stage
    BY <2>0, RunOfCall DEF Inv, Shapes
  <2>2. /\ Moves(c) /\ calls'[c].pc = "deciding"
        /\ calls'[c].holds = calls[c].holds /\ calls'[c].confirm = calls[c].confirm
    BY <2>0, GoHolds DEF Go
  <2>3. SetsFixed
    BY <2>0, UnchangedFixed
  <2>4. Carries(c)'
    BY <2>0, <2>2, <2>3, KeepsCarries
  <2> QED BY <2>0, <2>1, <2>2, <2>3, <2>4 DEF Clears, Steady, Moves, Gates
<1>11. CASE Decide(c)
  <2>0. /\ calls[c].pc = "deciding" /\ UNCHANGED <<runs, policy>> /\ calls[c].run \in Runs
        /\ calls[c].holds.draft \in Drafts /\ calls[c].holds.policy \in Known
        /\ calls[c].holds.luau \in Verdicts(calls[c].holds.draft.ops)
        /\ sets[calls[c].run].ops = calls[c].holds.draft.ops
        /\ sets[calls[c].run].luau = calls[c].holds.luau
    BY <1>11, RunOfCall DEF Decide, Gates, Carries
  <2>1. CASE /\ sets' = SetStatus(calls[c].run, "rejected", "validated") /\ Go(c, "failing")
             /\ UNCHANGED <<claims, claimedAs>>
    <3>1. SetsFixed
      BY <2>0, <2>1, SetStatusFixed
    <3> QED BY <2>0, <2>1, <3>1, GoClears
  <2>2. CASE /\ CheckPolicy(calls[c].holds.draft.ops, calls[c].holds.policy).ok
             /\ CheckPolicy(calls[c].holds.draft.ops, calls[c].holds.policy).autoApply
             /\ calls[c].holds.luau = "ok"
             /\ Claimed(c, Basis("auto", calls[c].holds.policy, FALSE))
             /\ sets' = SetStatus(calls[c].run, "approved", "validated") /\ Go(c, "claimed")
    <3>1. Vetted(sets[calls[c].run].ops, sets[calls[c].run].luau,
                 Basis("auto", calls[c].holds.policy, FALSE))
      BY <2>0, <2>2, AutoIsVetted
    <3> QED BY <2>0, <2>2, <3>1, ClaimIsVetted
  <2>3. CASE Go(c, "gated") /\ UNCHANGED <<sets, claims, claimedAs>> /\ calls[c].holds.luau # "fail"
    <3>1. Moves(c) /\ calls'[c].pc = "gated"
      BY <2>0, <2>3, GoMoves DEF Go, Inv
    <3>2. Carries(c)'
      BY <2>0, <2>3, <3>1 DEF Carries, Moves
    <3>3. SetsFixed
      BY <2>3, UnchangedFixed
    <3> QED BY <2>0, <2>3, <3>1, <3>2, <3>3 DEF Clears, Steady, Moves, Gates
  <2> HIDE DEF Keeps, Drafted, Judged, Analysing, Saved, Open, Cleared
  <2> QED BY <1>11, <2>1, <2>2, <2>3 DEF Decide
<1>12. CASE AwaitApproval(c)
  <2>0. /\ calls[c].pc = "gated" /\ UNCHANGED <<sets, policy, claims, claimedAs>> /\ Return(c)
        /\ runs' = [runs EXCEPT ![calls[c].run].stage = "awaiting-approval"]
    BY <1>12 DEF AwaitApproval
  <2>1. sets[calls[c].run].luau # "fail" /\ calls[c].run \in Runs
    BY <2>0, RunOfCall DEF Gates, Carries
  <2>2. \A q \in Runs : q # calls[c].run => runs'[q] = runs[q]
    BY <2>0, <2>1 DEF Inv, Shapes
  <2> QED BY <2>0, <2>1, <2>2, ReturnClears
<1> QED BY <1>1, <1>2, <1>3, <1>4, <1>5, <1>6, <1>7, <1>8, <1>9, <1>10, <1>11, <1>12 DEF StartSteps

(* approve: the set loaded is the one judged by the policy of the moment,  *)
(* and the one claimed.                                                    *)
LEMMA ApproveStepsClear ==
    ASSUME Inv, Gates, NEW c \in Calls, ApproveSteps(c)
    PROVE  Clears(c) \/ ClaimsVetted(c)
<1> USE DEF At, RunOf, stored, history, Keeps, Drafted, Judged, Analysing, Saved, Open, Cleared
<1>1. CASE LoadSet(c)
  <2>1. PICK h : h = sets[calls[c].run]
    OBVIOUS
  <2>2. /\ calls[c].pc = "loading" /\ calls' = [calls EXCEPT ![c].pc = "checking", ![c].holds = h]
        /\ UNCHANGED <<runs, sets, policy, claims, claimedAs>>
    BY <1>1, <2>1 DEF LoadSet
  <2>3. sets[calls[c].run].luau # "fail"
    BY <2>2 DEF Gates, Carries
  <2>4. "checking" \notin Drafted \cup Judged \cup Analysing \cup Saved \cup Cleared
    OBVIOUS
  <2> HIDE DEF Drafted, Judged, Analysing, Saved, Open, Cleared
  <2> QED BY <2>1, <2>2, <2>3, <2>4, HoldClears
<1>2. CASE Recheck(c)
  <2>0. /\ calls[c].pc = "checking" /\ UNCHANGED <<runs, sets, policy, claims, claimedAs>>
        /\ calls[c].holds.ops = sets[calls[c].run].ops /\ sets[calls[c].run].luau # "fail"
    BY <1>2 DEF Recheck, Gates, Carries
  <2>1. CASE Go(c, "failing")
    BY <2>0, <2>1, GoClears, UnchangedFixed
  <2>2. CASE Return(c)
    BY <2>0, <2>2, ReturnClears
  <2>3. CASE ~Go(c, "failing") /\ ~Return(c)
    <3>0. PICK rules : rules = IF policy = None THEN DenyAllPolicy ELSE policy
      OBVIOUS
    <3>1. PICK h : h = [base |-> calls[c].holds.base, status |-> calls[c].holds.status, policy |-> rules]
      OBVIOUS
    <3>2. /\ calls' = [calls EXCEPT ![c].pc = "basing", ![c].holds = h]
          /\ CheckPolicy(calls[c].holds.ops, rules).ok
          /\ CheckPolicy(calls[c].holds.ops, rules).requiresConfirmation => calls[c].confirm
      <4> HIDE DEF Keeps, Drafted, Judged, Analysing, Saved, Open, Cleared
      <4> QED BY <1>2, <2>3, <3>0, <3>1 DEF Recheck
    <3>3. rules \in Known
      BY <3>0 DEF Known, Gates
    <3>4. h.policy = rules
      BY <3>1
    <3>5. "basing" \notin Drafted \cup Judged \cup Analysing \cup Saved
      OBVIOUS
    <3> HIDE DEF Drafted, Judged, Analysing, Saved, Open, Cleared
    <3> QED BY <2>0, <3>2, <3>3, <3>4, <3>5, HoldClears
  <2> QED BY <2>1, <2>2, <2>3
<1>3. CASE CheckBase(c)
  <2>1. Go(c, "claiming") \/ Go(c, "stale")
    BY <1>3 DEF CheckBase
  <2> QED BY <1>3, <2>1, GoClears, UnchangedFixed DEF CheckBase
<1>4. CASE MarkStale(c)
  <2>1. calls[c].pc = "stale" /\ Go(c, "failing") /\ UNCHANGED <<runs, policy, claims, claimedAs>>
    BY <1>4 DEF MarkStale
  <2>2. calls[c].holds.status # "none"
    BY <2>1 DEF Inv, CallsInv, WithStatus
  <2>3. SetsFixed
    BY <1>4, <2>1, <2>2, RunOfCall, SetStatusFixed DEF MarkStale
  <2> QED BY <2>1, <2>3, GoClears
<1>5. CASE ClaimApproved(c)
  <2>0. /\ calls[c].pc = "claiming" /\ UNCHANGED <<runs, policy>> /\ calls[c].run \in Runs
        /\ calls[c].holds.policy \in Known /\ sets[calls[c].run].luau # "fail"
        /\ CheckPolicy(sets[calls[c].run].ops, calls[c].holds.policy).ok
        /\ CheckPolicy(sets[calls[c].run].ops, calls[c].holds.policy).requiresConfirmation
              => calls[c].confirm
    BY <1>5, RunOfCall DEF ClaimApproved, Gates, Carries
  <2>1. PICK d \in Drafts : sets[calls[c].run].ops = d.ops
    BY <2>0 DEF Gates, Whole, Inv, CallsInv, WithSet
  <2>2. Vetted(sets[calls[c].run].ops, sets[calls[c].run].luau,
               Basis("human", calls[c].holds.policy, calls[c].confirm))
    BY <2>0, <2>1, HumanIsVetted
  <2>3. CASE Return(c) /\ UNCHANGED <<sets, claims, claimedAs>>
    BY <2>0, <2>3, ReturnClears
  <2>4. CASE /\ Claimed(c, Basis("human", calls[c].holds.policy, calls[c].confirm))
             /\ sets' = SetStatus(calls[c].run, "approved", "validated") /\ Go(c, "claimed")
    BY <2>0, <2>2, <2>4, ClaimIsVetted
  <2> QED BY <1>5, <2>3, <2>4 DEF ClaimApproved
<1> QED BY <1>1, <1>2, <1>3, <1>4, <1>5 DEF ApproveSteps

(* An approval begins at a set that waits for one, which no verdict failed.*)
LEMMA NewCallClears ==
    ASSUME Inv, Gates, NEW c \in Calls, NewCall(c)
    PROVE  Clears(c)
<1>1. PICK r \in Runs : \/ Start(c, r) \/ Reject(c, r) \/ Cancel(c, r)
                        \/ \E confirm \in BOOLEAN : Approve(c, r, confirm)
  BY DEF NewCall
<1>2. UNCHANGED <<sets, policy, claims, claimedAs>>
  BY <1>1 DEF Start, Reject, Cancel, Approve, stored, history
<1>3. \A q \in Runs : runs'[q].stage = "awaiting-approval" => runs[q].stage = "awaiting-approval"
  <2>1. CASE Start(c, r)
    <3>1. runs'[r].stage = "queued"
      BY <2>1, StartKept DEF Inv
    <3>2. \A q \in Runs : q # r => runs'[q] = runs[q]
      BY <2>1 DEF Start, Inv, Shapes
    <3> QED BY <3>1, <3>2
  <2>2. CASE Reject(c, r) \/ Cancel(c, r) \/ \E confirm \in BOOLEAN : Approve(c, r, confirm)
    BY <2>2 DEF Reject, Cancel, Approve, stored
  <2> QED BY <1>1, <2>1, <2>2
<1>4. PICK new : Begins(c, r, new)
  BY <1>1, NewCallBegins
<1>5. calls'[c] = new /\ \A d \in Calls : d # c => calls'[d] = calls[d]
  BY <1>4 DEF Begins, Inv, Shapes
<1>6. new.run = r
  BY <1>4 DEF Begins
<1>7. SetsFixed
  BY <1>2, UnchangedFixed
<1>8. /\ calls'[c].pc \in {"queued", "loading", "refusing", "failing", "cancelling"}
      /\ calls'[c].pc = "loading" => runs[r].stage = "awaiting-approval"
  <2>a. calls = [d \in Calls |-> calls[d]]
    BY DEF Inv, Shapes
  <2>1. CASE Start(c, r)
    BY <2>a, <2>1 DEF Start
  <2>2. CASE Reject(c, r)
    BY <2>a, <2>2 DEF Reject
  <2>3. CASE Cancel(c, r)
    BY <2>a, <2>3 DEF Cancel
  <2>4. CASE \E confirm \in BOOLEAN : Approve(c, r, confirm)
    BY <2>a, <2>4 DEF Approve
  <2> QED BY <1>1, <2>1, <2>2, <2>3, <2>4
<1>9. Carries(c)'
  BY <1>2, <1>5, <1>6, <1>8 DEF Carries, Gates, Drafted, Judged, Analysing, Saved, Open, Cleared
<1> QED BY <1>2, <1>3, <1>5, <1>7, <1>9 DEF Clears, Steady, Gates

-----------------------------------------------------------------------------
(* Every step keeps what the gates know.                                   *)
LEMMA GatesStep == Inv /\ Gates /\ [Next]_vars => Gates'
<1> SUFFICES ASSUME Inv, Gates, [Next]_vars PROVE Gates'
  OBVIOUS
<1>1. ASSUME NEW c \in Calls, Clears(c) PROVE Gates'
  <2>1. claimedAs' = [r \in Runs |-> claimedAs'[r]] /\ claims' = claims /\ claimedAs' = claimedAs
    BY <1>1 DEF Clears, Gates
  <2> QED BY <1>1, <2>1, SteadyKeeps DEF Clears
<1>2. ASSUME NEW c \in Calls, ClaimsVetted(c) PROVE Gates'
  BY <1>2, SteadyKeeps DEF ClaimsVetted
<1>3. ASSUME NEW c \in Calls,
             NewCall(c) \/ StartSteps(c) \/ ApproveSteps(c) \/ ApplySteps(c) \/ EndSteps(c)
      PROVE  Gates'
  BY <1>1, <1>2, <1>3, NewCallClears, StartStepsClear, ApproveStepsClear, ApplyStepsClear, EndStepsClear
<1>4. CASE \/ \E p \in Policies : SetPolicy(p)
           \/ AppendTree \/ UNCHANGED vars
  <2>1. UNCHANGED <<runs, sets, calls, claims, claimedAs>> /\ policy' \in Policies \cup {None}
    BY <1>4 DEF SetPolicy, AppendTree, vars, stored, history, Gates
  <2> QED BY <2>1 DEF Gates, Whole, Carries
<1> QED BY <1>3, <1>4 DEF Next

(* Whatever is delivered was vetted as it stands: no path it names is      *)
(* outside the prefixes of the policy that was read for it, an automatic   *)
(* approval deletes nothing and runs only analysed Luau, and a bulk        *)
(* deletion was confirmed; however often the policy is edited and          *)
(* whatever calls overlap.                                                 *)
THEOREM PipelineOnlyVettedIsDelivered == Spec => []OnlyVettedIsDelivered
<1>1. Inv /\ Gates => OnlyVettedIsDelivered
  <2> SUFFICES ASSUME Inv, Gates, NEW r \in Runs, delivered[r] > 0
               PROVE  Vetted(sets[r].ops, sets[r].luau, claimedAs[r])
    BY DEF OnlyVettedIsDelivered
  <2>1. claims[r] # 0
    BY DEF Inv, Unused, Shapes
  <2> QED BY <2>1 DEF Gates
<1> QED BY <1>1, InvInit, InvStep, GatesInit, GatesStep, PTL DEF Spec
=============================================================================
