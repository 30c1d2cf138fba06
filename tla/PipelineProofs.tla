--------------------------- MODULE PipelineProofs ---------------------------
(***************************************************************************)
(* The run pipeline implements AtMostOnce for every set of runs, calls,    *)
(* drafts and policies.  The argument: a run has one start call, so its    *)
(* set is saved once; the set is claimed out of `validated', which it      *)
(* never is again; and the call that claimed it is the only one between    *)
(* the claim and the delivery.                                             *)
(***************************************************************************)
EXTENDS Pipeline, TLAPS

(* Where a start call is before the set exists, where a call relies on its *)
(* existence, where it holds a status it read, and where it owns the claim.*)
BeforeSet == {"queued", "planning", "planned", "reading-base", "generating",
              "generated", "validating", "analysing", "saving"}
WithSet == {"listing", "deciding", "gated", "loading", "checking", "basing", "stale",
            "claiming", "refusing", "refused"}
WithStatus == {"checking", "basing", "stale", "refused"}
WithClaim == {"claimed", "linking", "marking", "delivering"}

IsCall(x) ==
    /\ x = [pc |-> x.pc, kind |-> x.kind, run |-> x.run, stage |-> x.stage,
            confirm |-> x.confirm, holds |-> x.holds]
    /\ x.run \in Runs /\ x.pc # "idle"

Shapes ==
    /\ runs = [r \in Runs |-> [stage |-> runs[r].stage, status |-> runs[r].status,
                               listed |-> runs[r].listed]]
    /\ sets = [r \in Runs |-> sets[r]]
    /\ \A r \in Runs : "status" \in DOMAIN sets[r]
    /\ claims \in [Runs -> Nat] /\ delivered \in [Runs -> Nat]
    /\ calls = [c \in Calls |-> calls[c]]
    /\ \A c \in Calls : calls[c] = Idle \/ IsCall(calls[c])

SetsInv ==
    \A r \in Runs :
        /\ sets[r].status \in {"none", "validated"} => claims[r] = 0
        /\ runs[r].stage = "none" => sets[r].status = "none"
        /\ (runs[r].stage = "awaiting-approval" \/ runs[r].listed = TRUE)
              => sets[r].status # "none"

CallsInv ==
    \A c \in Calls : calls[c].pc # "idle" =>
        /\ runs[calls[c].run].stage # "none"
        /\ calls[c].pc \in BeforeSet =>
              calls[c].kind = "start" /\ sets[calls[c].run].status = "none"
        /\ calls[c].pc \in WithSet => sets[calls[c].run].status # "none"
        /\ calls[c].pc \in WithStatus => calls[c].holds.status # "none"
        /\ calls[c].pc \in WithClaim =>
              claims[calls[c].run] = 1 /\ delivered[calls[c].run] = 0

Alone ==
    \A c, d \in Calls :
        (c # d /\ calls[c].pc # "idle" /\ calls[d].pc # "idle" /\ calls[c].run = calls[d].run)
          => /\ ~(calls[c].kind = "start" /\ calls[d].kind = "start")
             /\ ~(calls[c].pc \in WithClaim /\ calls[d].pc \in WithClaim)

Unused ==
    \A r \in Runs : claims[r] = 0 => delivered[r] = 0

Inv == Shapes /\ SetsInv /\ CallsInv /\ Alone /\ Unused

(* The invariant holds of an empty store with no call under way.           *)
LEMMA InvInit == Init => Inv
<1> SUFFICES ASSUME Init PROVE Inv
  OBVIOUS
<1>1. Shapes
  BY DEF Init, Shapes, NoSet, Idle
<1>2. SetsInv /\ Unused
  BY DEF Init, SetsInv, Unused, NoSet
<1>3. CallsInv /\ Alone
  BY DEF Init, CallsInv, Alone, Idle
<1> QED BY <1>1, <1>2, <1>3 DEF Inv

-----------------------------------------------------------------------------
(* What a step does to the calls, to the runs and to the set of one run.   *)

Moves(c) ==
    /\ calls' = [d \in Calls |-> calls'[d]]
    /\ \A d \in Calls : d # c => calls'[d] = calls[d]
    /\ IsCall(calls'[c])
    /\ calls'[c].run = calls[c].run
    /\ calls'[c].kind = calls[c].kind

Rests(c) ==
    /\ calls' = [d \in Calls |-> calls'[d]]
    /\ \A d \in Calls : d # c => calls'[d] = calls[d]
    /\ calls'[c] = Idle

RunsKept ==
    /\ runs' = [r \in Runs |-> [stage |-> runs'[r].stage, status |-> runs'[r].status,
                                listed |-> runs'[r].listed]]
    /\ \A r \in Runs :
          /\ runs[r].stage # "none" => runs'[r].stage # "none"
          /\ (runs'[r].stage = "awaiting-approval" \/ runs'[r].listed = TRUE) =>
                \/ runs[r].stage = "awaiting-approval"
                \/ runs[r].listed = TRUE
                \/ sets[r].status # "none"

SetsShape ==
    /\ sets' = [r \in Runs |-> sets'[r]]
    /\ \A r \in Runs : "status" \in DOMAIN sets'[r]

(* The set keeps its status, or loses `validated' or something later.      *)
Closes(r) ==
    /\ SetsShape
    /\ \A q \in Runs : q # r => sets'[q] = sets[q]
    /\ \/ sets'[r].status = sets[r].status
       \/ sets[r].status # "none" /\ sets'[r].status \notin {"none", "validated"}
    /\ UNCHANGED <<claims, delivered>>

(* What the place a call moves to asks for.                                *)
Warranted(c) ==
    LET p == calls'[c].pc
        r == calls[c].run
    IN  /\ p \in BeforeSet => calls[c].kind = "start" /\ sets'[r].status = "none"
        /\ p \in WithSet => sets'[r].status # "none"
        /\ p \in WithStatus => calls'[c].holds.status # "none"
        /\ p \in WithClaim => calls[c].pc \in WithClaim

(* Go changes nothing of a call but the place it is at.                    *)
LEMMA GoMoves ==
    ASSUME Shapes, NEW c \in Calls, calls[c].pc # "idle", NEW p, p # "idle",
           calls' = [calls EXCEPT ![c].pc = p]
    PROVE  Moves(c) /\ calls'[c].pc = p /\ calls'[c].holds = calls[c].holds
<1>1. IsCall(calls[c])
  BY DEF Shapes, Idle
<1>2. /\ calls'[c] = [calls[c] EXCEPT !.pc = p]
      /\ \A d \in Calls : d # c => calls'[d] = calls[d]
      /\ calls' = [d \in Calls |-> calls'[d]]
  BY DEF Shapes
<1>3. /\ IsCall(calls'[c]) /\ calls'[c].run = calls[c].run /\ calls'[c].kind = calls[c].kind
      /\ calls'[c].pc = p /\ calls'[c].holds = calls[c].holds
  BY <1>1, <1>2 DEF IsCall
<1> QED BY <1>2, <1>3 DEF Moves

(* So does a write of the stage to the copy of the run.                    *)
LEMMA StageMoves ==
    ASSUME Shapes, NEW c \in Calls, calls[c].pc # "idle", NEW p, p # "idle", NEW s,
           calls' = [calls EXCEPT ![c].stage = s, ![c].pc = p]
    PROVE  Moves(c) /\ calls'[c].pc = p
<1>1. IsCall(calls[c])
  BY DEF Shapes, Idle
<1>2. /\ calls'[c] = [[calls[c] EXCEPT !.stage = s] EXCEPT !.pc = p]
      /\ \A d \in Calls : d # c => calls'[d] = calls[d]
      /\ calls' = [d \in Calls |-> calls'[d]]
  BY DEF Shapes
<1>3. /\ IsCall(calls'[c]) /\ calls'[c].run = calls[c].run /\ calls'[c].kind = calls[c].kind
      /\ calls'[c].pc = p
  BY <1>1, <1>2 DEF IsCall
<1> QED BY <1>2, <1>3 DEF Moves

(* So does a read that the call holds on to.                               *)
LEMMA HoldMoves ==
    ASSUME Shapes, NEW c \in Calls, calls[c].pc # "idle", NEW p, p # "idle", NEW h,
           calls' = [calls EXCEPT ![c].pc = p, ![c].holds = h]
    PROVE  Moves(c) /\ calls'[c].pc = p /\ calls'[c].holds = h
<1>1. IsCall(calls[c])
  BY DEF Shapes, Idle
<1>2. /\ calls'[c] = [[calls[c] EXCEPT !.pc = p] EXCEPT !.holds = h]
      /\ \A d \in Calls : d # c => calls'[d] = calls[d]
      /\ calls' = [d \in Calls |-> calls'[d]]
  BY DEF Shapes
<1>3. /\ IsCall(calls'[c]) /\ calls'[c].run = calls[c].run /\ calls'[c].kind = calls[c].kind
      /\ calls'[c].pc = p /\ calls'[c].holds = h
  BY <1>1, <1>2 DEF IsCall
<1> QED BY <1>2, <1>3 DEF Moves

(* A call that returns is idle again.                                      *)
LEMMA ReturnRests ==
    ASSUME Shapes, NEW c \in Calls, Return(c)
    PROVE  Rests(c)
  BY DEF Shapes, Return, Rests

(* A compare-and-set away from `validated' at most closes the set.         *)
LEMMA SetStatusCloses ==
    ASSUME Shapes, NEW r \in Runs, NEW next, next \notin {"none", "validated"},
           NEW expected, expected # "none",
           sets' = SetStatus(r, next, expected), UNCHANGED <<claims, delivered>>
    PROVE  /\ Closes(r)
           /\ sets[r].status # "none" => sets'[r].status # "none"
<1>1. CASE sets[r].status = expected
  <2>1. sets' = [sets EXCEPT ![r].status = next]
    BY <1>1 DEF SetStatus
  <2> QED BY <1>1, <2>1 DEF Shapes, Closes, SetsShape
<1>2. CASE sets[r].status # expected
  <2>1. sets' = sets
    BY <1>2 DEF SetStatus
  <2> QED BY <1>2, <2>1 DEF Shapes, Closes, SetsShape
<1> QED BY <1>1, <1>2

(* A step that leaves the sets alone closes nothing.                       *)
LEMMA UnchangedCloses ==
    ASSUME Shapes, NEW r \in Runs, UNCHANGED <<sets, claims, delivered>>
    PROVE  Closes(r)
  BY DEF Shapes, Closes, SetsShape

(* A step that leaves the runs alone keeps them.                           *)
LEMMA UnchangedKept ==
    ASSUME Shapes, UNCHANGED runs
    PROVE  RunsKept
  BY DEF Shapes, RunsKept

(* A stage other than `awaiting-approval' asks for nothing.                *)
LEMMA StageKept ==
    ASSUME Shapes, NEW r \in Runs, NEW to, to \notin {"none", "awaiting-approval"},
           runs' = [runs EXCEPT ![r].stage = to]
    PROVE  RunsKept
  BY SMTT(30) DEF Shapes, RunsKept

(* A set is listed in its run only once it exists.                         *)
LEMMA ListedKept ==
    ASSUME Shapes, NEW r \in Runs, sets[r].status # "none", NEW t,
           runs' = [runs EXCEPT ![r].listed = t]
    PROVE  RunsKept
<1>1. runs'[r] = [stage |-> runs[r].stage, status |-> runs[r].status, listed |-> t]
  BY DEF Shapes
<1>2. \A q \in Runs : q # r => runs'[q] = runs[q]
  BY DEF Shapes
<1>3. runs' = [q \in Runs |-> runs'[q]]
  BY DEF Shapes
<1>4. \A q \in Runs : runs'[q] = [stage |-> runs'[q].stage, status |-> runs'[q].status,
                                listed |-> runs'[q].listed]
  BY <1>1, <1>2 DEF Shapes
<1>5. runs' = [q \in Runs |-> [stage |-> runs'[q].stage, status |-> runs'[q].status,
                              listed |-> runs'[q].listed]]
  BY <1>3, <1>4
<1> QED BY <1>1, <1>2, <1>5 DEF RunsKept

(* A run whose set exists may ask for approval.                            *)
LEMMA AwaitKept ==
    ASSUME Shapes, NEW r \in Runs, sets[r].status # "none", NEW to, to # "none",
           runs' = [runs EXCEPT ![r].stage = to]
    PROVE  RunsKept
<1>1. runs'[r] = [stage |-> to, status |-> runs[r].status, listed |-> runs[r].listed]
  BY DEF Shapes
<1>2. \A q \in Runs : q # r => runs'[q] = runs[q]
  BY DEF Shapes
<1>3. runs' = [q \in Runs |-> runs'[q]]
  BY DEF Shapes
<1>4. \A q \in Runs : runs'[q] = [stage |-> runs'[q].stage, status |-> runs'[q].status,
                                listed |-> runs'[q].listed]
  BY <1>1, <1>2 DEF Shapes
<1>5. runs' = [q \in Runs |-> [stage |-> runs'[q].stage, status |-> runs'[q].status,
                              listed |-> runs'[q].listed]]
  BY <1>3, <1>4
<1> QED BY <1>1, <1>2, <1>5 DEF RunsKept

(* The status of a run is free to change.                                  *)
LEMMA StatusKept ==
    ASSUME Shapes, NEW r \in Runs, NEW status, runs' = [runs EXCEPT ![r].status = status]
    PROVE  RunsKept
  BY DEF Shapes, RunsKept

-----------------------------------------------------------------------------
(* A call that moves or rests, and at most closes its set.                 *)
LEMMA CallSteps ==
    ASSUME Inv, NEW c \in Calls, calls[c].pc # "idle", RunsKept, Closes(calls[c].run),
           \/ Moves(c) /\ Warranted(c)
           \/ Rests(c)
    PROVE  Inv'
<1> DEFINE r == calls[c].run
<1>1. r \in Runs
  BY DEF Inv, Shapes, IsCall, Idle
<1>2. \A d \in Calls : d # c => calls'[d] = calls[d]
  BY DEF Moves, Rests
<1>3. Shapes'
  <2>1. \A d \in Calls : calls'[d] = Idle \/ IsCall(calls'[d])
    BY <1>2 DEF Inv, Shapes, Moves, Rests
  <2>2. calls' = [d \in Calls |-> calls'[d]]
    BY DEF Moves, Rests
  <2> QED BY <2>1, <2>2 DEF Inv, Shapes, RunsKept, Closes, SetsShape
<1>4. SetsInv' /\ Unused'
  <2>1. \A q \in Runs : runs'[q].stage = "none" => runs[q].stage = "none"
    BY DEF RunsKept
  <2> QED BY <1>1, <2>1 DEF Inv, SetsInv, Unused, Closes, RunsKept
<1>5. /\ \A q \in Runs : sets'[q].status = "none" <=> sets[q].status = "none"
      /\ UNCHANGED <<claims, delivered>>
  BY <1>1 DEF Closes
<1>6. \A d \in Calls : calls[d].pc # "idle" => calls[d].run \in Runs
  BY DEF Inv, Shapes, IsCall, Idle
<1>7. CASE Rests(c)
  <2>1. calls'[c].pc = "idle"
    BY <1>7 DEF Rests, Idle
  <2>2. CallsInv'
    BY <2>1, <1>2, <1>5, <1>6 DEF Inv, CallsInv, RunsKept
  <2>3. Alone'
    BY <2>1, <1>2 DEF Inv, Alone
  <2> QED BY <1>3, <1>4, <2>2, <2>3 DEF Inv
<1>8. CASE Moves(c) /\ Warranted(c)
  <2>1. calls'[c].run = calls[c].run /\ calls'[c].kind = calls[c].kind
    BY <1>8 DEF Moves
  <2>2. /\ calls'[c].pc \in BeforeSet =>
              calls[c].kind = "start" /\ sets'[calls[c].run].status = "none"
        /\ calls'[c].pc \in WithSet => sets'[calls[c].run].status # "none"
        /\ calls'[c].pc \in WithStatus => calls'[c].holds.status # "none"
        /\ calls'[c].pc \in WithClaim => calls[c].pc \in WithClaim
    BY <1>8 DEF Warranted
  <2>3. CallsInv'
    BY <2>1, <2>2, <1>2, <1>5, <1>6 DEF Inv, CallsInv, RunsKept
  <2>4. Alone'
    BY <2>1, <2>2, <1>2 DEF Inv, Alone
  <2> QED BY <1>3, <1>4, <2>3, <2>4 DEF Inv
<1> QED BY <1>7, <1>8

(* All a step does to the promise is to close a set, or nothing.           *)
Plain(c) ==
    /\ calls[c].pc # "idle" /\ RunsKept /\ Closes(calls[c].run)
    /\ (Moves(c) /\ Warranted(c)) \/ Rests(c)

(* The place a call goes to asks for no more than the one it leaves.       *)
Follows(c, p) ==
    /\ calls[c].pc # "idle" /\ p # "idle"
    /\ p \in BeforeSet => calls[c].pc \in BeforeSet
    /\ p \in WithSet => calls[c].pc \in WithSet
    /\ p \in WithClaim => calls[c].pc \in WithClaim

(* A call under way is about one of the runs.                              *)
LEMMA RunOfCall ==
    ASSUME Inv, NEW c \in Calls, calls[c].pc # "idle"
    PROVE  calls[c].run \in Runs
  BY DEF Inv, Shapes, IsCall, Idle

(* A step that only goes on is plain if the next place is warranted.       *)
LEMMA GoPlain ==
    ASSUME Inv, NEW c \in Calls, NEW p, Follows(c, p), p \in WithStatus => calls[c].pc \in WithStatus,
           Go(c, p), UNCHANGED <<runs, sets, claims, delivered>>
    PROVE  Plain(c)
<1>1. calls[c].run \in Runs /\ calls[c].pc # "idle" /\ p # "idle"
  BY RunOfCall DEF Follows
<1>2. Moves(c) /\ calls'[c].pc = p /\ calls'[c].holds = calls[c].holds
  BY <1>1, GoMoves DEF Go, Inv
<1>3. Warranted(c)
  BY <1>1, <1>2 DEF Warranted, Follows, Inv, CallsInv
<1>4. RunsKept /\ Closes(calls[c].run)
  BY <1>1, UnchangedKept, UnchangedCloses DEF Inv
<1> QED BY <1>1, <1>2, <1>3, <1>4 DEF Plain

(* So is a step that reads and goes on.                                    *)
LEMMA HoldPlain ==
    ASSUME Inv, NEW c \in Calls, NEW p, Follows(c, p), NEW h, p \in WithStatus => h.status # "none",
           calls' = [calls EXCEPT ![c].pc = p, ![c].holds = h],
           UNCHANGED <<runs, sets, claims, delivered>>
    PROVE  Plain(c)
<1>1. calls[c].run \in Runs /\ calls[c].pc # "idle" /\ p # "idle"
  BY RunOfCall DEF Follows
<1>2. Moves(c) /\ calls'[c].pc = p /\ calls'[c].holds = h
  BY <1>1, HoldMoves DEF Inv
<1>3. Warranted(c)
  BY <1>1, <1>2 DEF Warranted, Follows, Inv, CallsInv
<1>4. RunsKept /\ Closes(calls[c].run)
  BY <1>1, UnchangedKept, UnchangedCloses DEF Inv
<1> QED BY <1>1, <1>2, <1>3, <1>4 DEF Plain

(* So is a step that writes the stage, to the store and to the copy.       *)
LEMMA AdvancePlain ==
    ASSUME Inv, NEW c \in Calls, NEW p, Follows(c, p), p \notin WithStatus,
           NEW to, to \notin {"none", "awaiting-approval"}, Advance(c, to, p)
    PROVE  Plain(c)
<1>1. calls[c].run \in Runs /\ calls[c].pc # "idle" /\ p # "idle"
  BY RunOfCall DEF Follows
<1>2. Moves(c) /\ calls'[c].pc = p
  BY <1>1, StageMoves DEF Advance, Inv
<1>3. UNCHANGED <<sets, claims, delivered>> /\ runs' = [runs EXCEPT ![calls[c].run].stage = to]
  BY DEF Advance, RunOf, history
<1>4. Warranted(c)
  BY <1>1, <1>2, <1>3 DEF Warranted, Follows, Inv, CallsInv
<1>5. RunsKept /\ Closes(calls[c].run)
  BY <1>1, <1>3, StageKept, UnchangedCloses DEF Inv
<1> QED BY <1>1, <1>2, <1>4, <1>5 DEF Plain

(* So is a compare-and-set that closes the set.                            *)
LEMMA SetStatusPlain ==
    ASSUME Inv, NEW c \in Calls, NEW p, Follows(c, p), p \notin WithStatus,
           NEW next, next \notin {"none", "validated"}, NEW expected, expected # "none",
           sets' = SetStatus(calls[c].run, next, expected), Go(c, p),
           UNCHANGED <<runs, claims, delivered>>
    PROVE  Plain(c)
<1>1. calls[c].run \in Runs /\ calls[c].pc # "idle" /\ p # "idle"
  BY RunOfCall DEF Follows
<1>2. Moves(c) /\ calls'[c].pc = p
  BY <1>1, GoMoves DEF Go, Inv
<1>3. Closes(calls[c].run) /\ (sets[calls[c].run].status # "none" => sets'[calls[c].run].status # "none")
  BY <1>1, SetStatusCloses DEF Inv
<1>4. sets[calls[c].run].status = "none" => sets'[calls[c].run].status = "none"
  BY <1>3 DEF Closes
<1>5. Warranted(c)
  BY <1>1, <1>2, <1>3, <1>4 DEF Warranted, Follows, Inv, CallsInv
<1>6. RunsKept
  BY UnchangedKept DEF Inv
<1> QED BY <1>1, <1>2, <1>3, <1>5, <1>6 DEF Plain

(* A step that returns is plain.                                           *)
LEMMA ReturnPlain ==
    ASSUME Inv, NEW c \in Calls, calls[c].pc # "idle", Return(c), RunsKept,
           UNCHANGED <<sets, claims, delivered>>
    PROVE  Plain(c)
  BY ReturnRests, RunOfCall, UnchangedCloses DEF Plain, Inv

(* A port that throws makes the call fail or return, which is plain.       *)
LEMMA ThrowPlain ==
    ASSUME Inv, NEW c \in Calls, calls[c].pc # "idle", Throw(c),
           UNCHANGED <<runs, sets, claims, delivered>>
    PROVE  Plain(c)
<1>1. CASE Go(c, "failing")
  BY <1>1, GoPlain DEF Follows, BeforeSet, WithSet, WithStatus, WithClaim
<1>2. CASE Return(c)
  BY <1>2, ReturnPlain, UnchangedKept DEF Inv
<1> QED BY <1>1, <1>2 DEF Throw

(* Every step of start is plain but the one that saves the set and the     *)
(* one that decides on it.                                                 *)
LEMMA StartStepsPlain ==
    ASSUME Inv, NEW c \in Calls, StartSteps(c)
    PROVE  Plain(c) \/ SaveSet(c) \/ Decide(c)
<1> USE DEF At, RunOf, stored, history, Follows, BeforeSet, WithSet, WithStatus, WithClaim
<1>1. CASE BeginPlanning(c)
  BY <1>1, AdvancePlain DEF BeginPlanning
<1>2. CASE Planned(c)
  BY <1>2, GoPlain DEF Planned
<1>3. CASE BeginGenerating(c)
  BY <1>3, AdvancePlain DEF BeginGenerating
<1>4. CASE ReadBase(c)
  <2>1. calls' = [calls EXCEPT ![c].pc = "generating", ![c].holds = [base |-> CurrentVersion]]
    BY <1>4 DEF ReadBase
  <2>2. Follows(c, "generating") /\ "generating" \notin WithStatus
    BY <1>4 DEF ReadBase
  <2> QED BY <1>4, <2>1, <2>2, HoldPlain DEF ReadBase
<1>5. CASE Generated(c)
  <2>1. CASE Go(c, "failing")
    BY <1>5, <2>1, GoPlain DEF Generated
  <2>2. CASE \E d \in Drafts : calls' = [calls EXCEPT ![c].pc = "generated",
                                   ![c].holds = [base |-> calls[c].holds.base, draft |-> d]]
    <3>1. PICK h : calls' = [calls EXCEPT ![c].pc = "generated", ![c].holds = h]
      BY <2>2
    <3>2. Follows(c, "generated") /\ "generated" \notin WithStatus
      BY <1>5 DEF Generated
    <3> QED BY <1>5, <3>1, <3>2, HoldPlain DEF Generated
  <2> QED BY <1>5, <2>1, <2>2 DEF Generated
<1>6. CASE BeginValidating(c)
  BY <1>6, AdvancePlain DEF BeginValidating
<1>7. CASE CheckDraft(c)
  <2>1. CASE Go(c, "failing")
    BY <1>7, <2>1, GoPlain DEF CheckDraft
  <2>2. CASE ~Go(c, "failing")
    BY <1>7, <2>2, HoldPlain DEF CheckDraft
  <2> QED BY <2>1, <2>2
<1>8. CASE Analysed(c)
  <2>1. CASE Go(c, "failing")
    BY <1>8, <2>1, GoPlain DEF Analysed
  <2>2. CASE ~Go(c, "failing")
    BY <1>8, <2>2, HoldPlain DEF Analysed
  <2> QED BY <2>1, <2>2
<1>9. CASE ListSet(c)
  <2>1. calls[c].pc = "listing" /\ calls[c].run \in Runs
    BY <1>9, RunOfCall DEF ListSet
  <2>2. sets[calls[c].run].status # "none"
    BY <2>1 DEF Inv, CallsInv
  <2>3. RunsKept
    <3>1. runs' = [runs EXCEPT ![calls[c].run].listed = TRUE]
      BY <1>9 DEF ListSet
    <3> QED BY <2>1, <2>2, <3>1, ListedKept DEF Inv
  <2>4. Moves(c) /\ calls'[c].pc = "deciding"
    BY <1>9, <2>1, GoMoves DEF ListSet, Go, Inv
  <2>5. Closes(calls[c].run) /\ UNCHANGED sets
    BY <1>9, <2>1, UnchangedCloses DEF ListSet, Inv
  <2>6. Warranted(c)
    BY <2>1, <2>2, <2>4, <2>5 DEF Warranted
  <2> QED BY <2>1, <2>3, <2>4, <2>5, <2>6 DEF Plain
<1>10. CASE AwaitApproval(c)
  <2>1. calls[c].pc = "gated" /\ calls[c].run \in Runs
    BY <1>10, RunOfCall DEF AwaitApproval
  <2>2. sets[calls[c].run].status # "none"
    BY <2>1 DEF Inv, CallsInv
  <2>3. RunsKept
    <3>1. runs' = [runs EXCEPT ![calls[c].run].stage = "awaiting-approval"]
      BY <1>10 DEF AwaitApproval
    <3> QED BY <2>1, <2>2, <3>1, AwaitKept DEF Inv
  <2> QED BY <1>10, <2>1, <2>3, ReturnPlain DEF AwaitApproval
<1> QED BY <1>1, <1>2, <1>3, <1>4, <1>5, <1>6, <1>7, <1>8, <1>9, <1>10 DEF StartSteps

(* Every step of approve is plain but the claim.                           *)
LEMMA ApproveStepsPlain ==
    ASSUME Inv, NEW c \in Calls, ApproveSteps(c)
    PROVE  Plain(c) \/ ClaimApproved(c)
<1> USE DEF At, RunOf, stored, history, Follows, BeforeSet, WithSet, WithStatus, WithClaim
<1>1. CASE LoadSet(c)
  <2>1. calls' = [calls EXCEPT ![c].pc = "checking", ![c].holds = sets[calls[c].run]]
    BY <1>1 DEF LoadSet
  <2>2. sets[calls[c].run].status # "none" /\ calls[c].pc = "loading"
    BY <1>1 DEF LoadSet, Inv, CallsInv
  <2> QED BY <1>1, <2>1, <2>2, HoldPlain DEF LoadSet
<1>2. CASE Recheck(c)
  <2>1. CASE Go(c, "failing")
    BY <1>2, <2>1, GoPlain DEF Recheck
  <2>2. CASE Return(c)
    BY <1>2, <2>2, ReturnPlain, UnchangedKept DEF Recheck, Inv
  <2>3. CASE \E p : calls' = [calls EXCEPT ![c].pc = "basing",
                ![c].holds = [base |-> calls[c].holds.base, status |-> calls[c].holds.status,
                              policy |-> p]]
    <3>a. PICK p : calls' = [calls EXCEPT ![c].pc = "basing",
                ![c].holds = [base |-> calls[c].holds.base, status |-> calls[c].holds.status,
                              policy |-> p]]
      BY <2>3
    <3> DEFINE h == [base |-> calls[c].holds.base, status |-> calls[c].holds.status,
                     policy |-> p]
    <3>b. h.status = calls[c].holds.status
      OBVIOUS
    <3>c. calls' = [calls EXCEPT ![c].pc = "basing", ![c].holds = h]
      BY <3>a
    <3> HIDE DEF h
    <3>1. /\ calls' = [calls EXCEPT ![c].pc = "basing", ![c].holds = h]
          /\ h.status = calls[c].holds.status
      BY <3>b, <3>c
    <3>2. calls[c].pc = "checking" /\ calls[c].holds.status # "none"
      BY <1>2 DEF Recheck, Inv, CallsInv
    <3> QED BY <1>2, <3>1, <3>2, HoldPlain DEF Recheck
  <2> QED BY <1>2, <2>1, <2>2, <2>3 DEF Recheck
<1>3. CASE CheckBase(c)
  <2>1. calls[c].pc = "basing"
    BY <1>3 DEF CheckBase
  <2>2. Go(c, "claiming") \/ Go(c, "stale")
    BY <1>3 DEF CheckBase
  <2> QED BY <1>3, <2>1, <2>2, GoPlain DEF CheckBase
<1>4. CASE MarkStale(c)
  <2>1. calls[c].pc = "stale" /\ calls[c].holds.status # "none"
    BY <1>4 DEF MarkStale, Inv, CallsInv
  <2> QED BY <1>4, <2>1, SetStatusPlain DEF MarkStale
<1> QED BY <1>1, <1>2, <1>3, <1>4 DEF ApproveSteps

(* Every step of an apply is plain but the delivery.                       *)
LEMMA ApplyStepsPlain ==
    ASSUME Inv, NEW c \in Calls, ApplySteps(c)
    PROVE  Plain(c) \/ Deliver(c)
<1> USE DEF At, RunOf, stored, history, Follows, BeforeSet, WithSet, WithStatus, WithClaim
<1>1. CASE BeginApplying(c)
  BY <1>1, AdvancePlain DEF BeginApplying
<1>2. CASE AskLink(c)
  <2>1. CASE Go(c, "marking") \/ Go(c, "failing")
    BY <1>2, <2>1, GoPlain DEF AskLink
  <2>2. CASE Throw(c)
    BY <1>2, <2>2, ThrowPlain DEF AskLink
  <2> QED BY <1>2, <2>1, <2>2 DEF AskLink
<1>3. CASE MarkApplying(c)
  BY <1>3, SetStatusPlain DEF MarkApplying
<1>4. ASSUME NEW outcome \in {"all", "some", "none"}, Answered(c, outcome) PROVE Plain(c)
  <2>a. PICK v : v = place'
    OBVIOUS
  <2> DEFINE h == [outcome |-> outcome, version |-> v]
  <2>1. calls' = [calls EXCEPT ![c].pc = "recording", ![c].holds = h]
    BY <1>4, <2>a DEF Answered
  <2>2. Follows(c, "recording") /\ UNCHANGED <<runs, sets, claims, delivered>>
    BY <1>4 DEF Answered
  <2>3. "recording" \notin WithStatus
    OBVIOUS
  <2> HIDE DEF h, Follows, WithStatus
  <2> QED BY <2>1, <2>2, <2>3, HoldPlain
<1>5. CASE NoAnswer(c)
  BY <1>5, GoPlain DEF NoAnswer
<1>6. CASE RecordResult(c)
  BY <1>6, GoPlain DEF RecordResult
<1>7. CASE RecordVersion(c)
  BY <1>7, GoPlain DEF RecordVersion
<1>8. CASE Conclude(c)
  <2>1. calls[c].pc = "concluding"
    BY <1>8 DEF Conclude
  <2>2. PICK next \in {"applied", "partial", "failed"} :
            sets' = SetStatus(calls[c].run, next, "applying")
    BY <1>8 DEF Conclude
  <2>3. Go(c, "failing") \/ Go(c, "applied") \/ Go(c, "done")
    BY <1>8 DEF Conclude
  <2> QED BY <1>8, <2>1, <2>2, <2>3, SetStatusPlain DEF Conclude
<1>9. CASE BeginTesting(c)
  BY <1>9, AdvancePlain DEF BeginTesting
<1>10. CASE Tested(c)
  <2>1. CASE Go(c, "done") \/ Go(c, "failing")
    BY <1>10, <2>1, GoPlain DEF Tested
  <2>2. CASE Throw(c)
    BY <1>10, <2>2, ThrowPlain DEF Tested
  <2> QED BY <1>10, <2>1, <2>2 DEF Tested
<1>11. CASE Finish(c)
  BY <1>11, AdvancePlain DEF Finish
<1>12. CASE Succeed(c)
  BY <1>12, ReturnPlain, StatusKept, RunOfCall DEF Succeed, Inv
<1> QED BY <1>1, <1>2, <1>3, <1>4, <1>5, <1>6, <1>7, <1>8, <1>9, <1>10, <1>11, <1>12
        DEF ApplySteps

(* Every step of reject, of cancel and of a failure is plain.              *)
LEMMA EndStepsPlain ==
    ASSUME Inv, NEW c \in Calls, EndSteps(c)
    PROVE  Plain(c)
<1> USE DEF At, RunOf, stored, history, Follows, BeforeSet, WithSet, WithStatus, WithClaim
<1>1. CASE FailStage(c)
  BY <1>1, AdvancePlain DEF FailStage
<1>2. CASE FailStatus(c)
  BY <1>2, ReturnPlain, StatusKept, RunOfCall DEF FailStatus, Inv
<1>3. CASE ReadRefused(c)
  <2> DEFINE h == [status |-> sets[calls[c].run].status]
  <2>a. calls' = [calls EXCEPT ![c].pc = "refused", ![c].holds = h]
    BY <1>3 DEF ReadRefused
  <2>b. h.status = sets[calls[c].run].status
    OBVIOUS
  <2> HIDE DEF h
  <2>1. /\ calls' = [calls EXCEPT ![c].pc = "refused", ![c].holds = h]
        /\ h.status = sets[calls[c].run].status
    BY <2>a, <2>b
  <2>2. calls[c].pc = "refusing" /\ sets[calls[c].run].status # "none"
    BY <1>3 DEF ReadRefused, Inv, CallsInv
  <2> QED BY <1>3, <2>1, <2>2, HoldPlain DEF ReadRefused
<1>4. CASE RefuseSet(c)
  <2>1. calls[c].pc = "refused" /\ calls[c].holds.status # "none"
    BY <1>4 DEF RefuseSet, Inv, CallsInv
  <2> QED BY <1>4, <2>1, SetStatusPlain DEF RefuseSet
<1>5. CASE CancelStage(c)
  BY <1>5, AdvancePlain DEF CancelStage
<1>6. CASE CancelStatus(c)
  BY <1>6, ReturnPlain, StatusKept, RunOfCall DEF CancelStatus, Inv
<1> QED BY <1>1, <1>2, <1>3, <1>4, <1>5, <1>6 DEF EndSteps

-----------------------------------------------------------------------------
(* The steps the promise is about: saving, claiming and delivering a set.  *)

Saves(r) ==
    /\ SetsShape
    /\ \A q \in Runs : q # r => sets'[q] = sets[q]
    /\ sets[r].status = "none" /\ sets'[r].status = "validated"
    /\ UNCHANGED <<claims, delivered>>

Claims(r) ==
    /\ SetsShape
    /\ \A q \in Runs : q # r => sets'[q] = sets[q]
    /\ sets[r].status = "validated" /\ sets'[r].status = "approved"
    /\ claims' = [claims EXCEPT ![r] = @ + 1]
    /\ UNCHANGED delivered

Delivers(r) ==
    /\ SetsShape /\ UNCHANGED <<sets, claims>>
    /\ claims[r] = 1 /\ delivered[r] = 0
    /\ delivered' = [delivered EXCEPT ![r] = @ + 1]

(* The call is beyond the set, its claim or its delivery.                  *)
Reaches(c, p) ==
    /\ Moves(c) /\ RunsKept /\ calls[c].pc # "idle"
    /\ calls'[c].pc = p

SavesSet(c) == Reaches(c, "listing") /\ Saves(calls[c].run) /\ calls[c].pc = "saving"
ClaimsSet(c) == Reaches(c, "claimed") /\ Claims(calls[c].run)
DeliversSet(c) == Reaches(c, "awaiting") /\ Delivers(calls[c].run) /\ calls[c].pc = "delivering"

(* Saving the set is the one step that brings it into existence.           *)
LEMMA SaveSaves ==
    ASSUME Inv, NEW c \in Calls, SaveSet(c)
    PROVE  SavesSet(c)
<1>1. calls[c].pc = "saving" /\ calls[c].run \in Runs
  BY RunOfCall DEF SaveSet, At
<1>2. Moves(c) /\ calls'[c].pc = "listing"
  BY <1>1, GoMoves DEF SaveSet, Go, Inv
<1>3. sets[calls[c].run].status = "none"
  BY <1>1 DEF Inv, CallsInv, BeforeSet
<1> DEFINE new == [status |-> "validated", base |-> calls[c].holds.base,
                  ops |-> calls[c].holds.draft.ops, luau |-> calls[c].holds.luau]
<1>a. sets' = [sets EXCEPT ![calls[c].run] = new]
  BY DEF SaveSet, RunOf
<1>b. new.status = "validated" /\ "status" \in DOMAIN new
  OBVIOUS
<1> HIDE DEF new
<1>4. /\ sets' = [sets EXCEPT ![calls[c].run] = new]
      /\ new.status = "validated" /\ "status" \in DOMAIN new
  BY <1>a, <1>b
<1>5. Saves(calls[c].run)
  BY <1>1, <1>3, <1>4 DEF Saves, SetsShape, Inv, Shapes, SaveSet, history
<1>6. RunsKept
  BY UnchangedKept DEF SaveSet, Inv
<1> QED BY <1>1, <1>2, <1>5, <1>6 DEF SavesSet, Reaches

(* A compare-and-set to `approved' takes the set out of `validated'.       *)
LEMMA ClaimClaims ==
    ASSUME Inv, NEW c \in Calls, calls[c].pc # "idle", NEW basis, Claimed(c, basis),
           sets' = SetStatus(calls[c].run, "approved", "validated"), Go(c, "claimed"),
           UNCHANGED <<runs, delivered>>
    PROVE  ClaimsSet(c)
<1>1. calls[c].run \in Runs
  BY RunOfCall
<1>2. Moves(c) /\ calls'[c].pc = "claimed"
  BY <1>1, GoMoves DEF Go, Inv
<1>3. sets' = [sets EXCEPT ![calls[c].run].status = "approved"]
  BY DEF Claimed, SetStatus, RunOf
<1>4. Claims(calls[c].run)
  BY <1>1, <1>3 DEF Claims, SetsShape, Inv, Shapes, Claimed, RunOf
<1>5. RunsKept
  BY UnchangedKept DEF Inv
<1> QED BY <1>2, <1>4, <1>5 DEF ClaimsSet, Reaches

(* Automatic approval claims the set or is a plain step.                   *)
LEMMA DecidePlain ==
    ASSUME Inv, NEW c \in Calls, Decide(c)
    PROVE  Plain(c) \/ ClaimsSet(c)
<1> USE DEF At, RunOf, stored, history, Follows, BeforeSet, WithSet, WithStatus, WithClaim
<1>1. calls[c].pc = "deciding" /\ UNCHANGED <<runs, delivered>>
  BY DEF Decide
<1>2. CASE sets' = SetStatus(calls[c].run, "rejected", "validated") /\ Go(c, "failing") /\ UNCHANGED claims
  BY <1>1, <1>2, SetStatusPlain
<1>3. CASE /\ sets' = SetStatus(calls[c].run, "approved", "validated") /\ Go(c, "claimed")
           /\ \E basis : Claimed(c, basis)
  BY <1>1, <1>3, ClaimClaims
<1>4. CASE UNCHANGED <<sets, claims>> /\ Go(c, "gated")
  BY <1>1, <1>4, GoPlain
<1> QED BY <1>2, <1>3, <1>4 DEF Decide

(* So does the claim of approve, which is plain when it lost the race.     *)
LEMMA ClaimApprovedPlain ==
    ASSUME Inv, NEW c \in Calls, ClaimApproved(c)
    PROVE  Plain(c) \/ ClaimsSet(c)
<1>1. calls[c].pc = "claiming" /\ UNCHANGED <<runs, delivered>>
  BY DEF ClaimApproved, At
<1>2. CASE /\ sets' = SetStatus(calls[c].run, "approved", "validated") /\ Go(c, "claimed")
           /\ \E basis : Claimed(c, basis)
  BY <1>1, <1>2, ClaimClaims
<1>3. CASE UNCHANGED <<sets, claims>> /\ Return(c)
  BY <1>1, <1>3, ReturnPlain, UnchangedKept DEF Inv
<1> QED BY <1>2, <1>3 DEF ClaimApproved, RunOf

(* The delivery hands over the set or fails, which is a plain step.        *)
LEMMA DeliverPlain ==
    ASSUME Inv, NEW c \in Calls, Deliver(c)
    PROVE  Plain(c) \/ DeliversSet(c)
<1>1. calls[c].pc = "delivering" /\ UNCHANGED <<runs, sets, claims>> /\ calls[c].run \in Runs
  BY RunOfCall DEF Deliver, At, stored
<1>2. CASE Throw(c) /\ UNCHANGED delivered
  BY <1>1, <1>2, ThrowPlain
<1>3. CASE delivered' = [delivered EXCEPT ![calls[c].run] = @ + 1] /\ Go(c, "awaiting")
  <2>1. Moves(c) /\ calls'[c].pc = "awaiting"
    BY <1>1, <1>3, GoMoves DEF Go, Inv
  <2>2. claims[calls[c].run] = 1 /\ delivered[calls[c].run] = 0
    BY <1>1 DEF Inv, CallsInv, WithClaim
  <2>3. SetsShape
    BY <1>1 DEF SetsShape, Inv, Shapes
  <2> QED BY <1>1, <1>3, <2>1, <2>2, <2>3, UnchangedKept DEF DeliversSet, Reaches, Delivers, Inv
<1> QED BY <1>2, <1>3 DEF Deliver, RunOf

(* Saving keeps the invariant: nobody claimed a set that did not exist.    *)
LEMMA InvSavesSet ==
    ASSUME Inv, NEW c \in Calls, SavesSet(c)
    PROVE  Inv'
<1> DEFINE r == calls[c].run
<1>1. r \in Runs /\ calls[c].pc # "idle"
  BY RunOfCall DEF SavesSet, Reaches
<1>2. /\ \A d \in Calls : d # c => calls'[d] = calls[d]
      /\ calls'[c].run = r /\ calls'[c].kind = calls[c].kind
  BY DEF SavesSet, Reaches, Moves
<1>3. \A d \in Calls : calls[d].pc # "idle" => calls[d].run \in Runs
  BY RunOfCall
<1>4. Shapes'
  <2>1. \A d \in Calls : calls'[d] = Idle \/ IsCall(calls'[d])
    BY <1>2 DEF SavesSet, Reaches, Moves, Inv, Shapes
  <2>2. calls' = [d \in Calls |-> calls'[d]] /\ RunsKept /\ SetsShape
    BY DEF SavesSet, Reaches, Moves, Saves
  <2>3. claims' \in [Runs -> Nat] /\ delivered' \in [Runs -> Nat]
    BY <1>1 DEF SavesSet, Saves, Inv, Shapes
  <2> QED BY <2>1, <2>2, <2>3 DEF Shapes, RunsKept, SetsShape
<1>5. \A q \in Runs : runs[q].stage # "none" => runs'[q].stage # "none"
  BY DEF SavesSet, Reaches, RunsKept
<1>6. runs[r].stage # "none"
  BY <1>1 DEF Inv, CallsInv
<1>a. calls[c].pc = "saving" /\ calls'[c].pc = "listing" /\ calls[c].kind = "start" /\ Saves(r)
  BY <1>1 DEF SavesSet, Reaches, Inv, CallsInv, BeforeSet
<1>b. \A d \in Calls : (d # c /\ calls[d].pc # "idle" /\ calls[d].run = r) =>
          calls[d].pc \notin BeforeSet
  BY <1>1, <1>a DEF Inv, CallsInv, Alone
<1>7. SetsInv' /\ Unused'
  BY <1>1, <1>5, <1>6, <1>a DEF Inv, SetsInv, Unused, Saves, SavesSet, Reaches, RunsKept
<1>8. CallsInv'
  BY <1>1, <1>2, <1>3, <1>5, <1>a, <1>b DEF Inv, CallsInv, Saves, BeforeSet, WithSet, WithStatus, WithClaim
<1>9. Alone'
  BY <1>2, <1>a DEF Inv, Alone, WithClaim
<1> QED BY <1>4, <1>7, <1>8, <1>9 DEF Inv

(* Claiming keeps it: the set is no longer open, and nobody else owns it.  *)
LEMMA InvClaimsSet ==
    ASSUME Inv, NEW c \in Calls, ClaimsSet(c)
    PROVE  Inv'
<1> DEFINE r == calls[c].run
<1>1. r \in Runs /\ calls[c].pc # "idle"
  BY RunOfCall DEF ClaimsSet, Reaches
<1>2. /\ \A d \in Calls : d # c => calls'[d] = calls[d]
      /\ calls'[c].run = r /\ calls'[c].kind = calls[c].kind
  BY DEF ClaimsSet, Reaches, Moves
<1>3. \A d \in Calls : calls[d].pc # "idle" => calls[d].run \in Runs
  BY RunOfCall
<1>4. Shapes'
  <2>1. \A d \in Calls : calls'[d] = Idle \/ IsCall(calls'[d])
    BY <1>2 DEF ClaimsSet, Reaches, Moves, Inv, Shapes
  <2>2. calls' = [d \in Calls |-> calls'[d]] /\ RunsKept /\ SetsShape
    BY DEF ClaimsSet, Reaches, Moves, Claims
  <2>3. claims' \in [Runs -> Nat] /\ delivered' \in [Runs -> Nat]
    BY <1>1 DEF ClaimsSet, Claims, Inv, Shapes
  <2> QED BY <2>1, <2>2, <2>3 DEF Shapes, RunsKept, SetsShape
<1>5. \A q \in Runs : runs[q].stage # "none" => runs'[q].stage # "none"
  BY DEF ClaimsSet, Reaches, RunsKept
<1>6. runs[r].stage # "none"
  BY <1>1 DEF Inv, CallsInv
<1>a. calls'[c].pc = "claimed" /\ Claims(r)
  BY DEF ClaimsSet, Reaches
<1>b. claims[r] = 0 /\ delivered[r] = 0 /\ claims'[r] = 1 /\ delivered'[r] = 0
  BY <1>1, <1>a DEF Inv, SetsInv, Unused, Claims, Shapes
<1>c. \A q \in Runs : q # r => claims'[q] = claims[q] /\ delivered'[q] = delivered[q]
  BY <1>a DEF Claims, Inv, Shapes
<1>d. \A d \in Calls : (d # c /\ calls[d].pc # "idle" /\ calls[d].run = r) =>
          calls[d].pc \notin WithClaim
  BY <1>b DEF Inv, CallsInv
<1>e. \A q \in Runs : sets'[q].status = "none" <=> sets[q].status = "none"
  BY <1>1, <1>a DEF Claims
<1>7. SetsInv' /\ Unused'
  BY <1>1, <1>5, <1>6, <1>a, <1>b, <1>c DEF Inv, SetsInv, Unused, Claims, ClaimsSet, Reaches, RunsKept
<1>8. CallsInv'
  BY <1>1, <1>2, <1>3, <1>5, <1>6, <1>a, <1>b, <1>c, <1>d, <1>e DEF Inv, CallsInv, BeforeSet, WithSet, WithStatus, WithClaim
<1>9. Alone'
  BY <1>1, <1>2, <1>a, <1>d DEF Inv, Alone, WithClaim
<1> QED BY <1>4, <1>7, <1>8, <1>9 DEF Inv

(* Delivering keeps it: the one owner leaves the claimed places.           *)
LEMMA InvDeliversSet ==
    ASSUME Inv, NEW c \in Calls, DeliversSet(c)
    PROVE  Inv'
<1> DEFINE r == calls[c].run
<1>1. r \in Runs /\ calls[c].pc # "idle"
  BY RunOfCall DEF DeliversSet, Reaches
<1>2. /\ \A d \in Calls : d # c => calls'[d] = calls[d]
      /\ calls'[c].run = r /\ calls'[c].kind = calls[c].kind
  BY DEF DeliversSet, Reaches, Moves
<1>3. \A d \in Calls : calls[d].pc # "idle" => calls[d].run \in Runs
  BY RunOfCall
<1>4. Shapes'
  <2>1. \A d \in Calls : calls'[d] = Idle \/ IsCall(calls'[d])
    BY <1>2 DEF DeliversSet, Reaches, Moves, Inv, Shapes
  <2>2. calls' = [d \in Calls |-> calls'[d]] /\ RunsKept /\ SetsShape
    BY DEF DeliversSet, Reaches, Moves, Delivers
  <2>3. claims' \in [Runs -> Nat] /\ delivered' \in [Runs -> Nat]
    BY <1>1 DEF DeliversSet, Delivers, Inv, Shapes
  <2> QED BY <2>1, <2>2, <2>3 DEF Shapes, RunsKept, SetsShape
<1>5. \A q \in Runs : runs[q].stage # "none" => runs'[q].stage # "none"
  BY DEF DeliversSet, Reaches, RunsKept
<1>6. runs[r].stage # "none"
  BY <1>1 DEF Inv, CallsInv
<1>a. calls'[c].pc = "awaiting" /\ calls[c].pc = "delivering" /\ Delivers(r)
  BY DEF DeliversSet, Reaches
<1>b. \A q \in Runs : q # r => delivered'[q] = delivered[q]
  BY <1>a DEF Delivers, Inv, Shapes
<1>c. UNCHANGED <<sets, claims>> /\ claims[r] = 1
  BY <1>a DEF Delivers
<1>d. \A d \in Calls : (d # c /\ calls[d].pc # "idle" /\ calls[d].run = r) =>
          calls[d].pc \notin WithClaim
  BY <1>1, <1>a DEF Inv, Alone, WithClaim
<1>7. SetsInv' /\ Unused'
  BY <1>1, <1>5, <1>6, <1>b, <1>c DEF Inv, SetsInv, Unused, DeliversSet, Reaches, RunsKept
<1>8. CallsInv'
  BY <1>1, <1>2, <1>3, <1>5, <1>6, <1>a, <1>b, <1>c, <1>d DEF Inv, CallsInv, BeforeSet, WithSet, WithStatus, WithClaim
<1>9. Alone'
  BY <1>2, <1>a DEF Inv, Alone, WithClaim
<1> QED BY <1>4, <1>7, <1>8, <1>9 DEF Inv

(* A call that begins: what its first place asks for holds already.        *)
Begins(c, r, new) ==
    /\ calls' = [calls EXCEPT ![c] = new]
    /\ IsCall(new) /\ new.run = r
    /\ (new.pc \in BeforeSet \/ new.kind = "start") =>
          new.kind = "start" /\ runs[r].stage = "none"
    /\ new.pc \in WithSet => sets[r].status # "none"
    /\ new.pc \notin WithStatus /\ new.pc \notin WithClaim

(* start writes the first stage of a run and no set.                       *)
LEMMA StartKept ==
    ASSUME Shapes, NEW r \in Runs, NEW c, Start(c, r)
    PROVE  RunsKept /\ runs'[r].stage = "queued"
<1>1. runs' = [runs EXCEPT ![r].stage = "queued", ![r].status = "running"]
  BY DEF Start
<1>2. /\ runs'[r] = [[runs[r] EXCEPT !.stage = "queued"] EXCEPT !.status = "running"]
      /\ \A q \in Runs : q # r => runs'[q] = runs[q]
      /\ runs' = [q \in Runs |-> runs'[q]]
  BY <1>1 DEF Shapes
<1>a. \A q \in Runs : runs[q] = [stage |-> runs[q].stage, status |-> runs[q].status,
                                listed |-> runs[q].listed]
  BY DEF Shapes
<1>3. runs'[r] = [stage |-> "queued", status |-> "running", listed |-> runs[r].listed]
  BY <1>2, <1>a
<1>4. \A q \in Runs : runs'[q] = [stage |-> runs'[q].stage, status |-> runs'[q].status,
                                listed |-> runs'[q].listed]
  BY <1>2, <1>3, <1>a
<1>5. runs' = [q \in Runs |-> [stage |-> runs'[q].stage, status |-> runs'[q].status,
                              listed |-> runs'[q].listed]]
  BY <1>2, <1>4
<1> QED BY <1>2, <1>3, <1>5, ZenonT(60) DEF RunsKept

(* Every call begins at a place that its run warrants.                     *)
LEMMA NewCallBegins ==
    ASSUME Inv, NEW c \in Calls, NEW r \in Runs,
           \/ Start(c, r) \/ Reject(c, r) \/ Cancel(c, r)
           \/ \E confirm \in BOOLEAN : Approve(c, r, confirm)
    PROVE  \E new : Begins(c, r, new)
<1> USE DEF IsCall, BeforeSet, WithSet, WithStatus, WithClaim
<1>1. CASE Start(c, r)
  <2> DEFINE new == [pc |-> "queued", kind |-> "start", run |-> r, stage |-> "queued",
                     confirm |-> FALSE, holds |-> None]
  <2>1. calls' = [calls EXCEPT ![c] = new] /\ runs[r].stage = "none"
    BY <1>1 DEF Start
  <2>2. IsCall(new) /\ new.run = r /\ new.pc = "queued" /\ new.kind = "start"
    OBVIOUS
  <2> HIDE DEF new, IsCall
  <2>3. Begins(c, r, new)
    BY <2>1, <2>2 DEF Begins
  <2> QED BY <2>3
<1>2. CASE Reject(c, r)
  <2>0. PICK p : p = IF runs[r].listed THEN "refusing" ELSE "failing"
    OBVIOUS
  <2> DEFINE new == [pc |-> p, kind |-> "reject", run |-> r, stage |-> runs[r].stage,
                     confirm |-> FALSE, holds |-> None]
  <2>1. calls' = [calls EXCEPT ![c] = new]
    BY <1>2, <2>0 DEF Reject
  <2>2. p = "failing" \/ (p = "refusing" /\ runs[r].listed = TRUE)
    BY <2>0, SMT
  <2>3. IsCall(new) /\ new.run = r /\ new.pc = p /\ new.kind = "reject"
    BY <2>2
  <2>4. p = "refusing" => sets[r].status # "none"
    BY <2>2 DEF Inv, SetsInv
  <2> HIDE DEF new, IsCall
  <2>5. Begins(c, r, new)
    BY <2>1, <2>2, <2>3, <2>4 DEF Begins
  <2> QED BY <2>5
<1>3. CASE Cancel(c, r)
  <2> DEFINE new == [pc |-> "cancelling", kind |-> "cancel", run |-> r,
                     stage |-> runs[r].stage, confirm |-> FALSE, holds |-> None]
  <2>1. calls' = [calls EXCEPT ![c] = new]
    BY <1>3 DEF Cancel
  <2>2. IsCall(new) /\ new.run = r /\ new.pc = "cancelling" /\ new.kind = "cancel"
    OBVIOUS
  <2> HIDE DEF new, IsCall
  <2>3. Begins(c, r, new)
    BY <2>1, <2>2 DEF Begins
  <2> QED BY <2>3
<1>4. ASSUME NEW confirm \in BOOLEAN, Approve(c, r, confirm)
      PROVE  \E new : Begins(c, r, new)
  <2> DEFINE new == [pc |-> "loading", kind |-> "approve", run |-> r,
                     stage |-> runs[r].stage, confirm |-> confirm, holds |-> None]
  <2>1. calls' = [calls EXCEPT ![c] = new] /\ runs[r].stage = "awaiting-approval"
    BY <1>4 DEF Approve
  <2>2. IsCall(new) /\ new.run = r /\ new.pc = "loading" /\ new.kind = "approve"
    OBVIOUS
  <2>3. sets[r].status # "none"
    BY <2>1 DEF Inv, SetsInv
  <2> HIDE DEF new, IsCall
  <2>4. Begins(c, r, new)
    BY <2>1, <2>2, <2>3 DEF Begins
  <2> QED BY <2>4
<1> QED BY <1>1, <1>2, <1>3, <1>4

(* A new call keeps the invariant and touches no set.                      *)
LEMMA InvNewCall ==
    ASSUME Inv, NEW c \in Calls, NewCall(c)
    PROVE  Inv' /\ UNCHANGED <<sets, claims, delivered>>
<1>1. PICK r \in Runs : \/ Start(c, r) \/ Reject(c, r) \/ Cancel(c, r)
                        \/ \E confirm \in BOOLEAN : Approve(c, r, confirm)
  BY DEF NewCall
<1>2. UNCHANGED <<sets, claims, delivered>> /\ calls[c].pc = "idle"
  BY <1>1 DEF Start, Reject, Cancel, Approve, stored, history, At
<1>3. RunsKept /\ runs'[r].stage # "none"
  <2>1. CASE Start(c, r)
    BY <2>1, StartKept DEF Inv
  <2>2. CASE Reject(c, r)
    BY <2>2, UnchangedKept DEF Reject, Inv, stored
  <2>3. CASE Cancel(c, r)
    BY <2>3, UnchangedKept DEF Cancel, Inv, stored
  <2>4. CASE \E confirm \in BOOLEAN : Approve(c, r, confirm)
    BY <2>4, UnchangedKept DEF Approve, Inv, stored
  <2> QED BY <1>1, <2>1, <2>2, <2>3, <2>4
<1>5. PICK new : Begins(c, r, new)
  BY <1>1, NewCallBegins
<1>6. /\ calls'[c] = new /\ \A d \in Calls : d # c => calls'[d] = calls[d]
      /\ calls' = [d \in Calls |-> calls'[d]]
  BY <1>5 DEF Inv, Shapes, Begins
<1>7. Shapes'
  <2>1. \A d \in Calls : calls'[d] = Idle \/ IsCall(calls'[d])
    BY <1>5, <1>6 DEF Inv, Shapes, Begins
  <2> QED BY <1>2, <1>3, <1>6, <2>1 DEF Inv, Shapes, RunsKept
<1>8. \A d \in Calls : calls[d].pc # "idle" => calls[d].run \in Runs
  BY RunOfCall
<1>9. SetsInv' /\ Unused'
  <2>1. \A q \in Runs : runs'[q].stage = "none" => runs[q].stage = "none"
    BY <1>3 DEF RunsKept
  <2> QED BY <1>2, <1>3, <2>1 DEF Inv, SetsInv, Unused, RunsKept
<1>10. /\ calls'[c].run = r
       /\ (calls'[c].pc \in BeforeSet \/ calls'[c].kind = "start") =>
             calls'[c].kind = "start" /\ runs[r].stage = "none"
       /\ calls'[c].pc \in WithSet => sets[r].status # "none"
       /\ calls'[c].pc \notin WithStatus /\ calls'[c].pc \notin WithClaim
  BY <1>5, <1>6 DEF Begins
<1>11. CallsInv'
  BY <1>2, <1>3, <1>6, <1>8, <1>10 DEF Inv, CallsInv, RunsKept, SetsInv
<1>12. Alone'
  BY <1>6, <1>10 DEF Inv, Alone, CallsInv
<1> QED BY <1>2, <1>7, <1>9, <1>11, <1>12 DEF Inv

-----------------------------------------------------------------------------
(* Every step is one of five kinds.                                        *)
LEMMA StepKinds ==
    ASSUME Inv, [Next]_vars
    PROVE  \/ \E c \in Calls : NewCall(c) \/ Plain(c) \/ SavesSet(c) \/ ClaimsSet(c) \/ DeliversSet(c)
           \/ UNCHANGED <<runs, sets, calls, claims, delivered>>
<1>1. ASSUME NEW c \in Calls, StartSteps(c) PROVE Plain(c) \/ SavesSet(c) \/ ClaimsSet(c)
  BY <1>1, StartStepsPlain, SaveSaves, DecidePlain
<1>2. ASSUME NEW c \in Calls, ApproveSteps(c) PROVE Plain(c) \/ ClaimsSet(c)
  BY <1>2, ApproveStepsPlain, ClaimApprovedPlain
<1>3. ASSUME NEW c \in Calls, ApplySteps(c) PROVE Plain(c) \/ DeliversSet(c)
  BY <1>3, ApplyStepsPlain, DeliverPlain
<1>4. ASSUME NEW c \in Calls, EndSteps(c) PROVE Plain(c)
  BY <1>4, EndStepsPlain
<1>5. CASE \/ \E p \in Policies : SetPolicy(p)
           \/ AppendTree \/ UNCHANGED vars
  BY <1>5 DEF SetPolicy, AppendTree, vars, stored, history
<1> QED BY <1>1, <1>2, <1>3, <1>4, <1>5 DEF Next

(* The invariant is inductive.                                             *)
LEMMA InvStep == Inv /\ [Next]_vars => Inv'
<1> SUFFICES ASSUME Inv, [Next]_vars PROVE Inv'
  OBVIOUS
<1>1. ASSUME NEW c \in Calls, Plain(c) PROVE Inv'
  BY <1>1, CallSteps DEF Plain
<1>2. CASE UNCHANGED <<runs, sets, calls, claims, delivered>>
  <2>1. Shapes'
    BY <1>2 DEF Inv, Shapes
  <2>2. SetsInv' /\ Unused' /\ CallsInv' /\ Alone'
    BY <1>2 DEF Inv, SetsInv, Unused, CallsInv, Alone
  <2> QED BY <2>1, <2>2 DEF Inv
<1> QED BY <1>1, <1>2, StepKinds, InvNewCall, InvSavesSet, InvClaimsSet, InvDeliversSet

(* A step of the pipeline is a step of the promise, or none.               *)
LEMMA StepKeepsPromise ==
    Inv /\ [Next]_vars => [Promise!Next]_(Promise!vars)
<1> SUFFICES ASSUME Inv, [Next]_vars PROVE [Promise!Next]_(Promise!vars)
  OBVIOUS
<1> USE DEF Promise!vars
<1>1. ASSUME UNCHANGED <<sets, claims, delivered>> PROVE UNCHANGED Promise!vars
  BY <1>1
<1>2. ASSUME NEW c \in Calls, Plain(c) PROVE [Promise!Next]_(Promise!vars)
  <2> DEFINE r == calls[c].run
  <2>1. r \in Runs /\ Closes(r)
    BY <1>2, RunOfCall DEF Plain
  <2>2. {q \in Runs : sets[q].status # "none"}' = {q \in Runs : sets[q].status # "none"}
    BY <2>1 DEF Closes
  <2>3. CASE sets'[r].status = sets[r].status
    BY <2>1, <2>2, <2>3 DEF Closes
  <2>4. CASE sets[r].status # "validated" /\ sets'[r].status # "validated"
    BY <2>1, <2>2, <2>4 DEF Closes
  <2>5. CASE sets[r].status = "validated" /\ sets'[r].status # "validated"
    <3>1. {q \in Runs : sets[q].status = "validated"}'
            = {q \in Runs : sets[q].status = "validated"} \ {r}
      BY <2>1, <2>5 DEF Closes
    <3>2. Promise!Close(r)
      BY <2>1, <2>2, <2>5, <3>1 DEF Closes, Promise!Close
    <3>3. Promise!Next
      BY <2>1, <3>2 DEF Promise!Next, Promise!Propose, Promise!Close, Promise!Claim, Promise!Deliver
    <3> QED BY <3>3
  <2> QED BY <2>1, <2>3, <2>4, <2>5 DEF Closes
<1>3. ASSUME NEW c \in Calls, SavesSet(c) PROVE [Promise!Next]_(Promise!vars)
  <2> DEFINE r == calls[c].run
  <2>1. r \in Runs /\ Saves(r)
    BY <1>3, RunOfCall DEF SavesSet, Reaches
  <2>2. /\ {q \in Runs : sets[q].status # "none"}' = {q \in Runs : sets[q].status # "none"} \cup {r}
        /\ {q \in Runs : sets[q].status = "validated"}'
             = {q \in Runs : sets[q].status = "validated"} \cup {r}
    BY <2>1 DEF Saves
  <2>3. Promise!Propose(r)
    BY <2>1, <2>2 DEF Saves, Promise!Propose
  <2>4. Promise!Next
    BY <2>1, <2>3 DEF Promise!Next, Promise!Propose, Promise!Close, Promise!Claim, Promise!Deliver
  <2> QED BY <2>4
<1>4. ASSUME NEW c \in Calls, ClaimsSet(c) PROVE [Promise!Next]_(Promise!vars)
  <2> DEFINE r == calls[c].run
  <2>1. r \in Runs /\ Claims(r)
    BY <1>4, RunOfCall DEF ClaimsSet, Reaches
  <2>2. /\ {q \in Runs : sets[q].status # "none"}' = {q \in Runs : sets[q].status # "none"}
        /\ {q \in Runs : sets[q].status = "validated"}'
             = {q \in Runs : sets[q].status = "validated"} \ {r}
    BY <2>1 DEF Claims
  <2>3. claims[r] = 0
    BY <2>1 DEF Claims, Inv, SetsInv
  <2>4. claims' = [claims EXCEPT ![r] = 1]
    BY <2>1, <2>3 DEF Claims
  <2>5. Promise!Claim(r)
    BY <2>1, <2>2, <2>3, <2>4 DEF Claims, Promise!Claim
  <2>6. Promise!Next
    BY <2>1, <2>5 DEF Promise!Next, Promise!Propose, Promise!Close, Promise!Claim, Promise!Deliver
  <2> QED BY <2>6
<1>5. ASSUME NEW c \in Calls, DeliversSet(c) PROVE [Promise!Next]_(Promise!vars)
  <2> DEFINE r == calls[c].run
  <2>1. r \in Runs /\ Delivers(r)
    BY <1>5, RunOfCall DEF DeliversSet, Reaches
  <2>2. delivered' = [delivered EXCEPT ![r] = 1]
    BY <2>1 DEF Delivers
  <2>3. Promise!Deliver(r)
    BY <2>1, <2>2 DEF Delivers, Promise!Deliver
  <2>4. Promise!Next
    BY <2>1, <2>3 DEF Promise!Next
  <2> QED BY <2>4
<1> QED BY <1>1, <1>2, <1>3, <1>4, <1>5, StepKinds, InvNewCall

(* However many runs there are and however many calls of start, approve,   *)
(* reject and cancel overlap, RunPipeline implements AtMostOnce: a set is  *)
(* claimed at most once, and delivered at most once and only when claimed. *)
THEOREM PipelineKeepsPromise == Spec => DeliveredAtMostOnce
<1>1. Init => Promise!Init
  BY DEF Init, NoSet, Promise!Init
<1> QED BY <1>1, InvInit, InvStep, StepKeepsPromise, PTL DEF Spec, DeliveredAtMostOnce, Promise!Spec
=============================================================================
