---------------------------- MODULE RelayJournal ----------------------------
(***************************************************************************)
(* The journals of applies as the relay keeps them, and the daemon in the  *)
(* same words (rollback.ts, server.ts and store.ts of each): the inverses  *)
(* a consumer uploads, the checks they must pass before they are worth     *)
(* keeping, the reversal that is dispatched from them, and what a journal  *)
(* is said to be afterwards.  Each handler runs to its end once the body   *)
(* is read; uploads, replays and their reports are separate and may be     *)
(* late, lost, repeated or wrong.                                          *)
(*                                                                         *)
(* One session and one project: Relay has the others.  A ChangeSet is one  *)
(* of ReversibleSets; an operation and an inverse name their paths and     *)
(* property, and not the values they write.                                *)
(***************************************************************************)
EXTENDS Integers, Sequences, SequencesExt, FiniteSets

CONSTANTS
    LedgerCap,        \* journalsPerSession of the relay
    ConsoleCap,       \* outputPerLink
    ConsoleRead,      \* OUTPUT_READ_LIMIT
    MaxTreeVersion,   \* bound: versions of the project
    MaxReversals,     \* bound: reversals dispatched
    MaxAnswers,       \* bound: different reports of reversals
    MaxConsole        \* bound: console messages

ASSUME RelayJournalBounds ==
    /\ {LedgerCap, ConsoleCap, ConsoleRead} \subseteq Nat \ {0}
    /\ MaxConsole \in Nat

VARIABLES
    host,        \* "relay" or "daemon"
    proposals,   \* set |-> approved, rejected, settled by a report, or gone
    ledger,      \* the journals with their entry and result, oldest first
    treeVersion, \* the version recorded for the project
    reversals,   \* the rollback deliveries that were dispatched
    relayed,     \* reports of reversals under way to the host
    undone,      \* history: set |-> operations the place has undone
    console,     \* the link's console messages
    said         \* history: how many messages there have been

relayJournalVars ==
    <<host, proposals, ledger, treeVersion, reversals, relayed, undone, console, said>>

NotUploaded == [applied |-> <<>>, inverses |-> <<>>]

-----------------------------------------------------------------------------
(* Operations and their inverses *)

At(op, path, to, property) == [op |-> op, path |-> path, to |-> to, property |-> property]
ReversibleSets ==
    [shop |-> <<At("createInstance", <<"a">>, <<>>, "none"),
                At("setProperty", <<"a">>, <<>>, "x")>>,
     code |-> <<At("writeScript", <<"a", "s">>, <<>>, "none")>>,
     gate |-> <<At("moveInstance", <<"a">>, <<"b">>, "none"),
                At("deleteInstance", <<"b", "c">>, <<>>, "none")>>]
SetIds == DOMAIN ReversibleSets

Undo(inverse, path, from, property) ==
    [inverse |-> inverse, path |-> path, from |-> from, property |-> property]

(* assertInverts.  restoreSubtree names the parent it hangs the copy under.*)
InvertsEither(op, inv) ==
    \/ op.op = "createInstance" /\ inv.inverse = "deleteCreated" /\ inv.path = op.path
    \/ op.op = "setProperty" /\ inv.inverse = "restoreProperty" /\ inv.path = op.path
    \/ op.op = "writeScript" /\ inv.inverse \in {"restoreSource", "deleteCreated"}
         /\ inv.path = op.path
    \/ op.op = "moveInstance" /\ inv.inverse = "moveBack"
         /\ {inv.path, inv.from} = {op.to, op.path}
    \/ op.op = "deleteInstance" /\ inv.inverse = "restoreSubtree"
         /\ inv.path = Front(op.path)
AssertInverts(op, inv) ==
    \/ op.op = "createInstance" /\ inv.inverse = "deleteCreated" /\ inv.path = op.path
    \/ op.op = "setProperty" /\ inv.inverse = "restoreProperty" /\ inv.path = op.path
         /\ inv.property = op.property
    \/ op.op = "writeScript" /\ inv.inverse \in {"restoreSource", "deleteCreated"}
         /\ inv.path = op.path
    \/ op.op = "moveInstance" /\ inv.inverse = "moveBack" /\ inv.path = op.to
         /\ inv.from = op.path
    \/ op.op = "deleteInstance" /\ inv.inverse = "restoreSubtree"
         /\ inv.path = Front(op.path)

(* What a consumer may upload as inverses: the right one, and ones that    *)
(* differ from it in their kind, their place or their property.            *)
Inverses(c) ==
    CASE c = "shop" -> {Undo("deleteCreated", <<"a">>, <<>>, "none"),
                        Undo("restoreProperty", <<"a">>, <<>>, "x"),
                        Undo("restoreProperty", <<"a">>, <<>>, "y")}
      [] c = "code" -> {Undo("restoreSource", <<"a", "s">>, <<>>, "none"),
                        Undo("deleteCreated", <<"a", "s">>, <<>>, "none"),
                        Undo("deleteCreated", <<"a">>, <<>>, "none")}
      [] c = "gate" -> {Undo("moveBack", <<"b">>, <<"a">>, "none"),
                        Undo("moveBack", <<"a">>, <<"b">>, "none"),
                        Undo("restoreSubtree", <<"b">>, <<>>, "none")}

-----------------------------------------------------------------------------
(* Plans *)

(* assertJournalMatchesChangeSet *)
MatchesChangeSet(entry, ops) ==
    \A k \in DOMAIN entry.applied :
       /\ entry.applied[k].index \in DOMAIN ops
       /\ entry.applied[k].operation = ops[entry.applied[k].index]

(* planRollback: whether a journal can be replayed at all. *)
Replayable(entry) ==
    /\ Len(entry.applied) = Len(entry.inverses)
    /\ entry.applied # <<>>
    /\ \A k \in 2..Len(entry.applied) : entry.applied[k - 1].index < entry.applied[k].index
    /\ \A k \in DOMAIN entry.applied :
          AssertInverts(entry.applied[k].operation, entry.inverses[k])

(* planRollback and rollbackDeliveryFor: the inverses, the last operation  *)
(* first.                                                                  *)
RollbackSteps(entry) ==
    Reverse([k \in DOMAIN entry.inverses |->
               [index |-> k, inverse |-> entry.inverses[k]]])

(* rollbackStatusOf, told the number of inverses or not. *)
RollbackStatusOf(outcomes, inverseCount) ==
    IF outcomes = <<>> THEN "failed"
    ELSE IF \A k \in DOMAIN outcomes : outcomes[k]
         THEN IF inverseCount \in {-1, Len(outcomes)} THEN "rolled_back" ELSE "partial"
         ELSE IF \E k \in DOMAIN outcomes : outcomes[k] THEN "partial" ELSE "failed"

(* journalStateOf: a result the host did not stamp is at best a partial    *)
(* one.                                                                    *)
JournalStateOf(r) ==
    IF r.rolledBack THEN "rolled_back"
    ELSE IF r.reported
         THEN IF RollbackStatusOf(r.result, -1) = "failed" THEN "rollback_failed"
              ELSE "rollback_partial"
         ELSE IF r.requested THEN "rollback_requested" ELSE "applied"

-----------------------------------------------------------------------------
(* The host's records *)

(* The last n of a list. *)
LastMessages(all, n) == SubSeq(all, 1 + (IF Len(all) > n THEN Len(all) - n ELSE 0), Len(all))

(* Two sets are approved and the console is full, or it is empty. *)
RelayJournalInit ==
    /\ host \in {"relay", "daemon"}
    /\ \E refused \in {{"gate"}, {"code"}, SetIds} :
          /\ proposals = [c \in SetIds |-> IF c \in refused THEN "rejected" ELSE "approved"]
          /\ said = IF refused = SetIds THEN 0 ELSE MaxConsole
    /\ ledger = <<>>
    /\ treeVersion = 0
    /\ reversals = {} /\ relayed = {}
    /\ undone = [c \in SetIds |-> {}]
    /\ console = LastMessages([k \in 1..said |-> k], ConsoleCap)

(* getJournal and journalIdTaken *)
InLedger(j) == {k \in DOMAIN ledger : ledger[k].id = j}
RecordOf(j) == CHOOSE k \in DOMAIN ledger : ledger[k].id = j

(* putJournal: past the cap the oldest goes, and its entry and result too. *)
PutJournal(record) ==
    LET all == Append(ledger, record)
    IN  ledger' = IF host = "relay" /\ Len(all) > LedgerCap THEN Tail(all) ELSE all

(* POST /v1/changesets/:id/result: the part that opens a journal. *)
ReportApply(c, j, v) ==
    /\ proposals[c] = "approved"
    /\ InLedger(j) = {}
    /\ v >= treeVersion
    /\ proposals' = [proposals EXCEPT ![c] = "settled"]
    /\ treeVersion' = v
    /\ PutJournal([id |-> j, set |-> c, before |-> treeVersion, after |-> v,
                   requested |-> FALSE, rolledBack |-> FALSE,
                   entry |-> NotUploaded, reported |-> FALSE, result |-> <<>>])
    /\ UNCHANGED <<host, reversals, relayed, undone, console, said>>

(* Newer proposals push a set out of the relay's store (putChangeSet).     *)
ProposalEvicted(c) ==
    /\ host = "relay" /\ proposals[c] = "settled"
    /\ proposals' = [proposals EXCEPT ![c] = "gone"]
    /\ UNCHANGED <<host, ledger, treeVersion, reversals, relayed, undone, console, said>>

(* POST /v1/journal/:id/entry, recordJournalEntry and putJournalEntry: the *)
(* apply it names is the one recorded, its operations are those that were  *)
(* approved, it can be replayed, and it is the first.                      *)
UploadEntry(j, c, before, after, entry) ==
    /\ InLedger(j) # {}
    /\ LET r == ledger[RecordOf(j)] IN
         /\ r.set = c /\ r.before = before /\ r.after = after
         /\ proposals[c] # "gone"
         /\ MatchesChangeSet(entry, ReversibleSets[c])
         /\ Replayable(entry) /\ after >= before
         /\ r.entry = NotUploaded
    /\ ledger' = [ledger EXCEPT ![RecordOf(j)].entry = entry]
    /\ UNCHANGED <<host, proposals, treeVersion, reversals, relayed, undone, console, said>>

(* POST /v1/journal/:id/rollback and planRollbackFor *)
DispatchReversal(j, expectedVersion) ==
    /\ InLedger(j) # {}
    /\ LET r == ledger[RecordOf(j)] IN
         /\ ~r.rolledBack
         /\ expectedVersion = treeVersion
         /\ r.entry # NotUploaded
         /\ reversals' = reversals \cup
              {[journal |-> j, set |-> r.set, expected |-> expectedVersion,
                restores |-> r.before, applied |-> r.entry.applied,
                steps |-> RollbackSteps(r.entry)]}
    /\ ledger' = [ledger EXCEPT ![RecordOf(j)].requested = TRUE]
    /\ UNCHANGED <<host, proposals, treeVersion, relayed, undone, console, said>>

(* The consumer replays a delivery, perhaps again: every step, as the      *)
(* shipped plugin does (Rollback.luau), or, as the protocol lets it, only  *)
(* the first of them.  It reports one outcome a step it tried and the      *)
(* version it is at afterwards.                                            *)
ReplaySteps(d, outcomes) ==
    LET n == Len(d.steps)
        worked == {k \in DOMAIN outcomes : outcomes[k]}
    IN  /\ d \in reversals
        /\ Len(outcomes) <= n
        /\ undone' = [undone EXCEPT ![d.set] =
              @ \cup {d.applied[d.steps[k].index].index : k \in worked}]
        /\ relayed' = relayed \cup
              {[journal |-> d.journal, set |-> d.set, outcomes |-> outcomes,
                version |-> IF Cardinality(worked) = n THEN d.restores
                            ELSE IF worked = {} THEN d.expected ELSE d.expected + 1]}
        /\ UNCHANGED <<host, proposals, ledger, treeVersion, reversals, console, said>>

(* The relay reads the outcomes without the count, the daemon with it. *)
CountGiven(r) == IF host = "daemon" THEN Len(r.entry.inverses) ELSE -1

(* POST /v1/journal/:id/rollback-result and recordRollbackResult: a result *)
(* replaces an earlier one, only a whole reversal is stamped, and the      *)
(* version is taken from the report.                                       *)
RecordReversal(a) ==
    /\ a \in relayed
    /\ InLedger(a.journal) # {}
    /\ LET r == ledger[RecordOf(a.journal)] IN
         /\ r.set = a.set
         /\ ~r.rolledBack
         /\ r.requested
         /\ r.entry # NotUploaded => Len(a.outcomes) =< Len(r.entry.inverses)
         /\ ledger' = [ledger EXCEPT ![RecordOf(a.journal)] =
              [r EXCEPT !.reported = TRUE, !.result = a.outcomes,
                        !.rolledBack = RollbackStatusOf(a.outcomes, CountGiven(r)) = "rolled_back"]]
    /\ treeVersion' = a.version
    /\ UNCHANGED <<host, proposals, reversals, relayed, undone, console, said>>

(* POST /v1/output and appendOutput; GET /v1/output and recentOutput. *)
AppendConsole(n) ==
    /\ console' = LastMessages(console \o [k \in 1..n |-> said + k], ConsoleCap)
    /\ said' = said + n
    /\ UNCHANGED <<host, proposals, ledger, treeVersion, reversals, relayed, undone>>
ConsoleTail == LastMessages(console, ConsoleRead)

-----------------------------------------------------------------------------
(* Uploads: at most two operations, each the set's own or another, with    *)
(* any inverses.                                                           *)
Named(c) ==
    [index : {1, 2}, operation : {Head(ReversibleSets[c]), Head(ReversibleSets["shop"])}]
      \cup {[index |-> k, operation |-> ReversibleSets[c][k]] : k \in DOMAIN ReversibleSets[c]}
Uploads(c) == [applied : BoundedSeq(Named(c), 2), inverses : BoundedSeq(Inverses(c), 2)]

RelayJournalNext ==
    \/ \E c \in SetIds, j \in {1, 2}, v \in 0..MaxTreeVersion :
          ReportApply(c, j, v)
    \/ \E c \in SetIds : ProposalEvicted(c)
    \/ \E r \in ToSet(ledger) :
          /\ r.entry = NotUploaded
          /\ \E entry \in Uploads(r.set) : UploadEntry(r.id, r.set, r.before, r.after, entry)
    \/ /\ Cardinality(reversals) < MaxReversals
       /\ \E j \in {1, 2}, v \in 0..MaxTreeVersion : DispatchReversal(j, v)
    \/ \E d \in reversals :
          /\ Cardinality(relayed) < MaxAnswers
          /\ \E outcomes \in BoundedSeq(BOOLEAN, 2) : ReplaySteps(d, outcomes)
    \/ \E a \in relayed : RecordReversal(a)
    \/ \E n \in {1, 2} : said + n =< MaxConsole /\ AppendConsole(n)

-----------------------------------------------------------------------------
Reversible(r) == {r.entry.applied[i].index : i \in DOMAIN r.entry.applied}

(* The operations a report speaks of: as many as it has outcomes, the last *)
(* ones of the set.                                                        *)
ReportedOn(r) ==
    {r.entry.applied[Len(r.entry.applied) - k + 1].index : k \in DOMAIN r.result}
StampCovers(h, r) == IF h = "daemon" THEN Reversible(r) ELSE ReportedOn(r)

(* A journal is stamped `rolledBackAt' only on a report that tells of no   *)
(* failure.  On the daemon, which counts, the stamp means that every       *)
(* operation the journal holds an inverse for is undone in the place; on   *)
(* the relay, which does not, only that those reported on are, at least    *)
(* one: a reversal that stopped short is stamped too                       *)
(* (recordRollbackResult of each).                                         *)
StampedWhenReversed ==
    \A r \in ToSet(ledger) : r.rolledBack =>
       r.result # <<>> /\ StampCovers(host, r) \subseteq undone[r.set]

(* What is said of a journal is true of the place: `rolled_back' as far as *)
(* the stamp goes, `rollback_partial' that some operation is undone,       *)
(* `applied' that nothing was undone or asked to be; although ids of       *)
(* evicted journals are used again, results replace one another and        *)
(* reports of older reversals come late.                                   *)
JournalTellsTheTruth ==
    /\ StampedWhenReversed
    /\ \A r \in ToSet(ledger) :
          /\ JournalStateOf(r) = "rollback_partial" => Reversible(r) \cap undone[r.set] # {}
          /\ JournalStateOf(r) = "applied" =>
                undone[r.set] = {} /\ \A d \in reversals : d.set # r.set

(* What is dispatched undoes operations of the approved set, each by the   *)
(* inverse that fits it, none twice, and a later one before an earlier     *)
(* one, whatever a consumer uploaded.                                      *)
DispatchedUndoesTheApproved ==
    \A d \in reversals :
       LET at(k) == d.applied[d.steps[k].index].index
           fits(op, inv) ==
              CASE op.op = "createInstance" -> inv = Undo("deleteCreated", op.path, <<>>, "none")
                [] op.op = "setProperty" ->
                      inv = Undo("restoreProperty", op.path, <<>>, op.property)
                [] op.op = "writeScript" -> inv.path = op.path
                [] op.op = "moveInstance" -> inv = Undo("moveBack", op.to, op.path, "none")
                [] op.op = "deleteInstance" ->
                      inv = Undo("restoreSubtree", Front(op.path), <<>>, "none")
       IN  /\ d.steps # <<>>
           /\ \A k \in DOMAIN d.steps : fits(ReversibleSets[d.set][at(k)], d.steps[k].inverse)
           /\ \A k, m \in DOMAIN d.steps : k < m => at(k) > at(m)

(* The journals a host keeps, and the reversals dispatched from them.      *)
ReversalsAreHonest ==
    /\ JournalTellsTheTruth
    /\ DispatchedUndoesTheApproved
    /\ \A k \in DOMAIN ConsoleTail : ConsoleTail[k] = said - Len(ConsoleTail) + k

RelayJournalSpec == RelayJournalInit /\ [][RelayJournalNext]_relayJournalVars
=============================================================================
