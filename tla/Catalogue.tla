----------------------------- MODULE Catalogue ------------------------------
(***************************************************************************)
(* The model catalogue: the script that keeps the committed snapshot       *)
(* (scripts/sync-catalog.ts) and the registry that reads it                *)
(* (packages/model-registry).  The live listing changes while it is read   *)
(* page by page, the endpoint may or may not page, say how many models     *)
(* there are, or heed an offset, and a person edits scores and details in  *)
(* the snapshot between two syncs.                                         *)
(*                                                                         *)
(* A listed model is [id, raw]; raw keeps what the rules read: the two     *)
(* token prices and the charge per other unit as strings of one of five    *)
(* kinds, the output modalities, the capabilities, the context window.     *)
(***************************************************************************)
EXTENDS Integers, Sequences, FiniteSets, SequencesExt

CONSTANTS
    Listings,       \* the listings a behaviour may begin with
    RawModels,      \* what a model may be listed as
    Endpoints,      \* how the endpoint behaves: [pages, total, offset]
    PageLength,     \* models on a page of an endpoint that pages
    MaxPages, FetchAttempts,
    ThresholdWeeks, \* STALENESS_THRESHOLD_DAYS, in weeks
    MaxRelisted, MaxSyncs, MaxEdits, MaxWeeks   \* bounds

VARIABLES
    listing,    \* the live catalogue, a sequence of [id, raw]
    endpoint,
    snapshot,   \* the committed file, or NoSnapshot
    sync,       \* the sync under way, or NoSync
    syncOutcome,    \* how the sync ended that ended last, until the world moves on
    week,       \* the clock
    counts,     \* bounds: relistings, syncs and edits so far
    settledOn,  \* history: the models the last successful sync read
    lastGood    \* history: when a sync last ended well, -1: never

catalogueVars ==
    <<listing, endpoint, snapshot, sync, syncOutcome, week, counts, settledOn, lastGood>>

NoSnapshot == [total |-> -1]
NoSync == [stage |-> "idle"]
NoTotal == -1
NotRead == {}
Unscored == -1

CatalogueInit ==
    /\ listing = <<>>
    /\ endpoint \in {e \in Endpoints : ~e.pages /\ ~e.total /\ e.offset}
    /\ snapshot = NoSnapshot
    /\ sync = NoSync /\ syncOutcome = "none"
    /\ week = 0
    /\ counts = [relisted |-> 0, syncs |-> 0, edits |-> 0]
    /\ settledOn = NotRead /\ lastGood = -1

-----------------------------------------------------------------------------
(* What a listed model's prices say.  "blank" is the empty string: Number  *)
(* reads it as zero and perMillion does not read it.                       *)

PerMillion(price) ==
    CASE price \in {"zero", "absent"} -> 0 [] price = "paid" -> 1 [] OTHER -> -1
IsZeroPrice(price) == price \in {"zero", "blank"}
NonTokenChargeUsd(raw) == IF raw.charge = "paid" THEN 1 ELSE 0
NonTokenCharges(raw) == raw.charge \notin {"absent", "zero", "blank"}

(* A price that cannot be read costs the catalogue this model only. *)
Derivable(raw) == PerMillion(raw.prompt) # -1 /\ PerMillion(raw.completion) # -1
DeriveFree(raw) ==
    /\ NonTokenChargeUsd(raw) = 0
    /\ PerMillion(raw.prompt) = 0 /\ PerMillion(raw.completion) = 0
    /\ raw.out = {"text"}

VerdictFree(raw) == Derivable(raw) /\ DeriveFree(raw)

BuildEntry(item, benchmark) ==
    [id |-> item.id, capabilities |-> item.raw.capabilities, out |-> item.raw.out,
     context |-> item.raw.context, coding |-> benchmark]

CarriedBenchmark(previous, id) ==
    IF \E i \in 1..Len(previous.models) : previous.models[i].id = id
    THEN (CHOOSE e \in ToSet(previous.models) : e.id = id).coding
    ELSE Unscored

Excluded(item) ==
    IF VerdictFree(item.raw)
    THEN [id |-> item.id, reason |-> "no-tool-calling", detail |-> "generated"]
    ELSE [id |-> item.id, reason |-> "per-unit-pricing",
          detail |-> IF NonTokenCharges(item.raw) THEN "billed" ELSE "rejected"]
ForgetEditorialDetail(previous, entry) == entry
KeepEditorialDetail(previous, entry) ==
    LET existing == {e \in ToSet(previous.excluded) : e.id = entry.id /\ e.reason = entry.reason}
    IN IF existing = {} THEN entry ELSE [entry EXCEPT !.detail = (CHOOSE e \in existing : TRUE).detail]

(* Best coding score first, unscored last, ties by id. *)
OrderModels(entries) ==
    SetToSortSeq(entries, LAMBDA a, b :
        IF a.coding # b.coding THEN a.coding > b.coding ELSE a.id < b.id)
OrderExcluded(entries) == SetToSortSeq(entries, LAMBDA a, b : a.id < b.id)

NothingBefore == [total |-> 0, models |-> <<>>, excluded |-> <<>>]
ClassifyModels(items, before) ==
    LET previous == IF before = NoSnapshot THEN NothingBefore ELSE before
        free == {i \in items : VerdictFree(i.raw)}
        tempting == {i \in items \ free : IsZeroPrice(i.raw.prompt) /\ IsZeroPrice(i.raw.completion)}
        offered == {i \in free : "tools" \in i.raw.capabilities}
    IN [total |-> Cardinality(items),
        models |-> OrderModels({BuildEntry(i, CarriedBenchmark(previous, i.id)) : i \in offered}),
        excluded |-> OrderExcluded({KeepEditorialDetail(previous, Excluded(i)) :
                                    i \in (free \ offered) \cup tempting})]

(* The schema the registry reads the file with: an entry has a context     *)
(* window and at least one modality.                                       *)
Loadable(catalog) ==
    \A e \in ToSet(catalog.models) : e.context > 0 /\ e.out # {}

(* What the weekly change request would say changed. *)
Ids(entries) == {e.id : e \in ToSet(entries)}
EntryOf(entries, id) == CHOOSE e \in ToSet(entries) : e.id = id
DiffCatalogs(before, next) ==
    LET previous == IF before = NoSnapshot THEN NothingBefore ELSE before
        added == Ids(next.models) \ Ids(previous.models)
        removed == Ids(previous.models) \ Ids(next.models)
        stayed == Ids(next.models) \cap Ids(previous.models)
        Differs(id, Field(_)) ==
            Field(EntryOf(previous.models, id)) # Field(EntryOf(next.models, id))
    IN [added |-> added, removed |-> removed,
        capability |-> {id \in stayed : Differs(id, LAMBDA e : <<e.capabilities, e.out>>)},
        other |-> {id \in stayed : Differs(id, LAMBDA e : <<e.context, e.coding>>)},
        excluded |-> {id \in Ids(next.excluded) :
                        id \in Ids(previous.excluded) =>
                            EntryOf(previous.excluded, id).reason # EntryOf(next.excluded, id).reason},
        noLongerExcluded |-> Ids(previous.excluded) \ Ids(next.excluded),
        size |-> before # NoSnapshot /\ previous.total # next.total,
        reordered |-> /\ before # NoSnapshot /\ added = {} /\ removed = {}
                      /\ [i \in 1..Len(previous.models) |-> previous.models[i].id]
                           # [i \in 1..Len(next.models) |-> next.models[i].id]]
NoDrift ==
    [added |-> {}, removed |-> {}, capability |-> {}, other |-> {}, excluded |-> {},
     noLongerExcluded |-> {}, size |-> FALSE, reordered |-> FALSE]

-----------------------------------------------------------------------------
(* The sync *)

EndsAs(how) ==
    /\ sync' = NoSync /\ syncOutcome' = how
    /\ UNCHANGED <<listing, endpoint, week, counts>>
SyncRefused(how) == EndsAs(how) /\ UNCHANGED <<snapshot, settledOn, lastGood>>

(* run: the options, the committed snapshot as it is now. *)
SyncStarts(check, allowShrink) ==
    /\ sync = NoSync /\ listing # <<>> /\ counts.syncs < MaxSyncs
    /\ counts' = [counts EXCEPT !.syncs = @ + 1]
    /\ IF check /\ snapshot = NoSnapshot
       THEN sync' = sync /\ syncOutcome' = "refused"
       ELSE /\ sync' = [stage |-> "reading", check |-> check, allowShrink |-> allowShrink,
                        previous |-> snapshot, collected |-> <<>>, total |-> NoTotal,
                        pages |-> 0, attempts |-> 0,
                        stood |-> ToSet(listing), moves |-> {}]
            /\ syncOutcome' = "none"
    /\ UNCHANGED <<listing, endpoint, snapshot, week, settledOn, lastGood>>

(* fetchPage: a timeout, a 429 or a 5xx is tried again; any other refusal  *)
(* and an answer without data or with a model without an id are final.     *)
PageFails(retryable) ==
    /\ sync.stage = "reading"
    /\ IF retryable /\ sync.attempts + 1 < FetchAttempts
       THEN /\ sync' = [sync EXCEPT !.attempts = @ + 1]
            /\ UNCHANGED <<listing, endpoint, snapshot, syncOutcome, week, counts,
                           settledOn, lastGood>>
       ELSE SyncRefused("failed")

(* The answer of the endpoint, external: from the offset if it heeds it,   *)
(* a page of it if it pages.                                               *)
EndpointPage(offset) ==
    LET rest == IF endpoint.offset THEN SubSeq(listing, offset + 1, Len(listing)) ELSE listing
    IN IF endpoint.pages /\ Len(rest) > PageLength THEN SubSeq(rest, 1, PageLength) ELSE rest
ReportedTotal == IF endpoint.total THEN Len(listing) ELSE NoTotal

(* Whether the pages read so far are all there is to read; a page that     *)
(* brings nothing new while more are promised is refused.                  *)
IsComplete(collected, total) ==
    /\ collected # <<>>
    /\ total # NoTotal => Len(collected) = total
LastPage(data, collected, total, pages) ==
    data = <<>> \/ total = NoTotal \/ Len(collected) >= total \/ pages = MaxPages

PageArrives ==
    /\ sync.stage = "reading"
    /\ LET data == EndpointPage(Len(sync.collected))
           total == IF ReportedTotal = NoTotal THEN sync.total ELSE ReportedTotal
           new == SelectSeq(data, LAMBDA m : \A i \in 1..Len(sync.collected) :
                                                sync.collected[i].id # m.id)
           collected == sync.collected \o new
           pages == sync.pages + 1
       IN IF ReportedTotal # NoTotal /\ sync.total \notin {NoTotal, ReportedTotal}
          THEN SyncRefused("failed")
          ELSE IF LastPage(data, collected, total, pages)
          THEN IF IsComplete(collected, total)
               THEN /\ sync' = [sync EXCEPT !.stage = "read", !.collected = collected,
                                            !.attempts = 0]
                    /\ UNCHANGED <<listing, endpoint, snapshot, syncOutcome, week, counts,
                                   settledOn, lastGood>>
               ELSE SyncRefused("failed")
          ELSE IF new = <<>> THEN SyncRefused("failed")
          ELSE /\ sync' = [sync EXCEPT !.collected = collected, !.total = total,
                                       !.pages = pages, !.attempts = 0]
               /\ UNCHANGED <<listing, endpoint, snapshot, syncOutcome, week, counts,
                              settledOn, lastGood>>

(* A fifth of the models gone is taken for a truncated read. *)
Shrunk(items) ==
    /\ sync.previous # NoSnapshot /\ ~sync.allowShrink
    /\ Len(items) * 5 < sync.previous.total * 4

(* The rest of run has no await until the file is written.  Nothing        *)
(* changed means nothing written; --check never writes.                    *)
SyncEnds ==
    /\ sync.stage = "read"
    /\ LET items == ToSet(sync.collected)
           catalog == ClassifyModels(items, sync.previous)
           unchanged == /\ sync.previous # NoSnapshot
                        /\ catalog @@ [syncedAt |-> sync.previous.syncedAt] = sync.previous
       IN IF Shrunk(sync.collected) \/ ~Loadable(catalog) THEN SyncRefused("refused")
          ELSE IF sync.check /\ ~unchanged THEN SyncRefused("stale")
          ELSE /\ EndsAs(IF unchanged THEN "current" ELSE "wrote")
               /\ snapshot' = IF unchanged THEN snapshot ELSE catalog @@ [syncedAt |-> week]
               /\ settledOn' = items /\ lastGood' = week

-----------------------------------------------------------------------------
(* The world around it *)

(* A behaviour's listing and the endpoint that serves it. *)
CatalogueOpens ==
    /\ listing = <<>>
    /\ listing' \in Listings /\ endpoint' \in Endpoints
    /\ UNCHANGED <<snapshot, sync, syncOutcome, week, counts, settledOn, lastGood>>

(* A model is withdrawn, listed anew at the end, or listed differently, or *)
(* one makes room for another; a sync under way notices nothing of it.     *)
NewId == 1 + Max({listing[i].id : i \in 1..Len(listing)} \cup {3})
Moved(kinds) ==
    sync' = IF sync = NoSync THEN sync
            ELSE [sync EXCEPT !.stood = @ \cap ToSet(listing'), !.moves = @ \cup kinds]
Relisted ==
    /\ listing # <<>> /\ counts.relisted < MaxRelisted
    /\ counts' = [counts EXCEPT !.relisted = @ + 1]
    /\ \/ \E i \in 1..Len(listing) : listing' = RemoveAt(listing, i) /\ Moved({"withdrawn"})
       \/ \E i \in 1..Len(listing), raw \in RawModels :
            /\ raw # listing[i].raw
            /\ listing' = [listing EXCEPT ![i].raw = raw] /\ Moved({"changed"})
       \/ \E raw \in RawModels :
            listing' = Append(listing, [id |-> NewId, raw |-> raw]) /\ Moved({"added"})
       \/ \E i \in 1..Len(listing) :
            /\ listing' = Append(RemoveAt(listing, i), [listing[i] EXCEPT !.id = NewId])
            /\ Moved({"withdrawn", "added"})
    /\ listing' # <<>>
    /\ syncOutcome' = "none"
    /\ UNCHANGED <<endpoint, snapshot, week, settledOn, lastGood>>

(* Between syncs a person scores a model, or writes an exclusion's detail. *)
Edited ==
    /\ sync = NoSync /\ snapshot # NoSnapshot /\ counts.edits < MaxEdits
    /\ counts' = [counts EXCEPT !.edits = @ + 1]
    /\ \/ \E i \in 1..Len(snapshot.models), score \in 1..2 :
            snapshot' = [snapshot EXCEPT !.models[i].coding = score]
       \/ \E i \in 1..Len(snapshot.excluded) :
            snapshot' = [snapshot EXCEPT !.excluded[i].detail = "editorial"]
    /\ settledOn' = NotRead
    /\ syncOutcome' = "none"
    /\ UNCHANGED <<listing, endpoint, sync, week, lastGood>>

WeekPasses ==
    /\ sync = NoSync /\ listing # <<>> /\ week < MaxWeeks
    /\ week' = week + 1
    /\ syncOutcome' = "none"
    /\ UNCHANGED <<listing, endpoint, snapshot, sync, counts, settledOn, lastGood>>

CatalogueNext ==
    \/ CatalogueOpens
    \/ \E check, allowShrink \in BOOLEAN : SyncStarts(check, allowShrink)
    \/ \E retryable \in BOOLEAN : PageFails(retryable)
    \/ PageArrives
    \/ SyncEnds
    \/ Relisted
    \/ Edited
    \/ WeekPasses

CatalogueSpec == CatalogueInit /\ [][CatalogueNext]_catalogueVars

-----------------------------------------------------------------------------
(* What a process that loads the snapshot now is told by the registry *)

(* Best first by a score, unscored last, ties in catalogue order. *)
Rank(models) ==
    LET places == SetToSortSeq(1..Len(models), LAMBDA i, j :
                    IF models[i].coding # models[j].coding
                    THEN models[i].coding > models[j].coding ELSE i < j)
    IN [k \in 1..Len(models) |-> models[places[k]]]

Stale == snapshot # NoSnapshot /\ week - snapshot.syncedAt > ThresholdWeeks

-----------------------------------------------------------------------------
(***************************************************************************)
(* What a sync promises, at the moment it ends.                            *)
(***************************************************************************)
(* A snapshot is only written from the whole listing, although it changes  *)
(* while it is read, if an endpoint that pages says how many models there  *)
(* are: every model that was listed from the beginning of the sync to its  *)
(* end and looks free is offered or left out with a reason.  Excepted are  *)
(* a withdrawal and an addition during the same sync: the pages shift, the *)
(* number stays the same, and a model may be skipped (fetchFullCatalog,    *)
(* classifyModels).                                                        *)
WritesAreWhole ==
    syncOutcome' = "wrote" /\ (endpoint.pages => endpoint.total) =>
        /\ sync.moves = {} => snapshot'.total = Len(listing)
        /\ \A m \in sync.stood :
             LET zero == PerMillion(m.raw.prompt) = 0 /\ PerMillion(m.raw.completion) = 0
             IN /\ zero /\ IsZeroPrice(m.raw.prompt) /\ IsZeroPrice(m.raw.completion) =>
                     \/ m.id \in Ids(snapshot'.models) \cup Ids(snapshot'.excluded)
                     \/ {"withdrawn", "added"} \subseteq sync.moves
                /\ m.id \in Ids(snapshot'.models) =>
                     zero /\ m.raw.charge # "paid" /\ m.raw.out = {"text"}

(* What the last successful sync read, read again in any order, changes    *)
(* nothing: the weekly comparison is empty when nothing happened.          *)
QuietWeeksWriteNothing ==
    sync.stage = "read" /\ sync' = NoSync /\ settledOn = ToSet(sync.collected)
        => syncOutcome' = "current" /\ snapshot' = snapshot

(* A snapshot that is written over another says what changed, and keeps    *)
(* what a person wrote for as long as the model it is about stays in the   *)
(* same list for the same reason.                                          *)
ChangesAreTold ==
    syncOutcome' = "wrote" /\ syncOutcome # "wrote" /\ snapshot # NoSnapshot =>
        /\ DiffCatalogs(snapshot, snapshot') # NoDrift
        /\ \A old \in ToSet(snapshot.excluded), new \in ToSet(snapshot'.excluded) :
             old.id = new.id /\ old.reason = new.reason => new.detail = old.detail
        /\ \A old \in ToSet(snapshot.models), new \in ToSet(snapshot'.models) :
             old.id = new.id => new.coding = old.coding
        /\ Rank(snapshot'.models) = snapshot'.models

(* A catalogue no sync has found right for longer than the threshold is    *)
(* never presented as current.  (The converse does not hold: a sync that   *)
(* finds nothing changed leaves the date alone.)                           *)
AbandonedIsStale ==
    snapshot # NoSnapshot /\ week - lastGood > ThresholdWeeks => Stale

(* The four together, of every step. *)
CatalogueKeepsItsWord ==
    [][/\ AbandonedIsStale'
       /\ sync # NoSync => /\ WritesAreWhole
                           /\ QuietWeeksWriteNothing
                           /\ ChangesAreTold]_catalogueVars
=============================================================================
