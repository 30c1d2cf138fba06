------------------------------- MODULE Stores -------------------------------
(***************************************************************************)
(* The daemon's store, twice: in memory (packages/daemon/src/store.ts) and *)
(* in SQLite (packages/storage-sqlite/src/store.ts).  Every call is made   *)
(* of both and the answers are compared.  A call touches one family of     *)
(* tables, so a behaviour exercises one family.                            *)
(*                                                                         *)
(* A JavaScript Map is a sequence in insertion order; a table is a set of  *)
(* rows.  Ids are numbers because SQLite orders them.                      *)
(***************************************************************************)
EXTENDS Naturals, Integers, Sequences, SequencesExt, FiniteSets, FiniteSetsExt

CONSTANTS
    Retention,   \* RETENTION of a queue, a buffer or the runs
    StoreIds,    \* ids of links, runs and documents
    MaxCalls     \* bound: calls

ASSUME StoresAssumption == Retention \in Nat \ {0} /\ StoreIds \subseteq Nat

VARIABLES
    family,    \* which tables
    mem,       \* the Maps of the one store
    sql,       \* the rows of the other
    answers,   \* what the two answered to the last call that answers at once
    now,       \* the clock both stores are given
    made       \* calls made

storesVars == <<family, mem, sql, answers, now, made>>

Absent == [id |-> 0]
Docs == {[body |-> 1], [body |-> 2]}
Families == {"links", "deliveries", "inbound", "output", "runs", "documents"}

(* Map.set keeps the place of a key that is there; the key is `id'. *)
MapHas(m, id) == \E i \in DOMAIN m : m[i].id = id
MapGet(m, id) == IF MapHas(m, id) THEN SelectSeq(m, LAMBDA r : r.id = id)[1] ELSE Absent
MapSet(m, r) ==
    IF MapHas(m, r.id) THEN [i \in DOMAIN m |-> IF m[i].id = r.id THEN r ELSE m[i]]
    ELSE Append(m, r)
MapDelete(m, id) == SelectSeq(m, LAMBDA r : r.id # id)
Newest(m) == SubSeq(m, (IF Len(m) > Retention THEN Len(m) - Retention ELSE 0) + 1, Len(m))

(* INSERT ... ON CONFLICT(id) DO UPDATE, and documentOf a row. *)
Upsert(t, row) == {r \in t : r.id # row.id} \cup {row}
Row(t, id) == CHOOSE r \in t : r.id = id
Document(t, id) == IF \E r \in t : r.id = id THEN Row(t, id).doc ELSE Absent

(* DELETE ... WHERE key NOT IN (SELECT key ... ORDER BY key DESC LIMIT n). *)
Trimmed(t, Key(_)) ==
    {r \in t : Cardinality({s \in t : Key(s) > Key(r)}) < Retention}

Call(m, s) ==
    /\ made < MaxCalls
    /\ made' = made + 1
    /\ mem' = m /\ sql' = s
    /\ UNCHANGED family
(* What the two answered: a document, a nonce, or whether they took it.    *)
Answers(a, z) == answers' = <<[it |-> a], [it |-> z]>> /\ UNCHANGED now
AnswersNothing == UNCHANGED <<answers, now>>

-----------------------------------------------------------------------------
(* Links: the row repeats the columns a query needs. *)
Link(id, state, created, seen) == [id |-> id, state |-> state, created |-> created, seen |-> seen]
LinkRow(link) ==
    [id |-> link.id, state |-> link.state, created |-> link.created, seen |-> link.seen, doc |-> link]
LastSeen(link) == IF link.seen = 0 THEN link.created ELSE link.seen   \* 0 is null

PutLink(id) ==
    LET link == Link(id, "paired", now, 0)
    IN  /\ family = "links"
        /\ Call(MapSet(mem, link), Upsert(sql, LinkRow(link)))
        /\ AnswersNothing

(* patchLink: each store patches the document it finds, if it finds one. *)
Patches == {"revoke", "see"}
Patched(link, patch) ==
    IF link = Absent THEN Absent
    ELSE IF patch = "revoke" THEN [link EXCEPT !.state = "revoked"]
    ELSE [link EXCEPT !.seen = now]
PatchRowDocument(link) == [Row(sql, link.id) EXCEPT !.doc = link]
PatchRow(link) == LinkRow(link)
PatchLink(id) ==
    /\ family = "links"
    /\ \E patch \in Patches :
          LET a == Patched(MapGet(mem, id), patch)
              z == Patched(Document(sql, id), patch)
          IN  /\ Call(IF a = Absent THEN mem ELSE MapSet(mem, a),
                      IF z = Absent THEN sql ELSE Upsert(sql, PatchRow(z)))
              /\ Answers(a, z)

Best(m) ==
    FoldLeft(LAMBDA best, link :
                 IF link.state # "paired" THEN best
                 ELSE IF best = Absent THEN link
                 ELSE IF LastSeen(link) >= LastSeen(best) THEN link ELSE best,
             Absent, m)
FindPairedLink(t) ==
    LET paired == {r \in t : r.state = "paired"}
        Before(r, s) == \/ LastSeen(r) < LastSeen(s)
                        \/ LastSeen(r) = LastSeen(s) /\ r.id < s.id
    IN  IF paired = {} THEN Absent
        ELSE (CHOOSE r \in paired : \A s \in paired \ {r} : Before(s, r)).doc

-----------------------------------------------------------------------------
(* Deliveries: mem.queue and mem.nonce, or the two tables. *)
EnqueueDelivery ==
    LET memNonce == mem.nonce + 1
        sqlNonce == sql.nonce + 1
    IN  /\ family = "deliveries"
        /\ Call([queue |-> Newest(Append(mem.queue, memNonce)), nonce |-> memNonce],
                [queue |-> Trimmed(sql.queue \cup {sqlNonce}, LAMBDA n : n), nonce |-> sqlNonce])
        /\ Answers(memNonce, sqlNonce)
NextDelivery(queue, since) ==
    LET later == SelectSeq(queue, LAMBDA n : n > since)
    IN  IF later = <<>> THEN 0 ELSE later[1]
FirstAfter(rows, since) ==
    LET later == {n \in rows : n > since}
    IN  IF later = {} THEN 0 ELSE CHOOSE n \in later : \A k \in later : n <= k

(* tryAdvanceInboundNonce: read and compare, or one conditional upsert. *)
TryAdvanceInboundNonce(nonce) ==
    LET memTakes == nonce >= 0 /\ nonce > mem
        sqlTakes == nonce > 0 /\ nonce > sql
    IN  /\ family = "inbound"
        /\ Call(IF memTakes THEN nonce ELSE mem, IF sqlTakes THEN nonce ELSE sql)
        /\ Answers(memTakes, sqlTakes)

-----------------------------------------------------------------------------
(* Console output: appended together, trimmed, read newest last. *)
AppendOutput(messages) ==
    LET new == {[seq |-> sql.seq + i, doc |-> messages[i]] : i \in DOMAIN messages}
    IN  /\ family = "output"
        /\ Call(Newest(mem \o messages),
                IF messages = <<>> THEN sql
                ELSE [rows |-> Trimmed(sql.rows \cup new, LAMBDA r : r.seq),
                      seq |-> sql.seq + Len(messages)])
        /\ AnswersNothing
RecentOutput(buffer, limit) ==
    SubSeq(buffer, (IF Len(buffer) > limit THEN Len(buffer) - limit ELSE 0) + 1, Len(buffer))
RecentRows(rows, limit) ==
    LET sorted == SetToSortSeq(rows, LAMBDA r, s : r.seq < s.seq)
    IN  [i \in DOMAIN RecentOutput(sorted, limit) |-> RecentOutput(sorted, limit)[i].doc]

(* Runs: deleted and set again, or touched. *)
MemRun(id, doc) == Newest(Append(MapDelete(mem, id), [id |-> id, doc |-> doc]))
RowRun(id, doc) ==
    LET touched == Max({0} \cup {r.touched : r \in sql}) + 1
    IN  Trimmed(Upsert(sql, [id |-> id, touched |-> touched, doc |-> doc]), LAMBDA r : r.touched)
PutRun(id, doc) ==
    /\ family = "runs"
    /\ Call(MemRun(id, doc), RowRun(id, doc))
    /\ AnswersNothing

(* ChangeSets, journals and journal entries: inserted once, then patched;  *)
(* versions, policies and results: the last write stays.                   *)
MemInsert(id, doc) == IF MapHas(mem, id) THEN mem ELSE Append(mem, [id |-> id, doc |-> doc])
RowInsert(id, doc) ==
    IF \E r \in sql : r.id = id THEN sql ELSE sql \cup {[id |-> id, doc |-> doc]}
InsertOnce(id, doc) ==
    /\ family = "documents"
    /\ Call(MemInsert(id, doc), RowInsert(id, doc))
    /\ Answers(MapHas(mem, id), \E r \in sql : r.id = id)

MemPatch(id, doc) == IF MapHas(mem, id) THEN MapSet(mem, [id |-> id, doc |-> doc]) ELSE mem
RowPatch(id, doc) ==
    IF \E r \in sql : r.id = id THEN Upsert(sql, [id |-> id, doc |-> doc]) ELSE sql
PatchDocument(id, doc) ==
    /\ family = "documents"
    /\ Call(MemPatch(id, doc), RowPatch(id, doc))
    /\ Answers(MapHas(mem, id), \E r \in sql : r.id = id)

MemPut(id, doc) == MapSet(mem, [id |-> id, doc |-> doc])
RowPut(id, doc) == Upsert(sql, [id |-> id, doc |-> doc])
PutDocument(id, doc) ==
    /\ family = "documents"
    /\ Call(MemPut(id, doc), RowPut(id, doc))
    /\ AnswersNothing

StoreClock ==
    /\ family = "links" /\ now < 3
    /\ now' = now + 1
    /\ UNCHANGED <<family, mem, sql, answers, made>>

StoresInit ==
    /\ family \in Families
    /\ mem = CASE family = "deliveries" -> [queue |-> <<>>, nonce |-> 0]
               [] family = "inbound" -> 0
               [] OTHER -> <<>>
    /\ sql = CASE family = "deliveries" -> [queue |-> {}, nonce |-> 0]
               [] family = "inbound" -> 0
               [] family = "output" -> [rows |-> {}, seq |-> 0]
               [] OTHER -> {}
    /\ answers = <<Absent, Absent>>
    /\ now = 1
    /\ made = 0

StoresNext ==
    \/ \E id \in StoreIds : PutLink(id) \/ PatchLink(id)
    \/ EnqueueDelivery
    \/ \E nonce \in -1 .. 3 : TryAdvanceInboundNonce(nonce)
    \/ \E messages \in {<<>>, <<1>>, <<2, 3>>, <<1, 2, 3>>} : AppendOutput(messages)
    \/ \E id \in StoreIds, doc \in Docs :
          PutRun(id, doc) \/ InsertOnce(id, doc) \/ PatchDocument(id, doc) \/ PutDocument(id, doc)
    \/ StoreClock

StoresSpec == StoresInit /\ [][StoresNext]_storesVars

-----------------------------------------------------------------------------
(* Whatever was called, the two stores answer these reads alike: the same  *)
(* document for an id, the same next delivery after any cursor, the same   *)
(* recent output, the same survivors of retention, the same refusals (the  *)
(* order in which listLinks tells the links is not compared, nor is the    *)
(* status column that a row of a ChangeSet has besides its document).      *)
(* Only between links last seen at the same moment may they choose         *)
(* differently (store.ts:290 takes the later pairing, SQLite the greater   *)
(* id).                                                                    *)
StoresAgree ==
    /\ answers[1] = answers[2]
    /\ family \in {"links", "runs", "documents"} =>
          \A id \in StoreIds :
             Document(sql, id) =
                IF family = "links" \/ ~MapHas(mem, id) THEN MapGet(mem, id) ELSE MapGet(mem, id).doc
    /\ family = "links" =>
          LET a == Best(mem)
              b == FindPairedLink(sql)
          IN  /\ (a = Absent) = (b = Absent)
              /\ a # Absent => LastSeen(a) = LastSeen(b) /\ b.state = "paired"
    /\ family = "deliveries" =>
          \A since \in 0 .. MaxCalls :
             NextDelivery(mem.queue, since) = FirstAfter(sql.queue, since)
    /\ family = "inbound" => mem = sql
    /\ family = "output" =>
          \A limit \in 0 .. Retention + 1 : RecentOutput(mem, limit) = RecentRows(sql.rows, limit)
=============================================================================
