------------------------------- MODULE Place --------------------------------
(***************************************************************************)
(* The place itself: instances under a service, the five operations as the *)
(* plugin carries them out (Apply.luau), the inverses it captures before   *)
(* each (Journal.luau), the daemon's check of the pairs (planRollback) and *)
(* the replay of the inverses (Rollback.luau).  The engine may refuse any  *)
(* write, up to MaxRefusals times.                                         *)
(***************************************************************************)
EXTENDS Naturals, Sequences, SequencesExt, FiniteSets, TLC

CONSTANTS
    Names,          \* names of instances
    MaxOps,         \* bound: operations in a ChangeSet
    MaxRefusals     \* bound: writes the engine refuses

VARIABLES
    tree,       \* instance |-> [parent, name, class, value, source]
    before,     \* the tree as the ChangeSet found it
    phase,      \* "apply", "reverse", or "thrown" when the replay raised an error
    pairs,      \* JournalEntry.applied with its inverses: <<[op, inverse]>>
    outcomes,   \* of the inverses replayed: <<[ok, whole, kept]>>
    refusals    \* writes the engine has refused

placeVars == <<tree, before, phase, pairs, outcomes, refusals>>

Service == 0
Nowhere == 999   \* no such instance
Paths == {<<n>> : n \in Names} \cup {<<m, n>> : m, n \in Names}

-----------------------------------------------------------------------------
(* Path.luau *)
FindFirstChild(p, i, n) ==
    LET found == {k \in DOMAIN p : p[k].parent = i /\ p[k].name = n}
    IN  IF found = {} THEN Nowhere ELSE CHOOSE k \in found : \A m \in found : k <= m
Resolve(p, path) ==
    FoldLeft(LAMBDA i, n : IF i = Nowhere THEN Nowhere ELSE FindFirstChild(p, i, n), Service, path)
ResolveParent(p, path) == Resolve(p, Front(path))

Ancestors(p, i) ==   \* itself included
    LET up[n \in Nat] == IF n = 0 THEN {i}
                         ELSE up[n - 1] \cup {p[k].parent : k \in up[n - 1] \cap DOMAIN p}
    IN  up[Cardinality(DOMAIN p)]
Subtree(p, i) == {k \in DOMAIN p : i \in Ancestors(p, k)}
Without(p, gone) == [k \in DOMAIN p \ gone |-> p[k]]
With(p, i, node) == [k \in DOMAIN p \cup {i} |-> IF k = i THEN node ELSE p[k]]
Fresh(p) == CHOOSE i \in 1 .. Cardinality(DOMAIN p) + 1 : i \notin DOMAIN p
PathOf(p, i) ==
    LET path[k \in DOMAIN p \cup {Service}] ==
            IF k = Service THEN <<>> ELSE Append(path[p[k].parent], p[k].name)
    IN  path[i]

(* Value.encode: what the protocol can carry of a property. *)
Encodable(v) == v # "opaque"

(* Journal.describeSubtree: what it could not encode is not in it. *)
Describe(p, i) ==
    [k \in Subtree(p, i) |->
        [p[k] EXCEPT !.value = IF Encodable(@) THEN @ ELSE "default"]]

(* Journal.capture *)
MoveBackSwapped(op) == [inverse |-> "moveBack", path |-> op.path, from |-> op.to]
MoveBack(op) == [inverse |-> "moveBack", path |-> op.to, from |-> op.path]
Capture(op, i) ==
    CASE op.op = "createInstance" \/ (op.op = "writeScript" /\ i = Nowhere) ->
            [inverse |-> "deleteCreated", path |-> op.path]
      [] op.op = "setProperty" ->
            [inverse |-> "restoreProperty", path |-> op.path, previous |-> tree[i].value]
      [] op.op = "writeScript" ->
            [inverse |-> "restoreSource", path |-> op.path, previous |-> tree[i].source]
      [] op.op = "moveInstance" -> MoveBack(op)
      [] op.op = "deleteInstance" ->
            [inverse |-> "restoreSubtree", parentPath |-> Front(op.path),
             top |-> i, serialised |-> Describe(tree, i)]

-----------------------------------------------------------------------------
(* An executor's answers: the tree after it, whether the operation counts  *)
(* as applied and as successful, and the writes refused on the way.        *)
ApplyRefused == [tree |-> tree, applied |-> FALSE, ok |-> FALSE, refused |-> 0]
Done(p) == [tree |-> p, applied |-> TRUE, ok |-> TRUE, refused |-> 0]
EngineRefuses == [tree |-> tree, applied |-> FALSE, ok |-> FALSE, refused |-> 1]

CreateInstance(op) ==
    LET parent == ResolveParent(tree, op.path)
    IN  IF parent = Nowhere \/ Resolve(tree, op.path) # Nowhere THEN {ApplyRefused}
        ELSE {EngineRefuses,
              Done(With(tree, Fresh(tree),
                        [parent |-> parent, name |-> Last(op.path), class |-> "Folder",
                         value |-> op.value, source |-> ""]))}

SetProperty(op) ==
    LET i == Resolve(tree, op.path)
    IN  IF i = Nowhere \/ ~Encodable(tree[i].value) THEN {ApplyRefused}
        ELSE {EngineRefuses, Done([tree EXCEPT ![i].value = op.value])}

WriteScript(op) ==
    LET parent == ResolveParent(tree, op.path)
        i == Resolve(tree, op.path)
    IN  IF parent = Nowhere \/ (i # Nowhere /\ tree[i].class # "Script") THEN {ApplyRefused}
        ELSE {EngineRefuses,
              Done(IF i # Nowhere THEN [tree EXCEPT ![i].source = op.source]
                   ELSE With(tree, Fresh(tree),
                             [parent |-> parent, name |-> Last(op.path), class |-> "Script",
                              value |-> "default", source |-> op.source]))}

(* Parent, then name: when the name is refused the instance is put back,   *)
(* if the engine lets it, and the inverse is journalled either way.        *)
MoveInstance(op) ==
    LET i == Resolve(tree, op.path)
        parent == ResolveParent(tree, op.to)
        occupant == Resolve(tree, op.to)
        stuck == [tree EXCEPT ![i].parent = parent]
        half(p, n) == [tree |-> p, applied |-> TRUE, ok |-> FALSE, refused |-> n]
    IN  IF i = Nowhere \/ parent = Nowhere \/ occupant \notin {Nowhere, i} \/ i \in Ancestors(tree, parent)
        THEN {ApplyRefused}
        ELSE {EngineRefuses, Done([stuck EXCEPT ![i].name = Last(op.to)])}
             \cup (IF tree[i].name = Last(op.to) THEN {} ELSE {half(tree, 1), half(stuck, 2)})

DeleteInstance(op) ==
    LET i == Resolve(tree, op.path)
    IN  IF i = Nowhere THEN {ApplyRefused}
        ELSE {EngineRefuses, Done(Without(tree, Subtree(tree, i)))}

Executed(op) ==
    CASE op.op = "createInstance" -> CreateInstance(op)
      [] op.op = "setProperty"    -> SetProperty(op)
      [] op.op = "writeScript"    -> WriteScript(op)
      [] op.op = "moveInstance"   -> MoveInstance(op)
      [] op.op = "deleteInstance" -> DeleteInstance(op)

Ops ==  [op : {"createInstance", "setProperty"}, path : Paths, value : {"set"}]
   \cup [op : {"writeScript"}, path : Paths, source : {"new"}]
   \cup [op : {"moveInstance"}, path : Paths, to : Paths]
   \cup [op : {"deleteInstance"}, path : Paths]

(* Apply.execute, one operation: the first that fails is the last tried.   *)
Attempt(op) ==
    /\ phase = "apply" /\ Len(pairs) < MaxOps
    /\ \E r \in Executed(op) :
        /\ refusals + r.refused <= MaxRefusals
        /\ refusals' = refusals + r.refused
        /\ tree' = r.tree
        /\ pairs' = IF r.applied
                    THEN Append(pairs, [op |-> op, inverse |-> Capture(op, Resolve(tree, op.path))])
                    ELSE pairs
        /\ phase' = IF r.ok THEN "apply" ELSE "reverse"
    /\ UNCHANGED <<before, outcomes>>

EndApply ==
    /\ phase = "apply" /\ pairs # <<>>
    /\ phase' = "reverse"
    /\ UNCHANGED <<tree, before, pairs, outcomes, refusals>>

-----------------------------------------------------------------------------
(* assertInverts in the daemon's rollback.ts *)
Inverts(op, inv) ==
    CASE op.op = "createInstance" -> inv.inverse = "deleteCreated" /\ inv.path = op.path
      [] op.op = "setProperty" -> inv.inverse = "restoreProperty" /\ inv.path = op.path
      [] op.op = "writeScript" ->
            inv.inverse \in {"restoreSource", "deleteCreated"} /\ inv.path = op.path
      [] op.op = "moveInstance" ->
            inv.inverse = "moveBack" /\ inv.path = op.to /\ inv.from = op.path
      [] op.op = "deleteInstance" ->
            inv.inverse = "restoreSubtree" /\ inv.parentPath = Front(op.path)

(* planRollback: the steps left, the last operation applied first. *)
NextStep == pairs[Len(pairs) - Len(outcomes)]

(* A replayer's answers.  "whole" is false when Journal.restoreSubtree     *)
(* returned the instance together with what it could not restore; "kept"   *)
(* is false when it lost a property and told nobody; "thrown" ends the     *)
(* replay, which nothing catches.                                          *)
Replayed(p) ==
    [tree |-> p, ok |-> TRUE, whole |-> TRUE, kept |-> TRUE, thrown |-> FALSE, refused |-> 0]
NotReplayed(n) == [Replayed(tree) EXCEPT !.ok = FALSE, !.refused = n]

DeleteCreated(inv) ==
    LET i == Resolve(tree, inv.path)
    IN  IF i = Nowhere THEN {NotReplayed(0)}
        ELSE {NotReplayed(1), Replayed(Without(tree, Subtree(tree, i)))}

RestoreProperty(inv) ==
    LET i == Resolve(tree, inv.path)
    IN  IF i = Nowhere THEN {NotReplayed(0)}
        ELSE {NotReplayed(1), Replayed([tree EXCEPT ![i].value = inv.previous])}

RestoreSource(inv) ==
    LET i == Resolve(tree, inv.path)
    IN  IF i = Nowhere THEN {NotReplayed(0)}
        ELSE {NotReplayed(1), Replayed([tree EXCEPT ![i].source = inv.previous])}

MoveBackReplayed(inv) ==
    LET i == Resolve(tree, inv.path)
        parent == ResolveParent(tree, inv.from)
        occupant == Resolve(tree, inv.from)
        reparented == [tree EXCEPT ![i].parent = parent]
    IN  IF i = Nowhere \/ parent = Nowhere \/ occupant \notin {Nowhere, i} THEN {NotReplayed(0)}
        ELSE {NotReplayed(1), Replayed([reparented EXCEPT ![i].name = Last(inv.from)])}
             \cup (IF tree[i].name = Last(inv.from) THEN {}
                   ELSE {[NotReplayed(1) EXCEPT !.tree = reparented]})

(* The rebuilt subtree gets new instances.  A script may come back without *)
(* its source and a child may not come back at all, which is collected; a  *)
(* property the engine refuses is skipped in silence, and a refused Name   *)
(* is an error that leaves the new instances outside the place.            *)
RestoreSubtree(inv) ==
    LET parent == Resolve(tree, inv.parentPath)
        top == inv.top
        was == inv.serialised
        base == 100 * (1 + Len(outcomes))
        new(k) == base + k
        rebuilt(lost, empty, bare) ==
            [i \in DOMAIN tree \cup {new(k) : k \in DOMAIN was \ lost} |->
                IF i \in DOMAIN tree THEN tree[i]
                ELSE LET k == i - base
                     IN  [was[k] EXCEPT !.parent = IF k = top THEN parent ELSE new(@),
                                        !.source = IF k \in empty THEN "" ELSE @,
                                        !.value = IF k \in bare THEN "default" ELSE @]]
        part(p) == [Replayed(p) EXCEPT !.whole = FALSE, !.refused = 1]
        silent(p) == [Replayed(p) EXCEPT !.kept = FALSE, !.refused = 1]
    IN  IF parent = Nowhere \/ FindFirstChild(tree, parent, was[top].name) # Nowhere
        THEN {NotReplayed(0)}
        ELSE {NotReplayed(1), [NotReplayed(1) EXCEPT !.thrown = TRUE], Replayed(rebuilt({}, {}, {}))}
             \cup {part(rebuilt({}, {k}, {})) : k \in {m \in DOMAIN was : was[m].source # ""}}
             \cup {part(rebuilt(Subtree(was, k), {}, {})) : k \in DOMAIN was \ {top}}
             \cup {silent(rebuilt({}, {}, {k})) : k \in {m \in DOMAIN was : was[m].value # "default"}}

ReplayAnswers(inv) ==
    CASE inv.inverse = "deleteCreated"   -> DeleteCreated(inv)
      [] inv.inverse = "restoreProperty" -> RestoreProperty(inv)
      [] inv.inverse = "restoreSource"   -> RestoreSource(inv)
      [] inv.inverse = "moveBack"        -> MoveBackReplayed(inv)
      [] inv.inverse = "restoreSubtree"  -> RestoreSubtree(inv)

(* Rollback.execute, one inverse: a failed one does not stop the next, an  *)
(* error does, and then nothing is reported.                               *)
Replay ==
    /\ phase = "reverse" /\ Len(outcomes) < Len(pairs)
    /\ \E r \in ReplayAnswers(NextStep.inverse) :
        /\ refusals + r.refused <= MaxRefusals
        /\ refusals' = refusals + r.refused
        /\ tree' = r.tree
        /\ outcomes' = IF r.thrown THEN outcomes
                       ELSE Append(outcomes, [ok |-> r.ok, whole |-> r.whole, kept |-> r.kept])
        /\ phase' = IF r.thrown THEN "thrown" ELSE phase
    /\ UNCHANGED <<before, pairs>>

-----------------------------------------------------------------------------
Node(parent, name, class, value, source) ==
    [parent |-> parent, name |-> name, class |-> class, value |-> value, source |-> source]
(* A folder, its value encodable or not, with a script in it. *)
InitialPlaces ==
    {1 :> Node(Service, n[1], "Folder", v, "") @@ 2 :> Node(1, n[2], "Script", "default", "old") :
        n \in {m \in Names \X Names : m[1] # m[2]}, v \in {"kept", "opaque"}}
PlaceInit ==
    /\ before \in InitialPlaces
    /\ tree = before
    /\ phase = "apply"
    /\ pairs = <<>> /\ outcomes = <<>>
    /\ refusals = 0

PlaceNext == (\E op \in Ops : Attempt(op)) \/ EndApply \/ Replay
PlaceSpec == PlaceInit /\ [][PlaceNext]_placeVars

-----------------------------------------------------------------------------
(* What of a tree a journal can hold: for each path, the class, the        *)
(* source and the value if it has a wire form.                             *)
Recordable(p) ==
    {[path |-> PathOf(p, i), class |-> p[i].class, source |-> p[i].source,
      value |-> IF Encodable(p[i].value) THEN p[i].value ELSE "default"] : i \in DOMAIN p}

FullyReversed == pairs # <<>> /\ Len(outcomes) = Len(pairs) /\ \A i \in DOMAIN outcomes : outcomes[i].ok

Shape(p) == {[path |-> n.path, class |-> n.class, source |-> n.source] : n \in Recordable(p)}

(* A reversal that reports every inverse replayed, and collected no        *)
(* failure inside a subtree, has put back every instance at its path with  *)
(* its class and its source, whatever the set did and wherever it stopped. *)
(* It has put back the values too, unless the engine refused one inside a  *)
(* rebuilt subtree: those refusals restoreSubtree swallows, and no report  *)
(* tells of them.  And what the plugin journals of a set that changed the  *)
(* tree is a journal the daemon agrees to replay.                          *)
ReversalRestores ==
    /\ FullyReversed /\ (\A i \in DOMAIN outcomes : outcomes[i].whole) =>
          /\ Shape(tree) = Shape(before)
          /\ (\A i \in DOMAIN outcomes : outcomes[i].kept) => Recordable(tree) = Recordable(before)
    /\ pairs = <<>> => tree = before
    /\ \A i \in DOMAIN pairs : Inverts(pairs[i].op, pairs[i].inverse)

(* Rollback.luau: everything reversed means the tree is where it was       *)
(* before the apply.                                                       *)
FullyReversedIsRestored == FullyReversed => Recordable(tree) = Recordable(before)
=============================================================================
