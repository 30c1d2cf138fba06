------------------------------- MODULE Policy -------------------------------
(***************************************************************************)
(* The vocabulary of the protocol and the project policy check             *)
(* (packages/protocol/src/operation.ts, packages/core/src/policy.ts).      *)
(*                                                                         *)
(* A path is the sequence of its segments.  An operation is a record: its  *)
(* kind, its path, the target of a move, the paths its property values     *)
(* refer to, and what it carries at a script's Source ("none", a readable  *)
(* "text", or something "unreadable").  A policy has allowed prefixes,     *)
(* among them possibly malformed ones, and an automatic approval that is   *)
(* None or limited to one prefix.                                          *)
(***************************************************************************)
EXTENDS Naturals, Sequences, FiniteSets

CONSTANTS
    ServiceRoots,           \* segments a path may begin with
    SafeNames,              \* segments that are safe identifiers
    MaxPathDepth,
    MaxOperations,
    BulkDeleteThreshold,
    None

-----------------------------------------------------------------------------
(* Operations.                                                             *)

IsInstancePath(path) ==
    /\ Len(path) \in 1..MaxPathDepth
    /\ \A i \in DOMAIN path : path[i] \in SafeNames
    /\ path[1] \in ServiceRoots

(* The path is the prefix or lies beneath it, segment by segment. *)
IsWithin(path, prefix) ==
    \/ path = prefix
    \/ /\ Len(path) > Len(prefix)
       /\ \A i \in DOMAIN prefix : path[i] = prefix[i]

(* Only a move has a target, only values refer to other paths, and only    *)
(* three kinds of operation carry a Source.                                *)
IsOperation(o) ==
    /\ o.path \in Seq(STRING)
    /\ IF o.op = "moveInstance" THEN o.to \in Seq(STRING) ELSE o.to = <<>>
    /\ IF o.op \in {"setProperty", "createInstance"} THEN o.refs \subseteq Seq(STRING) ELSE o.refs = {}
    /\ o.source = "text" => o.op \in {"writeScript", "setProperty", "createInstance"}

(* Every path an operation touches, those inside its values included. *)
PathsOf(o) ==
    {o.path}
      \cup (IF o.op = "moveInstance" THEN {o.to} ELSE {})
      \cup (IF o.op \in {"setProperty", "createInstance"} THEN o.refs ELSE {})

(* An operation that installs Luau an analyser can read. *)
HasLuauSource(o) ==
    /\ o.op \in {"writeScript", "setProperty", "createInstance"}
    /\ o.source = "text"

DeletionCount(ops) ==
    Cardinality({i \in DOMAIN ops : ops[i].op = "deleteInstance"})

(* What the ChangeSet schema accepts: a bounded list of operations on      *)
(* valid paths, none of which deletes a path an earlier one addressed.     *)
Parses(ops) ==
    /\ Len(ops) \in 1..MaxOperations
    /\ \A i \in DOMAIN ops : \A p \in PathsOf(ops[i]) : IsInstancePath(p)
    /\ \A i, j \in DOMAIN ops :
          (i < j /\ ops[j].op = "deleteInstance") => ops[i].path # ops[j].path

-----------------------------------------------------------------------------
(* The policy check.                                                       *)

IsPolicy(policy) ==
    policy.prefixes \subseteq Seq(STRING) /\ policy.autoApply \in Seq(STRING) \cup {None}

DenyAllPolicy == [prefixes |-> {}, autoApply |-> None]

UsablePrefixes(policy) == {p \in policy.prefixes : IsInstancePath(p)}

WithinAny(path, prefixes) == \E p \in prefixes : IsWithin(path, p)

(* A malformed prefix, no usable prefix, or a path outside all of them.    *)
HasViolations(ops, policy) ==
    \/ UsablePrefixes(policy) # policy.prefixes
    \/ UsablePrefixes(policy) = {}
    \/ \E i \in DOMAIN ops : \E p \in PathsOf(ops[i]) :
          ~WithinAny(p, UsablePrefixes(policy))

(* A slip: deletions are left to the confirmation threshold. *)
AutoApplyDespiteDeletions(ops, policy) ==
    /\ policy.autoApply # None
    /\ ~HasViolations(ops, policy)
    /\ \A i \in DOMAIN ops : \A p \in PathsOf(ops[i]) : IsWithin(p, policy.autoApply)

AutoApplyEligible(ops, policy) ==
    /\ policy.autoApply # None
    /\ ~HasViolations(ops, policy)
    /\ IsInstancePath(policy.autoApply)
    /\ WithinAny(policy.autoApply, UsablePrefixes(policy))
    /\ \A i \in DOMAIN ops : ops[i].op # "deleteInstance"
    /\ \A i \in DOMAIN ops : \A p \in PathsOf(ops[i]) : IsWithin(p, policy.autoApply)

CheckPolicy(ops, policy) ==
    [ok |-> ~HasViolations(ops, policy),
     requiresConfirmation |-> DeletionCount(ops) > BulkDeleteThreshold,
     autoApply |-> AutoApplyEligible(ops, policy)]
=============================================================================
