------------------------------ MODULE MCDaemon ------------------------------
(* Constants of the model-checking runs of Daemon. *)
EXTENDS Daemon, TLC

BulkDelete == [ops |-> 2, clears |-> TRUE, bulk |-> TRUE]
Unsafe == [ops |-> 1, clears |-> FALSE, bulk |-> FALSE]

MCContents == {BulkDelete, Unsafe}

(* Ids are opaque to the daemon: it only compares them. *)
IdSymmetry == Permutations(ChangeSetIds) \cup Permutations(JournalIds)
LinkSymmetry == Permutations(LinkIds)
=============================================================================
