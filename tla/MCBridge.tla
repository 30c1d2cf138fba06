------------------------------ MODULE MCBridge ------------------------------
(* Constants of the model-checking runs of Bridge. *)
EXTENDS Bridge, TLC

Edit == [ops |-> 2, clears |-> TRUE, bulk |-> FALSE]
SmallEdit == [ops |-> 1, clears |-> TRUE, bulk |-> FALSE]

MCContents == {Edit}
MCSmallContents == {SmallEdit}
MCBothContents == {Edit, SmallEdit}

Quiet == [sets |-> ChangeSetIds, contents |-> Contents, lossy |-> FALSE,
          timeouts |-> FALSE, rollbacks |-> TRUE, reconnects |-> FALSE,
          missedWrites |-> FALSE, restarts |-> {}, reports |-> MaxReports,
          deliveries |-> MaxDeliveries]
StudioFails ==
    [Quiet EXCEPT !.sets = {CHOOSE s \in ChangeSetIds : TRUE}, !.contents = {Edit},
                  !.timeouts = TRUE, !.missedWrites = TRUE, !.restarts = {"studio"},
                  !.reports = 4]
NetworkFails ==
    [Quiet EXCEPT !.contents = {SmallEdit}, !.lossy = TRUE, !.timeouts = TRUE,
                  !.rollbacks = FALSE, !.reconnects = TRUE, !.restarts = {"daemon"},
                  !.deliveries = 2]

MCQuiet == {Quiet}
MCFaults == {StudioFails, NetworkFails}

IdSymmetry == Permutations(ChangeSetIds) \cup Permutations(JournalIds)
=============================================================================
