---------------------------- MODULE MCGeneration ----------------------------
(* Constants of the model-checking runs of Generation: two models of one   *)
(* provider and one of another.                                            *)
EXTENDS Generation, TLC

CONSTANTS m1, m2, m3, p1, p2

MCProviderOf == [m \in Models |-> IF m = m3 THEN p2 ELSE p1]
MCOrders == {<<>>, <<m1>>, <<m1, m2>>, <<m1, m3, m2>>}
MCReports == Reported \ {"timeout", "context-exceeded", "capability-missing"}

RunSymmetry == Permutations(ModelRuns)
=============================================================================
