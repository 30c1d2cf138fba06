----------------------------- MODULE AtMostOnce -----------------------------
(***************************************************************************)
(* What the run pipeline promises about a ChangeSet, whoever calls it and  *)
(* in whatever order: it is proposed once, claimed at most once while it   *)
(* is open, and handed to a consumer at most once, after it was claimed.   *)
(***************************************************************************)
EXTENDS Naturals

CONSTANT Sets

VARIABLES
    proposed,       \* sets that exist
    open,           \* sets that may still be claimed
    claims,         \* set |-> times it was claimed
    deliveries      \* set |-> times it was handed to a consumer

vars == <<proposed, open, claims, deliveries>>

Init ==
    /\ proposed = {} /\ open = {}
    /\ claims = [s \in Sets |-> 0]
    /\ deliveries = [s \in Sets |-> 0]

Propose(s) ==
    /\ s \notin proposed
    /\ proposed' = proposed \cup {s}
    /\ open' = open \cup {s}
    /\ UNCHANGED <<claims, deliveries>>

Close(s) ==
    /\ s \in open
    /\ open' = open \ {s}
    /\ UNCHANGED <<proposed, claims, deliveries>>

Claim(s) ==
    /\ s \in open /\ claims[s] = 0
    /\ open' = open \ {s}
    /\ claims' = [claims EXCEPT ![s] = 1]
    /\ UNCHANGED <<proposed, deliveries>>

Deliver(s) ==
    /\ claims[s] = 1 /\ deliveries[s] = 0
    /\ deliveries' = [deliveries EXCEPT ![s] = 1]
    /\ UNCHANGED <<proposed, open, claims>>

Next == \E s \in Sets : Propose(s) \/ Close(s) \/ Claim(s) \/ Deliver(s)

Spec == Init /\ [][Next]_vars
=============================================================================
