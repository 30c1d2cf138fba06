------------------------------ MODULE Pairing ------------------------------
(***************************************************************************)
(* PairingService (packages/daemon/src/pairing.ts) and POST /v1/link/pair: *)
(* a short code becomes at most one link, within its time to live and a    *)
(* fixed number of attempts.  A code is a member of a small set, because   *)
(* what protects it is not its entropy.                                    *)
(***************************************************************************)
EXTENDS Integers

CONSTANTS
    Codes,          \* what a code may read
    None,
    MaxAttempts,    \* PAIRING.MAX_ATTEMPTS
    Ttl,            \* PAIRING.TTL_SECONDS, in ticks
    MaxIssues       \* bound: codes issued

ASSUME PairingAssumption ==
    /\ MaxAttempts \in Nat \ {0}
    /\ Ttl \in Nat \ {0}
    /\ MaxIssues \in Nat
    /\ None \notin Nat

VARIABLES
    pending,    \* the outstanding code, or None
    issued,     \* codes issued so far; the count names the newest
    age,        \* history: issue |-> ticks since it was issued, up to Ttl
    guesses,    \* history: issue |-> attempts made at it
    storing,    \* issue |-> redemptions of it whose putLink has not returned
    linked      \* history: issue |-> links stored for it

pairingVars == <<pending, issued, age, guesses, storing, linked>>

Issues == 1..MaxIssues

(* expiresAtMs is kept as the time that is left until then. *)
Pending == [issue : Issues, code : Codes, left : 0..Ttl, attempts : 0..MaxAttempts]

PairingInit ==
    /\ pending = None
    /\ issued = 0
    /\ age = [n \in Issues |-> 0]
    /\ guesses = [n \in Issues |-> 0]
    /\ storing = [n \in Issues |-> 0]
    /\ linked = [n \in Issues |-> 0]

(* issue(): a code that is outstanding is replaced. *)
Issue(code) ==
    /\ issued < MaxIssues
    /\ issued' = issued + 1
    /\ pending' = [issue |-> issued + 1, code |-> code, left |-> Ttl, attempts |-> 0]
    /\ UNCHANGED <<age, guesses, storing, linked>>

ExpiredNever == FALSE
Expired == pending # None /\ pending.left = 0

(* status(), which GET /v1/link/status serves: it drops an expired code.   *)
PairingStatus ==
    /\ Expired
    /\ pending' = None
    /\ UNCHANGED <<issued, age, guesses, storing, linked>>

(* The attempts a status response says are left. *)
AttemptsRemaining == MaxAttempts - pending.attempts

(* redeem() with an expired code outstanding. *)
RedeemExpired ==
    /\ Expired
    /\ pending' = None
    /\ UNCHANGED <<issued, age, guesses, storing, linked>>

(* revoke(): whatever is outstanding is dropped. *)
Revoke ==
    /\ pending # None
    /\ pending' = None
    /\ UNCHANGED <<issued, age, guesses, storing, linked>>

RevokedBy(attempts) == attempts >= MaxAttempts

(* redeem() with a live code outstanding: the attempt is counted before    *)
(* the comparison, a wrong one revokes the code when it was the last, and  *)
(* a right one burns it before a key is derived.  The handler then awaits  *)
(* the store, so other requests run before the link exists.                *)
RedeemUnburnt(guess) ==
    /\ pending # None /\ ~Expired
    /\ LET n == pending.issue
           attempts == pending.attempts + 1
       IN  /\ guesses' = [guesses EXCEPT ![n] = @ + 1]
           /\ pending' = IF RevokedBy(attempts) THEN None
                         ELSE [pending EXCEPT !.attempts = attempts]
           /\ storing' = IF guess = pending.code THEN [storing EXCEPT ![n] = @ + 1]
                         ELSE storing
    /\ UNCHANGED <<issued, age, linked>>
Redeem(guess) ==
    /\ pending # None /\ ~Expired
    /\ LET n == pending.issue
           attempts == pending.attempts + 1
       IN  /\ guesses' = [guesses EXCEPT ![n] = @ + 1]
           /\ pending' = IF guess = pending.code \/ RevokedBy(attempts) THEN None
                         ELSE [pending EXCEPT !.attempts = attempts]
           /\ storing' = IF guess = pending.code THEN [storing EXCEPT ![n] = @ + 1]
                         ELSE storing
    /\ UNCHANGED <<issued, age, linked>>

(* #pair after its await: the link is stored and its key enters the        *)
(* keyring, or putLink rejects and the burnt code is not given back.       *)
Pair(n) ==
    /\ storing[n] > 0
    /\ storing' = [storing EXCEPT ![n] = @ - 1]
    /\ linked' \in {linked, [linked EXCEPT ![n] = @ + 1]}
    /\ UNCHANGED <<pending, issued, age, guesses>>

(* Time passes. *)
PairingTick ==
    /\ \E n \in 1..issued : age[n] < Ttl
    /\ age' = [n \in Issues |-> IF n <= issued /\ age[n] < Ttl THEN age[n] + 1 ELSE age[n]]
    /\ pending' = IF pending # None /\ pending.left > 0
                  THEN [pending EXCEPT !.left = @ - 1] ELSE pending
    /\ UNCHANGED <<issued, guesses, storing, linked>>

PairingNext ==
    \/ \E code \in Codes : Issue(code)
    \/ PairingStatus
    \/ RedeemExpired
    \/ Revoke
    \/ \E guess \in Codes : Redeem(guess)
    \/ \E n \in Issues : Pair(n)
    \/ PairingTick

PairingSpec == PairingInit /\ [][PairingNext]_pairingVars

-----------------------------------------------------------------------------
(* Properties *)

PairingTypeOK ==
    /\ pending \in Pending \cup {None}
    /\ issued \in 0..MaxIssues
    /\ age \in [Issues -> 0..Ttl]
    /\ guesses \in [Issues -> Nat]
    /\ storing \in [Issues -> Nat]
    /\ linked \in [Issues -> Nat]

(* Single use and the attempt cap, however requests interleave: the links  *)
(* a code has become or is becoming are one at most, it is guessed at      *)
(* MaxAttempts times at most, and a code that is still offered has an      *)
(* attempt left and nothing redeemed from it (redeem, status, #pair).      *)
CodeIsLimited ==
    /\ \A n \in Issues : linked[n] + storing[n] <= 1 /\ guesses[n] <= MaxAttempts
    /\ pending # None =>
          AttemptsRemaining > 0 /\ linked[pending.issue] + storing[pending.issue] = 0

(* A redemption takes only the code issued last, before its time to live   *)
(* is over: neither a replaced code nor an expired one is ever accepted    *)
(* (issue, redeem).                                                        *)
OnlyTheLiveCodePairs ==
    [][\A n \in Issues : storing'[n] > storing[n] => n = issued /\ age[n] < Ttl]_pairingVars
=============================================================================
