---------------------------- MODULE Credentials -----------------------------
(***************************************************************************)
(* Where a provider's key comes from and where it is kept: the browser     *)
(* vault and the sign-in that fills it (vault.ts, pkce.ts,                 *)
(* openrouter-oauth.ts of apps/web), and the daemon's secrets and its own  *)
(* half of the sign-in (secrets.ts, providers/openrouter-oauth.ts).        *)
(*                                                                         *)
(* Tabs share one database and have a session storage each.  Every vault   *)
(* operation is several transactions, with other tabs' between them, and a *)
(* tab may be closed at any point.                                         *)
(***************************************************************************)
EXTENDS Integers, FiniteSets

CONSTANTS
    Tabs,
    MaxFlows,     \* bound: sign-ins started
    MaxKeys,      \* bound: sealing keys generated
    CodeTtl,      \* lifetime of an authorisation code
    MaxInstant    \* bound: the daemon's clock

(* 0 stands for no tab, no flow and no key. *)
ASSUME CredentialsAssumption ==
    {MaxFlows, MaxKeys, CodeTtl, MaxInstant} \subseteq Nat /\ 0 \notin Tabs

VARIABLES
    area,         \* which of the two a behaviour is about: "web", "daemon"
    sealer,       \* the stored sealing key, 0: none
    sealed,       \* the stored record: what it holds and under which key
    doing,        \* tab |-> the vault operation it is in, or AtRest
    flow,         \* tab |-> verifier in its session storage, 0: none
    codes,        \* provider: verifier a code was issued for |-> its state
    keysMade,     \* sealing keys generated so far
    startedIn,    \* history: verifier |-> the tab that made it
    redeemed,     \* history: {<<verifier, tab>>} codes exchanged
    overlapped,   \* history: two tabs were in the vault at once
    environment,  \* daemon: the variables that are set
    keychain,     \* daemon: the keychain item
    pendingSignIn,\* daemon: when the sign-in under way was begun, or -1
    instant,      \* daemon: its clock
    signedIn,     \* daemon: the outcome of the sign-in
    portHolds     \* daemon: the port that was given holds the key

webVars == <<sealer, sealed, doing, flow, codes, keysMade, startedIn, redeemed, overlapped>>
daemonSecretVars == <<environment, keychain, pendingSignIn, instant, signedIn, portHolds>>
credentialVars == <<area, webVars, daemonSecretVars>>

AtRest == [kind |-> "idle"]
NoRecord == [value |-> -1, under |-> 0]
Pasted == 0

CredentialsInit ==
    /\ area \in {"web", "daemon"}
    /\ sealer = 0 /\ sealed = NoRecord
    /\ doing = [t \in Tabs |-> AtRest]
    /\ flow = [t \in Tabs |-> 0]
    /\ codes = [v \in 1..MaxFlows |-> "none"]
    /\ keysMade = 0
    /\ startedIn = [v \in 1..MaxFlows |-> 0]
    /\ redeemed = {}
    /\ overlapped = FALSE
    /\ environment = {} /\ keychain = "absent"
    /\ pendingSignIn = -1 /\ instant = 0
    /\ signedIn = "no" /\ portHolds = FALSE

-----------------------------------------------------------------------------
(* The vault *)

Enters(t, op) ==
    /\ doing[t] = AtRest
    /\ doing' = [doing EXCEPT ![t] = op]
    /\ overlapped' = (overlapped \/ \E u \in Tabs : doing[u] # AtRest)
    /\ UNCHANGED <<sealer, sealed, keysMade>>

Seal(t, value) == Enters(t, [kind |-> "seal", at |-> "find key", value |-> value, key |-> 0])

(* unseal reads the record first; without one there is nothing to open. *)
Unseal(t) ==
    /\ sealed # NoRecord
    /\ Enters(t, [kind |-> "unseal", at |-> "find key", value |-> Pasted, key |-> 0])

(* sealingKey: the stored key, or a new one that is stored next. *)
FindKey(t) ==
    /\ doing[t] # AtRest /\ doing[t].at = "find key"
    /\ \/ /\ sealer # 0
          /\ doing' = [doing EXCEPT ![t].key = sealer, ![t].at = "use key"]
          /\ UNCHANGED keysMade
       \/ /\ sealer = 0 /\ keysMade < MaxKeys
          /\ keysMade' = keysMade + 1
          /\ doing' = [doing EXCEPT ![t].key = keysMade', ![t].at = "store key"]
    /\ UNCHANGED <<sealer, sealed, overlapped>>

(* Mutant: the new key is used but not kept. *)
KeyNotKept(t) ==
    /\ doing[t] # AtRest /\ doing[t].at = "store key"
    /\ doing' = [doing EXCEPT ![t].at = "use key"]
    /\ UNCHANGED <<sealer, sealed, keysMade, overlapped>>
StoreKey(t) ==
    /\ doing[t] # AtRest /\ doing[t].at = "store key"
    /\ sealer' = doing[t].key
    /\ doing' = [doing EXCEPT ![t].at = "use key"]
    /\ UNCHANGED <<sealed, keysMade, overlapped>>

(* The record is written; or decrypted, which tells whether it opens.      *)
UseKey(t) ==
    /\ doing[t] # AtRest /\ doing[t].at = "use key"
    /\ sealed' = IF doing[t].kind = "seal"
                 THEN [value |-> doing[t].value, under |-> doing[t].key] ELSE sealed
    /\ doing' = [doing EXCEPT ![t] = AtRest]
    /\ UNCHANGED <<sealer, keysMade, overlapped>>

(* forget: the record only. *)
Forget(t) ==
    /\ doing[t] = AtRest
    /\ sealed' = NoRecord
    /\ UNCHANGED <<sealer, doing, keysMade, overlapped>>

(* forgetEverything: the records, then the key. *)
ForgetEverything(t) ==
    /\ doing[t] = AtRest
    /\ sealed' = NoRecord
    /\ doing' = [doing EXCEPT ![t] = [kind |-> "forget", at |-> "forget key"]]
    /\ overlapped' = (overlapped \/ \E u \in Tabs : doing[u] # AtRest)
    /\ UNCHANGED <<sealer, keysMade>>
ForgetKey(t) ==
    /\ doing[t] # AtRest /\ doing[t].at = "forget key"
    /\ sealer' = 0
    /\ doing' = [doing EXCEPT ![t] = AtRest]
    /\ UNCHANGED <<sealed, keysMade, overlapped>>

(* The tab is closed, or the browser refuses the next transaction.         *)
TabBreaks(t) ==
    /\ doing[t] # AtRest
    /\ doing' = [doing EXCEPT ![t] = AtRest]
    /\ UNCHANGED <<sealer, sealed, keysMade, overlapped>>

-----------------------------------------------------------------------------
(* Signing in from the browser *)

(* startAuthorization: a new verifier replaces the one of this tab. *)
StartAuthorization(t) ==
    LET started == Cardinality({v \in 1..MaxFlows : startedIn[v] # 0}) IN
    /\ started < MaxFlows
    /\ flow' = [flow EXCEPT ![t] = started + 1]
    /\ startedIn' = [startedIn EXCEPT ![started + 1] = t]
    /\ UNCHANGED <<codes, redeemed>>

(* readFlow: what the session storage of this tab has; a flow that cannot  *)
(* be read, or would return elsewhere, is none.                            *)
ReadFlow(t) == flow[t]

(* External: the user agrees and the provider issues a code. *)
ProviderIssues(v) ==
    /\ startedIn[v] # 0 /\ codes[v] = "none"
    /\ codes' = [codes EXCEPT ![v] = "issued"]
    /\ UNCHANGED <<flow, startedIn, redeemed>>

(* External: an exchange succeeds for the verifier the code was issued for *)
(* and only once.                                                          *)
Exchange(v, verifier) == codes[v] = "issued" /\ v = verifier

(* The callback page opens in tab t with the code of flow v and perhaps    *)
(* the state.  A provider error, a missing flow, a foreign state and a     *)
(* failed exchange seal nothing; all but the second end the flow.          *)
CallbackRefused(t, v, echoed) ==
    /\ doing[t] = AtRest /\ codes[v] # "none"
    /\ \/ ReadFlow(t) = 0
       \/ echoed /\ ReadFlow(t) # v
       \/ ~Exchange(v, ReadFlow(t))
    /\ flow' = [flow EXCEPT ![t] = 0]
    /\ UNCHANGED <<codes, startedIn, redeemed, sealer, sealed, doing, keysMade, overlapped>>

CallbackAccepted(t, v) ==
    /\ doing[t] = AtRest
    /\ ReadFlow(t) # 0 /\ Exchange(v, ReadFlow(t))
    /\ codes' = [codes EXCEPT ![v] = "spent"]
    /\ redeemed' = redeemed \cup {<<v, t>>}
    /\ flow' = [flow EXCEPT ![t] = 0]
    /\ Seal(t, v)
    /\ UNCHANGED startedIn

-----------------------------------------------------------------------------
(* The daemon's secrets *)

Variables == {"own", "wellKnown"}
Keychains == {"absent", "held", "empty", "locked", "hung"}

(* EnvironmentSecrets.get, in the order of candidateVariableNames. *)
FromEnvironment ==
    IF "own" \in environment THEN "own"
    ELSE IF "wellKnown" \in environment THEN "wellKnown" ELSE "null"

(* KeychainSecrets.get: absence is an exit status of its own. *)
FromKeychain ==
    CASE keychain = "held" -> "keychain"
      [] keychain \in {"absent", "empty"} -> "null"
      [] OTHER -> "throws"

(* LayeredSecrets.get: the first layer that has a value. *)
Found == IF FromEnvironment # "null" THEN FromEnvironment ELSE FromKeychain

(* LayeredSecrets.listNames; the keychain is probed without its value. *)
Listed ==
    IF keychain = "hung" THEN "throws"
    ELSE IF environment # {} \/ keychain \in {"held", "empty"} THEN "listed" ELSE "absent"

(* The operator exports variables and edits the keychain. *)
Configure(vs, k) ==
    /\ environment' = vs /\ keychain' = k
    /\ UNCHANGED <<pendingSignIn, instant, signedIn, portHolds>>

(* beginAuthorization: only a loopback callback is sent anywhere. *)
BeginAuthorization(callback) ==
    /\ callback = "loopback"
    /\ pendingSignIn' = instant
    /\ signedIn' = "no"
    /\ UNCHANGED <<environment, keychain, instant, portHolds>>

(* completeAuthorization: `reply' is what the exchange is answered, and    *)
(* `stores' what becomes of SecretsPort.set - both backends of the daemon  *)
(* refuse it.                                                              *)
CompleteAuthorization(reply, stores) ==
    /\ pendingSignIn # -1
    /\ LET issued == instant <= pendingSignIn + CodeTtl /\ reply = "key"
       IN  /\ portHolds' = (portHolds \/ (issued /\ stores))
           /\ signedIn' = IF issued /\ stores THEN "yes" ELSE "failed"
    /\ UNCHANGED <<environment, keychain, pendingSignIn, instant>>

DaemonClock ==
    /\ instant < MaxInstant
    /\ instant' = instant + 1
    /\ UNCHANGED <<environment, keychain, pendingSignIn, signedIn, portHolds>>

-----------------------------------------------------------------------------
VaultStep ==
    /\ \E t \in Tabs :
          \/ Seal(t, Pasted) \/ Unseal(t) \/ FindKey(t) \/ StoreKey(t) \/ UseKey(t)
          \/ Forget(t) \/ ForgetEverything(t) \/ ForgetKey(t) \/ TabBreaks(t)
    /\ UNCHANGED <<flow, codes, startedIn, redeemed>>

SignInStep ==
    /\ \/ \E t \in Tabs : StartAuthorization(t)
       \/ \E v \in 1..MaxFlows : ProviderIssues(v)
    /\ UNCHANGED <<sealer, sealed, doing, keysMade, overlapped>>

CredentialsNext ==
    \/ /\ area = "web"
       /\ \/ VaultStep
          \/ SignInStep
          \/ \E t \in Tabs, v \in 1..MaxFlows :
                CallbackAccepted(t, v) \/ \E echoed \in BOOLEAN : CallbackRefused(t, v, echoed)
       /\ UNCHANGED <<area, daemonSecretVars>>
    \/ /\ area = "daemon"
       /\ \/ \E vs \in SUBSET Variables, k \in Keychains : Configure(vs, k)
          \/ \E callback \in {"loopback", "elsewhere"} : BeginAuthorization(callback)
          \/ \E reply \in {"key", "none"}, stores \in BOOLEAN :
                CompleteAuthorization(reply, stores)
          \/ DaemonClock
       /\ UNCHANGED <<area, webVars>>

CredentialsSpec == CredentialsInit /\ [][CredentialsNext]_credentialVars

-----------------------------------------------------------------------------
(* What the vault holds can be opened: the key it was sealed under is the  *)
(* one that is stored (seal, sealingKey, forgetEverything).                *)
SealedCanBeOpened == sealed # NoRecord => sealed.under = sealer

(* Tabs that take turns never lose a credential, wherever one of them is   *)
(* closed.  Tabs that do not can: see the README.                          *)
TurnsLoseNothing == ~overlapped => SealedCanBeOpened

(* A code is exchanged in the tab that asked for it and nowhere else, even *)
(* if the provider echoes no state (readFlow, the callback page).          *)
OwnFlowsOnly == \A pair \in redeemed : startedIn[pair[1]] = pair[2]

(* What the operator exported is found whatever state the keychain is in,  *)
(* and a key that is found is one that is listed.                          *)
ExplicitWins ==
    /\ environment # {} => Found \in Variables
    /\ Found \notin {"null", "throws"} /\ keychain # "hung" => Listed = "listed"

(* Signing in is reported only once the key is held. *)
SignedInHolds == signedIn = "yes" => portHolds

(* A credential is kept where it can be found again and given to nobody    *)
(* who did not ask for it.                                                 *)
CredentialsAreSafe ==
    TurnsLoseNothing /\ OwnFlowsOnly /\ ExplicitWins /\ SignedInHolds
=============================================================================
