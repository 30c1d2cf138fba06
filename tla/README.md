# A formal model of ForgeBridge

ForgeBridge lets a program propose edits to a Roblox place and lets a human approve them before Roblox Studio applies
them. This directory models the parts of it in which order, failure and concurrency matter: TLA+ modules, TLC runs on
small instances, and theorems checked by TLAPS for every value of the constants. Paths below are relative to the
repository root.

## 1. Inventory

A *producer* (CLI, MCP or A2A agent, SDK, web page, or the daemon's own run) submits a `ChangeSet`: an ordered list of
operations built against a numbered version of the place. The *daemon* validates it. An approver reads the diff and
approves the content by digest. The daemon queues a delivery on the *link* of the paired Studio plugin, the *plugin*
long-polls, applies the operations one by one while capturing inverses, reports the outcome and uploads the inverses as
a journal entry. A rollback of that journal travels the same way. The *relay* is the hosted counterpart of the daemon:
the same protocol for many sessions in one process, with allowances for runs it pays for.

| Component | State | Operations | Talks to | What is hard | What makes it correct |
|---|---|---|---|---|---|
| Daemon HTTP handlers (`packages/daemon/src/server.ts`, `store.ts`, `rollback.ts`) | ChangeSets with a status, a version per project, links, delivery queues, nonce watermarks, parked polls, journals, inverses | pair, poll, submit, start and settle a run, approve, apply result, journal entry, rollback request and result, restart | producers and plugin over HTTP; store | reports in any order, from any link, repeated; approval of something read earlier; bounded queue; restart | only reviewed content leaves; the journal is the record of approved work; versions and rollback handles are kept; no lost wake-up |
| Plugin (`plugin/src`) | stored link, cursor and outbound counter; version, review queue, set on screen, the place itself | poll, unwrap, review, execute, reverse, report, reconnect, Studio restart | daemon, over a network that loses and reorders | a click's thread beside the poll thread, a stopped loop that still delivers, lost and late requests, swallowed setting writes, writes the engine refuses | a set is applied once, on the tree it was built for; what is on record is true of the place; everything is answered; a reversal restores |
| Runs, router, breaker, candidates (`packages/core/src`, `packages/model-registry/src`) | stage, attempts and skips per run; one breaker entry per provider, shared | plan, order, call a model, fail over, analyse, hang up | provider adapters, daemon | results that arrive after the shared breaker changed state | every candidate accounted for; the budget counts calls; suppression is exact; the order keeps its promise |
| Run pipeline (`packages/core/src/pipeline.ts`, `policy.ts`) | stored run and ChangeSet, an in-memory copy per call | start, approve, reject, cancel | storage, transport and sandbox ports | copies of a run held across awaits, a policy that changes | a set is claimed and delivered at most once, only when vetted; records are backed by results |
| Provider adapters and discovery (`packages/daemon/src/openrouter.ts`, `providers/`) | an answer being read; the configured providers | call, stream, time out; probe, refresh, route | providers, local runtimes | an answer cut anywhere; a hang-up beside a timer; concurrent refreshes | only whole documents become ChangeSets; only confirmed providers are offered |
| Run event logs and streams (`packages/daemon/src/runs.ts`) | a bounded log per run, a bounded number of logs, open responses | publish, replay, follow, close, evict | callers and followers over SSE | a run that ends during a subscription, cut-off histories | no gap or repeat that is not announced; followers are released |
| Pairing (`packages/daemon/src/pairing.ts`) | one outstanding code with its expiry and attempts | issue, status, redeem, revoke | plugin | redemptions across an await, expiry and cap boundaries | one link per code, within its attempts and its life |
| Stores (`packages/daemon/src/store.ts`, `packages/storage-sqlite/src`) | Maps; tables, migrations, listings | every call of the two ports | daemon, core | two implementations of one contract; writes under a cursor; two processes that migrate one file | the stores agree; a listing misses nothing; the schema is whole |
| Relay (`apps/relay/src`) | the daemon's state per session; pairing registry; windows and daily counters | the handlers per session; expiry and eviction; reserve and release | plugin and web over TLS, a dispatch port | a request authorised before and handled after its session went; refunds under hang-up | nothing crosses sessions; counters equal what ran |
| HTTP fronts (`http.ts`, `auth.ts`, `routes.ts` of daemon, relay, MCP, A2A) | a request under way | host, origin, version, route, credential, rate, length, body | everybody | proxies, a body that lies about its length | nothing unauthenticated reaches a handler |
| Connectors (`packages/mcp`, `packages/cli`, `packages/a2a`, `packages/sdk-ts`, `packages/sdk-py`) | a call, a command, tasks, grants, a stream being read | every tool, command, JSON-RPC method and stream frame | daemon | requests that fail before or after they arrive; streams cut anywhere | what they say happened did happen; a grant is used once |
| Web (`apps/web`) | the run on screen, project records, the key vault, a sign-in per tab | start, cancel, approve, stream, read and write records, seal and open keys | daemon, relay, IndexedDB | late callbacks; several tabs | the page shows its own run; no key leaves its place |
| Luau analysis (`packages/luau-analysis`) | none | tokenize, structure, rules | pipeline, daemon | a script that only looks like a comment or a loop | it reads a script as the language would |
| Catalogue (`scripts/sync-catalog.ts`, `packages/model-registry`) | the committed snapshot | sync page by page, compare, write | OpenRouter, a person | a listing that changes while it is read | a snapshot is written whole or not at all |
| Open Cloud, telemetry (`packages/opencloud`, `packages/core/src/telemetry`) | a call; a queue of spans | retry; batch, flush, shut down | services | answers lost after the write | writes happen once; every span is accounted for |

`PROJECT.json` lists the components, and under `hazards` the lines at which the hard behaviours bite, each with the
property that would catch it.

## 2. Modules

The core, which is also composed and proved about:

| Module | Models | Main correspondence |
|---|---|---|
| `Daemon` | the ChangeSet life cycle | one action per handler: `Pair`, `Poll`, `HeldPollEnds`, `SubmitChangeSet`, `StartRun`, `SettleRun`, `Approve`, `ApplyResult`, `JournalEntry`, `Output`, `RequestRollback`, `ReportRollback`, `Restart` |
| `Plugin` | the Studio plugin and the place | an action is the stretch of a Luau thread between two HTTP requests: `Deliver` (unwrap, then `Receive` or `Reverse`), `ApproveInStudio`, `RejectInStudio`, `Resume`, `Reconnect`, `StoreLink`, `StudioRestart` |
| `Bridge` | `Daemon` and `Plugin` over a network | a step is a handler, a thread's stretch, or both when a request joins them; `flight` holds the envelopes under way; `scenario` says which faults a behaviour has |
| `Policy` | the operations and paths of the protocol, `checkPolicy` | pure operators |
| `Pipeline` | `RunPipeline` over its storage port | an action is what a call does between two awaits; every call holds its own copy of the run |
| `AtMostOnce` | abstract: what the pipeline promises about a set | `Propose`, `Close`, `Claim`, `Deliver`; `Pipeline!DeliveredAtMostOnce` is its specification under a refinement mapping |
| `Pairing` | `PairingService` and `#pair` | `Issue`, `PairingStatus`, `RedeemExpired`, `Revoke`, `Redeem`, `Pair`, `PairingTick` |
| `Generation` | `CircuitBreaker`; `executeRun` and `ModelRouter.run`, many at once | `StartModelRun`, `PinnedUnfit`, `ModelAnswers`, `Validated`, `RunHangsUp`, `BreakerTick` |
| `RunEvents` | `RunEventLog(s)` and both streamed responses | `StartRun`, `Emit`, `SettleRun`, `SettleThrows`, `Follow`, `Cut`, `Restart` |
| `Relay` | the hosted relay: sessions, links, ChangeSets, journals | a request is authorised in one step and handled in a later one (`Authorise*`, `Refuse*`, `Submit`, `Approve`, `ReportApply`, ...), with `SessionLapses`, `EvictOldest`, `CodeLapses` between |
| `DaemonProofs`, `BridgeProofs`, `PipelineProofs`, `PipelineSafety`, `RelayProofs`, `ComponentProofs`, `SurfaceProofs` | theorems | section 5 |

The parts around it, each with a specification of its own:

| Module | Models |
|---|---|
| `Sponsored` | windows, the four daily counters, reserve, dispatch and release on the relay |
| `RelayJournal` | journals, uploads of inverses, reversals and console output, on relay and daemon |
| `Stores`, `Storage` | the daemon's two stores call by call in lockstep; the storage port, its cursors and its migrations |
| `Providers`, `Discovery`, `Candidates` | one model call and its stream; which providers are configured; in which order models are tried |
| `Catalogue` | the catalogue sync, the snapshot, the registry's staleness and ranking |
| `Place` | the five operations on a small tree, the inverses, the daemon's check of the pairs and the replay |
| `Review` | what a person is shown and what passes without one: protocol predicates, the daemon's verdict and diff, the plugin's restatement of them |
| `StudioLink` | address check, pairing, verdicts on answers and the transports of one Studio session |
| `FrontDoor` | the four HTTP fronts from the headers to the body |
| `Connectors`, `A2A`, `Clients` | MCP tools and command line; A2A tasks and grants; the readers of a run's stream |
| `WebRun`, `Credentials` | the generate page and the project records; key vault, sign-in and the daemon's secrets |
| `Tokenizer`, `LuauSyntax`, `LuauRules` | the Luau analysis, against a character automaton and against a grammar |
| `OpenCloud`, `Telemetry` | retries; the OTLP exporter |
| `MC*` | constants for TLC (`relay_sessions` and `partial_restore` need none and run `Relay` and `Place` as they are). `MCStudio`, `MCCore`, `MCDaemonState` and `MCComponents` put independent parts in one run: `part` says which of them a behaviour is about, and the others do not move |

Abstractions that matter when reading them:

- A ChangeSet's *content* in `Daemon` is what the gates tell apart: the number of operations, whether analysis and policy
  clear it, whether it deletes more than the confirmation threshold. The content stands for its own digest.
- A handler of the daemon is one step, because both stores answer within the microtask queue. Waits that let other
  requests in are state of their own: parked polls, generating runs, a link being stored, a body being read.
- In `Daemon` and `Relay` the consumer is not trusted: it may post any report under any nonce. `Bridge` replaces it by
  the real plugin, and the same handlers are used unchanged.
- In `Plugin` the place is a count of operations in effect per set; `Place` is where operations are interpreted.
- Text is tokens: a stream is frames cut in pieces, a script is characters of a small alphabet or symbols of a grammar, a
  path is a sequence of names.
- The arms of a `CASE` are read from the top, as TLC reads them, where the code is a chain of conditions.
- Variables marked *history* record what happened and guard no step.
- Time is a tick that ages codes, windows and sessions and cools breakers. Cryptography is a key that is held or not and
  a MAC that is right or wrong.
- Beside some definitions stands a variant with a plausible slip (a dropped guard, a missing count, a wrong order). No
  specification uses it; `PROJECT.json` lists it under `mutants` with the property that TLC finds violated when it
  replaces the real one.

## 3. Runs

Every configuration sets `CHECK_DEADLOCK FALSE`: the bounds on deliveries, reports, calls and issued codes end every
behaviour, and an idle system is no error.

| Run | Instance | Shows |
|---|---|---|
| `studio` | 2 ChangeSets, 2 journals, 1 link, durable store; a window of 2 deliveries, 3 delivered, 4 reports. Beside it the review panel and both diffs, the plugin's transports, and the operations on a small place | `OnlyReviewedContentLeaves`; `ApprovedIsQueued`; `JournalsAreSound`; `RollbackHandleIsKept`; `ReviewIsHonest`; `LinkIsSound`; `ReversalRestores` |
| `daemon_links` | 1 ChangeSet, 2 links, 2 projects, volatile store, 1 generating run, 1 parked poll per link | `QueuesAreServed` (the window is the newest deliveries, no wake-up is lost); `VersionMovesByRight` |
| `bridge_serial` | 2 sets of 2 operations, reliable network, everything on the poll thread, rollbacks | `VersionsAgreeAtRest`; `EverythingIsAnswered` (liveness) |
| `bridge_faults` | two scenarios: lost, late and reordered requests, 2 links, reconnects and daemon restarts with 2 sets; rollbacks, Studio restarts and failed cursor writes with 1 set | `JournalIsTrue` (applies and reversals on record happened, a set is applied once); `AppliedOnReviewedTree` |
| `core` | 1 run, 2 overlapping calls, 4 drafts, 2 policies, a tree that moves. Beside it one model call and its stream, the order of the candidates, concurrent refreshes, and the telemetry exporter | `OnlyVettedIsDelivered`; `RecordsAreTrue`; `DeliveredAtMostOnce` (refinement of `AtMostOnce`); `OutcomesAreDeserved`; `OrderKeepsItsPromise`; `CandidatesWereConfirmed`; `SpansAreAccounted` |
| `relay_sessions` | 2 sessions, 2 links, 2 sets of which a session keeps 1, a window of 1 delivery, 1 request between its headers and its body | `SessionsAreApart`; `DroppedSessionsAreInert` |
| `daemon_state` | events of 2 runs with room for 1 log of 2 events; 3 codes of 3 attempts and 2 ticks; 5 store calls; 3 rows, pages of 1, 2 openers; journals under a cap of 1 with 2 reversals; 2 tabs; 2 syncs of a listing that changes, over 2 weeks where 1 makes it stale | `NothingMissedUntold`; `FollowersAreReleased` (liveness); `CodeIsLimited`; `OnlyTheLiveCodePairs`; `StoresAgree`; `StorageIsWhole`; `ReversalsAreHonest`; `CredentialsAreSafe`; `CatalogueKeepsItsWord` |
| `components` | the bounds named in `MCComponents.cfg` | one property per part: `AllowancesHold`, `FailoverIsExact`, `WritesHappenOnce`, `TasksAreSound`, `FollowsTheStream`, `AnalysisIsExact`, `FrontDoorHolds`, `PageIsHonest`, `ConnectorsAreHonest` |
| `aba_base`, `review_stuck`, `half_open_probes`, `partial_restore` | | **violations**, see section 6 |

The bounds are small but past every threshold in the code: more deliveries than a window keeps, more events than a log
keeps, more runs than resident logs, more failures than the breaker's threshold, more sets than a session keeps, more
rows than a page, more requests than a budget, more spans than a queue. Symmetry is used only for safety, and only on
ids that the code merely compares. The operators that compute something (`Candidates`, `Tokenizer`, `LuauRules`,
`Review`, `FrontDoor`) are checked over every input of the bounded kind, against a definition that is not the code's:
the promise of a policy, the language's own rules, a grammar that knows what it derives.

Why some properties are checked without some faults:

- `EverythingIsAnswered` fails if Studio restarts between accepting a delivery and the click (the cursor is stored first
  and the review queue is lost), if a report is refused because a higher nonce of the click's thread arrived first, or if
  the panel loses its buttons (`review_stuck`). `bridge_serial` therefore has none of these; no component retries a
  report.
- `AppliedOnReviewedTree` fails with rollbacks of two sets (`aba_base`), and after a Studio restart, which makes the
  plugin adopt the next set's base (`plugin/src/Apply.luau:503`). The scenarios of `bridge_faults` do not combine them.
- `JournalIsTrue` is claimed while the daemon keeps its store (`StoreIsKept`: a durable store, or no restart), since an
  emptied in-memory store lets the same ids be used again for other content. Within it, that a set is written once is
  claimed while Studio keeps running and where no reversal meets a delivery that is handed over again
  (`NumbersTellApart`): with both, the reused version number of `aba_base` lets a second copy of a delivery pass the base
  check and the set is written twice. The attempt to prove it without that condition is how this came to light.
- `ReversalRestores` of `Place` excepts reversals that collected a failure inside a restored subtree (`partial_restore`
  shows that such a reversal is reported as complete all the same), reversals in which Studio refused a property or an
  attribute of a recreated instance, which nothing collects, and reversals that threw half-way.
- `ReversalsAreHonest` takes a report to stop short of the steps it was sent on either host. The daemon's stamp then
  still means that everything is undone; the relay's means that what was reported is (`StampCovers`), and no more.
- `CatalogueKeepsItsWord` excepts a withdrawal and an addition during one sync, and an endpoint that pages without
  telling how many models there are: both skip models.
- `TasksAreSound` says when the connector's process ends and takes every task along, rather than that it does not.
- `LinkIsSound`, `CredentialsAreSafe` and `PageIsHonest` each except the interleaving in which the code does lose
  something (a second pairing, two tabs in the vault, a run started while an earlier one comes back), and so show that
  it takes that interleaving.
- `AllowancesHold` needs room for every key in use (`MaxTrackedKeys`): see section 6 for the eviction of counters.

## 4. Fairness

`Spec` and `BridgeSpec` have none. Three specifications do:

- `FairBridgeSpec`: weak fairness of the poll and its answer, of the arrival of an envelope, of the return of a request
  and of a decision on a set that is on screen. The poll loop runs until it is stopped, a request returns or times
  out, and a person decides in the end. Nobody has to propose, approve or roll back anything.
- `FairRunEventsSpec`, and `StateSpec` which contains it: weak fairness of a run's end. Every model call is bounded by a
  timeout (180 s in `packages/daemon/src/openrouter.ts`), so `executeRun` returns and `#settleRun` follows or throws. No
  client has to hang up, and the ceiling on the age of a stream is not relied on.

## 5. Proofs

`DaemonProofs` holds for any sets of ChangeSets, contents, journals, links and projects, any window length and any
bounds; it uses the assumptions named in `Daemon` (contents are records with at least one operation, `None` is none of
the values it stands in for, limits are naturals). The argument goes in layers, each using the one before:

1. `TypeInv`: `TypeOK`, and a session key is held only for a paired link. Without the second part the project of a link
   that reports is not known to be a project.
2. `ReviewInv`: `OnlyReviewedContentLeaves` is not inductive by itself, because a report or a rollback may move a set
   between statuses after approval. `ApprovedForGood` adds that what an approver read is the stored content, for good.
3. `JournalInv`: the three parts of `JournalsAreSound` (`JournalOfApprovedWork`, `StampedMeansReversed`,
   `DispatchedRollbackIsOnRecord`) with `ResultsHaveJournals`. The lemma `SetsKeptStep` (a stored set keeps its project,
   and its approval is never withdrawn) carries what the journals say across every step.
4. `QueueInv`: the parts of `QueuesAreServed` and `ApprovedIsQueued`; they need each other, since what is trimmed, who
   is woken and what is still owed are decided in one step (`Enqueue`).

The two action properties of `Daemon` follow from `TypeInv` and `JournalInv`, one handler at a time.
`RollbackHandleIsKept`: a recorded apply keeps its set and its version bracket, its inverses are never replaced, a
completed reversal is never reopened. `VersionMovesByRight`: a version moves only by a paired link that spends a nonce,
and falls only by the report of a reversal that was asked for. Both except the step in which an in-memory store is lost.

`BridgeProofs` puts the real plugin and the network in the place of the untrusted consumer, on top of `DaemonProofs`:
`JournalIsTrue`, for any sets, links, journals, projects, threads and scenarios, within the scope section 3 gives it.
The invariant has three parts besides the types.

1. `TruthInv`: whatever is written down anywhere agrees with the history of the place. A report in flight or still held
   by a thread is of an apply or a reversal that happened; a payload in a queue, on the panel or delivered is the stored
   set, or the reversal of an apply on record; and so is what the daemon has recorded. A report may be lost, late or
   repeated because what it says stays true: a stored set keeps its content, an apply of the history is never written
   again, and reversals only add up (`SetsGrow` and its companions).
2. `RisenInv`, where nothing is reversed: the version only rises, so a set that went in left the plugin above its base
   and no second delivery of it passes the base check, whatever counters a reconnect set back.
3. `OnceInv`, where the plugin stays on its link: a set is in at most one of the daemon's queue beyond the cursor, the
   review queue, the panel and the place, and in none of them before it is approved.

`PipelineProofs` shows that `Pipeline` implements `AtMostOnce` for any runs, calls, drafts and policies
(`PipelineKeepsPromise`). A set is proposed when it is saved, open while it is `validated`, claimed by the compare-and-set
to `approved`. The invariant says that a run has one start call, so its set is saved once; that a set which was claimed
is never `validated` again; and that at most one call is between the claim and the delivery. Every step of a call is
shown to be one of four: a plain one, which moves the call and at most closes its set; the save; the claim; the delivery
(`StepKinds`). Each of the four keeps the invariant and is a step or a stutter of the abstract specification.

`PipelineSafety` builds on it. `RecordsAreTrue`: the call which claimed a set owns it up to the end of its run (`Owned`,
`OwnersApart`), so the result it stores, the status it concludes with and the success it reports are of the one delivery
there was; and a run at a stage nobody can act on has a call under way that is bound to write another one (`Attended`).
`OnlyVettedIsDelivered`: whatever overlaps, and whenever the policy changes, what is delivered was cleared by the gates
of the call that claimed it. The lemmas about `checkPolicy` come first (an answer of ok means that an allowed prefix
covers every path an operation names; automatic application means no deletion, no unread source and nothing outside its
own prefix). Then: a set is written once, so the operations that a call checked are the ones that are stored and
delivered. The drafts and policies are any that have the protocol's shape (`DraftsAssumption`, `PoliciesAssumption`).

`RelayProofs` is about any number of sessions, links, sets, journals and requests. `SessionsAreApart` is not inductive:
a request is authorised in one step and handled in another, between which its session may be dropped, and an id freed by
an eviction may be proposed by another session. The invariant `Apart` adds that what is stored for a session is in the
session's lists, so that dropping it finds all of it (`Listed`); that a live link belongs to the live session it was
paired with, and that a request on a link was authorised as that session (`Bound`); that a code which can be redeemed has
bought no link (`Unspent`); that what is queued was approved (`QueuedWasApproved`); that nothing of a dropped session is
left to act on (`Severed`); and that a watermark is above every report taken (`Watermark`). `DroppedSessionsAreInert`
follows from the same invariant, step by step. The only assumption is that `null` is neither an identifier nor a queue.

The same module proves `ReversalsAreHonest` of `RelayJournal`, for any caps and any number of reversals, reports and
console lines, on relay and daemon. A ChangeSet settles once, so it has one journal (`OneJournalASet`); a dispatched
reversal was planned from that journal's inverses (`DispatchedFromRecord`); every report taken is of a dispatched
reversal (`ReportsAreOfReversals`); so what a record says is backed by what the place underwent (`RecordsAreBacked`).
Nothing is assumed of how many steps a report speaks of: the daemon's `rolled back` covers every inverse, because it
counts them, the relay's the ones reported on.

`ComponentProofs` holds the theorems of smaller parts:

- `CodeIsLimited` and `OnlyTheLiveCodePairs` of `Pairing`, for every cap, life and number of codes. The invariant adds
  that the outstanding code is the newest, that its stored attempts and remaining life agree with its history, and that a
  code not yet issued has none.
- `CandidatesWereConfirmed` of `Discovery`, for any providers and any number of concurrent runs: every provider on the
  list was confirmed for each run that may still read it.
- `WritesHappenOnce` of `OpenCloud`, for any calls and any retry budget. No request that writes is idempotent
  (`WritesAreNotIdempotent`), so a request that writes is sent once; what it did is known from where it is on the wire.
- `FailoverIsExact` of `Generation`, for any runs, candidate lists, budgets and reports. The invariant (`RunInv`) adds
  that a run in flight waits for the candidate after the last one decided, with budget to spare, and that what is being
  validated was recorded as ok. `ContinueKeeps` is the router's loop between two calls: the next model it calls is the
  first whose provider is not suppressed (`LeastNatural`), and the ones before it are skipped for the reason recorded.
- `WritesAreGranted` of `A2A`, for any subjects, tasks and grants: the part of `TasksAreSound` that is about writes. It
  is inductive together with the types of the two counters, also through the ends of the process.
- `CredentialsAreSafe` of `Credentials`, for any tabs, keys and flows. While the tabs have taken turns, at most one of
  them is inside the vault, and what it has found there is still so (`Promised`); the verifier in a tab's storage is one
  the tab made (`FlowsInv`); the daemon's layers are an evaluation (`SecretsInv`).
- `NothingMissedUntold` of `RunEvents`, for any runs, responses, restarts and retention limits. A log keeps its
  events in order, and all of them unless it says it lost some (`LogFits`); a response that follows, or ended with the
  finished record, has every event from its cursor on or was sent a `truncated` frame (`ResponseFits`).
- `LoopsAreSound` of `StudioLink`, for any addresses, answers, links and restarts: the part of `LinkIsSound` about poll
  loops. At most one loop runs (`OneLoopRuns`), one that was stopped for good stays so (`StoppedDead`), and with one
  pairing and no abandoned poll the loop reads on from the stored cursor (`LoopsReadTheStored`), so it passes nothing
  that was not handed on. It assumes that some address is accepted, without which nothing is ever linked.
- `OutcomesAreDeserved` of `Providers`, for an answer of any number of lines. What the adapter has put together is what
  was sent, call by call (`AssembledAsSent`), and the flags remember which of hang-up and timer came first
  (`SignalsFit`). The two tool calls of two pieces each are part of the model, not parameters.

`SurfaceProofs` is about what users are told. `PageIsHonest` of `WebRun`: as long as one run's callbacks have come back
before the next is started (`~hurried`), at most one run is being followed, the view is of that run, and a fetch, an
approval or a decision that is still out is for the set on screen; as long as writers of project records take turns
(`~crossed`), the one at work puts back what it read. `ConnectorsAreHonest` of `Connectors`: `ClearancesCover` counts the
reversals done, the calls cleared to ask for one and the clearance that is pending against the clearances given, which is
what makes "once per clearance" inductive when calls race; `ShellInv` follows a command from its first request to its
exit code.

Only model-checked, and why:

- `EverythingIsAnswered` and `FollowersAreReleased`: fairness and `ENABLED` are beyond the prover.
- `AnalysisIsExact` uses recursive operators; `AllowancesHold`, `SpansAreAccounted`, `FollowsTheStream`,
  `OrderKeepsItsPromise`, `ReversalRestores`, `StorageIsWhole`, `StoresAgree` and the injective framing in `LinkIsSound`
  speak of what a fold, a filter, a sort or a walk over a tree computes, which needs induction over data.
- `FrontDoorHolds` and `ReviewIsHonest` are decided by cases over finite tables: TLC goes through all of them, and a
  proof would do no more.
- `VersionsAgreeAtRest` holds where everything runs on the poll thread and not in general: two threads' reports may
  overtake each other, as section 6 says. `AppliedOnReviewedTree` holds in the scenarios in which no version number
  returns.
- The parts of `TasksAreSound` besides writes, and `CatalogueKeepsItsWord`: within reach, not done.

## 6. Where the code and its words part

Four runs refute a sentence of the repository and are listed as findings.

- `aba_base`: `docs/PROTOCOL.md:204` says an apply is refused if the place moved. A complete reversal takes the version
  number back, later applies use it again, and a set built against the earlier tree of that number passes all three
  base checks.
- `review_stuck`: a reversal that arrives while a set is under review takes Approve and Reject off the panel
  (`plugin/src/init.server.luau:288`), and nothing brings them back until Studio is restarted.
- `half_open_probes`: `packages/core/src/breaker.ts:17` promises one probe after the cooldown. Every run that asks while
  the breaker is half-open is allowed.
- `partial_restore`: `plugin/src/Rollback.luau:262` drops the list of what could not be restored, so a reversal that
  brought a folder back without its script counts as complete.

Others came up while modelling. They are described by the models' actions and were not made into runs.

*Plugin and daemon.* Applying on the click's thread while the poll thread goes on (`plugin/src/init.server.luau:618` says
the link is quiet); two threads' reports may arrive out of order and the lower nonce is refused; a late delivery to a
stopped loop advances the cursor and is lost. A failed pairing leaves the transport nil, so a later decision is applied
and its report returns silently. The panel and `Diff.toText` print `counts.writeScript` as the number of scripts
(`Approve.luau:843`), although the comment at `Diff.luau:131` says that counting by kind of operation is what made the
panel say "0 scripts" and counts code elsewhere too. Of a script that is rewritten the panel shows how many lines go and
come and where the first one differs, and no code (`Diff.luau:248`); of other code it shows the first 12 lines. So
`ReviewIsHonest` says that all code is accounted for, by its first lines and the number of the others or by the region
that changes, and not that it could be read in full. `Journal.luau:168` puts every property and attribute of a recreated instance back in a `pcall`
whose refusal nothing records, and `instance.Name` outside of one. A hang-up during the last model call or the analysis does not end the run as
cancelled (`packages/daemon/src/server.ts:1098`); a run that still generates may lose its event log to eviction
(`packages/daemon/src/runs.ts:145`) and is then described as finished; a set rejected after approval is still
delivered; the answer to a pairing may be lost after the code was burnt, which leaves a link nobody holds
(`server.ts:661`); `#applyResult` writes status, version and journal separately (`server.ts:1469`).

*Pipeline.* A stored stage can go from `cancelled` to `applying` and from `done` to `failed`, because the stage that is
checked is the copy's; an `approve()` that rethrows leaves the run at `applying`.

*Journals.* After a partial reversal a journal may be reversed again, which `packages/cli/src/commands/rollback.ts:146`
denies, and a failed second attempt overwrites the first's result. The relay's `recordRollbackResult` calls
`rollbackStatusOf` without the number of inverses (`apps/relay/src/rollback.ts:396`), so a short report whose every
outcome is ok is stamped, under a comment that says `rolledBackAt` is stamped only on a clean reversal; the daemon passes
the number, and `packages/protocol/src/apply.ts:165` asks every caller that has it to. A ChangeSet evicted before its inverses are uploaded makes its apply irreversible, and an upload that
omits an applied operation passes the relay's checks.

*Connectors and clients.* `apply` prints the approve command for sets that are rejected or stale; a re-requested reversal
whose journal carries an older partial result ends the watch with the old state; exit 3 may follow a request that did
arrive; a grant consumed before a failing daemon call is lost, in MCP and in A2A; a cancel of an A2A task that is
working, or a second message to it, makes `execute()` throw ("only if the task store refuses a transition, which is a bug
in this connector", `executor.ts:52`), and the promise that `#track` derives from it (`jsonrpc.ts:294`) has no handler:
on Node 22, which the package requires, the process ends, with all tasks and unused grants; `failureBodyOf` parses from the first
`{`, so a message with a brace is not recognised; the A2A front checks neither Host nor Origin. The web reader knows no
CRLF; an idle Python socket raises a bare `TimeoutError`; a clean early close returns a run that is still `running`.

*Web.* The answer to an approval is shown over a later run's diff; the `finally` of a stopped stream clears `running` of
the next; an aborted fetch leaves `diffLoading` set; `observeVersion` can move backwards under two writers
(`apps/web/lib/projects/store.ts:206`); two tabs that seal the first key at once may leave one that cannot be opened.

*Catalogue, telemetry, allowances.* An unchanged sync does not refresh the staleness date; a charge that is no number and
an absent price are both published as free; paging without a total reads one page; a withdrawn and an added model cancel
out in the completeness check, so that a model which was listed throughout is skipped. The telemetry queue's cap never takes effect (`otlp.ts:97` and `:331`). When the tracked
keys reach their ceiling a live counter may be evicted and its allowance starts again (`apps/relay/src/abuse/store.ts:169`).

*Analyser.* A loop inside a closure in a loop's header loses the outer loop (`structure.ts:26`); a global after a type
annotation that ends in `>` or `?` counts as declared, although `query.ts:103` means to keep statements apart
(`TakenForDeclared` in `LuauRules`, which `AnalysisIsExact` takes off what must be found); `bindingOf` misses the values of an if-expression.

## 7. What is left

In this order:

1. Proofs: the remaining parts of `TasksAreSound`, `CatalogueKeepsItsWord`, and `AppliedOnReviewedTree` on top of
   `RisenInv`.
2. `Daemon` with its store writes split, so that a crash between them can be modelled.
3. An abstract place with atomic applies that `Plugin` refines, with the operations of `Place` instead of counts.
4. The schemas' shape checks, and the rules `http-egress` and `require-asset` of the analyser.

## 8. Not modelled, and why

- `scripts/generate-schemas.ts`, the client generators, `scripts/docs-claims-rules.ts` and the `verify-*` scripts run once
  over files of the repository and are no part of the running system; the generated wire models are their output.
- `packages/conformance` is a test harness for transports.
- `packages/core/src/prompt.ts` puts text together for a model; the answers it may get are inputs of the models.
- `plugin/src/Crypto.luau`, HKDF, HMAC, TLS and the vault's ciphers: arithmetic on bytes with no state.
- Pages, layout and widgets of `apps/web`: rendering of state that `WebRun`, `Credentials` and `Clients` model.
- Partly modelled: the protocol schemas (the fields that control depends on are records of the models), the command that
  starts a daemon, the clients' one-request calls, the single-statement calls of the SQLite store, and the two analyser
  rules above.
