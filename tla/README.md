# Airlock: TLA+ models and proofs

Airlock puts an access layer in front of an LLM gateway (LiteLLM). One Go binary plays three
roles: `control` (organizations, users, keys, approvals; PostgreSQL), `edge` (checks an API key
and proxies the request; writes usage to ClickHouse) and `migrate`. This directory holds the
specifications of its concurrent and failure-prone parts, the configurations TLC checks them
with, and proofs checked by TLAPS. Paths below are relative to the repository root.

## 1. The system

| Component | State | Operations | Correct when |
|---|---|---|---|
| Key issuance, cleanup, revocation: `internal/control/keyissue.go`, `keystore.go`, `keyapi.go` | rows of `api_keys` (status, `upstream_blocked_at`, `upstream_block_attempts`); the virtual key in LiteLLM | Issue, cleanup, CleanupStalePending, Revoke, RevokeByOrgSubtree, RevokeAll, BlockPendingUpstream, Rotate, RetireExpiredPrevKeys | no upstream key without a row; a key handed out works; a revocation is final and reaches LiteLLM; nothing stays pending |
| Offboarding: `reconciler.go` | users' status, their keys and sessions | ReconcileOnce, RevokeByUsers | whoever left loses keys and sessions, however the round is interrupted |
| Approvals: `approval.go`, `requeststore.go`, `requestapi.go` | rows of `requests` | Submit, Approve, Reject, Claim | one verdict, one key per approval, a truthful audit trail |
| Approval worker: `approvalworker.go` | `requests.attempts`, `reclaimed_at`; a key's `max_budget` in LiteLLM | ExecuteApprovedBumps, ReclaimExpiredBumps, DeliverPending, Nudge | a temporary bump is executed or given up, and ends |
| Notification outbox: `requeststore.go`, `internal/notify` | rows of `notifications` | Enqueue, DeliverPending | at least once, at most five attempts |
| Usage writer: `internal/usage/batch.go`, `clickhouse.go` | channel, slice, `dropped`, `closed` | Write, run, Close | nothing is lost uncounted, nobody blocks or panics, Close drains |
| Organization tree: `orgstore.go`, `orgapi.go` | rows of `organizations` (parent, materialized path, key holder) | Create, Move, Delete, SetKeyHolder, Rename | paths tell the tree, no cycles, keys only on key holders |
| LiteLLM sync: `litellmsync.go`, `syncapi.go` | organizations and teams in LiteLLM | Plan, ReconcileOnce, DropNode, Nudge | converges, never deletes what is still wanted |
| Directory import: `importdiff.go`, `importapply.go`, `ldapsource.go`, `csv.go` | organizations with an external id | ComputeDiff, ApplyImport | parents first, repeatable, never deletes |
| Login, sessions, bootstrap: `auth.go`, `oidc.go`, `sessionstore.go`, `userstore.go`, `bootstrap.go` | users, sessions, login states, grants | HandleCallback, RequireSession, maybeGrantBootstrapAdmin | disabled users stay out, seats hold, bootstrap closes |
| License: `internal/license`, `internal/control/license.go` | the verified licence | Status, AllowWrite, AdmitNewUser | expired means read-only, full means no new user |
| Authorization: `internal/authz`, `grantstore.go`, `grantapi.go`, `approvers.go` | roles and grants | Can, Scopes, Permissions, CanGrant, ApproversOf | the five agree with each other |
| Edge authentication: `internal/edge/auth.go`, `internal/apikey` | none (reads `api_keys`) | ByHash, Validate | accepts active keys and hashes in their grace window only |
| Edge proxy: `internal/edge/proxy.go`, `stream.go`, `internal/openai` | per request | ServeHTTP, pipeStream | one usage record per request; the stream is relayed unchanged |
| Pricing: `internal/pricing` | price table | SelectTier, Cost, Lookup | the right tier, rounding, the price in force |
| LiteLLM client: `internal/litellm` | none | HTTP with a 10 s time-out | (environment of the others) |
| Wiring: `cmd/airlock`, `internal/app`, `internal/config` | goroutines | start, loops, shutdown | (schedules the others) |

Interaction. HTTP handlers of the control plane run concurrently. They share no memory with one
another or with the background loops; all of them meet in PostgreSQL, one autocommitted statement
at a time, and in LiteLLM, one HTTP call at a time. A handler reads the user once (`RequireSession`)
and goes on with what it read. Loops (`internal/app/control.go:229-302`):
offboarding, LiteLLM sync, approval worker, sweep of stale pending keys, key maintenance (block,
then retire). `Nudge` only wakes a loop earlier. The edge reads `api_keys` on every request and
shares the batch writer between its handlers in memory.

Hard behaviours. (1) Two stores without a common transaction: a row and its counterpart in
LiteLLM are changed by separate calls, each of which may fail, take effect and lose its answer,
or take effect after its caller has given up. (2) Check-then-act over several statements, with
the guard in a WHERE clause in some places and only in a preceding SELECT in others. (3) The
process may die between any two steps; rows and scans have to repair what is left. (4) Bounded
retries (five block attempts, five executions) that end in a state for a human. (5) In-memory
concurrency in the batch writer: a read-write lock, a bounded channel, a goroutine to drain.
(6) Decisions on what was true a moment ago: an image of the tree read in three calls, a seat
counted before it is taken, a permission asked before the write, a directory fetched before the
users. (7) The same question answered along several ways (Can, the approvers, the lists, the
workbenches), which must not drift apart. (8) Arithmetic at its edges: tier bounds, rounding,
products of 64-bit integers.

## 2. Modules

| Module | Models | Checked by | Proofs |
|---|---|---|---|
| `KeyLifecycle` | Issue, both cleanups, three ways of revocation, block scan, crashes | `MCKeyLifecycle` + 3 cfg | `KeyLifecycleProofs` |
| `Requests` | approval flow and worker | `MCRequests` + 3 cfg | `RequestsProofs` |
| `OrgTree` | tree operations statement by statement, with the calls they race with | `MCOrgTree` + 2 cfg | `OrgTreeProofs` |
| `UsageLedger` | what the batch writer promises (abstract) | through `UsageWriter` | `UsageWriterProofs` |
| `UsageWriter` | the batch writer; implements `UsageLedger` | `MCUsageWriter` | `UsageWriterProofs` |
| `LiteLLMSync` | the tree, its image in LiteLLM, the rounds, Nudge, DropNode | through `DirectoryImport` | `SyncProofs` |
| `DirectoryImport` | ComputeDiff, ApplyImport beside all of `LiteLLMSync` | `MCDirectoryImport` | `SyncProofs` |
| `Authz` | roles, resolver, derived answers, route table, enforce (operators) | through `Access` | through `AccessProofs`, `AuthorityProofs` |
| `Access` | the calls that change or use grants, from enforce to the write; cost reports; outbox | `MCAccess` | `AccessProofs`, `AuthorityProofs` |
| `Pricing` | price table, tiers, cost (operators) and a reference for them | through `Gateway` | `GatewayProofs` |
| `Accounts` | login, bootstrap, seats, sessions, the offboarding round | through `Gateway` | `GatewayProofs` |
| `Gateway` | issuing and rotation of keys, authentication and accounting of a proxied call, beside `Accounts` | `MCGateway` | `GatewayProofs` |

Composition. `DirectoryImport` EXTENDS `LiteLLMSync`: imports are one more editor of its tree, and
nudge its loop. `Access` EXTENDS `Authz` and changes the tables its operators speak of. `Gateway`
EXTENDS `Accounts`, whose reconciler revokes the keys that it issues, rotates and authenticates with, and `Pricing`.

Conventions. A database statement and an upstream call are one atomic step each; everything
between two of them may interleave. `Outcomes` are "ok" (done, and the caller knows), "err" (not
done) and "lost" (done, and the caller sees an error). An actor is a variable that says where its
operation stands. A definition whose comment begins with *Mutant* is a plausible bug, not code:
it documents what a property guards against, and replacing the definition it mirrors by it makes
TLC report that property violated. History variables are marked as such; no guard reads them.

### KeyLifecycle

`row`, `stamp`, `attempts` are columns of `api_keys`; `upstream` is LiteLLM's side. `Issue` is
`CreatePending`, `GenerateKey` (or `GenerateTimesOut`, with `LateGenerate` possibly following),
`MarkActive`; a failure starts `CleanupProbe`, `CleanupRemove`, `CleanupDrop`, which the sweep
(`SweepList`) also runs for rows left pending. `RevokeFetch`/`RevokeMark` is `KeyIssuer.Revoke`;
`LeaverSelect`/`LeaverMark` is `RevokeByUsers`, whose SELECT and UPDATE are two statements; both go
on to `InlineBlock`/`InlineStamp`. `BulkRevoke` is one UPDATE and leaves blocking to the scan
(`ScanList` ... `ScanRecord`). `Restart` is a crash of the control process.

A key is one Issue call, because ids and key values are fresh random values. `SweepList` requires
that no Issue call is running on the row: the sweep's age limit is far above the duration of an
Issue call, all of whose calls have time-outs.

### Requests

Columns of `requests`; `budget` is the `max_budget` LiteLLM enforces for the one key all bumps
target, represented by the request that asked for it. Handlers: `Submit`, `Decide`, and `Claim` as
`ClaimFetch`, `ClaimIssue`, `ClaimMark`, `ClaimRevoke`. Worker: `ListApproved`, then per entry
`BumpUpdate`, `BumpMark`, and on failure `BumpRecord`, `BumpFail`; `ListExpired`, then
`ReclaimUpdate`, `ReclaimMark`; `RoundEnds`. The worker works on the list it read, as the code
does, while handlers change the table.

`ClaimIssue` is all of `Issue`, by what it leaves: a key that is handed over, nothing, or - when
MarkActive commits, its answer is lost and the cleanup gives up because KeyExists fails
(`keyissue.go:126-129`, `153-159`) - an error and an active key nobody was given; `KeyLifecycle` has
the steps in between. The request stays approved then and can be claimed again. `attempts` is
counted without a limit, as `IncrementAttempts` does; `MaxAttempts` bounds the runs: a MarkFailed that
is due succeeds before that many (`Spare`). MarkFailed asks for no status, so that it may settle
as failed a bump whose MarkExecuted took effect unseen.

Not represented: amounts (a key with an unlimited budget is reclaimed to 0), an `UpdateKeyBudget`
that LiteLLM executes after its client gave up and after a later call, and several control
processes. The permission check before a verdict and the notifications are in `Access`.

### OrgTree

`row`, `parent`, `path`, `holder` are columns of `organizations`; `live`, `spent`, `home` and
`asked` are the nodes that a live key, a revoked key, a user or a request refers to. A call
(`call`, `step`) is one request; what it has read is in `old` and `base`. `CreateRead`/`CreateWrite`
is `Create`; `MoveReadNode`, `MoveReadParent`, `MoveUpdate`, `MoveCommit` (or `MoveRollback`) is
`Move`; `DeleteBegin`, four `DeleteCheck`s and `DeleteWrite` are `Delete`; `UnmarkRead`/`UnmarkWrite`
is `HandleSetKeyHolder`; `IssueRead`, `IssueWrite`, `IssueActivate` (or `IssueFails`) is what `Issue`
does to this table and to `api_keys`. Foreign keys are guards of the writes.

The transaction of `Move` is two steps, because at READ COMMITTED its first UPDATE fixes which rows
it will look at. Locks are not represented: a row that another transaction changes first is looked
at again (`MoveCommit` repeats the condition), which is what waiting for its lock amounts to, and a
victim of a deadlock is a `MoveRollback`. `overtaken` is a history variable: a call is in it when
what it had read was changed before it wrote. Where two calls cannot be kept apart, a property excuses what such a call leaves.

Not represented: names, `Rename`, external ids, imports and nudges, which are in `LiteLLMSync` and
`DirectoryImport`, and `role_grants`, which cascade with their node (`Access`).

### UsageWriter and UsageLedger

`UsageLedger` knows records, a counter and three phases: a record is taken in or refused at once,
later stored or given up, refusals and losses are counted, and nothing is held after closing.
`UsageWriter` has the read lock, the check, the send, the channel, the slice, the ticker, the
insert and the drain. The refinement mapping (`Ledger == INSTANCE UsageLedger WITH ...`) calls a
record held while it is in the channel or in the slice, and missing when its Write has returned
and it is nowhere. An insert that fails may have stored any part of its batch: the table is
partitioned, and an answer can be lost.

### LiteLLMSync and DirectoryImport

`path`, `name`, `holder` and `ext` are columns of `organizations`; `upOrg` and `upTeam` are
LiteLLM's side. A round (`round[r]`, of the loop or of a `HandleTrigger`) reads the rows
(`PlanLocal`), then the organizations, then the teams, and works off its plan call by call
(`CreateOrganization` ... `UpdateTeam`, `SkipTeam`, `RoundEnds`). Handlers are one statement each,
then `Nudge`, which fills a channel of one place; a deletion is `DeleteGet`, `DeleteRow` and
`DropNode`, with LiteLLM's cascade from an organization to its teams. A HandleImportApply is
`Fetch`, then `Look` and `ImportCreate` per added entry, parents first, `ImportRename` per
difference of a name, and `ImportEnds` or `Abort`, which comes before the nudge.

A statement of a handler may commit and lose its answer like any other: the handler then returns
before Nudge (`orgapi.go:136-140`, `157-161`, `199-203`, `253-257`), and a deletion before DropNode
(`orgapi.go:217-220`).

History variables: `behind` (edited since the loop last began), `silent` (written by aborted
imports and by statements whose answer was lost, so that nobody will nudge), `disturbed` (imports that somebody else's edit overtook), `excused` (nodes whose
remains upstream have a reason). One edit is one statement here; `OrgTree` takes them apart.

### Authz and Access

`Authz` holds operators on the tables `active`, `home`, `grants`, `path` and `expired`: `Can`,
`HeldAt`, `Scopes`, `CanGrant` of the resolver; `ApproversOf`, `EffectiveGrants`, `VisibleOrgs`,
`ToApprove`, `CostScope`, `Workbenches`, each as its own source computes it; `Routes` and `Enforce`.

In `Access` a call goes through `Admit` (session, licence, route), a check of its handler (`Ask`)
and its statement (`Written`), with other calls in between: grants, homes, node edits, submissions,
verdicts, cost reports. `call[i]` keeps the user as read at the start, as the code does. Users are
disabled and the licence expires by themselves.

A body is read twice. `enforce` takes the key of exactly its field's name and, where there is none
or the body is no plain object, asks at no node (`routes.go:80-101`); the handler decodes it without
regard to case, and takes the last of several. So the actions of `create_grant`, `assign_home`,
`create_org` and `submit_request` have two parameters, `asked` for what enforce asks about and the
other for what is written, any pair of which may come. A handler's own check (`CheckGrant`) covers
what is written for a grant; for a home, a new node and a request there is none.

`ApproversOf` and the page of a node (`EffectiveGrants`) are compared with the resolver for all users.
The page lists disabled ones as well, whom Can would give nothing (`grantstore.go:233-237`), and
nobody for being at home there; `GivenAt` says so.

`Notify` fills the outbox and `ListPending`, `Send`,
`Mark`, `RoundEnds` are `DeliverPending`, with a server that takes, refuses, or takes and seems to
refuse. A round takes all that is pending; the code's batch of 50 is left out. A grant is named by what it says; its id adds nothing since the index on it is unique.

### Accounts, Pricing and Gateway

`Accounts` has the callback (`Exchange`, `ByExternalID`, `AdmitNewUser`, `Upsert`,
`CountGlobalGrants`, `GrantBootstrapAdmin`, `CreateSession`) and the reconciler's round
(`FetchRemote`, `ListActive`, `MarkDisabled`, `RevokeByUsers`, `DeleteByUser`, `RoundFails`)
statement by statement. `directory` is what LDAP and the identity provider know of a person.
`calm` and `round.new` are history: whether another login has written since this one counted, and
who joined while a round was reading.

`Gateway` adds `HandleIssue`, `MarkActive` and `Cleanup`: a key is issued for whoever has a row in
users, disabled or not (`keyapi.go:86`), revoked while pending (`reconciler.go:170-172`), and made
active whatever its row has become (`keystore.go:60-71`). A person has one key at a time. `forgotten`
is history: whose key no round will revoke any more, because a round was broken off after
MarkDisabled or because MarkActive came after the round. It adds `HandleRotate`, `Rotate`, `RotateAnswered`, `RetireExpiredPrevKeys` and the clock;
`Authenticate` with the current and the previous hash; and `ServeHTTP` up to `Write`: the body with
its early returns, an answer out of `Answers` (a set of sequences of frames with their ends), what
of it is sent on (`Sent`), recorded (`Streamed`, `Account`) and charged (`Priced`). A frame has content
in the delta, elsewhere ("text", as of `/v1/completions`, which is proxied too) or none, and is
withheld as one of usage only if it has usage and no delta (`openai/usage.go:104-127`).
`stream_options: null` panics in the edge (`Panics`, `stream.go:41-48`) before the upstream is called,
and the deferred Write records a call without error and without usage. `Pricing` has
integers of `Word` bits that wrap around; `TierAbove` and `Exact` are the reference: the tier after
all those the input is above, and every token at its price, unrounded. Records that are written go to
`UsageWriter`.

## 3. Runs

| Run | Question | Bounds |
|---|---|---|
| `key_lifecycle` | all safety and liveness properties of a key, under fairness | one key, five block attempts |
| `key_terminal` (violated) | is `revoked` terminal, as the design says? | the same |
| `key_ownerless` (violated) | is an upstream key without a row impossible, as the migration says? | the same |
| `requests` | safety of decisions, claims and budgets | two requests of either kind, two deciders, two Claim calls, five attempts and one more (`MaxAttempts`) |
| `requests_live` | do bumps settle and end? | two bumps, two attempts |
| `requests_permanent` (violated) | can a temporary bump become permanent? | as `requests` |
| `org_tree` | paths, references and key boundaries under races | three calls, four shapes of three nodes, two new ids |
| `org_cycle` (violated) | can a node get below itself? | the same with two calls |
| `usage_writer` | the writer's safety, liveness and refinement | five records, channel of two, batches of two |
| `directory_sync` | do edits, imports and rounds agree, and does LiteLLM converge to the tree? | three nodes and two ids, two external ids, two edits, two imports, one fault; the loop and a manual round |
| `access` | can authority leak, do the derived answers agree, are reports in scope and notices settled? | three users, three nodes and an id, three roles, two calls with every pair of readings of a body, one fault, two delivery attempts |
| `gateway` | who gets in and who stays out, which credentials pass, what a call costs | three people with a key each at most, two seats, two calls, one fault, a clock of three values, words of eight bits, seventeen answers |

Why the bounds are enough. *One key:* keys influence each other only through statements and
crashes that hit several at once, and each of these acts on every key as it would on that key
alone; the theorems hold for any set of keys. Two keys exceed ten million states. Five attempts is
the code's own limit. *Two requests:* two bumps meet in the budget of one key, two Claim calls in
one request; a third adds no new pair. Two attempts in `requests_live` are one retry and giving
up; the attempt beyond the limit is one whose MarkFailed did not get through. *Five records:* with a channel of two and a batch of two, a full slice being inserted, a full
channel and a refused record exist at once. *Three calls on three nodes:* a race has two calls, and
the third prepares or uses what they leave; four shapes are all forests of three nodes (up to
renaming), the least with a subtree that has a subtree. A call is used once, so that every run is
finite. The symmetry (calls among each other, the two unused ids) is sound: no definition tells
them apart, and the run has no liveness property.

*Two edits, two imports:* an edit overtakes a plan, a second one overtakes the first's clean-up;
two imports race for one external id. One fault suffices for each step to fail while the rest
goes on, and convergence is about what comes after the last fault. The tree has a node of each
kind (root, organization, team), and moves make the others of them. *Two calls (access, gateway):*
every hazard there is a pair: a check and the write that invalidates it, two first logins and the
last seat, a rotation and a call. The starting tables hold what a third call would have prepared.
*Words of eight bits* with prices, counts and a second scaled to them make products fit, overflow
and wrap to an admissible window in one instance; versions, bounds and the clock are placed so that
a call falls before, on and after each.

The violated runs. `key_terminal`: MarkActive has no guard on the status, so a key revoked while
its Issue call runs comes back active. `key_ownerless`: GenerateKey times out, cleanup finds
nothing upstream and deletes the row, LiteLLM then executes the call. `requests_permanent`:
an attempt raises the budget and fails afterwards until the attempts are used up; the request is
marked failed, and only executed bumps are reclaimed. `org_cycle`: two moves, of *a* below *b* and
of *b* below *a*, both check before either commits. The properties of the passing runs say what
does hold next to these: `HandedOverRevocationIsFinal`, `HandedOverKeyIsServable` and
`StampMeansBlocked` name the overtaken Issue call (`cutShort`), `NoOwnerlessCredential` the late
execution (`late`), `RaisedBudgetIsTracked` the failed mark, `TreeIsWhole` the stale reads
(`overtaken`), as the only ways.

Where the code falls short in the newer modules, the property says so as an exception, next to what
does hold:

- `CascadeSparesAttachedTeams`: deleting an organization upstream takes along a team that has moved
  away and is not attached to its new organization yet (`litellmsync.go:336`).
- `Converges`/`InSync`: `UpdateTeam` omits an empty organization, so that a team that came to depth 1
  is never detached.
- `EditsAreNoticed`: an import that is aborted returns before Nudge (`orgapi.go:325`), and so does a
  handler whose statement committed with its answer lost. Both wait for the ticker (`silent`).
- `LeftoversHaveAReason`: a DELETE whose answer is lost returns before DropNode, and no round deletes.
- `OneKeyPerApproval`: an Issue that fails after MarkActive leaves an active key nobody was given,
  and a second Claim makes another.
- `ImportTakesEffect`: an import whose child was selected without its parent is aborted midway.
- `LeaversStayOut` and `forgotten`: a round that fails between MarkDisabled and RevokeByUsers is
  not resumed, since the next one lists active users only; the log line at `reconciler.go:114`
  promises otherwise. A key that is made active after the round - issued to a disabled person, or
  revoked while it was pending - stays in use for the same reason. `Listed`: a directory entry counts
  as enabled (`ldapidentity.go:47`), although the comment at `reconciler.go:48` speaks of disabled users.
- `AccountsChangeForAReason` and `calm`: concurrent first logins exceed the seats, and concurrent
  bootstrap logins, or one after the last administrator was disabled, make another administrator;
  `round.new`: who joins while a round reads is disabled.
- `CredentialsFade` and `Fits`: `window_seconds` times a second may overflow to an admissible window.
- `CallsAreAccounted`: a plain body without usage is recorded without error at no tokens, whereas
  a stream without it is `usage_missing`; of several usages in a stream the first counts; a request
  that panics leaves a record that cannot be told from one that cost nothing, and no answer; text
  that comes with usage in a frame without a delta is withheld along with it.
- `ReportsStayInScope` and `calm`: if all nodes of a reader are deleted between collecting them and
  the query, the list is empty, and an empty list is no filter (`reader.go:89`).
- `ViewsAgree`: a grant on a node of a role with a global permission shows a workbench in which
  nothing can be used, and the page of a node lists disabled users; `CheckDelete`: revoking a grant
  needs no part of what the grant gives.
- `AuthorityComesFromAuthority` speaks of what the caller held when he was last asked. What he has
  lost before the statement is not looked at again, nor where a grant's node has moved meanwhile. A
  home, or a new node's parent, may be another node than enforce asked about, if the body names its
  field twice; `call[i].held` is then what he held at the one asked about.

Deadlock is not checked: with every key revoked, every request settled, the writer closed and all
calls answered the models have nothing left to do but loop or stop.

## 4. Fairness

Weak fairness is given to steps of loops and handlers that have begun: goroutines that can run do,
tickers tick, every call has a time-out. No fairness makes a user submit, decide, claim, revoke,
write or close. Strong fairness is given to the success of a step that is tried again and again
(a cleanup's calls, a failed attempt's UPDATE, a reclaim): the database and LiteLLM do not fail
every single time. `<>[][Work]_vars` says that the process does not crash for ever (it names the
steps that remain, since a regular step that ends in the same state as a crash is no crash).

In `directory_sync` the loop's rounds, in `access` the worker's steps, in `gateway` the reconciler's
steps are weakly fair; calls, logins, imports and manual rounds are not, nor is any outcome. Faults
are bounded by `MaxFaults`, which says of liveness that what is claimed happens once the faults end;
the mail server may refuse for ever, which is why notices end as failed too.

## 5. Proofs

Each proof module EXTENDS its model; the theorems hold for every value of the constants that meets
the named assumptions.

- `KeyLifecycleProofs`: `TypeCorrect`, `NoOwnerless`, `HandedOverServable`, `HandedOverRevocation`,
  `StampsAreTrue`, `LoopsDoHeal`. The key idea of the invariant is what each actor that is under way may rely on:
  while a cleanup runs nobody else activates the row, a cleanup that is about to drop the row has
  seen the upstream key gone, a stamp in progress belongs to a key that has been blocked.
  `LoopsDoHeal` is the part of `PendingIsTransient` and `RevocationReachesUpstream` that needs no
  fairness: a pass of the sweep or of the scan in which no call fails does to the key what it is for, and
  for good. It rests on what any step may do to an issued key (`KeyStep`): nobody brings back a row
  that is gone, a stamp goes only with its row, and sweep and scan leave a key by themselves.
- `RequestsProofs`: `TypeCorrect`, `AuditCorrect`, `OneKeyIsHandedOver`, `VerdictFinal`,
  `BudgetTracked`, `RoundsSettle`. `ListIsFresh` is the strengthening: what the worker read when it made its list is
  still true when it reaches an entry, because nobody else changes an approved or an executed bump.
  `VerdictFinal` says of MarkFailed what it can: nothing becomes failed but a bump whose attempts are
  used up. `OneKeyIsHandedOver` adds that a call has no key before it issues one, and that one which has
  given its key up has had it revoked (`KeyFollowsClaim`), so that the usable keys of a request are the one its row names and
  those of calls that are running, were cut short or failed.
  `RoundsSettle` is the part of `ApprovedBumpSettles` and `ExpiredBumpIsReclaimed` that needs no fairness:
  nobody but the worker takes a listed bump off its way (`Executing`, `Reclaiming`), so that a pass over
  the list in which no call fails executes, or reclaims, all of it.
- `OrgTreeProofs`: `TypeCorrect`, `ReferencesCorrect`, `StrandedCorrect`, `TreeCorrect`. For the last
  two the invariant says what each call may rely on until it is overtaken (`MarkersRead`,
  `PathsRead`), and `IdsAreFresh` that an id about to be created is nobody else's. The heart is the
  lemma `MovedWhole`: rebasing all paths below the old one keeps a forest whole if the new parent is
  not below the node. It needs that a path ends in its node (`PathEnds`) and names nodes only
  (`PathNamesNodes`, by a least counterexample). Nothing bounds the tree or the number of calls.
- `UsageWriterProofs`: `TypeCorrect`, `NeverPanics`, `CloseIsComplete`, `LossIsCounted`,
  `Refinement`, `WriterWindsDown`. `Places` (a record is in one place and its Write has returned) and `Ending` (the
  order of a shutdown) are the inductive part; `LossIsCounted` adds the arithmetic of cardinalities
  for finite sets of records; `Refinement` maps each step to a step of the ledger or a stutter.
  `WriterWindsDown` is the part of `CloseReturns` and `HeldIsSettled` that needs no fairness: while Close
  waits or a record is held, the guard of some step that fairness drives holds (`CanGoOn`), and every
  step of any goroutine makes a natural number smaller (`Left`: a record weighs six before its Write and
  less at each place it comes to; run and Close have a few steps to go). `Loaded`, that a flush before
  the last one has something to flush, is what makes it smaller there too.

- `GatewayProofs`: `AccountsAreReasonable`, `CredentialsDoFade`, `CostIsRight`, `TypeCorrect`,
  `CallsAreRecorded`, `KeysLoseTheirUsers`, `RoundsPutOut`. For the first the
  invariant is what a login may rely on: what it counted holds until another login is recorded as
  having overtaken it (`CountsHold`), and what a round has read describes what it is about to do
  (`RoundIsRight`). For the second it is that the row agrees with what the holder was told
  (`RowsTell`). `CostIsRight` is about the arithmetic alone: the first tier an input fits in is the
  one after all it is above (`TierIsRight`, by a least counterexample and the cardinality of an initial
  segment), each of the parts loses less than one unit by truncation (`PartIsRight`), the sum of four
  less than four and cannot overflow if its terms do not (`PartIsSmall`), for every word width, scale
  and price, negative ones included. `CallsAreRecorded` builds on it: `AccountIsRight` goes through the
  ways a call can end, with streams of any length (`FirstAndLast` finds the usage that counts and the
  version in effect), and the invariant `CallsInv` keeps a record what it was when its call ended.
  `RoundsPutOut` is the part of `LeaversStayOut` that needs no fairness: once a round has fetched a
  directory without a person who is gone and has no login under way, what it knows of him (`Leaving`)
  survives whatever logins, rotations and failures of others come in between, and at the end of the
  round he has neither an active account nor a key in use; no login can bring him back. A key of
  his is in use again only after a late activation. For the key it needs `KeysHaveUsers`, which
  `KeysLoseTheirUsers` proves from a start where it holds: a key is in use without an active account
  only while a round is about to revoke it, or if its owner is `forgotten`.
- `AccessProofs`: `ViewsAreRight`, `AccessTypes`, `NoticesDoGetSettled`. First, on any well-formed tables (`TablesFit`),
  each of the six ways of computing an answer agrees with the resolver, the approvers and the page of
  a node for every user there is, the others for whom a session lets in; they rest on *o is in
  Subtree(n) iff n is in Above(o)*, which holds because what stands on a path has the path that ends
  with it (`Whole`). Then every action keeps the tables well-formed, the heart being again that a move
  rebases a whole subtree (`MovedIsWhole`, along `RebasedPrefixes`). `AccessTypes` adds the outbox:
  the deliveries of a notice are at most its attempts, the failures so far and the one in hand
  (`OutboxFits`). `NoticesDoGetSettled` is the part of `NoticesAreSettled` that needs no fairness: nobody
  is told twice of the same event, because a request is submitted by one call and decided by one
  (`ToldOnce`), what is marked as sent has been taken (`MailIsTrue`), and a pass of the worker takes
  something off what a notice has left (`InHand`).
- `AuthorityProofs`: `ReportsAreInScope`, `AuthorityIsPassedOn`. The invariants say what a call that
  is about to write has been asked, and what its caller held there (`Authorized`), and that what a report has found out holds until
  somebody overtakes it (`InScopeOf`). `AuthorityIsPassedOn` is then about one step: whoever gains a
  permission gains it by the statement of one call (`GainsBy`); a grant gives no more than its role
  where it stands, a new home no more than what is granted from there up, and a created or moved node
  gives authority only to those who have it at the new parent, its caller having been found to hold
  `org:write` (for a move at the new parent itself, for a creation at the node enforce read).
- `SyncProofs`: `ImportTypes`, `EditsNoticed`, `CascadeSpares`, `Leftovers`, `ImportsTakeEffect`,
  `RoundsMend`. The tree stays whole
  under every editor (`TreeInv`), and what is to be done of a plan is part of it (`PlansFit`).
  `Carries` is why an edit is noticed: an import keeps what it writes among what it has made until it
  nudges or is aborted. `CascadeSpares` needs only that a path names nodes and a cascade starts from
  a deleted one. For `Leftovers` the invariant (`Accounted`) is that what is upstream under an id, or
  planned to be, is what its node is, an organization attached to itself; `Effect` says which steps
  make a node something else, and all of those are excused. For `ImportsTakeEffect` it is `Intact`: of
  a call nobody has disturbed, what it has still to do is exactly the difference there is between what
  it was given and the tree, and what it has added stands where the directory has it. So an aborted
  one lacks a parent that was not selected (`OnlyOrphans`): one that was would have had to come first.
  `RoundsMend` is the part of `Converges` that needs no fairness: a round of the loop that nobody
  disturbs leaves nothing to do, whatever state it found. Its invariant (`Mending`) says that the plan
  wants just what the tree wants (`RoundPlans`), that the lists hold just what is missing
  (`OrgsMended`, `TeamsMended`), and that no team waits for an organization that is not there
  (`OrgIsThere`): a tree that is whole has the organization of every team among its wants
  (`WantedOrgOf`), and organizations are made before teams. What is in agreement stays so
  (`NextInSync`).

Assumptions: bulk selections are sets of keys; limits, capacities, scales and widths are positive, and `MaxAttempts` is above `MaxExecute`;
the set of records is finite; `None` is none of the ids; the tables `OrgTree` and `Access` start from
are whole and refer to nodes, and so are the trees of `LiteLLMSync`; the accounts and keys `Gateway` starts from are consistent with each
other, its prices are what `NewMemoryTable` lets through, a scale is four or more, bodies and answers
have the shapes the edge parses. TLC evaluates them in every run.

Model-checked only: the four violations, and all liveness, since it depends on fairness:
`RevocationReachesUpstream`, `PendingIsTransient`, `ApprovedBumpSettles`, `ExpiredBumpIsReclaimed`,
`HeldIsSettled`, `CloseReturns`, `Converges`, `LeaversStayOut`, `NoticesAreSettled`. For each of these
nine the proofs leave little to fairness: that a pass, round or step that is possible is taken, comes to
its end, and is not disturbed by failures and crashes for ever.

## 6. Plan

Done: the lifecycle of keys, the approval flow with its worker and outbox, the tree, the usage writer,
the synchronization with imports, accounts and offboarding, rotation and the edge's accounting, and
authorization. Left, in this order:

1. Amounts in `Requests`, so that what a reclaim restores can be told from what it should.
2. `Claim` with the plaintext key composed with `KeyLifecycle`, instead of one step `ClaimIssue` with the outcomes of Issue.
3. Expiry of sessions and login states beside `Accounts`.
4. The tree with atomic edits as an abstract specification, which `OrgTree` implements as long as no
   call is overtaken.

Not modelled, and why. *Cryptography* (`internal/cryptobox`, license signatures, PKCE, token and
cookie values): pure functions whose correctness is not a matter of states; ids and keys are
distinct values here. *OIDC, LDAP, SMTP* protocols and the *reading of CSV*: I/O whose answers are
inputs of the models. *ClickHouse's aggregation*: a query of an external store; what is asked of it
is modelled (`Narrow`, `Reported`). *Listings* (keys, users, sync status, own requests): they read and
show. *HTTP multiplexer, static files, configuration, migration, web console*: declarative, or run
once, without state that several actors change.

Note that `internal/app/edge.go:62` starts the edge
with an empty price table, so that in production every call is recorded as `price_not_found`; the
instance gives the table entries, since the code of the table and of the cost is there.
