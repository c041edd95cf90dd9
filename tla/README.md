# Counterlane: TLA+ models, TLC checks and TLAPS proofs

Counterlane (`src/src`) delegates a coding task to a Codex App Server inside an
isolated git worktree, verifies the result with a frozen plan, may escalate
once, records everything durably, and can apply the accepted patch to the
original checkout. `src/scripts/experiment-2x2.mjs` is the harness of a study of
what that saves. The code is single-threaded TypeScript, but almost every
operation awaits: files, child processes, JSON-RPC answers, other MCP requests
and other Counterlane processes interleave at every `await`. This directory
holds the models of that behaviour.

## Inventory

| Component | Source | State it keeps | Operations | What is hard | Correct when | Module |
|---|---|---|---|---|---|---|
| VGCL controller and attempt journal | `runner/vgcl.ts` | one JSON record and one lock file per run in a shared directory | `findPending`, `create`, `reserve`, `markRequestSent`, `markPreSendFailure`, `markTerminal`, `markAcknowledgementUnknown`, `finish`, `close`, `executeVgcl` | failed writes, process death, several invocations on one directory | the directory never says less was sent than was; at most two requests; a terminal record is settled and final | `AttemptJournal` |
| Arm execution | `runner/arm.ts` | the turn, patch and report of one attempt | `executeArm`, `classifyArmOutcome` | which error path leaves which result | only a verified turn is a success | in `AttemptJournal` |
| App Server turn | `codex/app-server.ts` | turn id, buffered notifications, completion, interrupts | `runTurn`, `close` | response, notifications, abort, timeout and exit in any order | no remote turn goes on after `runTurn` has ended; the result is that of the own turn | `CodexTurn` |
| JSON-RPC client | `codex/json-rpc.ts`, `codex/transport.ts` | the pending map, the child process | `request`, responses, exit, timeouts, aborts | late answers, retries, exit | a request settles once, by its own answer; nothing that creates state is replayed | `JsonRpcClient` |
| MCP server | `mcp/server.ts` | sessions, active requests, abort controllers | stdio loop, HTTP POST/GET/DELETE, expiry, shutdown | capacity reserved before an await, cancellation of running requests | capacity is never exceeded and always returned; what runs can be stopped | `McpServer` |
| MCP tools | `mcp/tools.ts` | receipts | `executeTool`, `executePreflight`, `persistProductReceipts` | the preflight is stale when the run starts; failure after the work was done | what was found ready runs, and nothing else | execute tool in `Delegation` |
| Worktrees and apply | `git/worktree.ts`, `git/repository.ts`, `git/snapshot.ts` | worktrees, locks, the original checkout | `createWorktreePair`, `create`, `capturePatch`, `applyPatchToOriginal`, `rollbackPatchFromOriginal`, `cleanup` | the user edits the checkout meanwhile; agents touch git state; each git step can fail | arms start equal; nothing is leaked; the checkout ends as certified patch or as before | `Worktrees`, `PatchTransaction` |
| Runners | `runner/single.ts`, `runner/twin.ts`, `runner/policy.ts` | arms, threads, result artifacts | `run` | errors and aborts between any two steps; arms that never end | what is made is released or kept on purpose; the artifact agrees with the checkout | `IsolatedRun`, `PatchTransaction` |
| Meta controller | `meta/*`, `runner/meta.ts` | evidence and plan | `decide`, `plan`, one nested run, one refresh | the plan is stale when it is used | at most one nested run spends; no action without its evidence | `Delegation` |
| Routing | `routing/*` | capability graph, calibration | `route`, graph construction, quota | numeric gates, ties | no route past a gate; escalation is strict | `Routing` |
| Verification | `verification/*` | frozen plan | `verify`, `verifyFrozenPlanIntegrity` | assets change while commands run | nothing passes that was not run intact | tiers and certification in `Routing`, `Delegation`; report shape in `AttemptJournal` |
| Atomic files, telemetry | `core/utils.ts`, `telemetry/store.ts` | per-path lock tails | `writeAtomic`, `withAtomicWriteLock` | concurrent writers, stale locks | writes to one path are serialised | not modelled |
| Processes and aborts | `core/process.ts`, `core/abort.ts` | child process, deadlines | `runProcess`, `terminateProcessTree` | kill escalation against exit | every run settles | not modelled |
| Receipts, reports, catalog, cost | `receipt/`, `report/`, `codex/catalog.ts`, `codex/cost.ts` | none | formatting, parsing, hashing | nothing interleaves | - | what routing reads of the catalog in `Routing` |
| Configuration, CLI | `config/`, `cli*` | none | parsing, printing | nothing interleaves | - | defaults and constraints in `Routing` |
| Experiment harness | `src/scripts/experiment-2x2.mjs` | ledger, lock, `attempt.json`, workspaces, artifacts | run a Codex assignment, import a Work bundle, derive, validate the claim | two processes, death between marker, turn and record | one turn per assignment, in the preregistered order; no saving claimed of a tainted arm | `TrialChecks`, `Experiment` |

How they interact: the MCP `execute` tool makes a preflight (profile, catalog,
quota, route), freezes a verifier plan and an envelope of what it saw, and calls
`executeVgcl`, whose executor is `SingleRunner`. The command `auto` plans with
the meta controller and runs one nested `SingleRunner` or `TwinRunner`
(`MetaExecutionRunner`). A runner takes a snapshot, creates its worktrees, reads
everything again, connects an App Server and calls `executeArm`; that calls
`runTurn` and the verifier; `runTurn` calls back `beforeTurnStart`, which makes
the journal persist the intent to send. The runner writes its artifact, and the
CLI may let it apply the patch. All App Server traffic goes through one
`JsonRpcClient`. The experiment harness runs the CLI as a child and keeps its own
lock and ledger.

The models meet where the code does: `Delegation` ends where a turn is sent and
what it returns is one of the outcomes `AttemptJournal` computes; that a turn
returns at all is `RunTurnEnds` of `CodexTurn`; `IsolatedRun` goes from the
snapshot to the end of cleanup with applying as one step, which `PatchTransaction`
takes apart; `AttemptJournal` and `Delegation` share the rule when a second
attempt is made.

## How to read this directory

| Module | What it is |
|---|---|
| `AttemptJournal` | the controller `executeVgcl` and its durable records, for any set of invocations |
| `SendLedger` | the abstract specification of what the journal promises about sends |
| `AttemptJournalProofs` | theorems about `AttemptJournal`; it implements `SendLedger` |
| `CodexTurn`, `CodexTurnProofs` | one call of `runTurn` against an App Server; theorems |
| `JsonRpcClient`, `JsonRpcClientProofs` | calls of `request` over one connection; theorems |
| `PatchTransaction`, `PatchTransactionProofs` | applying, verifying, recording and taking back a patch; theorems |
| `McpServer`, `McpServerProofs` | both MCP servers: sessions, calls, cancellation, expiry, shutdown; theorems |
| `Worktrees` | snapshot, creation, control state and shared refs of a run's worktrees |
| `IsolatedRun`, `IsolatedRunProofs` | extends `Worktrees` with the course of a single or twin run; theorems about both |
| `Routing` | the router and the capability graph as operators, in integers per mille |
| `Delegation`, `DelegationProofs` | extends `Routing` with the product tool and the meta runner, whose reads go stale; theorems |
| `TrialChecks` | the checks of trials, pairs and the claim of the 2x2 study, as operators |
| `Experiment`, `ExperimentProofs` | extends `TrialChecks` with the processes that run and record assignments; theorems |
| `MC*` | what TLC needs: symmetry sets and the values of constants |

`tlc -workers 2 -config X.cfg M` runs a model, with X and M from the table of
runs below; `tlapm M.tla` checks a module of proofs. `PROJECT.json` holds, for
each definition that models code, the lines it models.

Definitions that a comment calls *Faulty* are never part of a specification.
Each is a definition of the model with one plausible slip in it (a dropped
guard, a missing reset, a wrong order); put in the place of the real one it
makes one property fail, which shows that the property can.

## AttemptJournal

**Code.** `src/src/runner/vgcl.ts`, with the results `executeArm`
(`runner/arm.ts`) can return and the reports the verifier can make.

**State.** `pc[r]` is where invocation `r` of `executeVgcl` stands; `mem[r]` is
`AttemptJournal.#record`; `disk[r]` the record in the directory; `locks` the
`.lock` files; `listed` and `unread` what `findPending` got from `readdir` and
has not read yet; `verdict` what `classifyAttempt` said. `sent` and
`reconciled` are history: the `turn/start` requests that really left, and the
records an operator has removed.

**Actions.** One per await of the controller: `ListJournal` and `ReadRecord`
are `findPending`, `TakeLock` and `CreateJournal` are `create`, `Reserve`, `BeforeTurnStart`
(`markRequestSent` inside the callback `beforeTurnStart`), `SendTurnStart`
(outside the controller, in `runTurn`), `ExecutorReturns`/`ExecutorThrows`,
the three persists of `markTerminal`, `MarkPreSendFailure`,
`MarkAcknowledgementUnknown`, the calls of `finish`, `Escalate`, and
`CloseJournal` in the `finally` block, reached with a result (`returning`) or an error
(`throwing`). Closing or removing the lock file may fail there, which leaves the file
and turns the result into an error, and in the clean-up of a failed `create`, where
the failure is swallowed. Every persist (`Persist`) changes the
memory first and may then succeed, fail before the rename (the old record stays)
or fail after it (the new record stays and the caller sees an error): the
directory sync comes after the rename. `Crash` kills the process of a run at any
step; `OperatorReconciles` removes the pending record of a run that has ended,
which is what the error message asks for.

**Abstractions.** `transportRequestCount` and `modelAttemptCount` always change
together and are one number. `selectStrictSuccessor` is the choice between
`Escalate` and `FinishUnverified`. The results of an attempt are not free: they
are computed from the turn, the report and the stop reason by `ArmOutcome`,
`Downgrade` and `ClassifyAttempt`, over every combination the code can produce.

**Properties.** `WriteAhead`, `TerminalRecordIsSettled`,
`AdmittedOverSettledRecords`, `VerifiedIsEarned`; `LocksAreReleased`, that a result
reaches the caller only after the lock file is gone and the record durably finished, so
that a file left behind always means a death or an error; that a run with its lock is on
its way to the `finally` block is stated as an invariant (it stands where it has a next
step, for the reservation because `Reservable` holds) and not under fairness;
the refinement `ImplementsLedger`, from which
it follows that there are at most two requests and that a closed run sends no
more. `EscalationIsBounded` and `TerminalIsFinal` are proved and not run.

## CodexTurn

**Code.** `runTurn` and `close` in `src/src/codex/app-server.ts`, with the
part of `json-rpc.ts` and `transport.ts` that rejects requests and reports the
exit.

**State.** The closure variables of `runTurn` under their names (`turnId`,
`terminalSeen` for `terminalNotificationObserved`, `buffered`, `interrupts` for
`interruptPromises`, `contained` for `protocolContainment`), the first value
`completion` and the race settled with (a promise keeps its first value), the
request `response`, and of the server: the turn it really started (`own`), how
that turn ended (`remote`), the frames not yet read (`wire`).

**Actions.** One per continuation of an await (`Begin` to `InterruptAwaited`),
one per callback (`Abort`, `TurnTimeout`, `InterruptSettles`, `ServerExits`,
`PipeBreaks`, `FrameOverflows`), one per kind of message that
`processNotification` tells apart. A message is handled in one step, and a
continuation runs some time later: between an answer and the code after its
`await`, any callback may run.

**Environment.** The server starts at most one turn, writes each of its
one-time messages at most once and in any order with respect to the answer, and
makes at most `MaxFaults` protocol faults (an answer with the id of another
turn, a notification without ids). When it is closed or exits, frames can be
lost. `"cancelled"` is handled by the code like `"failed"` and is left out;
notifications that trip a bound on retained text or reroutes are one kind,
`"flood"`.

**Properties.** `NoOrphanTurn`, `CompletedIsOwn` (with the types and that the
buffer is drained before anything is decided), `ResultIsJustified`,
`AbortReachesTurn`; under fairness `RunTurnEnds`.
`NoOrphanTurn` has one exception, `broken`: when a write to a server that lives
on fails, `runTurn` returns `failed` at once and leaves the server to its
caller, which closes it (`runner/single.ts`, `finally`). The exception is part
of what the run shows: there is no other.

## JsonRpcClient

**Code.** `JsonRpcClient.request` and the handlers of `src/src/codex/json-rpc.ts`
over `codex/transport.ts`.

**State.** `pending` is `#pending`, `nextId` is `#nextId`; `pc`, `attempt`,
`idOf` are the local state of each call; `sent`, `executed`, `refused` are
history on the server's side, `outbox` the answers not read yet.

**Actions.** `Call` and `Retry` are one turn of the loop in `request` with
`#requestOnce` (`Attempt`); `TimerFires`, `GiveUp`, `Backoff`; `Abort`;
`DeadlinePasses` is the clock; `ReadAnswer` is `#handleResponse`;
`ServerExits` and `TransportError` are `#rejectAll`; `Close` ends stdin. The
server answers in any order, twice, late or never.

**Assumption.** A server that refuses a request as overloaded (`-32001`) does
not execute it; the client's retry of reads rests on the same assumption. The
transport itself, its framing and the answers to requests *of* the server are
not modelled.

**Properties.** `PendingIsWhoWaits`, `ResultIsOwn`, `NothingIsReplayed`; under
fairness `CallsSettle`. `NoneWaitsOnTheDead` is proved and not run.

## PatchTransaction

**Code.** The end of `SingleRunner.run` (`runner/single.ts`) and
`TwinRunner.run` (`runner/twin.ts`) over `applyPatchToOriginal`,
`rollbackPatchFromOriginal`, `verifyOriginalWithoutMutation` and `cleanup` of
`git/worktree.ts`, and the hashes of `git/snapshot.ts`.

**State.** `checkout` is what the original checkout holds, in four parts: how
much of the patch is there, whether the bytes are exact (line endings), who else
has edited it, and what verifier commands have changed. `Content` and `Working`
are what the two hash functions see of it: the second, like `git diff`, does not
see line endings. `callerHash`, `managerHash`, `before`, `baseline` are the
captures the code compares with later; `artifact` is `result.json` and, of the
twin, `certificate.md`; `forced` is `#forcePreserve`, `succeeded` the flag
`cleanup` gets.

**Actions.** One per git or file operation, with its failure as an action of its
own that needs a `Fault`, of which there are at most `MaxFaults`. Both runners
are one machine, since they differ in few steps: the twin has two artifact files
and repairs them, refuses to apply without a winner before it writes anything,
and sets its success flag at the end. `Edit(e)` is somebody else's change, or its
being undone, at any moment: to a file of the patch, another tracked file, a new
file, a record in the data directory, or a ref. `Verify` may change files or control state.
`Die` is process death.

**Abstractions.** A check and the `git apply` after it are one step, because
`git apply` checks again. Empty patches, the rewriting of `result.json` in the
`finally` block (it writes what is there) and the control checks of candidate
worktrees are left out. The second look after a restoration is folded into
`InspectChanged`: both its outcomes lead to the rollback.

**Properties.** `AppliedClaimIsTrue`, `CommittedIsVerified`, `RolledBackIsExact`,
`RecoveryIsKept`; `PreliminaryFirst` and `ArtifactsAgree` are proved and not run.
`CommittedIsVerified` says what the two captures around the verifier can show: they
are compared with each other, so an edit made after the comparison with the
candidate is accepted when both hold it, and one made and undone between them is
not seen. `seen`, `accepted` and `disturbed` are history: the checkout as the
verifier began and when it was accepted, and whether others touched the source
since the comparison. What no property claims: after a crash between
`git apply` and the applied artifact the patch is in the checkout and the
artifact says it is not; nothing in the code detects that. Only the opposite lie
is excluded.

## McpServer

**Code.** `src/src/mcp/server.ts`, both servers.

**State.** `phase[s]` is where session `s` stands (a session in the map is
`initializing` or `open`, one that has left it was `deleted`, `pruned` or
`dropped`); `active` is `activeRequests`, `controllers` the abort controllers of a
channel, `stale` who has not been touched for the TTL. `Stdio` is the one channel
of the other server. `pc`, `target`, `aborted` are the calls; `asked` is history:
whom a client or a shutdown asked to stop.

**Actions.** A POST is two steps, the arrival (with the expiry that every request
does first) and what follows its body: `CallArrives` and `CallStarts` or
`CallRefused`, `InitializeArrives` and `ReserveSession`, then `SessionOpens`.
`Cancel` is the notification, `Disconnect` a closed connection, `DeleteSession`
the DELETE, `HealthCheck` any request that only expires. `Shutdown` and
`ConnectionsClose` are the HTTP server's close with its grace timer, `StdinEnds`
and `StdioCloses` the end of the stdio loop.

**Abstractions.** Headers, authorisation, framing and what a tool does: a call
runs until it returns. Two calls may carry the same request id.

**Properties.** `SessionsAreExact`, `NoOrphanCall`, `StopsWhoWasAsked`,
`ClosedIsQuiet`; under fairness `ShutdownEnds`.

## Worktrees and IsolatedRun

**Code.** `git/snapshot.ts`, `createWorktreePair`, `create`, the control-state
checks and `cleanup` of `git/worktree.ts`; `runner/single.ts` and
`runner/twin.ts` from the first await to the end of the `finally` block.

**State.** Of `Worktrees`: the user's checkout and the shared refs as versions
(`source`, `refs`), the two readings a snapshot compares (`snap`), per arm the
step of its creation, its tree and what it was filled with, the chain of git
operations (`tail`, `waits`, `released`), and the dependency snapshot the
arms share. `IsolatedRun` adds the arms, threads, the server, the flags `forced`
and `succeeded`, and what the caller is told.

**Actions.** One per await of `run`: snapshot, profile, the creation of the pair
(each arm's steps interleave), connect, queries, threads, the arms in parallel or
in sequence, containment, the control check, artifacts, applying, and the
`finally` block in its order. Every await may throw (`MaxTrouble` of them), the
caller may abort at any time, the user may edit and commit, an agent may tamper
with the control state of its worktree or move shared refs, and nothing makes an
arm end. Creating a worktree may fail before anything is added (`StartCreateFails`)
or later (`AddFails`). A `thread/start` or `thread/fork` that the run saw fail may have
been carried out (a timeout, a lost answer: `JsonRpcClient` ignores what comes late):
the thread is then `"stray"`, open with an id that nobody holds. A `thread/delete`
reported as failed may likewise have been carried out.

**Properties.** `ArmsAreFaithful`, `NoWorktreeUnderAnArm`, `NothingIsLeaked`,
`TamperingIsUndone`, `OutcomeIsFaithful`; under fairness `RunEnds`. `NothingIsLeaked`
accounts for every thread whose id the run was told, and for every worktree. A stray
thread does stay; what holds of it is that its run has failed before any arm began.

## Routing and Delegation

**Code.** `Routing` is `routing/*` without the extraction of features: which
tiers a command set covers, quota state, calibration, `route` with its tables,
gates and ranking, the capability graph and `selectStrictSuccessor`, the static
policy. `Delegation` is `executePreflight` and `executeTool` of `mcp/tools.ts`,
`runner/meta.ts`, `meta/*`, `runner/policy.ts`, and what `single.ts` and
`twin.ts` read again and refuse before they send.

**State.** The surroundings are versions: `world` is the version of checkout,
catalog, quota and evidence that holds now, `plan` and `read` the versions that
the plan and the run read, `frozen` that of the verifier plan. A decision is
never stored, it is computed from the versions it was made of. `turns` is what
was sent and what it was based on.

**Actions.** One per group of reads that the code makes together (`Discover`,
`Inspect…`, `Freeze`, `Snapshot`, `Profile`, `Query`), one per decision (`Check`,
`Send`, `TurnEnds`, `Apply`, `Finish`, `Receipts`), and `Drift`, which moves one
of the four to its next version between any two of them.

**Abstractions.** Numbers are integers per mille, so a tie or a gate may fall on
the other side for values closer than that; candidates that are equal in every key of
the ranking and in model and speed, which differ in effort or tier, are taken in any
order, where the code keeps the order in which it enumerated them; one calibration context; the features
of a prompt and the posterior of the uplift are inputs. The product tool always
carries a speed mode and requires a check of its own (`secureMcpConfig`).

**Assumptions.** `EnvironmentAssumption`: two checkouts of one profile have the same
features, as routing computes them from the prompt and the profile alone
(`routing/features.ts:86`). `RoutingAssumption`: wants and configurations have all
their fields and no tier but the four, which schema and parser see to; all entries of
one model id are of one family, which `modelFamily` matches on its names
(`codex/catalog.ts:86`), so a server that renames a model into another family between
two reads is left out; and no effort or speed is called "auto", the word for nothing
asked. `NumbersAssumption`: weights, thresholds, usages and deadlines are numbers
(`config/schema.ts:30`, `codex/catalog.ts:62`). `CatalogAssumption`: the server lists a
model once and the default effort of a model among its efforts, and the configured
speeds are a list of names. Nothing in the code checks what it says of the server; only
`WhatIsReadyExecutes` needs it (see the observations under Findings).

**Properties.** `ReadyExecutes`, `SpendIsAuthorized`, `CertifiedIsCurrent`,
`SpendOnce`; under fairness `DelegationEnds`. `CertifiedIsCurrent` says what the
comparison at the end of a single run is worth: the checkout agrees with the
snapshot again after the profile was read, and only a checkout that has moved
three times can be certified on a snapshot of another profile than the planned
one. `Stronger` in
`SpendIsAuthorized` is the reference definition the graph is checked against: it
is stated on model, effort and topology and not on the edges of the graph.

## TrialChecks and Experiment

**Code.** `src/scripts/experiment-2x2.mjs`: `TrialChecks` is the validation of
trials, pairs and the claim as operators, `Experiment` the commands that run a
Codex assignment or import a Work bundle.

**State.** The files: `lock`, `ledger` and its `tail` (whole, without its last
newline, or unreadable), `marker` the `attempt.json` files, `disk` the artifacts,
`kept` the workspaces retained. Of each process: `pc`, `job`, `tries` and what it has
`held` in memory. History: `turns` and `truth`, the model turns spent and how they
really went; `shared`, two processes have held the lock at once; `left`, a process
was over and its lock file still there; `rejected`, the assignments whose line is in
the ledger although its append was reported as failed.

**Actions.** The lock is its five file operations (`OpenLock`, `WriteLock`,
`InspectLock`, `RenameLock`, `ReadBeforeRelease` with `Unlink`). A Codex
assignment is `CheckLedger`, `Prepare`, `WriteAttemptMarker`, `StartTurn`,
`EndTurn`, `Verify`, `AppendTrial` or `RetainPostRunFailure`; an import is
`Derive` and `AppendTrial`. `Crash` kills a process at any step. What fails:
`WriteLockFails`, and with it perhaps the removal of the file; `PostRunFault`, a step
after the turn; `AppendFails`, with nothing, a part, all but the newline or all of the
line written; `RetentionFails`; `ReleaseFails`, the clean-up of the workspace, which
`runCodexAssignment` awaits in its `finally` block before `releaseLock`, or a file
operation of the release itself: the lock file stays and its process is over.

`AppendTrial` is one step from the reading of the ledger to the append, although two
processes may be in it when both hold the lock. They have different Codex
assignments then, because of the marker. What two imports of the same assignment would
append in that case is not covered: `PreregisteredOrder` is about an import's order,
and about a Codex assignment's uniqueness too.

**Assumption.** An unwritten lock file becomes hours old only when its process is
dead. The schedule has an assignment, and what a turn or a bundle may say is of
the kinds the checks tell apart.

**Properties.** `OneTurnPerAssignment`, `PreregisteredOrder`, `TurnsAreOnRecord`,
`LockIsSound`, and `ClaimIsClean`, which is about studies that require both arms to
be verified. When two processes reclaim at once a lock file that was left behind,
both can hold it (`shared`): the properties say what still holds then.
`TurnsAreOnRecord` says of a record that it claims no more than what happened, and of
one that claims less that its contamination says so. A process death is left out of
its first part: the turn is then on no record, and only the marker tells of it.

## Runs

| Run | Model, configuration | Shows |
|---|---|---|
| `journal` | `MCAttemptJournal` | two invocations on one directory: all safety properties, and the ledger is implemented, 2.2 million states |
| `journal_refusal` | `AttemptJournal`, `AttemptJournalRefusal` | *violated*: two scans before either record exists admit both |
| `codex_turn` | `MCCodexTurn` | every order of answer, stream, abort, timers, faults and exit, and `runTurn` ends without any help of the server, 0.5 million states |
| `json_rpc` | `MCJsonRpcClient` | a read and a state-creating call share a connection and settle by their own timers, 0.7 million states |
| `patch` | `MCPatchTransaction` | both runners with three edits and two faults, 5.6 million states |
| `patch_failed_kept` | `MCPatchTransaction`, `PatchFailedKept` | *violated*: a failed run removes the worktree |
| `mcp_server` | `MCMcpServer` | two sessions and three calls at limits of one and two, over both transports, 0.3 million states |
| `experiment` | `MCExperiment` | two processes over one block with a crash or a failing file operation, 2.7 million states |
| `experiment_import` | `MCExperiment`, `ExperimentImport` | *violated*: a second import rewrites recorded artifacts |
| `isolated_run` | `MCIsolatedRun` | a single run and three twins with two failures, an abort, edits and tampering, 0.7 million states |
| `delegation` | `MCDelegation` | 32 requests, each with three drifts and a failure, 65 thousand states |
| `meta_constraints` | `MCDelegation`, `HardConstraints` | *violated*: `auto` with a model family runs another |

Deadlock is checked in the two runs of `Delegation`, where an answered request
stutters (`Done`) and every other state must have a step. All other configurations
turn it off: each of those systems is over at some point (a run returns, a turn
ends, all calls settle), and what must not stop before is a liveness property or,
for the journal, `LocksAreReleased`.

**Bounds.** *Journal*: two invocations, because every property relates a run to
itself or to one other; within a run nothing is bounded, the code itself allows
two attempts. *Codex turn*: two turn ids (its own and a wrong one), one protocol
fault, a buffer of one and one notification of progress, which with the terminal
one overflows it; three unread messages, so that an answer, `turn/started` and
the end are on the wire together. *JSON-RPC*: one call of each kind, three unread
messages; the number of attempts is the code's (three), ids grow to four.
*Patch*: three edits of five kinds, so that one can be made and undone and another
precede or follow a capture, and two faults, so that an operation and its recovery can both fail.
*MCP server*: limits of one and two with three calls and two sessions, so that
each limit is met and exceeded; two of the calls share a request id. *Experiment*:
one block of four assignments in an order that mixes both surfaces, the kinds of
run the checks tell apart, two lock attempts, and one process death or one failing
file operation; the import run needs one process and no trouble. *Isolated run*: twins side
by side and in sequence, each policy for keeping worktrees, with and without
applying and forking; two troubles, so that a recovery can fail too. *Delegation*:
two or three models, few efforts and speeds, and for every refusal of the code a
request that meets it; three drifts let a source move and others follow it, or the
checkout move, move back and move again, which is what passes the comparison at
the end of a run.

**Symmetry** is used in `journal` over invocations and in the experiment runs over
processes; neither has a liveness property.

**Fairness.** *Codex turn*: weak fairness of the client's own steps, which include
its timers; that every await has a timer is what makes it justified
(`requestTimeoutMs`, the interrupt, terminal and shutdown timeouts), and the
mutant that removes one of them breaks the property. No fairness is assumed of
the server, the reader or the caller. *JSON-RPC*: weak fairness of each call's
continuations and of the clock; none of the server. *MCP server*: the grace timer
and the end of the loop, and that a tool heeds its abort signal; none of clients
or of a tool nobody stops. *Isolated run*: the run's own steps and, for a twin, its
maximum timer (`Abort`); nothing makes an arm end, and a single run has no such
timer, so `RunEnds` is about twins. *Delegation*: weak fairness of leaving a
stage: every await returns, a turn because of `RunTurnEnds`. The journal needs no
fairness; that the controller's steps come is implied by its awaiting only file
operations and an executor that ends. In `IsolatedRun` and `Delegation` the
specification with fairness is `FairSpec`; the theorems are about `Spec`, which
allows more.

## Findings

1. **`RefusesWhilePending`** (`runner/vgcl.ts:102`, `:114`). The scan and the
   creation of the record are separate awaits without a lock on the directory.
   A run admitted by an earlier scan opens its journal while the record of a run
   that has ended is pending. The comment at `vgcl.ts:350` promises a refusal
   that is "deliberately global to the configured host journal root".
2. **`FailedRunsAreKept`** (`runner/single.ts:280`). The success flag is set
   before the artifacts are durable, so a failed write of them removes the
   worktree under the policy `on-failure`; the twin sets its flag at the end.
3. **`HardConstraintsHold`** (`runner/meta.ts:111`). When the controller decides
   `static`, the static policy runs whatever model, family, effort, speed or
   topology the request asked for; `docs/configuration.md:161` calls these "hard
   constraints" whose unsupported combinations "return an error rather than
   silently falling back".
4. **`RecordedArtifactsStand`** (`experiment-2x2.mjs:1668`). Importing a recorded
   Work assignment again rewrites the artifacts of its trial before the import is
   refused, and `experiment-2x2.mjs:453` then fails every command on the ledger.

Observations that no document of the repository contradicts, met while modelling:

- A twin takes its snapshot and its profile at the same time (`twin.ts:101`), so
  it can route one checkout and execute on the next; `CertifiedIsCurrent` leaves
  twins out for this reason.
- A single run compares the profile after the snapshot, and the snapshot at the
  end. A checkout that moves from the planned state to another before the snapshot,
  back before the profile and again to the other before the end passes both
  (`single.ts:108`, `:110`, `:275`): its result is certified for the snapshot, but
  was routed for the other state.
- The profile in the envelope knows paths and counts only
  (`git/repository.ts:199`): an edit of a file that is dirty already passes the
  envelope check, and is caught only when it changes an asset of the frozen plan
  or comes after the snapshot.
- A successor of a stronger tier than the frozen plan's makes the verifier throw
  (`verifier.ts:120`): its turn is spent and its candidate stays unverified. An
  attempt's own use of quota can invalidate the envelope for the second one.
- The preflight leaves learned outcomes out and the run counts them
  (`tools.ts:583`, `single.ts:219`), so a request can be found ready and refused;
  `ReadyExecutes` is stated where nothing was learned.
- A model whose default effort is not among the efforts it lists, and which lists none of
  the configured ones, is routed at its default (`router.ts:227`); asked for again by name
  that effort is not enumerated (`router.ts:230`), so a request found ready is refused.
- A second plan that would be a twin becomes static whenever the static route is
  admissible, and a failing cleanup of a single run replaces the error that asks
  for a second plan.
- A run of the journal whose lock file cannot be closed or removed throws from its
  `finally` block (`vgcl.ts:187`, `:478`): the caller gets that error although the record
  may durably say `verified`, and the file stays. `create` swallows the same failure
  (`vgcl.ts:343`). Nothing reads the `.lock` files, so no later run is refused.
- An edit of the checkout between the comparison with the candidate
  (`single.ts:318`, `twin.ts:402`) and the capture before the verifier
  (`git/worktree.ts:597`) is verified, accepted and recorded as applied together with
  the patch, and one made and undone between the two captures (`:597`, `:614`) is not
  noticed; `CommittedIsVerified` is stated accordingly.
- The `finally` block of `runCodexAssignment` awaits `cleanupExperimentWorkspace`
  before `releaseLock` (`experiment-2x2.mjs:1236`, `:1290`): when the removal of the
  workspace fails the lock stays and names a pid that is soon dead. So it does when
  closing or removing it fails (`:2004`, `:2016`). The next commands reclaim it by a
  rename of whatever has its name, and two of them can then hold the lock at once.
- An `appendFile` (`:1959`) that rejects after its line is in the file makes the
  caller retain a failure: the logs the line hashed are written over (`:1323`), the
  failure is refused as a duplicate, the workspace is kept and the ledger no longer
  validates. When only the newline is missing the line is read as a record, and the
  next append runs into it and makes the ledger unreadable.
- A turn that passed both verifiers and whose post-run processing then failed is
  recorded as a failure with the contamination `other` (`:1293`).
- A `thread/start` or `thread/fork` that times out, or whose answer is lost, may have
  opened a thread (`single.ts:249`, `twin.ts:243`; `json-rpc.ts` drops the late answer).
  Nobody holds its id, so the clean-up of the run, which has failed then, does not
  delete it.
- After a crash between `git apply` and the applied artifact the patch is in the
  checkout and the artifact says it is not.
- An attempt whose verifier passed and whose success `executeArm` then turned into
  a failure (`arm.ts:191`) is classified as a candidate defect and can escalate; a
  twin with `applyWinner` and no winner throws before it writes an artifact
  (`twin.ts:375`); what a failing `git apply` has written stays
  (`git/worktree.ts:480`).

## Proofs

TLAPS proves, for every value of the constants:

| Module | Theorems |
|---|---|
| `AttemptJournalProofs` | `TypeCorrect`, `Inductive`, `WritesAhead`, `TerminalRecordsAreSettled`, `EscalatesAtMostOnce`, `AdmissionIsStable`, `VerifiedClaimsAreEarned`, `TerminalRecordsAreFinal`, `LocksAreGivenBack`, `JournalImplementsLedger` |
| `JsonRpcClientProofs` | `TypeCorrect`, `Inductive`, `PendingIsExact`, `ResultsAreOwn`, `NoReplay`, `NobodyIsForgotten` |
| `PatchTransactionProofs` | `TypeCorrect`, `Invariant`, `ArtifactBeforePatch`, `ClaimsAreTrue`, `ArtifactsTrue`, `AppliedWasVerified`, `RollbackExact`, `RecoveryKept` |
| `CodexTurnProofs` | `Inductive`, `NothingIsOrphaned`, `CompletionIsOwn`, `ResultsAreJustified`, `AbortsArrive` |
| `McpServerProofs` | `TypeCorrect`, `Inductive`, `CapacityIsExact`, `NobodyIsOrphaned`, `StopsAreExact`, `NothingRunsOn` |
| `IsolatedRunProofs` | `Inductive`, `ArmsKeepTheirWorktrees`, `ArmsStartEqual`, `CleanupIsComplete`, `TamperingIsFound`, `OutcomesAreTrue` |
| `DelegationProofs` | `Inductive`, `CertifiedWasRouted`, `SpendsOnce`, `SpendsAreAuthorized`, `WhatIsReadyExecutes` |
| `ExperimentProofs` | `Inductive`, `NoRerun`, `OrderIsPreregistered`, `TurnsAreAccountedFor`, `ClaimsAreClean`, `LockWorks` |

The assumptions are those the modules name (`RunsAssumption`, `CallsAssumption`,
`PatchAssumption`, `TurnsAssumption` and `BoundsAssumption`, `McpAssumption`,
`MarksAssumption` and `OutcomeAssumption`, `EnvironmentAssumption`,
`RoutingAssumption`, `NumbersAssumption` and `CatalogAssumption`, `ExperimentAssumption` and `CommandAssumption`): finite sets where the code has
finitely many, marks that differ from what they mark, bounds that are numbers, and
the statements about data named above. TLC evaluates them in every run.

**AttemptJournal.** None of the properties is inductive: each depends on what
memory and directory hold at each place of the controller. `IInv` says that for
one run (`RunInv`): before its record exists nothing was sent (`Fresh`); while it
works, its record is pending in memory and on disk, both are the same except
after a failed write, earlier attempts are settled candidate defects and later
ones untouched (`Open`); and place by place how often the current attempt was
counted and sent (`Attempting`). A step of a run leaves all other runs alone
(`StepIsLocal`), so `RunInv` is proved action by action for one run; the actions
that persist come in two families, those that leave the record pending
(`RecordKeeps`) and those that close it (`FinishKeeps`). `Scanned`
is the only relation between runs; it holds because a terminal record is final.
`VerifiedReportPassed` and `LostTurnIsNoDefect` are facts about
`classifyAttempt` over all results `executeArm` can return. `LocksAreReleased` needs
three more facts than `IInv`: who works holds its lock, and who holds it works, has died
or ended with an error (`LockHeld`); a result on its way out is durable (`Answered`); and
a run works on a record that waits for an operator only while it records just that
(`Unquestioned`), so that the guard of `Reserve` holds wherever the code reaches it.

**Refinement.** `Claims`, `TotalSent` and `Status` map a run to the ledger.
Every step of the journal either leaves them alone or is one step of the ledger:
a `BeforeTurnStart` that reaches the disk is `Claim`, `SendTurnStart` is `Send`,
a durable `pre_send_failed` is `Withdraw`, a durable terminal state is `Close`,
and the operator's step is `Forget`. A failed write maps to the same step as a
successful one when the new record is on disk, and to a stutter otherwise.

**JsonRpcClient.** Ids are fresh, so an entry of the map names one request and
one call (`IdsAreFresh`); a call moves on to another id only after the server
has refused the last one (`RefusedBefore`); what is refused is not executed
(`ServerIsHonest`). So at most the last request of a call is executed, and an
answer that is accepted is an answer to it.

**PatchTransaction.** `IInv` relates where the run is to what has an outcome and
a reason (`Course`), what the checkout holds (`Holding`), that both hashes were
taken without the patch (`Hashes`), that every look at the source from the
comparison to the acceptance finds no edit unless others have touched it
(`Undisturbed`) and that what is accepted is what the snapshot holds (`Window`),
what the artifact files say (`Paper`),
and what `cleanup` will see (`Ending`). Each part has a lemma with one step per
phase of the run, or per action where the phase needs it.

**CodexTurn.** Every message on the wire or in the buffer tells the truth about the
one turn the server runs (`MessagesAreTrue`): it names that turn, and one that says
the turn has ended says how. So a promise settled from a message under the turn's
id is true (`PromisesAreTrue`), and stays true, because the end of a turn, of the
server and of the pipe are final. `InPlace` says what is known and over at each
place of `runTurn`, which is what the three other properties are read from at its
end. That draining the buffer finds a terminal message where there is one
(`SmallestIndex`, `DrainingIsTrue`) is the only induction,
and uses the well-foundedness of the naturals from the library.

**McpServer.** The controllers of a channel in the map name exactly the calls that
run on it (`Registered`), so whatever takes the channel out of the map and aborts
its controllers aborts all of them. The counter of a session is the number of its
calls and of the reservation it was opened with (`Counted`), so a session that is
idle has none, and expiry orphans nobody. Limits are proved with the cardinality
lemmas of the library, for any sets and limits.

**IsolatedRun.** An arm is launched only when both are ready, each in a registered
worktree with a handle (`PairInStep`, `ArmsAreFilled`); from then on the run waits
for its arms or, when they do not stop, keeps everything (`ArmsAreKept`), so the
removal of worktrees never meets a running arm. What is checked after the arms have
settled no agent can move any more (`RefsAreWatched`). An arm has at most one
operation in the chain of git commands, so of two queued ones one waits for the
other, and the last is the tail (`ChainInOrder`). `ThreadsAreKnown` and
`DiskIsHandled` account for what cleanup meets, the first also for the stray threads: a
run that has one has thrown, and its arms were never launched; the parts of `Worktrees` are
proved in the same induction, because its steps are steps of the run.

**Delegation.** Versions only grow, so the order in which a run reads the checkout
is the order of their numbers (`Reading`), and from three equal readings in that
order `CertifiedIsCurrent` follows by comparing them. Nothing that a turn was sent
on is read again after it, and the plan, once it was frozen, stays (`Contract`), so
that what `Check` compared still holds at `Send` and for every turn sent. Each
round sends once, and only a product reaches the second after a first
(`Spending`).

`SpendIsAuthorized` needs what a decision guarantees, for any tables, histories and
weights. Its choice is one of its candidates, whatever the keys compare
(`ForemostIsOne`); a candidate without rejections passed each gate (`GatesOpen`), so
its route is allowed by the quota and the checkout it was scored with
(`AdmittedIsAllowed`). A policy names its model, effort, topology and tier
(`Proper`), so asking for them again enumerates nothing else (`PinnedAgrees`): what
the run revalidated has the family, effort, topology and tier of what it executes,
and its speed was compared. `Authorized` carries this from `Check` over `Send` to
every turn. Each edge of the capability graph leads to more of one thing and less
of none (`SuccessorIsStronger`), and the second turn of a product is such a
successor of its first (`TurnsAreRounds`).

`ReadyExecutes` needs what a decision leaves out. The run asks again for what the plan
selected, so for fewer candidates than the plan did. Each of them scores as before and
meets no gate that was not there (`NarrowedScore`: naming a speed lifts one gate and adds
none), and the selected route is still among them (`NarrowedRoutes`). Precedence on keys
that are numbers is a strict order (`PrecedesIsStrict`), so of finitely many candidates
there is a best one, and the best of a set ranks like the best of every part of it that
it is in (`BestOfFewer`). Every key is a number for candidates of which nothing was
learned (`ScoresAreNumbers`), the candidates are finitely many (`EnumerationIsFinite`),
and the last key, the place of the speed in the configuration, tells speeds apart
(`TurnTellsSpeed`). So the speed that the run compares is the one planned
(`AskedAgainStands`). The inductive invariant `Ready` says of a request that has sent
nothing in its first world that its plan and its reads are those of the first versions
and that a plan that stands has a reason to (`PlanStands`); with `PlanIsKept`, `Check`
then finds nothing to refuse.

**Experiment.** The exclusive attempt marker alone admits one process per
assignment to the turn and on to the ledger, whoever holds the lock (`Spent`); so
`OneTurnPerAssignment` holds also when two processes have reclaimed the same lock
file at once; it is exclusive until one was left behind (`LeftBehind`). The lock only keeps what a process has checked from changing
before it acts on it (`Locked`, `Exclusive`). What a process carries is of its own
assignment (`Carried`), so a record says of a turn what happened in it
(`AllHonest`), and a turn that is not on record has somebody who carries it or its
workspace kept (`InHand`). A process with a turn in hand has no line in the ledger
but for one whose append was reported as failed (`Unrecorded`), which is why only the
files of such a record are written over.

**Only model-checked.** The numbers of `Routing`: the averages are folds over sets,
and of an estimate it is proved only that it is a number where nothing was learned.
Everything under fairness (`RunTurnEnds`, `CallsSettle`,
`ShutdownEnds`, `RunEnds`, `DelegationEnds`), which is out of the prover's reach.

## Not modelled

Path containment, symlink rules and the parsing of git's output in
`git/worktree.ts`; transport start-up, framing, server requests and approvals;
the extraction of features from prompts; the running of checks, mutation probes
and the classification of assets; the thin MCP tools beside `execute`; receipts'
contents, reports, prices, schema validation and the command line (no state of
their own, nothing interleaves); of the experiment harness the shuffle, the
preparing and sealing of bundles and the report. Locks of atomic writes,
telemetry and child processes enter the models by what their users rely on: a
write is one rename, a read of evidence is an input, a child ends or is ended.

Two dangers are known and stated by no property: the first observation above, and
what a process death leaves between applying and recording.

## Plan

In this order; each entry is a module, its composition and what is worth stating.

1. `AtomicWrites` and `Telemetry` (`core/utils.ts`, `telemetry/store.ts`): the
   per-path chain of writers, stale locks; the journal's assumption that a write
   is one rename as the abstract specification it implements.
2. `ProcessRun` (`core/process.ts`, `core/abort.ts`): kill escalation against
   exit and output bounds; every run settles once.
3. `Verification` (`verification/*`): the frozen plan against assets that change
   while commands run, which gives the set `Reports` of `AttemptJournal`.
