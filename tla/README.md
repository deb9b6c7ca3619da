# Keidai in TLA+

This directory models the parts of Keidai whose correctness depends on the order
in which replicas, requests and other systems take their steps. It is read beside
the code: every definition that stands for code is listed in `PROJECT.json`
under `map` with the lines it translates.

## The system

Keidai runs agents for an operator and puts a policy between an agent and the
tools it may call.

| Component | State | Operations | Talks to |
| --- | --- | --- | --- |
| **Shaiden, runs** (`apps/shaiden/src/run`, `runs`, `http`) | `runs` row (status, lease, parked MCP task, outcome, transcript), `run_steps`, `run_follow_ups`; per process the drives, their heartbeats and stop flags | launch, sweep of parked runs, follow-up, resume, stop, drive (claim, park, poll, checkpoint, complete, release) | Torii over MCP, OpenRouter, Fuda, the sandbox |
| **Shaiden, schedule** (`schedule`, `tasks`) | `tasks` row (trigger, `next_run_at`, claim, attempts, failure, archive) | dispatch tick, PATCH, archive, run now | the run store |
| **Shaiden, sandbox** (`apps/shaiden/src/sandbox`, `apps/shaiden-sandbox`) | workspaces and `.uid-map.json` on a volume; in the server run locks, threads and the runs' processes | execute, delete, list; the sweep | the run store |
| Shaiden, agent token provider, OpenRouter credential, attempts and stats | a cached JWT; a sealed key; attempt rows | mint, seal, count | Fuda |
| **Torii, gated calls** (`policy/approval*`, `tasks`, `dispatch`, `mcp`) | `approvals`, `approval_rejections`, `mcp_tasks` | `tools/call`, `tasks/get`, `tasks/cancel`, approve, reject, cancel | backend MCP servers |
| **Torii, group policy** (`policy/*group*`) | `groups`, `group_server_policies`; a snapshot in each process | vote on a tool; create, update, delete a group; refresh | |
| **Torii, OAuth credentials** (`credentials`) | `oauth_tokens`, `pending_oauth_links`; refreshes in flight in each process | link, callback, resolve, refresh, unlink, wipe | OAuth providers |
| **Torii, connectors and connections** (`connectors`, `connections`) | `connectors`; in each process the registry, two maps of live MCP clients, a LISTEN socket | create, update, delete, reconcile, reconnect, evict | backends, the other replicas by NOTIFY |
| Torii, catalog, trace, identity | a tool list, append-only traces, a key set | refresh, append, verify | |
| **Fuda, owners and agents** (`apps/fuda/src/owners`, `agents`, `bearers`) | `owners`, `agents`, `agent_bearers` | login, PATCH, DELETE, create an agent, apply `operators.yaml` | Torii (wipe of grants) |
| Fuda, token exchange and keys | a signing key | exchange, publish | |
| **keidai-ui, OAuth link dialog** (`apps/keidai-ui/src/oauth`) | one hook's state and refs, a popup | open, begin, poll, message, retry, close | Torii through the BFF |
| keidai-ui, BFF and the other pages | sealed session cookie; view state | login, pass-through | all of the above |
| shared, postgres, ui packages | none of their own | slot arithmetic, clients, transactions, partitions | |

The interactions that matter. An agent's tool call goes from a Shaiden drive to
Torii. If a group lists it as gated, Torii answers with a task instead of a
result; Shaiden parks the run on that task and gives up its lease. An operator
decides in Torii; a poll from Shaiden (`tasks/get`) then executes the approved
call and fetches its result, and whichever replica's sweep gets the run's lease
resumes it. Meanwhile the operator posts follow-ups, stops, continues, edits
the task's schedule, changes groups and connectors, links and unlinks providers,
deletes owners, and replicas come and go. Nothing but single Postgres
statements (and a few transactions) is atomic.

### What is hard

* **Interleaving between awaits.** Every handler is a sequence of statements;
  the conditions it checked may no longer hold when it writes. Some writes carry
  their condition with them (`markUsed`, `claimRun`, `decidePending`,
  `claimDueTasks`), others do not (`save`, `complete`, `setConversationHistory`,
  `recordScheduleSuccess`, PATCH, the upsert of a token, `updateIdentity`).
* **Leases and claims that lapse.** The holder may be slow rather than dead. No
  write is fenced.
* **Crashes** between two statements: between claim and execution, outcome step
  and row, start of a run and advance of its slot, token and link, agent and grant.
* **Copies in memory.** The policy snapshot, the registry, the connection maps and
  the refreshes in flight belong to one process; a write on another replica reaches
  them late or not at all.
* **Late and stale answers.** A poll, a list of running runs, a transcript read
  before the claim is used after it; a request outlives the dialog it was made for.
* **Liveness.** Parked runs, approved calls and due slots have no owner; some
  replica has to come back to them.

`PROJECT.json` lists the hazards at the line where each bites, with the properties
that cover it. Where the code falls to the hazard, a note there says what the properties exempt and, if
they exempt the hazard itself, none is listed; what the code does then is among "Where the code and its documents disagree" below.

### What makes each component correct

* Gated calls: one decision per call, final; an approved call reaches the backend
  at most once, any other call never; a rejection reaches the agent; no result
  that the backend did not give; an approved call is settled.
* Runs: one driver at a time; one outcome per segment (launch or continuation);
  no accepted follow-up lost; every call answered, by its own task; a completed
  run holds nothing; a settled park is picked up; no run without a driver.
* Schedule: a slot starts one run, and no more than one for each start that was not recorded; the row waits for a slot of its own trigger;
  the second failed start, and archiving, stop the schedule; a due slot is settled.
* Group policy: a decision is one that some committed state of the table gives, for
  every set of groups; a replica honours the writes it has answered.
* Credentials: one refresh at a time, a stored refresh token that still works, a
  completed link has a token, what was unlinked stays gone.
* Connectors: every replica's registry and connection end up as the row says.
* Owners: there is always an active admin; deleting an owner leaves neither agents
  nor grants; an agent can be used by the platform; a subject keeps its owner.
* Link dialog: it reports its own link and its own errors, and a wait can end.
* Sandbox: runs share no uid and no process; an execution keeps its directory and a
  running run its files; a uid that is not free is accounted for; the workspace of a completed run goes.

## Modules

| Module | Models |
| --- | --- |
| `ApprovedCall` | Abstract: what Torii promises for a gated call. |
| `GatedCalls` | Torii's approvals, task store and dispatcher, refining `ApprovedCall`. |
| `GatedCallsProofs` | Proofs about `GatedCalls`. |
| `RunLifecycle` | A Shaiden run: row, lease, transcript, follow-ups, and all that drive it. |
| `RunLifecycleProofs` | Proofs about `RunLifecycle` and `GatedRun`. |
| `GatedRun` | The composition: a run of Shaiden and the Torii that executes its parked calls. |
| `TaskSchedule` | A scheduled task: dispatch loops, slot arithmetic, edits, the run in the way. |
| `ScheduleSlots` | The calendar search that gives a schedule its next slot. |
| `ScheduledTask` | The two together: the slot a row holds is the one the search finds. |
| `TaskScheduleProofs` | Proofs about `TaskSchedule`, `ScheduleSlots` and `ScheduledTask`. |
| `OAuthGrants` | One owner's grant at one provider: tokens, refreshes, links, callbacks, wipes. |
| `OAuthProofs` | Proofs about `OAuthGrants` and `LinkDialog`. |
| `GroupPolicy` | The groups, their writers, each replica's snapshot, and the vote on a tool. |
| `GroupPolicyProofs` | Proofs about `GroupPolicy`. |
| `ConnectorSync` | One connector: row, registries, connection maps, NOTIFY and LISTEN. |
| `ConnectorSyncProofs` | Proofs about `ConnectorSync`. |
| `Owners` | Owners, agents and the platform's grants under logins, deletions and boots. |
| `OwnersProofs` | Proofs about `Owners`. |
| `LinkDialog` | The browser's side of linking a provider, with the part of Torii it sees. |
| `Sandbox` | The workspaces of runs: the sandbox server, and what Shaiden sends it. |
| `SandboxProofs` | Proofs about `Sandbox`. |
| `MC...` | Small instances for TLC. |

Each module keeps, next to the definition it replaces, a few *mutated forms*:
plausible bugs (`MarkUsedUnguarded`, `ClaimUnguarded`, `NextRunAtInclusive`).
Nothing uses them in a specification; putting one in place of the definition must
break the property that `PROJECT.json` names under `mutants`.

Several modules keep *history variables*, marked `history` in their declarations.
No guard of code reads them. They name the cases a property leaves out (a lease
that lapsed, a count that was overtaken, an answer that was lost), so that the
exemption is a matter of what happened and not of the state the code is in; what
the code does in those cases is stated by the properties of the last table below.

### GatedCalls

`task` and `approval` are the rows, `expired` the ids past their TTL,
`rejections` the suppression rows, `executed`, `btask` and `cancelPosted` what
the backend has seen (external). `req[r]` is one HTTP request: `pc` is its next
statement. An `UPDATE ... WHERE` is one action (`MarkUsed`, `DecidePending`). A
task-store writer is two, as in the code: one reads the row and prepares the
amended copy (`FinishRead`, `AttachRead`, `RequestCancelRead`), `Save` upserts the
copy. Requests, on any replica, interleave between any two; `Crash` ends one anywhere.

Left out: `requireInput` and `tasks/update` (nothing outside tests moves a task
to `input_required`), operator ownership checks (they only refuse), the ungated
direct result (it leaves no state), wording, pagination.

### RunLifecycle

One run. `run` is its row, `history` the stored transcript reduced to the call
without an answer, the source of each answer and the operator's messages; `queue`
and `posting` are the follow-ups stored and those between `enqueueParkedFollowUp`'s
SELECT and INSERT. `drv[d]` is an activity on replica `Home[d]`: a launch, a
continuation or a sweep; `pc` is its next statement. The actions follow
`launchHarnessRun`, `resumeParkedHarnessRuns`, `beginContinuation`,
`resumeHarnessRun`, `driveHarnessRun` with its catch and finally blocks, `runTaskLoop`
with the parked-task waiter, and `complete`. `slips` records what has taken the
run from under its driver: a lease that `lapse`d under a slow holder, a `release`
of the replica's next driver, a `rescue` of somebody else's run. The safety
properties are stated for behaviours in which nothing slipped, and some for all.
`overtaken` records a step whose reads were old when it wrote: the sweep claims or parks
again a run that has a transcript or a parked task it has not read, a continuation reopens one
with a transcript that is not the stored one any more. `claimRun` and `setParkedMcpTask` look at status and
lease alone, so the code takes such steps; what it does then is `AnsweredByOwnTask` of the last table,
and what holds until then is `OwnAnswer` and `TranscriptKept`.

A poll ends in one of three ways. It may fail for good however the task stands (`PollFailed`,
`PollResult`), since `isFatalMcpPollError` takes every JSON-RPC error but two for the end of the task, and Torii
answers a caller it does not know, or headers it does not like, with such an error. It may fail with an error
that passes, and brings the parked task's own interval (`PollPending`). Or it tells the status. `SetupFails` is
what may throw between the row and the drive: persona and key of a resumed run, the first transcript of a launched one.

Left out: `next_poll_at` (a sweep may be late anyway), budgets, persona and model
choice, the sandbox's DELETE, failing database statements, several calls in one
turn (the next is another turn here). A stop is a nondeterministic choice at
the points where the loop looks at the flag. `listClaimable` and the `getRun` after
it are one action, and so are `create` and a first transcript write that succeeds.

### GatedRun

`RunLifecycle` extended by `ApprovedCall`, with `Torii!Park`, `Approve`, `Refuse` and
`Send` joined to Shaiden's steps. The two meet in three places. `tools/call` that comes
back with a task (`Opens`) parks the call. `tasks/get` (`Asks`, by a sweep or by a waiting
driver) makes Torii claim an approval (`Looks`), call the backend (`Executes`) and store
its answer (`Answers`): nothing else in Torii executes an approved call. And the status of the task
(`torii` of `RunLifecycle`) is what Shaiden reads. `asked` is a `tasks/get` under way for a call;
a poll may also be lost, and a driver does not wait for the one it has sent. `strayed`
is a history variable: a poll whose answer was used after the run had moved on to
another call has re-parked, failed or resumed it. `disowned` is another: the calls of which Torii has
turned a poll down while they were open (`Disowns`). Shaiden takes the call, or a parked run, for failed then,
and Torii, which knows nothing of it, lets the operator approve and the next poll, if one is still
under way, execute. `ExecutedForItsRun` exempts that very call, not the run; `NotAfterTheRun` is what fails.

Every parked call is a gated one here, and Torii's requests run to their end: their
statements and failures are in `GatedCalls`, of which `ApprovedCall` is the abstraction.

### TaskSchedule

One task. `row` is the `tasks` row, `run` its running or last run, `disp[d]` a
dispatch loop with what the tick has read, `edit[e]` a PATCH between read and
write. Time is `1..MaxTime` and a trigger is a set of instants; `nextRunAt` is the
first of them at or after, or strictly after, an instant. `slips` again names what
defeats the claim: a `slow` holder, a `stale` write over an unseen one, the `reset` of a claim
by an edit. `untold` counts the starts that the row has not heard of. There are three kinds: the process dies, or
the tick is cut short, before the record (`Crash`); `launchHarnessRun` throws after it has created the run
(`StartTaskRun`); or `recordScheduleSuccess` throws (`AdvanceFails`), which the code calls inside
the `try` of the start. The catch counts the last two as starts that failed and has the slot tried again. A
run in the way is recorded in the catch itself (`skip`), and a throw there ends the tick.

Left out: time zones and the 400-day search (in `ScheduleSlots`), the claim's length (it may lapse at any time), several tasks in a tick (rows do not
interact), sleep and notify (the loop sleeps at most 30 s). PATCH reads the row
in the controller and again in the repository: one read here.

### ScheduleSlots

No state: `NextSlot` is `nextRunAt` over dates that are days, instants and local times that
are hours, and zones with one change of their offset. The loop over dates is the first
date that has an eligible slot; `ZonedLocalToUtc` has its two passes. `FindsSlots`
compares it with `DueOn`, what the operator has asked for, and with the least eligible
slot over all dates, which is what `TaskSchedule` takes it to be.

Left out: minutes and seconds, leap years (months repeat every 365 days), dates that do
not exist (`2026-02-31` passes the schema and normalises to the third of March), and
zones that change twice within two days or in the last hour of a day.

### OAuthGrants

One owner, one provider, several replicas. `row` is the `oauth_tokens` row, a grant
with the version of its access token; `links` the statuses of the pending links;
`call[c]` an agent's request in `getValidToken`, `inflight` the map of refreshes of
each replica, `cb[k]` a callback between resolving its link and marking it. The
provider (`issued`, `renewal`, `dead`) may give no refresh token, one for ever, or a
new one each time. A statement, or a call to the provider, is an action; either may
fail, and an answer of the provider may be lost after it has acted.

Left out: dynamic client registration, discovery and its cache (the client is
configured), the wording of failures, and waking the calls that wait for a link.

### GroupPolicy

`rows` is the table, `snapshot[r]` a replica's `GroupPolicyCache`, `req[q]` a
management request or a boot. A write is one transaction; its request then refreshes
the snapshot of its own replica in two queries (`ListGroups`, `LoadServersByGroupId`)
and a replacement. No other replica is told, as in the code. `evaluatePolicy`,
`isGatedToolForGroups` and their `outcome` are operators over a set of group names,
which is what a principal's claims bring; a name may be deleted and used again, hence
the ids. `log` keeps what each commit made of the table.

Left out: display names, the tool list of the policy page, and what the approval gate
does with a parked call (that is `GatedCalls`).

### ConnectorSync

One connector. A configuration stands for its URL and credential strategy; `Shared`
ones have one client for everybody, `Owned` ones (`user_oauth`) a client per owner, of
whom there is one here. `registry`, `shared` and `owned` are a replica's copies, `job[j]` a request, the listener
or a boot inside `refreshFromStore`, `reconcile`, `reconnect` or `connectServer`.
`pending` are notifications on their way and `queued` the listener's flag. A dropped
socket loses what was on its way; a crash loses the maps; a statement may throw.

Left out: service keys (their secrets are rows of their own), the tool list a refresh
ends with, the transports' sessions. Other connectors only take time.

### Owners

`owner` and `agent` are tables, `granted` the agents of the platform's bearer, `linked`
the owners with grants in Torii. `req[q]` is a login in `resolveOrProvisionOwner` (with
or without a hint of its owner), a PATCH, a deletion, a creation of an agent, or an
entry of `operators.yaml`; its `at` is the next statement. The unique index on subjects
and the foreign key of grants are where the writes hit them.

Left out: profiles, personas and groups of agents, bearers other than the platform's.
Each entry and each sweep of `operators.yaml` is a request of its own (a boot applies
them one by one), and a grant that was revoked by hand is given again by a boot
(`EnsurePlatformBearer`), as in the code. The cleaner that wipes grants is configured.

### LinkDialog

`dlg` is the state and the refs of `useOAuthLinkDialog`, which all closures of the
hook share; `req[r]` a call of `beginAuthorization` or `pollConnectionStatus`, with
the statements it reaches in Torii; `popup` the window; `posted` the callback page's
messages. An action is an event handler up to its next await. Timers and the button
are one nondeterministic `Poll`. `mixed` records that a request of an earlier try has
changed the dialog, `strayed` that the open popup is not the dialog's any more
(`retry` drops the reference without closing it).

Left out: other tabs, an unlink meanwhile, tokens that can be neither used nor renewed
(`needs_relink`). Links are created in order, so the latest is the largest. Two
callbacks of one link at once are in `OAuthGrants`.

### Sandbox

`run` is the status of the runs in Shaiden, `sweep` its sweeps, `dir`, `uid` and `held`
what is on the volume, `procs` the processes, `req[q]` a request at the server. It holds its run's
lock in every state but `sent`, and `_uid_guard` while it writes the map. A write of the map
truncates it first, so a restart in between cuts it off, and no later read of it succeeds
(`corrupt`). `kill_owned` gives up after twenty tries and swallows every error, and the
manifests leave the container without CAP_KILL: a process may survive any kill. A uid under
which a release finds processes (`outlived`) is held back, and nothing in the code ever gives one back, when the
processes are gone or after a restart. Two more things last. A script that no kill ends is waited for,
with the lock of its run, as long as it takes (`communicate` has no limit after the timeout), so `ExecReturns` has
no fairness. An entry that is no file, link or directory (`stuck`), a FIFO say, is not unlinked, so
`rmdir` fails in every DELETE. A DELETE that fails throws out of the sweep, which so ends before the
workspaces behind it; one that has no answer holds up its sweep but not the next, which the interval starts (`GivesUp`).

The creation of the directory and the read of the map are one action (`Execute`), and so are lock, kill
and removal in a DELETE (`EmptyWorkspace`): the run's lock keeps other requests of
the run out, and a restart in between leaves what one at the next step leaves. A run
that is missing counts as completed. Completion sends its DELETE at once, and `sent` is
on its way for as long as it likes. Left out: bearers and the key set, caps and
pruning but for how a call ends, the child's restrictions, uids other than the lowest free one.
A sweep that has given up is forgotten, so one sweeper stands for those that overlap for lack of an answer.

## Runs

Deadlock is checked for `GatedCalls` and `Sandbox`. In the other models a behaviour ends once a run
is completed, or the requests, tries and instants of the bounds are used up.

| Run | Instance | Shows |
| --- | --- | --- |
| `gated_calls` | 1 task, 3 requests, a gated and an ungated call, 1 crash | `ExecutedOnceApproved`, `RejectionReachesAgent`, `ResultsAreExecuted`, the refinement (`KeepsPromise`) |
| `gated_calls_live` | 1 task, 2 requests, no crash, fair | `ApprovedSettles` |
| `run_lifecycle` | 2 drivers on one replica, 2 calls, 1 follow-up, 1 continuation, 1 crash, leases lapse; drivers symmetric | `SoleDriver`, `OutcomePerSegment`, `CompletedIsReleased`, `OwnAnswer`, `TranscriptKept`, `LeavesNoOrphan`, `OrphanedOnlyBySetup` |
| `gated_run` | 2 replicas, 1 call, 1 crash, polls lost or turned down, fair | `DecidedParkIsPickedUp`, `ExecutedForItsRun` |
| `task_schedule` | 2 dispatchers, 3 triggers (twice, once, never), 1 edit, 1 tick cut short, starts and records that fail, claims lapse, 3 instants; the calendar search in 10 zones, 45 schedules, from 73 instants | `SlotFiredOnce`, `WaitsForOwnSlot`, `SlotsAsScheduled` |
| `task_schedule_live` | the same with 1 run by hand, claims lapse only when nobody works under them, fair | `DueSlotSettles` |
| `oauth_grants` | 2 replicas, 2 calls, 2 links, 2 callbacks, 2 tokens per grant, 1 crash, any provider | `SingleFlight`, `RowIsRedeemable`, `CompletedWasStored`, `DroppedIsGone` |
| `group_policy` | 2 replicas, 3 requests or boots, 2 names, 2 tools, 2 definitions | `DecidesAsCommitted`, `SeesOwnWrites` |
| `connector_sync` | 2 replicas, 2 requests, 1 shared and 2 owned configurations, 1 fault | `RegistryConverges`, `ConnectionConverges` |
| `owners` | 2 owners, 2 subjects, 1 agent, 4 requests of which 2 at once, 1 crash | `LastAdminStays`, `AgentsHaveOwners`, `AgentsAreGranted`, `WipedFirst` |
| `link_dialog` | 1 provider, 2 requests at once, 2 links, 2 tries | types, `LinkedIsStored`, `ErrorsAreOwn`, `PopupIsHeld`, `WaitCanEnd` |
| `sandbox` | 2 runs, 1 uid, 2 requests, 1 sweeper, 1 continuation, 1 restart, odd entries, scripts that need not end, fair | `UidsApart`, `WorkspaceStands`, `FilesKept`, `UidsAccounted`, `WorkspaceGoes` |

The types of every module are proved for all values of the constants, so no run but
`link_dialog` repeats them.

Why these bounds are enough. Each hazard needs two actors in the middle of their
work on one row, and one event (crash, lapse, edit, continuation, write) between
them. Rows do not interact: statements touch one task, approval, run, token or
connector.

* `gated_calls`: the third request is the operator beside two polls.
* `run_lifecycle`: the two drivers share a replica, as a sweep and a continuation do, and so
  share a lease owner: the case in which `releaseRun` and `renewRunLease` cannot tell them apart.
  The drivers are alike then, and TLC takes states that differ by swapping them for one. A
  crash, and a second call, strike a first segment without follow-ups, and leases do not lapse
  with the second call; what follows both a slip and a stale claim is cut off, since only
  `CompletedIsReleased` still speaks of it (`OneTrouble`). Each trouble is there beside the drivers' own
  race, not all at once: 2 million states. Without the constraint and with one call the
  instance has five million, and was checked once for the properties that are not about the transcript.
* `gated_run` has the crash and no lapses: what it adds is that the replica which has asked
  Torii, or has claimed the run to resume it, is gone. The continuation is in `run_lifecycle`.
* `task_schedule`: a run by hand is in the live run; beside the failures of the tick it would add
  a run in the way of the start, as a continuation does here. Three million states. The zones change their clocks forward and back about the midnight
  between February and March, at night in Berlin, New York and Auckland, at midnight in Havana and
  Cairo, so that the change, the end of a short month and the date the search begins with meet;
  the schedules fire at 0, 2 and 23 o'clock, the instants are all hours of the three days around.
* `oauth_grants`: the last token of a grant does not expire, so two per grant are one
  refresh each; a second refresh starts from a row of the same shape. Callbacks
  and links are two so that two callbacks may belong to one link or to two.
* `group_policy`: two definitions between which every outcome (run, parked, denied) of
  both tools changes; three requests are two writers and the reader, or a boot,
  between their queries.
* `connector_sync`: one request of each kind beside a write. Two owned configurations
  make the change of URL that only the listener's or writer's reconcile sees.
* `owners`: two requests at once are what each race needs, four in all build the state
  they race over (two logins, then the two).
* `link_dialog`: the second try is the one that late requests of the first disturb.
* `sandbox`: one uid for two runs makes every release and every survivor matter to the
  other run. With two uids the pool is never empty. Two runs are enough for a sweep that never
  gets to the second: 237 thousand states.

Larger instances were checked once, without errors: `ConnectorSync` on one
replica with three requests and a fault; `LinkDialog` with two providers; an earlier
`Sandbox`, without odd entries, with two uids (safety);
`RunLifecycle` on one replica with a message and a crash, and on two with lapses, a
crash and a continuation; `GatedRun` with two calls (`ExecutedForItsRun`, six million states)
and with a continuation. The proofs lift the bounds for what they cover.
Beyond the bounds are two crossing edits of one task, two tasks in one suppression
window, and three replicas.

### Where the code and its documents disagree

The modules state properties that no listed run checks: each is something a document,
comment, test or text of the interface says, or that a reader would expect, and the code
does not keep. To see one fail, give it to TLC in the instance named here.

| Property | Says | Instance | What happens |
| --- | --- | --- | --- |
| `CancelledIsCancelledUpstream` | a task cancelled during the backend call is cancelled upstream | `GatedCalls.cfg`, no crash | `attachBackendOrigin` has read the row before the cancel |
| `TerminalRefusesOrigin` | "refuses to attach a backend origin to a terminal task" | `GatedCalls.cfg` | the check is on the row as read, `save` upserts |
| `NeverOrphaned` | "Every run records exactly one outcome" (`apps/shaiden/README.md:7`) | `RunLifecycle.cfg`, `Home <- Apart`, `Lapses = FALSE` | the set-up of a continuation (`resumeHarnessRun`: persona, key, run) throws after the row has been set to `running`, or that of a launch (`setConversationHistory`) after it was created: nobody drives the run, and no sweep finds it (`OrphanedOnlyBySetup`: with nobody dead, only so) |
| `OneOutcome` | "Every run records exactly one outcome" | the same | a failing resume completes a run that another has reopened |
| `FollowUpsKept` | queued follow-ups are drained | the same | `complete` deletes one that came after the last drain |
| `EveryCallAnswered` | "every tool call has a result" | the same | the sweep fails a parked run and leaves its call open; the continuation does not close it |
| `AnsweredByOwnTask` | the task's result is the call's result | the same, two calls, no messages | transcript from before, parked task from after another drive (`OwnAnswer`: only so) |
| `LostOnlyToAnother` | the contract of `onLost` | `RunLifecycle.cfg`, `Lapses = FALSE` | `releaseRun` of the last drive clears the lease of the next one |
| `RejectedIsFinal` | no continuation after `human_reject` | `RunLifecycle.cfg`, `Home <- Apart`, `Lapses = FALSE`, two messages, `MaxReopens = 2` | the eligibility check is not part of the UPDATE |
| `NotAfterTheRun` | a dropped poll is a retry, and "The completed task's `result` is the tool result" (`apps/shaiden/README.md:45`) | `GatedRun.cfg` | Torii turns a poll down, for its identity or headers; the sweep fails the run; the operator approves, and another poll that was under way executes the call for nobody |
| `NeverFiresAgain` | a slot cannot fire again | `TaskSchedule.cfg`, `Slow = FALSE`, `MaxCrashes = 0` | `recordScheduleSuccess` throws after the start, and the catch has the slot tried again; or an edit of other fields writes back the old `next_run_at` |
| `ArchivedIsNotStarted` | "does not start a task archived after claim" | `TaskSchedule.cfg` | archived after the re-read |
| `StopsForGood` | "the second failure stops the schedule" | `TaskSchedule.cfg` | a late success clears the failure |
| `OlderRunDefers` | "defers when an older run is still in flight" | `TaskSchedule.cfg`, `MaxRuns = 1` | a continued run that collides with the start uses the slot up |
| `OnOwnDate` | a slot is on its date | `TaskSchedule.cfg` | where midnight does not exist (Havana in spring), `zonedLocalToUtc` gives 23:00 of the day before: that date has two slots of a daily schedule, the next none |
| `NeverSpentTwice` | a refresh token is presented once | `OAuthGrants.cfg` | single flight is per process, and a read may outlast another's refresh |
| `CompletedIsFinal` | "completeCallback rejects already completed links" (`oauth-link.service.test.ts:244`) | `OAuthGrants.cfg` | two callbacks have both read `pending`; the loser marks the link failed |
| `KeyedOnPersistedGroups` | "keyed on the principal's `groups` against group definitions persisted in Torii Postgres. Unknown groups fail closed" (`apps/torii/README.md:94`) | `GroupPolicy.cfg` | a group deleted between the two queries of a refresh is in the snapshot, with no policies |
| `NeverRollsBack` | "Replaced on every management write" (`group-policy-cache.service.ts:3`) | `GroupPolicy.cfg` | an older list replaces a newer one |
| `ReplacedOnWrite` | the same of the registry (`connector-registry.service.ts:12`) | `ConnectorSync.cfg` | a link request puts back the list it read before a write |
| `OwnersFollow` | "reconnects changed URLs" (`connection-manager.service.ts:115`) | `ConnectorSync.cfg` | an owner's connect that was under way puts the client of the old URL in the map |
| `LastAdmin` | "cannot remove or demote the last active admin" (`owners-management-api.controller.ts:25`, `keidai-ui/src/lib/api/owners.ts:50`) | `Owners.cfg` | two requests have both counted two; a PATCH writes back the role it read |
| `SubjectKeepsOwner` | "An existing subject keeps its owner id" (`resolve-or-provision-owner.ts:127`) | `Owners.cfg` | two logins have both found the same unbound row |
| `ClosesAutomatically` | "This dialog will close automatically when Torii receives the callback" (`oauth-link-dialog.tsx:144`) | `LinkDialog.cfg` | linked before, and no poll saw the new link pending: its completion is taken for the old grant |
| `ErrorMeansNoGrant` | "No grant was stored" (`oauth-link-dialog.tsx:256`) | `LinkDialog.cfg` | the link could not be marked completed after its token was stored |
| `PopupForOpenDialog` | a popup belongs to a dialog | `LinkDialog.cfg` | `initiate` answers after Cancel |
| `ClosedByOwnTry` | a dialog is closed by its own try | `LinkDialog.cfg` | a poll of the dialog before finds the provider linked |
| `FilesStay` | "Files you write stay for later execute_python calls in this same run" (`execute-python.ts:10`) | `Sandbox.cfg` | the run is continued while the DELETE of its completion, or of a sweep, is on its way |
| `AlwaysGoes` | a workspace is deleted when the run is over (`docs/sandboxing.md`, "Lifetime") | `Sandbox.cfg` | a restart has cut off `.uid-map.json`: every DELETE and every execution fails from then on |
| `SweeperRetries` | "A sweeper retries that delete if the completion path misses it" (the same) | `Sandbox.cfg` | an entry that no DELETE removes, or a script that no kill ends, in the workspace of an earlier run ends every sweep before it comes to this one |
| `LeftoversKilled` | "any leftover pid of that uid is scanned and killed" (`docs/sandboxing.md:87`) | `Sandbox.cfg` | a process survives `kill_owned`, which swallows `PermissionError` |
| `HeldForProcesses` | a uid is held back for processes that survive (`release_uid`) | `Sandbox.cfg` | they end, or the container restarts, and the uid stays held back for good |

### Fairness

`GatedCalls`: a request that has begun runs to its end (weak fairness of each
handler's step: it awaits only Postgres and its HTTP calls, and a call that never
returns counts as one that dies, a crash, which this run excludes), and the agent
keeps polling (strong fairness of `GetTask`: Shaiden's waiter and sweep poll until
the task is terminal, but a poll may find no handler free). Backend and operator get
none.

`GatedRun`: each activity goes on unless it crashes (weak fairness of `Proceeds`, which for a
driver whose task is open, `Pending`, has no step but the poll that brings nothing: no poll has to be turned down);
some replica's sweep runs on the interval (`DEFAULT_PARKED_RECLAIM_INTERVAL_MS`), hence strong
fairness of `ListClaimable`, which other activities may disable for a while; of the
polls of a task that is over not every one is lost, and of the processes that resume the run not every one fails
its set-up (strong fairness of the poll's answers and of `ReadParked`, by any activity);
a dead holder's lease expires. Torii's refusal of a poll gets no fairness. Torii serves what it has begun (weak fairness of
`Refuses`, `Looks` and `Answers`), and of the polls of a parked call not every one is lost
on its way (strong fairness of `Asks`: a crash or a lease in between disables it for a
while). The operator, the backend's execution and the model get none: that
a call is executed follows from nothing but polls, and a parked run whose operator never
decides stays parked until the task expires, if it does.

`TaskSchedule`: a tick that has begun ends, some loop ticks again (sleep is capped)
and a claim lapses. Neither clock nor operator nor run gets any.

`Sandbox`: the sweep is on an interval (`setInterval`), so a sweep begins and goes on, or is
given up when its DELETE has no answer; the server serves what it has begun, but for waiting for a script, or
refuses it; and of the DELETEs sent for a run not every one is lost or meets a write of
the map (strong fairness per run of `EmptyWorkspace` while nobody writes it). That a script ends, a
survivor dies, an odd entry is removed or a DELETE succeeds is assumed nowhere: `WorkspaceGoes` promises nothing for
as long as one of them is in the way (`Clear`), and `SweeperRetries` shows how far that reaches. The operator gets none.

The other modules state safety only, and their "must eventually" is put as what holds
when nothing is under way (`RegistryConverges`, `ConnectionConverges`) or as what the
next step would do (`WaitCanEnd`): a connector that nobody writes again, or a dialog
whose polls all fail, has nothing that would have to happen.

## Proofs

TLAPS checks everything below for all values of the constants, from the
constants' stated assumptions only (`Gated \subseteq Calls`, `NoId` is no task or
call, `Home` maps drivers to replicas, `NoOne` and `NoCall` are no replica and no
call, the other null values are no element of their sets, a request of `ConnectorSync` is
no listener or boot, `None` is no provider, the owner ids of `Owners` are finitely many, the bounds are
naturals). Only the theorems about the calendar, `ScheduledTask`'s included, ask for more, and say so
(`Orderly` zones, `Dates = Nat`).

**GatedCalls.** *Executed at most once* is not inductive: a state with two
requests between claim and call satisfies it. `IInv` adds `Exclusive` (a request
past its claim is alone on its task, the approval is marked used, nothing was
sent), `Once` (sent means used and approved), `Born` and `Bound` (a task id in
use keeps a row, also in the copies that requests carry, so that a row is never
created twice). `Invariance` proves it; `TypeCorrect` and `ExecutesOnce`
follow. `Refinement` shows that each step of `GatedCalls` is a step of
`ApprovedCall` or a stutter: `InterceptGatedCall` parks, a decision that hits a
pending row approves or refuses, `ExecuteApprovedTask` sends, with the invariant
providing `sent = 0` and `approved`.

What the task row says in the end needs more, `RInv`. `Grounded`: a row claims the
backend only after the backend was called, and is denied only by a rejection.
`Honest`: so do the copies that requests carry to their save, each of which is
terminal or has a task of the backend as its origin, so that a row read before a
rejection can never undo it. `Delivery`: a rejected task is terminal or its reject
request is on its way, unless it died. `ResultsWereExecuted` and `RejectionsArrive` follow.

**RunLifecycle.** `SoleDriver` needs to know that a holder's lease is live as long
as nothing slipped (`LeaseLive`), for otherwise `claimRun` would let a second
driver in, and that a rescue is a slip (`RescueIsSlip`). `Counted` bounds the
outcomes: a segment that is not over has one less to its account.
`CompletedIsReleased` is inductive with the guards of the writes alone, and
holds whatever slips. Steps are grouped in lemmas by what they may disturb:
`QuietStep` (a driver's own record only), `ApproachStep`, `DriveStep`, and one
lemma each for `Reopen`, `ClaimRun`, `CompleteRun`, `ReleaseRun`, `Rescue`, leases
and `Crash`. This is the upper half of `OutcomePerSegment`.

The lower half, and that nobody leaves a run alone, need to know what a driver has done
before it comes to its statement, `LInv`: `Recorded`, segments that are over and drivers about to
complete the row are together no more than the outcomes, counted with the cardinality of the set
of those drivers; `ParkedFirst`, a driver that hibernates has parked the run; `Unlost`, a
driver that holds the run does not take its lease for lost (else it would leave
quietly); `Carried`, who polls or parks has a call to do it for. A lemma per group of
statements says where a driver turns (`ApproachTurn`, `WorkTurn`, `LetGoTurn`, `TailTurn`), and
only turns to the watched statements need more. `OutcomeOfEverySegment` and `NoOrphanLeft`,
an action property, follow, the latter from a lemma about one step (`LeftInOrder`).

The transcript has a third invariant, `Abreast`. Every write of it replaces the whole, so
that nothing stored is lost (`NothingUnwritten`) means that the one who writes has it all; and an answer
is the result of the parked task, put into whatever the transcript holds open, so that it
is its own (`AnswersAreOwn`) means that the two fit. Neither is inductive, for both are about copies. As long
as nothing slipped and nobody was `overtaken` (`Undisturbed`), the record of the driver
that has the run is `InStep`: it has all that is stored (`Grown`), its answers are their own calls'
(`Truthful`), what it has parked is what its transcript awaits (`Fits`) and is what the row says,
unless the driver is `Closing` the loop, when the row may be parked on a call that a stop has left behind. What
is `Stored` is so too, and a run that is not running has no parked task, which a continuation relies on.
A sweep that has polled is in no such state: its
record may be old, and becomes the driver's only by `ClaimRun`, whose `Overtaken` says
whether it was. One lemma per group of statements shows that it `Keeps` the invariant and loses nothing.

How a run comes to be left alone is a matter of two steps, a last driver's and
a claim that fails. `LeftAloneBySetup` says which are the cases: when nobody has died, nobody drives a running run, nobody
is about to, and it waits for no task, then a launch or a continuation has thrown before it
claimed (`SetupFails`). A driver that lets go leaves the run in order (`LeftInOrder`). Without a driver
a step lets the run be, parks it, starts it with a launch or a continuation at its set-up, or takes it
(`OutsideStep`); so what remains is a claim that fails, for which the run must have a lease,
and a lease on such a run is a driver's (`Leased`).

**GatedRun.** The composition adds no behaviour to its parts. `RunRefined`: each of its
steps is one of `RunLifecycle` or leaves the run alone, so that all that is proved of the
run holds with Torii behind it (`OneDriverJoint`). `PromiseKept`: it is a behaviour of
`ApprovedCall`. `GatedCalls` refines `ApprovedCall` too (`Refinement`), which is why
the one may stand for the other here.

`ExecutesForItsRun` is about both machines at once, and its invariant `JointInv` says what
each knows of the other: whoever goes on from a poll carries a call Torii has done with, a
call is parked again only when it is new or over, a holder leaves no open call behind
(`Informed`), and the run waits for every open call that somebody has polled (`Waited`).
Executing follows a poll, so the call it is for is the one the run is parked on. A poll that Torii
turns down breaks that for its own call, and for no other: what the invariant says of polls
and of asked calls holds or the call is in `disowned`, so that the run's later calls are still covered. All of it holds until
a lease slips or a stale poll strikes, the other exemptions of the property.

**TaskSchedule.** `WaitsForOwnSlot` is inductive with the types once editors and dispatchers are
known to carry what they read of the row. `SlotFiredOnce` is not: it needs that a dispatcher
past its claim is alone and holds it and that the slot it read is still the row's (`Holding`), until the first
slip, and then an account of the starts. `Told`: all runs of a slot are `untold`, or all but one and the
row has moved on from the slot, or is about to. `Poised`: whoever is about to start a run finds only
untold ones before it. `Spent` bounds them: each has cost the row an attempt, or a tick, or is about to cost
an attempt, and a row that still has a slot has attempts left. The next slot
is strictly later than the tick (`NextRunAtFound`, from the least element of a set of
naturals), which is what moves the row past the slot just fired; a deferred or failed start leaves
the slot where it is. The theorems are `TypeCorrect`, `OwnSlot` and `FiredOnce`.

**ScheduleSlots.** `SearchComplete` is `FindsSlots` for all schedules, instants and dates (`Dates = Nat`;
the run judges by two months of them) and every zone that is `Orderly`, which those of the run are
(`ZonesAreOrderly`) and one that skips a whole day is not. Four facts make it up.
`WallTimeKept`: the second look-up of the offset repairs a guess on the wrong side of the change,
for a change of any size. `FirstDateFirstSlot`: slots come in the order of their dates, so the first
date has the first slot. `BeginsInTime`: a slot is on its date or, in skipped hours, on the one before,
and the clocks never show a date that is over, so none before the local date of the instant
is eligible and all from two days after it are. `SomeDate`: any schedule is due within 365 days of any date
(a monthly one in January), hence `SearchSucceeds`, 400 dates are enough. That the
code's last day of a short month is the operator's is `DayInMonth`.

**ScheduledTask.** `TaskSchedule` takes the next slot for the least of a set of instants, and the
search is a walk over local dates. `NextRunIsNextSlot`: where the instants are the slots
that the operator has asked for, up to the last the model's clock shows, the two are the same function, so that `FiredOnce`
and `OwnSlot` are about schedules as they are written. `SlotsStayAsScheduled` says of the run's
`SlotsAsScheduled` what `SearchComplete` says of `FindsSlots`, the state being there because TLC wants one.

**GroupPolicy.** A snapshot is read in two queries, so it need not be a state the database
was ever in, and `DecidesAsCommitted` is not about the snapshot but about what is decided on
it. The invariant keeps what the two queries leave: `ListHolds`, between them the list is that of some
commit and each group on it still has its id or was deleted; `Faithful`, after them each
definition is that of the second query's commit, unless the group was deleted. Both last while
commits go on (`ListLasts`, `FaithLasts`): the log only grows, names deleted stay noted
and ids do not change. `FaithfulDecides` is the argument: with all of the
principal's groups the snapshot decides as the second commit, and with one missing
both it and the commit of the list deny. `SeesOwnWrites` needs that a request reads no
earlier than its own commit. The theorems are `CommittedDecisions`, `OwnWritesSeen` and `TypeCorrect`.

**OAuthGrants.** The invariant says who has which token, since what a row holds after
a write was decided when a caller read it. `WasIssued`: a token somebody has was
issued, so a code that was never redeemed has none anywhere. `FirstOfGrant`: what a
callback is about to store is its grant's first token, which nobody else has.
`NewestHeldOnce`: a provider that rotates gives its newest token to one caller, who
alone has it until it is stored; without it a second caller could refresh past the
row. `GoneForGood`: a grant that is gone is carried by nobody, and its code is used or
its link is deleted and unknown to every callback; this is stronger than
`DroppedIsGone`, which speaks of the row alone. Steps that bring nobody a token share
`ForgettingLemma` (failures, crashes, unlinks, wipes); `SettleLemma` says what the end
of a refresh does to those who joined it; the others have a lemma each. The theorems
are `RefreshedOnce`, `KeepsNewest`, `StoresFirst`, `StaysGone` and `TypeCorrect`.

**Owners.** A request decides, awaits, and writes what it decided; the invariant says
what it still knows at each statement. `Formed`: its record fits its kind and has the
owner it is about. `Informed`: a PATCH or deletion that has counted, and was not
overtaken since, leaves an active admin behind. `Governs` and `AdminsGovern`: the first
admin comes from a login or `operators.yaml`. `Listed`: a deletion that is about to
delete the row has deleted the agents it listed, and any other was created meanwhile.
`Wiped`: it has wiped the grants, or they were linked later. `WritesLemma` says which
writes can change the set of admins, `NoticeLemma` that all others go unnoticed, and
the steps that write nothing share `QuietLemma`. Counting two active admins needs
cardinalities of finite sets, hence `FiniteAssumption`. The theorems are `AdminStays`,
`LeavesNoAgent`, `GrantsAgents`, `WipesFirst` and `TypeCorrect`.

**ConnectorSync.** That a replica at rest has the table is not inductive, since what a
replica holds may be old as long as it is still to be told. `IInv` therefore speaks of
replicas that nothing is on its way to (`Calm`: no writer before its NOTIFY, no
notification, no list still to be read by the listener). Of all jobs only the
listener can then have work that counts, and `Settling` says what it has in hand: its list is the table
(`Informed`), the registry is the table or the listener is about to replace it
(`Registered`), and the connection is that of the registry or the listener, or the boot
of a replica that has none yet, is about to make it so (`Connected`). Whatever a writer's refresh
does is excused until its NOTIFY starts the listener; whoever fails before
leaves `missed` behind. `Attended`: an entry is half-way only while
somebody connects it; `Dormant`: nothing runs on a replica that is down. For
each action one lemma (`...Does`) gives its effect on its job and the types, a second (`...Sound`)
that it disturbs no replica; `SoundElsewhere` is for replicas other than its own.
`RegistryFollows` and `ConnectionFollows` are the invariant of a replica whose jobs are
all idle.

**LinkDialog.** All of it is about one try, until a request of an earlier one changes the dialog
(`mixed`). Its invariant, `DialogInv`, says why the comparison of `linkId` and the latest
link of a provider come to the same: `OwnLink`, the link a dialog waits for is the latest
of all, which needs `InOrder` (links are begun in their order) and that the request which
begins the flow is alone (`Beginning`); so the latest link a poll of this try reads is the dialog's own
(`Polling`), and a provider read as linked has its token stored (`StoredGrants`), whatever was granted
when the other table was read. `AtRest`: a closed dialog has forgotten everything, so a late answer that changes it is
noticed. `WaitGoesOn` and `OneGoesOn` are the steps that leave the try as it is, `Unmixed` says
whose answers count. The latest link is the greatest of a finite set of numbers
(`FirstAndLast`). The theorems are `DialogTypeCorrect`, `OwnErrors`, `PopupStaysHeld`,
`WaitsCanEnd` and, of an action property, `ReportsOwnLink`. They share a module with those of `OAuthGrants`, the server's
end of the same flow, which is why the specification of the dialog is called `DialogSpec`.

**Sandbox.** Everything rests on two locks, which the model has as facts about requests
and which the invariant makes explicit: `OnePerRun` (one request holds a run's lock),
`OneWriter` (one request writes the map), `Kinds` (a request's state fits what it was
sent for). Under its lock a request knows what it has read: `Chosen`, the uid that is about to be
written belongs to no run, is not held back and has no processes, and the run has none yet;
`Judged`, a uid that is about to be released is held back unless its processes are gone,
which stays true because only an execution of the run whose lock the DELETE holds could
start new ones. `Doomed` is what keeps files: a DELETE on its way is for a run that is
over, unless a continuation has overtaken it; since only a DELETE takes files, no step does from a
running run (`FilesAreKept`, an action property). A uid out of the pool is a run's or held back, and for
either the invariant knows why: `Owned`, the run has a workspace or its DELETE has come past it; `Backed`, a uid that is
held back, or about to be, has been found with processes; `CutOff`, a map that was cut off says nothing and is not
written again. The theorems are `UidsStayApart`,
`WorkspaceStandsAlways`, `FilesAreKept`, `UidsAreAccounted` and `TypeCorrect`; uids and runs are
numbers, since the server takes the least free uid.

**Only model-checked.** Liveness: `ApprovedSettles`, `DecidedParkIsPickedUp`, `DueSlotSettles` and
`WorkspaceGoes`, since TLAPS 1.4.5 has no ENABLED and so no fairness. Every other property
of every run is a theorem. Every refuted statement is, of course, TLC's alone.

## Plan

1. Done: `GatedCalls` and its refinement, `RunLifecycle`, `TaskSchedule`, `OAuthGrants`,
   `GroupPolicy`, `ConnectorSync`, `Owners`, `LinkDialog`, `Sandbox`, `ScheduleSlots`, `ScheduledTask`,
   and the composition `GatedRun`; proofs of all of them.
2. `AgentToken` (one cached JWT, forced remint, outage): a small machine.
3. Service keys in `ConnectorSync`, dynamic client registration in `OAuthGrants`,
   agents' PATCH and other bearers in `Owners`.

## Not modelled, and why

* The other pages of the SPA and `packages/ui`: each renders what a request returned
  and sends edits one by one. The Activity drawer starts the link dialog's flow for the
  owner of a trace; that is the same dialog.
* The BFF: a sealed cookie and pass-through.
* Token exchange and signing in Fuda: a read, a check, a signature; no state two actors
  share. Torii's identity check is its counterpart.
* Torii's tool catalog (computed from the connections) and traces (append-only rows).
* Shaiden's attempts and stats: functions of finished runs; Wilson's interval is real
  arithmetic. `RunLifecycle` counts the outcome each attempt records.
* Shaiden's OpenRouter credential: one sealed row. The language model is a
  nondeterministic choice of the next call.
* Shaiden's agent token provider: in the plan, not done.
* Migrations, partitions, deployment: plumbing. Backends are any MCP server.
