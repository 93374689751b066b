# TLA+ models of dev-copilot

dev-copilot is a coding assistant that edits a user's repositories only after a
human has approved each diff. A Python engine (FastAPI, LangGraph, SQLite) runs
the agent, keeps workspaces, proposals, approvals and a knowledge index; a Java
service proxies its API and persists memories; a React page shows diffs and takes
decisions. The core of these modules is the part that must not go wrong: from a
proposed change, over the human's answer, crashes and retries, to the one write of
the file and the outcome everybody is told. Around it stand the services that have
a protocol of their own: the index, the task queue, the tool manager, the test
runner, the stream of memories, the agents' workflow and the page.

All paths are relative to the repository root (`engine/...` is `src/engine/...`
in PROJECT.json).

## 1. Inventory

| Part | State it keeps | Operations | What is hard |
|---|---|---|---|
| Proposal and outcome store, `core/workspace/proposal_store.py` | SQLite tables `prepared_changes`, `approval_outcomes` | save, load, consume, discard, claim_outcome, get/list_outcomes, complete_outcome, reconcile_applying | compare-and-set per row, pruning of two tables that recovery joins, generations |
| Controlled change service and mutator, `change_service.py`, `mutations.py` | `_pending` (ordered, bounded, with expiry), `_consumed`, a lock per repository, the target files | preview_replace/create, approval_request, apply_approved | memory and store change separately; the file may change between preview and write |
| Graph nodes and HITL gate, `orchestrator/nodes.py`, `core/hitl/` | LangGraph checkpoint per thread, resume values by position, coordinator lock per thread | agent_node, check_early_termination, tool_node, require_approval | a node is replayed from its start after each answer |
| Chat API, `api/chat.py`, `core/streaming/sse_engine.py` | `approval_runs`, `approval_runs_lock`, a frame buffer per run | chat, pending, resume, outcome, the background run | claims, orphans, client disconnects, failures while persisting |
| Lifespan, `main.py` | the whole process | start (reconcile), shutdown (cancel) | crash at any point |
| Workspace registry and runtime, `core/workspace/registry.py`, `api/workspaces.py` | workspaces with a generation, active workspace, manager cache, lifecycle guard | create, delete, add_repository, activate, get/invalidate manager | requests that hold an old workspace across an await |
| Knowledge index, `core/rag/` | status row, files, chunks, FTS rows, tasks | rebuild, status, query, recover | one job at a time, atomic install, stale generations |
| Task queue, `core/scheduler/`, `api/tasks.py` | Redis list, lock and state keys, local active locks and heartbeats | submit, poll_and_claim, heartbeat, complete, fail | lock expiry, loss between pop and claim |
| MCP manager and providers, `core/mcp/` | tool registry, failed servers, heal task | init_all, call_tool, prepare_approval, heal, shutdown | retries of what was already done (excluded for approved calls) |
| Test runner, `core/execution/test_runner.py` | a subprocess, two readers, an output budget | run, cancel, kill | timeouts, a child that does not die, pipes somebody else holds open |
| OpenSpec workflow, supervisor, planner, agents | stage, outputs, plan, results | stages with breakpoints, plan, subtasks | order of dependent tasks, answers to breakpoints, failing agents |
| Java gateway, `java-service/` | none of its own | relays streams and requests | a stream that ends without its last event |
| Java memory persistence, `MemoryPersistenceService.java` | Redis stream consumer group, MySQL rows | read, insert, acknowledge, commit | delivery, crash between the three |
| Web page, `web/` | approval cards, one stream, outcome queries, sessions | decide, follow, recover, stop | lost streams, late answers, two approvals at once |
| Path guard, scanner, development tools, conversation memory, configuration | none, or a cache | checks, listings, settings | nothing that interleaves (section 7) |

How they interact in one change: the model's message calls `preview_*` (provider
-> change service -> mutator; the row is saved) and later
`apply_workspace_change`. `tool_node` prepares every such call (`approval_request`),
asks for every approval (`interrupt`), and the turn ends with the checkpoint
waiting. `POST /chat/resume` claims the outcome in the store and starts a
background run that replays the node with the answer; when all calls have their
answers, `apply_approved` consumes the row, writes the file and runs the tests
under the repository's lock; the events it emits decide the outcome that the run
records. A restart resolves the outcomes left `applying` by the hash of the file.

What makes each part correct is stated as properties in section 4; what could go
wrong, at which line, is the list `hazards` in PROJECT.json.

## 2. Modules

| Module | Models | Composes |
|---|---|---|
| `ProposalStore` | every transaction of `SqliteProposalStore`, one workspace | |
| `ApprovalFlow` | graph turns, resume API, background runs, change service, restart, an outside editor | extends `ProposalStore`: its transactions are conjuncts of the flow's actions |
| `ApprovalPromise` | what the user relies on, without machinery | implemented by `ApprovalFlow` (refinement mapping there) |
| `AtomicWrite` | `WorkspaceMutator`: preview and the look-by-look write of one file, against an editor and directories that move | the one step `ApplyApproved` of `ApprovalFlow`, in full |
| `WorkspaceRuntime` | the workspace as requests see it: registry generations, manager cache, lifecycle guard, both locks | stands beside `ApprovalFlow`, whose one generation it varies |
| `OutcomePage` | how a page learns an outcome: run buffer, relay, cards, queries | the last leg of `ApprovalFlow`: of a run it keeps that it talks, records and ends |
| `RagIndex`, `Chunker` | the knowledge index: its tables, its job, the thread that reads; how a text becomes chunks | of the workspace it needs the generation only |
| `TestRunner` | one run of a test profile with its process, pipes and timers | what `testing` in `ApprovalFlow` waits for |
| `ToolManager` | MCP servers, registry, healing, calls | |
| `TaskQueue` | Redis list, locks, states; engine entries and heartbeats; workers | |
| `AgentWorkflow` | OpenSpec stages and what the last one starts: planner and supervisor | |
| `PlanSort` | the order of a plan's tasks, a recursive operator | evaluated by `MCServices` |
| `MemoryStream` | the Java consumer of the memory and session streams, and what the schema refuses | |
| `MCApprovalFlow` | the symmetry set of the flow's instances, and a bound of one of them | `ApprovalFlow` |
| `MCWorkspace` | composes the runtime of a workspace and the store, which share no state there: `part` says which of them a behaviour is about, the other rests. The store's interchangeable values are used in a given order | `WorkspaceRuntime`, `ProposalStore` |
| `MCIndexAndPage` | composes the index and the page in the same way, fixes which approval is asked for first (the approvals are alike), and evaluates assumptions about the chunker | `RagIndex`, `Chunker`, `OutcomePage` |
| `MCServices` | composes six services in the same way | `TaskQueue`, `MemoryStream`, `ToolManager`, `AgentWorkflow`, `AtomicWrite`, `TestRunner` |
| `ProposalStoreProofs`, `ApprovalFlowProofs`, `WorkspaceRuntimeProofs`, `RagIndexProofs`, `AtomicWriteProofs`, `OutcomePageProofs` | theorems about the module they are named after | `ApprovalFlowProofs` uses the store's theorems |
| `RedisProofs`, `AgentProofs` | theorems about `TaskQueue` and `MemoryStream`; about `ToolManager`, `AgentWorkflow` and `TestRunner` | |

Operators commented *Mistaken* are not part of a specification: each is a
plausible bug of the definition that follows it, used to test that the
properties notice.

### ProposalStore

A table is a function from proposal ids to a state, `"absent"` when there is no
row. `saved` and `settled` stand for `created_at` and `updated_at`: the code only
ever orders by them. `lapsed` is the set of ids whose `expires_at` has passed.
Each action is one transaction: `Save`, `LoadExpire` (the only load that writes),
`Consume`, `Discard`, `ClaimOutcome`, `CompleteOutcome`, `Reconcile` (one row of
`reconcile_applying`). The retention statements (`ORDER BY ... LIMIT -1 OFFSET n`)
are `Overflow`; `_prune_consumed`, `_prune_terminal_outcomes` and
`_prune_old_terminal_generations` are part of the transactions that run them.
The five `applied_*` states that carry a test verdict are one state `"applied"`:
nothing in the code tells them apart. `get_outcome` and `list_outcomes` read only.

### ApprovalFlow

The engine is one asyncio event loop, so an action is a piece of code between
two awaits. Sections that are synchronous in the code but several actions here
(`remember`, the preparation loop, a sweep) exclude every other engine action
(`Serving`, `Free`); a crash may still happen inside them.

| Code | Model |
|---|---|
| `_chat_stream_once`, `ApprovalCoordinator` | `ChatStart`, `graph[s].by` |
| `preview_replace/create`, `_remember`, `_prune_expired` | `AgentPreview`, `RememberPrune`, `RememberEvict`, `RememberSave` |
| `tool_node`, three loops | `ToolPrepare`; `ToolInterrupt`/`ToolPass`; `ApplyRefused`, `ApplyApproved`, `ApplyReturns`, `ToolsDone` |
| `require_approval` | `Approved` (answers by position, checked by id) |
| `apply_approved`, `mutator.apply`, repository lock | `ApplyApproved`, `RepositoryFree`, `TargetAsPreviewed` |
| `resume` | `ResumeCheck`, `ResumeClaim`, `ResumeRefused`, `ResumeOrphan` |
| `_execute_resume_run`, `_resume_stream_once`, `_resume_outcome_result` | `RunStart`, `RunDenied`, `RunComplete`, `RunUnrecorded`, `RunResult`, `Saw` |
| `_runtime_lifespan`, `reconcile_applying` | `Down`, `Crash`, `CrashBeforeWrite`, `Restart`, `SweepRow` |

`granted`, `denied`, `writes` and `overtaken` are history variables: they record what
the human said, what the engine did and which previews show a text that the file no
longer held at some time since, and no guard reads them.

Abstractions: one workspace, one repository, one target file (the interesting
conflicts are on one file); a text is a model value, a hash is the text itself
(SHA-256 is taken to be injective); the model's messages are arbitrary choices.
`_consumed` and the mutator's `_issued` and `_consumed` are caches of what the
store already decides (a consumed row is never handed out, an entry of `_pending`
has its hash issued) and are left out. The check-and-replace of `_atomic_write` is
one step here; `AtomicWrite` takes it apart. Reading and diffing for an approval card is left out.
An agent may ask for any change that was previewed, whoever previewed it: nothing in
`_require_pending` or `approval_request` looks at the session. A fault (`Fault`) is a file
system that fails in `apply`, with or without the text written; a store that fails to
take an outcome; or a stream that breaks, also between the write and the `file_change` that
would have told of it (`StreamBreaks`). `complete_outcome` and the removal of the run
from the registry are one step (`RunComplete`): the code publishes two frames and takes a lock
between them, and a resume that comes in between is served the run or the stored outcome, which
are `OutcomePage`'s subject.

### WorkspaceRuntime

One workspace, whose registered `generation` changes when a repository is added
and when it is deleted and created again (`registry.save` issues a new uuid; the
model counts). A request is a record of what its coroutine remembers: the
generation it resolved and the manager it was given (a manager is known by the
generation it was built for). `managerLock` and `runsLock` are the queues of the
two asyncio locks: nobody overtakes, and an uncontended lock is taken without a
yield, which is why `Invalidate` has two branches.

| Code | Model |
|---|---|
| `resolve_workspace`, `get_workspace_manager` | `Arrive` (with the check outside the lock), `ManagerGranted` (the check inside), `ManagerBuilt` |
| `chat`, previews and interrupt of its turn | `ChatOpens`, `TurnAsks`, `TurnEnds` |
| `resume` under `approval_runs_lock` | `ResumeQueues`, `ResumeEnters` (`Changed`), `ResumeClaims` |
| `_execute_resume_run` | `RunConcludes`, `RunLeaves` |
| `workspace_lifecycle_guard` with `add_repository`, `delete_workspace` | `GuardQueues`, `Busy`, `GuardRefuses`, `GuardEnters`, `ChangeRejected`, `DeleteFails`, `Closed` |
| `invalidate_workspace_manager` | `Invalidate`, `InvalidateGranted` |
| `registry.create`; `_runtime_lifespan` | `Create`; `Restart`, `Recover` |

What a run does to files is `ApprovalFlow`'s subject; here it has a claim, a place
in `approval_runs` and an end. One session asks at most once in each generation.

### RagIndex

`status` is the row of `rag_status` (a job and the index generation it builds have
one number; `workspace_generation`, which nothing reads back, and the counts are
left out), `rows` stands for `rag_files` with `rag_chunks` and the FTS table, which
are written together. A task is what the coroutine `_run` and its thread remember.

| Code | Model |
|---|---|
| `start_rebuild`, `store.queue` | `StartRebuild`, `Running`, `Queued` |
| `_run`: `mark_building`, `install`, `fail` | `MarkBuilding`, `Install`, `Fail`; `JobFails` for a budget, a path or a store that raises |
| `_collect` with `active_manifest` and `load_file` | `OpenFile` (`Reached`), `ReadFile` (`Unchanged`, `Reusable`, `Collected`), `CollectEnds` |
| `_recover`, `shutdown` | `Restart`, `Recover` |
| `store.query` | `Answers`, `Searched`, `Found` (they change nothing) |

The reading thread is the only other thread, and it only reads the store, whose
active index cannot change under its own job (`OneJob`), so its two reads of the
active index are not separate steps. Every edit is taken to change inode, size
or mtime. A file that is excluded, too large or not text is one that is absent.
`seen` and `witness` are history variables: what was on disk while a job read.

### AtomicWrite

Every look at the file system that the write relies on is a step: the target's path names
a directory, maybe through a link, and the editor changes the file (`Edit`) or what the path names
(`Move`) between any two of them.

| Code | Model |
|---|---|
| `preview_replace`, `preview_write`; `discard`; `restore` | `Preview`; `Discard`; `Restore` |
| `apply` with `validate`: registers, path, hashes | `Validate` |
| `_atomic_write`: parent, `mkdir`, temporary file | `PrepareParent`, `Stage` |
| identity of the parent (twice), mode, expected text, links | `SameIdentity`, `Mode`, `Expect`, `NoLinks` |
| `os.replace`, or `os.link` for a new file | `CommitWrite` |
| `finally`: sync, removal, errors | `Finally`, `MutatorCrash` |

Not modelled: the identity of the repository's root (it stays), and a missing
directory, which is an empty one. Looks in which nothing of the target is compared are
merged with the next one: `Validate` stands for the read for the diff, the expected state and
the second resolution of the path (`mutations.py:133`, where a replace of a file that is gone
is a validation error, not a conflict), `PrepareParent` for `mkdir`, the link check and the
first look at the identity (`mutations.py:279-286`); what those looks found is looked at
again before the commit.

### OutcomePage

| Code | Model |
|---|---|
| `_DurableResumeRun.publish`, `subscribe` | `Publish`, `DeliverFrame` (a late subscriber continues at the first frame kept) |
| `_execute_resume_run`, interrupts in `sse_event_generator` | `RunTalks` (an `approval_required` frame is the approval it asks for), `RunRecords`, `RunEnds` |
| `/chat/resume` seen by the page, or by nobody | `ResumeAnswers`, `ResumeUnheard` |
| relay in the gateway | `StreamEnds`, `GatewayEnds`, `LinkBreaks` |
| `resumeApproval`, after the stream | `DecideCard`, `AfterStream` |
| `recoverApprovalOutcome` with its timer | `RecoverOutcome`, `QueryAnswers`, `QueryAgain` |
| `stopRun`, `recoverWorkspace` | `StopRun`, `AskRecheck`, `Rechecked` |

The page knows the first approval of a message; the run of one asks for the next, and may ask
for a decided one again (the interrupt of a replayed node), which shows its card as pending.
`approvalSubmissionsRef` is "the stream is that approval's" (`DecideCard`): it is filled when
the request is sent and emptied when its stream ends or is given up.

### TestRunner

The operating system's part is external: `Output`, `ProcessEnds`, `HelperEnds`. The
coroutine and its readers are `ReadChunk`, `ReadEnd`, `Charge` (`_OutputBudget`),
`Waited`, `RunTimesOut`, `Cancel`, `KillGroup` and `Reaped`/`ReapTimesOut`
(`_terminate`), `Collected`/`TooLate`/`CollectTimesOut` (`_collect_readers`). A helper
is what the tests leave behind with the pipes open, in the process group or outside.

### ToolManager

`init_all` is `Connect` for each server and `InitEnds`; `_self_heal_loop` is `Wake`,
`Connect`, `RoundEnds`; `prepare_approval` is `Prepare`, `call_tool` is `CallTool` and one
`Attempt` per try (`TriesAgain`); `shutdown` is `Shutdown`. What servers do is external
(`HealthTurns`). A server may be down, connected without tools, or full.

### TaskQueue

Every Lua script is a step: `ClaimScript`, `Renewed`, `Release`, `Legal`. `submit_task` is
`Submit`; `poll_and_claim` three steps (`Pop`, `TryClaim`, `Begin`); `_heartbeat_loop` is
`Beat`; `complete`/`fail` with `_finalize` are `Report`, `Decide`, `Conclude`. Time passes in
heartbeat intervals (`Tick`, 60 s; the lock lives two), and an interval in which the
engine leaves undone what was due is a stall. `EngineCrash` loses entries and heartbeats.
`complete` and `fail` have no HTTP route; they are modelled as their callers could use them.
The manual `heartbeat` (`task_queue.py:107`) has no caller and is left out.

### AgentWorkflow

`run_stage` is `RunStage`/`StageFails`; `advance` with the caller's answer is `Advance`,
`Answer`; `coordinate` is `WriteTodos`, `ExecuteSubtask`, `Synthesize`. What a model writes is
a version number; a plan is any relation among its tasks. `SortTasks` in `PlanSort` is
`sort_tasks_by_dependency`; nothing calls it (section 6), and it has a module of its own
because no proof may reach a recursive operator.

### MemoryStream

`initConsumerGroups` is `InitGroups`; a scheduled method is `Read`, `Insert`,
`Acknowledge`, `Commit` in this order, the last when the transactional method has
returned; `InstanceCrash` takes the open transaction along. The producer is not in the
repository: records appear (`Produce`), also such as cannot be parsed, such as lack a column
the schema requires (`incomplete`), and, in the session stream, several of one session.
`Refused` is what the schema does not take (`schema.sql:22`, `:34`, `:46-51`), and then the insert
fails without any fault; `StoredWithout` what of the batch is stored all the same: of a loop of
inserts what came before, of a `saveBatch` maybe the rest too. An insert waits for a
transaction with the same key (`Waits`); MySQL takes the key row by row, so two
transactions can also wait for each other and one of them fails: that is the fault, here.

### Chunker

A text is its number of lines and the set of the blank ones; what `ast` and the
headings give is a set of spans. `Parts` cuts a span with overlap, `Materialize` turns
spans into chunks, `DocumentSpans` is the sections of a document, `SpansOrAll` the
fallback to the whole text.

## 3. Runs and bounds

| Run | Instance | Shows |
|---|---|---|
| `race` | 2 sessions, 2 proposals that would write different texts, a crash | two sessions ask for their own and each other's change, and their changes race for one file; 0.9 million states, with interchangeable proposals, sessions and texts |
| `batch` | 1 session, 2 proposals, 2 calls per message, 1 text, a crash, an edit, a fault, 1 retained outcome | replays with several approvals, duplicate calls in one message, partial failures; 2.1 million states, with interchangeable proposals |
| `live` | 1 session, 2 proposals, 1 text, room for one, a crash | liveness, without symmetry; and that the flow's steps are the store's |
| `workspace` | the runtime: 2 requests at a time, 3 generations, a restart, each of the two faults once; the store: 3 proposals, 2 sessions, 2 generations, room for 1 pending row and 1 terminal outcome | safety and liveness of the runtime, safety of the store: every overflow of either table happens, within one generation and across two; 0.6 million states, without symmetry |
| `index_and_page` | the index: 2 files with any contents at first, each edited once, 2 texts, 2 jobs, 2 generations, a restart, a fault; the page: 2 approvals, a buffer of 2 frames and 3 to put in, 4 troubles | safety and liveness of both; 0.5 million states. Before it starts TLC evaluates the chunker on every text of up to 4 lines with any blanks and up to 2 spans, on spans of 5 to 7 lines, and on every document of up to 6 lines, with chunks of 3 lines that overlap by 1 |
| `services` | below | safety and liveness of six services; 0.2 million states. Before it starts TLC evaluates the sort on every plan of 3 tasks |
| `restart_refuses`, `session_stuck`, `late_write`, `decided_asked`, `stale_manager`, `stream_lost` | as named in section 6 | the six disagreements |

Two proposals are the smallest number with a wrong one to write, to answer, to
evict or to prune; three are needed in the store so that an overflow leaves a
survivor and a choice. Two sessions are the smallest number that can race for the
repository and expire each other's proposals. One crash suffices for every
recovery: the state after a restart has no memory of how many preceded it
(counters aside), and a second crash during recovery is the same sweep again.
Changes that would write the same text are left out of `race` (`TextsDiffer`) and are
what `batch` and `live` have. Two requests can wait for each other at the two locks, and
since each may come again and again two are enough for liveness; what a third could
do to the safety properties is left to the theorems, which hold for any number (with
three interchangeable requests TLC finds the same in 1.8 million states). Three
generations allow a change or a re-creation after a change.
In `services` a bound is per service: two tasks (one may be submitted twice) for two
workers and two troubles, so that a stall can meet a crash; two instances on two streams
with two records between them (one each, or two of a stream, in one batch or in two) and two
faults; two servers
that both offer a tool, one of which is retried, one call and one turn of health; plans
of two tasks and two requests for another version; two directories, two texts, two calls
of `apply` and two disturbances between their looks; two bytes of output for two allowed. A
behaviour is about one service and the others rest, so nothing is multiplied; the services share
no state. On the page one trouble makes the page query, a second fails the query, a third
is the user who has it checked again, and a fourth fails what follows, the recheck or
the next decision: every way a decision can go takes no more than that.
The page's buffer must hold two frames (the real limit is 256): with one, the outcome
event itself could be dropped by the `done` behind it.
The second job of the index finds an index to reuse and to replace, and after it
the state has no memory of the first (three jobs give the same results in 0.9 million
states). The bounds `MaxSubmits`, `MaxTroubles`, `MaxRecords`, `MaxStreamFaults`, `MaxTurns`, `MaxTask`, `MaxModify`,
`MaxTurmoil`, `MaxApplies`, `MaxChatter`, `MaxPageTrouble`, `MaxWritten`, `MaxJobs`, `MaxGeneration`, `MaxRestarts`, `MaxCalls`, `MaxCrashes`, `MaxEdits` and `MaxFaults` are constants and
appear only in guards; `Fault` is the set of failures that may happen once each. Deadlock is not checked: proposals and failures are finite,
so every behaviour may come to rest.

Fairness (`FairSpec`): turns and runs are strongly fair because the event loop
runs whatever is ready, asyncio locks are handed on in order and a turn ends by
its iteration limit (35, `check_early_termination`) however often it calls tools;
a restart is weakly fair because an engine that is down is assumed to be started
again. In `WorkspaceRuntime` each request that can go on is weakly fair: a lock is
granted in order of arrival and never taken back, the initialisation of a manager
has a timeout, a shutdown only awaits a cancelled task, and turns end as above.
The steps of an indexing job are weakly fair: the event loop and the thread run.
Of the services: `QueueFairness` (the engine does what is ready, and time passes),
`StreamFairness` (an instance finishes the method it runs, and the scheduler, every five
seconds, reads each stream again and again), `ToolFairness` (the loop wakes and its
connections end, by their timeout if need be), `PageFairness` (runs go on, requests are
answered, timers fire), `RunnerFairness` (the coroutine goes on and its timers fire; the
tests owe nothing). Users, editors, workers, servers, crashes and faults have no fairness.

## 4. Properties

Store: `ApplyingKeepsChange` (recovery can always be decided), `RetentionBounds`
(both tables stay bounded), `OutcomeLifecycle` (an outcome is decided once),
`DecidedStaysDecided` (so is a proposal, even after its rows are pruned).

Flow: `WrittenOnceAndOnlyIfApproved`, `NoLostUpdate`, `TestsSeeTheirWrite`,
`MemoryIsBacked`, `NoOrphan`, `NoWriteAfterOutcome`, `RefusedForAReason`,
`StoreSpec` (the flow uses the store only through its
transactions, so what is proved of the store holds in the flow),
`ImplementsPromise` (the refinement of `ApprovalPromise`), and the liveness
properties `EveryClaimConcludes` and `EveryTurnEnds`. `MemoryIsBacked` says that what was
consumed, evicted or expired has left memory; that a decided change is not handed out again
is `DecidedIsNotAsked`, which the code violates (section 6).

Workspace: `RunIsCurrent` (no change or deletion slips between a run's checks and
its end), `CacheIsCurrent` (an invalidated manager does not come back),
`OutcomeIsReachable` (recovery at start, which looks at one generation only, finds
every undecided outcome), and the liveness property `EveryRequestEnds` (two locks,
no deadlock). `OutcomeIsReachable` excludes outcomes whose persisting failed, and
`CacheIsCurrent` a deletion that failed half-way: either can really happen then.

Index: `OneJob`, `AnswerIsHonest` (whatever is edited, changed or restarted when, an
answer comes from a complete index of the generation asked for, and each file in it
is as it was on disk while the job read), `NoRowsLeftBehind`, `OnlySuccessReplaces`
(a failed or interrupted build costs nothing), and the liveness property
`EveryJobEnds`, which excludes a store that cannot even record a failure: then a
rebuild is refused until the next start.

`NoWriteAfterOutcome` holds with one apply call per message (`race`) and fails
with two (`late_write`). `RefusedForAReason` (`race`: an approved change fails only if its time ran
out or its file changed since the preview) is restricted by `Undisturbed`: no crash, no
fault, one apply call per message, and memory with room for every proposal. Each
restriction is needed: see section 6.

Writing: `WritesLikeCompareAndSet` (a write replaces the text that was previewed in the
directory that was checked, except inside the window after the last look, and success is
reported exactly for a write).

Page: `CardsAreTrue` (a card never tells of an outcome that is not recorded, though frames
are dropped and streams break) and the liveness property `EveryDecisionIsShown`: a decision
that was sent ends with its outcome on the card, or with the statement that it is unknown,
whatever breaks, the query and the recheck included; a card shown as pending meanwhile is not an
end. Its exceptions are named: a stream given up for another approval, an outcome nobody
could record.

Tests: `ResultIsComplete` (no verdict while something of the tests still writes, and the
output kept is all there was or as much as allowed, and marked) and the liveness property
`RunEndsInTime` (the repository's lock is always given back).

Tools: `ApprovalStaysWithProvider` (healing cannot slip another provider under an approved
call) and the liveness property `EveryServerServes`, with one exception that the code has. The
manager that is deployed has one server, so the first is about what a second one would do.

Queue: `RunsAlone` (heartbeat against expiry), `LostForAReason` (between pop and claim), and
the liveness property `AbandonedLockFrees`.

Workflow: `ApplyFollowsDecisions` (what is applied was made from the versions the user last saw
and did not decline); `SortIsTopological` of every small plan.

Stream: `AcknowledgedIsStored` and the liveness property `EveryRecordIsStored` (without faults a
record that can be parsed is stored, or a row of its batch was refused and it is still
unacknowledged). That the second case does not exist, for a record the schema would take, is
`NothingIsLost`, which the code violates (section 6).

Chunks: no line that is not blank is lost, a chunk has at most `MaxChunkLines`, neighbours
overlap (`ChunksOfEveryText`, `ChunksOfALongSpan`, `SectionsOfEveryDocument`).

## 5. Proofs

Every invariant and every safety property that a run checks is also a theorem, for every
value of the constants that meets the named assumptions. TLC checked each inductive
invariant on the run's instance before it was proved.

### The store

For any sets of proposals, sessions and generations, and any positive limits:

| Theorem | Statement |
|---|---|
| `StoreTyped` | `StoreSpec => []StoreTypeOK` |
| `RecoveryIsDecidable` | `StoreSpec => []ApplyingKeepsChange` |
| `OutcomeIsDecidedOnce` | `StoreSpec => OutcomeLifecycle` |
| `DecisionIsFinal` | `StoreSpec => DecidedStaysDecided` |
| `TablesStayBounded` | `StoreSpec => []RetentionBounds` |

`ApplyingKeepsChange` is not inductive by itself: a claim could insert an outcome
for a proposal with a stale one, a save could reuse a row. The inductive invariant
`StoreInv` adds that an unsaved proposal has no row (`UnsavedIsAbsent`) and that
what was once settled was saved and decided and is not applying (`SettledIsDecided`). The
lemmas say what pruning may do (`PruningForgetsOnly`: rows only disappear, terminal
ones at that) and what a claim and a completion do besides (`ClaimOpens`,
`CompletionSettles`).

`RetentionBounds` is about cardinalities after `Overflow`. The argument
(`SurvivorsAreFew`): among the surviving rows take the oldest, which exists because
the order is a finite sequence (well-foundedness of `<` on the indices); all other
survivors are newer than it, and it survived, so fewer than the limit are. That
needs each row to be in the order (`TerminalIsSettled`, part of `BoundsInv`) and a
row saved last to survive (`LatestIsKept`).

The only assumptions about the store are `MaxPendingAssumption` and `MaxOutcomesAssumption`; the
sets may be infinite, since a row belongs to a proposal that was saved.

### The index

For any files, texts, generations and bounds (`BoundsAssumption`: they are numbers):

| Theorem of `RagIndexProofs` | Statement |
|---|---|
| `RagTyped` | `Spec => []TypeOK` |
| `OneJobAtATime` | `Spec => []OneJob` |
| `AnswersAreHonest` | `Spec => []AnswerIsHonest` |
| `OneIndexIsKept` | `Spec => []NoRowsLeftBehind` |
| `OnlySuccessReplacesAnswers` | `Spec => OnlySuccessReplaces` |

`AnswerIsHonest` speaks of the installed index; its inductive form (`Inv`) speaks of the
job as well. `Reads` says of a task that each file is still to be visited, or open, or
has exactly one entry that was seen on disk, or was seen absent; `Watches` that what
is on disk now has been seen, and that an open file whose stamp is still the same is
still there; `IndexInv` that this held of the job that built the installed index. An
edit of an open file raises its stamp above the recorded one, so a read that is
overtaken fails (`EditInv`, `ReadInv`); a reused entry has the text that was read
(`ReuseIsExact`); installation carries `Reads` over to `IndexInv` (`InstallInv`).
Every other step moves one task and leaves the index (`JobMoves`).

### The approval flow

For any sessions, proposals, texts, limits, and any number of crashes, edits and faults
(`GenAssumption`, `NoneAssumption`: the names that stand for nothing are no others;
`FlowBounds`: the bounds are numbers):

| Theorem of `ApprovalFlowProofs` | Statement |
|---|---|
| `FlowTyped` | `Spec => []TypeOK` |
| `FlowUsesStore` | `Spec => StoreSpec`, so the store's theorems hold in the flow |
| `ChangesAreWrittenOnce` | `Spec => []WrittenOnceAndOnlyIfApproved` |
| `UpdatesAreNotLost` | `Spec => NoLostUpdate` |
| `TestsSeeWrites` | `Spec => []TestsSeeTheirWrite` |
| `MemoryStaysBacked` | `Spec => []MemoryIsBacked` |
| `NobodyIsOrphaned` | `Spec => []NoOrphan` |
| `PromiseIsKept` | `Spec => ImplementsPromise` |
| `RefusalsHaveReasons` | `Spec => []RefusedForAReason` |
| `WritesPrecedeOutcomes` | `Spec => NoWriteAfterOutcome`, assuming `MaxCalls = 1` and `MaxFaults = 0` |

`StepTransacts` says that each step is a transaction of the store, a claim, or leaves the
store alone; with it `StoreInv` is inductive here too. `WrittenOnceAndOnlyIfApproved` is not
inductive: the write looks at the turn's answers and at the memory, not at what the human
said. `FlowInv` says, part by part, why that is the same:

* `TurnInv`: a turn handles proposals that were previewed.
* `ConsentInv`: what a run, an answer in a checkpoint or an executing turn takes for granted
  is granted. This follows an answer from the claim through the run and the replayed
  node to the call that writes.
* `AnswerInv`: a proposal is answered once, together with the claim of its outcome, and
  only answered proposals have an outcome.
* `WriteInv`: what was written was granted, saved and consumed (so it cannot be written
  again: a consumed row does not come back, by the store's invariant), the turn that
  tests has written, and a run that saw a verification stands for a write.
* `HereInv`: one generation. `TestInv`: one turn tests, with the repository's lock.
* `MemoryIsBacked` and `NoOrphan` themselves.

The refinement maps a claim to `Decide`, the call that writes to `Write`, the end of a run
and the row of a sweep to `Conclude`, and every other step to a stutter (`QuietSteps`,
`WhoWrites`, `OutcomesOpen`); `VerdictIsHonest` is what the recorded verdict owes to
`WriteInv`, `OthersAreForgottenOnly` what pruning may do behind it.

Two calls to the library were replaced for the prover's sake: `Chosen` filters a sequence
as a recursive function, and its properties are proved by taking the least index at which
they fail (`UpToExists`, `FirstPosition`), since induction theorems are out of reach.

`RefusedForAReason` looks harmless and is the hardest of them: that a change is *not*
refused means that at every point between its preview and its write everything it will
need is there. `RefusalInv` (theorem `RefusalInvariance`) says what that is:

* `OvertakenInv`: a preview that was not overtaken still shows what the file holds.
* `OrderInv`: neither the rows nor the memory hold a change twice, memory holds only
  saved changes, and what is about to be remembered is not saved yet. Hence, with room for
  every proposal, memory is never full when one is added (`NothingIsEvicted`) and no table
  overflows (`NothingOverflows`): both count distinct elements of a finite set.
* `OneCallInv`: with one call per message, a turn either replays the call its checkpoint
  asks for, answer in hand, or meets it for the first time and executes nothing
  (`Replays`, `Starts`); so the only turn that executes a change belongs to the change's
  own run, and what a checkpoint asks for stays asked for until then (`AsksStay`).
* `RunsApply`: without faults, who has a run has an outcome still `applying`, and no sweep
  meets a run.
* `ServesInv`, for as long as nothing disturbs: a saved change stays in its row and in
  memory until it is consumed (`Kept`); a checkpoint has the answer of its run and no other
  (`AnswersFit`); and a run that is still due to write (approved, nothing seen yet, its time
  not over, its preview not overtaken) finds its question and its claim while it is queued,
  and is on its way to the write while it runs (`Serves`, `OnItsWay`).

A run that ends without having seen anything was then not due, which is the reason sought
(`StepReasons`). `DueRuns` and `OnTheWay` are the steps of that argument. `Undisturbed` makes
`Proposal` finite; nothing else is bounded. `NoWriteAfterOutcome` follows from `OneCallInv` and
`RunsApply`, whatever crashes; both hypotheses of `WritesPrecedeOutcomes` are needed (two calls:
run `late_write`; a fault: a resume then sweeps the outcomes of running runs, section 6).

### The workspace

For any requests and bounds (`WorkspaceRuntimeProofs`): `RuntimeTyped`, `RunsAreCurrent`
[`RunIsCurrent`], `CacheStaysCurrent` [`CacheIsCurrent`], `OutcomesAreReachable`
[`OutcomeIsReachable`].

The argument is the discipline of the two locks: `TypeOK` says who is in which queue, and
`LockHeads` that whoever builds a manager is first in the queue of the manager lock and
whoever claims, invalidates or closes is first in that of the runs lock. `Ordered` says
that managers are built in order of arrival, so that nobody who waits would build an
older one than is cached or in use; `BuilderIsFollowed` that whoever builds for a generation
that is over has its invalidation behind it in the queue, which gives `CacheIsCurrent`.
`ResumesKnow` and `OutcomeHasRun` carry the checks of a resume over its awaits to its run. Since there are many actions
and few ways to disturb the invariant, actions are mapped to an abstract `Step(r, q)` of
request records first, and the invariant is proved of that (`StepInv`).

### The services

| Theorem | Property |
|---|---|
| `AtomicWriteProofs!ApplyIsCompareAndSet` | `WritesLikeCompareAndSet` |
| `OutcomePageProofs!CardsStayTrue`, `PageTyping` | `CardsAreTrue`, `PageTypeOK` |
| `RedisProofs!TasksRunAlone`, `SubmissionsAreKept`, `NoLockIsLeft`, `QueueTyped` | `RunsAlone`, `LostForAReason`, `Calm => LocksTended`, `QueueTypeOK` |
| `RedisProofs!AcknowledgementsAreTrue`, `RecordsAreStoredOnce`, `StreamTyped` | `AcknowledgedIsStored`, `StoredOnce`, `StreamTypeOK` |
| `AgentProofs!PreparedMeansExecuting`, `DoneOnce`, `ToolsTyped` | `ApprovalStaysWithProvider`, `DoneAtMostOnce`, `ToolTypeOK` |
| `AgentProofs!PlansFollowDecisions` | `ApplyFollowsDecisions` |
| `AgentProofs!ResultsAreComplete` | `ResultIsComplete` |

Writing. The invariant of `AtomicWrite` says at which steps a look at the file system still
counts, and which history variable covers what happened since: the identity of the
directory from `mode` on (`InTheDirectory`), the text from `links` on (`TextAsPreviewed`).

Page (`PageBounds`: the buffer has room for a frame, the other bounds are numbers). A card learns
of an outcome by four ways: a frame of the stream, the end of the stream, the answer to a
query, the answer to `/chat/pending`, and each of them may be old. `PageInv` follows each back to
the moment the outcome was recorded, after which it does not change (`ServerSettles`): a
run whose buffer holds an `outcome` or `done` frame has recorded (`RunsOK`, kept by `PublishIs` when
a full buffer drops its oldest frame), and so has the one whose replay a page has
noted or whose stream it saw end well (`LinkOK`); what an answer under way says is so
(`RecheckOK`).

Queue (`QueueBounds`: numbers). `RunsAlone` and `LocksTended` need `CalmInv`, which holds until the engine stalls, crashes
or misses an answer of Redis. Its centre is `BeatsInv`: a heartbeat holds its lock, a lock whose
heartbeat is due has time left, and one whose heartbeat is not due has just been renewed,
so no interval ends with a lock expired under its worker. `PollsInv`, `ActiveInv`, `EndingInv` and
`RunsInv` pass a claim from the poll that won it over the engine's entry to the report that
ends it, so that nobody else is ever at the task. `LostInv` needs none of this.

Stream. `StreamInv` says of each batch in hand that nothing of it is committed (`BatchInv`),
that no two instances have the same record (`BatchesApart`) and that what is not
unacknowledged is stored, garbled or in somebody's hand (`AckInv`), whatever of a batch
a refused row lets through.

Tools. `ToolInv` says of each call what it has done at each point and that a prepared tool
still belongs to the provider that prepared it; that is kept because `register` never takes
a tool from anybody (`RegisterKeeps`).

Workflow (`WorkflowBounds`: numbers). `WorkflowInv` goes by stage: what lies before the current one is `Settled` (written,
not declined, made from the version before), and while the user is asked so is the current
one; a version is never declined before it is written, so writing again settles again.

Tests. The invariant of `TestRunner` adds up the bytes (`Accounts`): what is kept and what is
left of the budget are `MaxOutput`, and either nothing was dropped or the budget is used up;
and a reader that is done was the last to see its pipe (`DoneSawTheEnd`).

### Model-checked only

Liveness: `EveryTurnEnds`, `EveryClaimConcludes`, `EveryRequestEnds`, `EveryJobEnds`, `AbandonedLockFrees`,
`EveryRecordIsStored`, `EveryServerServes`, `EveryDecisionIsShown`, `RunEndsInTime`: they rest on fairness, that is on
`ENABLED`, which the prover does not handle. The chunker and the sort are evaluated over all
small inputs: what a recursive definition computes for every input is an induction the
prover cannot do. `NoWriteAfterOutcome` with two calls per message or with faults, and
`RefusedForAReason` without `Undisturbed`, are false.

## 6. Where the code and its documents disagree

* `restart_refuses` (`FailedHasReason`). README.md:227 says a restarted engine can
  continue an approval. `resume` claims the row first (`chat.py:400`), and the empty
  memory of the new process restores only rows that are still pending
  (`change_service.py:233`): the approved change is refused and recorded as failed.
* `session_stuck` (`AskCanBeAnswered`). `_prune_expired` (`change_service.py:262`)
  expires every session's proposals, while their checkpoints go on asking. Such an
  approval can be neither granted nor rejected (404), and the session accepts no
  message while it is pending (409).
* `late_write` (`NoWriteAfterOutcome`). With two apply calls in a message, all
  approvals are asked before any call executes (`nodes.py:298`), so the first run
  ends without having written and records `failed` (README.md:226 promises the
  terminal state); the change is written by the second run.
* `decided_asked` (`DecidedIsNotAsked`). A rejected change stays in `_pending`
  (`change_service.py:185`), and `_require_pending` hands out what it finds there. If the
  agent asks for it again, `approval_required` is sent once more with the
  same id; the resume that README.md:225 asks for is answered by the outcome of the first
  decision (`chat.py:303-312`) and never reaches the checkpoint, so the session waits for
  ever and accepts no message (409).
* `stale_manager` (`ManagerServesRequest`). `add_repository` changes the registry and
  then waits for the manager lock; until it gets it, a request for the updated
  workspace takes the old manager from the cache (`workspaces.py:77`), which
  `test_workspace_requests.py:166` says it does not. Its `search_workspace` goes on
  answering from the old index, against README.md:146. A change previewed with it is
  stored under the old generation, and its approval answers 404.
* `stream_lost` (`NothingIsLost`). The schema takes one row per session (`schema.sql:34`)
  and none without its required columns. The insert that is refused
  (`MemoryPersistenceService.java:145`) ends the batch: the records behind it are not stored,
  nothing is acknowledged, and nothing reads a delivered record again, against
  `MemoryPersistenceService.java:29` ("保证消息不丢失").

More were met while modelling; they are excluded by name or by a bound, or written into
the model as they are:

* A claimed proposal is evicted from memory when it is full (`change_service.py:192`,
  against `test_claimed_proposal_is_not_evicted_and_can_be_consumed`, which fills the store
  only): visible with `MaxPending = 1`.
* A resume that meets an outcome whose persisting failed reconciles the outcomes of
  running runs too (`chat.py:379`): visible with `MaxFaults = 1` in `race`.
* `registry.delete` forgets a workspace before it removes its directory
  (`registry.py:66`): if that fails, the cached manager stays and serves whatever is
  created under the same id.
* A rejected approval that a crash interrupts is resolved by the hash of the file, as an
  approved one would be: `applied_recovered` or `recovery_required` (the promise leaves
  its verdict open).
* Memory stream: the acknowledgement precedes the commit of the transaction
  (against `MemoryPersistenceService.java:77`, "成功后 ACK"), so a lost commit loses records.
* Task queue: `complete` and `fail` take a task id only, so the late report of a worker
  whose lock expired ends the claim of its successor; the heartbeat lives in the engine,
  so the task of a remote worker that died stays locked; an error in `_finalize`
  leaves lock and heartbeat behind; a heartbeat ends for good on a Redis error; the
  status in `_task_store` never leaves "running".
* Tool manager: a server that was connected while it had no tools is refreshed by the
  loop only as long as the whole registry is empty (`manager.py:206`), otherwise by a user's
  `POST /tools/refresh`; of two servers with a tool of
  the same name the first to register has it; a call over HTTP that is not idempotent is
  repeated after a lost answer.
* Workflow: iterating the generator without an answer approves (`workflow.py:251`); the
  feedback of a "modify" is not passed on; the supervisor executes tasks in the order of
  the plan and does not call `sort_tasks_by_dependency` (`supervisor.py:35` and `:46` say
  "按依赖顺序"). Nothing in the repository calls `OpenSpecWorkflow`.
* Page: deciding a second card, or stopping while another approval is active, gives up
  the first one's stream without asking for its outcome, so its card stays "submitting"
  until the page is loaded again (`App.tsx:496` against README.md:226); verification
  events are attributed to the active approval (`App.tsx:412`); a late answer of
  `/chat/pending` can show a decided card as pending again.

## 7. Not modelled

* Path guard, scanner and development tools keep no state: what they decide depends on
  one path or one command line. That a path may change after it was checked is in
  `AtomicWrite`.
* Prompts, model calls, the dispatcher and the agents, whose answers are arbitrary choices;
  the formatting and retrieval of conversation memory (what it sends is the input of
  `MemoryStream`); settings, which are read once at start.
* Of the registry: `set_active` (a pointer to a default workspace) and the validation of
  paths. Of the lifespan: clients that are opened and closed.
* Of the gateway: routes that forward a request and its answer. Of the page: sessions,
  switching workspaces, the index panel, layout.
* Of the chunker: how `ast` and regular expressions find spans; they are any spans. Text
  outside every span (before the first heading, module code between functions) is in no
  chunk.
* Of the test runner: Windows' `taskkill` is the same `KillGroup`; helpers in a session of
  their own that have closed the pipes survive, as do helpers of the group when the tests
  end by themselves; the result says nothing of them.
* Of the tool manager: `POST /tools/refresh` (`api/tools.py:72`), which runs `init_all` again
  beside the healing loop, adds names to the failed list that are on it already, and may
  start a loop after the shutdown (`manager.py:92`).
* Of the task queue: a script that ran although its reply was lost; a command that fails
  (`RedisFails`) has had no effect.
* Of the workflow: a coordination that raises before there is a plan (`stages.py:216`).
* Of the test runner, besides: a first cancellation while a failed collection is handled
  (`test_runner.py:149`).
* Of the graph: routing, prompts and read-only tools; a model that fails or runs out of
  iterations is "the turn ends".

What would come next, in this order: the composition of `OutcomePage` with `ApprovalFlow`, so that
the run's frames are those of a turn; and two workspaces that share one page.
