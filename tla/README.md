# KodaCode in TLA+

KodaCode is a terminal coding agent: a Go program in which a language model
works on a repository through tools, under permissions a user grants.  What a
session is, was, and may do is a log of events; everything else is a fold of
that log or a reader of it.  This directory holds TLA+ models of that core, the
TLC configurations that check them and the TLAPS proofs about them.

## 1. The system

| Part | Where | State | Operations | Talks to |
|---|---|---|---|---|
| Event store | `internal/events/sqlite.go` | table `session_events`, one row per event, `(session, sequence)` unique | `Append`, `Latest`, `Replay` | several processes may have one database open |
| Projector | `internal/events/projector*.go` | `SessionState` and its `LastSequence` | `Apply`, `Snapshot`, `NewProjectorFromSnapshotAt` | folds events, refuses one that is not newer |
| Session service | `internal/app/session_state.go`, `session_runtime.go` | per session: projector, `lastDurable`, `snapshotSequence`, watchers | `append`, `Snapshot`, `Inspect`, `Watch`, `publishEphemeral` | the store; all under `runtime.mu` |
| Session watcher | `internal/app/session_watch.go` | queue, `notify` token, `closed` | `push`, `run` | service pushes, a reader receives |
| Terminal UI stream | `internal/tui/model_watch.go`, `model_update_async.go` | its own projector, a watch | open a view, apply events, refresh a snapshot | commands run in goroutines, results are queued |
| Turn runtime | `internal/app/runtime_*turn*.go`, `runtime_session.go`, `runtime_resume*.go`, `runtime_answer_question.go` | registry of running turns | start, answer, resume, roll over, cancel | appends turn events; clients call it concurrently |
| Permissions | `internal/app/session_authorization*.go`, `execution_service_authorize.go`, `tool_executor_paths.go`, `tool_executor_network.go` | grants and pending requests, in the log | authorize, resolve | called by tools, answered by the UI |
| Turn runner | `internal/app/turn_runner*.go`, `tool_conversation.go` | one provider request, its attempts, its batch of tool calls, the conversation in memory | stream, schedule, run, retry, continue | providers, the tool executor, the log |
| Execution service | `internal/app/execution_*.go`, `background_log_store_sqlite.go`, `process_state.go` | child processes, observers, buffered logs | start in background, monitor, pump, resume | operating system |
| Budgets | `internal/app/session_budget.go` | a cost summary per session, a total over all | status, update | hook inside `append` |
| Workflow engine | `internal/app/runtime_workflow_*.go`, `internal/events/projector_workflow.go` | phase, status and evidence, in the log | start, advance, revise, answer, resume | runs turns, is moved when they end |
| Files | `internal/filemutation`, `internal/tool/{read,write,apply_patch}.go`, `internal/app/tool_executor_write_*.go`, `runtime_write_restore.go` | locks per file, observed reads and write mutations in the log | read, write, patch, restore | the file system, people with an editor |
| History | `internal/app/session_history*.go`, `session_compaction_payload.go`, `turn_history_prepare.go`, `runtime_compaction.go` | a template in memory per running turn; checkpoints and summaries in the log | load, summarise, checkpoint, `/compact` | the turn loop, the log |
| Language servers | `internal/lsp`, `internal/codeintel` | one server per workspace and language, its open documents and diagnostics | start, sync a document, query, wait for diagnostics | child processes, tools |
| MCP clients | `internal/mcp` | outstanding requests | call, cancel, close | child processes |

The rest (providers, tools' own logic, search, prompts, rendering,
configuration, site) is listed in PROJECT.json with the reason it is left out.

Interactions: a turn is a loop of provider requests; a request's tool calls are
authorized, run, and answered in the log, and the log is what the next request, a
resumed turn and a restarted process are built from.  A tool or a turn calls `SessionService.append`; the service
commits to the store, folds the event into its projector, pushes it to every
watcher and, every 64 events, appends a snapshot of the folded state to the same
log.  A watcher is a goroutine with an unbounded queue.  The UI reads a
`Snapshot`, opens a `Watch` after its sequence and folds what comes with a
second projector.  After a restart the service loads the newest snapshot and
replays what follows.

Hard behaviours: an append that snapshots makes two commits and may crash
between them; a snapshot that fails is forgotten and tried again; two processes
may have the database open; a watch must neither lose nor repeat an event at
the seam of replay and push; calls that answer, resume and cancel one turn run in
goroutines of their clients and agree only through the log and a registry; goroutines sleep and are woken through a channel
of capacity one; UI messages are queued and may be stale when they are handled.
Authorization, budgets and workflows read a Snapshot, decide, and append later,
with nothing held in between; a provider stream breaks in the middle of a batch; a
process outlives the runtime that started it; files are changed by two turns and by
people; a language server dies and comes back while calls share it.
PROJECT.json lists each hazard at its line.

What makes each part correct:

* store: the log only grows; sequences are its positions;
* projector and service: the state in memory, and the state any process would
  load now, are the fold of the whole log; snapshots stay rare;
* watcher: a FIFO stream that loses no wake-up, drains, and ends when canceled;
* watch: replay and live events together are exactly the log after the
  requested sequence, and an ephemeral event sits where it was published;
* turns: one runner at a time, which a canceller can always find; a tool call
  runs once; an ended turn stays ended and leaves nothing for the user to answer;
  a turn that is not over either has a runner or waits for its user;
* authorization: what runs is covered by an answer a user gave, for that turn and
  that subject; nobody is asked again what was answered;
* requests: the conversation sent next is what the log would rebuild, whatever
  was retried; a broken stream runs only reads;
* history: every ended turn is told to later turns once, as it was or in the summary,
  and so is what its background processes did afterwards;
* background: one supervisor per process, an exit recorded if and only if there
  was one, output counted once;
* budgets: a session's summary is its cost, and the total is their sum;
* workflows: no phase runs before the evidence of those before it;
* files: no deadlock, no mixed patches, no blind overwrite, an exact restore;
* language servers: one process, a document as the file is, diagnostics of the
  text that was asked about;
* UI: when it has handled everything, it shows the session as it is, and it
  never refuses an event.

## 2. The modules

| Module | Models | Abstract specification |
|---|---|---|
| `EventStream` | what a watch promises: a FIFO channel | - |
| `SessionWatcher` | `sessionWatcher`: `push` in two halves, `run`, `pop` | implements `EventStream` |
| `SessionJournal` | what the services promise: one journal, states that are its fold, subscribers that read it in order | - |
| `SessionService` | store, projector, service and watches of one session, crashes | implements `SessionJournal` |
| `EventSelection` | the rows a replay selects, in order | - |
| `TuiSession` | the UI's view of a session, composed with `SessionService` | - |
| `TurnLifecycle` | the turns of a session: the calls that start, resume and cancel them | - |
| `ProviderRequest` | one step of a turn: attempts, stream, batch of tool calls | - |
| `Authorization` | the checks of a tool call, requests, answers and grants | - |
| `BackgroundExecution` | one background process, its pumps, monitor, log and resumed monitors | - |
| `Budget` | cost summaries and the total over sessions | - |
| `Workflow` | the phases of a session's workflow | - |
| `FileMutation` | files under read, write, patch, restore and edits from outside | - |
| `LanguageServer` | a language server, its document and its diagnostics | - |
| `SessionHistory` | the history a turn is given: replay, checkpoints, summaries | - |
| `SessionPartsProofs` | theorems about `ProviderRequest`, `Budget` and `Workflow` | |
| `GoroutineProofs` | theorems about `SessionWatcher`, `BackgroundExecution` and `LanguageServer` | |
| `EventSelectionProofs` | induction over sequences, and what a selection of events is, for the proof modules that need it | |
| `SessionServiceProofs` | theorems about `SessionService` and `TuiSession` | |
| `ToolProofs` | theorems about `Authorization` and `FileMutation` | |
| `TurnLifecycleProofs`, `SessionHistoryProofs` | theorems about the module of that name | |
| `SessionProofs` | the parts of a session together, as `MCSessionParts` composes them | |
| `MC*` | constants for TLC | |

**SessionWatcher.**  One action per step between locks and channel operations:
`PushEnqueue` is `push` up to the unlock, `PushNotify` its `select`; `Pop` takes
an event or moves to the wait, `Send`, `Wake`, `Stop` are the arms of the two
`select`s, `CloseOut` the deferred function.  `notify` is a Boolean: a channel
of capacity one.

**SessionService.**  `log` is the session's rows; an event is a kind and a
sequence, a snapshot also carries its `BaseSequence` and a state.  A state is
the set of sequences folded (events are folded in order, so the set is the
history), the sequence of the newest MCP catalog, and `LastSequence`.  Each
operation holds `runtime.mu` to its end, so it is one action, except that an
append or a read which persists a snapshot commits twice: `due[p]` marks the
time between the commits, during which `p` does nothing else but may crash, and
another process may commit.  `Snapshot` on a session with no known snapshot is
`SnapshotOnRead`, then `SaveSnapshot` or `SnapshotAppendFails`, then the read.
`Open` is the load every operation begins with when the process has not loaded
the session.  `Deliver` abstracts the whole of `SessionWatcher`, which is shown
to be a FIFO stream separately.  Failed store calls change nothing and are
stutters, except the snapshot's, which the code ignores.

**TuiSession.**  `fetched` is `openSessionCmd` between its `Snapshot` and its
`Watch`; `refresh` is a `sessionSnapshotRefreshedMsg` between the goroutine that
read the snapshot and the handler that applies it.  When a refresh is requested
(a tool call that looks stale, a cancel that finds no turn) is left open.

**TurnLifecycle.**  `status`, `ended`, `tools`, `request` and `granted` are what
the log says of the session's turns: the projected status, whether a terminal
event is there, the declared tool calls (approvals needed, ended, times run), the
last word on each approval request or loop question, and what was ever approved.
`handles` is `activeTurns`; `call` holds a program counter for each
`StartSessionTurn`, `ResolveSessionTurn` or `AnswerSessionQuestion` in flight;
`cancel` one for each `CancelSessionTurn`.

| Code | Actions |
|---|---|
| `runExistingSessionTurn` to `appendTurnConfigured` | `StartTurn`, `StartTurnFails` |
| `ResolveSessionTurn`, `AnswerSessionQuestion` to the append | `Resolve`, `SetupFails`, `CheckPending`, `AppendDecision`, `StopTurn` |
| `beginCancelableTurnContext`, `finishTurn` | `Begin`, `Finish` |
| `TurnRunner.Resume`, `buildTurnReplay` | `Replay`, `DenyTool` |
| `executeTurnLoop`, `ToolExecutor.Execute` | `DeclareTool`, `AskApproval`, `RunTool`, `EndTool`, `AskQuestion`, `Retry`, `TurnDone`, `TurnFail`, `TurnRoll`, `CtxCanceled` |
| after the runner returned | `ReturnResult`, `CanceledResult`, `ContinueRolled`, `ContinueFails` |
| `CancelSessionTurn` | `CancelLookup`, `CancelSignal`; `CancelSnapshot`, `CancelAppend` |

Each Snapshot and each append is one step, as `SessionService` makes them; nothing
is held between two of them.  A tool call needs up to `MaxStages` approvals (path,
network, execution), asked one at a time each time the tool is tried.  A
stream may break after the call it asked for (`cut`); a call that only reads is then run
all the same, and may ask for its approval, before the turn fails or rolls over
(`StreamBroke`, `TurnFail`, `TurnRoll`).  `Overlap`
says what clients do while a call is in flight: nothing (the command line),
answer and cancel (the terminal UI, which shows a request as soon as its event
arrives), or also give a second answer (two headless clients).  `SetupMayFail`
says whose configuration may have become unreadable.

**ProviderRequest.**  `reqConv` is the conversation in memory: as it is now, as the
attempt committed it, and as it was when the step began, to which a retry goes back.
`reqTry` is what the attempt knows of its stream (the flags that decide whether it may
be retried), `reqRun` the batch being run, `reqLog` the durable events.  Actions:
`OpenStream`, the deltas and `ToolCallDelta`, `ToolCallDone`, `StreamEof` and
`StreamBreaks` for the stream; `RunNextCall`, `RunParallelCall`, `CommitBuffered` (one
execution at a time), `CollectResults`, `ApplyResults` for the batch; `ReturnStep`,
`HandleError` for the decision to return, retry or continue.  A call is a number and a kind; the kinds are the classes the
scheduler tells apart (reads without a path, reads with one, calls that run alone,
mutations, questions).

**Authorization.**  `authRequests` and `authAnswers` are the log, `authState` the
projection (`pending`, session `grants`, `approved` executions); a turn's `seen` is the
Snapshot its check read, and the request it decides to append comes in a later step, so
other turns and users append in between.  `AuthorizePath`, `AuthorizeNetwork` and
`AuthorizeExecution` are the checks in their order, `AppendRequest` the suspension,
`ReadRequest` and `AppendAnswer` the two halves of `ResolvePermission`, `Resume` the
replay that rebuilds what was approved once.  Mode, policies, and whether a provider
repeats a call id in a later turn are chosen at the start.

**BackgroundExecution.**  One process.  `bgRecord` is what the log says of it, `bgLive`
the projected count with ephemeral chunks, `bgLog` the log store with its buffer.
`bgCall` is `executeBackgroundIntent`, `bgMonitor` its monitor goroutine, `bgPump` the
pumps of the two pipes, `bgResume` the `ResumeBackgroundExecutions` calls and the
monitors they start; `bgChannels` holds what waits in `Ready` and `Exited`.  A resumed
monitor has what its candidate's Snapshot said (`ready`, `seed`), the place in the log it
has read to (`offset`) and its observer.  It emits the log chunk by chunk
(`ResumeEmit`), and the append an emission owes is a step of its own (`ResumeObserved`);
once it sees the exit it scans the log again and reads it again from `seed`, into the same
observer (`ResumeScanExited`), as `resumeExitedBackgroundExecution` does.  A crash takes
everything but process, record and stored log; the PID may then be reused.

**Budget.**  `bgtCost` is what the usage events of a session's log add up to,
`bgtRuntime` the projector and summary kept under the session's lock, `bgtTotals` the
total, `bgtTurn` where a turn's `BudgetStatus` is.  A session that nothing has loaded is
replayed without its lock, in two steps (`ReplaySummary`, `StoreReplayed`).

**Workflow.**  A call (a user's message, an answer, `/workflow resume`) is a program
counter with the drafts it has still to append; drafts are applied one by one
(`ApplyDraft`), as the projector applies the events, while other calls go on.  A turn of
a phase, and a check the runtime runs itself, ends completed, failed with a code, canceled
or waiting for an answer; `Finalize` to `ContinueWorkflow` are what the runtime does after
it: transitions, recovery of a missing output, revision after failed evidence, advance, and
the next phase's turn.  A transition the definition declares may lead to any phase
(`validateTransitions`), a later one, too, and asks for no evidence; the history variable
`wfPassed` collects the phases such transitions lead past.

**FileMutation.**  A content is named by who wrote it and by the paths of the patch that
wrote it.  `fmSeen` is the set of lines of the present content that reads have shown,
`fmLock` the lock table, `fmTurn` a turn's call, `fmLog` the write mutations its results
recorded, `fmRestore` the steps of a `/restore` in progress.  `StartWrite` checks and
`PlanPatch` reads before any lock; `Lock` takes the next lock by name; `CaptureBefore`,
`CommitFile`, `EndCall` follow, each of which may fail.  `External` is an editor, which
takes no lock, and neither does `ApplyRestoreStep`.  `EndCall` observes a write's file as
complete, whatever it holds by then (`fmSeen`): the lock is gone, and diagnostics were
waited for.  The history variable `fmShown` has only what the session was shown or wrote
itself, and `fmMistaken` the files whose content was observed for that of another write.

**LanguageServer.**  One server name in one workspace.  `lspManager` is the manager's
maps, `lspOnce` the `sync.Once` of each start, `lspServer` the process, what is in its
pipe, what it published and what is kept.  A call goes through `LspLookup`, the Once
(`LspOnceRuns` to `LspOnceDone`), `LspPick`, then `LspStat`, `LspCheck`, `LspRead`,
`LspSend`, `LspRecord` for the document, and `LspReport`, `LspPull`, `LspStore`,
`LspSettles` for diagnostics; `LspClear`, `LspFind`, `LspClose`, `LspForget` follow a
deletion.  Texts are numbered, and so are stats.

**SessionHistory.**  `histLog` is the session's events, whose numbers stand for what they
say; a history (`LoadHistory`, `BuildHistory`) has the order of its turns, what it knows of
each, the summary (`cont`: the newest turn it stands for, how many, and the events it
`covers`), and the last event it has seen.  `histRun` is the call that runs or compacts:
`LoadTemplate` is the start of `executeTurnLoop`, `CompactForRequest` and
`CompactionFails` are `prepareTurnConversationHistory` when a request is too large,
`SaveCheckpoint` is `appendSessionHistoryCheckpoint`.  A turn that blocks loses its template
and loads another one when it is resumed.  Token counts are left open: any turn may be
found too large at any request, and the plan may leave the recent turns or take them all.
What a summary says is written by a model; `covers` is what the model was given to
summarise, and the limits on what is kept of it are left out.

## 3. What is checked

| Run | Shows |
|---|---|
| `service` | one process: `ReloadIsComplete`, `LiveStateIsFold`, `WatchIsExact`, `LiveEventsInPlace`, refinement of `SessionJournal` (`ImplementsJournal`), and `EventsReachWatchers` under fairness |
| `turn_sequential` | calls that do not overlap: a turn at rest is over or waits for its user (`NoOrphanedTurn`), and a pending request belongs to a live turn, or was asked after a stream broke by a turn that then failed or rolled over (`PendingBelongsToLiveTurn`) |
| `turn_overlap` | answers, second answers, cancellations and a crash in any order: `OneRunnerPerTurn`, `RunnerIsRegistered`, `ToolRunsAtMostOnce`, and `CancelHonoured` under fairness |
| `goroutines` | the watcher: `NoLostWakeup`, refinement of `EventStream` (`ImplementsStream`: nothing is lost, repeated or reordered, and what was pushed is delivered), `CanceledStops`; a background process through a crash and two resumes: `BgOneSupervisor`, `BgExitIsReal`, `BgOutputCountedOnce`, and `BgExitIsRecorded` under fairness; a language server: `LspOneServer`, `LspDocumentIsCurrent`, `LspDiagnosticsAreCurrent` |
| `session_parts` | seven parts of a session, one per behaviour, see the next table |
| `two_processes`, `mcp_catalog`, `tui_refresh_race`, `turn_cancel_race`, `turn_blocked_failure`, `turn_early_answer`, `workflow_revisions` | violations, see section 4 |

`goroutines` and `session_parts` check several components in one run.  They share no
variable, so an interleaving of two of them says nothing a behaviour of each alone does
not; `focus` picks the component a behaviour is about, the others stand still, and the
state spaces add up instead of multiplying.

| Part of `session_parts` | Properties |
|---|---|
| terminal UI | opening a view leaves no gap (`OpeningLeavesNoGap`), and two refreshes in the middle of the stream never make the UI refuse an event (`StreamNeverFails`) |
| provider request | `ReqConversationIsLog`, `ReqBrokenStreamOnlyReads` |
| authorization | `AuthRunIsCovered`, `AuthAskedOnce` |
| budget | `BgtQuietTotalIsExact`, and that a warm summary is the session's cost (in `BgtTypeOK`) |
| workflow | `WfRunsAreEarned` |
| files | `FmNobodyDeadlocks`, `FmPatchesStayWhole`, `FmRestoreIsExact`, `FmWritesAreInformed` |
| history | `HistIsComplete`, `HistNotesReachModel` |

Some properties are conditional, and the condition names what the code does not
promise.  `BgtQuietTotalIsExact`: no spend was appended while the total was computed.
`WfRunsAreEarned`: no call carried a decision into a workflow started later (`wfClean`),
and a phase that a transition of the definition led past (`wfPassed`) owes no evidence.
`FmWritesAreInformed`: nobody changed the file between a write's check and its change, nor
between the change of the write before it and its observation (`fmMistaken`);
`FmRestoreIsExact`: nobody changed it without the lock while the call was at it.
`LspDocumentIsCurrent`, `LspDiagnosticsAreCurrent`: no two calls were at one document
together, and it was opened once (`lspAlone`).  `HistIsComplete`, `HistNotesReachModel`: no
derived review was rolled over since the turn began (`ForgottenByReview`), and the handoff
a turn began with is not counted; section 4 has both.  Section 6 says what happens otherwise.

**Bounds.**  In `service` the snapshot interval is 2 instead of 64, so that `MaxEvents = 6`
gives two snapshots, events between and after them, and a reload from each
situation.  `MaxEvents` guards appended events only; a snapshot may make the log
one longer.  One client is enough for the stream properties, because watches do
not affect each other except through `lastDurable`, which one client moves as
well as two.  One ephemeral event and two crashes (one for the UI) meet every state of
the other variables.  The journal's entries are the events themselves, with their
sequences, so one kind of event is enough to see a lost or reordered one.  The proofs remove these
bounds for the properties they cover.

`turn_sequential` has two turns, so that a turn rolls over or follows another,
two tool calls and two approvals per call, so that a tool asks again after its
first grant, and a loop question.  `turn_overlap` has two calls, one canceller and
one crash over a turn with one tool call, one approval and one question: two calls
are what it takes to race for a handle, and a third behaves like the second.

`goroutines`: four pushes and three initial replays for the watcher; two pumps, two
resumes, one crash and one chunk of output, which is enough for a chunk to be counted by
a pump, a resumed monitor and the log at once, and twice by a monitor that sees the exit; two callers, two calls, three texts and
two starts of a language server (a text sent, a change, a death, a restart).
`session_parts`: three calls of four kinds, one retry and one continuation (a batch that runs in parallel, breaks, and is
retried); two turns with one call each, two users, two answers and two policies (every
pair of a check and an append, in both orders); three sessions and two turns with
costs up to three (a total computed while another session spends); five phases, two
calls, four turns, two failed results, one question and one crash (a revision, a
retried phase and a skipped approval, with a second call in between); three turns, eight
events, one note and one fault of the history, where a turn is compacted, saved, and
noted again; two files, two turns, three changes (a write, a patch that moves a file and
one that edits two), one edit from outside and one restore.  Random behaviours of six
turns, 32 events, three notes and four faults (a million states) gave no violation of the history either.
Deadlock is not checked: a session whose clients do nothing is at rest.

**Fairness.**  Every assumption is weak fairness of a goroutine's own next step, which
is what the Go scheduler gives.  The watcher: its goroutine and the second half of a
`push` that has started; nothing obliges a publisher to publish or a reader to cancel.
A background process: the call, the monitor, the pumps, the resumed monitors and the
goroutine that waits for the process; nothing obliges a process to write or to end.
`SessionService`: `Deliver`, justified by `SessionWatcher`; no operation and no crash is
assumed.  `TurnLifecycle`: `CtxCanceled`, `ReturnResult`, `CanceledResult` and `Finish`,
because a canceled context makes the provider stream, the tool and every append
return; nothing obliges a model to stop, a tool to end or a user to answer.

## 4. Disagreements found

1. **Two processes on one session** (`two_processes`).  A process appends event 0,
   another appends event 1, and the first then writes the snapshot due after its
   own event: base 0, sequence 2.  A load restores the cursor to 2, replays after
   0 and meets event 1, which `Projector.Apply` refuses.  The session cannot be
   loaded again, while `features/sessions.mdx` promises it can be resumed later.
2. **The MCP catalog is lost by a snapshot** (`mcp_catalog`).  `cloneSessionState`
   does not copy `MCP`.  A process that reloads from a snapshot has no catalog
   where the process that wrote it had one, although live state and replay are
   said to come from the same events.
3. **A late refresh rolls the UI back** (`tui_refresh_race`).  The handler of
   `sessionSnapshotRefreshedMsg` replaces the projector whatever it holds.  Events
   delivered after the snapshot was read and before the message was handled
   vanish from the view, and the next event moves the cursor past them.
4. **A canceled turn goes on** (`turn_cancel_race`).  `CancelSessionTurn` finds no
   handle, sees the pending request in a Snapshot and appends `TurnCanceled`; in
   between, the request was answered and a runner started.  Nobody signals it: its
   `TurnRetryScheduled`, `TurnDone` or `TurnError` overwrites the canceled status.
5. **A failed resume strands its request** (`turn_blocked_failure`).  When the
   configuration of a blocked turn cannot be rebuilt, `recordTurnFailure` appends
   `TurnError`, which, unlike `TurnCanceled`, leaves pending requests alone.  The
   request stays on display; the next answer is refused, and so is a cancellation.
   The same is left behind, without any failing setup, by a turn whose stream broke after
   a read that needs an approval: the read asks, and `failTurn` follows.
6. **An answer may be too early** (`turn_early_answer`).  A client sees a request
   before the call that asked has left the registry.  An answer given then is
   recorded and refused with `ErrTurnAlreadyRunning`; the turn is left running with
   nothing to answer and nothing to cancel.

7. **A cap that does not cap** (`workflow_revisions`).  After a review turn the number
   of failed results ever recorded for the phase is compared with
   `max_revision_loops`, and a later review that passes adds nothing to it.  After one
   failed review every completed review turn sends the work back again, past the cap
   that `getting-started/workflows.mdx` promises.

Seen while modelling and not made into runs:

* When a resumed monitor sees the process end, `resumeExitedBackgroundExecution` reads the
  log again from `candidate.OutputBytes`, not from where the monitor has read to
  (`execution_service_background_resume.go:225`), into the observer that has counted it:
  the output since the resume is published and counted a second time.  The last count may
  be up to twice what was written, which is what `BgOutputCountedOnce` says; no document
  says what it should be.
* `continueAfterWorkflowApproval` calls `maybeAdvance` a second time, so a phase marked
  `auto_continue: false` can be advanced past without its turn having run.
* A canceled turn returns past `finalizeTurnRunResult`, so a transition on `canceled` is
  applied only when the turn ran in the continuation of an answered approval, whose caller
  calls `maybeAdvance` again.  An answer to an approval is applied to the phase that is
  current when it comes.
* A check records each command's result before it runs the next.  The evidence of the
  first command that passed makes the phase complete, though a later one failed or was
  never run: after a resume, or when the check waits, the phase may be left.
* A spend appended while the total over sessions is computed stays uncounted until
  the next start (`Budget` has it as the condition of its property), while a comment in
  `runtime_budget_prompt.go` takes the total for current.
* After a write its lock is released and up to three seconds pass waiting for diagnostics
  (`tool_executor_execute.go:156`); then `augmentTextMutationObservedResources` records the
  version the file has by then as completely observed.  An edit in between is taken for
  seen, and the session's next write replaces it without a word.  `FileMutation` takes the
  step as it is (`EndCall`), and `FmWritesAreInformed` leaves it out by `fmMistaken`.
* `features/lsp.mdx` says fresh diagnostics follow a write and a patch;
  `tool_executor_codeintel.go` appends them to writes only.
* A derived review has no history template.  When it reaches the input limit it is rolled
  over all the same, and `rollOverTurnForInputLimit` saves a checkpoint built on the empty
  template: later turns are given the review and nothing from before it, whereas
  `features/context.mdx` says that long-lived sessions carry the saved summary forward.
  In `SessionHistory` this is `RollOverReview`, and `ForgottenByReview` its effect.
* A turn that continues another reads the place it begins at after it has appended
  `TurnContinuationStarted` (`runtime_session.go:277` and `284`), and its checkpoint is
  replayed from there: the handoff is not in the histories of later turns, unless the turn
  was blocked and resumed, when the place is that of its first event.
* A background note that arrives between a turn's first event and the template it loads
  when it is resumed is in the template and is replayed once more: it stands twice.
* `ErrAnthropicMaxTokensExceeded` and `ToolExecutionStatusReused` are handled and
  produced by nothing outside tests; `codeintel`'s `Close` is never called.

## 5. What is proved

`GoroutineProofs`, the watcher: type correctness and `NoLostWakeup`, for every set of
events, every initial queue and any number of pushes, and `WatcherIsAStream`, the safety
part of `ImplementsStream`.  The mapping shows the stream what is in the goroutine's hand
followed by the queue; that something is in hand only while the goroutine sends
(`HandIsSending`) makes `Pop` a stutter and `Send` a delivery.

`SessionServiceProofs`: under `SingleProcess` (with two processes the properties
fail, see above), for every interval, any number of events, clients and crashes:
`ServiceInductive`, and from it `ServiceReloadIsComplete`,
`ServiceLiveStateIsFold`, `ServiceSnapshotsAreSparse` and `ServiceLogGrows`.

The argument.  None of the properties is inductive: that a reload is complete
depends on what the newest snapshot holds and on where it stands.  `IndInv` adds
that a snapshot directly follows its base and holds every event before it
(`SnapshotsAreWhole`), that the caches of a loaded process agree with the log
(`CachesAgree`: this is what makes the state worth snapshotting), and that a
snapshot about to be written covers the whole log and is due (`DueIsCurrent`).
`AppendToLog` says what an append does to the sets of sequences, `CommitEvent` and
`CommitSnapshot` that both commits keep the log's part of the invariant,
`LoadIsComplete` that the invariant implies a complete reload; then there is one
lemma per action.  `HasLatest` appears because a largest element of an arbitrary
set need not exist; the log's sets have one.

The same module proves, under the same assumption, `ServiceTypeCorrect`,
`ServiceWatchIsExact`, `ServiceLiveEventsInPlace` and `ServiceImplementsJournal`.  These
compare sequences of events: the durable part of what a watcher got and still has queued,
and the replay of the log.  `StreamInv` says of every stream, open or closed, that it is no
newer than the log, that its live events stand before later durable ones and, while it is
open, that its durable part is the replay after its start (`StreamFollows`).  Each kind of
step has a lemma on constant sequences first (`FollowsEvent`, `FollowsQuietly`,
`FollowsLive`, `FollowsPrefix`, `FollowsReplay`) and a lemma on the variables that cites
it.  For the refinement, a watch that starts at a sequence is mapped to a subscriber that
starts at the number of entries skipped; `ReplaySuffix` (a replay from a later start is the
end of one from an earlier start) makes that number right and keeps it constant while the
log grows, and `FoldIsReplay` makes the projected state a fold of the whole journal.  A
snapshot, an ephemeral event and a failed snapshot are stutters of the journal; every other
action is the journal's action of the corresponding name.  `Nobody` stands for "no process"
and, in the mapping, for "no list of events", so `ServiceAssumption` says it is neither; TLC
gives it a model value.

`EventSelectionProofs` is what that rests on.  A replay is `Select`, the events of a list
that are in a set, a recursive function.  The library's induction theorems cannot be used
here (see below), but well-founded induction in the form "every nonempty set has a minimal
element" can be, because its parameter is a set.  From it come induction for the naturals
(`ClosedIsNat`: a set with 0 that is closed under successor holds every natural), for
sequences (`ClosedIsSeq`: a set with the empty sequence that is closed under appending
holds every sequence), and `Recursion`, that a function with given recursive equations
exists, which `Select` needs before its definition can be unfolded (`SelectUnfolds`).  An
inductive claim is then stated as a set, as in `ReplaySuffix` and `DurableConcat`.

`SessionServiceProofs`, the terminal UI: under `SingleProcess`, for any number of UIs, events, refreshes and
crashes, type correctness, `OpeningLeavesNoGap` and `StreamNeverFails`.  A UI is a reader of
the services (`TuiStepsAreSteps`), so the services' invariants hold under it.  A snapshot
that was fetched is the fold of the log up to its cursor (`FetchedIsFold`), and stays so
while events are appended; opening the watch at that cursor queues exactly what is missing
(`ReplayInOrder`, by induction over the log).  From then on what the view lacks is newer than
its cursor and queued (`LacksOnlyQueued`).  Folding one event keeps that only because the
durable events of a queue are in increasing order (`QueueInOrder`): the cursor moves to the
event received, and what is still missing comes later in the queue, so it is newer.  A
refresh breaks `LacksOnlyQueued` (run `tui_refresh_race`), which is why it is stated up to
the first one; that the projector refuses nothing does not depend on it.

`TurnLifecycleProofs`: for any number of calls, cancellers, turns, tool calls,
requests and crashes, and every `Overlap`: type correctness, `RunnerIsRegistered`,
and `OneRunnerPerTurn`.  The last follows from the second, since a registry has
one handle per turn.  The second is not inductive alone: that `Finish` releases
the caller's own handle, and that `Begin` registers it for the right turn, depends
on what a call knows at that point.  `CallShape` says so (a call in flight has a
turn, one that answers has its request), and `IndInv` is the conjunction of
`TypeOK`, `CallShape` and `RunnerIsRegistered`; there is one lemma per action or
group of actions with the same effect.

The same module proves `ToolRunsAtMostOnce`, from the same assumptions.  A count of at
most one says nothing about who may run the tool next, so `RunInv` says why nobody
may.  A call about to run a tool is the first to do so (`ToolIsFresh`).  A call
gets there by declaring the tool, or by answering a request about it; an open
request is about an approval the tool still lacks (`PendingIsMissing`), a tool that
ran lacks none (`RanIsGranted`), and approvals are never taken back, so no new
answer can start.  What is left is an answer that was accepted before the tool ran
and replays after: `EffectIsOwned` says that the tool's end or the turn's is then
in the log, where `NotResumable` sees it, or the runner that ran the tool is still
at work, and a second runner is excluded by `IndInv`.  Most steps touch no tool;
`QuietCall` says what such a step owes the invariant, and `Quiet` and `OneCall`
reduce them to it.  `ToolsChange` does the same for the four that do.  `RunInv` was
checked by TLC on the `turn_overlap` instance with two tools before it was proved.

For clients that wait for their calls, the same module proves `PendingBelongsToLiveTurn`
and `NoOrphanedTurn`.  `OneAtATime` names the assumption: no client acts while a call is in
flight, and the setup of a turn that is resumed does not fail.  The runs `turn_early_answer`
and `turn_blocked_failure` show that neither property holds without it.  `NoOrphanedTurn`
also assumes that nothing crashes, since a crash leaves a running turn with nobody at work;
`PendingBelongsToLiveTurn` holds through crashes.  The invariant `SeqInv` says what is in
flight (`OneInFlight`); that what a turn that is not over waits for is one request, about a
tool that has not ended, and the turn runs, while what a turn that is over left pending was
asked after its stream broke (`PendingIsOpen`); what the state is at each point of the call
in flight (`CallsAreAlone`: before its append the request is still pending, while it works
nothing waits but what it asked after its stream broke, when it returns something waits or
the turn is over, and an answer to a turn that is over gets as far as its replay); and that a
running turn waits or has a call (`RunningIsKept`).

`GoroutineProofs`, a background execution: for any number of pumps, resumes, crashes and chunks, type
correctness, `BgOutputCountedOnce`, `BgOneSupervisor` and `BgExitIsReal`.  Three
invariants stand on one another.  `BgCounts` orders the counts: an observer of the pumps
never counts past the process, and what a pump has in hand is part of what was written.
A resumed monitor (`BgFits`) starts from whatever its candidate counted, which may be more
than was written when pumps and an earlier monitor both published, and then has nothing to
record; once it has emitted, its count is the part of the log it has read, and when it
reads the log again its count and `seed` together stay within the log and what it has read.
So the record is at most what was written while the process runs or nobody resumed it,
and at most twice that afterwards.
`BgSupervision` says when a supervisor was let in (`BgLetIn`): the call before it is
tracked, the monitor only after the call, a resumed monitor only through
`startBackgroundRun`.  `BgExitKnown` says how somebody came to know of an exit: from a
channel that only a dead process fills, or from an inspection that saw its own process
and not one that reuses its PID.

`ToolProofs`, files: for any number of turns and any finite set of files, type
correctness, `FmNobodyDeadlocks`, `FmWritesAreInformed`, `FmRestoreIsExact` and
`FmPatchesStayWhole`.  The invariant `FmLocking` says that a call
that is taking locks holds exactly the first of its paths in the order of their names,
and that an idle or ending call holds none.  In a circle of waiting calls, take the
largest file anyone waits for: its holder is in the circle, so it waits for a file
after all those it holds, a larger one.  `FmCallHas` adds that a call holds the locks
of all its files from its first commit on; the other arguments rest on it.

* Informed writes: `FmHonest` says that of a file not mistaken for another write's every
  line taken as observed was shown; `FmInformed` says that a write that was let in and that
  nobody overtook has every line of such a file in front of it, up to the commit.
* Exact restores: `FmOriginalOf` ties what a turn's first write replaced to the turn's
  log and to the file while that write is in progress; `FmRestoring` says that a restore
  at step k has the first k recorded writes still to take back, and has put back what
  the later ones replaced.  Turns whose files somebody changed without the lock are
  excluded by `fmTouched`, as in the property.
* Whole patches: `FmContentsAreOld` makes the content of a call new, so that only the
  call's own commits can put it anywhere; `FmDoneFiles` and `FmOwnContent` say which of
  its files have it; `FmPairs` is the property for contents whose call is not in
  progress.  When a call ends, its files are those it is done with, and any other
  patch of two of them had lost both of them.

The assumption that a patch lists at least one file is the code's
(`ErrApplyPatchNoOperations`, and `Execute` returns early on an empty plan).

`ToolProofs`, authorization: for any number of turns, users, jobs, policies, calls and
answers, `AuthRunIsCovered` and `AuthAskedOnce`.  They go in opposite directions and
have an invariant each, on top of `AuthTypeOK`, whose part that is not in the shape of the steps is
`AuthBounded`: a turn waits for, and a user answers, a request that is in the log.

* `AuthCovered` is soundness: whatever the projected state grants, whatever a turn has
  seen, checked, may use once or was allowed, and whatever an `ask` is about, goes back
  to an answer in the log or to a policy.  The log only grows, so what it allows stays
  allowed (`LogGrows`), and each way to run a call ends at such an answer.
* `AuthKnown` is completeness: the grants hold all that the first answers gave
  (`KnowsSession`), approvals of calls stay where call ids are not repeated
  (`KnowsApprovals`), a turn waits for its own unanswered request, and what it asks next
  is new with respect to the answers it knows (`AskIsNew`).  A request that is appended
  is therefore about something no answer known to its turn had approved.

`GoroutineProofs`, a language server: `LspOneServer`, for any number of callers, calls, texts and
starts.  `LspOnceInv` says that a `sync.Once` that is not used up is the manager's, that
the manager has neither server nor failure then, that one call at most is inside it, and
that a server that is up is registered or being started.  `LspMaxTexts` is assumed to be
positive, since the file starts with a text.

On top of it, `LspDocumentIsCurrent` and `LspDiagnosticsAreCurrent`.  The invariant
`LspDocInv` is about a text under a version.  A text is held (`LspHeld`) when it is no older
than the stat on record for that version and than any waiting call of that version began
with; what is in the pipe, in the report and in the hands of a call is held (`LspKept`), and
the last text in the pipe reaches the document's stat and what each waiting call began with
(`LspLatest`).  While no two calls worked on one document, the call at work knows what is on
record (`LspStepFits`, `LspPairFits`).  Nothing is newer than the file (`LspNoneNewer`), and
a server that was not started has no document and no calls (`LspUnstarted`).  A report that
has no version is taken as fresh because some report arrived since, whatever text it is
about; the theorem about diagnostics therefore has the hypothesis `LspVersioned \subseteq
{TRUE}`, which is the instance of the run, and `LspFreshInv` says that a call then takes
reports by their version only.  `LspTypeOK` needs that a server reports on no notification
it was not sent (`LspSpoken`).

`SessionPartsProofs`:

* `ReqBrokenStreamOnlyReads` and `ReqTypeOK`, for any number of calls, stream events,
  retries and continuations.  That only reads are scheduled once a stream broke is not
  enough: a call of another kind must not have run before under the same id, nor run
  now under the id of another.  `ReqNumbered` says that the ids of a batch differ and
  that no id in the log is larger than the last one given; `ReqFresh` that nothing of a
  batch has run while the stream is open; `ReqRunIsBatch` that what runs is a prefix of
  the batch, and of reads once the stream broke (`ReqScheduled`, `ReqInterrupted`).
  `ReqFewAttempts` bounds the attempts by retries and continuations used.
* `ReqConversationIsLog`, with the same generality.  The facts of a log are a fold, so the
  lemmas come first: one event more adds one fact or none (`FactsAppend`), what no request
  needs to know adds none (`FactsSilent`), the results of a batch add themselves in order
  (`FactsResults`), and putting the calls of a batch before their results
  (`NormalizeToolCallBatch`) changes no fact (`ReqNormalized`).  `ReqLogInv` is the
  invariant, one part for each place of the step.  While the stream is open the
  conversation holds the facts of the log (`ReqStreamLog`); while a batch runs the log is
  ahead by the results so far, in the order of the calls even when they ran in parallel
  (`ReqRunLog`, `ReqCommitLog`, `ReqApplyLog`); and an attempt whose flags still permit a
  retry left no fact in the log, so the conversation it began with is what the log says
  (`ReqMightRetry` in `ReqDecideLog`).
* `WfRunsAreEarned`, for any workflow the loader accepts (any phases, kinds, revisions,
  skips, and transitions to any phase) and any number of calls that overlap.  What a call
  decided may be written later, when another call has moved the workflow.  `WfCallEarned`
  says of every draft a call holds that each phase before its target is complete, was led
  past, or is led past by the draft itself (`EarnedBy`), and of the phase its turn is in
  that the phases before it are complete or were led past; evidence is
  only added while the workflow lasts (`WfEarnedStays`), so a draft stays earned however
  late it is appended.  A start is what takes evidence away: `WfStartsWell` says that its
  two drafts are all its call has, and `wfClean` is lost when another call carries what it
  decided across the start.
* `BgtTypeOK`, for any number of sessions and turns, which says that a
  warm summary is the session's cost.  The step that is not evident is the replay without
  the lock: `BgtReplayIsKnown` says that what it read is still the cost, or that the
  session was loaded meanwhile, and then the code prefers what was loaded.
* `BgtQuietTotalIsExact`, for any finite set of sessions.  A computation of the total adds
  one session after the other: `BgtSumsRight` says that the sum so far is what the sessions
  counted cost, as long as no usage was appended since it began, and `BgtTotalRight` that
  the total that is kept is the sum of all costs.  An append moves the total and one cost by the same
  amount; the lemmas about sums over a finite set say what one changed cost does to it.

`SessionHistoryProofs`: for any bounds on turns, entries, events, notes and faults, and any
frontier of a semantic compaction, `HistTypeOK`, `HistIsComplete` and `HistNotesReachModel`.

The invariant.  `HistInv` says that a log is well formed: turns are numbered as they began,
each ends once, and after its end there are only notes on it (`HistWell`); and that the call
in progress is at a place its turn can be at.  `HistKept` says what everything made from the
log, and used later in its place, knows of it.

* `HistKnows`: a history of the first k turns has each of them that ended and said something
  once, in order; the turns its summary does not reach are as the log has them, with the
  notes up to a place a (`HistRawTurn`), and the summary covers what the others said and the
  notes up to a, and nothing of a turn that stands beside it (`HistSumsUp`).
* `HistCanReplay`: it can be brought up to date from place a.  Turns after the k-th did what
  they did after a (`HistParts`), and a summary recorded after a sums up what came before the
  turn that recorded it (`HistSummaries`) and reaches no less far than the one it replaces
  (`HistGrows`).
* The newest checkpoint is such a history (`HistBased`), and so is the template of the turn
  that runs (`HistReady`), with the summary it recorded last (`HistRecorded`).  A derived
  review runs without one; the turns before a review that was rolled over are forgotten
  (`HistForgot`), which is `ForgottenByReview` in the properties.

Neither property is inductive without it: that a load is complete depends on the checkpoint it
begins with, that a checkpoint is complete depends on the template of the turn that saves it,
and that a template is complete depends on the load before it and on the notes that came since.

The argument.  `BuildHistory` replays the log over a base, and `HistFolded` is its loop
invariant: after n events, what the history knows of the turns of the base, of new turns and
of the summary, with the summary of an event that replaces it.  From it comes one lemma about
a whole build (`HistBuilt`), after the completed turns are selected and the summary is given
the late notes of its turns; the lemma is used for the load of a turn (`HistLoads`), the load
on top of what a turn began with, and the history that is saved (`HistSavedSays`).
Summarising is `HistSummarised`.  That an event more changes nothing of what was known is
`HistExtends` and the lemmas on it.  Then there is one lemma per action, and
`HistToldIsTold` says that a history that knows the log tells it as the properties ask.
`BuildHistory` is written as a recursive function, since a fold of the community modules
takes an operator.

The compositions.  `SessionProofs` and the end of `GoroutineProofs` are about what the runs
`session_parts` and `goroutines` check: a behaviour of the composition is one of each
component (`PartsAreTheComponents`, `GoroutinesAreTheComponents`), so what is proved of a
component holds there too, and the type invariants of the compositions (`PartsTypeOK`,
`GoTypeOK`) follow from those of the components.

Every inductive invariant was checked by TLC on the instance of its run before it was proved,
`HistKept` with its quantifiers over numbers bounded by the constants of the instance.

Only model-checked: everything under fairness (`CanceledStops`, `EventsReachWatchers`,
`CancelHonoured`, `BgExitIsRecorded`, the fairness part of `ImplementsStream`), which is out
of the provers' reach.
The library's induction theorems take an operator as a parameter, which none of the provers
can instantiate; `EventSelectionProofs` does its inductions with sets instead (`ClosedIsNat`,
`ClosedIsSeq`).

## 6. Limits

* One session.  Sessions share nothing in these modules but the database lock.
* Payloads other than the MCP catalog are not told apart, so the other
  omissions of a persisted snapshot (streamed text, output of unfinished tools,
  reasoning being accumulated) are not visible.
* A client has one watch; a UI that reopens its session cancels the old watch
  first, while the code holds both for a moment and drops messages of the old.
* A watcher that is canceled leaves the service's table at once; in the code it
  stays until its goroutine ends, and takes pushes nobody reads.
* `TurnLifecycle` has one tool call per provider step, and a question a tool asks
  is one of its approvals.  A request of a turn that is over can still be answered; the answer
  is recorded and the resume refused.  Local shell turns, plan and workflow approvals, the
  workflow advance and the automatic review after a turn are left out, and so are
  a client that disconnects, an append that fails without its context being
  canceled, and failures between `appendTurnConfigured` and the registry.
* `ProviderRequest` is one step of one turn.  What a retry shows on the screen again,
  the inactivity timer and rollover are left out.  Calls after a boundary are dropped, as in the code; what becomes
  of a turn whose reads wait for a permission after its stream broke is in `TurnLifecycle`.
* `Authorization`: a call that finds another turn's pending request waits for it and is
  not resumed by its answer; requests of overlapping turns may be duplicates; a second
  answer to an execution may add session grants.
  Changes of mode and policy at run time, and networks enabled by configuration, are
  left out.
* `BackgroundExecution`: appends and the creation of a log do not fail.  A crash between
  the start of a process and `Started` leaves a process the log does not know.  A stale
  resume may record `Exited` twice, a resumed monitor may record `Ready` twice, and two
  pumps may append counts out of order.  Reading the log may fail at any step of a resumed
  monitor.  Its flush when the runtime shuts down is left out; the flush and the terminal
  event that follows it are one step.
* `Budget`: the budget of a workflow and the usage of child sessions are left out.
* `Workflow`: entry evidence, task requirements, automatic review, route
  recommendations and failed appends are left out.  The commands of a check are taken for
  those of the phase its turn is in, and the runs give turns two of the four codes
  a failure may have.  Two starts or advances that overlap
  may reset or move the workflow twice; `wfClean` excludes what follows.
* `FileMutation`: a patch is planned from files read without locks, so a change made in
  between is overwritten; so is one made between a write and its observation, by the
  write after it (section 4); a patch that fails halfway is not rolled back; a restore
  that fails halfway cannot be repeated.  A patch's hunks are not matched, and a commit
  of one file is atomic (`WriteAtomically` renames).
* `LanguageServer`: two calls that sync one document together may send a version twice
  or leave the server with the older text; a document opened again counts from version 1,
  so a late report of its first opening matches; servers that do not put versions on
  reports may have an old one taken as fresh.  The end of a server's process and
  the end of the loop that reads from it are one step (`LspServerDies`).  Request correlation, shutdown and the
  answers of navigation queries are left out.
* `SessionHistory`: one turn at a time, which the terminal UI sees to.  Of turns that
  overlap, one that is open while another saves loses what it said before, and so does one
  that never ended when its call did.  Reasoning, batches of calls, the pruning and paging
  of large tool results, the reuse of a summary for the same turns, and plan and approval
  turns that only record a decision are left out.
* A cancellation that arrives after the runner's result was examined is lost; no
  property says what it should do.
* SQLite is serializable and durable: a commit is one step and survives a crash.

## 7. Plan

1. `RpcClient`: request correlation and shutdown of the MCP and LSP clients.
2. Tasks, plans and reviews: their transitions and what completes a turn.
3. The search index: observation, refresh and status.

Every safety property a passing run checks is a theorem.  Worth proving next: by how much a
total can be off when appends overlap its computation (`Budget`; a report below its estimate
may leave it above the costs, too), and what is promised to a second process that only reads.
