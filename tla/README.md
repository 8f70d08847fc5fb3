# VoiceOps AI On-Call Engineer: TLA+ models and proofs

VoiceOps is a meeting room with an on-call engineering agent in it.  Teammates
talk or type in a room, agents answer from memory and from the workspace, and
propose patches which a teammate approves, commits and publishes as a pull
request.  The backend is one FastAPI process (`backend/app`), nearly every route
an `async def` on one event loop, every service a singleton of that process, all
state in JSON files or SQLite and in a git working tree.  Code between two
`await`s is therefore atomic with respect to other requests; what interleaves is
what happens *across* awaits, in the processes the server starts, in its browsers,
and what is left behind when a process dies, or an exception escapes, between two
persisted steps.

## Inventory

| Component | State | Operations | Talks to | What is hard | What makes it correct |
|---|---|---|---|---|---|
| Approval lifecycle (`collab/service.py`, `workspace/git.py`, `github.py`, `tools.py`) | action records, approval payloads (stored and cached), memory items, working tree, branches, pull requests | `add_action`, `approve_action`, `reject_action`, `commit_action`, `create_pull_request_plan` | git, gh, the test command, the room timeline | five persisted steps per decision, escaping exceptions, repeated requests, one working tree shared by all actions | decided once, completed only when tested, nothing written before approval, nothing left behind |
| Agent runs and assignments (`agents/service.py`, `agents/store.py`) | run records, assignments, live tasks, cancel flags | start, cancel, dispatch, retry, clear, update status, recover | LLM, orchestrator, approval lifecycle, external agents | cancel racing a run, timeouts and budgets, crash and recovery, stale copies written back | a run ends once and keeps its ending, a cancelled run proposes nothing, every run ends |
| Live speakers (`speakers/live.py`, `speakers/router.py`) | chunk buffer, one pending chunk, a task per chunk | add chunk, process, stop, resume | websocket, live provider worker, timeline | results after stop, pending chunk behind a failed one, two sockets of one session | a chunk is ingested once, a running task is known, a chunk in hand ends |
| Live provider worker (`speakers/provider.py`) | one process, its lock, two pipes | transcribe, warm up, time out, close | the WhisperX process | answers that name no request, late answers, dead processes, cancelled callers | each request gets its own answer, no process is left behind |
| Room events (`collab/events.py`, `collab/router.py`, `App.jsx`) | subscriber queues, the page's timer and view | subscribe, publish, unsubscribe, refresh | every route, the browser | bounded queues that drop the oldest, two racing tasks, fetches under way | a page that says it is live shows what happened, or soon will |
| Rooms and their memory, speaker profiles, long memory and retrieval (`collab/service.py`, `speakers/service.py`, `long_memory/`, `rag/`) | participants, timeline, memory, label mapping, archive, index | join, leave, speak, ingest, map, decide, archive, index, ask | one another | one correction rewrites four stores, copies go stale, handlers cut short | one story about who said what; answers as current as the stores |
| Collaboration stores (`collab/store.py`, `sqlite_store.py`, `migration.py`) | the same records in two backends, an event log | CRUD, migration, initialization | every service | whole-file rewrites, failing writes, a migration beside a running server | what was answered is there; the log tells the tables; a validated migration is complete |
| External agents (`external_agents/`) | credentials, OAuth states | connect, OAuth start and callback, run, recommend, guide | provider HTTP APIs, CLIs, approval lifecycle | single-use states, one rule enforced in five places | a state is used once, what is ready is not refused, a patch is only proposed |
| System jobs (`system/router.py`, `evidence.py`) | a job record per kind, report files, uploads | gates, warm-ups, verifications | subprocesses, rooms | kills and time limits, what a killed process left running, uploads between check and start | failures stand, rooms are told, jobs end |
| Production trial and readiness (`system/security.py`, `cutover.py`, `deployment.py`, `scripts/`) | bundle files, user file, evidence | prepare, edit, start, check, accept | the operator | files written one by one, accounts read late, reports over reports | what is accepted was written to its end and proven, and starts |
| LLM connections, voice agent, planning, authentication, caches, MCP server, the rest of the frontend | connections, users, none durable | connect, plan, log in, render | providers | little beyond expiry | see "Not modelled" |

## Modules

| Module | What it states |
|---|---|
| `ApprovalContract` | What the approval flow promises, as five phases and a set of touched actions; no store, no git, no faults |
| `PatchApproval` | The approval lifecycle as the code runs it, one action per persisted step; implements `ApprovalContract` |
| `AgentRuns` | Runs as coroutines: start, cancel, time out, run out of budget, propose, fail, recover |
| `AgentAssignments` | Extends `AgentRuns` with assignments; composes both by interleaving |
| `LiveSession` | One session of live audio: chunks, the pending chunk, provider tasks, slow finishers, stop, disconnect, resume |
| `PersistentWorker` | The process behind live chunks: lock, pipes, timeouts, deaths, restarts |
| `RoomSync` | Event hub, event socket and page, composed: from a change in a room to its being shown |
| `RoomHistory` | What a room remembers and of whom: timeline, memory, mapping, decisions, archive, index; every handler may be cut short after any of its steps |
| `RoomReads` | The read-only questions over `RoomHistory`: audit trail, trace, memory, health |
| `CollabStores` | The JSON and the SQLite store, crashes and failing writes, the migration and the switch |
| `ExternalAgents` | Credentials and OAuth exchanges; readiness, run, recommendation and guide as operators over them |
| `SystemJobs` | Demo gates, warm-ups, verifications: registry, processes, time limits, reports |
| `TrialAudits` | The readiness reports as operators over the settings and files they read |
| `ProductionTrial` | Bundle, operator, server and reports, over `TrialAudits` |
| `MC...` | Instances for TLC, each with its `.cfg` files |
| `..._proofs` | Theorems and their proofs, checked by TLAPS |

Each module defines, just before a definition, mutated forms of it (marked as
mutants).  They are plausible bugs of the code behind the definition, are used by no
specification, and show that every property of a run can be violated.

### PatchApproval and ApprovalContract

`status`, `commit`, `pr`, `payloads`, `memory` and `announced` are what the JSON
collaboration store holds (`collab/store.py`); `cached` is
`CollaborationService._approval_payloads`, lost with the process.  `gitRepo`,
`branches`, `tip`, `head` and `tree` are the git workspace, a file's content being
the action whose version it is.  `pulls` is GitHub.  `pc`, `subject`, `todo` and
`verdict` are the one operation in progress: the methods are synchronous, so two of
them never interleave, but every store call persists on its own, and `Crash` or
`Escape` (an exception the method does not catch, such as
`subprocess.TimeoutExpired` at `workspace/tools.py:144`) may come between any two.

| Code | Actions |
|---|---|
| `add_action` (collab/service.py) | `Propose`, `StorePayload`, `RememberProposal` |
| `approve_action`, `git.create_action_branch`, `tools` | `BeginApprove`, `CreateActionBranch`, `WriteFile`, `RunTests`, `ApplyFails`, then the decision |
| `reject_action` | `BeginReject`, then the decision |
| `_finalize_action` and what follows it | `Decide`, `NoteMemory`, `RememberDecision`, `DiscardPayload`, `Announce` |
| `commit_action`, `git.commit_files` | `GitCommit`, `RecordCommit` |
| `create_pull_request_plan`, `github.py` | `OpenPullRequest`, `RecordPullRequest`, `PullRequestFails` |

`interrupted`, `applied` and `green` are history variables.  The refinement maps
`phase` to the furthest of `pulls`, `commit`, `status`, and `touched` to `applied`.
Not modelled: permissions, texts, the command whitelist, an exception inside
`add_action` (the same states as a crash there, but with the cache kept), messages
about commits and pull requests.

### AgentRuns

`status`, `maxSteps`, `route` are the stored run; `pc` is the await at which its
coroutine stands (`starting`: the debug delay; `planning`: the planner's answer;
`working`: the specialist's; `proposed`: no await, but a point where the process may
die with the pending action stored and the run not).  `flagged` is `_cancelled`,
`killed` the tasks that `task.cancel()` was called on and that have not run since.
`_check_control` is `Passes` and `Raises`: time may have run out at any check, the
budget is counted as in the code, at the checks the four routes really make.
`CancelRun` cancels the task of a background run and only sets the flag for a run a
request waits for.  `Crash` and `Shutdown` end the process; the next one recovers
(`AgentRunStore.recover_running`).  Not modelled: the cancellation of a request whose
client has gone, texts and traces.

### AgentAssignments

`asg`, `kind`, `runId` are the stored assignments; `serves[r]` is the assignment
whose dispatch request awaits run `r`, `calling` the one whose external provider is
being called, synchronously.  `Report` is the end of `dispatch_assignment`: it writes
back the copy taken *before* the await, so it overwrites a cancellation, and brings a
cleared assignment back.  `outcome` and `marked` are history variables.  The run part
of every step is a step of `AgentRuns` or a stutter, by the way the actions are written
(`RunsUnderAssignments`).

### LiveSession

A chunk goes through `stage`: `received` (its handler sends the status), then
`awaited` (it has a task) or `pending`; a pending chunk is `replaced` or `popped`;
an awaited one is `reporting` or `failing` once its task is done, and `over` when its
coroutine ends.  `carrier` is the socket whose coroutine has it, `late` says that the
coroutine is a `_finish_live_chunk` and not the handler.  `processing`, `pending` and
`latest` are fields of `LiveMeetingSession`, `task` the asyncio tasks,
`timeline` the order in which `SpeakerService.process_live_chunk` ingested segments.
Between two stages the loop is given up: at a send (the send lock and a full write
buffer suspend the sender), at the stage queue, or at the task.

| Code | Actions |
|---|---|
| `LiveSessionRegistry.start`, `mark_reconnected` | `Start` |
| `add_chunk`, `_process_live_chunk` | `Receive`, `Begin`, `Queue` |
| `_start_live_processing` | `BeginTask`, `TurnLate`, `Collect`, `Finish`, `GiveUp` |
| `_finish_live_chunk` | `Collect`, `Finish`, `GiveUp` of a late chunk |
| `_process_queued_live_chunk` | `PassOn`, `BeginPending` |
| `_stop_live_session`, `LiveSessionRegistry.stop` | `Stop`, `EndStop` |
| `SpeakerService.process_live_chunk` | `TaskEnds` |
| `_send_json` failing, `websocket.disconnect` | `Disconnect` |

Rejected chunks (empty, too large, repeated, out of order) change statistics only and
have no action.  Not modelled: the registry's other sessions, pruning of idle ones, a
second `start` on a socket, what is sent to the client.

### PersistentWorker

The process behind a `TaskEnds` of `LiveSession`.  `lock` is the queue of the asyncio
lock, its head the request at work; `proc`, `reaped` are `_process` and its
`returncode`, which the event loop sets some time after the exit (`Reap`); `inbox` and
`outbox` are the pipes, with one line per request.  A line written to the worker names
no request, so what is modelled is exactly what keeps answers apart: which process is
asked, and what is still in its pipes.

| Code | Actions |
|---|---|
| `process_live_chunk`, `warmup`, `async with self._lock` | `Call`, `Holds`, `Leave` |
| `ensure_started`, `aclose` | `Enter`, `StartProcess`, `Close` |
| write and drain, and their failure | `Write`, `WriteFails` |
| `_read_result`, `_read_warmup_ready` | `Read`, `ReadFails`, `EndOfStream` |
| `asyncio.wait_for` runs out, the caller is cancelled | `Timeout`, `Cancel` |
| `_run_persistent_whisperx_worker` | `Work`, `Die` |

Not modelled: the one-shot subprocess of a chunk (a task of `LiveSession`) and the
in-process provider, whose thread shares nothing with the loop.

### RoomSync

`version` counts the changes of a room and stands for all of its contents; an event
is the version it announces.  On the server, `hub` and `queue` are `RoomEventHub`,
`sock` the handler of one event socket, `hand` and `heard` the results of its two
tasks.  In the browser, `page` and `sync` are what is shown of the connection, `timer`
is `roomRefreshTimerRef`, `view` what the page shows.  Nothing keeps a refresh from
starting while others are under way, so that `flight` counts the page's refreshes at each
phase: not answered yet, answered with a snapshot of some version, or applied and waiting
for the requests that follow.  They proceed and end in any order.  `told`, `newest` and
`warned` are history: what was published to the page, the newest version it has shown, and
whether it has said "reconnecting" since it was last told.

| Code | Actions |
|---|---|
| a route that changes a room and publishes; `_offer` | `ChangeRoom`, `Publish`, `Offer` |
| `room_events` (collab/router.py) | `Subscribe`, `Greet`, `TakeEvent`, `Hear`, `Wake`, `End` |
| `loadBootstrap`, `socket.onmessage`, `onclose`, effect cleanup (App.jsx) | `Load`, `Send`, `RestartServer`, `Leave` |
| `scheduleRoomRefresh`, `refreshRoom`, `applyRoomSnapshot` | `Fire`, `Answer`, `Apply`, `Settle`, `Fail`, `Warn` |

Left out: the refreshes a page makes after requests of its own and the snapshots that
connecting a workspace answers with (they show the room as well, and may be applied late
like any other), and a second connection after the session has expired.

The names of this module and of `ExternalAgents` differ from those of `ProductionTrial`
(`SyncSpec`, `AgentsSpec`, `Spec`), so that one module of proofs extends all three.

### RoomHistory and RoomReads

The handlers are `async` functions with synchronous bodies, so requests do not
interleave; each stores its effects one after the other, and `upto` is the last of
them that took effect: every action is the whole handler, cut short or not
(`Completes`, `EndsEarly`).  A label of the diarizer is a speaker nobody knows until
it is mapped; mapping it rewrites, in this order, the mapping, the voice profile, the
messages, the memory, and the audit.  A message keeps who it was first attributed to.
`archive` is the long memory, `index` the retrieval index, both copies made on
request; `answer` is the set of citations an answer may choose from, so that ranking
is left open.

| Code | Actions and operators |
|---|---|
| `add_user_message`, `add_speaker_message`, `ingest_segments`, `record_voice_response` | `Typed`, `Segment`, `Ingest`, `Speak`, `Capture` |
| `map_speaker`, `reattribute_speaker_messages`, `reattribute_memory_for_speaker` | `Map`, `Reattributed`, `Known`, `Audit` |
| `add_action`, `approve_action`, `reject_action` as the memory sees them | `CaptureAction`, `Decide`, `DecideArchived`, `DecideOnly`, `Settled` |
| `join_room`, `leave_room`, `build_handoff`, `work_dashboard` | `Join`, `Leave`, `Handoff`, `OpenItems` |
| `archive_room`, `upsert_many` | `Archive`, `Records`, `Upserted` |
| `query_rag` and its citations | `Query`, `Cite`, `Cites` |
| `room_state`, `validation_report` (speakers) | `Unknown`, `Calibrated` |
| `list_audit_events`, `query_audit`, `build_room_trace`, `query_memory`, `memory_health` | `AuditTrail`, `AuditAnswer`, `Trace`, `Coverage`, `MemoryAnswer`, `Orphans` |

In the initial states nobody or everybody has joined.  Left out: the agent's and the
system's notices, except the audit of a mapping and (as `told`) the notice of a
decision; the handoff record of the long memory; the rows of the event store and the
gate, commit and pull request events of trail and trace; projects and administrators
in the access rule.  Segments from the provider never carry `SPEAKER_SELF`, which only
authenticated audio has.

### CollabStores

A room holds one item of each kind, and a content maps a kind to its version, 0 when
absent.  A JSON write is two steps, `JsonOpen` (the dictionaries are changed and the
file is emptied) and `JsonWritten`; between them lies every torn file.  Making the room
and adding to it are two writes, as in the code.  `acked` is what callers have been
told, `doubt` the kinds for which they have no answer.

| Code | Actions |
|---|---|
| every method that writes (both stores) | `Call`, `Legal`, `Apply`, `Return` |
| `_persist` | `JsonOpen`, `JsonWritten`, `JsonFails` |
| `_connect`, `_record_event`, `_touch_room` | `SqlCommit`, `SqlFails`, `Committed`, `Record` |
| `__init__`, `_load`, `_init_schema`, `create_collaboration_store` | `Start`, `Load`, `SwitchOver` |
| `migrate_json_to_sqlite` and its script | `MigrateStart`, `MigrateLoad`, `MigrateFails`, `MigrateCopy`, `MigrateEnd`, `MigrateCut` |
| `init_collab_event_store` | `InitStore` |

The migration is a process of its own and interleaves with the server's writes.  Left
out: what a kind's item says, time stamps, `--dry-run`, which writes nothing.

### ExternalAgents

`creds` is the credential file: of each user and provider the credential, or `NoCred`,
with the kind of secret and the version of the sealing secret; `flows` are the pending OAuth states.  Only the
token exchange waits, so `Callback` and `Exchanged` are two steps with anything in
between; `Expire` is the passing of ten minutes; `Restart` changes settings or secret
and forgets the states.  Readiness is computed in one place (`Ready`) and enforced
again in others (`Run`, `ProposePatch`, `RunReadOnly`, `CallApi`, `CliPatch`,
`RunCommand`); `Run` is the set of answers a run may get, the exceptions that nothing
catches among them (a copy of the workspace that fails, an executable that cannot be
started).  A run does not look where readiness does: it has its own way to find the
workspace (`resolved`) and starts a `line`, the command or its template, that may not be
on the runtime's list or start nothing (`Lines`).  `Score` and `Best` are the recommendation, with
the code's points; `Guide` is the step the setup guide asks for (`CliGuide` with a
command connected), and `Follow` what the settings (`SetUp`) and the credential
(`WithCli`) are once the user has done it.

### SystemJobs

A job goes through `stage` (`uploading`, `begun`, `running`, `draining`, `overrun`,
`over`) with its process beside it.  A process that exits or is killed may leave others
it started (`left`: npm starts the harness of a gate), which hold its output and, for a
gate, may still write its report.  A gate or a warm-up reads that output to its end
without a time limit, whether its process exited in time (`draining`) or was killed
(`overrun`); a verification awaits exit and output together, within its limit.  An upload is received
between the check for a running job and the registration, so that two verifications
can be under way.  `End` is what follows a job's end in one step: the record, the
room's notice, the removal of the sample.

| Code | Actions |
|---|---|
| `start_demo_gate_run_job`, `start_speaker_warmup`, `start_generated_speaker_verification` | `Start`, `EndAtOnce`, `Busy`, `Register` |
| `start_speaker_verification`, `_write_verification_upload` | `Upload`, `Received`, `UploadFails` |
| `_run_demo_gate_job`, `_run_speaker_verification`, `_run_speaker_warmup` | `Spawn`, `SpawnFails`, `Exited`, `Finish`, `Timeout`, `Kill`, `Drained`, `Superseded` |
| `register_demo_gate_completion`, `_record_demo_gate_completion` | `AddTarget`, `Tell` |
| the process, and what it leaves behind | `Exits`, `Reports` |

### TrialAudits and ProductionTrial

A settings file is the set of requirements it meets; a user file is whole or torn,
with the kinds of accounts in it.  The bundle script writes its files one after the
other, each private, complete but with the mode it was created with, emptied, or not
touched; forced, it writes over what is there.  `writer` is history: which run wrote the
users, the environment and the manifest.  The operator edits, replaces, deletes
and records; the server checks once when it starts and reads (or seeds) the accounts
with its first request; project updates write the list it read.  The reports of
`TrialAudits` are operators, one per check, with the code's names.  Assumed: each
report is one step; the list of origins is not empty; the language model is ready;
the stores write their own files private; the server is one whose environment leads
to the bundle.

## Runs

| Run | Bounds | What it shows |
|---|---|---|
| `approval` | 2 actions, one touching both files and one touching one, crashes and git failures on; 1.6 million states | No action is completed untested, a rejected one touches nothing, a settled one leaves no payload or open memory; the whole implements `ApprovalContract` |
| `agent_runs` | 2 runs, all four routes, budgets 2, 7, 20, crashes; 211 thousand states | A running run has a coroutine, proposals are audited, budgets are kept, endings are final, a cancelled run proposes nothing, every run ends |
| `agent_assignments` | 2 assignments, 2 runs, crashes, marks by hand; 244 thousand states up to symmetry | One run at a time for an assignment, an assignment agrees with its run |
| `live_session` | 3 chunks, 2 sockets, failures; 2.2 million states | No chunk is ingested twice, a running task is never forgotten |
| `live_one_socket` | 3 chunks, 1 socket, failures; 26 thousand states | The pending chunk is taken up, no coroutine holds a chunk for ever |
| `room_sync` | 2 clients of which one also sends, queues of 1, 3 changes, any number of overlapping refreshes | A change published to a page has been on its screen, or is on its way there, or the page has said it lost the room; and it comes there in the end |
| `persistent_worker` | 3 chunks, 2 warm-ups, 3 processes | An answer is the answer to the request that reads it, no process is left behind a failed request, a queued request ends (while a process may still be started) |
| `system_jobs` | 2 jobs of any kind | A recorded failure stands whatever a killed process still writes, an ended job has told its room and removed its sample, the current job ends (but for a gate or a warm-up whose output is held for ever) |
| `collab_stores` | 3 changes, crashes, failing writes, a migration; 2.9 million states | What was answered is in the store that serves, the event log tells the tables, a migration that validated has copied everything |
| `external_agents` | 2 users, 2 flows, 6 settings, 1 connection by hand | An OAuth state is used once and for its owner; what is called ready is not refused, and may succeed unless what readiness overlooks is in its way; what is recommended is ready |
| `production_trial` | 2 bundle scripts, 3 edits of the operator; 1.7 million states | No server of the bundle serves a demo account, a rotated account stays rotated, a cutover serves an administrator, an accepted bundle has the manifest of a run that wrote all its files and no older file, and is proven |
| `room_history` | 2 users, 2 labels, 4 messages, 2 actions, 4 requests, 2 of them cut short, limits of 1 to 3; 767 thousand states | The four stores tell one speaker, the first attribution is kept, answers name whom a voice is mapped to and open what is open, and what was archived stays true |

Why the bounds are enough.

* `approval`: two actions that share a file are what it takes for one approval to
  disturb another (the same file, the same working tree).
* `agent_runs`, `agent_assignments`: budgets of 2, 7 and 20 lie below, within and above
  the longest route (9 steps).  Two runs and two assignments allow a retry to race the
  run of the assignment it retries, and two runs that serve the same one.
* `live_*`: three chunks are one being processed, one pending and one that replaces it
  or overtakes it; two sockets are a client that comes back while the handler of its
  first connection is still at work.
* `room_sync`: with one change for each page that comes and one more, a queue of one
  overflows while an event is in hand, and two refreshes of the first page overlap, are
  answered with different versions and applied in either order.  One client only listens,
  the other also sends, so that both results of the server's two tasks may be there at once.
* `persistent_worker`: three processes are the first, its replacement after a time limit,
  and the one after a cancelled warm-up.  Five requests fill the lock's queue behind
  each kind of failure.
* `system_jobs`: the server keeps one record per kind, so two jobs of one kind are what
  it takes to supersede one, and two kinds do not meet.
* `collab_stores`: three changes are one before, one during and one after the migration;
  a torn write followed by a repair by the next write needs two.
* `external_agents`: two flows of one user are a repeated connection, of two users an
  exchanged state.  The six settings cover each gate open and shut.  The four commands
  are one of each line, and one that is looked for only when it runs.
* `production_trial`: a second bundle script over the first, with three edits between
  them, is the shortest way from a good bundle to each refused one.  Evidence is missing, weak
  or complete in the checkout, or failed later; one verification found a label, one several.
* `room_history`: two labels map to one user or two; the limits on what is listed, read,
  answered and archived are 1 to 3, so that each is reached and passed, and an event shares a
  word with a question or none.  Something said, a mapping, a correction that is cut short and
  its repetition are four requests, and so are a proposal, one with the same summary, a
  decision and a question after it.

`CHECK_DEADLOCK FALSE` is said everywhere because every one of these systems may come to
rest: all actions decided, all runs ended, all sockets closed, all requests spent.

## Fairness

* `AgentRuns`: weak fairness of each coroutine's next step.  The loop runs what is
  ready, and every await ends: the HTTP clients have timeouts
  (`llm/providers.py:140`), the debug delay is a sleep.
* `AgentAssignments`: *strong* fairness of a run's steps, since synchronous requests
  disable and enable them again and again; asyncio's queue of ready callbacks is first
  in, first out, so such requests cannot pass a ready coroutine for ever.  Weak
  fairness of the end of a request and of a synchronous provider call.
* `LiveSession`: weak fairness of the coroutine that holds a chunk, and of its task:
  a worker is killed after `whisperx_worker_timeout_seconds`, and without a worker
  the transcription is a computation in a thread, which ends.  Clients owe nothing:
  no fairness of receiving, stopping or disconnecting, nor of crashes or failures.
* `PersistentWorker`: weak fairness of each request, `Goes(r)`.  `asyncio.wait_for` ends
  every read; asyncio's lock is first in, first out.  The process itself owes nothing: it
  may hang, or die.
* `RoomSync`: weak fairness of a socket's handler, of its hearing that the client has gone,
  and of the page's timer and fetches, which have a time limit.  None of what clients send,
  nor of leaving.
* `SystemJobs`: weak fairness of a job's coroutine: the time limits run out, and reading
  ends once no process holds the output.  Uploads and processes owe nothing: one that was
  left behind may hold the output for ever.

The other modules state safety only, and no fairness.

## What the models show besides

Behaviours of the code that the models contain and that a reader of a property should
know of.  The properties above are stated around them.

Approval (`PatchApproval`)
* A commit lands on whatever branch is checked out (`workspace/git.py:147`), which is
  another action's when two are approved before the first is committed;
  `docs/SECURITY_REVIEW.md:88` has "the approved patch has been committed on its local
  branch".
* A failed repetition of a pull request overwrites the audit of the open one
  (`collab/service.py:1389`; compare `docs/SECURITY_REVIEW.md:97`).
* A test command that times out (`workspace/tools.py:144`) leaves written files behind
  an action that is still pending (compare
  `docs/FINAL_ACCEPTANCE_AUDIT.md:27`).

Runs and assignments (`AgentAssignments`)
* A restart recovers runs but not assignments (`agents/store.py:120`), and cancelling an
  assignment does not stop its run (`agents/service.py:262`); compare
  `docs/GOAL_ROADMAP.md:32`, "without leaving orphaned work".
* `Report` overwrites a cancellation made while the run went on, and brings back an
  assignment that was cleared meanwhile (`agents/service.py:418`).

Live audio (`LiveSession`, `PersistentWorker`)
* Chunks of one session may be ingested out of order (`speakers/router.py:650`): the
  pending chunk of a failed or disconnected coroutine stays where it is until another
  chunk is over (`:516`), which is why `QueueDrains` excludes failures.
* With two sockets on one session, the older of two chunks may be queued over the newer
  (`:363`).  A session stopped while a task runs reports `pending_finalization` for its
  pending chunk (`:719`), which is then not processed.
* The late READY of a cancelled warm-up may end the next warm-up early; it never answers
  a chunk.  A warm-up in the process itself goes on in its thread after its time limit.

Rooms (`RoomHistory`, `RoomReads`)
* A crash inside `map_speaker` leaves older messages unattributed under a label that
  shows as mapped; repeating the mapping repairs it.  Mapping `SPEAKER_SELF` gives
  everyone's authenticated audio to one person.
* `add_user_message` resets `joined_at`; `join` writes `last_seen` before the handoff it
  computes is delivered.
* Long-memory records beyond the last 100 items are not refreshed, and the
  `action:pending_approval` record of a decided action stays.  `memory_health` calls
  items orphans whose source is older than its window.
* A note said under two labels belongs to the first; a second proposal with the same
  summary has no memory item of its own; no endpoint closes the open item of a message.
* `query_audit` cuts to the 200 newest before it filters by kind, `list_audit_events`
  filters first; "who approved" also lists rejected and failed actions.
* `query_audit` puts the events first that share more words with the question
  (`collab/service.py:821`), and only an event's age decides among equals.  A label's first
  mapping says "mapped to", a later one "reassigned" or "corrected" (`:1925`, `:1942`), so that
  a question with the word "mapped" may be answered with a user the label no longer belongs to:
  the newest mapping is told first only when the question prefers none of them, which
  `TrailTellsMapping` supposes.
* Approving archives the room (`collab/service.py:1241`), rejecting does not: the long memory
  shows a rejected action's open item as open until the next archiving.  `LongMemoryIsTrue`
  speaks of what it shows as settled.

The page (`RoomSync`)
* `scheduleRoomRefresh` (`App.jsx:426`) starts a refresh whatever others are under way and
  keeps no order among them.  Of two that overlap, the one answered first may be applied
  last: the page then says "Room live" over the older room, and nothing brings it up to date
  before the next event.  The model has these steps, and what is checked is what they leave
  true: each change was shown once, or is under way, or was warned of (`NewsIsOnItsWay`,
  `CatchesUp`).  That it is still shown does not follow.  In the same way a refresh that
  succeeds after another failed shows "Room live" again, though it may be the older one.
* A refresh that succeeds after the socket closed shows "Room live" again; changes
  between the first snapshot and the subscription are missed until the next event; the
  debounce has no longest wait.
* A greeting that cannot be sent leaves the queue of its subscriber behind
  (`collab/router.py:629`, the state `failed`).  An event that is there together with a
  client's message is dropped (`:652`); the one after it makes up for it.

Jobs (`SystemJobs`)
* A gate and a warm-up have a time limit for their process, but none for the end of its
  output (`asyncio.gather` of the two readers, `system/router.py:782`, `:812`, `:1499`,
  `:1510`).  A process left behind that holds the pipe keeps the job "running" for ever,
  after a normal exit as after a kill, and no other gate or warm-up can be started until
  the server is.  `JobsEnd` excepts this case and no other.
* Two verification uploads may be received at once, and then two verifications run; a
  target registered after another gate has started is lost.

Stores (`CollabStores`)
* The migration script exits with 0 and "ok" also when its validation failed; it removes
  the target before it reads the source; a target that was cut short counts as ready in
  the readiness report.  Settings are not counted by the validation.
* `--replace` leaves `-wal` and `-shm` files; SQLite started on a missing file is an
  empty store; a torn JSON file stops the start.

External agents (`ExternalAgents`)
* A token exchange that ends late replaces a credential connected, or removes a
  disconnection made, meanwhile.  `expires_at` is never looked at.  A credential sealed
  with an earlier secret is shown as ready and refused.
* Readiness overlooks three things (`ReadyRuns`).  A read-only run passes the runtime's list
  of commands (`workspace/tools.py:16`), which the default ones (`claude`, `codex`,
  `cursor-agent`, `local-agent`) are not on: it always fails although readiness says
  `cli_ready` (`external_agents/service.py:1345`) and the guide "ready"
  (`docs/EXTERNAL_AGENT_PROVIDERS.md:139` names the list, and "the configured CLI command"
  that runs).  A run starts the template, without a shell and in a copy; readiness looks for
  the command, with "~" expanded.  A run finds the workspace from the repository's root,
  readiness from the working directory.
* A copy that fails and a command that cannot be started are a server error (a patch's
  command that is not there is not).  A wrong user consumes the owner's state.

Production trial (`ProductionTrial`)
* Deleting the bootstrap file is not a rotation (`cutover.py:225`); there is no endpoint
  for passwords, and a running server writes its own list of users back over an edited
  file with its next project update (`auth/users.py:69`).
* The runbook has "start once, rotate the bootstrap admin password"
  (`docs/OPERATOR_RUNBOOK.md:157`): followed to the letter, with the server left running, its
  next project update undoes the rotation.  `RotationStays` is about a list no server holds.
* A bundle run forced over another and cut short after the users or the environment
  (`scripts/prepare_production_trial.py:109`) leaves the manifest of the run before, and the
  acceptance, which reads from it what the two runs have in common
  (`scripts/production_trial_acceptance.py:198`), passes the mix once the bootstrap file is
  deleted: users whose password was never written down, and an environment with secrets of
  either run.  `AcceptedIsComplete` says what remains: nothing is older than the manifest.
* Acceptance does not require a real administrator, and cutover does not require the
  manifest: neither implies the other.  Evidence never ages.  A torn users file passes
  the start and fails every request.

## Theorems

Every theorem is proved for all values of the constants that satisfy the named
assumptions, which are typing conditions: fault switches are Booleans, special values are
none of the actions, bounds are numbers, and the limit of what is indexed is not 0
(`ReadsAssumption`; the code has 500).

* `PatchApproval_proofs`: type correctness, each safety property of the `approval`
  run, finality of decisions, that an expired proposal was never written and a pull request follows a
  recorded commit (`ExpiryIsClean`, `PublicationFollowsCommit`), and the refinement.  The properties are not inductive:
  they hold because of what the operation in progress has already done at each label.
  `IInv` says so: `InProgress` (whose operation, at which labels), `Written` (a
  `completed` verdict means `green`), `Kept` (the payload outlives every attempt),
  `Rejectable`, `Recorded` (commits and pull requests) and `Settled` (what a decision
  has cleared so far).  One lemma per part proves that a step keeps it; the refinement
  maps each action to a step of the contract or a stutter.
* `AgentAssignments_proofs`, on runs alone: one inductive invariant: a coroutine belongs to a run that is
  running, or cancelled and flagged (`Flagged`); what each await leaves of the budget
  (`Budgeted`); only a coroutine that holds the loop has proposed without having
  ended (`Proposed`).  Steps are sorted into three kinds (`Ends`, `GoesOn`,
  `Restarts`) by lemmas, and preservation is proved per kind.  With assignments: every step is one
  of `AgentRuns` for the runs, so all theorems on runs carry over (`RunsUnderAssignments`); `AgreesWithItsRun` then follows because endings are final, and
  `OneRunEach` because a dispatched assignment leaves the queue.  Cardinalities are
  bounded by showing that two runs serving one assignment are equal.
* `LiveSession_proofs`: `Placed` says where a chunk with and without a task can be,
  that the pending chunk is the one staged so, and that a chunk newer than `latest`
  has not been seen; `Ingested` that what is in the timeline has a task that is done.
  A task runs once, so it ingests once; and a coroutine that reports has a task that
  no longer runs, so clearing its own `processing_task` forgets nothing.
* `PersistentWorker_proofs`: an answer carries no name, so `AnswersMatch` rests on how
  much may be in the pipes: `Queued` (the lock's queue without repetitions, its head
  alone at work), `Lines` (at most one chunk's line in both pipes together, the reading
  request's own) and `Processes` (a request at work asks the process that is recorded;
  every other one is dead).
* `SystemJobs_proofs`: `Staged` says what a job's stage tells of its record and its
  process, `Current` that a gate or a warm-up at work is the one on record, `Reported` which
  reports there can be.  Failures stand because, when a job is recorded as failed, none of its
  processes that report is left (`Staged`: neither its own nor, for a gate, one it left
  behind), and its own failure was written last.
* `RoomHistory_proofs`: `AllSaid` says of each message that its first author is kept and
  that, unless its label's mapping was cut short, its actor is the mapped one; `AllFit`
  that an item which remembers a message says of its author what the message says; `Told`
  that the last audit of a label names the user it is mapped to.  Preservation is proved
  per handler, for every step after which it may be cut.  What is read (`AnswersStayCurrent`)
  rests on `ReadsInv` besides: an item of memory remembers a message, or an action that still
  waits where the item is open (`Sourced`), and no text is remembered twice (`Works`); a
  message is an audit just when it is about a label (`Audits`).  An event of the trail is as
  the room stores it (`AsStored`).  Of the mappings of a label that a question scores alike, an
  answer that tells an older one tells a later one first (`AnswerHasLater`); so the one it
  tells first is the newest in the room (`LatestTells`), and `Told` says that this names the
  user the label is mapped to.  That what was archived stays true (`ArchiveStaysTrue`) is an
  invariant of its own (`ArchiveInv`): a record is written from the room as it is, an item that
  is settled stays settled and keeps, under one author or the other, the voice it was first
  attributed to (`Keeps`), and an outcome stays (`Outlive`).
* `CollabStores_proofs`: `WellFormed` that no item is without its room, `Working` where an
  operation may stand, `Files` how the JSON file and the dictionaries compare, `Answered` that what was
  answered is in the store that serves or in doubt, `Migration` how far the copy is in
  step with its source, with `MigratedAll` as its consequence.  `LogsRebuild` says that the
  last event about a kind (`Leaves`) tells what the table holds; it is inductive together
  with `Rewriting`: an operation in progress that logs nothing rewrites what is there.
* `Services_proofs`, on `RoomSync`: `Standing` says what the hub, the queue, the two results
  and the timer are at each place of a handler, `Followed` that a page which has not shown
  what it was told, and has not warned since, has an event, a timer or a refresh under way
  that was not answered before.  It is inductive without any order among refreshes: one that
  ends either showed enough, or was answered too early to count, or warns.  The theorem is
  for any number of pages, changes and overlapping refreshes.
* `Services_proofs`, on `ProductionTrial`: the properties speak of a server that runs and of
  reports given earlier, the invariant of what they rest on.  `DemoKeptOut`: whoever started
  with the production gate found no demo account, and reads none later.  `OwnKept`: a
  password that was replaced is in the file and in the list a server will write back.
  `AdministratorKept`: what the cutover saw is there until a file changes, and the server it
  released has read it or will.  `ReleaseKept`: what an acceptance found stays until a file
  changes.  `WritersKept`: a run that has come past a file wrote it, so when it writes its
  manifest no file of the bundle is older; what a later run overwrites is newer still.
* `Services_proofs`, on `ExternalAgents`: a flow that is not over has stored nothing, and
  none that is exchanged had expired (`FlowsKept`).  That readiness, run and guide agree,
  but for what readiness overlooks, is proved as lemmas about operators, for any settings and
  credentials: a run of what is ready is followed through its checks (`ReadyIsRun`); each step of the guide
  makes a measure smaller (`Left`, at most 4), and where it is 0 the provider is ready.  That
  what is recommended is ready is arithmetic on the points: one that is connected and
  ready has at least 75, one that is not ready at most 72, one not connected at most 12.

Only model-checked: all liveness (`RunsEnd`, `QueueDrains`, `InHandEnds`,
`RequestsEnd`, `CatchesUp`, `JobsEnd`), which the prover cannot reach.  Every invariant,
action property and refinement that a run checks is also proved.

## Not modelled

* LLM connections and routing, the voice agent, planning: choices over answers of
  services outside, with nothing durable; they appear as the nondeterminism of `AgentRuns`.
* Authentication beyond the user file and the demo accounts of `ProductionTrial`: login,
  token signing and expiry.
* The live session registry (other sessions of a room, pruning of idle ones) and the
  migration of speaker profiles.  Stop removes a session by its key.
* The time-limited cache of the workspace and git read models (`cache.py`): what decides
  anything, such as the status before a branch or a commit, is read with `use_cache=False`.
  The services' `lru_cache`s hold singletons; the approval payloads are in `PatchApproval`.
* The MCP server, the frontend but for `RoomSync`, the harnesses under `backend/scripts`
  that drive the routes: what they send is the environment of the models.
* Permissions, texts, ranking, prompts, formatting: they change no state spoken of.
* Threads: `asyncio.to_thread` runs provider calls, clones and transcriptions, whose
  results are used on the loop again.

What is left to do, in this order: the registry around `LiveSession`; the refinement of
an abstract store by both backends of `CollabStores`; login and tokens.
