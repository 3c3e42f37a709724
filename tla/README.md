# Verification of the automation bridge

The bridge receives agent tasks from n8n over HTTP, runs a Cursor agent for
each of them in the workspace of its project, publishes what the agent changed
to GitHub and reports the outcome to n8n in a callback, while a dashboard shows
the runs. This directory holds TLA+ modules of its core, the configurations
TLC checks them with, and TLAPS proofs. `PROJECT.json` maps every definition to
the lines of the source it stands for, and lists components, runs, findings,
hazards and theorems.

## Inventory

| Component | State | Operations | Correct when |
|---|---|---|---|
| Project queue (`project_queue.py`) | `_active`, `_waiting` per project, one lock | enqueue, cancel_waiting, on_task_finished, snapshots | one run per project at a time, first come first served, nobody stranded or lost, positions 1..n |
| Executor (`task_executor.py`) | FIFO of jobs, N threads | schedule_agent_task | every submitted run is taken once |
| Workspace lock (`workspace_lock.py`) | a lock per project | try_acquire_project, release_project | never contended, always released |
| Task jobs (`task_jobs.py`) | – | run_agent_job, _ensure_task_not_stuck | the run ends final and told, the queue moves on, whatever raises |
| Registry (`dashboard_store.py`) | a record per run: status, cancel flag, process, callback status and body, logs; bounded order | create, update, cancel, mark_*, append_log, snapshots | statuses do not contradict what happened or what n8n was told |
| Agent runner (`agent_runner.py`) | the attempt, the agent's process | run, _execute_once, _stream_process, _send_callback | no agent outlives its attempt, one outcome is reported, cancels end runs |
| Watchdog (`task_watchdog.py`) | a thread | sweep_once | overdue runs are stopped |
| GitHub publisher (`github_publisher.py`) | the git repository in the workspace (survives restarts) | prepare_workspace, sync_workspace_to_branch, publish_task_changes | no work lost, each kind of project on its own branch, a reported success is on GitHub |
| Routes (`main.py`, `dashboard_routes.py`) | – | execute_agent, cancel, retry, retry_callback, queries, WebSocket | answers agree with what then happens |
| Event hub (`dashboard_events.py`) | connected clients, broadcasts in progress | register, disconnect, broadcast, broadcast_sync | no client misses the latest state of a run, events or not |
| Dashboard client (`static/dashboard/app.js`) | socket, timers, key, table of tasks | log in and out, connectWs, messages, poll, details | it comes back after every failure, once; badge and table are right |
| Process tree (`platform_utils.py`) | OS processes | kill_process_tree | the agent and its children end, and only they |
| Security, configuration, logging, scripts | – | stateless | – |

How they interact. HTTP handlers run on the event-loop thread from start to
end, because none of the state-changing ones awaits. They call the registry and
the queue. The queue submits runs to the executor, whose threads call
`run_agent_job`; that takes the workspace lock, runs attempts (publisher,
agent process, publisher), posts the callback and calls `on_task_finished`,
which submits the next run. The watchdog is a third kind of thread which kills
processes, writes records and posts callbacks. An agent has threads of its own
around it, two that read its pipes and one that posts progress. Every registry
write is emitted as an event that is scheduled on the event loop, which
broadcasts it to the WebSocket clients; a client folds events, snapshots and
answers into one table.

What is hard: four kinds of threads share records with locks around single
assignments only; decisions read a status or flag and write later; queue updates
are applied after the lock is gone; three threads may post the same run's
callback, over a network that can lose the answer; git commands fail one by one
on a workspace that earlier attempts and crashes left as it is, while developers
push; an agent blocks on a pipe nobody reads, and a child of it keeps the pipe open;
events are made from records that have moved on, and clients connect, stall and
break between two sends; timers of a page outlive what they were set for. The
repository has no automated tests of any of this.

## Modules

    ProjectFifo        contract: a line per project          (abstract)
      ^ implements
    ProjectQueue       queue + executor + lock + job control, loop and workers
    RunContract        contract: what is promised of one run (abstract)
      ^ implements, when there is no watchdog
    TaskRun            one run: attempts, agent, callbacks, cancel, watchdog
      ^ takes the steps of, where a kill ends the agent
    AgentStream        one start of an agent: process, pipes, readers, heartbeat
    PublishContract    contract: what is promised of a repository (abstract)
      ^ implements
    GitPublish         one project's git workspace over attempts
    DashboardFeed      records, events, broadcasts, snapshots, clients' tables
    DashboardClient    one page: socket, timers, poll, log-in
    MC...              what TLC's instances add: symmetry, sets of faults
    ...Proofs          theorems and their proofs

Actions are named after what they stand for; `Mutant of X` marks a
variant of X with a plausible bug, which the properties must tell from X and
which no specification uses.

### ProjectFifo and ProjectQueue

`ProjectFifo` is what the docstrings promise: accepted runs join the line of
their project, the head begins when the workspace is free, a cancel takes a run
out before it began, and nothing comes back. The one exception is the code's own: a
run that was asked to stop (`Stop`) and has left may stall its project, where no run
begins any more (`Stall`). It has no threads and no statuses.

`ProjectQueue` has the event loop and the workers, each with a program counter.
A section of the queue's lock is one step (`Enqueue`, `RemoveWaiting`,
`OnTaskFinished`). What it decides is put into `todo[t]` and `sched[t]`, as the
code does in `pending_updates` and `schedule_run_id`, and is applied by
`ApplyUpdate`, `Submit`, `Return`, one update per step, with other threads in
between. `TakeJob` to `JobAborts` are `run_agent_job` and the parts of
`CursorAgentRunner.run` that write the status, with the two reads of the cancel
flag, at the top of the loop (`StartAttempt`, `StopCancelled`) and, after the wait
before a last attempt, in `ExecuteOnce`. An attempt's inside is left to `TaskRun`.

The finally block ends in one of two ways. `EnsureNotStuck` goes on to
`OnTaskFinished`. `JobAborts` is the callback of `_ensure_task_not_stuck` that raises
(task_jobs.py:38): the block is left before `on_task_finished`, no thread has the run,
and it stays the active one, so that its project is `Stalled` for ever. That needs a
run without a final status at this place, which only a cancel leaves
(`RunsEndFinal`), so `ActiveIsInFlight` says that a stalled project has a cancelled
active run, and the liveness is stated up to a stall.
 `Enqueue` takes create_task and enqueue's lock section in one
step: no other thread knows the run id before, and no handler runs meanwhile.
`racy` is a history variable for `NumbersRight` alone.

### TaskRun

One run from the moment a worker has it. The worker's program counter follows
`run`, `_execute_once`, `_run_agent_process`, `_stream_process`,
`_finish_attempt` and `_send_callback`; `phase` says whether it is in `run`,
in the exception handler or in the finally block of `run_agent_job`. The event
loop executes `cancel_task` or `retry_callback`, the watchdog `sweep_once`.
Reading a status or the cancel flag and acting on it are separate steps wherever
another thread can write in between: `ReadStatus` and the write of
mark_finished, `Cancel` and `MarkCancelled`, `ExecuteOnce` and `MarkRunning`,
`Launch`, `StartAgent` and `RegisterAgent`. A POST is answered, lost before n8n
has it, delivered and not answered, or raises something else than a
RequestException; `heard` is the sequence of the outcomes n8n got. An exception
that leaves `run_agent_job` makes the worker `"lost"`: the queue is never told.

`RunContract` is what n8n, the dashboard and the queue are promised of a run,
with no threads, attempts or agent: it comes to one outcome, decided once, which is
all n8n is told, however often, and what the run shows unless it was cancelled; it is
a success only if the last thing done for it succeeded, which cannot begin once
somebody has cancelled; a callback is skipped only for a cancelled run that came to
nothing and was not reported; it shows as sent only when n8n was told; and the worker
leaves when the run shows how it ended and was reported or skipped. The definition
`Contract` of TaskRun says which variable is which: the stored body is the
outcome, `heard` is what was told, `cb` the mark.

### AgentStream

What TaskRun calls an agent that exits or is stopped. A pipe holds `Capacity`
lines, `Write` blocks on a full one, and `read_stream` is two steps, the line taken
out (`ReadLine`) and appended (`KeepLine`), so that a join can end in between. A
child may hold the pipes open after the agent; then the readers do not end and the
joins expire. `stubborn` is the way outside Windows, where `kill_process_tree`
asks and the agent may decline. The heartbeat looks at `stop_heartbeat` and starts
a ping in two steps. A cancel comes in another thread, also before `set_process`.
Every timeout may expire at any time its event has not happened.

`FollowsTaskRun` relates it to TaskRun, which has all of this in the steps
`RegisterAgent`, `AgentExits`, `StopAgent`, `AgentGone`, `Cancel` and `MarkCancelled`,
from Popen to the result. TaskRun's worker is in "register" until `set_process`
(`WorkerAt`), in "stream" until `unset_process`, in "verdict" from then on, whatever
threads, pipes and pings do meanwhile; its agent is alive, ended by a kill, or ended by
itself with `ExitCode` (`AgentIs`); the thread of a cancel is in "cancelMark" once it
has raised the flag (`ThreadsAt`). TaskRun's cancel raises the flag and ends the agent
in one step, so `caught`, a history variable, notes that the cancel found a living
process, and the agent counts as ended from there. This holds where a kill ends the
agent, which is what TaskRun has; a `stubborn` one may live on, and such behaviours are
excepted.

### GitPublish

One project, any number of tasks and attempts, one at a time, which is what
ProjectQueue shows. A tree is the set of changes it contains, one per task, one
for developers, one for the `package.json` that makes a project Node.js; a
commit is its tree; ancestry is inclusion, since nothing is removed. The
working tree, the local and remote-tracking branches, the stash and the
directory that receives files found in the way of a clone are variables, and
`remote` is GitHub. Before the agent every command that writes is a step:
`SetAside` (the files that are not a repository are moved away) and `Clone`, or
`FindRepository`; then `Fetch`; then `Checkout`, or, where local changes are in its
way, `CheckoutBlocked`, `Stash` and `CheckoutAgain`; then `Pull`. After the agent
`Publish` fetches, adds and commits, in one step, since an add or a fetch before a
failure leaves nothing that the next attempt does not do again, and `Push` pushes. Each may fail, which ends the attempt with what the
steps before it have done (a stash, say, and the old branch still checked out, which
the next attempt finds); the
clone may be killed half-way (its timeout) and leave a repository without a
commit; developers push and create staging at any time; `Restart`, between any two
steps, drops the attempt and keeps the disk. Abstractions: a removed file, a merge with
conflicting edits inside a file (a pull whose changes meet uncommitted ones
fails, others merge) and the half-merged state git would leave.

`PublishContract` is what all that is for, with no local branches, commits, stash or
git commands: an attempt brings the workspace up to date with what is known, an
agent works, and then all of the workspace goes to the branch of its kind, on top of
what is there, or nothing does; a success is reported for that, or for an agent that
changed nothing. The definition `Contract` of GitPublish maps `remote` to what is on
GitHub, `tree` to the workspace, `Kept` (the changes that are in any of the places
named above) to what is known, and `pc` to whether an attempt is being made.

### DashboardFeed

A record is a version that every write increases, so that an old state can be told
from a new one. An operation writes (`CreateTask`, `UpdateTask`, `AppendLog`), reads
what its event says (`ReadRecord`, later, from a record that may have moved on),
and emits. The loop's own events are tasks at once, a worker's come as a callback
that makes a task (`Hop`), which is how one passes another. `StartBroadcast` copies
the clients, `ContinueBroadcast` sends to one of them and awaits; several broadcasts
are in progress together. A connection registers, reads its snapshot record by record
while others write, is greeted, breaks, is dropped. `table` is what the client shows
once it has handled what was sent, with the rules of its `switch` and `mergeTask`
(a log line for an unknown run makes a stub). An item of queue_updated carries the
status and position of a run only; here it carries the version, which takes nothing
from the properties since each write also emits its own event. The history keeps `MaxHistory` runs.
`raced` notes the three ways in which events of a run overtake each other: a thread
emits what another has written over, an event of the loop passes one of a worker, a
broadcast passes another at a slow client.

### DashboardClient

The page runs one callback at a time; which one is nondeterministic: events of the
socket, a timer, an answer. A `setTimeout` whose handle variable still holds another
timer's adds a timer nobody can clear, so `timers` and `pollTimers` are counts, and
`armed` and `pollArmed` say whether the variable holds one of them. Sockets that were
replaced live on in `closing` until their onclose, which reconnects like any other.
The server is up or down, serves or refuses, changes its one state; requests are
answered with the state of that moment and handled later. A socket that is served is
registered and sent the snapshot (`Serve`), and then auth_ok (`Greet`), and events may
come in between. `Change` is a change of the server's state as the feed delivers it, a
write and its event in one step: that the hub can send two events in the wrong order is
`raced` of DashboardFeed, and "the server's state" is here that of the last one sent.

### How they fit

ProjectQueue shows that a project has one run in flight; TaskRun, AgentStream and
GitPublish follow that one. ProjectQueue's attempt ends because TaskRun's `RunEnds`
and `CancelFreesWorker` say when it does, and these rest on AgentStream: its steps
are TaskRun's (`FollowsTaskRun`), and they come (`WorkerFreed`, `CanFinish`). A worker
that TaskRun calls "lost" is ProjectQueue's `JobAborts`, and both say that it takes a
cancelled run (`LostWasCancelled`, `ActiveIsInFlight`).
DashboardClient takes from DashboardFeed (`NothingMissed`) that a served page gets
every change.

## Runs

| Run | Instance | Shows |
|---|---|---|
| `queue_safety` | 3 runs, 1 project, 2 workers, 2 attempts | exclusion, and stalls by cancelled runs only (`ActiveIsInFlight`, `LockNeverBusy`), `NoStrandedWaiters`, `WaitingShowsWaiting`, `NumbersRight`, the inductive `QueueInv`, and that ProjectQueue implements ProjectFifo |
| `queue_moves_on` | 3 runs, 2 projects, 1 worker, 1 attempt | with fairness, the fair contract and that every accepted run leaves, up to a stall by a cancelled run |
| `run_outcome` | 3 attempts, 2 callback attempts, callbacks lost or unanswered, no watchdog | TaskRun implements RunContract; one outcome is told and shown, skip means silence, everything ends final and told, cancels in time win; with a limit on the agent the worker gets free |
| `run_watched` | 2 attempts, 1 callback attempt, watchdog, callbacks that may also raise, agents that may hang | the inductive `RunInv` (no agent left behind, sent was heard), only a cancelled run loses its worker, a cancel always ends the agent and frees the worker |
| `agent_stream` | 1 line of stdout, 2 of stderr, pipes of 1 line | all output is returned but for three reasons, one late ping at most, the inductive `StreamInv` (no agent left but a stubborn one), every step is one of TaskRun or a stutter; the agent never blocks for good, the worker always gets away |
| `git_safety` | 2 tasks, developers who push a `package.json` or create staging | with a failure or a restart between any two git commands: GitPublish implements PublishContract; no change lost, right branch for each kind, the agent sees what was pulled, the inductive `GitInv` (a success has published its changes) |
| `feed_safety` | 2 runs, 1 worker and the loop, 2 connections, history of 1 | no client misses the latest state of a run; a run whose events did not race is right once they are out, the inductive `QuietInv`; every client that stays gets there |
| `dashboard_client` | 2 log-ins, 2 changes, 1 request | the page always reconnects, once per log-in; badge and table are right, with events also before auth_ok; it ends up live |

Each module's `TypeOK` is a part of its inductive invariant (`QueueInv`, `RunInv`,
`StreamInv`, `GitInv`, `QuietInv`, `ClientInv`), which its run checks.

Runs that end in a counterexample, each the shortest instance of one
disagreement between the code and what it says of itself (see `findings`):

| Run | What happens |
|---|---|
| `queue_cancel_refused` | a cancel in the window between leaving the deque and the status update is refused as "not found or already finished", and the run executes |
| `queue_final_status` | enqueue's late update turns a finished run back into queue_waiting for good |
| `run_hard_cap` | the watchdog's own callback makes later sweeps pass over a run whose worker goes on |
| `git_reported` | after a failed push the next attempt finds a clean tree and reports a success |

Bounds and why they are enough. Three runs of one project are an active one and
two that wait, so that order, cancels out of the middle and renumbering differ;
two workers are enough to have a release and a start at once, since a project
has one run in flight; two projects on one worker is the smallest executor
that is full. In TaskRun three attempts have a first, a middle and a last (with
the backoff); two callback attempts a first and a retry; `HeardBound` stops
retry_callback from being repeated for ever, after one callback was heard in
the watched instance, after three in the other. In AgentStream two lines through
a pipe of one make the agent block on a reader, and the two pipes differ. In
GitPublish two tasks are one
whose changes an earlier attempt left and one that comes upon them; the number of
attempts and restarts is not bounded. Developers push `Pkg`, the change the bridge
depends on; a plain change `Dev` is in the instances of the counterexamples.
In DashboardFeed `MaxOps` counts `First`'s creation, so two operations
follow: two writers of one record, or a creation that drops `First` from the history;
two connections are one that is slow and one that passes it. The worker and the loop
are the two ways an event is scheduled. In DashboardClient two log-ins make the
second chain of reconnection, two changes an old and a new state for a late answer.
Symmetry is used with safety only, on runs and workers or tasks, which no
definition tells apart.

Deadlock is checked for GitPublish and DashboardClient. The other systems do stop:
when all runs are done, when the worker has left a run, when the operations are used
up and the connections gone.

Fairness. Workers: the operating system schedules threads, and every step of
a worker is enabled until it is done, the end of an attempt excepted. In
ProjectQueue an attempt ends by assumption: `agent_runner.py` stops an agent at
`AGENT_TIMEOUT_SEC` or, with plain output, at `AGENT_IDLE_TIMEOUT_SEC`, or the
agent exits; with `AGENT_TIMEOUT_SEC=0` and stream output nothing does. In
TaskRun this is not assumed: `AgentExits` has no fairness, and only an instance
with `Limited` claims `RunEnds`. HandlerStep: a handler that has begun goes
on. WatchdogStep: sweeps follow one another. No fairness is assumed of clients:
accepting, cancelling and retrying happen or not. POSTs have a timeout
(`CALLBACK_TIMEOUT_SEC`), so they end. AgentStream: threads are scheduled and an
agent that does not hang goes on when it can; `Fail` makes it hang, and no child has
to end, no limit has to be set. DashboardFeed: an operation that has begun goes on
and the loop executes what is ready; a send to a client that does not read may take
any time but ends, since the connection breaks in the end. DashboardClient: the
browser calls events and timers and a server that is up answers; nothing is assumed of
the user, of polls or of the server's staying up, which `StaysLive` has as its premise.

## Proofs

For every value of the constants under the named ASSUMEs of the modules.

ProjectQueueProofs: `Inductive`, and from it `TypeCorrect`, `OneRunPerProject`,
`LockIsFree`, `NobodyStranded`. ActiveIsInFlight alone is not inductive: it does not
know that a run is in one hand only. `IInv` adds which locals are set at which
program counter (LocalsSet), that everything in flight is its project's active
run (HoldersActive), in one place (HeldOnce), and that conversely an active run is in
flight or was cancelled (ActiveRuns); that
locks are taken exactly while their holder is inside (LocksHeld); and that
waiting lines hold distinct accepted runs of their own project (WaitingRuns). For
ActiveRuns it must know that a worker whose run shows no final status when it has
returned is that of a cancelled run (RunsEndFinal), and for that, that no late update
makes a finished run show "queued" again, only those of runs to be submitted next
(UpdatesNext).
There is a lemma per part and a step per action in each.

ProjectLineProofs: `LineInductive`, `WaitingLooksWaiting`, `PlacesRight`. `QueueInv`
adds to IInv what the records show. That a waiting run shows queue_waiting is not
inductive by itself, since enqueue's update is applied after its lock section: the run
shows it or the next update of the event loop will make it so, and no update to come
makes it show anything else (WaitingShown); nobody who waits was asked to stop
(WaitingNotAsked). For the positions, the right place of each run of a line is shown
or is in every update to come of that run, unless updates of the project overlapped
(NumbersComing). Sections of the lock share two lemmas (SectionShown, SectionNumbers).

ProjectFifoProofs: `Implements`, that ProjectQueue implements ProjectFifo, with the
mapping of `FifoLine`, `FifoWorking`, `FifoSeen`, `FifoAsked`, `FifoStopped` and
`FifoStalled`. `Mapped` restates the
mapping by the active run and the lock (`Heading`, `Begun`): a run heads its line
from the moment it is active, in whichever thread or queue it is, until a worker takes
its workspace. So Enqueue accepts, AcquireLock begins, ReleaseLock ends, RemoveWaiting
withdraws, CancelActive stops, JobAborts stalls, and OnTaskFinished is a stutter: the first of those who wait becomes the
head of the same line. That last step needs QueueInv, as `_pop_next_unlocked` would
otherwise pass over runs it finds cancelled.

TaskRunProofs: `RunInductive`, `RunTypeCorrect`, `NoAgentOutlives`,
`SentIsHeard`, `CancelPreventsSuccess`. `RunInv` adds that an answered POST was
heard and that as long as there are attempts nobody has said, stored or is about
to say "success" (SuccessIsLast). A cancel in time thereby makes the run `Doomed`:
the flag is up and no success is said or on its way. No step ends that, which gives
`CancelInTime`, a temporal property. This holds with the watchdog and with
callbacks that raise, as does `LostOnlyIfCancelled`: `Uncancelled` says what a worker
of a run nobody cancelled has done at each place, so that the second exception has
nowhere to come from.

`ToldOneOutcome`, `SkippedUnheard` and `EndsSaid` have one more assumption,
`Undisturbed`: no watchdog, and callbacks that fail as requests do. Without it they
are false, as the watchdog is a third sender. `StoryInductive` proves `OneStory` with
it: who may be reporting (OnlyTwoReport), that nothing is heard before the worker has
decided (Untold), that what is stored, said and on its way agree (Told), that the
record shows what was decided (DecidedIsShown) and where the callback's status
stands (CallbackShown).

`ImplementsContract`: with the same assumption TaskRun implements RunContract.
`NextContract` has a step per action and names what each is to the contract: a step
of it or a stutter. Starting to send decides, a POST that arrives tells, marking the
callback marks, and leaves when a callback of the finally block was the last thing to
do. The steps need RunInv, `Uncancelled` (`UncancelledInductive`: a worker that gives
up found a cancel), OneStory, and `ResultFits`: what is published was a success, a
run that comes to an end without a callback was none, and a worker that skipped the
callback works on nothing any more. So the last result and the outcome agree when it
is decided. `ContractSuffices` shows that the contract is no weaker than what it
stands for: from RunContract alone, one outcome is told and shown, and a callback is
skipped only in silence.

AgentStreamProofs: `StreamInductive`, `StreamTypeCorrect`, `AgentGone`, `OutputWhole`,
`LatePings`, for pipes of any capacity and any output. The invariant counts every line
in one place (LinesConserved), and knows that a reader that is done has seen
the end of the pipe and that one that was waited for has nothing left to read
(DoneIsDrained, JoinedIsDrained).

`StreamFollowsTaskRun`, for one start of an agent with any exit code: `NextRun` has a
step per action, as above. `set_process` is RegisterAgent, `unset_process` StopAgent or
AgentGone, the exit AgentExits, the flag of a cancel Cancel and the end of its wait
MarkCancelled; the threads, the pipes and the other waits stutter, for which it matters
that they are out of TaskRun's sight (OutOfSight, ThreadsMove). The steps need of
StreamInv that a worker leaves its loop only when the agent has ended or declined
(EndedOrDeclined), and that outside `stubborn` a kill has no survivors (KillIsSure).

GitPublishProofs: `GitInductive`, `GitTypeCorrect`, `SuccessPublishes`,
`PushesByKind`, `NoChangeLost`, `AgentSees`. `GitInv` adds what is known of the
repository (the checked-out commit is within the tree, no branches without a clone, a
clone starts from an empty directory)
and of the attempt (the branch it stashes for is on the remote, the stash leaves the
tree clean, a changed tree is dirty until it is committed, what is being
pushed is the whole tree and on the branch of its kind). `NoChangeLost` has a step per
git command: what leaves the tree in `SetAside` is in the directory beside it, what
leaves it in `Stash` is in the stash or the checked-out commit, and a checkout takes
uncommitted changes along.

`ImplementsPublishContract`, with the mapping above. `NextContract` names what each
command is to the contract: setting aside, cloning, stashing, checking out and pulling
synchronise, a push publishes, whether it was answered or not, a fetch, a refused
checkout and a commit stutter. That
a pushed tree contains what is on the branch is the push's own check, that it is all
of the workspace is GitInv; that a checkout cannot bring anything unknown needs
TrackingIsOld, which is proved with it. `PublishContractSuffices`: whatever keeps the
contract has published what it reported as a success, pushes over nobody's commit
(NothingOverwritten) and loses nothing (NothingLost).

DashboardFeedProofs: `FeedInductive`, `FeedTypeCorrect`, `NobodyMisses`, for any
runs, threads, connections and history. NothingMissed says that the latest state of a
run was sent to a client or is coming in one of four ways; each step that takes it out
of one puts it into another. It needs that nothing on its way is newer than the record
(so that what was sent last cannot hide a later state), that one snapshot is read at a
time, and that a broadcast drops only clients that are broken, so that a connected
client is in the copy of every broadcast.

`QuietInductive` and `QuietRight` are about what a client shows. QuietIsRight speaks
of a run with nothing on its way, and is true because of the order in which things got
there; `QuietInv` describes that order. Whatever is said is of a run that exists
(OnlyKnown), and a snapshot that is read covers the history (SnapCovers). For a run
that was not raced, moreover, two broadcasts about it are never in progress together
(OneCast); a client that has not heard of it yet gets its first log line, which makes
it known, before an event that would pass it over (MadeKnown); unless a thread is about
to emit something of it, the last callback that tells of it tells its latest state,
those that still hop being broadcast after those that do not (LastIsLatest); and when
none does, that state is being sent or is shown (ThenShown).

DashboardClientProofs: `ClientInductive`, `ClientTypeCorrect`, `AlwaysReconnects`,
`ChainsBounded`, `BadgeTrue`, `ConnectedRight`, for any number of log-ins, changes and
requests. The lemmas are about a page's functions (what connectWs, setWsStatus and the
timers do to the number of chains), each used by the handlers that call them.

Every safety invariant and action property of the passing runs is proved.
Only model-checked: all liveness
(ImplementsFairFifo, EveryRunLeaves, RunEnds, CancelFreesWorker, CanFinish,
WorkerFreed, CancelEnds, Converges, StaysLive): fairness and ENABLED are
beyond the prover. There are no RECURSIVE definitions.

## Noticed, without a run of its own

- More than one final callback: `retry_callback` posts while the worker does, and n8n
  gets both (AVVIO_RAPIDO.md:207 promises one).
- `mark_running` after a cancel writes over the cancelled status
  (dashboard_store.py:343).
- A cancelled run whose attempt returns early is reported as an error by the finally
  block, after its callback was skipped.
- The watchdog's finish does not stop the worker: its retry check looks for
  "Watchdog:" in the attempt's stderr, where the watchdog has not written
  (task_watchdog.py:126, agent_runner.py:332). `run_hard_cap` shows the end of it.
- `run_agent_job` "always finishes with callback or skip" (task_jobs.py:42),
  except when a callback raises something else than a RequestException for a run
  that was cancelled meanwhile, or twice (task_jobs.py:57).
- An exception from the callback of `_ensure_task_not_stuck` (task_jobs.py:38) skips
  `on_task_finished`, and the project's queue stays blocked, although the queue "Starts
  the next task automatically" (project_queue.py:30). `ActiveIsInFlight` and
  `LostWasCancelled` say that this takes a cancelled run; `ImplementsFairFifo` and
  `EveryRunLeaves` are false without the exception they make for a stalled project.
- Outside Windows the signal goes to the process group, which is the bridge's own, and
  the agent may survive it; a retry would then work beside it (platform_utils.py:246).
- A TimeoutExpired after the kill escapes from `_stream_process` and is reported as a
  failure of the agent instead of the limit.
- A progress ping may begin after the heartbeat was stopped, and so arrive after the
  final callback (`OneLatePing`).
- The kind is inferred before checkout and pull and not again (github_publisher.py:459),
  so an agent may work on the branch of the other kind; its publish then refuses.
- An agent that adds a `package.json` to a static project makes the next attempt carry
  what was done on staging to main (github_publisher.py:320).
- A failed attempt publishes nothing (agent_runner.py:169), though
  `_finalize_with_publish` says "Always attempt GitHub publish" (agent_runner.py:350).
- The watchdog counts the time in the queue (dashboard_store.py, `wall_started_at`
  of create_task) and sees only the runs of the bounded history.
- The offline poll waits 45 s and every failed reconnect, each 3 s, starts the wait
  anew, so that a page that is offline practically never polls (app.js).
- After a log-out the page keeps reconnecting without a key; after the next log-in the
  timer left over closes the live socket, and so on every 3 s: two chains. BadgeHonest
  and StaysLive are therefore about one log-in.
- A late refusal of an old poll logs out a user who has just logged in; a late answer
  writes an older state over a newer one (`overwritten`).

## Not modelled

Process groups (that the bridge's own group gets the signal); the texts the failure
classification searches; log lines, timestamps, statistics, prompts, summaries;
reading the environment; rendering, filters and the ping of the page; access control,
logging, set-up scripts, which keep no state of the bridge. The shutdown of the
executor ends the process, and nothing but the workspace outlives it.

What joins ProjectQueue to TaskRun is stated and not composed: each has its own
abstraction of the other's part of `run_agent_job`. The watchdog is in TaskRun alone,
which has one run: that it writes a status of a run the queue holds is not in
ProjectQueue.

## Plan

Done, in this order: ProjectFifo and ProjectQueue; TaskRun; GitPublish; their
inductive invariants; DashboardFeed, AgentStream and DashboardClient with theirs;
OneOutcome, SkippedIsSilent and AllSaid for a run without a watchdog; what the queue
shows, and its refinement of ProjectFifo; RunContract and its implementation by
TaskRun; that a run whose events did not race is shown as it is; PublishContract and
its implementation by GitPublish; that AgentStream's steps are TaskRun's. What is left:

1. The watchdog with a bounded history and with the time a run waits: which overdue
   runs a sweep misses or ends too early.
2. The queue with the watchdog's writes, and with the executor's shutdown.
3. Process groups: what the signal to the bridge's own group does.
4. The log lines of DashboardFeed, with their buffer and their trimming.
