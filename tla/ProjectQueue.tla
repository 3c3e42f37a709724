---------------------------- MODULE ProjectQueue ----------------------------
(***************************************************************************)
(* The threads that serialise agent runs per project:                      *)
(*   - Loop, the asyncio event-loop thread, where every HTTP handler runs  *)
(*     from start to end (none of them awaits): execute_agent and          *)
(*     retry_task accept a run and enqueue it, cancel_task cancels one;    *)
(*   - Workers, the threads of the agent executor: run_agent_by_run_id     *)
(*     takes the workspace lock of the project, runs the attempts, and     *)
(*     hands the project to its next run in on_task_finished.              *)
(* They share ProjectQueueManager (_active and _waiting under _lock), the  *)
(* executor's FIFO, the workspace locks and the records of the registry.   *)
(* A section of the queue's lock is one step.  The registry updates it     *)
(* decides on are applied after the lock is released, one by one, and so   *)
(* are steps of their own: todo[t] holds those thread t has yet to apply.  *)
(* The agent itself is TaskRun's subject; here an attempt ends either way, *)
(* and a registry method that checks the status before it writes it, which *)
(* the queue never reads meanwhile, is one step.                           *)
(***************************************************************************)
EXTENDS Naturals, Sequences, FiniteSets, SequencesExt

CONSTANTS Runs,         \* identifiers of runs (run_id)
          Projects,     \* identifiers of projects (project_id)
          ProjectOf,    \* the project of a run's payload
          Workers,      \* threads of the agent executor
          Loop,         \* the event-loop thread
          NoRun,        \* Python's None where a run_id is expected
          MaxAttempts   \* AGENT_MAX_ATTEMPTS

ASSUME ProjectOfType == ProjectOf \in [Runs -> Projects]
ASSUME LoopIsNoWorker == Loop \notin Workers
ASSUME NoRunIsNoRun == NoRun \notin Runs
ASSUME MaxAttemptsType == MaxAttempts \in Nat \ {0}

Threads == Workers \cup {Loop}

TaskStatus == {"queue_waiting", "queued", "running", "retrying",
               "success", "error", "cancelled"}
Terminal == {"success", "error", "cancelled"}
Unfinished == {"queued", "running", "retrying"}

NoPlace == <<0, 0>>     \* queue_position and queue_total are both None
Keep == "keep"          \* an update that leaves the status alone
Update == [run : Runs, status : TaskStatus \cup {Keep}, place : Nat \X Nat]

VARIABLES
  status,     \* record.status; "none" before the record exists
  cancelReq,  \* record.cancel_requested
  place,      \* <<record.queue_position, record.queue_total>>
  active,     \* ProjectQueueManager._active
  waiting,    \* ProjectQueueManager._waiting
  locked,     \* workspace_lock: is the project's lock taken
  pool,       \* runs submitted to the executor, no thread has them yet
  pc,         \* what each thread does next
  job,        \* the run a worker executes
  attempt,    \* its attempt in CursorAgentRunner.run
  target,     \* the run cancel_task is about
  todo,       \* pending_updates, decided and not applied yet
  sched,      \* schedule_run_id, to submit once todo is applied
  racy        \* history: when the project's queue last changed, had another
              \* thread updates of the project still to apply

queueVars == <<active, waiting, racy>>
vars == <<status, cancelReq, place, active, waiting, locked, pool, pc, job,
          attempt, target, todo, sched, racy>>

LoopPC == {"idle", "updating", "cancelWaiting", "cancelMark"}
\* The worker holds the workspace lock of its project.
Holding == {"attempt", "execute", "start", "executing", "succeeding", "failing",
            "succeeded", "failed", "release"}
WorkerPC == {"idle", "acquire", "busy", "released", "finish", "updating"}
              \cup Holding

\* Type invariant: records, queue, executor and the threads' locals.
TypeOK ==
  /\ status \in [Runs -> TaskStatus \cup {"none"}]
  /\ cancelReq \in [Runs -> BOOLEAN]
  /\ place \in [Runs -> Nat \X Nat]
  /\ active \in [Projects -> Runs \cup {NoRun}]
  /\ waiting \in [Projects -> Seq(Runs)]
  /\ locked \in [Projects -> BOOLEAN]
  /\ pool \in Seq(Runs)
  /\ pc \in [Threads -> LoopPC \cup WorkerPC]
  /\ pc[Loop] \in LoopPC
  /\ \A w \in Workers : pc[w] \in WorkerPC
  /\ job \in [Workers -> Runs \cup {NoRun}]
  /\ attempt \in [Workers -> 1..MaxAttempts]
  /\ target \in Runs \cup {NoRun}
  /\ todo \in [Threads -> Seq(Update)]
  /\ sched \in [Threads -> Runs \cup {NoRun}]
  /\ racy \in [Projects -> BOOLEAN]

Init ==
  /\ status = [r \in Runs |-> "none"]
  /\ cancelReq = [r \in Runs |-> FALSE]
  /\ place = [r \in Runs |-> NoPlace]
  /\ active = [p \in Projects |-> NoRun]
  /\ waiting = [p \in Projects |-> <<>>]
  /\ locked = [p \in Projects |-> FALSE]
  /\ pool = <<>>
  /\ pc = [t \in Threads |-> "idle"]
  /\ job = [w \in Workers |-> NoRun]
  /\ attempt = [w \in Workers |-> 1]
  /\ target = NoRun
  /\ todo = [t \in Threads |-> <<>>]
  /\ sched = [t \in Threads |-> NoRun]
  /\ racy = [p \in Projects |-> FALSE]

-----------------------------------------------------------------------------
(* The queue's helpers, called with its lock held.                         *)

\* The project's line as clients see it: its active run, then those waiting.
Line(a, q) == (IF a = NoRun THEN <<>> ELSE <<a>>) \o q

\* Mutant of Renumbered: the active run is left out of the positions.
RenumberedFromOne(a, q) ==
  [i \in 1..Len(q) |->
     [run |-> q[i], status |-> Keep, place |-> <<i, Len(Line(a, q))>>]]

\* _renumber_project_unlocked: position and total for the whole line.
Renumbered(a, q) ==
  [i \in 1..Len(Line(a, q)) |->
     [run |-> Line(a, q)[i], status |-> Keep,
      place |-> <<i, Len(Line(a, q))>>]]

\* _pop_next_unlocked drops a waiting run it finds cancelled.
Dropped(r) == status[r] = "cancelled" \/ cancelReq[r]

\* Mutant of NextIndex: the newest run first (pop for popleft).
LastIndex(q) == Len(q)

\* The position in q of the run _pop_next_unlocked picks; 0: it finds none.
NextIndex(q) == SelectInSeq(q, LAMBDA r : ~Dropped(r))

\* The updates _pop_next_unlocked returns once a is active and q waits.
Dequeued(a, q) ==
  [Renumbered(a, q) EXCEPT ![1].status = "queued"]

\* Does a thread other than t have updates of project p still to apply?
UpdatesPending(t, p) ==
  \E u \in Threads \ {t} : \E i \in DOMAIN todo[u] :
    ProjectOf[todo[u][i].run] = p

\* Thread t ends its section of the lock on p's queue.
LeaveSection(t, p, a, q, updates, next) ==
  /\ active' = [active EXCEPT ![p] = a]
  /\ waiting' = [waiting EXCEPT ![p] = q]
  /\ todo' = [todo EXCEPT ![t] = updates]
  /\ sched' = [sched EXCEPT ![t] = next]
  /\ pc' = [pc EXCEPT ![t] = "updating"]
  /\ racy' = [racy EXCEPT ![p] = UpdatesPending(t, p)]

-----------------------------------------------------------------------------
(* Steps of the event loop.                                                *)

\* Mutants of StartsAtOnce: only the waiting runs are looked at; a run always
\* waits for another to finish.
StartsIfNoneWaits(p) == waiting[p] = <<>>
NeverStarts(p) == waiting[p] # waiting[p]

\* enqueue's test for starting a run at once.
StartsAtOnce(p) == active[p] = NoRun /\ waiting[p] = <<>>

\* execute_agent or retry_task: create_task, then enqueue up to the end of
\* its lock section.  The record is out of every other thread's reach until
\* that section, and handlers do not interleave, so the two are one step.
Enqueue(r) ==
  LET p == ProjectOf[r]
      q == Append(waiting[p], r)
      n == Len(Line(active[p], q))
  IN /\ pc[Loop] = "idle"
     /\ status[r] = "none"
     /\ status' = [status EXCEPT ![r] = "queued"]
     /\ IF StartsAtOnce(p)
        THEN LeaveSection(Loop, p, r, <<>>,
               <<[run |-> r, status |-> "queued", place |-> <<1, 1>>]>>, r)
        ELSE LeaveSection(Loop, p, active[p], q,
               <<[run |-> r, status |-> "queue_waiting", place |-> <<n, n>>]>>
                 \o Renumbered(active[p], q), NoRun)
     /\ UNCHANGED <<cancelReq, place, locked, pool, job, attempt, target>>

\* cancel of a run that shows queue_waiting: on to cancel_waiting.
CancelQueued(r) ==
  /\ pc[Loop] = "idle"
  /\ status[r] = "queue_waiting"
  /\ target' = r
  /\ pc' = [pc EXCEPT ![Loop] = "cancelWaiting"]
  /\ UNCHANGED <<status, cancelReq, place, locked, pool, job, attempt, todo,
                 sched, queueVars>>

\* cancel_waiting takes the run out of the queue, under the queue's lock; its
\* own update comes last.
RemoveWaiting ==
  LET r == target
      p == ProjectOf[r]
      q == RemoveFirst(waiting[p], r)
  IN /\ pc[Loop] = "cancelWaiting"
     /\ status[r] = "queue_waiting"
     /\ Contains(waiting[p], r)
     /\ target' = NoRun
     /\ LeaveSection(Loop, p, active[p], q,
          Append(Renumbered(active[p], q),
                 [run |-> r, status |-> "cancelled", place |-> NoPlace]),
          NoRun)
     /\ UNCHANGED <<status, cancelReq, place, locked, pool, job, attempt>>

\* cancel_waiting finds that the run has left the queue: HTTP 400.
RefuseCancel ==
  /\ pc[Loop] = "cancelWaiting"
  /\ \/ status[target] # "queue_waiting"
     \/ ~Contains(waiting[ProjectOf[target]], target)
  /\ target' = NoRun
  /\ pc' = [pc EXCEPT ![Loop] = "idle"]
  /\ UNCHANGED <<status, cancelReq, place, locked, pool, job, attempt, todo,
                 sched, queueVars>>

\* Mutant of CancelActive: runs that wait are cancelled like any other.
CancelAny(r) ==
  /\ pc[Loop] = "idle"
  /\ status[r] \in Unfinished \cup {"queue_waiting"}
  /\ cancelReq' = [cancelReq EXCEPT ![r] = TRUE]
  /\ target' = r
  /\ pc' = [pc EXCEPT ![Loop] = "cancelMark"]
  /\ UNCHANGED <<status, place, locked, pool, job, attempt, todo, sched,
                 queueVars>>

\* cancel of any other unfinished run: raise the flag, then kill the process.
CancelActive(r) ==
  /\ pc[Loop] = "idle"
  /\ status[r] \in Unfinished
  /\ cancelReq' = [cancelReq EXCEPT ![r] = TRUE]
  /\ target' = r
  /\ pc' = [pc EXCEPT ![Loop] = "cancelMark"]
  /\ UNCHANGED <<status, place, locked, pool, job, attempt, todo, sched,
                 queueVars>>

\* ... and, the process gone, mark it cancelled whatever it shows by now.
MarkCancelled ==
  /\ pc[Loop] = "cancelMark"
  /\ status' = [status EXCEPT ![target] = "cancelled"]
  /\ target' = NoRun
  /\ pc' = [pc EXCEPT ![Loop] = "idle"]
  /\ UNCHANGED <<cancelReq, place, locked, pool, job, attempt, todo, sched,
                 queueVars>>

-----------------------------------------------------------------------------
(* What follows a lock section, in either kind of thread.                  *)

\* registry.update_task for the next pending update.
ApplyUpdate(t) ==
  LET u == Head(todo[t])
  IN /\ pc[t] = "updating"
     /\ todo[t] # <<>>
     /\ status' = [status EXCEPT
                     ![u.run] = IF u.status = Keep THEN @ ELSE u.status]
     /\ place' = [place EXCEPT ![u.run] = u.place]
     /\ todo' = [todo EXCEPT ![t] = Tail(@)]
     /\ UNCHANGED <<cancelReq, locked, pool, pc, job, attempt, target, sched,
                    queueVars>>

\* _schedule_run: the run joins the executor's queue.
Submit(t) ==
  /\ pc[t] = "updating"
  /\ todo[t] = <<>>
  /\ sched[t] # NoRun
  /\ pool' = Append(pool, sched[t])
  /\ sched' = [sched EXCEPT ![t] = NoRun]
  /\ UNCHANGED <<status, cancelReq, place, locked, pc, job, attempt, target,
                 todo, queueVars>>

\* Mutant of Return: an error in an update skips the submission.
ReturnUnscheduled(t) ==
  /\ pc[t] = "updating"
  /\ todo[t] = <<>>
  /\ pc' = [pc EXCEPT ![t] = "idle"]
  /\ UNCHANGED <<status, cancelReq, place, locked, pool, job, attempt, target,
                 todo, sched, queueVars>>

\* The handler, or on_task_finished, returns.
Return(t) ==
  /\ pc[t] = "updating"
  /\ todo[t] = <<>>
  /\ sched[t] = NoRun
  /\ pc' = [pc EXCEPT ![t] = "idle"]
  /\ UNCHANGED <<status, cancelReq, place, locked, pool, job, attempt, target,
                 todo, sched, queueVars>>

-----------------------------------------------------------------------------
(* Steps of a worker.                                                      *)

Goto(w, label) == pc' = [pc EXCEPT ![w] = label]

\* The executor gives a thread the oldest submitted run.
TakeJob(w) ==
  /\ pc[w] = "idle"
  /\ pool # <<>>
  /\ job' = [job EXCEPT ![w] = Head(pool)]
  /\ pool' = Tail(pool)
  /\ attempt' = [attempt EXCEPT ![w] = 1]
  /\ Goto(w, "acquire")
  /\ UNCHANGED <<status, cancelReq, place, locked, target, todo, sched,
                 queueVars>>

\* try_acquire_project never blocks; a lock already taken is the branch
\* run_agent_job logs as "lock busy -- unexpected race".
AcquireLock(w) ==
  LET p == ProjectOf[job[w]]
  IN /\ pc[w] = "acquire"
     /\ locked' = [locked EXCEPT ![p] = TRUE]
     /\ Goto(w, IF locked[p] THEN "busy" ELSE "attempt")
     /\ UNCHANGED <<status, cancelReq, place, pool, job, attempt, target,
                    todo, sched, queueVars>>

\* Top of the attempt loop with the cancel flag up: stop.
StopCancelled(w) ==
  /\ pc[w] = "attempt"
  /\ cancelReq[job[w]]
  /\ status' = [status EXCEPT
                  ![job[w]] = IF @ \in Terminal THEN @ ELSE "cancelled"]
  /\ Goto(w, "release")
  /\ UNCHANGED <<cancelReq, place, locked, pool, job, attempt, target, todo,
                 sched, queueVars>>

\* ... with the flag down: on to the attempt.
StartAttempt(w) ==
  /\ pc[w] = "attempt"
  /\ ~cancelReq[job[w]]
  /\ Goto(w, "execute")
  /\ UNCHANGED <<status, cancelReq, place, locked, pool, job, attempt, target,
                 todo, sched, queueVars>>

\* The last of several attempts is announced and waited for (mark_retrying);
\* then _execute_once reads the flag again, and a cancelled run returns with
\* whatever status it shows.
ExecuteOnce(w) ==
  /\ pc[w] = "execute"
  /\ status' = [status EXCEPT
                  ![job[w]] = IF attempt[w] = MaxAttempts /\ MaxAttempts > 1
                              THEN "retrying" ELSE @]
  /\ Goto(w, IF cancelReq[job[w]] THEN "release" ELSE "start")
  /\ UNCHANGED <<cancelReq, place, locked, pool, job, attempt, target, todo,
                 sched, queueVars>>

\* mark_running, whatever happened since the flag was read.
MarkRunning(w) ==
  /\ pc[w] = "start"
  /\ status' = [status EXCEPT ![job[w]] = "running"]
  /\ Goto(w, "executing")
  /\ UNCHANGED <<cancelReq, place, locked, pool, job, attempt, target, todo,
                 sched, queueVars>>

\* The workspace could not be prepared, or the agent exits with code 0 or
\* another; the cancel flag, read here, makes a failure of any exit.
AgentExits(w, zero) ==
  /\ pc[w] = "executing"
  /\ Goto(w, IF zero /\ ~cancelReq[job[w]] THEN "succeeding" ELSE "failing")
  /\ UNCHANGED <<status, cancelReq, place, locked, pool, job, attempt, target,
                 todo, sched, queueVars>>

\* Publish (which can turn a success into a failure), then mark_finished
\* reports the attempt, unless cancelled shows.
FinishAttempt(w, ok) ==
  /\ pc[w] \in {"succeeding", "failing"}
  /\ ok => pc[w] = "succeeding"
  /\ status' = [status EXCEPT
                  ![job[w]] = IF @ = "cancelled" THEN @
                              ELSE IF ok THEN "success" ELSE "error"]
  /\ Goto(w, IF ok THEN "succeeded" ELSE "failed")
  /\ UNCHANGED <<cancelReq, place, locked, pool, job, attempt, target, todo,
                 sched, queueVars>>

\* A failed attempt that is not the last and not for good is tried again.
RetryAttempt(w) ==
  /\ pc[w] = "failed"
  /\ ~cancelReq[job[w]]
  /\ attempt[w] < MaxAttempts
  /\ status' = [status EXCEPT ![job[w]] = "retrying"]
  /\ attempt' = [attempt EXCEPT ![w] = @ + 1]
  /\ Goto(w, "attempt")
  /\ UNCHANGED <<cancelReq, place, locked, pool, job, target, todo, sched,
                 queueVars>>

\* run returns: after a success, a cancelled or non-retryable failure, or the
\* last attempt.  Its callback to n8n is TaskRun's.
RunReturns(w) ==
  /\ pc[w] \in {"succeeded", "failed"}
  /\ Goto(w, "release")
  /\ UNCHANGED <<status, cancelReq, place, locked, pool, job, attempt, target,
                 todo, sched, queueVars>>

\* run raises (a callback that fails otherwise than by a RequestException, an
\* error in an error handler): report it, unless cancelled.
RunRaises(w) ==
  /\ pc[w] \in {"executing", "succeeding", "failing", "succeeded", "failed"}
  /\ status' = [status EXCEPT
                  ![job[w]] = IF cancelReq[job[w]] \/ @ = "cancelled" THEN @
                              ELSE "error"]
  /\ Goto(w, "release")
  /\ UNCHANGED <<cancelReq, place, locked, pool, job, attempt, target, todo,
                 sched, queueVars>>

\* Mutant of ReleaseLock: a run without a final status keeps the lock.
ReleaseIfFinal(w) ==
  /\ pc[w] = "release"
  /\ locked' = [locked EXCEPT
                  ![ProjectOf[job[w]]] = status[job[w]] \notin Terminal]
  /\ Goto(w, "released")
  /\ UNCHANGED <<status, cancelReq, place, pool, job, attempt, target, todo,
                 sched, queueVars>>

\* release_project.
ReleaseLock(w) ==
  /\ pc[w] = "release"
  /\ locked' = [locked EXCEPT ![ProjectOf[job[w]]] = FALSE]
  /\ Goto(w, "released")
  /\ UNCHANGED <<status, cancelReq, place, pool, job, attempt, target, todo,
                 sched, queueVars>>

\* _ensure_task_not_stuck, also all that run_agent_job does on a busy lock.
EnsureNotStuck(w) ==
  /\ pc[w] \in {"busy", "released"}
  /\ status' = [status EXCEPT
                  ![job[w]] = IF @ \in Unfinished THEN "error" ELSE @]
  /\ Goto(w, "finish")
  /\ UNCHANGED <<cancelReq, place, locked, pool, job, attempt, target, todo,
                 sched, queueVars>>

\* The callback of _ensure_task_not_stuck raises, and the finally of
\* run_agent_job is left before on_task_finished: the project keeps its active
\* run, which no thread has any more.  On a busy lock the exception is caught.
JobAborts(w) ==
  /\ pc[w] = "released"
  /\ status[job[w]] \in Unfinished
  /\ status' = [status EXCEPT ![job[w]] = "error"]
  /\ job' = [job EXCEPT ![w] = NoRun]
  /\ Goto(w, "idle")
  /\ UNCHANGED <<cancelReq, place, locked, pool, attempt, target, todo, sched,
                 queueVars>>

\* on_task_finished up to the end of its lock section: the run leaves the
\* queue and, if that left the project idle, the next one becomes active.
OnTaskFinished(w) ==
  LET r == job[w]
      p == ProjectOf[r]
      a == IF active[p] = r THEN NoRun ELSE active[p]
      q == IF active[p] = r THEN waiting[p] ELSE RemoveFirst(waiting[p], r)
      i == NextIndex(q)
      rest == SubSeq(q, i + 1, Len(q))
  IN /\ pc[w] = "finish"
     /\ job' = [job EXCEPT ![w] = NoRun]
     /\ IF a # NoRun
        THEN LeaveSection(w, p, a, q, <<>>, NoRun)
        ELSE IF i = 0
        THEN LeaveSection(w, p, NoRun, <<>>, <<>>, NoRun)
        ELSE LeaveSection(w, p, q[i], rest, Dequeued(q[i], rest), q[i])
     /\ UNCHANGED <<status, cancelReq, place, locked, pool, attempt, target>>

-----------------------------------------------------------------------------
LoopStep ==
  \/ \E r \in Runs : Enqueue(r) \/ CancelQueued(r) \/ CancelActive(r)
  \/ RemoveWaiting \/ RefuseCancel \/ MarkCancelled
  \/ ApplyUpdate(Loop) \/ Submit(Loop) \/ Return(Loop)

WorkerStep(w) ==
  \/ TakeJob(w) \/ AcquireLock(w)
  \/ StopCancelled(w) \/ StartAttempt(w) \/ ExecuteOnce(w) \/ MarkRunning(w)
  \/ \E ok \in BOOLEAN : AgentExits(w, ok) \/ FinishAttempt(w, ok)
  \/ RetryAttempt(w) \/ RunReturns(w) \/ RunRaises(w)
  \/ ReleaseLock(w) \/ EnsureNotStuck(w) \/ JobAborts(w) \/ OnTaskFinished(w)
  \/ ApplyUpdate(w) \/ Submit(w) \/ Return(w)

Next == LoopStep \/ \E w \in Workers : WorkerStep(w)

Spec == Init /\ [][Next]_vars

\* The event loop finishes the handler it is in: no handler waits for ever.
HandlerStep ==
  \/ RemoveWaiting \/ RefuseCancel \/ MarkCancelled
  \/ ApplyUpdate(Loop) \/ Submit(Loop) \/ Return(Loop)

\* Threads are scheduled, and an attempt ends: the agent exits or one of the
\* limits of _stream_process is set and stops it.
FairSpec ==
  /\ Spec
  /\ WF_vars(HandlerStep)
  /\ \A w \in Workers : WF_vars(WorkerStep(w))

-----------------------------------------------------------------------------
(* Safety.                                                                 *)

\* A run some thread is about to submit, has submitted, or executes.
InFlight(r) ==
  \/ \E t \in Threads : sched[t] = r
  \/ \E i \in DOMAIN pool : pool[i] = r
  \/ \E w \in Workers : job[w] = r

\* The active run of p is one that no thread runs: nothing will start another.
Stalled(p) == active[p] # NoRun /\ ~InFlight(active[p])

\* "One agent run at a time per project_id" (project_queue.py:1): a run in
\* flight is its project's active one, so that no project has two of them,
\* between any threads, and a project is stalled by a cancelled run only.
ActiveIsInFlight ==
  /\ \A r \in Runs : InFlight(r) => active[ProjectOf[r]] = r
  /\ \A p \in Projects : Stalled(p) => cancelReq[active[p]]

\* The branch of run_agent_job for a busy lock is the race the queue excludes:
\* a worker that comes for the workspace finds it free, although the queue
\* hands the project over without looking at the lock.
LockNeverBusy ==
  \A w \in Workers : pc[w] = "acquire" => ~locked[ProjectOf[job[w]]]

\* "Starts the next task automatically" (project_queue.py:30): runs never wait
\* behind a project with no active run, where nothing would start them.  What
\* is left of the claim is ActiveIsInFlight's: the active run may be one that a
\* cancel and a raising callback have left there.
NoStrandedWaiters ==
  \A p \in Projects : active[p] = NoRun => waiting[p] = <<>>

\* cancel chooses what to do from the status alone.  Between two handlers every
\* run that waits shows queue_waiting and was not asked to stop, so cancel
\* takes it out of the queue, and _pop_next_unlocked skips nothing.
WaitingShowsWaiting ==
  pc[Loop] = "idle" =>
    \A p \in Projects : \A r \in ToSet(waiting[p]) :
      status[r] = "queue_waiting" /\ ~cancelReq[r]

\* Updates are applied outside the lock, so two threads can apply theirs in
\* the wrong order.  When they did not overlap and all are applied, the line
\* shows positions 1..n of n, in order, and the active run shows 1.
NumbersRight ==
  \A p \in Projects :
    LET l == Line(active[p], waiting[p])
    IN (\A t \in Threads : ~\E i \in DOMAIN todo[t] :
          ProjectOf[todo[t][i].run] = p) /\ ~racy[p]
       => \A i \in DOMAIN l : place[l[i]] = <<i, Len(l)>>

\* The route answers a refused cancel with "Task cannot be cancelled (not found
\* or already finished)" (dashboard_routes.py:99).  The code refuses also a
\* run that left the queue and has not even started.
RefusedOnlyIfFinished ==
  [][RefuseCancel => status[target] \in Terminal]_vars

\* "If worker exits while task is still active, force error" (task_jobs.py:15):
\* a worker that leaves its run leaves it a final status.  An update of enqueue
\* applied late turns it back to queue_waiting, which the check passes over.
LeavesFinalStatus ==
  [][\A w \in Workers : OnTaskFinished(w) => status[job[w]] \in Terminal]_vars

-----------------------------------------------------------------------------
(* The inductive invariant behind ActiveIsInFlight, LockNeverBusy and       *)
(* NoStrandedWaiters.                                                       *)

\* A thread's program counter tells which of its locals are set.
LocalsSet ==
  /\ \A t \in Threads : sched[t] # NoRun => pc[t] = "updating"
  /\ \A w \in Workers : job[w] # NoRun <=> pc[w] \notin {"idle", "updating"}
  /\ pc[Loop] \in {"cancelWaiting", "cancelMark"} => target # NoRun

\* A run in flight is its project's active run ...
HoldersActive ==
  /\ \A t \in Threads : sched[t] # NoRun => active[ProjectOf[sched[t]]] = sched[t]
  /\ \A i \in 1..Len(pool) : active[ProjectOf[pool[i]]] = pool[i]
  /\ \A w \in Workers : job[w] # NoRun => active[ProjectOf[job[w]]] = job[w]

\* ... in one place only ...
HeldOnce ==
  /\ \A t, u \in Threads : sched[t] = sched[u] /\ sched[t] # NoRun => t = u
  /\ \A i, j \in 1..Len(pool) : pool[i] = pool[j] => i = j
  /\ \A v, w \in Workers : job[v] = job[w] /\ job[v] # NoRun => v = w
  /\ \A t \in Threads, i \in 1..Len(pool) : sched[t] # pool[i]
  /\ \A t \in Threads, w \in Workers : sched[t] = job[w] => job[w] = NoRun
  /\ \A w \in Workers, i \in 1..Len(pool) : job[w] # pool[i]

\* ... and the active run of a project is in flight, or it was cancelled.
ActiveRuns ==
  \A p \in Projects : active[p] # NoRun =>
    /\ ProjectOf[active[p]] = p
    /\ status[active[p]] # "none"
    /\ InFlight(active[p]) \/ cancelReq[active[p]]

\* run leaves a run finished, or turned to queue_waiting by a late update,
\* unless it was cancelled ...
RunsEndFinal ==
  \A w \in Workers :
    /\ pc[w] \in {"succeeded", "failed", "release", "released"}
    /\ status[job[w]] \in Unfinished
    => cancelReq[job[w]]

\* ... and the only updates that undo that are about runs to be submitted next.
UpdatesNext ==
  \A t \in Threads : \A k \in 1..Len(todo[t]) :
    todo[t][k].status \in Unfinished => sched[t] = todo[t][k].run

\* A lock is taken exactly while a worker of the project holds it.
LocksHeld ==
  \A p \in Projects :
    locked[p] <=> \E w \in Workers : pc[w] \in Holding /\ ProjectOf[job[w]] = p

\* The runs that wait are the project's own, accepted, distinct and not active.
WaitingOf(p) ==
  /\ \A i \in 1..Len(waiting[p]) :
       /\ ProjectOf[waiting[p][i]] = p
       /\ status[waiting[p][i]] # "none"
       /\ waiting[p][i] # active[p]
  /\ \A i, j \in 1..Len(waiting[p]) : waiting[p][i] = waiting[p][j] => i = j

WaitingRuns == \A p \in Projects : WaitingOf(p)

\* The inductive invariant.  It also says that no run is in two hands at once,
\* that the workspace locks follow the workers, which no step can ignore, and
\* that a run which ends without a final status was cancelled.
IInv ==
  /\ TypeOK
  /\ LocalsSet
  /\ HoldersActive
  /\ HeldOnce
  /\ ActiveRuns
  /\ RunsEndFinal
  /\ UpdatesNext
  /\ LocksHeld
  /\ WaitingRuns
  /\ NoStrandedWaiters

-----------------------------------------------------------------------------
(* What WaitingShowsWaiting, NumbersRight and the refinement rest on.       *)

\* Nobody was asked to stop before it was accepted or while it waits, nor is
\* about to be marked.
WaitingNotAsked ==
  /\ \A r \in Runs : status[r] = "none" =>
       /\ ~cancelReq[r]
       /\ pc[Loop] = "cancelMark" => target # r
  /\ \A p \in Projects : \A i \in 1..Len(waiting[p]) :
       /\ ~cancelReq[waiting[p][i]]
       /\ pc[Loop] = "cancelMark" => target # waiting[p][i]

\* enqueue's update, which makes run r show queue_waiting, comes next.
ShownNext(r) ==
  /\ status[r] = "queued"
  /\ pc[Loop] = "updating" /\ todo[Loop] # <<>>
  /\ todo[Loop][1].run = r /\ todo[Loop][1].status = "queue_waiting"

\* Updates are about accepted runs; a run that waits shows it or will with the
\* next update of the loop, and no update makes it show anything else.
WaitingShown ==
  /\ \A t \in Threads : \A k \in 1..Len(todo[t]) :
       status[todo[t][k].run] # "none"
  /\ \A p \in Projects : \A i \in 1..Len(waiting[p]) :
       /\ status[waiting[p][i]] = "queue_waiting" \/ ShownNext(waiting[p][i])
       /\ \A t \in Threads : \A k \in 1..Len(todo[t]) :
            todo[t][k].run = waiting[p][i]
              => todo[t][k].status \in {Keep, "queue_waiting"}

\* Every update still to come of run r gives it this place, and there is one
\* or r shows the place.
PlaceComing(r, at) ==
  /\ \A t \in Threads : \A k \in 1..Len(todo[t]) :
       todo[t][k].run = r => todo[t][k].place = at
  /\ \/ place[r] = at
     \/ \E t \in Threads : \E k \in 1..Len(todo[t]) : todo[t][k].run = r

\* Unless updates overlapped, the line's places are shown or to come.
NumbersComing ==
  \A p \in Projects : ~racy[p] =>
    LET l == Line(active[p], waiting[p])
    IN \A i \in 1..Len(l) : PlaceComing(l[i], <<i, Len(l)>>)

LineInv ==
  /\ \A t \in Threads : todo[t] # <<>> => pc[t] = "updating"
  /\ WaitingNotAsked
  /\ WaitingShown
  /\ NumbersComing

\* Both invariants, which together are inductive: who holds which run, and what
\* each waiting run shows and will show once every pending update is applied.
QueueInv == IInv /\ LineInv

-----------------------------------------------------------------------------
(* Refinement: ProjectQueue implements ProjectFifo.                        *)

\* The run that uses p's workspace.
WorkingOn(p) ==
  LET ws == {w \in Workers : pc[w] \in Holding /\ ProjectOf[job[w]] = p}
  IN IF ws = {} THEN NoRun ELSE job[CHOOSE w \in ws : TRUE]

\* p's active run has not taken the workspace yet.
NotBegun(p) ==
  \/ \E t \in Threads : sched[t] = active[p]
  \/ \E i \in DOMAIN pool : pool[i] = active[p]
  \/ \E w \in Workers : job[w] = active[p] /\ pc[w] = "acquire"

\* The line of each project: its active run until it begins, and those that
\* wait; the run that works; the runs seen; the run whose cancel is decided;
\* the runs asked to stop; the projects where that has stopped the line.
FifoLine ==
  [p \in Projects |->
     Line(IF active[p] # NoRun /\ NotBegun(p) THEN active[p] ELSE NoRun,
          waiting[p])]
FifoWorking == [p \in Projects |-> WorkingOn(p)]
FifoSeen == {r \in Runs : status[r] # "none"}
FifoAsked == IF pc[Loop] = "cancelWaiting" THEN target ELSE NoRun
FifoStopped == {r \in Runs : cancelReq[r]}
FifoStalled == {p \in Projects : Stalled(p)}

Fifo == INSTANCE ProjectFifo WITH
  line <- FifoLine, working <- FifoWorking, seen <- FifoSeen,
  asked <- FifoAsked, stopped <- FifoStopped, stalled <- FifoStalled

\* Runs of a project use its workspace one at a time, in the order in which
\* they were accepted, each at most once; only a cancel takes a run out of the
\* line before, and that run never uses it: whatever the threads interleave.
ImplementsFifo == Fifo!Spec

\* ... and, where attempts end, every line moves on, until a run of the project
\* that was asked to stop has stalled it.
ImplementsFairFifo == Fifo!FairSpec

-----------------------------------------------------------------------------
(* Liveness.                                                               *)

\* Every accepted run gets out of the queue and of the executor in the end,
\* however cancels, retries and the runs of other projects interleave, and
\* though the workers are fewer than the projects; or its project is stalled,
\* which only a cancelled run of the same project can do (ActiveIsInFlight).
EveryRunLeaves ==
  \A r \in Runs :
    status[r] # "none" ~>
      \/ ~InFlight(r) /\ ~Contains(waiting[ProjectOf[r]], r)
      \/ Stalled(ProjectOf[r])
=============================================================================
