------------------------------ MODULE TaskRun ------------------------------
(***************************************************************************)
(* One agent run, from the worker that takes it to the final callback n8n  *)
(* receives, and the three threads that write its record meanwhile:        *)
(*   - the worker, in run_agent_job: the attempts of CursorAgentRunner.run *)
(*     with the agent's process, _send_callback, _ensure_task_not_stuck;   *)
(*   - the event loop, in cancel_task or in retry_callback, never in both; *)
(*   - the watchdog, in sweep_once, once the run exceeds its maximum.      *)
(* Registry methods lock a field's assignment, not the decision that led   *)
(* to it: every status or flag read that another thread can invalidate     *)
(* before the write it guards is a step of its own.  ProjectQueue models   *)
(* what comes before and after, and how runs exclude one another.          *)
(***************************************************************************)
EXTENDS Naturals, Sequences, SequencesExt

CONSTANTS MaxAttempts,       \* AGENT_MAX_ATTEMPTS
          CallbackAttempts,  \* CALLBACK_MAX_ATTEMPTS
          Watched,           \* the watchdog has a limit (TASK_MAX_RUNTIME_SEC)
          Limited,           \* _stream_process has one (AGENT_TIMEOUT_SEC, or
                             \* AGENT_IDLE_TIMEOUT_SEC with plain output)
          HeardBound,        \* bound on the callbacks n8n got before another
                             \* retry_callback, for TLC only
          Faults             \* what can become of a POST, apart from an answer

ASSUME AttemptsType == MaxAttempts \in Nat \ {0}
ASSUME CallbackAttemptsType == CallbackAttempts \in Nat \ {0}
ASSUME SwitchesType == Watched \in BOOLEAN /\ Limited \in BOOLEAN

\* "lost": it fails before n8n gets it; "unanswered": n8n gets it and the
\* answer does not come back; "raises": no RequestException, but another error.
ASSUME FaultsType == Faults \subseteq {"lost", "unanswered", "raises"}

Threads == {"worker", "loop", "watchdog"}

Outcome == {"success", "error"}
TaskStatus == {"queued", "running", "retrying", "success", "error", "cancelled"}
Terminal == {"success", "error", "cancelled"}
Unfinished == {"queued", "running", "retrying"}
CallbackStatus == {"pending", "sending", "retrying", "sent", "failed", "skipped"}

VARIABLES
  status,     \* record.status
  cancelReq,  \* record.cancel_requested
  cb,         \* record.callback_status
  body,       \* the outcome in record.callback_body; "none": not set
  agent,      \* the process of the attempt: "none", "alive" or its end
  handle,     \* is record.process set
  attempt,    \* the attempt of run
  last,       \* last_result of run, or of the attempt so far
  overdue,    \* has the run exceeded the watchdog's limit
  pc,         \* what each thread does next
  phase,      \* which part of run_agent_job the worker is in
  sending,    \* the outcome each thread sends ...
  tries,      \* ... and its attempt to
  sawCancel,  \* what mark_finished read, for each thread that is in it
  heard       \* the final callbacks n8n got, in order

threadVars == <<pc, phase, sending, tries, sawCancel>>
agentVars == <<agent, handle, attempt, last>>
vars == <<status, cancelReq, cb, body, agentVars, overdue, threadVars, heard>>

SendPC == {"send", "post", "answered", "failed"}
WorkerPC == {"top", "backoff", "execute", "begin", "prepare", "launch", "popen",
             "register", "stream", "verdict", "publish", "read", "write",
             "decide", "raised", "leave", "done", "aborted"} \cup SendPC
LoopPC == {"idle", "cancelMark"} \cup SendPC
WatchdogPC == {"idle", "read", "write"} \cup SendPC

\* Before the worker looks at the cancel flag for the last time in an attempt.
BeforeVerdict == {"top", "backoff", "execute", "begin", "prepare", "launch",
                  "popen", "register", "stream", "verdict"}

\* How an attempt fails: _is_non_retryable_error tells the two apart.
Failures == {"retryable", "fatal"}

\* Type invariant.
TypeOK ==
  /\ status \in TaskStatus
  /\ cancelReq \in BOOLEAN
  /\ cb \in CallbackStatus
  /\ body \in Outcome \cup {"none"}
  /\ agent \in {"none", "alive", "zero", "nonzero"}
  /\ handle \in BOOLEAN
  /\ attempt \in 1..MaxAttempts
  /\ last \in {"none", "success"} \cup Failures
  /\ overdue \in BOOLEAN
  /\ pc \in [Threads -> WorkerPC \cup LoopPC \cup WatchdogPC]
  /\ pc["worker"] \in WorkerPC
  /\ pc["loop"] \in LoopPC
  /\ pc["watchdog"] \in WatchdogPC
  /\ phase \in {"run", "handler", "finally"}
  /\ sending \in [Threads -> Outcome]
  /\ tries \in [Threads -> 1..CallbackAttempts]
  /\ sawCancel \in [Threads -> BOOLEAN]
  /\ heard \in Seq(Outcome)

\* The executor has given the run to a worker, which holds the workspace lock.
Init ==
  /\ status = "queued"
  /\ cancelReq = FALSE
  /\ cb = "pending"
  /\ body = "none"
  /\ agent = "none"
  /\ handle = FALSE
  /\ attempt = 1
  /\ last = "none"
  /\ overdue = FALSE
  /\ pc = [t \in Threads |-> IF t = "worker" THEN "top" ELSE "idle"]
  /\ phase = "run"
  /\ sending = [t \in Threads |-> "error"]
  /\ tries = [t \in Threads |-> 1]
  /\ sawCancel = [t \in Threads |-> FALSE]
  /\ heard = <<>>

Goto(t, label) == pc' = [pc EXCEPT ![t] = label]

-----------------------------------------------------------------------------
(* Sending a callback: _send_callback, and send_callback_retry's same loop. *)

\* Where a thread goes when it has sent its callback, or given up.
AfterSend(t) ==
  IF t # "worker" THEN "idle"
  ELSE IF phase = "finally" THEN "done" ELSE "leave"

\* Where an exception from _send_callback takes it: to run_agent_job's handler,
\* from there to its finally, and from there out of it.
AfterRaise(t) ==
  IF t # "worker" THEN "idle"
  ELSE CASE phase = "run" -> "raised"
         [] phase = "handler" -> "leave"
         [] phase = "finally" -> "aborted"

\* set_callback_body, up to the first attempt.
StartSending(t, outcome) ==
  /\ body' = outcome
  /\ sending' = [sending EXCEPT ![t] = outcome]
  /\ tries' = [tries EXCEPT ![t] = 1]
  /\ Goto(t, "send")

\* mark_callback_sending.
MarkSending(t) ==
  /\ pc[t] = "send"
  /\ cb' = IF tries[t] > 1 THEN "retrying" ELSE "sending"
  /\ Goto(t, "post")
  /\ UNCHANGED <<status, cancelReq, body, agentVars, overdue, phase, sending,
                 tries, sawCancel, heard>>

\* _post_callback_once: n8n answers.
PostAnswered(t) ==
  /\ pc[t] = "post"
  /\ heard' = Append(heard, sending[t])
  /\ Goto(t, "answered")
  /\ UNCHANGED <<status, cancelReq, cb, body, agentVars, overdue, phase,
                 sending, tries, sawCancel>>

\* ... or the POST fails, whether n8n got it or not.
PostFails(t, fault) ==
  /\ pc[t] = "post"
  /\ heard' = IF fault = "unanswered" THEN Append(heard, sending[t]) ELSE heard
  /\ Goto(t, IF fault = "raises" THEN AfterRaise(t) ELSE "failed")
  /\ UNCHANGED <<status, cancelReq, cb, body, agentVars, overdue, phase,
                 sending, tries, sawCancel>>

\* Mutant of MarkSent: marked before the answer is there.
MarkSentEarly(t) ==
  /\ pc[t] \in {"post", "answered"}
  /\ cb' = "sent"
  /\ Goto(t, AfterSend(t))
  /\ UNCHANGED <<status, cancelReq, body, agentVars, overdue, phase, sending,
                 tries, sawCancel, heard>>

\* mark_callback_sent.
MarkSent(t) ==
  /\ pc[t] = "answered"
  /\ cb' = "sent"
  /\ Goto(t, AfterSend(t))
  /\ UNCHANGED <<status, cancelReq, body, agentVars, overdue, phase, sending,
                 tries, sawCancel, heard>>

\* mark_callback_failed: after the last attempt the callback has failed.
MarkFailed(t) ==
  /\ pc[t] = "failed"
  /\ IF tries[t] < CallbackAttempts
     THEN /\ cb' = "retrying"
          /\ tries' = [tries EXCEPT ![t] = @ + 1]
          /\ Goto(t, "send")
     ELSE /\ cb' = "failed"
          /\ tries' = tries
          /\ Goto(t, AfterSend(t))
  /\ UNCHANGED <<status, cancelReq, body, agentVars, overdue, phase, sending,
                 sawCancel, heard>>

Send(t) ==
  \/ MarkSending(t) \/ PostAnswered(t) \/ MarkSent(t) \/ MarkFailed(t)
  \/ \E fault \in Faults : PostFails(t, fault)

-----------------------------------------------------------------------------
(* mark_finished, for the thread that is in it.                            *)

\* It looks whether the run shows cancelled ...
ReadStatus(t) ==
  /\ pc[t] = "read"
  /\ sawCancel' = [sawCancel EXCEPT ![t] = status = "cancelled"]
  /\ Goto(t, "write")
  /\ UNCHANGED <<status, cancelReq, cb, body, agentVars, overdue, phase,
                 sending, tries, heard>>

\* ... and then leaves the status alone or writes the outcome.
Finished(t, outcome) == IF sawCancel[t] THEN status ELSE outcome

-----------------------------------------------------------------------------
(* The worker: the attempts of run.                                        *)

\* The flag is up at the top of an attempt: no callback, and stop.
StopCancelled ==
  /\ pc["worker"] = "top"
  /\ cancelReq
  /\ cb' = "skipped"
  /\ status' = IF status \in Terminal THEN status ELSE "cancelled"
  /\ Goto("worker", "leave")
  /\ UNCHANGED <<cancelReq, body, agentVars, overdue, phase, sending, tries,
                 sawCancel, heard>>

\* The flag is down: go on, before the last attempt by way of the backoff.
StartAttempt ==
  /\ pc["worker"] = "top"
  /\ ~cancelReq
  /\ Goto("worker", IF attempt = MaxAttempts /\ attempt > 1
                    THEN "backoff" ELSE "execute")
  /\ UNCHANGED <<status, cancelReq, cb, body, agentVars, overdue, phase,
                 sending, tries, sawCancel, heard>>

\* mark_retrying before the last attempt; the wait ends when the flag goes up.
BackOff ==
  /\ pc["worker"] = "backoff"
  /\ status' = "retrying"
  /\ Goto("worker", "execute")
  /\ UNCHANGED <<cancelReq, cb, body, agentVars, overdue, phase, sending, tries,
                 sawCancel, heard>>

\* _execute_once reads the flag.
ExecuteOnce ==
  /\ pc["worker"] = "execute"
  /\ IF cancelReq
     THEN last' = "fatal" /\ Goto("worker", "decide")
     ELSE last' = "none" /\ Goto("worker", "begin")
  /\ UNCHANGED <<status, cancelReq, cb, body, agent, handle, attempt, overdue,
                 phase, sending, tries, sawCancel, heard>>

\* mark_running, whatever the run shows by now.
MarkRunning ==
  /\ pc["worker"] = "begin"
  /\ status' = "running"
  /\ Goto("worker", "prepare")
  /\ UNCHANGED <<cancelReq, cb, body, agentVars, overdue, phase, sending, tries,
                 sawCancel, heard>>

\* The workspace and the agent's command are ready; or one of them fails, for
\* good or not, and there is nothing to publish.
Prepare(failure) ==
  /\ pc["worker"] = "prepare"
  /\ last' = failure
  /\ Goto("worker", IF failure = "none" THEN "launch" ELSE "read")
  /\ UNCHANGED <<status, cancelReq, cb, body, agent, handle, attempt, overdue,
                 phase, sending, tries, sawCancel, heard>>

\* _run_agent_process reads the flag.
Launch ==
  /\ pc["worker"] = "launch"
  /\ agent' = "none"
  /\ Goto("worker", IF cancelReq THEN "verdict" ELSE "popen")
  /\ UNCHANGED <<status, cancelReq, cb, body, handle, attempt, last, overdue,
                 phase, sending, tries, sawCancel, heard>>

\* Popen.
StartAgent ==
  /\ pc["worker"] = "popen"
  /\ agent' = "alive"
  /\ Goto("worker", "register")
  /\ UNCHANGED <<status, cancelReq, cb, body, handle, attempt, last, overdue,
                 phase, sending, tries, sawCancel, heard>>

\* set_process.
RegisterAgent ==
  /\ pc["worker"] = "register"
  /\ handle' = TRUE
  /\ Goto("worker", "stream")
  /\ UNCHANGED <<status, cancelReq, cb, body, agent, attempt, last, overdue,
                 phase, sending, tries, sawCancel, heard>>

\* The agent exits by itself.  It also may never do.
AgentExits(code) ==
  /\ agent = "alive"
  /\ agent' = code
  /\ UNCHANGED <<status, cancelReq, cb, body, handle, attempt, last, overdue,
                 threadVars, heard>>

\* Mutant of StopAgent: the loop is left without killing the agent.
StopWithoutKill ==
  /\ pc["worker"] = "stream"
  /\ cancelReq \/ Limited
  /\ handle' = FALSE
  /\ Goto("worker", "verdict")
  /\ UNCHANGED <<status, cancelReq, cb, body, agent, attempt, last, overdue,
                 phase, sending, tries, sawCancel, heard>>

\* Mutants of StopAgent: the loop looks at the limits only; at the flag only.
StopAtLimitOnly ==
  /\ pc["worker"] = "stream"
  /\ Limited
  /\ agent' = "nonzero"
  /\ handle' = FALSE
  /\ Goto("worker", "verdict")
  /\ UNCHANGED <<status, cancelReq, cb, body, attempt, last, overdue, phase,
                 sending, tries, sawCancel, heard>>

StopOnCancelOnly ==
  /\ pc["worker"] = "stream"
  /\ cancelReq
  /\ agent' = "nonzero"
  /\ handle' = FALSE
  /\ Goto("worker", "verdict")
  /\ UNCHANGED <<status, cancelReq, cb, body, attempt, last, overdue, phase,
                 sending, tries, sawCancel, heard>>

\* _stream_process finds the flag up or a limit exceeded: it kills the agent,
\* and the exit code is -1 even if the agent was faster.
StopAgent ==
  /\ pc["worker"] = "stream"
  /\ cancelReq \/ Limited
  /\ agent' = "nonzero"
  /\ handle' = FALSE
  /\ Goto("worker", "verdict")
  /\ UNCHANGED <<status, cancelReq, cb, body, attempt, last, overdue, phase,
                 sending, tries, sawCancel, heard>>

\* _stream_process finds the agent gone.
AgentGone ==
  /\ pc["worker"] = "stream"
  /\ agent # "alive"
  /\ handle' = FALSE
  /\ Goto("worker", "verdict")
  /\ UNCHANGED <<status, cancelReq, cb, body, agent, attempt, last, overdue,
                 phase, sending, tries, sawCancel, heard>>

\* Mutant of Verdict: the exit code alone decides.
VerdictByExitCode(failure) ==
  /\ pc["worker"] = "verdict"
  /\ IF agent # "zero"
     THEN last' = failure /\ Goto("worker", "read")
     ELSE last' = "success" /\ Goto("worker", "publish")
  /\ UNCHANGED <<status, cancelReq, cb, body, agent, handle, attempt, overdue,
                 phase, sending, tries, sawCancel, heard>>

\* With the flag up an attempt has failed, whatever the exit code.  What the
\* agent wrote tells whether a failure is for good (_is_non_retryable_error).
Verdict(failure) ==
  /\ pc["worker"] = "verdict"
  /\ IF cancelReq \/ agent # "zero"
     THEN last' = failure /\ Goto("worker", "read")
     ELSE last' = "success" /\ Goto("worker", "publish")
  /\ UNCHANGED <<status, cancelReq, cb, body, agent, handle, attempt, overdue,
                 phase, sending, tries, sawCancel, heard>>

\* _publish_github: a push that fails makes a failure of a success.
Publish(result) ==
  /\ pc["worker"] = "publish"
  /\ last' = result
  /\ Goto("worker", "read")
  /\ UNCHANGED <<status, cancelReq, cb, body, agent, handle, attempt, overdue,
                 phase, sending, tries, sawCancel, heard>>

\* mark_finished at the end of an attempt.
FinishAttempt ==
  /\ pc["worker"] = "write"
  /\ phase = "run"
  /\ status' = Finished("worker",
                        IF last = "success" THEN "success" ELSE "error")
  /\ Goto("worker", "decide")
  /\ UNCHANGED <<cancelReq, cb, body, agentVars, overdue, phase, sending, tries,
                 sawCancel, heard>>

\* A success is reported, and the flag not looked at.
ReportSuccess ==
  /\ pc["worker"] = "decide"
  /\ last = "success"
  /\ StartSending("worker", "success")
  /\ UNCHANGED <<status, cancelReq, cb, agentVars, overdue, phase, sawCancel,
                 heard>>

\* A failure of a run that is to be cancelled is not.
SkipCallback ==
  /\ pc["worker"] = "decide"
  /\ last # "success"
  /\ cancelReq
  /\ cb' = "skipped"
  /\ Goto("worker", "leave")
  /\ UNCHANGED <<status, cancelReq, body, agentVars, overdue, phase, sending,
                 tries, sawCancel, heard>>

\* A failure for good, or of the last attempt, is.
ReportFailure ==
  /\ pc["worker"] = "decide"
  /\ ~cancelReq
  /\ \/ last = "fatal"
     \/ last = "retryable" /\ attempt = MaxAttempts
  /\ StartSending("worker", "error")
  /\ UNCHANGED <<status, cancelReq, cb, agentVars, overdue, phase, sawCancel,
                 heard>>

\* Mutant of RetryAttempt: the failed attempt is reported, then retried.
RetryReported ==
  /\ pc["worker"] = "decide"
  /\ ~cancelReq
  /\ last = "retryable"
  /\ attempt < MaxAttempts
  /\ heard' = Append(heard, "error")
  /\ attempt' = attempt + 1
  /\ status' = "retrying"
  /\ Goto("worker", "top")
  /\ UNCHANGED <<cancelReq, cb, body, agent, handle, last, overdue, phase,
                 sending, tries, sawCancel>>

\* Any other is tried again (mark_retrying).
RetryAttempt ==
  /\ pc["worker"] = "decide"
  /\ ~cancelReq
  /\ last = "retryable"
  /\ attempt < MaxAttempts
  /\ attempt' = attempt + 1
  /\ status' = "retrying"
  /\ Goto("worker", "top")
  /\ UNCHANGED <<cancelReq, cb, body, agent, handle, last, overdue, phase,
                 sending, tries, sawCancel, heard>>

-----------------------------------------------------------------------------
(* The worker: run_agent_job around run.                                   *)

\* run raised: the handler reports an error, except for a cancelled run.
HandleException ==
  /\ pc["worker"] = "raised"
  /\ phase' = "handler"
  /\ Goto("worker", IF cancelReq THEN "leave" ELSE "read")
  /\ UNCHANGED <<status, cancelReq, cb, body, agentVars, overdue, sending,
                 tries, sawCancel, heard>>

\* Mutant of LeaveRun: a run that is still active is left so.
LeaveAnyhow ==
  /\ pc["worker"] = "leave"
  /\ Goto("worker", "done")
  /\ UNCHANGED <<status, cancelReq, cb, body, agentVars, overdue, phase,
                 sending, tries, sawCancel, heard>>

\* Mutant of LeaveRun: a run whose callback was not sent is reported again.
LeaveUnsent ==
  /\ pc["worker"] = "leave"
  /\ IF status \in Unfinished \/ cb # "sent"
     THEN phase' = "finally" /\ Goto("worker", "read")
     ELSE phase' = phase /\ Goto("worker", "done")
  /\ UNCHANGED <<status, cancelReq, cb, body, agentVars, overdue, sending,
                 tries, sawCancel, heard>>

\* finally: the workspace lock is released; a run that is still active goes
\* through _ensure_task_not_stuck.
LeaveRun ==
  /\ pc["worker"] = "leave"
  /\ IF status \in Unfinished
     THEN phase' = "finally" /\ Goto("worker", "read")
     ELSE phase' = phase /\ Goto("worker", "done")
  /\ UNCHANGED <<status, cancelReq, cb, body, agentVars, overdue, sending,
                 tries, sawCancel, heard>>

\* The handler and _ensure_task_not_stuck: mark_finished with an error, then
\* _send_callback.
ReportError ==
  /\ pc["worker"] = "write"
  /\ phase # "run"
  /\ status' = Finished("worker", "error")
  /\ StartSending("worker", "error")
  /\ UNCHANGED <<cancelReq, cb, agentVars, overdue, phase, sawCancel, heard>>

-----------------------------------------------------------------------------
(* The event loop: cancel_task and retry_callback.                         *)

\* cancel: raise the flag and kill the process, if the record has it.
Cancel ==
  /\ pc["loop"] = "idle"
  /\ status \in Unfinished
  /\ cancelReq' = TRUE
  /\ agent' = IF handle /\ agent = "alive" THEN "nonzero" ELSE agent
  /\ Goto("loop", "cancelMark")
  /\ UNCHANGED <<status, cb, body, handle, attempt, last, overdue, phase,
                 sending, tries, sawCancel, heard>>

\* ... then mark it cancelled, whatever it shows by now.
MarkCancelled ==
  /\ pc["loop"] = "cancelMark"
  /\ status' = "cancelled"
  /\ Goto("loop", "idle")
  /\ UNCHANGED <<cancelReq, cb, body, agentVars, overdue, phase, sending, tries,
                 sawCancel, heard>>

\* retry_callback sends the stored outcome of a finished run again; the event
\* loop is blocked until send_callback_retry returns.
RetryCallback ==
  /\ pc["loop"] = "idle"
  /\ status \in Outcome
  /\ body # "none"
  /\ cb # "sent"
  /\ Len(heard) < HeardBound
  /\ sending' = [sending EXCEPT !["loop"] = body]
  /\ tries' = [tries EXCEPT !["loop"] = 1]
  /\ Goto("loop", "send")
  /\ UNCHANGED <<status, cancelReq, cb, body, agentVars, overdue, phase,
                 sawCancel, heard>>

-----------------------------------------------------------------------------
(* The watchdog.                                                           *)

\* The run exceeds the watchdog's limit.
Expire ==
  /\ Watched
  /\ ~overdue
  /\ overdue' = TRUE
  /\ UNCHANGED <<status, cancelReq, cb, body, agentVars, threadVars, heard>>

\* sweep_once kills the process of a run that is overdue and active ...
Sweep ==
  /\ pc["watchdog"] = "idle"
  /\ overdue
  /\ status \in {"running", "retrying"}
  /\ cb # "sent"
  /\ agent' = IF handle /\ agent = "alive" THEN "nonzero" ELSE agent
  /\ Goto("watchdog", "read")
  /\ UNCHANGED <<status, cancelReq, cb, body, handle, attempt, last, overdue,
                 phase, sending, tries, sawCancel, heard>>

\* ... marks it finished and reports an error.
ForceFinish ==
  /\ pc["watchdog"] = "write"
  /\ status' = Finished("watchdog", "error")
  /\ StartSending("watchdog", "error")
  /\ UNCHANGED <<cancelReq, cb, agentVars, overdue, phase, sawCancel, heard>>

-----------------------------------------------------------------------------
WorkerStep ==
  \/ StopCancelled \/ StartAttempt \/ BackOff \/ ExecuteOnce \/ MarkRunning
  \/ \E failure \in {"none"} \cup Failures : Prepare(failure)
  \/ Launch \/ StartAgent \/ RegisterAgent \/ StopAgent \/ AgentGone
  \/ \E failure \in Failures : Verdict(failure)
  \/ \E result \in {"success"} \cup Failures : Publish(result)
  \/ ReadStatus("worker") \/ FinishAttempt
  \/ ReportSuccess \/ SkipCallback \/ ReportFailure \/ RetryAttempt
  \/ HandleException \/ LeaveRun \/ ReportError
  \/ Send("worker")

\* What a handler does once it is called.
HandlerStep == MarkCancelled \/ Send("loop")

WatchdogStep ==
  Sweep \/ ReadStatus("watchdog") \/ ForceFinish \/ Send("watchdog")

Next ==
  \/ WorkerStep
  \/ Cancel \/ RetryCallback \/ HandlerStep
  \/ WatchdogStep
  \/ \E code \in {"zero", "nonzero"} : AgentExits(code)
  \/ Expire

Spec == Init /\ [][Next]_vars

\* Threads are scheduled, a POST has a timeout and a sweep is never the last
\* one.  An agent need not exit.
FairSpec ==
  /\ Spec
  /\ WF_vars(WorkerStep)
  /\ WF_vars(HandlerStep)
  /\ WF_vars(WatchdogStep)

-----------------------------------------------------------------------------
(* Safety.                                                                 *)

\* No agent outlives its attempt: from the verdict on nobody would kill it, and
\* it could change the workspace while it is published or while the next run
\* of the project works there.
NoAgentLeft ==
  agent = "alive" => pc["worker"] \in {"register", "stream"}

\* The dashboard shows a callback as sent only if n8n got one, whichever of the
\* three threads that send marked it.
SentWasHeard == cb = "sent" => heard # <<>>

\* n8n is never told two different outcomes of a run, however callbacks are
\* retried, by hand too, and however a cancel interferes; and what it was told
\* is what the run shows, unless that is cancelled.
OneOutcome ==
  \A i \in DOMAIN heard :
    /\ heard[i] = heard[1]
    /\ status \in Terminal => status \in {heard[i], "cancelled"}

\* A run whose callback was skipped is one n8n heard nothing of.
SkippedIsSilent == cb = "skipped" => heard = <<>>

\* When all threads are through with a run, it shows a final status, its
\* callback was sent, skipped, or given up, and in that case retry_callback
\* finds what to send again.
AllSaid ==
  pc["worker"] = "done" /\ pc["loop"] = "idle" /\ pc["watchdog"] = "idle" =>
    /\ status \in Terminal
    /\ cb \in {"sent", "skipped", "failed"}
    /\ cb = "failed" => body # "none"

\* A cancel that comes while the agent works is in time: n8n is not told
\* afterwards that the run succeeded.
CancelInTime ==
  [](cancelReq /\ pc["worker"] \in BeforeVerdict
       => []("success" \notin ToSet(heard)))

\* An exception that leaves the finally block of run_agent_job before
\* on_task_finished leaves the run's project active for ever, and its queue
\* waits.  That happens to no run that was not cancelled: when such a run comes
\* to the finally block it shows an outcome, whatever raised before, and
\* _ensure_task_not_stuck has nothing to do.
LostWasCancelled == pc["worker"] = "aborted" => cancelReq

-----------------------------------------------------------------------------
(* Liveness.                                                               *)

\* A cancel ends the run: the agent dies and the worker is free, even if the
\* agent was just being started and no limit would stop it.
CancelFreesWorker == cancelReq ~> pc["worker"] \in {"done", "aborted"}

\* Where _stream_process has a limit the worker is free in the end.
RunEnds == <>(pc["worker"] \in {"done", "aborted"})

\* TASK_MAX_RUNTIME_SEC is the "hard cap for watchdog" (config.py:65).
HardCap == overdue ~> pc["worker"] \in {"done", "aborted"}

-----------------------------------------------------------------------------
(* The inductive invariant behind NoAgentLeft, SentWasHeard and             *)
(* CancelInTime.                                                            *)

\* An answer means that n8n got a callback.
AnsweredWasHeard == \A t \in Threads : pc[t] = "answered" => heard # <<>>

\* Nobody has told n8n, or is about to tell it, of a success.
NoSuccessSaid ==
  /\ "success" \notin ToSet(heard)
  /\ body # "success"
  /\ \A t \in Threads : pc[t] \in SendPC => sending[t] # "success"

\* The worker is in an attempt.
InAttempt ==
  \/ pc["worker"] \in BeforeVerdict \cup {"publish", "decide"}
  \/ pc["worker"] \in {"read", "write"} /\ phase = "run"

\* As long as there are attempts, none has been reported a success, and none
\* is a success before its verdict.
SuccessIsLast ==
  /\ InAttempt => NoSuccessSaid /\ phase = "run"
  /\ pc["worker"] \in BeforeVerdict => last # "success"

\* The inductive invariant.
RunInv ==
  /\ TypeOK
  /\ NoAgentLeft
  /\ SentWasHeard
  /\ AnsweredWasHeard
  /\ SuccessIsLast

\* Of a run that was not cancelled: it does not show so, nobody has read that
\* it does, and from the end of its last attempt on it shows its outcome.
Uncancelled ==
  ~cancelReq =>
    /\ status # "cancelled"
    /\ \A t \in Threads : ~sawCancel[t]
    /\ pc["loop"] # "cancelMark"
    /\ phase # "finally"
    /\ pc["worker"] \in {"decide", "leave", "done"} \cup SendPC
         => status \in Outcome

\* Where nobody but the worker and the event loop deals with a run and no POST
\* raises, a run has one story: what is reported is what the run shows, once
\* and for all.
Undisturbed == ~Watched /\ "raises" \notin Faults

OnlyTwoReport ==
  /\ ~overdue /\ pc["watchdog"] = "idle"
  /\ phase # "handler" /\ pc["worker"] \notin {"raised", "aborted"}

\* Nothing is reported before it is decided.
Untold ==
  body = "none" => heard = <<>> /\ \A t \in Threads : pc[t] \notin SendPC

Told ==
  body # "none" =>
    /\ pc["worker"] \in {"leave", "done"} \cup SendPC
    /\ status \in {body, "cancelled"}
    /\ ToSet(heard) \subseteq {body}
    /\ \A t \in Threads : pc[t] \in SendPC => sending[t] = body

\* What is decided is what the run shows.
DecidedIsShown ==
  /\ pc["worker"] = "write" /\ sawCancel["worker"] => status = "cancelled"
  /\ pc["worker"] = "decide" =>
       /\ last = "success" => status \in {"success", "cancelled"}
       /\ last # "success" /\ ~cancelReq => status \in {"error", "cancelled"}

\* A callback that is skipped is none that is sent, and when nobody sends any
\* more, it shows how it ended.
CallbackShown ==
  /\ cb = "skipped" =>
       heard = <<>> /\ \A t \in Threads :
                        pc[t] \notin {"post", "answered", "failed"}
  /\ cb = "failed" => body # "none"
  /\ pc["worker"] \in {"leave", "done"}
       /\ (\A t \in Threads : pc[t] \notin SendPC)
       => cb \in {"sent", "skipped", "failed"}
  /\ pc["worker"] = "done" => status \in Terminal

OneStory ==
  OnlyTwoReport /\ Untold /\ Told /\ DecidedIsShown /\ CallbackShown

\* A cancelled run that cannot become a success any more.
Doomed ==
  /\ cancelReq
  /\ NoSuccessSaid
  /\ last # "success"
  /\ pc["worker"] # "publish"
-----------------------------------------------------------------------------
(* Refinement: an undisturbed run implements RunContract.                  *)

\* A callback that is pending, being sent or to be retried is open.
ContractMark == IF cb \in {"sent", "failed", "skipped"} THEN cb ELSE "open"

Contract == INSTANCE RunContract WITH
  asked <- cancelReq, shown <- status, good <- last = "success",
  outcome <- body, told <- heard, mark <- ContractMark,
  over <- pc["worker"] = "done"

\* Whatever the worker, a cancel, the faults of the callbacks and a manual retry
\* of them interleave, the run keeps the contract: it has one outcome, which
\* n8n is told and the run shows, and it is left when both are done.
KeepsContract == Contract!Spec

\* What it needs beyond OneStory: what is published was a success, a run that
\* is left without a callback was none, and a run whose callback was skipped is
\* left.
ResultFits ==
  /\ pc["worker"] = "publish" => last = "success"
  /\ body = "none" /\ \/ pc["worker"] \in {"leave", "done"}
                      \/ phase = "finally"
       => last # "success"
  /\ cb = "skipped" =>
       pc["worker"] \in {"leave", "done"} \/ phase = "finally"
=============================================================================
