---------------------------- MODULE AgentStream ----------------------------
(***************************************************************************)
(* One start of the agent: _run_agent_process and _stream_process.  The    *)
(* worker waits for the agent or stops it, two threads read the agent's    *)
(* output from pipes that hold only so much, a heartbeat thread starts     *)
(* progress pings, and a dashboard may cancel the run in a thread of its   *)
(* own.  A process the agent started can outlive it and keep the pipes     *)
(* open.                                                                   *)
(*                                                                         *)
(* A line of output is a unit of a count.  Timeouts may expire whenever    *)
(* what they wait for has not happened.                                    *)
(***************************************************************************)
EXTENDS Naturals

CONSTANTS Capacity,  \* the lines a pipe holds
          OutLines,  \* the lines the agent has to write to stdout
          ErrLines,  \* and to stderr before it ends
          ExitCode   \* what it ends with when nobody ends it

ASSUME CapacityType == Capacity \in Nat \ {0}
ASSUME LinesType == OutLines \in Nat /\ ErrLines \in Nat
ASSUME ExitCodeType == ExitCode \in {"zero", "nonzero"}

Pipes == {"stdout", "stderr"}
Lines == [p \in Pipes |-> IF p = "stdout" THEN OutLines ELSE ErrLines]

VARIABLES
  stubborn,   \* kill_process_tree asks only, and the agent may decline; a
              \* constant of each behaviour (Windows: FALSE)
  agent,      \* the process: it runs, hangs or is dead
  todo,       \* the lines it has yet to write
  child,      \* a process it started has the pipes open as well
  pipe,       \* the lines in the pipe
  reader,     \* read_stream's threads
  lines,      \* stdout_lines and stderr_lines
  heart,      \* the heartbeat's thread
  late,       \* history: the pings begun after stop_heartbeat was set
  pc,         \* the worker, in _run_agent_process and _stream_process
  why,        \* what the worker stopped the agent for, or how waiting ended
  process,    \* record.process is set
  stop,       \* stop_heartbeat
  cancelled,  \* record.cancel_requested
  ctl,        \* the thread that executes cancel
  caught,     \* history: cancel has found a process to end
  slow,       \* history: a join ended while the reader had something to do
  result      \* the output the worker returns

agentVars == <<agent, todo, child, pipe>>
readerVars == <<reader, lines>>
heartVars == <<heart, late>>
workerVars == <<pc, why, process, stop, slow, result>>
cancelVars == <<cancelled, ctl, caught>>
vars == <<stubborn, agentVars, readerVars, heartVars, workerVars,
          cancelVars>>

WorkerPC == {"popen", "register", "top", "wall", "idle", "wait", "killed",
             "finally", "heart", "unset", "stdout", "stderr",
             "result", "returned", "raised"}
Why == {"none", "cancelled", "wall", "idle", "exited", "expired"}

TypeOK ==
  /\ stubborn \in BOOLEAN
  /\ agent \in {"runs", "hangs", "dead"}
  /\ todo \in [Pipes -> Nat]
  /\ child \in BOOLEAN
  /\ pipe \in [Pipes -> 0 .. Capacity]
  /\ reader \in [Pipes -> {"new", "readline", "line", "done"}]
  /\ lines \in [Pipes -> Nat]
  /\ heart \in {"new", "asleep", "awake", "done"}
  /\ late \in Nat
  /\ pc \in WorkerPC
  /\ why \in Why
  /\ process \in BOOLEAN
  /\ stop \in BOOLEAN
  /\ cancelled \in BOOLEAN
  /\ ctl \in {"none", "kill", "wait", "done", "missed"}
  /\ caught \in BOOLEAN
  /\ slow \in [Pipes -> BOOLEAN]
  /\ result \in [Pipes -> Nat]

None == [p \in Pipes |-> 0]

\* Popen has returned.
Init ==
  /\ stubborn \in BOOLEAN
  /\ agent = "runs" /\ child = FALSE
  /\ todo = Lines
  /\ pipe = None /\ lines = None /\ result = None
  /\ reader = [p \in Pipes |-> "new"]
  /\ heart = "new" /\ late = 0
  /\ pc = "popen" /\ why = "none"
  /\ process = FALSE /\ stop = FALSE
  /\ cancelled = FALSE /\ ctl = "none" /\ caught = FALSE
  /\ slow = [p \in Pipes |-> FALSE]

Alive == agent # "dead"

-----------------------------------------------------------------------------
(***************************************************************************)
(* The agent's process, and the signals it gets.                           *)
(***************************************************************************)
\* A write to a full pipe blocks the agent.
Write(p) ==
  /\ agent = "runs"
  /\ todo[p] > 0 /\ pipe[p] < Capacity
  /\ todo' = [todo EXCEPT ![p] = @ - 1]
  /\ pipe' = [pipe EXCEPT ![p] = @ + 1]
  /\ UNCHANGED <<stubborn, agent, child, readerVars, heartVars, workerVars,
                 cancelVars>>

Exit ==
  /\ agent = "runs"
  /\ \A p \in Pipes : todo[p] = 0
  /\ agent' = "dead"
  /\ UNCHANGED <<stubborn, todo, child, pipe, readerVars, heartVars,
                 workerVars, cancelVars>>

\* The agent hangs, crashes, or heeds a signal late.
Fail ==
  /\ Alive
  /\ agent' \in {"hangs", "dead"}
  /\ UNCHANGED <<stubborn, todo, child, pipe, readerVars, heartVars,
                 workerVars, cancelVars>>

\* A child is started, or it ends by itself.
Child ==
  /\ Alive \/ child
  /\ child' = ~child
  /\ UNCHANGED <<stubborn, agent, todo, pipe, readerVars, heartVars,
                 workerVars, cancelVars>>

\* kill_process_tree: taskkill /F /T ends the agent, SIGTERM may be ignored;
\* a child that left the tree or the group stays.
KillTree ==
  /\ agent' = "dead" \/ (stubborn /\ agent' = agent)
  /\ child' \in BOOLEAN /\ (child' => child)
  /\ UNCHANGED <<todo, pipe>>

-----------------------------------------------------------------------------
(***************************************************************************)
(* read_stream.                                                            *)
(***************************************************************************)
\* Mutant of ReadLine: stderr is read after stdout.
ReadLineInTurn(p) ==
  /\ reader[p] = "readline"
  /\ p = "stderr" => reader["stdout"] = "done"
  /\ \/ /\ pipe[p] > 0
        /\ pipe' = [pipe EXCEPT ![p] = @ - 1]
        /\ reader' = [reader EXCEPT ![p] = "line"]
     \/ /\ pipe[p] = 0 /\ ~Alive /\ ~child
        /\ reader' = [reader EXCEPT ![p] = "done"]
        /\ UNCHANGED pipe
  /\ UNCHANGED <<stubborn, agent, todo, child, lines, heartVars, workerVars,
                 cancelVars>>

\* Mutant of ReadLine: the thread reads while the agent is there.
ReadLineWhileAlive(p) ==
  /\ reader[p] = "readline"
  /\ \/ /\ pipe[p] > 0
        /\ pipe' = [pipe EXCEPT ![p] = @ - 1]
        /\ reader' = [reader EXCEPT ![p] = "line"]
     \/ /\ ~Alive
        /\ reader' = [reader EXCEPT ![p] = "done"]
        /\ UNCHANGED pipe
  /\ UNCHANGED <<stubborn, agent, todo, child, lines, heartVars, workerVars,
                 cancelVars>>

\* readline returns a line, or nothing once nobody has the pipe open.
ReadLine(p) ==
  /\ reader[p] = "readline"
  /\ \/ /\ pipe[p] > 0
        /\ pipe' = [pipe EXCEPT ![p] = @ - 1]
        /\ reader' = [reader EXCEPT ![p] = "line"]
     \/ /\ pipe[p] = 0 /\ ~Alive /\ ~child
        /\ reader' = [reader EXCEPT ![p] = "done"]
        /\ UNCHANGED pipe
  /\ UNCHANGED <<stubborn, agent, todo, child, lines, heartVars, workerVars,
                 cancelVars>>

\* Mutant of KeepLine: a reader also stops when the agent has ended.
KeepLineWhileAlive(p) ==
  /\ reader[p] = "line"
  /\ IF cancelled \/ ~Alive
     THEN /\ reader' = [reader EXCEPT ![p] = "done"]
          /\ UNCHANGED lines
     ELSE /\ reader' = [reader EXCEPT ![p] = "readline"]
          /\ lines' = [lines EXCEPT ![p] = @ + 1]
  /\ UNCHANGED <<stubborn, agentVars, heartVars, workerVars, cancelVars>>

\* The body of the loop: a cancelled run's output is not read any further.
KeepLine(p) ==
  /\ reader[p] = "line"
  /\ IF cancelled
     THEN /\ reader' = [reader EXCEPT ![p] = "done"]
          /\ UNCHANGED lines
     ELSE /\ reader' = [reader EXCEPT ![p] = "readline"]
          /\ lines' = [lines EXCEPT ![p] = @ + 1]
  /\ UNCHANGED <<stubborn, agentVars, heartVars, workerVars, cancelVars>>

-----------------------------------------------------------------------------
(***************************************************************************)
(* heartbeat.                                                              *)
(***************************************************************************)
\* Mutant of Wake: the thread sleeps, and looks at the agent only.
WakeWhileAlive ==
  /\ heart = "asleep"
  /\ heart' = IF ~Alive THEN "done" ELSE "awake"
  /\ UNCHANGED <<stubborn, agentVars, readerVars, late, workerVars,
                 cancelVars>>

\* stop_heartbeat.wait(30).
Wake ==
  /\ heart = "asleep"
  /\ heart' = IF stop THEN "done" ELSE "awake"
  /\ UNCHANGED <<stubborn, agentVars, readerVars, late, workerVars,
                 cancelVars>>

\* The thread looks at the agent and at the flag; maybe_send_progress and
\* _post_progress_callback_async start a thread for the POST.
Ping ==
  /\ heart = "awake"
  /\ IF Alive /\ ~cancelled
     THEN heart' = "asleep" /\ late' = IF stop THEN late + 1 ELSE late
     ELSE heart' = "done" /\ UNCHANGED late
  /\ UNCHANGED <<stubborn, agentVars, readerVars, workerVars, cancelVars>>

-----------------------------------------------------------------------------
(***************************************************************************)
(* cancel, for a run that is executed.                                     *)
(***************************************************************************)
\* Under the record's lock.
Cancel ==
  /\ ctl = "none"
  /\ pc \notin {"returned", "raised"}
  /\ cancelled' = TRUE
  /\ ctl' = IF process THEN "kill" ELSE "missed"
  /\ caught' = (process /\ Alive)
  /\ UNCHANGED <<stubborn, agentVars, readerVars, heartVars, workerVars>>

CancelKill ==
  /\ ctl = "kill"
  /\ IF Alive THEN KillTree /\ ctl' = "wait"
     ELSE ctl' = "done" /\ UNCHANGED agentVars
  /\ UNCHANGED <<stubborn, readerVars, heartVars, workerVars, cancelled,
                 caught>>

\* An agent that outlives five seconds is killed for good.
CancelWait ==
  /\ ctl = "wait"
  /\ agent' = "dead"
  /\ ctl' = "done"
  /\ UNCHANGED <<stubborn, todo, child, pipe, readerVars, heartVars,
                 workerVars, cancelled, caught>>

-----------------------------------------------------------------------------
(***************************************************************************)
(* The worker.                                                             *)
(***************************************************************************)
Goto(l) == pc' = l

\* set_process.
Register ==
  /\ pc = "popen"
  /\ process' = TRUE
  /\ Goto("register")
  /\ UNCHANGED <<stubborn, agentVars, readerVars, heartVars, why, stop, slow,
                 result, cancelVars>>

StartThreads ==
  /\ pc = "register"
  /\ reader' = [p \in Pipes |-> "readline"]
  /\ heart' = "asleep"
  /\ Goto("top")
  /\ UNCHANGED <<stubborn, agentVars, lines, late, why, process, stop, slow,
                 result, cancelVars>>

\* One of the three checks at the top of the loop, in their order.  Whether
\* AGENT_TIMEOUT_SEC is over, or the agent silent for AGENT_IDLE_TIMEOUT_SEC,
\* is a choice: either limit may be off.
Check(label, reached, reason, next) ==
  /\ pc = label
  /\ IF reached
     THEN KillTree /\ why' = reason /\ Goto("killed")
     ELSE Goto(next) /\ UNCHANGED <<agentVars, why>>
  /\ UNCHANGED <<stubborn, readerVars, heartVars, process, stop, slow, result,
                 cancelVars>>

\* Mutant of CheckCancel: cancel stops the agent, the loop need not look.
CheckNothing == Check("top", FALSE, "cancelled", "wall")

CheckCancel == Check("top", cancelled, "cancelled", "wall")
CheckWall == \E over \in BOOLEAN : Check("wall", over, "wall", "idle")
CheckIdle == \E over \in BOOLEAN : Check("idle", over, "idle", "wait")

\* Mutant of WaitKilled: nobody waits for the agent that was told to stop.
DontWaitKilled ==
  /\ pc = "killed"
  /\ Goto("finally")
  /\ UNCHANGED <<stubborn, agentVars, readerVars, heartVars, why, process,
                 stop, slow, result, cancelVars>>

\* process.wait(timeout=5) after the kill: TimeoutExpired is not caught.
WaitKilled ==
  /\ pc = "killed"
  /\ why' = IF Alive THEN "expired" ELSE why
  /\ Goto("finally")
  /\ UNCHANGED <<stubborn, agentVars, readerVars, heartVars, process, stop,
                 slow, result, cancelVars>>

\* process.wait(timeout=1).
Wait ==
  /\ pc = "wait"
  /\ IF Alive THEN Goto("top") /\ UNCHANGED why
     ELSE Goto("finally") /\ why' = "exited"
  /\ UNCHANGED <<stubborn, agentVars, readerVars, heartVars, process, stop,
                 slow, result, cancelVars>>

StopHeart ==
  /\ pc = "finally"
  /\ stop' = TRUE
  /\ Goto("heart")
  /\ UNCHANGED <<stubborn, agentVars, readerVars, heartVars, why, process,
                 slow, result, cancelVars>>

\* heartbeat_thread.join(timeout=1), which may expire; then the agent is
\* killed once more if it is there.
KillAgain ==
  /\ pc = "heart"
  /\ IF Alive THEN KillTree ELSE UNCHANGED agentVars
  /\ Goto("unset")
  /\ UNCHANGED <<stubborn, readerVars, heartVars, why, process, stop, slow,
                 result, cancelVars>>

\* Mutant of Unset: the record keeps the process.
KeepProcess ==
  /\ pc = "unset"
  /\ Goto("stdout")
  /\ UNCHANGED <<stubborn, agentVars, readerVars, heartVars, why, process,
                 stop, slow, result, cancelVars>>

\* At most three seconds later.
Unset ==
  /\ pc = "unset"
  /\ process' = FALSE
  /\ Goto("stdout")
  /\ UNCHANGED <<stubborn, agentVars, readerVars, heartVars, why, stop, slow,
                 result, cancelVars>>

\* In readline, with nothing in the pipe: somebody may yet write.
AtRest(p) == reader[p] = "done" \/ (reader[p] = "readline" /\ pipe[p] = 0)

\* Mutant of Join: without a timeout.
JoinForGood(p, next) ==
  /\ pc = p
  /\ reader[p] = "done"
  /\ Goto(next)
  /\ UNCHANGED <<stubborn, agentVars, readerVars, heartVars, why, process,
                 stop, slow, result, cancelVars>>

\* join(timeout=2).
Join(p, next) ==
  /\ pc = p
  /\ slow' = [slow EXCEPT ![p] = ~AtRest(p)]
  /\ Goto(next)
  /\ UNCHANGED <<stubborn, agentVars, readerVars, heartVars, why, process,
                 stop, result, cancelVars>>

Return ==
  /\ pc = "result"
  /\ result' = lines
  /\ Goto(IF why = "expired" THEN "raised" ELSE "returned")
  /\ UNCHANGED <<stubborn, agentVars, readerVars, heartVars, why, process,
                 stop, slow, cancelVars>>

-----------------------------------------------------------------------------
AgentStep == (\E p \in Pipes : Write(p)) \/ Exit
ReaderStep(p) == ReadLine(p) \/ KeepLine(p)
HeartStep == Wake \/ Ping
CancelStep == CancelKill \/ CancelWait
WorkerStep ==
  \/ Register \/ StartThreads
  \/ CheckCancel \/ CheckWall \/ CheckIdle
  \/ WaitKilled \/ Wait
  \/ StopHeart \/ KillAgain \/ Unset
  \/ Join("stdout", "stderr") \/ Join("stderr", "result")
  \/ Return

Next ==
  \/ AgentStep \/ Fail \/ Child
  \/ \E p \in Pipes : ReaderStep(p)
  \/ HeartStep
  \/ Cancel \/ CancelStep
  \/ WorkerStep

Spec == Init /\ [][Next]_vars

\* Threads are scheduled, and an agent that does not hang goes on when it can.
\* Nobody has to cancel, no limit has to be set, no child has to end.
FairSpec ==
  /\ Spec
  /\ WF_vars(AgentStep)
  /\ \A p \in Pipes : WF_vars(ReaderStep(p))
  /\ WF_vars(HeartStep) /\ WF_vars(CancelStep) /\ WF_vars(WorkerStep)

-----------------------------------------------------------------------------
(***************************************************************************)
(* Properties.                                                             *)
(***************************************************************************)
\* An attempt that is over leaves no agent behind at work in the workspace,
\* the next attempt's or the next task's: a result means that the agent has
\* ended, and without one it has ended unless it declined to.
NoAgentLeft ==
  /\ pc = "returned" => ~Alive
  /\ pc = "raised" /\ Alive => stubborn

\* The output returned is all the agent wrote, also of an agent that was
\* stopped and even while a child keeps the pipe open, unless the run was
\* cancelled or a reader did not get through in the two seconds it has.
OutputComplete ==
  \A p \in Pipes :
    pc = "returned" /\ ~cancelled /\ ~slow[p] => result[p] = Lines[p] - todo[p]

\* At most one ping begins after the heartbeat was told to stop, however the
\* end of the attempt and the heartbeat interleave.
OneLatePing == late <= 1

\* What these rest on.  The worker leaves its loop when the agent has ended
\* or declined to; nobody reads before the threads start; a line is in one
\* place, and only a cancelled run loses one; a reader that was waited for has
\* nothing more to read; a process that is to be killed was alive when the flag
\* went up.
Left == {"finally", "heart", "unset", "stdout", "stderr", "result",
         "returned", "raised"}
Joined(p) == pc \in (IF p = "stdout" THEN {"stderr"} ELSE {})
                    \cup {"result", "returned", "raised"}
InHand(p) == IF reader[p] = "line" THEN 1 ELSE 0

EndedOrDeclined ==
  /\ pc = "killed" /\ Alive => stubborn
  /\ pc \in Left /\ Alive => why = "expired" /\ stubborn
  /\ pc = "returned" => why # "expired"
NobodyReadsYet ==
  pc \in {"popen", "register"} => \A p \in Pipes : reader[p] = "new"
LinesConserved ==
  \A p \in Pipes :
    ~cancelled => lines[p] + InHand(p) + pipe[p] + todo[p] = Lines[p]
DoneIsDrained ==
  \A p \in Pipes :
    reader[p] = "done" /\ ~cancelled => pipe[p] = 0 /\ ~Alive /\ ~child
JoinedIsDrained ==
  \A p \in Pipes :
    Joined(p) /\ why # "expired" /\ ~slow[p] /\ ~cancelled
    => /\ AtRest(p) /\ pipe[p] = 0
       /\ pc = "returned" => result[p] = lines[p]
KillIsSure ==
  /\ ctl = "none" => ~caught
  /\ ctl \in {"kill", "wait"} /\ Alive => caught
PingIsLast == IF stop THEN late + (IF heart = "awake" THEN 1 ELSE 0) <= 1
              ELSE late = 0

StreamInv ==
  /\ TypeOK
  /\ EndedOrDeclined
  /\ NobodyReadsYet
  /\ LinesConserved
  /\ DoneIsDrained
  /\ JoinedIsDrained
  /\ PingIsLast
  /\ NoAgentLeft
  /\ KillIsSure

\* An agent that does not hang can finish whatever it writes where: it is not
\* left waiting for somebody to read.
CanFinish == <>(agent \in {"hangs", "dead"} \/ cancelled)

\* Once the agent has ended, the run is cancelled or a limit is exceeded, the
\* worker gets its result or an error: nothing makes it wait for ever, a child
\* that keeps the pipes open or a stubborn agent included.
WorkerFreed ==
  ~Alive \/ cancelled \/ pc = "killed" ~> pc \in {"returned", "raised"}

\* Cancelling ends the agent, also when it comes before set_process, when
\* cancel knows of no process.  A stubborn agent is ended by cancel alone.
CancelEnds == cancelled /\ (stubborn => ctl # "missed") ~> ~Alive
-----------------------------------------------------------------------------
(***************************************************************************)
(* What TaskRun makes of this: its steps from RegisterAgent to AgentGone.  *)
(* Popen, the cancel with its kill, and the way from the end of the loop   *)
(* to the result are single steps there; pipes, readers and the heartbeat  *)
(* are left out.                                                           *)
(***************************************************************************)
\* The place of the worker: set_process(None) is what leaves the loop.
WorkerAt ==
  CASE pc = "popen" -> "register"
    [] pc \in {"stdout", "stderr", "result", "returned", "raised"} -> "verdict"
    [] OTHER -> "stream"

\* A process cancel has found is ended when the flag goes up.
AgentIs ==
  IF caught THEN "nonzero"
  ELSE IF Alive THEN "alive"
  ELSE IF WorkerAt = "verdict" /\ why # "exited" THEN "nonzero"
  ELSE ExitCode

ThreadsAt == [t \in {"worker", "loop", "watchdog"} |->
  CASE t = "worker" -> WorkerAt
    [] t = "loop" -> IF ctl \in {"kill", "wait", "missed"} THEN "cancelMark"
                     ELSE "idle"
    [] t = "watchdog" -> "idle"]

Run == INSTANCE TaskRun WITH
  MaxAttempts <- 1, CallbackAttempts <- 1, Watched <- FALSE, Limited <- TRUE,
  HeardBound <- 1, Faults <- {},
  status <- IF ctl = "done" THEN "cancelled" ELSE "running",
  cancelReq <- cancelled, cb <- "pending", body <- "none",
  agent <- AgentIs, handle <- process, attempt <- 1, last <- "none",
  overdue <- FALSE,
  pc <- ThreadsAt,
  phase <- "run",
  sending <- [t \in {"worker", "loop", "watchdog"} |-> "error"],
  tries <- [t \in {"worker", "loop", "watchdog"} |-> 1],
  sawCancel <- [t \in {"worker", "loop", "watchdog"} |-> FALSE],
  heard <- <<>>

\* Where a kill ends the agent (on Windows), everything that happens between
\* Popen and the result, threads, pipes and a cancel at any moment included, is
\* what TaskRun says: its worker goes on once the agent has ended, and only
\* then, with what it ended with.
FollowsTaskRun == [][~stubborn => [Run!Next]_(Run!vars)]_vars
=============================================================================
