----------------------------- MODULE ProjectFifo -----------------------------
(***************************************************************************)
(* What the bridge promises about the order and the exclusion of agent     *)
(* runs, with no threads, locks or statuses: every project has one line;   *)
(* an accepted run joins its tail, is worked on when it reaches the head   *)
(* and nothing else of the project is worked on, leaves the line otherwise *)
(* only when a cancel asks for it, and never comes back once it has left.  *)
(* A run that was asked to stop may stall its project; but for that, this  *)
(* is the contract of the docstrings of project_queue.py:1,30 and          *)
(* workspace_lock.py:1.  ProjectQueue is shown to implement it.            *)
(***************************************************************************)
EXTENDS Naturals, Sequences, SequencesExt

CONSTANTS Runs,        \* identifiers of runs (run_id)
          Projects,    \* identifiers of projects (project_id)
          ProjectOf,   \* the project of a run's payload
          NoRun        \* "no run", Python's None

VARIABLES line,        \* line[p]: accepted runs of p not begun yet, in order
          working,     \* working[p]: the run using p's workspace, or NoRun
          seen,        \* runs ever accepted
          asked,       \* the waiting run whose cancel is being decided, or NoRun
          stopped,     \* runs asked to stop
          stalled      \* projects where no run begins any more

vars == <<line, working, seen, asked, stopped, stalled>>

\* Type invariant of the contract.
TypeOK ==
  /\ line \in [Projects -> Seq(Runs)]
  /\ working \in [Projects -> Runs \cup {NoRun}]
  /\ seen \subseteq Runs
  /\ asked \in Runs \cup {NoRun}
  /\ stopped \subseteq Runs
  /\ stalled \subseteq Projects

Init ==
  /\ line = [p \in Projects |-> <<>>]
  /\ working = [p \in Projects |-> NoRun]
  /\ seen = {}
  /\ asked = NoRun
  /\ stopped = {}
  /\ stalled = {}

\* A new run joins the tail of its project's line.
Accept(r) ==
  /\ r \notin seen
  /\ line' = [line EXCEPT ![ProjectOf[r]] = Append(@, r)]
  /\ seen' = seen \cup {r}
  /\ UNCHANGED <<working, asked, stopped, stalled>>

\* A client asks to cancel a run it sees waiting.
Ask(r) ==
  /\ asked = NoRun
  /\ r \in seen
  /\ asked' = r
  /\ UNCHANGED <<line, working, seen, stopped, stalled>>

\* The run gives up its place; the others keep their order.
Withdraw ==
  /\ asked # NoRun
  /\ Contains(line[ProjectOf[asked]], asked)
  /\ line' = [line EXCEPT ![ProjectOf[asked]] = RemoveFirst(@, asked)]
  /\ asked' = NoRun
  /\ UNCHANGED <<working, seen, stopped, stalled>>

\* The run keeps its place, or has left the line already.
Refuse ==
  /\ asked # NoRun
  /\ asked' = NoRun
  /\ UNCHANGED <<line, working, seen, stopped, stalled>>

\* The head of the line takes the workspace, which is free.
Begin(p) ==
  /\ p \notin stalled
  /\ working[p] = NoRun
  /\ line[p] # <<>>
  /\ working' = [working EXCEPT ![p] = Head(line[p])]
  /\ line' = [line EXCEPT ![p] = Tail(@)]
  /\ UNCHANGED <<seen, asked, stopped, stalled>>

\* The run that works leaves the workspace, for good.
End(p) ==
  /\ working[p] # NoRun
  /\ working' = [working EXCEPT ![p] = NoRun]
  /\ UNCHANGED <<line, seen, asked, stopped, stalled>>

\* A client asks to stop a run.
Stop(r) ==
  /\ r \in seen
  /\ stopped' = stopped \cup {r}
  /\ UNCHANGED <<line, working, seen, asked, stalled>>

\* A run that was asked to stop and has left blocks its project for good.
Stall(p) ==
  /\ working[p] = NoRun
  /\ \E r \in stopped : ProjectOf[r] = p /\ r \notin ToSet(line[p])
  /\ stalled' = stalled \cup {p}
  /\ UNCHANGED <<line, working, seen, asked, stopped>>

Next ==
  \/ \E r \in Runs : Accept(r) \/ Ask(r) \/ Stop(r)
  \/ Withdraw \/ Refuse
  \/ \E p \in Projects : Begin(p) \/ End(p) \/ Stall(p)

Spec == Init /\ [][Next]_vars

\* A free workspace with a line begins its next run, unless a stopped run has
\* stalled the project, and every run that works ends.
FairSpec ==
  /\ Spec
  /\ \A p \in Projects : WF_vars(Begin(p)) /\ WF_vars(End(p))
=============================================================================
