--------------------------- MODULE PublishContract ---------------------------
(***************************************************************************)
(* What the bridge promises of a project's repository, with no branches in *)
(* the workspace, no commits, stash or git commands: an attempt brings the *)
(* workspace up to date, an agent works in it, and then all of it goes to  *)
(* the one branch of its kind, on top of what is there, or nothing does.   *)
(* A success is reported for what is on GitHub, or for an agent that       *)
(* changed nothing; changes that were made stay somewhere; and the bridge  *)
(* may stop at any time.                                                   *)
(***************************************************************************)
CONSTANTS Changes,  \* what agents and developers change
          Pkg,      \* the change that makes a project Node.js
          NoBranch  \* a branch that does not exist

VARIABLES
  github,   \* the branches on GitHub: what each contains
  work,     \* what the workspace contains
  known,    \* the changes that are somewhere
  working,  \* an attempt is being made
  changed,  \* its agent has changed something
  told      \* what the last attempt was reported as

vars == <<github, work, known, working, changed, told>>

Branches == {"main", "staging"}

On(b) == IF github[b] = NoBranch THEN {} ELSE github[b]
RequiredBranch(t) == IF Pkg \in t THEN "main" ELSE "staging"

Init ==
  /\ github \in [Branches -> {NoBranch} \cup SUBSET Changes]
  /\ work \in SUBSET Changes
  /\ known = work \cup On("main") \cup On("staging")
  /\ ~working /\ ~changed
  /\ told = "none"

GoesOn == UNCHANGED <<working, told>>
Ends(outcomes) == ~working' /\ told' \in outcomes

Begin ==
  /\ ~working /\ working'
  /\ ~changed'
  /\ UNCHANGED <<github, work, known, told>>

\* Before the agent works: the workspace gets what is somewhere, and what is
\* taken out of it stays somewhere.
Synchronise ==
  /\ working /\ ~changed
  /\ work' \in SUBSET known
  /\ GoesOn \/ Ends({"failure"})
  /\ UNCHANGED <<github, known, changed>>

Work(files) ==
  /\ working
  /\ work' = work \cup files
  /\ known' = known \cup files
  /\ changed' = (files \subseteq work => changed)
  /\ GoesOn \/ Ends({"failure"})
  /\ UNCHANGED github

\* All of the workspace is pushed, onto what the branch of its kind contains.
\* The answer may be lost.
Publish(b) ==
  /\ working
  /\ b = RequiredBranch(work)
  /\ On(b) \subseteq work
  /\ github' = [github EXCEPT ![b] = work]
  /\ Ends({"success", "failure"})
  /\ UNCHANGED <<work, known, changed>>

NothingToPublish ==
  /\ working /\ ~changed
  /\ Ends({"success"})
  /\ UNCHANGED <<github, work, known, changed>>

\* A command fails, or the bridge stops.
Stop ==
  /\ working
  /\ Ends({"failure", "none"})
  /\ UNCHANGED <<github, work, known, changed>>

\* Developers push a change to a branch, or start staging.
DeveloperPushes(b, c) ==
  /\ github[b] # NoBranch
  /\ github' = [github EXCEPT ![b] = @ \cup {c}]
  /\ known' = known \cup {c}
  /\ UNCHANGED <<work, working, changed, told>>

DeveloperAddsStaging ==
  /\ github["staging"] = NoBranch
  /\ github' = [github EXCEPT !["staging"] = github["main"]]
  /\ UNCHANGED <<work, known, working, changed, told>>

Next ==
  \/ Begin
  \/ Synchronise
  \/ \E files \in SUBSET Changes : Work(files)
  \/ \E b \in Branches : Publish(b)
  \/ NothingToPublish
  \/ Stop
  \/ \E b \in Branches, c \in Changes : DeveloperPushes(b, c)
  \/ DeveloperAddsStaging

Spec == Init /\ [][Next]_vars

\* What follows from it at any moment: what is in the workspace and on GitHub
\* is known, and a success that changed something is there, all of it.
Promise ==
  /\ github \in [Branches -> {NoBranch} \cup SUBSET Changes]
  /\ known \in SUBSET Changes /\ work \subseteq known
  /\ \A b \in Branches : On(b) \subseteq known
  /\ ~working /\ told = "success" /\ changed =>
       work \subseteq On(RequiredBranch(work))
=============================================================================
