----------------------------- MODULE GitPublish -----------------------------
(***************************************************************************)
(* The git lifecycle of one project's workspace: prepare_workspace and     *)
(* sync_workspace_to_branch before the agent works, publish_task_changes   *)
(* after it, over any number of attempts of any number of tasks.           *)
(* ProjectQueue lets the project run one attempt at a time, so the steps   *)
(* here are sequential; what interferes is the remote, where developers    *)
(* push meanwhile, the failures of every git command, and restarts of the  *)
(* bridge, which the workspace on disk survives.                           *)
(* A tree is the set of the changes it contains, one per task and one for  *)
(* the developers, with Pkg for a package.json at the root.  A commit is   *)
(* its tree, and nothing is ever removed, so that a commit descends from   *)
(* another when it contains it.                                            *)
(***************************************************************************)
EXTENDS Naturals

CONSTANTS Tasks,     \* the tasks of the project, each with its change
          Pkg,       \* the change that adds package.json
          Dev,       \* the change of a developer
          DevPushes, \* what developers push: Dev, or Pkg, or either
          NoBranch   \* a branch that does not exist

ASSUME ChangesDistinct == Pkg # Dev /\ {Pkg, Dev} \cap Tasks = {}
ASSUME DevPushesType == DevPushes \subseteq {Dev, Pkg}
ASSUME NoBranchIsNoTree == \A t \in SUBSET (Tasks \cup {Pkg, Dev}) : NoBranch # t

Changes == Tasks \cup {Pkg, Dev}
Tree == SUBSET Changes
Branches == {"main", "staging"}
Refs == [Branches -> {NoBranch} \cup Tree]

VARIABLES
  remote,    \* the branches on GitHub
  tracking,  \* the remote-tracking branches of the workspace
  local,     \* its local branches
  repo,      \* what the workspace is: "none", "files" without .git, "clone"
  head,      \* the branch that is checked out
  tree,      \* the working tree
  stash,     \* changes git stash has put away
  orphan,    \* changes _backup_non_git_workspace has moved aside
  pc,        \* the next step of the attempt
  task,      \* its task
  branch,    \* effective_branch of its sync_workspace_to_branch
  changed,   \* has its agent changed the tree
  result     \* how the last attempt ended

refVars == <<remote, tracking, local>>
aside == <<stash, orphan>>
vars == <<refVars, repo, head, tree, aside, pc, task, branch, changed, result>>

\* Type invariant, with the refs an attempt relies on once it is on its branch.
TypeOK ==
  /\ remote \in Refs /\ tracking \in Refs /\ local \in Refs
  /\ repo \in {"none", "files", "clone"}
  /\ head \in Branches
  /\ tree \in Tree /\ stash \in Tree /\ orphan \in Tree
  /\ pc \in {"idle", "prepare", "clone", "fetch", "checkout", "stash",
             "stashed", "pull", "agent", "publish", "push"}
  /\ task \in Tasks
  /\ branch \in Branches
  /\ changed \in BOOLEAN
  /\ pc \in {"pull", "agent", "publish", "push"} =>
       head = branch /\ local[head] # NoBranch
  /\ result \in {"none", "success", "failure"}

\* A repository with a main branch, of either kind, and perhaps staging; a
\* workspace that is missing, or has files an agent once wrote outside git.
Init ==
  /\ \E main \in SUBSET {Pkg} :
       \E staging \in {main, NoBranch} :
         remote = [b \in Branches |-> IF b = "main" THEN main ELSE staging]
  /\ tracking = [b \in Branches |-> NoBranch]
  /\ local = [b \in Branches |-> NoBranch]
  /\ \/ repo = "none" /\ tree = {}
     \/ repo = "files" /\ tree = {Pkg}
  /\ head = "main"
  /\ stash = {} /\ orphan = {}
  /\ pc = "idle"
  /\ task \in Tasks
  /\ branch = "main"
  /\ changed = FALSE
  /\ result = "none"

-----------------------------------------------------------------------------
\* The tree of a ref, empty on a branch without a commit.
TreeOf(ref) == IF ref = NoBranch THEN {} ELSE ref

\* What the working tree has and the checked-out commit has not.
Dirty == tree \ TreeOf(local[head])

\* infer_project_kind and _required_branch_for_kind.
RequiredBranch(t) == IF Pkg \in t THEN "main" ELSE "staging"

\* The attempt ends, and the workspace stays as it is.
End(outcome) ==
  /\ pc' = "idle"
  /\ result' = outcome

-----------------------------------------------------------------------------
(* Before the agent: prepare_workspace, sync_workspace_to_branch.          *)

\* _execute_once for a task with a github_url.
StartAttempt(t) ==
  /\ pc = "idle"
  /\ task' = t
  /\ changed' = FALSE
  /\ pc' = "prepare"
  /\ UNCHANGED <<refVars, repo, head, tree, aside, branch, result>>

\* prepare_workspace takes a directory with .git as it is, however it came.
FindRepository ==
  /\ pc = "prepare"
  /\ repo = "clone"
  /\ pc' = "fetch"
  /\ UNCHANGED <<refVars, repo, head, tree, aside, task, branch, changed,
                 result>>

\* _backup_non_git_workspace moves the files of any other out of the way ...
SetAside ==
  /\ pc = "prepare"
  /\ repo # "clone"
  /\ orphan' = orphan \cup tree
  /\ tree' = {}
  /\ repo' = "none"
  /\ pc' = "clone"
  /\ UNCHANGED <<refVars, head, stash, task, branch, changed, result>>

\* ... and the repository is cloned into what is left ...
Clone ==
  /\ pc = "clone"
  /\ repo' = "clone"
  /\ tracking' = remote
  /\ local' = [local EXCEPT !["main"] = remote["main"]]
  /\ head' = "main"
  /\ tree' = remote["main"]
  /\ pc' = "fetch"
  /\ UNCHANGED <<remote, aside, task, branch, changed, result>>

\* ... which git undoes if it fails.  At the timeout git is killed, and what is
\* left has a .git and no commit.
CloneFails ==
  /\ pc = "clone"
  /\ repo' \in {"none", "clone"}
  /\ End("failure")
  /\ UNCHANGED <<refVars, head, tree, aside, task, branch, changed>>

Fetch ==
  /\ pc = "fetch"
  /\ tracking' = remote
  /\ pc' = "checkout"
  /\ UNCHANGED <<remote, local, repo, head, tree, aside, task, branch, changed,
                 result>>

\* What git checkout b checks out: a branch that is missing here starts at the
\* remote's.
CommitOf(b) == IF local[b] = NoBranch THEN tracking[b] ELSE local[b]

\* git checkout b takes the changes that are not committed along, and refuses
\* if they are in the way, which they can be where the two commits differ.
GitCheckout(b) ==
  /\ CommitOf(b) = local[head] \/ Dirty \cap CommitOf(b) = {}
  /\ local' = [local EXCEPT ![b] = CommitOf(b)]
  /\ head' = b
  /\ tree' = CommitOf(b) \cup Dirty

\* Mutant of Checkout: resolve_remote_branch does not look at the remote.
CheckoutUnresolved ==
  /\ pc = "checkout"
  /\ branch' = RequiredBranch(tree)
  /\ local' = [local EXCEPT ![branch'] = CommitOf(branch')]
  /\ head' = branch'
  /\ tree' = TreeOf(CommitOf(branch')) \cup Dirty
  /\ pc' = "pull"
  /\ UNCHANGED <<remote, tracking, repo, aside, task, changed, result>>

\* The branch of the project's kind, which the remote has, is checked out.
Checkout ==
  /\ pc = "checkout"
  /\ branch' = RequiredBranch(tree)
  /\ tracking[branch'] # NoBranch
  /\ GitCheckout(branch')
  /\ pc' = "pull"
  /\ UNCHANGED <<remote, tracking, repo, aside, task, changed, result>>

\* _checkout_branch: git refuses because of local changes.
CheckoutBlocked ==
  /\ pc = "checkout"
  /\ branch' = RequiredBranch(tree)
  /\ tracking[branch'] # NoBranch
  /\ Dirty # {}
  /\ CommitOf(branch') # local[head]
  /\ pc' = "stash"
  /\ UNCHANGED <<refVars, repo, head, tree, aside, task, changed, result>>

\* Mutant of Stash: git reset --hard.
StashDropped ==
  /\ pc = "stash"
  /\ tree' = TreeOf(local[head])
  /\ pc' = "stashed"
  /\ UNCHANGED <<refVars, repo, head, aside, task, branch, changed, result>>

\* git stash push -u puts the changes away: for good, nothing takes them out.
Stash ==
  /\ pc = "stash"
  /\ stash' = stash \cup Dirty
  /\ tree' = TreeOf(local[head])
  /\ pc' = "stashed"
  /\ UNCHANGED <<refVars, repo, head, orphan, task, branch, changed, result>>

\* ... and the branch, still that of the kind before, is checked out again.
CheckoutAgain ==
  /\ pc = "stashed"
  /\ GitCheckout(branch)
  /\ pc' = "pull"
  /\ UNCHANGED <<remote, tracking, repo, aside, task, branch, changed, result>>

\* Mutant of Pull: the branch is checked out and not pulled.
SkipPull ==
  /\ pc = "pull"
  /\ pc' = "agent"
  /\ UNCHANGED <<refVars, repo, head, tree, aside, task, branch, changed,
                 result>>

\* pull: the remote's changes join the branch and the working tree.
Pull ==
  LET new == TreeOf(remote[branch]) \ TreeOf(local[branch])
  IN /\ pc = "pull"
     /\ Dirty \cap new = {}
     /\ tracking' = [tracking EXCEPT ![branch] = remote[branch]]
     /\ local' = [local EXCEPT ![branch] = @ \cup new]
     /\ tree' = tree \cup new
     /\ pc' = "agent"
     /\ UNCHANGED <<remote, repo, head, aside, task, branch, changed, result>>

\* Any command fails and leaves what those before it have done, a pull would
\* have to merge and refuses, or the branch the project's kind requires is
\* missing on the remote.
SyncFails ==
  /\ pc \in {"fetch", "checkout", "stash", "stashed", "pull"}
  /\ End("failure")
  /\ UNCHANGED <<refVars, repo, head, tree, aside, task, branch, changed>>

-----------------------------------------------------------------------------
(* The agent.                                                              *)

\* The agent works on the task, whether it succeeds or not: it makes the task's
\* change, unless it is there, and it may add a package.json.
Work(files) ==
  /\ pc = "agent"
  /\ tree' = tree \cup files
  /\ changed' = (files \subseteq tree => changed)

AgentSucceeds(files) ==
  /\ Work(files)
  /\ pc' = "publish"
  /\ UNCHANGED <<refVars, repo, head, aside, task, branch, result>>

\* _publish_github returns at once for a result that is not a success.
AgentFails(files) ==
  /\ Work(files)
  /\ End("failure")
  /\ UNCHANGED <<refVars, repo, head, aside, task, branch>>

-----------------------------------------------------------------------------
(* After the agent: publish_task_changes.                                  *)

\* Mutant of Publish: the branch of the sync, not that of the kind by now.
PublishToSynced ==
  /\ pc = "publish"
  /\ tracking' \in {tracking, remote}
  /\ IF Dirty = {}
     THEN local' = local /\ End("success")
     ELSE /\ local' = [local EXCEPT ![head] = tree]
          /\ pc' = "push"
          /\ result' = result
  /\ UNCHANGED <<remote, repo, head, tree, aside, task, branch, changed>>

\* The kind is inferred again, after a fetch that may fail.  Only on the branch
\* it requires is there a commit of all that changed; without a change there
\* is nothing to push.
Publish ==
  LET b == RequiredBranch(tree)
  IN /\ pc = "publish"
     /\ tracking' \in {tracking, remote}
     /\ tracking'[b] # NoBranch
     /\ head = b
     /\ IF Dirty = {}
        THEN local' = local /\ End("success")
        ELSE /\ local' = [local EXCEPT ![b] = tree]
             /\ pc' = "push"
             /\ result' = result
     /\ UNCHANGED <<remote, repo, head, tree, aside, task, branch, changed>>

\* The branch is missing or not the one checked out, or status, add or commit
\* fails.
PublishFails ==
  /\ pc = "publish"
  /\ End("failure")
  /\ UNCHANGED <<refVars, repo, head, tree, aside, task, branch, changed>>

\* The remote takes a push that contains what it has; the answer may be lost.
Push(answered) ==
  /\ pc = "push"
  /\ TreeOf(remote[head]) \subseteq local[head]
  /\ remote' = [remote EXCEPT ![head] = local[head]]
  /\ End(IF answered THEN "success" ELSE "failure")
  /\ UNCHANGED <<tracking, local, repo, head, tree, aside, task, branch,
                 changed>>

\* Mutant of PushFails: the commit counts as published.
PushFailureIgnored ==
  /\ pc = "push"
  /\ End("success")
  /\ UNCHANGED <<refVars, repo, head, tree, aside, task, branch, changed>>

\* The push is rejected, because developers were faster, or fails otherwise.
\* The commit stays.
PushFails ==
  /\ pc = "push"
  /\ End("failure")
  /\ UNCHANGED <<refVars, repo, head, tree, aside, task, branch, changed>>

-----------------------------------------------------------------------------
(* What happens meanwhile.                                                 *)

\* The bridge stops, between any two commands or in the clone, and is started
\* again.
Restart ==
  /\ pc # "idle"
  /\ repo' = repo \/ (pc = "clone" /\ repo' = "clone")
  /\ End("none")
  /\ UNCHANGED <<refVars, head, tree, aside, task, branch, changed>>

\* A developer pushes a change, or starts staging from main.
DeveloperPushes(b, c) ==
  /\ remote[b] # NoBranch
  /\ remote' = [remote EXCEPT ![b] = @ \cup {c}]
  /\ UNCHANGED <<tracking, local, repo, head, tree, aside, pc, task, branch,
                 changed, result>>

DeveloperAddsStaging ==
  /\ remote["staging"] = NoBranch
  /\ remote' = [remote EXCEPT !["staging"] = remote["main"]]
  /\ UNCHANGED <<tracking, local, repo, head, tree, aside, pc, task, branch,
                 changed, result>>

-----------------------------------------------------------------------------
Sync ==
  \/ \E t \in Tasks : StartAttempt(t)
  \/ FindRepository \/ SetAside \/ Clone \/ CloneFails
  \/ Fetch \/ Checkout \/ CheckoutBlocked \/ Stash \/ CheckoutAgain
  \/ Pull \/ SyncFails

Next ==
  \/ Sync
  \/ \E files \in {{task}, {task, Pkg}, {}} :
       AgentSucceeds(files) \/ AgentFails(files)
  \/ Publish \/ PublishFails
  \/ (\E answered \in BOOLEAN : Push(answered)) \/ PushFails
  \/ Restart
  \/ \E b \in Branches, c \in DevPushes : DeveloperPushes(b, c)
  \/ DeveloperAddsStaging

Spec == Init /\ [][Next]_vars

-----------------------------------------------------------------------------
(* Properties.                                                             *)

\* The branches the bridge pushes: a step that ends a push and moved a branch.
Pushed(b) == pc = "push" /\ pc' = "idle" /\ remote'[b] # remote[b]

\* "Node.js -> main; static HTML -> staging (never the opposite)"
\* (github_publisher.py:242), of the tree that arrives there, although the kind
\* is inferred twice, from a tree that checkouts, pulls and the agent change.
NeverTheOpposite ==
  [][\A b \in Branches : Pushed(b) => b = RequiredBranch(remote'[b])]_vars

\* Wherever an attempt stops, also after the stash and before the checkout that
\* follows it, what agents have done is still somewhere: in the working tree, a
\* commit, the stash, a backup or on the remote.
Kept ==
  {c \in Changes :
     \/ c \in tree \/ c \in stash \/ c \in orphan
     \/ \E b \in Branches : c \in TreeOf(local[b]) \/ c \in TreeOf(remote[b])}
NothingLost == [][Kept \subseteq Kept']_vars

\* A success leaves nothing to commit, and if its agent changed anything, then
\* all of it is on the remote, however often pushes failed or the bridge
\* restarted before.
SuccessIsPublished ==
  pc = "idle" /\ result = "success" =>
    /\ Dirty = {}
    /\ changed => tree \subseteq TreeOf(remote[head])

\* The agent is told that its branch is "already checked out and pulled by the
\* bridge" (agent_runner.py:135): it finds there what the last pull found, and
\* whatever was left of earlier attempts does not hide it.
AgentSeesBranch ==
  pc = "agent" => head = branch /\ TreeOf(tracking[branch]) \subseteq tree

\* "push_ok is True if no changes needed OR push succeeded"
\* (github_publisher.py:581): after a success the remote has every commit.
ReportedIsPushed ==
  pc = "idle" /\ result = "success" =>
    TreeOf(local[head]) \subseteq TreeOf(remote[head])
-----------------------------------------------------------------------------
(* The inductive invariant behind TypeOK and SuccessIsPublished.           *)

\* What is known of the repository at any time: GitHub has main, there is no
\* branch without a clone, a clone starts from nothing, and what is checked out
\* is in the tree.
RepositoryOK ==
  /\ remote["main"] # NoBranch
  /\ repo # "clone" => \A b \in Branches : local[b] = NoBranch
  /\ pc = "clone" => repo = "none" /\ tree = {}
  /\ pc \notin {"idle", "prepare", "clone"} => repo = "clone"
  /\ TreeOf(local[head]) \subseteq tree

\* What is known of the attempt: the branch it stashes for is on the remote, an
\* agent that changed the tree left it dirty, and what is being pushed is all
\* of the tree, on the branch of its kind.
AttemptOK ==
  /\ pc \notin {"idle", "publish", "push"} => ~changed
  /\ pc \in {"stash", "stashed"} => tracking[branch] # NoBranch
  /\ pc = "stashed" => Dirty = {}
  /\ pc = "publish" /\ changed => Dirty # {}
  /\ pc = "push" => local[head] = tree /\ head = RequiredBranch(tree)

\* The inductive invariant.  SuccessIsPublished needs both parts: a clean tree
\* after a change would be a success without a push.
GitInv ==
  /\ TypeOK
  /\ RepositoryOK
  /\ AttemptOK
  /\ SuccessIsPublished
-----------------------------------------------------------------------------
(* Refinement: the bridge implements PublishContract.                      *)

Contract == INSTANCE PublishContract WITH
  github <- remote, work <- tree, known <- Kept, working <- pc # "idle",
  told <- result

\* Whatever git commands fail, whatever was left in the workspace and whatever
\* developers push meanwhile, the bridge keeps the contract: all of the
\* workspace goes to the branch of its kind, or nothing does, and a success is
\* there.
KeepsPublishContract == Contract!Spec

\* A developer's commit is never pushed over: GitHub's branches only grow.
NothingOverwritten ==
  [][\A b \in Branches :
       TreeOf(remote[b]) \subseteq TreeOf(remote'[b])]_vars

\* What the contract needs beyond GitInv: a local branch starts at what was
\* once on GitHub and so is known.
TrackingIsOld ==
  \A b \in Branches : TreeOf(tracking[b]) \subseteq TreeOf(remote[b])
=============================================================================
