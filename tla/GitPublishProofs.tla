-------------------------- MODULE GitPublishProofs --------------------------
(***************************************************************************)
(* Proofs about GitPublish, for any set of tasks: GitInv is inductive, and *)
(* with it the type invariant, SuccessIsPublished and NeverTheOpposite;    *)
(* NothingLost and AgentSeesBranch need no more than it.  GitPublish       *)
(* implements PublishContract, which has all of that but the last.         *)
(***************************************************************************)
EXTENDS GitPublish, TLAPS

\* The next-state relation as a disjunction of its actions, for any step.
LEMMA NextCases ==
  ASSUME TypeOK, Next
  PROVE
    \/ (\E t \in Tasks : StartAttempt(t))
    \/ FindRepository
    \/ SetAside
    \/ Clone
    \/ CloneFails
    \/ Fetch
    \/ Checkout
    \/ CheckoutBlocked
    \/ Stash
    \/ CheckoutAgain
    \/ Pull
    \/ SyncFails
    \/ (\E files \in SUBSET {task, Pkg} : AgentSucceeds(files))
    \/ (\E files \in SUBSET {task, Pkg} : AgentFails(files))
    \/ Publish
    \/ PublishFails
    \/ (\E answered \in BOOLEAN : Push(answered))
    \/ PushFails
    \/ Restart
    \/ (\E b \in Branches, c \in {Dev, Pkg} : DeveloperPushes(b, c))
    \/ DeveloperAddsStaging
<1>1. {{task}, {task, Pkg}, {}} \subseteq SUBSET {task, Pkg}
  OBVIOUS
<1>2. DevPushes \subseteq {Dev, Pkg}
  BY DevPushesType
<1> QED
  BY <1>1, <1>2 DEF Next, Sync

-----------------------------------------------------------------------------
(* One lemma per part of GitInv, with a step per action.                   *)
\* No step leaves the types.
LEMMA TypeOKKept ==
  ASSUME GitInv, Next
  PROVE  TypeOK'
<1> USE NoBranchIsNoTree, ChangesDistinct DEF GitInv, TypeOK, RepositoryOK,
    AttemptOK, SuccessIsPublished, TreeOf, Dirty, RequiredBranch, Refs, Tree,
    Changes, Branches, refVars, aside
<1>1. ASSUME NEW t \in Tasks, StartAttempt(t) PROVE TypeOK'
  BY <1>1 DEF StartAttempt
<1>2. ASSUME FindRepository PROVE TypeOK'
  BY <1>2 DEF FindRepository
<1>3. ASSUME SetAside PROVE TypeOK'
  BY <1>3 DEF SetAside
<1>4. ASSUME Clone PROVE TypeOK'
  BY <1>4 DEF Clone
<1>5. ASSUME CloneFails PROVE TypeOK'
  BY <1>5 DEF CloneFails, End
<1>6. ASSUME Fetch PROVE TypeOK'
  BY <1>6 DEF Fetch
<1>7. ASSUME Checkout PROVE TypeOK'
  BY <1>7 DEF Checkout, GitCheckout, CommitOf
<1>8. ASSUME CheckoutBlocked PROVE TypeOK'
  BY <1>8 DEF CheckoutBlocked
<1>9. ASSUME Stash PROVE TypeOK'
  BY <1>9 DEF Stash
<1>10. ASSUME CheckoutAgain PROVE TypeOK'
  BY <1>10 DEF CheckoutAgain, GitCheckout, CommitOf
<1>11. ASSUME Pull PROVE TypeOK'
  BY <1>11 DEF Pull
<1>12. ASSUME SyncFails PROVE TypeOK'
  BY <1>12 DEF SyncFails, End
<1>13. ASSUME NEW files \in SUBSET {task, Pkg}, AgentSucceeds(files)
      PROVE TypeOK'
  BY <1>13 DEF AgentSucceeds, Work
<1>14. ASSUME NEW files \in SUBSET {task, Pkg}, AgentFails(files) PROVE TypeOK'
  BY <1>14 DEF AgentFails, Work, End
<1>15. ASSUME Publish PROVE TypeOK'
  BY <1>15 DEF Publish, End
<1>16. ASSUME PublishFails PROVE TypeOK'
  BY <1>16 DEF PublishFails, End
<1>17. ASSUME NEW answered \in BOOLEAN, Push(answered) PROVE TypeOK'
  BY <1>17 DEF Push, End
<1>18. ASSUME PushFails PROVE TypeOK'
  BY <1>18 DEF PushFails, End
<1>19. ASSUME Restart PROVE TypeOK'
  BY <1>19 DEF Restart, End
<1>20. ASSUME NEW b \in Branches, NEW c \in {Dev, Pkg}, DeveloperPushes(b, c)
       PROVE TypeOK'
  BY <1>20 DEF DeveloperPushes
<1>21. ASSUME DeveloperAddsStaging PROVE TypeOK'
  BY <1>21 DEF DeveloperAddsStaging
<1> QED
  BY <1>1, <1>2, <1>3, <1>4, <1>5, <1>6, <1>7, <1>8, <1>9, <1>10, <1>11,
     <1>12, <1>13, <1>14, <1>15, <1>16, <1>17, <1>18, <1>19, <1>20, <1>21,
     NextCases

\* No step breaks what is known of the repository.
LEMMA RepositoryOKKept ==
  ASSUME GitInv, Next
  PROVE  RepositoryOK'
<1> USE NoBranchIsNoTree, ChangesDistinct DEF GitInv, TypeOK, RepositoryOK,
    AttemptOK, SuccessIsPublished, TreeOf, Dirty, RequiredBranch, Refs, Tree,
    Changes, Branches, refVars, aside
<1>1. ASSUME NEW t \in Tasks, StartAttempt(t) PROVE RepositoryOK'
  BY <1>1 DEF StartAttempt
<1>2. ASSUME FindRepository PROVE RepositoryOK'
  BY <1>2 DEF FindRepository
<1>3. ASSUME SetAside PROVE RepositoryOK'
  BY <1>3 DEF SetAside
<1>4. ASSUME Clone PROVE RepositoryOK'
  BY <1>4 DEF Clone
<1>5. ASSUME CloneFails PROVE RepositoryOK'
  BY <1>5 DEF CloneFails, End
<1>6. ASSUME Fetch PROVE RepositoryOK'
  BY <1>6 DEF Fetch
<1>7. ASSUME Checkout PROVE RepositoryOK'
  BY <1>7 DEF Checkout, GitCheckout, CommitOf
<1>8. ASSUME CheckoutBlocked PROVE RepositoryOK'
  BY <1>8 DEF CheckoutBlocked
<1>9. ASSUME Stash PROVE RepositoryOK'
  BY <1>9 DEF Stash
<1>10. ASSUME CheckoutAgain PROVE RepositoryOK'
  BY <1>10 DEF CheckoutAgain, GitCheckout, CommitOf
<1>11. ASSUME Pull PROVE RepositoryOK'
  BY <1>11 DEF Pull
<1>12. ASSUME SyncFails PROVE RepositoryOK'
  BY <1>12 DEF SyncFails, End
<1>13. ASSUME NEW files \in SUBSET {task, Pkg}, AgentSucceeds(files)
      PROVE RepositoryOK'
  BY <1>13 DEF AgentSucceeds, Work
<1>14. ASSUME NEW files \in SUBSET {task, Pkg}, AgentFails(files)
       PROVE RepositoryOK'
  BY <1>14 DEF AgentFails, Work, End
<1>15. ASSUME Publish PROVE RepositoryOK'
  BY <1>15 DEF Publish, End
<1>16. ASSUME PublishFails PROVE RepositoryOK'
  BY <1>16 DEF PublishFails, End
<1>17. ASSUME NEW answered \in BOOLEAN, Push(answered) PROVE RepositoryOK'
  BY <1>17 DEF Push, End
<1>18. ASSUME PushFails PROVE RepositoryOK'
  BY <1>18 DEF PushFails, End
<1>19. ASSUME Restart PROVE RepositoryOK'
  BY <1>19 DEF Restart, End
<1>20. ASSUME NEW b \in Branches, NEW c \in {Dev, Pkg}, DeveloperPushes(b, c)
       PROVE RepositoryOK'
  BY <1>20 DEF DeveloperPushes
<1>21. ASSUME DeveloperAddsStaging PROVE RepositoryOK'
  BY <1>21 DEF DeveloperAddsStaging
<1> QED
  BY <1>1, <1>2, <1>3, <1>4, <1>5, <1>6, <1>7, <1>8, <1>9, <1>10, <1>11,
     <1>12, <1>13, <1>14, <1>15, <1>16, <1>17, <1>18, <1>19, <1>20, <1>21,
     NextCases

\* No step breaks what is known of the attempt.
LEMMA AttemptOKKept ==
  ASSUME GitInv, Next
  PROVE  AttemptOK'
<1> USE NoBranchIsNoTree, ChangesDistinct DEF GitInv, TypeOK, RepositoryOK,
    AttemptOK, SuccessIsPublished, TreeOf, Dirty, RequiredBranch, Refs, Tree,
    Changes, Branches, refVars, aside
<1>1. ASSUME NEW t \in Tasks, StartAttempt(t) PROVE AttemptOK'
  BY <1>1 DEF StartAttempt
<1>2. ASSUME FindRepository PROVE AttemptOK'
  BY <1>2 DEF FindRepository
<1>3. ASSUME SetAside PROVE AttemptOK'
  BY <1>3 DEF SetAside
<1>4. ASSUME Clone PROVE AttemptOK'
  BY <1>4 DEF Clone
<1>5. ASSUME CloneFails PROVE AttemptOK'
  BY <1>5 DEF CloneFails, End
<1>6. ASSUME Fetch PROVE AttemptOK'
  BY <1>6 DEF Fetch
<1>7. ASSUME Checkout PROVE AttemptOK'
  BY <1>7 DEF Checkout, GitCheckout, CommitOf
<1>8. ASSUME CheckoutBlocked PROVE AttemptOK'
  BY <1>8 DEF CheckoutBlocked
<1>9. ASSUME Stash PROVE AttemptOK'
  BY <1>9 DEF Stash
<1>10. ASSUME CheckoutAgain PROVE AttemptOK'
  BY <1>10 DEF CheckoutAgain, GitCheckout, CommitOf
<1>11. ASSUME Pull PROVE AttemptOK'
  BY <1>11 DEF Pull
<1>12. ASSUME SyncFails PROVE AttemptOK'
  BY <1>12 DEF SyncFails, End
<1>13. ASSUME NEW files \in SUBSET {task, Pkg}, AgentSucceeds(files)
      PROVE AttemptOK'
  BY <1>13 DEF AgentSucceeds, Work
<1>14. ASSUME NEW files \in SUBSET {task, Pkg}, AgentFails(files)
       PROVE AttemptOK'
  BY <1>14 DEF AgentFails, Work, End
<1>15. ASSUME Publish PROVE AttemptOK'
  BY <1>15 DEF Publish, End
<1>16. ASSUME PublishFails PROVE AttemptOK'
  BY <1>16 DEF PublishFails, End
<1>17. ASSUME NEW answered \in BOOLEAN, Push(answered) PROVE AttemptOK'
  BY <1>17 DEF Push, End
<1>18. ASSUME PushFails PROVE AttemptOK'
  BY <1>18 DEF PushFails, End
<1>19. ASSUME Restart PROVE AttemptOK'
  BY <1>19 DEF Restart, End
<1>20. ASSUME NEW b \in Branches, NEW c \in {Dev, Pkg}, DeveloperPushes(b, c)
       PROVE AttemptOK'
  BY <1>20 DEF DeveloperPushes
<1>21. ASSUME DeveloperAddsStaging PROVE AttemptOK'
  BY <1>21 DEF DeveloperAddsStaging
<1> QED
  BY <1>1, <1>2, <1>3, <1>4, <1>5, <1>6, <1>7, <1>8, <1>9, <1>10, <1>11,
     <1>12, <1>13, <1>14, <1>15, <1>16, <1>17, <1>18, <1>19, <1>20, <1>21,
     NextCases

\* A success stays published until the next attempt starts.
LEMMA SuccessIsPublishedKept ==
  ASSUME GitInv, Next
  PROVE  SuccessIsPublished'
<1> USE NoBranchIsNoTree, ChangesDistinct DEF GitInv, TypeOK, RepositoryOK,
    AttemptOK, SuccessIsPublished, TreeOf, Dirty, RequiredBranch, Refs, Tree,
    Changes, Branches, refVars, aside
<1>1. ASSUME NEW t \in Tasks, StartAttempt(t) PROVE SuccessIsPublished'
  BY <1>1 DEF StartAttempt
<1>2. ASSUME FindRepository PROVE SuccessIsPublished'
  BY <1>2 DEF FindRepository
<1>3. ASSUME SetAside PROVE SuccessIsPublished'
  BY <1>3 DEF SetAside
<1>4. ASSUME Clone PROVE SuccessIsPublished'
  BY <1>4 DEF Clone
<1>5. ASSUME CloneFails PROVE SuccessIsPublished'
  BY <1>5 DEF CloneFails, End
<1>6. ASSUME Fetch PROVE SuccessIsPublished'
  BY <1>6 DEF Fetch
<1>7. ASSUME Checkout PROVE SuccessIsPublished'
  BY <1>7 DEF Checkout, GitCheckout, CommitOf
<1>8. ASSUME CheckoutBlocked PROVE SuccessIsPublished'
  BY <1>8 DEF CheckoutBlocked
<1>9. ASSUME Stash PROVE SuccessIsPublished'
  BY <1>9 DEF Stash
<1>10. ASSUME CheckoutAgain PROVE SuccessIsPublished'
  BY <1>10 DEF CheckoutAgain, GitCheckout, CommitOf
<1>11. ASSUME Pull PROVE SuccessIsPublished'
  BY <1>11 DEF Pull
<1>12. ASSUME SyncFails PROVE SuccessIsPublished'
  BY <1>12 DEF SyncFails, End
<1>13. ASSUME NEW files \in SUBSET {task, Pkg}, AgentSucceeds(files)
      PROVE SuccessIsPublished'
  BY <1>13 DEF AgentSucceeds, Work
<1>14. ASSUME NEW files \in SUBSET {task, Pkg}, AgentFails(files)
       PROVE SuccessIsPublished'
  BY <1>14 DEF AgentFails, Work, End
<1>15. ASSUME Publish PROVE SuccessIsPublished'
  BY <1>15 DEF Publish, End
<1>16. ASSUME PublishFails PROVE SuccessIsPublished'
  BY <1>16 DEF PublishFails, End
<1>17. ASSUME NEW answered \in BOOLEAN, Push(answered)
       PROVE SuccessIsPublished'
  BY <1>17 DEF Push, End
<1>18. ASSUME PushFails PROVE SuccessIsPublished'
  BY <1>18 DEF PushFails, End
<1>19. ASSUME Restart PROVE SuccessIsPublished'
  BY <1>19 DEF Restart, End
<1>20. ASSUME NEW b \in Branches, NEW c \in {Dev, Pkg}, DeveloperPushes(b, c)
       PROVE SuccessIsPublished'
  BY <1>20 DEF DeveloperPushes
<1>21. ASSUME DeveloperAddsStaging PROVE SuccessIsPublished'
  BY <1>21 DEF DeveloperAddsStaging
<1> QED
  BY <1>1, <1>2, <1>3, <1>4, <1>5, <1>6, <1>7, <1>8, <1>9, <1>10, <1>11,
     <1>12, <1>13, <1>14, <1>15, <1>16, <1>17, <1>18, <1>19, <1>20, <1>21,
     NextCases

\* No step hides from the agent what the last pull found.
LEMMA AgentSeesBranchKept ==
  ASSUME GitInv, AgentSeesBranch, Next
  PROVE  AgentSeesBranch'
<1> USE NoBranchIsNoTree, ChangesDistinct DEF GitInv, TypeOK, RepositoryOK,
    AttemptOK, AgentSeesBranch, TreeOf, Dirty, RequiredBranch, Refs, Tree,
    Changes, Branches, refVars, aside
<1>1. ASSUME NEW t \in Tasks, StartAttempt(t) PROVE AgentSeesBranch'
  BY <1>1 DEF StartAttempt
<1>2. ASSUME FindRepository PROVE AgentSeesBranch'
  BY <1>2 DEF FindRepository
<1>3. ASSUME SetAside PROVE AgentSeesBranch'
  BY <1>3 DEF SetAside
<1>4. ASSUME Clone PROVE AgentSeesBranch'
  BY <1>4 DEF Clone
<1>5. ASSUME CloneFails PROVE AgentSeesBranch'
  BY <1>5 DEF CloneFails, End
<1>6. ASSUME Fetch PROVE AgentSeesBranch'
  BY <1>6 DEF Fetch
<1>7. ASSUME Checkout PROVE AgentSeesBranch'
  BY <1>7 DEF Checkout, GitCheckout, CommitOf
<1>8. ASSUME CheckoutBlocked PROVE AgentSeesBranch'
  BY <1>8 DEF CheckoutBlocked
<1>9. ASSUME Stash PROVE AgentSeesBranch'
  BY <1>9 DEF Stash
<1>10. ASSUME CheckoutAgain PROVE AgentSeesBranch'
  BY <1>10 DEF CheckoutAgain, GitCheckout, CommitOf
<1>11. ASSUME Pull PROVE AgentSeesBranch'
  BY <1>11 DEF Pull
<1>12. ASSUME SyncFails PROVE AgentSeesBranch'
  BY <1>12 DEF SyncFails, End
<1>13. ASSUME NEW files \in SUBSET {task, Pkg}, AgentSucceeds(files)
      PROVE AgentSeesBranch'
  BY <1>13 DEF AgentSucceeds, Work
<1>14. ASSUME NEW files \in SUBSET {task, Pkg}, AgentFails(files)
       PROVE AgentSeesBranch'
  BY <1>14 DEF AgentFails, Work, End
<1>15. ASSUME Publish PROVE AgentSeesBranch'
  BY <1>15 DEF Publish, End
<1>16. ASSUME PublishFails PROVE AgentSeesBranch'
  BY <1>16 DEF PublishFails, End
<1>17. ASSUME NEW answered \in BOOLEAN, Push(answered)
       PROVE AgentSeesBranch'
  BY <1>17 DEF Push, End
<1>18. ASSUME PushFails PROVE AgentSeesBranch'
  BY <1>18 DEF PushFails, End
<1>19. ASSUME Restart PROVE AgentSeesBranch'
  BY <1>19 DEF Restart, End
<1>20. ASSUME NEW b \in Branches, NEW c \in {Dev, Pkg}, DeveloperPushes(b, c)
       PROVE AgentSeesBranch'
  BY <1>20 DEF DeveloperPushes
<1>21. ASSUME DeveloperAddsStaging PROVE AgentSeesBranch'
  BY <1>21 DEF DeveloperAddsStaging
<1> QED
  BY <1>1, <1>2, <1>3, <1>4, <1>5, <1>6, <1>7, <1>8, <1>9, <1>10, <1>11,
     <1>12, <1>13, <1>14, <1>15, <1>16, <1>17, <1>18, <1>19, <1>20, <1>21,
     NextCases

-----------------------------------------------------------------------------
\* GitInv is an invariant.
THEOREM GitInductive == Spec => []GitInv
<1>1. Init => GitInv
  <2> SUFFICES ASSUME Init PROVE GitInv
    OBVIOUS
  <2>1. PICK main \in SUBSET {Pkg} : \E staging \in {main, NoBranch} :
          remote = [b \in Branches |-> IF b = "main" THEN main ELSE staging]
    BY DEF Init
  <2>2. main \in Tree /\ main # NoBranch
    BY NoBranchIsNoTree DEF Tree, Changes
  <2>3. remote \in Refs /\ remote["main"] # NoBranch
    BY <2>1, <2>2 DEF Refs, Branches
  <2>4. tracking \in Refs /\ local \in Refs
    BY DEF Init, Refs
  <2>5. tree \in Tree /\ stash \in Tree /\ orphan \in Tree
    BY DEF Init, Tree, Changes
  <2>6. TypeOK
    BY <2>3, <2>4, <2>5 DEF Init, TypeOK, Branches
  <2>7. RepositoryOK
    BY <2>3 DEF Init, RepositoryOK, TreeOf, Branches
  <2>8. AttemptOK /\ SuccessIsPublished
    BY DEF Init, AttemptOK, SuccessIsPublished
  <2> QED
    BY <2>6, <2>7, <2>8 DEF GitInv
<1>2. GitInv /\ [Next]_vars => GitInv'
  <2> SUFFICES ASSUME GitInv, [Next]_vars PROVE GitInv'
    OBVIOUS
  <2>1. CASE Next
    BY <2>1, TypeOKKept, RepositoryOKKept, AttemptOKKept,
       SuccessIsPublishedKept DEF GitInv
  <2>2. CASE UNCHANGED vars
    BY <2>2 DEF vars, refVars, aside, GitInv, TypeOK, RepositoryOK, AttemptOK,
                SuccessIsPublished, TreeOf, Dirty, RequiredBranch
  <2> QED
    BY <2>1, <2>2
<1> QED
  BY <1>1, <1>2, PTL DEF Spec

\* TypeOK, for any set of tasks.
THEOREM GitTypeCorrect == Spec => []TypeOK
<1>1. GitInv => TypeOK
  BY DEF GitInv
<1> QED
  BY <1>1, GitInductive, PTL

\* A success has published what its agent changed and left nothing to commit.
THEOREM SuccessPublishes == Spec => []SuccessIsPublished
<1>1. GitInv => SuccessIsPublished
  BY DEF GitInv
<1> QED
  BY <1>1, GitInductive, PTL

\* What the bridge pushes to main has a package.json, and what it pushes to
\* staging has none.
THEOREM PushesByKind == Spec => NeverTheOpposite
<1> DEFINE OfKind == \A b \in Branches : Pushed(b) => b =
   RequiredBranch(remote'[b])
<1>1. GitInv /\ [Next]_vars => OfKind
  <2> SUFFICES ASSUME GitInv, [Next]_vars, NEW b \in Branches, Pushed(b)
               PROVE  b = RequiredBranch(remote'[b])
    OBVIOUS
  <2>1. pc = "push" /\ pc' = "idle" /\ remote'[b] # remote[b]
    BY DEF Pushed
  <2>2. Next
    BY <2>1 DEF vars, refVars
  <2>3. PICK answered \in BOOLEAN : Push(answered)
    BY <2>1, <2>2, NextCases
       DEF GitInv, StartAttempt, FindRepository, SetAside, Clone, CloneFails,
           Fetch, Checkout, CheckoutBlocked, Stash, CheckoutAgain, Pull,
           SyncFails, AgentSucceeds, AgentFails, Publish,
           PublishFails, PushFails, Restart, DeveloperPushes,
           DeveloperAddsStaging, refVars
  <2>4. remote \in Refs /\ head \in Branches
    BY DEF GitInv, TypeOK
  <2>5. remote'[head] = local[head] /\ b = head
    BY <2>1, <2>3, <2>4 DEF Push, Refs
  <2>6. local[head] = tree /\ head = RequiredBranch(tree)
    BY <2>1 DEF GitInv, AttemptOK
  <2> QED
    BY <2>5, <2>6
<1> QED
  BY <1>1, GitInductive, PTL DEF Spec, NeverTheOpposite

\* No step of the bridge, of git or of a developer loses a change.
THEOREM NoChangeLost == Spec => NothingLost
<1>1. GitInv /\ [Next]_vars => Kept \subseteq Kept'
  <2> USE NoBranchIsNoTree DEF GitInv, TypeOK, RepositoryOK, Kept, TreeOf,
      Dirty, RequiredBranch, Refs, Tree, Changes, Branches, refVars, aside
  <2>1. ASSUME GitInv, NEW t \in Tasks, StartAttempt(t)
        PROVE Kept \subseteq Kept'
    BY <2>1 DEF StartAttempt
  <2>2. ASSUME GitInv, FindRepository PROVE Kept \subseteq Kept'
    BY <2>2 DEF FindRepository
  <2>3. ASSUME GitInv, SetAside PROVE Kept \subseteq Kept'
    BY <2>3 DEF SetAside
  <2>4. ASSUME GitInv, Clone PROVE Kept \subseteq Kept'
    BY <2>4 DEF Clone
  <2>5. ASSUME GitInv, CloneFails PROVE Kept \subseteq Kept'
    BY <2>5 DEF CloneFails, End
  <2>6. ASSUME GitInv, Fetch PROVE Kept \subseteq Kept'
    BY <2>6 DEF Fetch
  <2>7. ASSUME GitInv, Checkout PROVE Kept \subseteq Kept'
    BY <2>7 DEF Checkout, GitCheckout, CommitOf
  <2>8. ASSUME GitInv, CheckoutBlocked PROVE Kept \subseteq Kept'
    BY <2>8 DEF CheckoutBlocked
  <2>9. ASSUME GitInv, Stash PROVE Kept \subseteq Kept'
    BY <2>9 DEF Stash
  <2>10. ASSUME GitInv, CheckoutAgain PROVE Kept \subseteq Kept'
    BY <2>10 DEF CheckoutAgain, GitCheckout, CommitOf
  <2>11. ASSUME GitInv, Pull PROVE Kept \subseteq Kept'
    BY <2>11 DEF Pull
  <2>12. ASSUME GitInv, SyncFails PROVE Kept \subseteq Kept'
    BY <2>12 DEF SyncFails, End
  <2>13. ASSUME GitInv, NEW files \in SUBSET {task, Pkg}, AgentSucceeds(files)
        PROVE Kept \subseteq Kept'
    BY <2>13 DEF AgentSucceeds, Work
  <2>14. ASSUME GitInv, NEW files \in SUBSET {task, Pkg}, AgentFails(files)
         PROVE Kept \subseteq Kept'
    BY <2>14 DEF AgentFails, Work, End
  <2>15. ASSUME GitInv, Publish PROVE Kept \subseteq Kept'
    BY <2>15 DEF Publish, End
  <2>16. ASSUME GitInv, PublishFails PROVE Kept \subseteq Kept'
    BY <2>16 DEF PublishFails, End
  <2>17. ASSUME GitInv, NEW answered \in BOOLEAN, Push(answered)
         PROVE Kept \subseteq Kept'
    BY <2>17 DEF Push, End
  <2>18. ASSUME GitInv, PushFails PROVE Kept \subseteq Kept'
    BY <2>18 DEF PushFails, End
  <2>19. ASSUME GitInv, Restart PROVE Kept \subseteq Kept'
    BY <2>19 DEF Restart, End
  <2>20. ASSUME GitInv, NEW b \in Branches, NEW c \in {Dev, Pkg}, DeveloperPushes(b, c)
         PROVE Kept \subseteq Kept'
    BY <2>20 DEF DeveloperPushes
  <2>21. ASSUME GitInv, DeveloperAddsStaging PROVE Kept \subseteq Kept'
    BY <2>21 DEF DeveloperAddsStaging
  <2>22. ASSUME UNCHANGED vars PROVE Kept \subseteq Kept'
    BY <2>22 DEF vars
  <2> QED
    BY <2>1, <2>2, <2>3, <2>4, <2>5, <2>6, <2>7, <2>8, <2>9, <2>10, <2>11,
       <2>12, <2>13, <2>14, <2>15, <2>16, <2>17, <2>18, <2>19, <2>20, <2>21,
       <2>22, NextCases
<1> QED
  BY <1>1, GitInductive, PTL DEF Spec, NothingLost

\* The agent finds what the last pull found.
THEOREM AgentSees == Spec => []AgentSeesBranch
<1>1. Init => AgentSeesBranch
  BY DEF Init, AgentSeesBranch
<1>2. GitInv /\ AgentSeesBranch /\ [Next]_vars => AgentSeesBranch'
  <2>1. ASSUME GitInv, AgentSeesBranch, Next
        PROVE  AgentSeesBranch'
    BY <2>1, AgentSeesBranchKept
  <2>2. ASSUME AgentSeesBranch, UNCHANGED vars
        PROVE  AgentSeesBranch'
    BY <2>2 DEF vars, refVars, AgentSeesBranch, TreeOf
  <2> QED
    BY <2>1, <2>2
<1> QED
  BY <1>1, <1>2, GitInductive, PTL DEF Spec

-----------------------------------------------------------------------------
(* Refinement of PublishContract.                                          *)

\* A developer's push adds just that to the branch.
LEMMA DeveloperAdds ==
  ASSUME TypeOK, NEW b \in Branches, NEW c \in {Dev, Pkg},
         DeveloperPushes(b, c)
  PROVE  TreeOf(remote'[b]) = TreeOf(remote[b]) \cup {c}
<1>1. remote[b] # NoBranch /\ remote'[b] = remote[b] \cup {c}
  BY DEF DeveloperPushes, TypeOK, Refs
<1>2. remote[b] \cup {c} \in SUBSET (Tasks \cup {Pkg, Dev})
  BY <1>1 DEF TypeOK, Refs, Tree, Changes
<1>3. remote'[b] # NoBranch
  BY <1>1, <1>2, NoBranchIsNoTree
<1> QED
  BY <1>1, <1>3 DEF TreeOf

\* Remote-tracking branches are copied from GitHub, whose branches grow.
LEMMA TrackingIsOldKept ==
  ASSUME GitInv, TrackingIsOld, Next
  PROVE  TrackingIsOld'
<1> USE NoBranchIsNoTree DEF GitInv, TypeOK, RepositoryOK, AttemptOK,
    TrackingIsOld, TreeOf, Refs, Tree, Branches, refVars, aside
<1>1. ASSUME UNCHANGED <<remote, tracking>> PROVE TrackingIsOld'
  BY <1>1
<1>2. ASSUME NEW t \in Tasks, StartAttempt(t) PROVE TrackingIsOld'
  BY <1>1, <1>2 DEF StartAttempt
<1>3. ASSUME FindRepository PROVE TrackingIsOld'
  BY <1>1, <1>3 DEF FindRepository
<1>4. ASSUME SetAside PROVE TrackingIsOld'
  BY <1>1, <1>4 DEF SetAside
<1>5. ASSUME Clone PROVE TrackingIsOld'
  BY <1>5 DEF Clone
<1>6. ASSUME CloneFails PROVE TrackingIsOld'
  BY <1>1, <1>6 DEF CloneFails
<1>7. ASSUME Fetch PROVE TrackingIsOld'
  BY <1>7 DEF Fetch
<1>8. ASSUME Checkout PROVE TrackingIsOld'
  BY <1>1, <1>8 DEF Checkout
<1>9. ASSUME CheckoutBlocked PROVE TrackingIsOld'
  BY <1>1, <1>9 DEF CheckoutBlocked
<1>10. ASSUME Stash PROVE TrackingIsOld'
  BY <1>1, <1>10 DEF Stash
<1>11. ASSUME CheckoutAgain PROVE TrackingIsOld'
  BY <1>1, <1>11 DEF CheckoutAgain
<1>12. ASSUME Pull PROVE TrackingIsOld'
  BY <1>12 DEF Pull
<1>13. ASSUME SyncFails PROVE TrackingIsOld'
  BY <1>1, <1>13 DEF SyncFails
<1>14. ASSUME NEW files \in SUBSET {task, Pkg}, AgentSucceeds(files)
       PROVE  TrackingIsOld'
  BY <1>1, <1>14 DEF AgentSucceeds
<1>15. ASSUME NEW files \in SUBSET {task, Pkg}, AgentFails(files)
       PROVE  TrackingIsOld'
  BY <1>1, <1>15 DEF AgentFails
<1>16. ASSUME Publish PROVE TrackingIsOld'
  BY <1>16 DEF Publish
<1>17. ASSUME PublishFails PROVE TrackingIsOld'
  BY <1>1, <1>17 DEF PublishFails
<1>18. ASSUME NEW answered \in BOOLEAN, Push(answered) PROVE TrackingIsOld'
  BY <1>18 DEF Push
<1>19. ASSUME PushFails PROVE TrackingIsOld'
  BY <1>1, <1>19 DEF PushFails
<1>20. ASSUME Restart PROVE TrackingIsOld'
  BY <1>1, <1>20 DEF Restart
<1>21. ASSUME NEW b \in Branches, NEW c \in {Dev, Pkg}, DeveloperPushes(b, c)
       PROVE  TrackingIsOld'
  <2>1. TreeOf(remote'[b]) = TreeOf(remote[b]) \cup {c}
    BY <1>21, DeveloperAdds
  <2>2. \A x \in Branches : x # b => remote'[x] = remote[x]
    BY <1>21 DEF DeveloperPushes
  <2>3. tracking' = tracking
    BY <1>21 DEF DeveloperPushes
  <2> QED
    BY <2>1, <2>2, <2>3
<1>22. ASSUME DeveloperAddsStaging PROVE TrackingIsOld'
  BY <1>22 DEF DeveloperAddsStaging
<1> QED
  BY <1>2, <1>3, <1>4, <1>5, <1>6, <1>7, <1>8, <1>9, <1>10, <1>11, <1>12,
     <1>13, <1>14, <1>15, <1>16, <1>17, <1>18, <1>19, <1>20, <1>21, <1>22,
     NextCases

\* What each step is to the contract.
LEMMA NextContract ==
  ASSUME GitInv, GitInv', TrackingIsOld, Next
  PROVE  [Contract!Next]_(Contract!vars)
<1> USE NoBranchIsNoTree, ChangesDistinct DEF GitInv, TypeOK, RepositoryOK,
    AttemptOK, Refs, Tree, Branches, refVars, aside
<1> USE DEF Contract!Branches, Contract!GoesOn, Contract!Ends
<1>0. tree \subseteq Kept
  BY DEF Kept
<1>1. ASSUME NEW t \in Tasks, StartAttempt(t) PROVE Contract!Begin
  BY <1>1 DEF StartAttempt, Contract!Begin, Kept
<1>2. ASSUME FindRepository PROVE UNCHANGED Contract!vars
  BY <1>2 DEF FindRepository, Contract!vars, Kept
<1>3. ASSUME SetAside PROVE Contract!Synchronise
  <2>1. Kept' = Kept
    BY <1>3 DEF SetAside, Kept
  <2> QED
    BY <1>3, <2>1 DEF SetAside, Contract!Synchronise
<1>4. ASSUME Clone PROVE Contract!Synchronise
  <2>1. Kept' = Kept
    BY <1>4 DEF Clone, Kept, TreeOf
  <2>2. tree' \subseteq Kept
    BY <1>4 DEF Clone, Kept, TreeOf
  <2> QED
    BY <1>4, <2>1, <2>2 DEF Clone, Contract!Synchronise
<1>5. ASSUME CloneFails PROVE Contract!Synchronise
  <2>1. Kept' = Kept
    BY <1>5 DEF CloneFails, Kept, TreeOf
  <2> QED
    BY <1>5, <2>1 DEF CloneFails, End, Contract!Synchronise
<1>6. ASSUME Fetch PROVE UNCHANGED Contract!vars
  BY <1>6 DEF Fetch, Contract!vars, Kept
<1>7. ASSUME NEW b \in Branches, tracking[b] # NoBranch, GitCheckout(b),
             UNCHANGED <<remote, tracking, aside>>
      PROVE  Kept' = Kept /\ tree' \subseteq Kept
  <2>1. CommitOf(b) \subseteq Kept
    BY <1>7 DEF CommitOf, Kept, TreeOf, TrackingIsOld
  <2>2. tree' \subseteq Kept
    BY <1>0, <1>7, <2>1 DEF GitCheckout, Dirty
  <2>3. CommitOf(b) # NoBranch
    BY <1>7 DEF CommitOf
  <2>4. \A x \in Branches : TreeOf(local[x]) \subseteq TreeOf(local'[x])
    BY <1>7, <2>3 DEF GitCheckout, CommitOf, TreeOf
  <2>5. \A x \in Branches : TreeOf(local'[x]) \subseteq Kept
    BY <1>7, <2>1 DEF GitCheckout, Kept, TreeOf
  <2>6. tree \subseteq tree' \cup TreeOf(local[head])
    BY <1>7 DEF GitCheckout, Dirty
  <2>7. Kept \subseteq Kept'
    BY <1>7, <2>4, <2>6 DEF Kept
  <2>8. Kept' \subseteq Kept
    BY <1>7, <2>2, <2>5 DEF Kept
  <2> QED
    BY <2>2, <2>7, <2>8
<1>8. ASSUME Checkout PROVE Contract!Synchronise
  <2>1. Kept' = Kept /\ tree' \subseteq Kept
    BY <1>7, <1>8 DEF Checkout, RequiredBranch
  <2> QED
    BY <1>8, <2>1 DEF Checkout, Contract!Synchronise
<1>9. ASSUME CheckoutBlocked PROVE UNCHANGED Contract!vars
  BY <1>9 DEF CheckoutBlocked, Contract!vars, Kept
<1>10. ASSUME Stash PROVE Contract!Synchronise
  <2>1. Kept' = Kept
    BY <1>10 DEF Stash, Kept, TreeOf, Dirty
  <2>2. tree' \subseteq Kept
    BY <2>1 DEF Kept
  <2> QED
    BY <1>10, <2>1, <2>2 DEF Stash, Contract!Synchronise
<1>11. ASSUME CheckoutAgain PROVE Contract!Synchronise
  <2>1. Kept' = Kept /\ tree' \subseteq Kept
    BY <1>7, <1>11 DEF CheckoutAgain
  <2> QED
    BY <1>11, <2>1 DEF CheckoutAgain, Contract!Synchronise
<1>12. ASSUME Pull PROVE Contract!Synchronise
  <2>1. Kept' = Kept
    BY <1>12 DEF Pull, Kept, TreeOf
  <2>2. tree' \subseteq Kept
    BY <2>1 DEF Kept
  <2> QED
    BY <1>12, <2>1, <2>2 DEF Pull, Contract!Synchronise
<1>13. ASSUME SyncFails PROVE Contract!Stop
  BY <1>13 DEF SyncFails, End, Contract!Stop, Kept
<1>14. ASSUME NEW files \in SUBSET {task, Pkg}, Work(files),
             UNCHANGED <<remote, local, stash, orphan>>
      PROVE  /\ files \in SUBSET Changes
             /\ Kept' = Kept \cup files
  <2>1. files \in SUBSET Changes
    BY DEF Changes
  <2> QED
    BY <1>14, <2>1 DEF Work, Kept
<1>15. ASSUME NEW files \in SUBSET {task, Pkg}, AgentSucceeds(files)
       PROVE  files \in SUBSET Changes /\ Contract!Work(files)
  <2>1. files \in SUBSET Changes /\ Kept' = Kept \cup files
    BY <1>14, <1>15 DEF AgentSucceeds
  <2> QED
    BY <1>15, <2>1 DEF AgentSucceeds, Work, Contract!Work
<1>16. ASSUME NEW files \in SUBSET {task, Pkg}, AgentFails(files)
       PROVE  files \in SUBSET Changes /\ Contract!Work(files)
  <2>1. files \in SUBSET Changes /\ Kept' = Kept \cup files
    BY <1>14, <1>16 DEF AgentFails
  <2> QED
    BY <1>16, <2>1 DEF AgentFails, Work, End, Contract!Work
<1>17. ASSUME Publish
       PROVE  UNCHANGED Contract!vars \/ Contract!NothingToPublish
  <2>1. Kept' = Kept
    BY <1>17 DEF Publish, Kept, TreeOf, Dirty, RequiredBranch
  <2>2. CASE Dirty = {}
    BY <1>17, <2>1, <2>2 DEF Publish, End, Contract!NothingToPublish
  <2>3. CASE Dirty # {}
    BY <1>17, <2>1, <2>3 DEF Publish, Contract!vars
  <2> QED
    BY <2>2, <2>3
<1>18. ASSUME PublishFails PROVE Contract!Stop
  BY <1>18 DEF PublishFails, End, Contract!Stop, Kept
<1>19. ASSUME NEW answered \in BOOLEAN, Push(answered)
       PROVE  Contract!Publish(head)
  <2>1. Kept' = Kept
    BY <1>19 DEF Push, Kept, TreeOf
  <2>2. local[head] = tree /\ head = Contract!RequiredBranch(tree)
    BY <1>19 DEF Push, RequiredBranch, Contract!RequiredBranch
  <2>3. Contract!On(head) \subseteq tree
    BY <1>19, <2>2 DEF Push, TreeOf, Contract!On
  <2> QED
    BY <1>19, <2>1, <2>2, <2>3 DEF Push, End, Contract!Publish
<1>20. ASSUME PushFails PROVE Contract!Stop
  BY <1>20 DEF PushFails, End, Contract!Stop, Kept
<1>21. ASSUME Restart PROVE Contract!Stop
  BY <1>21 DEF Restart, End, Contract!Stop, Kept
<1>22. ASSUME NEW b \in Branches, NEW c \in {Dev, Pkg}, DeveloperPushes(b, c)
       PROVE  c \in Changes /\ Contract!DeveloperPushes(b, c)
  <2>1. c \in Changes
    BY DEF Changes
  <2>2. TreeOf(remote'[b]) = TreeOf(remote[b]) \cup {c}
    BY <1>22, DeveloperAdds
  <2>3. Kept' = Kept \cup {c}
    BY <1>22, <2>1, <2>2 DEF DeveloperPushes, Kept
  <2> QED
    BY <1>22, <2>1, <2>3 DEF DeveloperPushes, Contract!DeveloperPushes
<1>23. ASSUME DeveloperAddsStaging PROVE Contract!DeveloperAddsStaging
  <2>1. Kept' = Kept
    BY <1>23 DEF DeveloperAddsStaging, Kept, TreeOf
  <2> QED
    BY <1>23, <2>1 DEF DeveloperAddsStaging, Contract!DeveloperAddsStaging
<1> QED
  BY <1>1, <1>2, <1>3, <1>4, <1>5, <1>6, <1>8, <1>9, <1>10, <1>11, <1>12,
     <1>13, <1>15, <1>16, <1>17, <1>18, <1>19, <1>20, <1>21, <1>22, <1>23,
     NextCases DEF Contract!Next

\* Whatever fails and whoever pushes, the bridge keeps its contract about the
\* repository.
THEOREM ImplementsPublishContract == Spec => KeepsPublishContract
<1>1. Init => Contract!Init /\ TrackingIsOld
  <2> SUFFICES ASSUME Init PROVE Contract!Init /\ TrackingIsOld
    OBVIOUS
  <2>1. PICK main \in SUBSET {Pkg} : \E staging \in {main, NoBranch} :
          remote = [b \in Branches |-> IF b = "main" THEN main ELSE staging]
    BY DEF Init
  <2>2. PICK staging \in {main, NoBranch} :
          remote = [b \in Branches |-> IF b = "main" THEN main ELSE staging]
    BY <2>1
  <2>3. main \in SUBSET Changes /\ staging \in {NoBranch} \cup SUBSET Changes
    BY DEF Changes
  <2>4. remote \in [Branches -> {NoBranch} \cup SUBSET Changes]
    BY <2>2, <2>3
  <2>5. tree \in SUBSET Changes /\ stash = {} /\ orphan = {}
    BY DEF Init, Changes
  <2>6. \A b \in Branches : TreeOf(local[b]) = {} /\ TreeOf(tracking[b]) = {}
    BY DEF Init, TreeOf
  <2>7. \A b \in Branches : TreeOf(remote[b]) \subseteq Changes
    BY <2>4 DEF TreeOf
  <2>8. Kept = tree \cup Contract!On("main") \cup Contract!On("staging")
    BY <2>5, <2>6, <2>7 DEF Kept, Branches, TreeOf, Contract!On
  <2> QED
    BY <2>4, <2>5, <2>6, <2>8
       DEF Init, Contract!Init, Contract!Branches, Branches, TrackingIsOld
<1>2. GitInv /\ TrackingIsOld /\ [Next]_vars => TrackingIsOld'
  <2>1. ASSUME GitInv, TrackingIsOld, Next
        PROVE  TrackingIsOld'
    BY <2>1, TrackingIsOldKept
  <2>2. ASSUME TrackingIsOld, UNCHANGED vars
        PROVE  TrackingIsOld'
    BY <2>2 DEF vars, refVars, TrackingIsOld, TreeOf
  <2> QED
    BY <2>1, <2>2
<1>3. GitInv /\ GitInv' /\ TrackingIsOld /\ [Next]_vars
        => [Contract!Next]_(Contract!vars)
  <2>1. ASSUME GitInv, GitInv', TrackingIsOld, Next
        PROVE  [Contract!Next]_(Contract!vars)
    BY <2>1, NextContract
  <2>2. ASSUME UNCHANGED vars
        PROVE  UNCHANGED Contract!vars
    BY <2>2 DEF vars, refVars, aside, Contract!vars, Kept, TreeOf
  <2> QED
    BY <2>1, <2>2
<1> QED
  BY <1>1, <1>2, <1>3, GitInductive, PTL
     DEF Spec, KeepsPublishContract, Contract!Spec

\* The contract is as strong as what it was made for: whatever keeps it has on
\* GitHub all of a workspace in which a success was reported for a change,
\* never pushes over what others have pushed, and loses nothing.  Publish and
\* NothingToPublish are the steps that could break the first, Publish and the
\* developers the second, and Synchronise the third.
THEOREM PublishContractSuffices ==
  KeepsPublishContract =>
    [](Contract!Promise) /\ NothingOverwritten /\ NothingLost
<1> USE NoBranchIsNoTree DEF Contract!Branches, Contract!On
<1>0. Changes = Tasks \cup {Pkg, Dev}
  BY DEF Changes
<1>1. Contract!Init => Contract!Promise
  BY <1>0 DEF Contract!Init, Contract!Promise
<1>2. Contract!Promise /\ [Contract!Next]_(Contract!vars)
        => /\ Contract!Promise'
           /\ Kept \subseteq Kept'
           /\ \A b \in Branches : TreeOf(remote[b]) \subseteq TreeOf(remote'[b])
  <2> SUFFICES ASSUME Contract!Promise, [Contract!Next]_(Contract!vars)
               PROVE  /\ Contract!Promise'
                      /\ Kept \subseteq Kept'
                      /\ \A b \in Branches :
                           TreeOf(remote[b]) \subseteq TreeOf(remote'[b])
    OBVIOUS
  <2> DEFINE Grown == \A b \in Branches :
                        TreeOf(remote[b]) \subseteq TreeOf(remote'[b])
             Right == Contract!Promise' /\ Kept \subseteq Kept' /\ Grown
  <2> USE DEF Contract!Promise, Contract!GoesOn, Contract!Ends, TreeOf, Branches
  <2>1. CASE Contract!Begin
    BY <2>1 DEF Contract!Begin
  <2>2. CASE Contract!Synchronise
    BY <2>2 DEF Contract!Synchronise
  <2>3. ASSUME NEW files \in SUBSET Changes, Contract!Work(files)
        PROVE  Right
    BY <2>3 DEF Contract!Work
  <2>4. ASSUME NEW b \in Branches, Contract!Publish(b)
        PROVE  Right
    BY <2>4, <1>0 DEF Contract!Publish
  <2>5. CASE Contract!NothingToPublish
    BY <2>5 DEF Contract!NothingToPublish
  <2>6. CASE Contract!Stop
    BY <2>6 DEF Contract!Stop
  <2>7. ASSUME NEW b \in Branches, NEW c \in Changes,
               Contract!DeveloperPushes(b, c)
        PROVE  Right
    <3>1. remote[b] \in SUBSET Changes /\ remote[b] # NoBranch
      BY <2>7 DEF Contract!DeveloperPushes
    <3>2. /\ remote'[b] = remote[b] \cup {c}
          /\ remote' \in [Branches -> {NoBranch} \cup SUBSET Changes]
      BY <2>7, <3>1 DEF Contract!DeveloperPushes
    <3>3. remote'[b] # NoBranch
      BY <3>1, <3>2, <1>0
    <3>4. TreeOf(remote'[b]) = TreeOf(remote[b]) \cup {c}
      BY <3>1, <3>2, <3>3
    <3>5. \A x \in Branches : x # b => TreeOf(remote'[x]) = TreeOf(remote[x])
      BY <2>7 DEF Contract!DeveloperPushes
    <3> QED
      BY <2>7, <3>2, <3>4, <3>5 DEF Contract!DeveloperPushes
  <2>8. CASE Contract!DeveloperAddsStaging
    BY <2>8 DEF Contract!DeveloperAddsStaging
  <2>9. CASE UNCHANGED Contract!vars
    BY <2>9 DEF Contract!vars
  <2> QED
    BY <2>1, <2>2, <2>3, <2>4, <2>5, <2>6, <2>7, <2>8, <2>9 DEF Contract!Next
<1> QED
  BY <1>1, <1>2, PTL DEF KeepsPublishContract, Contract!Spec,
     NothingOverwritten, NothingLost

=============================================================================
