------------------------- MODULE AgentStreamProofs -------------------------
(***************************************************************************)
(* Proof of the safety properties of AgentStream, for every capacity of    *)
(* the pipes and every amount of output.  StreamInv is inductive: lines    *)
(* are accounted for wherever they are, a reader that is done has drained  *)
(* its pipe, and the worker leaves its loop only after the agent.  Where a *)
(* kill ends the agent, all steps are steps of TaskRun or none.            *)
(***************************************************************************)
EXTENDS AgentStream, TLAPS

\* The steps, with the three checks of the loop and the two joins as one each.
LEMMA NextCases ==
  ASSUME Next
  PROVE  \/ \E p \in Pipes : Write(p)
         \/ Exit
         \/ Fail
         \/ Child
         \/ \E p \in Pipes : ReadLine(p)
         \/ \E p \in Pipes : KeepLine(p)
         \/ Wake
         \/ Ping
         \/ Cancel
         \/ CancelKill
         \/ CancelWait
         \/ Register
         \/ StartThreads
         \/ \E l \in {"top", "wall", "idle"}, over \in BOOLEAN,
               reason \in {"cancelled", "wall", "idle"},
               next \in {"wall", "idle", "wait"} : Check(l, over, reason, next)
         \/ WaitKilled
         \/ Wait
         \/ StopHeart
         \/ KillAgain
         \/ Unset
         \/ \E p \in Pipes, next \in {"stderr", "result"} :
               (p = "stdout" <=> next = "stderr") /\ Join(p, next)
         \/ Return
<1>1. CheckCancel \/ CheckWall \/ CheckIdle
      => \E l \in {"top", "wall", "idle"}, over \in BOOLEAN,
            reason \in {"cancelled", "wall", "idle"},
            next \in {"wall", "idle", "wait"} : Check(l, over, reason, next)
  <2>1. ASSUME CheckCancel
        PROVE  \E over \in BOOLEAN : Check("top", over, "cancelled", "wall")
    <3>1. CASE cancelled
      <4>1. Check("top", TRUE, "cancelled", "wall")
        BY <2>1, <3>1 DEF CheckCancel, Check
      <4> QED
        BY <4>1
    <3>2. CASE ~cancelled
      <4>1. Check("top", FALSE, "cancelled", "wall")
        BY <2>1, <3>2 DEF CheckCancel, Check
      <4> QED
        BY <4>1
    <3> QED
      BY <3>1, <3>2
  <2>2. ASSUME CheckWall
        PROVE  \E over \in BOOLEAN : Check("wall", over, "wall", "idle")
    BY <2>2 DEF CheckWall
  <2>3. ASSUME CheckIdle
        PROVE  \E over \in BOOLEAN : Check("idle", over, "idle", "wait")
    BY <2>3 DEF CheckIdle
  <2> QED
    BY <2>1, <2>2, <2>3
<1>2. Join("stdout", "stderr") \/ Join("stderr", "result")
      => \E p \in Pipes, next \in {"stderr", "result"} :
           (p = "stdout" <=> next = "stderr") /\ Join(p, next)
  BY DEF Pipes
<1> QED
  BY <1>1, <1>2 DEF Next, AgentStep, ReaderStep, HeartStep, CancelStep,
     WorkerStep

\* Every variable keeps its type.
LEMMA TypeOKKept ==
  ASSUME StreamInv, Next
  PROVE  TypeOK'
<1> USE DEF StreamInv, TypeOK, agentVars, readerVars, heartVars, workerVars,
    cancelVars, Goto, Alive, WorkerPC, Why
<1> USE CapacityType, LinesType
<1>1. ASSUME NEW p \in Pipes,
             Write(p)
      PROVE  TypeOK'
  BY <1>1 DEF Write
<1>2. ASSUME Exit
      PROVE  TypeOK'
  BY <1>2 DEF Exit
<1>3. ASSUME Fail
      PROVE  TypeOK'
  BY <1>3 DEF Fail
<1>4. ASSUME Child
      PROVE  TypeOK'
  BY <1>4 DEF Child
<1>5. ASSUME NEW p \in Pipes,
             ReadLine(p)
      PROVE  TypeOK'
  BY <1>5 DEF ReadLine
<1>6. ASSUME NEW p \in Pipes,
             KeepLine(p)
      PROVE  TypeOK'
  BY <1>6 DEF KeepLine
<1>7. ASSUME Wake
      PROVE  TypeOK'
  BY <1>7 DEF Wake
<1>8. ASSUME Ping
      PROVE  TypeOK'
  BY <1>8 DEF Ping
<1>9. ASSUME Cancel
      PROVE  TypeOK'
  BY <1>9 DEF Cancel
<1>10. ASSUME CancelKill
      PROVE  TypeOK'
  BY <1>10 DEF CancelKill, KillTree
<1>11. ASSUME CancelWait
      PROVE  TypeOK'
  BY <1>11 DEF CancelWait
<1>12. ASSUME Register
      PROVE  TypeOK'
  BY <1>12 DEF Register
<1>13. ASSUME StartThreads
      PROVE  TypeOK'
  BY <1>13 DEF StartThreads
<1>14. ASSUME NEW l \in {"top", "wall", "idle"}, NEW over \in BOOLEAN,
             NEW reason \in {"cancelled", "wall", "idle"},
             NEW next \in {"wall", "idle", "wait"},
             Check(l, over, reason, next)
      PROVE  TypeOK'
  BY <1>14 DEF Check, KillTree
<1>15. ASSUME WaitKilled
      PROVE  TypeOK'
  BY <1>15 DEF WaitKilled
<1>16. ASSUME Wait
      PROVE  TypeOK'
  BY <1>16 DEF Wait
<1>17. ASSUME StopHeart
      PROVE  TypeOK'
  BY <1>17 DEF StopHeart
<1>18. ASSUME KillAgain
      PROVE  TypeOK'
  BY <1>18 DEF KillAgain, KillTree
<1>19. ASSUME Unset
      PROVE  TypeOK'
  <2>1. process' \in BOOLEAN /\ pc' \in WorkerPC
    BY <1>19 DEF Unset
  <2>2. UNCHANGED <<stubborn, agent, todo, child, pipe, reader, lines, heart,
                    late, why, stop, cancelled, ctl, caught, slow, result>>
    BY <1>19 DEF Unset
  <2> HIDE DEF WorkerPC, Why
  <2> QED
    BY <2>1, <2>2
<1>20. ASSUME NEW p \in Pipes, NEW next \in {"stderr", "result"},
             p = "stdout" <=> next = "stderr",
             Join(p, next)
      PROVE  TypeOK'
  BY <1>20 DEF Join
<1>21. ASSUME Return
      PROVE  TypeOK'
  BY <1>21 DEF Return
<1> HIDE DEF StreamInv, TypeOK, EndedOrDeclined, LinesConserved,
         DoneIsDrained, JoinedIsDrained, PingIsLast, NobodyReadsYet
<1> QED
  BY <1>1, <1>2, <1>3, <1>4, <1>5, <1>6, <1>7, <1>8, <1>9,
     <1>10, <1>11, <1>12, <1>13, <1>14, <1>15, <1>16, <1>17, <1>18,
     <1>19, <1>20, <1>21, NextCases

\* The worker does not leave an agent that would have ended.
LEMMA EndedKept ==
  ASSUME StreamInv, Next
  PROVE  EndedOrDeclined'
<1> USE DEF StreamInv, TypeOK, agentVars, readerVars, heartVars, workerVars,
    cancelVars, Goto, Alive, EndedOrDeclined, Left, Pipes
<1>1. ASSUME NEW p \in Pipes,
             Write(p)
      PROVE  EndedOrDeclined'
  BY <1>1 DEF Write
<1>2. ASSUME Exit
      PROVE  EndedOrDeclined'
  BY <1>2 DEF Exit
<1>3. ASSUME Fail
      PROVE  EndedOrDeclined'
  BY <1>3 DEF Fail
<1>4. ASSUME Child
      PROVE  EndedOrDeclined'
  BY <1>4 DEF Child
<1>5. ASSUME NEW p \in Pipes,
             ReadLine(p)
      PROVE  EndedOrDeclined'
  BY <1>5 DEF ReadLine
<1>6. ASSUME NEW p \in Pipes,
             KeepLine(p)
      PROVE  EndedOrDeclined'
  BY <1>6 DEF KeepLine
<1>7. ASSUME Wake
      PROVE  EndedOrDeclined'
  BY <1>7 DEF Wake
<1>8. ASSUME Ping
      PROVE  EndedOrDeclined'
  BY <1>8 DEF Ping
<1>9. ASSUME Cancel
      PROVE  EndedOrDeclined'
  BY <1>9 DEF Cancel
<1>10. ASSUME CancelKill
      PROVE  EndedOrDeclined'
  BY <1>10 DEF CancelKill, KillTree
<1>11. ASSUME CancelWait
      PROVE  EndedOrDeclined'
  BY <1>11 DEF CancelWait
<1>12. ASSUME Register
      PROVE  EndedOrDeclined'
  BY <1>12 DEF Register
<1>13. ASSUME StartThreads
      PROVE  EndedOrDeclined'
  BY <1>13 DEF StartThreads
<1>14. ASSUME NEW l \in {"top", "wall", "idle"}, NEW over \in BOOLEAN,
             NEW reason \in {"cancelled", "wall", "idle"},
             NEW next \in {"wall", "idle", "wait"},
             Check(l, over, reason, next)
      PROVE  EndedOrDeclined'
  BY <1>14 DEF Check, KillTree
<1>15. ASSUME WaitKilled
      PROVE  EndedOrDeclined'
  BY <1>15 DEF WaitKilled
<1>16. ASSUME Wait
      PROVE  EndedOrDeclined'
  BY <1>16 DEF Wait
<1>17. ASSUME StopHeart
      PROVE  EndedOrDeclined'
  BY <1>17 DEF StopHeart
<1>18. ASSUME KillAgain
      PROVE  EndedOrDeclined'
  BY <1>18 DEF KillAgain, KillTree
<1>19. ASSUME Unset
      PROVE  EndedOrDeclined'
  BY <1>19 DEF Unset
<1>20. ASSUME NEW p \in Pipes, NEW next \in {"stderr", "result"},
             p = "stdout" <=> next = "stderr",
             Join(p, next)
      PROVE  EndedOrDeclined'
  BY <1>20 DEF Join
<1>21. ASSUME Return
      PROVE  EndedOrDeclined'
  BY <1>21 DEF Return
<1> HIDE DEF StreamInv, TypeOK, EndedOrDeclined, LinesConserved,
         DoneIsDrained, JoinedIsDrained, PingIsLast, NobodyReadsYet
<1> QED
  BY <1>1, <1>2, <1>3, <1>4, <1>5, <1>6, <1>7, <1>8, <1>9,
     <1>10, <1>11, <1>12, <1>13, <1>14, <1>15, <1>16, <1>17, <1>18,
     <1>19, <1>20, <1>21, NextCases

\* The readers start after set_process.
LEMMA NotYetKept ==
  ASSUME StreamInv, Next
  PROVE  NobodyReadsYet'
<1> USE DEF StreamInv, TypeOK, agentVars, readerVars, heartVars, workerVars,
    cancelVars, Goto, Alive, NobodyReadsYet
<1>1. ASSUME NEW p \in Pipes,
             Write(p)
      PROVE  NobodyReadsYet'
  BY <1>1 DEF Write
<1>2. ASSUME Exit
      PROVE  NobodyReadsYet'
  BY <1>2 DEF Exit
<1>3. ASSUME Fail
      PROVE  NobodyReadsYet'
  BY <1>3 DEF Fail
<1>4. ASSUME Child
      PROVE  NobodyReadsYet'
  BY <1>4 DEF Child
<1>5. ASSUME NEW p \in Pipes,
             ReadLine(p)
      PROVE  NobodyReadsYet'
  BY <1>5 DEF ReadLine
<1>6. ASSUME NEW p \in Pipes,
             KeepLine(p)
      PROVE  NobodyReadsYet'
  BY <1>6 DEF KeepLine
<1>7. ASSUME Wake
      PROVE  NobodyReadsYet'
  BY <1>7 DEF Wake
<1>8. ASSUME Ping
      PROVE  NobodyReadsYet'
  BY <1>8 DEF Ping
<1>9. ASSUME Cancel
      PROVE  NobodyReadsYet'
  BY <1>9 DEF Cancel
<1>10. ASSUME CancelKill
      PROVE  NobodyReadsYet'
  BY <1>10 DEF CancelKill, KillTree
<1>11. ASSUME CancelWait
      PROVE  NobodyReadsYet'
  BY <1>11 DEF CancelWait
<1>12. ASSUME Register
      PROVE  NobodyReadsYet'
  BY <1>12 DEF Register
<1>13. ASSUME StartThreads
      PROVE  NobodyReadsYet'
  BY <1>13 DEF StartThreads
<1>14. ASSUME NEW l \in {"top", "wall", "idle"}, NEW over \in BOOLEAN,
             NEW reason \in {"cancelled", "wall", "idle"},
             NEW next \in {"wall", "idle", "wait"},
             Check(l, over, reason, next)
      PROVE  NobodyReadsYet'
  BY <1>14 DEF Check, KillTree
<1>15. ASSUME WaitKilled
      PROVE  NobodyReadsYet'
  BY <1>15 DEF WaitKilled
<1>16. ASSUME Wait
      PROVE  NobodyReadsYet'
  BY <1>16 DEF Wait
<1>17. ASSUME StopHeart
      PROVE  NobodyReadsYet'
  BY <1>17 DEF StopHeart
<1>18. ASSUME KillAgain
      PROVE  NobodyReadsYet'
  BY <1>18 DEF KillAgain, KillTree
<1>19. ASSUME Unset
      PROVE  NobodyReadsYet'
  BY <1>19 DEF Unset
<1>20. ASSUME NEW p \in Pipes, NEW next \in {"stderr", "result"},
             p = "stdout" <=> next = "stderr",
             Join(p, next)
      PROVE  NobodyReadsYet'
  BY <1>20 DEF Join
<1>21. ASSUME Return
      PROVE  NobodyReadsYet'
  BY <1>21 DEF Return
<1> HIDE DEF StreamInv, TypeOK, EndedOrDeclined, LinesConserved,
         DoneIsDrained, JoinedIsDrained, PingIsLast, NobodyReadsYet
<1> QED
  BY <1>1, <1>2, <1>3, <1>4, <1>5, <1>6, <1>7, <1>8, <1>9,
     <1>10, <1>11, <1>12, <1>13, <1>14, <1>15, <1>16, <1>17, <1>18,
     <1>19, <1>20, <1>21, NextCases

\* No line is lost unless the run is cancelled.
LEMMA ConservedKept ==
  ASSUME StreamInv, Next
  PROVE  LinesConserved'
<1> USE DEF StreamInv, TypeOK, agentVars, readerVars, heartVars, workerVars,
    cancelVars, Goto, Alive, NobodyReadsYet, LinesConserved, InHand
<1>1. ASSUME NEW p \in Pipes,
             Write(p)
      PROVE  LinesConserved'
  <2>1. /\ todo[p] \in Nat \ {0} /\ pipe[p] \in Nat /\ lines[p] \in Nat
        /\ todo'[p] = todo[p] - 1 /\ pipe'[p] = pipe[p] + 1
    BY <1>1 DEF Write
  <2>2. /\ \A q \in Pipes : q # p => todo'[q] = todo[q] /\ pipe'[q] = pipe[q]
        /\ UNCHANGED <<lines, reader, cancelled>>
    BY <1>1 DEF Write
  <2>3. pipe'[p] + todo'[p] = pipe[p] + todo[p]
    BY <2>1
  <2> SUFFICES ASSUME NEW q \in Pipes, ~cancelled'
               PROVE  (lines[q] + InHand(q) + pipe[q] + todo[q])' = Lines[q]
    BY DEF LinesConserved
  <2>4. lines[q] + InHand(q) + pipe[q] + todo[q] = Lines[q]
    BY <2>2 DEF LinesConserved
  <2>5. InHand(q)' = InHand(q) /\ InHand(q) \in {0, 1}
    BY <2>2 DEF InHand
  <2>6. lines[q] \in Nat /\ pipe[q] \in Nat /\ todo[q] \in Nat
    BY CapacityType
  <2> HIDE DEF StreamInv, TypeOK, LinesConserved, InHand
  <2>7. CASE q = p
    BY <2>2, <2>3, <2>4, <2>5, <2>1, <2>7
  <2>8. CASE q # p
    BY <2>2, <2>4, <2>5, <2>8
  <2> QED
    BY <2>7, <2>8
<1>2. ASSUME Exit
      PROVE  LinesConserved'
  BY <1>2 DEF Exit
<1>3. ASSUME Fail
      PROVE  LinesConserved'
  BY <1>3 DEF Fail
<1>4. ASSUME Child
      PROVE  LinesConserved'
  BY <1>4 DEF Child
<1>5. ASSUME NEW p \in Pipes,
             ReadLine(p)
      PROVE  LinesConserved'
  BY <1>5 DEF ReadLine
<1>6. ASSUME NEW p \in Pipes,
             KeepLine(p)
      PROVE  LinesConserved'
  BY <1>6 DEF KeepLine
<1>7. ASSUME Wake
      PROVE  LinesConserved'
  BY <1>7 DEF Wake
<1>8. ASSUME Ping
      PROVE  LinesConserved'
  BY <1>8 DEF Ping
<1>9. ASSUME Cancel
      PROVE  LinesConserved'
  BY <1>9 DEF Cancel
<1>10. ASSUME CancelKill
      PROVE  LinesConserved'
  BY <1>10 DEF CancelKill, KillTree
<1>11. ASSUME CancelWait
      PROVE  LinesConserved'
  BY <1>11 DEF CancelWait
<1>12. ASSUME Register
      PROVE  LinesConserved'
  BY <1>12 DEF Register
<1>13. ASSUME StartThreads
      PROVE  LinesConserved'
  BY <1>13 DEF StartThreads
<1>14. ASSUME NEW l \in {"top", "wall", "idle"}, NEW over \in BOOLEAN,
             NEW reason \in {"cancelled", "wall", "idle"},
             NEW next \in {"wall", "idle", "wait"},
             Check(l, over, reason, next)
      PROVE  LinesConserved'
  BY <1>14 DEF Check, KillTree
<1>15. ASSUME WaitKilled
      PROVE  LinesConserved'
  BY <1>15 DEF WaitKilled
<1>16. ASSUME Wait
      PROVE  LinesConserved'
  BY <1>16 DEF Wait
<1>17. ASSUME StopHeart
      PROVE  LinesConserved'
  BY <1>17 DEF StopHeart
<1>18. ASSUME KillAgain
      PROVE  LinesConserved'
  BY <1>18 DEF KillAgain, KillTree
<1>19. ASSUME Unset
      PROVE  LinesConserved'
  BY <1>19 DEF Unset
<1>20. ASSUME NEW p \in Pipes, NEW next \in {"stderr", "result"},
             p = "stdout" <=> next = "stderr",
             Join(p, next)
      PROVE  LinesConserved'
  BY <1>20 DEF Join
<1>21. ASSUME Return
      PROVE  LinesConserved'
  BY <1>21 DEF Return
<1> HIDE DEF StreamInv, TypeOK, EndedOrDeclined, LinesConserved,
         DoneIsDrained, JoinedIsDrained, PingIsLast, NobodyReadsYet
<1> QED
  BY <1>1, <1>2, <1>3, <1>4, <1>5, <1>6, <1>7, <1>8, <1>9,
     <1>10, <1>11, <1>12, <1>13, <1>14, <1>15, <1>16, <1>17, <1>18,
     <1>19, <1>20, <1>21, NextCases

\* A reader ends at the end of the output.
LEMMA DrainedKept ==
  ASSUME StreamInv, Next
  PROVE  DoneIsDrained'
<1> USE DEF StreamInv, TypeOK, agentVars, readerVars, heartVars, workerVars,
    cancelVars, Goto, Alive, DoneIsDrained
<1>1. ASSUME NEW p \in Pipes,
             Write(p)
      PROVE  DoneIsDrained'
  BY <1>1 DEF Write
<1>2. ASSUME Exit
      PROVE  DoneIsDrained'
  BY <1>2 DEF Exit
<1>3. ASSUME Fail
      PROVE  DoneIsDrained'
  BY <1>3 DEF Fail
<1>4. ASSUME Child
      PROVE  DoneIsDrained'
  BY <1>4 DEF Child
<1>5. ASSUME NEW p \in Pipes,
             ReadLine(p)
      PROVE  DoneIsDrained'
  BY <1>5 DEF ReadLine
<1>6. ASSUME NEW p \in Pipes,
             KeepLine(p)
      PROVE  DoneIsDrained'
  BY <1>6 DEF KeepLine
<1>7. ASSUME Wake
      PROVE  DoneIsDrained'
  BY <1>7 DEF Wake
<1>8. ASSUME Ping
      PROVE  DoneIsDrained'
  BY <1>8 DEF Ping
<1>9. ASSUME Cancel
      PROVE  DoneIsDrained'
  BY <1>9 DEF Cancel
<1>10. ASSUME CancelKill
      PROVE  DoneIsDrained'
  BY <1>10 DEF CancelKill, KillTree
<1>11. ASSUME CancelWait
      PROVE  DoneIsDrained'
  BY <1>11 DEF CancelWait
<1>12. ASSUME Register
      PROVE  DoneIsDrained'
  BY <1>12 DEF Register
<1>13. ASSUME StartThreads
      PROVE  DoneIsDrained'
  BY <1>13 DEF StartThreads
<1>14. ASSUME NEW l \in {"top", "wall", "idle"}, NEW over \in BOOLEAN,
             NEW reason \in {"cancelled", "wall", "idle"},
             NEW next \in {"wall", "idle", "wait"},
             Check(l, over, reason, next)
      PROVE  DoneIsDrained'
  BY <1>14 DEF Check, KillTree
<1>15. ASSUME WaitKilled
      PROVE  DoneIsDrained'
  BY <1>15 DEF WaitKilled
<1>16. ASSUME Wait
      PROVE  DoneIsDrained'
  BY <1>16 DEF Wait
<1>17. ASSUME StopHeart
      PROVE  DoneIsDrained'
  BY <1>17 DEF StopHeart
<1>18. ASSUME KillAgain
      PROVE  DoneIsDrained'
  BY <1>18 DEF KillAgain, KillTree
<1>19. ASSUME Unset
      PROVE  DoneIsDrained'
  BY <1>19 DEF Unset
<1>20. ASSUME NEW p \in Pipes, NEW next \in {"stderr", "result"},
             p = "stdout" <=> next = "stderr",
             Join(p, next)
      PROVE  DoneIsDrained'
  BY <1>20 DEF Join
<1>21. ASSUME Return
      PROVE  DoneIsDrained'
  BY <1>21 DEF Return
<1> HIDE DEF StreamInv, TypeOK, EndedOrDeclined, LinesConserved,
         DoneIsDrained, JoinedIsDrained, PingIsLast, NobodyReadsYet
<1> QED
  BY <1>1, <1>2, <1>3, <1>4, <1>5, <1>6, <1>7, <1>8, <1>9,
     <1>10, <1>11, <1>12, <1>13, <1>14, <1>15, <1>16, <1>17, <1>18,
     <1>19, <1>20, <1>21, NextCases

\* What was read when a reader was waited for is all there is.
LEMMA JoinedKept ==
  ASSUME StreamInv, Next
  PROVE  JoinedIsDrained'
<1> USE DEF StreamInv, TypeOK, agentVars, readerVars, heartVars, workerVars,
    cancelVars, Goto, Alive, JoinedIsDrained, Joined, AtRest, Pipes
<1>1. ASSUME NEW p \in Pipes,
             Write(p)
      PROVE  JoinedIsDrained'
  BY <1>1 DEF Write, EndedOrDeclined, DoneIsDrained, Left
<1>2. ASSUME Exit
      PROVE  JoinedIsDrained'
  BY <1>2 DEF Exit, EndedOrDeclined, DoneIsDrained, Left
<1>3. ASSUME Fail
      PROVE  JoinedIsDrained'
  BY <1>3 DEF Fail, EndedOrDeclined, DoneIsDrained, Left
<1>4. ASSUME Child
      PROVE  JoinedIsDrained'
  BY <1>4 DEF Child, EndedOrDeclined, DoneIsDrained, Left
<1>5. ASSUME NEW p \in Pipes,
             ReadLine(p)
      PROVE  JoinedIsDrained'
  BY <1>5 DEF ReadLine, EndedOrDeclined, DoneIsDrained, Left
<1>6. ASSUME NEW p \in Pipes,
             KeepLine(p)
      PROVE  JoinedIsDrained'
  BY <1>6 DEF KeepLine, EndedOrDeclined, DoneIsDrained, Left
<1>7. ASSUME Wake
      PROVE  JoinedIsDrained'
  BY <1>7 DEF Wake, EndedOrDeclined, DoneIsDrained, Left
<1>8. ASSUME Ping
      PROVE  JoinedIsDrained'
  BY <1>8 DEF Ping, EndedOrDeclined, DoneIsDrained, Left
<1>9. ASSUME Cancel
      PROVE  JoinedIsDrained'
  BY <1>9 DEF Cancel, EndedOrDeclined, DoneIsDrained, Left
<1>10. ASSUME CancelKill
      PROVE  JoinedIsDrained'
  BY <1>10 DEF CancelKill, KillTree, EndedOrDeclined, DoneIsDrained, Left
<1>11. ASSUME CancelWait
      PROVE  JoinedIsDrained'
  BY <1>11 DEF CancelWait, EndedOrDeclined, DoneIsDrained, Left
<1>12. ASSUME Register
      PROVE  JoinedIsDrained'
  BY <1>12 DEF Register, EndedOrDeclined, DoneIsDrained, Left
<1>13. ASSUME StartThreads
      PROVE  JoinedIsDrained'
  BY <1>13 DEF StartThreads, EndedOrDeclined, DoneIsDrained, Left
<1>14. ASSUME NEW l \in {"top", "wall", "idle"}, NEW over \in BOOLEAN,
             NEW reason \in {"cancelled", "wall", "idle"},
             NEW next \in {"wall", "idle", "wait"},
             Check(l, over, reason, next)
      PROVE  JoinedIsDrained'
  BY <1>14 DEF Check, KillTree, EndedOrDeclined, DoneIsDrained, Left
<1>15. ASSUME WaitKilled
      PROVE  JoinedIsDrained'
  BY <1>15 DEF WaitKilled, EndedOrDeclined, DoneIsDrained, Left
<1>16. ASSUME Wait
      PROVE  JoinedIsDrained'
  BY <1>16 DEF Wait, EndedOrDeclined, DoneIsDrained, Left
<1>17. ASSUME StopHeart
      PROVE  JoinedIsDrained'
  BY <1>17 DEF StopHeart, EndedOrDeclined, DoneIsDrained, Left
<1>18. ASSUME KillAgain
      PROVE  JoinedIsDrained'
  BY <1>18 DEF KillAgain, KillTree, EndedOrDeclined, DoneIsDrained, Left
<1>19. ASSUME Unset
      PROVE  JoinedIsDrained'
  BY <1>19 DEF Unset, EndedOrDeclined, DoneIsDrained, Left
<1>20. ASSUME NEW p \in Pipes, NEW next \in {"stderr", "result"},
             p = "stdout" <=> next = "stderr",
             Join(p, next)
      PROVE  JoinedIsDrained'
  BY <1>20 DEF Join, EndedOrDeclined, DoneIsDrained, Left
<1>21. ASSUME Return
      PROVE  JoinedIsDrained'
  BY <1>21 DEF Return, EndedOrDeclined, DoneIsDrained, Left
<1> HIDE DEF StreamInv, TypeOK, EndedOrDeclined, LinesConserved,
         DoneIsDrained, JoinedIsDrained, PingIsLast, NobodyReadsYet
<1> QED
  BY <1>1, <1>2, <1>3, <1>4, <1>5, <1>6, <1>7, <1>8, <1>9,
     <1>10, <1>11, <1>12, <1>13, <1>14, <1>15, <1>16, <1>17, <1>18,
     <1>19, <1>20, <1>21, NextCases

\* One ping at most begins after stop_heartbeat is set.
LEMMA PingKept ==
  ASSUME StreamInv, Next
  PROVE  PingIsLast'
<1> USE DEF StreamInv, TypeOK, agentVars, readerVars, heartVars, workerVars,
    cancelVars, Goto, Alive, PingIsLast
<1>1. ASSUME NEW p \in Pipes,
             Write(p)
      PROVE  PingIsLast'
  BY <1>1 DEF Write
<1>2. ASSUME Exit
      PROVE  PingIsLast'
  BY <1>2 DEF Exit
<1>3. ASSUME Fail
      PROVE  PingIsLast'
  BY <1>3 DEF Fail
<1>4. ASSUME Child
      PROVE  PingIsLast'
  BY <1>4 DEF Child
<1>5. ASSUME NEW p \in Pipes,
             ReadLine(p)
      PROVE  PingIsLast'
  BY <1>5 DEF ReadLine
<1>6. ASSUME NEW p \in Pipes,
             KeepLine(p)
      PROVE  PingIsLast'
  BY <1>6 DEF KeepLine
<1>7. ASSUME Wake
      PROVE  PingIsLast'
  BY <1>7 DEF Wake
<1>8. ASSUME Ping
      PROVE  PingIsLast'
  BY <1>8 DEF Ping
<1>9. ASSUME Cancel
      PROVE  PingIsLast'
  BY <1>9 DEF Cancel
<1>10. ASSUME CancelKill
      PROVE  PingIsLast'
  BY <1>10 DEF CancelKill, KillTree
<1>11. ASSUME CancelWait
      PROVE  PingIsLast'
  BY <1>11 DEF CancelWait
<1>12. ASSUME Register
      PROVE  PingIsLast'
  BY <1>12 DEF Register
<1>13. ASSUME StartThreads
      PROVE  PingIsLast'
  BY <1>13 DEF StartThreads
<1>14. ASSUME NEW l \in {"top", "wall", "idle"}, NEW over \in BOOLEAN,
             NEW reason \in {"cancelled", "wall", "idle"},
             NEW next \in {"wall", "idle", "wait"},
             Check(l, over, reason, next)
      PROVE  PingIsLast'
  BY <1>14 DEF Check, KillTree
<1>15. ASSUME WaitKilled
      PROVE  PingIsLast'
  BY <1>15 DEF WaitKilled
<1>16. ASSUME Wait
      PROVE  PingIsLast'
  BY <1>16 DEF Wait
<1>17. ASSUME StopHeart
      PROVE  PingIsLast'
  BY <1>17 DEF StopHeart
<1>18. ASSUME KillAgain
      PROVE  PingIsLast'
  BY <1>18 DEF KillAgain, KillTree
<1>19. ASSUME Unset
      PROVE  PingIsLast'
  BY <1>19 DEF Unset
<1>20. ASSUME NEW p \in Pipes, NEW next \in {"stderr", "result"},
             p = "stdout" <=> next = "stderr",
             Join(p, next)
      PROVE  PingIsLast'
  BY <1>20 DEF Join
<1>21. ASSUME Return
      PROVE  PingIsLast'
  BY <1>21 DEF Return
<1> HIDE DEF StreamInv, TypeOK, EndedOrDeclined, LinesConserved,
         DoneIsDrained, JoinedIsDrained, PingIsLast, NobodyReadsYet
<1> QED
  BY <1>1, <1>2, <1>3, <1>4, <1>5, <1>6, <1>7, <1>8, <1>9,
     <1>10, <1>11, <1>12, <1>13, <1>14, <1>15, <1>16, <1>17, <1>18,
     <1>19, <1>20, <1>21, NextCases

\* The dead stay dead, and only cancel deals with its own places.
LEMMA KillKept ==
  ASSUME StreamInv, Next
  PROVE  KillIsSure'
<1> USE DEF StreamInv, KillIsSure, Alive, agentVars, cancelVars
<1>1. ASSUME UNCHANGED <<ctl, caught>>, Alive' => Alive
      PROVE  KillIsSure'
  BY <1>1
<1>2. CASE Cancel
  BY <1>2 DEF Cancel
<1>3. CASE CancelKill
  BY <1>3 DEF CancelKill, KillTree
<1>4. CASE CancelWait
  BY <1>4 DEF CancelWait
<1>5. CASE Exit \/ Fail \/ Child \/ \E p \in Pipes : Write(p)
  BY <1>1, <1>5 DEF Exit, Fail, Child, Write
<1>6. CASE \E p \in Pipes : ReadLine(p) \/ KeepLine(p)
  BY <1>1, <1>6 DEF ReadLine, KeepLine
<1>7. CASE Wake \/ Ping
  BY <1>1, <1>7 DEF Wake, Ping
<1>8. ASSUME NEW l, NEW over, NEW reason, NEW next, Check(l, over, reason, next)
      PROVE  KillIsSure'
  BY <1>1, <1>8 DEF Check, KillTree
<1>9. CASE Register \/ StartThreads \/ WaitKilled \/ Wait \/ StopHeart \/ Return
  BY <1>1, <1>9 DEF Register, StartThreads, WaitKilled, Wait, StopHeart, Return
<1>10. CASE KillAgain \/ Unset
  BY <1>1, <1>10 DEF KillAgain, KillTree, Unset
<1>11. ASSUME NEW p, NEW next, Join(p, next)
       PROVE  KillIsSure'
  BY <1>1, <1>11 DEF Join
<1> HIDE DEF StreamInv, KillIsSure
<1> QED
  BY <1>2, <1>3, <1>4, <1>5, <1>6, <1>7, <1>8, <1>9, <1>10, <1>11, NextCases

-----------------------------------------------------------------------------
\* StreamInv holds for every capacity of the pipes and amount of output.
THEOREM StreamInductive == Spec => []StreamInv
<1>1. Init => StreamInv
  <2> SUFFICES ASSUME Init PROVE StreamInv
    OBVIOUS
  <2>1. TypeOK
    <3>1. 0 \in 0 .. Capacity
      BY CapacityType
    <3>2. Lines \in [Pipes -> Nat]
      BY LinesType DEF Lines
    <3> QED
      BY <3>1, <3>2 DEF Init, TypeOK, None, WorkerPC, Why
  <2>2. \A p \in Pipes : lines[p] = 0 /\ pipe[p] = 0 /\ reader[p] = "new"
    BY DEF Init, None
  <2>3. todo = Lines /\ pc = "popen" /\ ~stop /\ late = 0
    BY DEF Init
  <2>4. LinesConserved
    BY <2>1, <2>2, <2>3 DEF LinesConserved, InHand, TypeOK
  <2>5. NoAgentLeft /\ KillIsSure
    BY DEF Init, NoAgentLeft, KillIsSure
  <2> QED
    BY <2>1, <2>2, <2>3, <2>4, <2>5 DEF StreamInv, EndedOrDeclined,
      NobodyReadsYet, DoneIsDrained, JoinedIsDrained, PingIsLast, Joined, Left
<1>2. StreamInv /\ [Next]_vars => StreamInv'
  <2>1. StreamInv /\ Next => StreamInv'
    <3> SUFFICES ASSUME StreamInv, Next PROVE StreamInv'
      OBVIOUS
    <3>1. EndedOrDeclined'
      BY EndedKept
    <3>2. NoAgentLeft'
      BY <3>1 DEF EndedOrDeclined, NoAgentLeft, Left, Alive
    <3> QED
      BY <3>1, <3>2, TypeOKKept, NotYetKept, ConservedKept, DrainedKept,
         JoinedKept, PingKept, KillKept DEF StreamInv
  <2>2. StreamInv /\ UNCHANGED vars => StreamInv'
    BY DEF vars, agentVars, readerVars, heartVars, workerVars, cancelVars,
      StreamInv, TypeOK, EndedOrDeclined, LinesConserved, DoneIsDrained,
      JoinedIsDrained, PingIsLast, NobodyReadsYet, Joined, InHand, AtRest,
      NoAgentLeft, KillIsSure, Alive
  <2> QED
    BY <2>1, <2>2
<1> QED
  BY <1>1, <1>2, PTL DEF Spec

\* Every variable keeps its type.
THEOREM StreamTypeCorrect == Spec => []TypeOK
<1>1. StreamInv => TypeOK
  BY DEF StreamInv
<1> QED
  BY <1>1, StreamInductive, PTL

\* _stream_process returns only when the agent has ended, and raises beside a
\* living one only if it ignored the signals.
THEOREM AgentGone == Spec => []NoAgentLeft
<1>1. StreamInv => NoAgentLeft
  BY DEF StreamInv
<1> QED
  BY <1>1, StreamInductive, PTL

\* The output returned is all the agent wrote, unless the run was cancelled or
\* a reader too slow.
THEOREM OutputWhole == Spec => []OutputComplete
<1>1. StreamInv => OutputComplete
  <2> SUFFICES ASSUME StreamInv, NEW p \in Pipes, pc = "returned",
                      ~cancelled, ~slow[p]
               PROVE  result[p] = Lines[p] - todo[p]
    BY DEF OutputComplete
  <2>1. /\ result[p] = lines[p] /\ pipe[p] = 0 /\ reader[p] # "line"
    BY DEF StreamInv, EndedOrDeclined, JoinedIsDrained, Joined, AtRest, Left
  <2>2. lines[p] + todo[p] = Lines[p] /\ lines[p] \in Nat /\ todo[p] \in Nat
    BY <2>1 DEF StreamInv, LinesConserved, InHand, TypeOK
  <2> QED
    BY <2>1, <2>2
<1> QED
  BY <1>1, StreamInductive, PTL

\* At most one ping begins after the heartbeat was told to stop.
THEOREM LatePings == Spec => []OneLatePing
<1>1. StreamInv => OneLatePing
  BY DEF StreamInv, TypeOK, PingIsLast, OneLatePing
<1> QED
  BY <1>1, StreamInductive, PTL


-----------------------------------------------------------------------------
(* The steps TaskRun makes of these.                                       *)

\* What TaskRun sees of a step that only the rest of this module sees.
LEMMA OutOfSight ==
  ASSUME WorkerAt' = WorkerAt, AgentIs' = AgentIs,
         UNCHANGED <<ctl, cancelled, process>>
  PROVE  UNCHANGED Run!vars
BY DEF Run!vars, Run!agentVars, Run!threadVars, ThreadsAt

\* A thread's move changes nothing else of pc.
LEMMA ThreadsMove ==
  /\ ctl' = ctl => ThreadsAt' = [ThreadsAt EXCEPT !["worker"] = WorkerAt']
  /\ WorkerAt' = WorkerAt =>
       ThreadsAt' = [ThreadsAt EXCEPT !["loop"] =
                       IF ctl' \in {"kill", "wait", "missed"} THEN "cancelMark"
                       ELSE "idle"]
  /\ ThreadsAt["worker"] = WorkerAt
  /\ ThreadsAt["loop"] = IF ctl \in {"kill", "wait", "missed"} THEN "cancelMark"
                         ELSE "idle"
BY DEF ThreadsAt

\* The agent ends, however: by itself, or since the worker ends it.
LEMMA Ends ==
  ASSUME ~caught, Alive, ~Alive', WorkerAt # "verdict", WorkerAt' = WorkerAt,
         UNCHANGED <<ctl, caught, cancelled, process>>
  PROVE  Run!AgentExits(ExitCode)
<1>1. AgentIs = "alive" /\ AgentIs' = ExitCode
  BY DEF AgentIs
<1>2. ThreadsAt' = ThreadsAt
  BY DEF ThreadsAt
<1> QED
  BY <1>1, <1>2 DEF Run!AgentExits, Run!threadVars

\* A step in which the agent may end, and of which TaskRun sees nothing else.
LEMMA MayEnd ==
  ASSUME StreamInv, ~stubborn, Alive' => Alive, WorkerAt' = WorkerAt,
         WorkerAt = "verdict" => UNCHANGED why,
         UNCHANGED <<ctl, caught, cancelled, process>>
  PROVE  [Run!Next]_(Run!vars)
<1>1. CASE caught \/ Alive' = Alive
  <2>1. AgentIs' = AgentIs
    BY <1>1 DEF AgentIs
  <2> QED
    BY <2>1, OutOfSight
<1>2. CASE ~caught /\ Alive' # Alive
  <2>1. Alive /\ ~Alive'
    BY <1>2 DEF Alive
  <2>2. WorkerAt # "verdict"
    BY <2>1 DEF WorkerAt, StreamInv, EndedOrDeclined, Left
  <2>3. Run!AgentExits(ExitCode)
    BY <1>2, <2>1, <2>2, Ends
  <2> QED
    BY <2>3, ExitCodeType DEF Run!Next
<1> QED
  BY <1>1, <1>2

\* Each step is one of TaskRun's or a stutter, where a kill ends the agent.
LEMMA NextRun ==
  ASSUME StreamInv, ~stubborn, Next
  PROVE  [Run!Next]_(Run!vars)
<1> USE DEF agentVars, readerVars, heartVars, workerVars, cancelVars, Goto,
            Alive, WorkerAt
<1>1. ASSUME NEW p \in Pipes, Write(p) \/ ReadLine(p) \/ KeepLine(p)
      PROVE  [Run!Next]_(Run!vars)
  BY <1>1, MayEnd DEF Write, ReadLine, KeepLine
<1>2. CASE Exit \/ Fail \/ Child \/ Wake \/ Ping
  BY <1>2, MayEnd DEF Exit, Fail, Child, Wake, Ping
<1>3. ASSUME NEW l \in {"top", "wall", "idle"}, NEW over \in BOOLEAN,
             NEW reason \in {"cancelled", "wall", "idle"},
             NEW next \in {"wall", "idle", "wait"},
             Check(l, over, reason, next)
      PROVE  [Run!Next]_(Run!vars)
  BY <1>3, MayEnd DEF Check, KillTree
<1>4. CASE StartThreads \/ WaitKilled \/ Wait \/ StopHeart \/ KillAgain
  BY <1>4, MayEnd DEF StartThreads, WaitKilled, Wait, StopHeart, KillAgain,
                      KillTree
<1>5. ASSUME NEW p \in Pipes, NEW next \in {"stderr", "result"}, Join(p, next)
      PROVE  [Run!Next]_(Run!vars)
  BY <1>5, MayEnd DEF Join, Pipes
<1>6. CASE Return
  BY <1>6, MayEnd DEF Return
<1>7. ASSUME Cancel PROVE Run!Cancel
  <2>1. ctl = "none" /\ ~caught /\ WorkerAt' = WorkerAt /\ why' = why
    BY <1>7 DEF Cancel, StreamInv, KillIsSure
  <2>2. ThreadsAt["loop"] = "idle"
        /\ ThreadsAt' = [ThreadsAt EXCEPT !["loop"] = "cancelMark"]
    BY <1>7, <2>1, ThreadsMove DEF Cancel
  <2>3. AgentIs' = IF process /\ AgentIs = "alive" THEN "nonzero" ELSE AgentIs
    BY <1>7, <2>1, ExitCodeType DEF Cancel, AgentIs
  <2> QED
    BY <1>7, <2>1, <2>2, <2>3 DEF Cancel, Run!Cancel, Run!Unfinished, Run!Goto
<1>8. ASSUME CancelKill, Alive PROVE UNCHANGED Run!vars
  <2>1. caught /\ ctl = "kill" /\ ctl' = "wait"
    BY <1>8 DEF CancelKill, StreamInv, KillIsSure
  <2>2. UNCHANGED <<AgentIs, ThreadsAt, cancelled, process>>
    BY <1>8, <2>1 DEF CancelKill, KillTree, AgentIs, ThreadsAt
  <2> QED
    BY <2>1, <2>2 DEF Run!vars, Run!agentVars, Run!threadVars
<1>9. ASSUME (CancelKill /\ ~Alive) \/ CancelWait PROVE Run!MarkCancelled
  <2>1. ctl \in {"kill", "wait"} /\ ctl' = "done" /\ WorkerAt' = WorkerAt
    BY <1>9 DEF CancelKill, CancelWait
  <2>2. ThreadsAt["loop"] = "cancelMark"
        /\ ThreadsAt' = [ThreadsAt EXCEPT !["loop"] = "idle"]
    BY <2>1, ThreadsMove
  <2>3. AgentIs' = AgentIs
    BY <1>9, <2>1 DEF CancelKill, CancelWait, AgentIs, StreamInv, KillIsSure
  <2>4. UNCHANGED <<cancelled, process>>
    BY <1>9 DEF CancelKill, CancelWait
  <2> QED
    BY <2>1, <2>2, <2>3, <2>4 DEF Run!MarkCancelled, Run!Goto, Run!agentVars
<1>10. ASSUME Register PROVE Run!RegisterAgent
  <2>1. WorkerAt = "register" /\ WorkerAt' = "stream" /\ ctl' = ctl
    BY <1>10 DEF Register
  <2>2. ThreadsAt["worker"] = "register"
        /\ ThreadsAt' = [ThreadsAt EXCEPT !["worker"] = "stream"]
    BY <2>1, ThreadsMove
  <2>3. AgentIs' = AgentIs
    BY <1>10, <2>1 DEF Register, AgentIs
  <2> QED
    BY <1>10, <2>1, <2>2, <2>3 DEF Register, Run!RegisterAgent, Run!Goto
<1>11. ASSUME Unset PROVE Run!AgentGone \/ Run!StopAgent
  <2>1. /\ WorkerAt = "stream" /\ WorkerAt' = "verdict" /\ ctl' = ctl
        /\ ~Alive
    BY <1>11 DEF Unset, StreamInv, EndedOrDeclined, Left
  <2>2. ThreadsAt["worker"] = "stream"
        /\ ThreadsAt' = [ThreadsAt EXCEPT !["worker"] = "verdict"]
    BY <2>1, ThreadsMove
  <2>3. CASE why = "exited" \/ caught
    <3>1. AgentIs' = AgentIs /\ AgentIs # "alive"
      BY <1>11, <2>1, <2>3, ExitCodeType DEF Unset, AgentIs
    <3> QED
      BY <1>11, <2>1, <2>2, <3>1 DEF Unset, Run!AgentGone, Run!Goto
  <2>4. CASE why # "exited"
    <3>1. AgentIs' = "nonzero"
      BY <1>11, <2>1, <2>4 DEF Unset, AgentIs
    <3> QED
      BY <1>11, <2>1, <2>2, <3>1 DEF Unset, Run!StopAgent, Run!Goto
  <2> QED
    BY <2>3, <2>4
<1> QED
  BY <1>1, <1>2, <1>3, <1>4, <1>5, <1>6, <1>7, <1>8, <1>9, <1>10, <1>11,
     NextCases DEF Run!Next, Run!WorkerStep, Run!HandlerStep

\* What TaskRun takes as the steps of an attempt with an agent is what pipes,
\* readers, the heartbeat, limits and a cancel at any moment amount to, where a
\* kill ends the agent.
THEOREM StreamFollowsTaskRun == Spec => FollowsTaskRun
<1>1. StreamInv /\ [Next]_vars => (~stubborn => [Run!Next]_(Run!vars))
  <2>1. ASSUME StreamInv, ~stubborn, Next
        PROVE  [Run!Next]_(Run!vars)
    BY <2>1, NextRun
  <2>2. ASSUME UNCHANGED vars
        PROVE  UNCHANGED Run!vars
    BY <2>2 DEF vars, agentVars, readerVars, heartVars, workerVars, cancelVars,
                Run!vars, Run!agentVars, Run!threadVars, ThreadsAt, WorkerAt,
                AgentIs, Alive
  <2> QED
    BY <2>1, <2>2
<1> QED
  BY <1>1, StreamInductive, PTL DEF Spec, FollowsTaskRun
=============================================================================
