---------------------------- MODULE TaskRunProofs ----------------------------
(***************************************************************************)
(* Proofs about TaskRun, for any number of attempts, any limits and any    *)
(* faults of the callbacks: RunInv is inductive, and with it the type      *)
(* invariant, NoAgentLeft and SentWasHeard; CancelInTime follows, since a  *)
(* cancel in time makes the run Doomed, and no step undoes that;           *)
(* LostWasCancelled follows with Uncancelled, what n8n is told of an       *)
(* undisturbed run with OneStory, and with both that such a run implements *)
(* RunContract; and that contract suffices for what it was made for.       *)
(***************************************************************************)
EXTENDS TaskRun, SequenceTheorems, TLAPS

\* The next-state relation as a disjunction of its actions.
LEMMA NextCases ==
  ASSUME Next
  PROVE
    \/ StopCancelled
    \/ StartAttempt
    \/ BackOff
    \/ ExecuteOnce
    \/ MarkRunning
    \/ (\E failure \in {"none"} \cup Failures : Prepare(failure))
    \/ Launch
    \/ StartAgent
    \/ RegisterAgent
    \/ StopAgent
    \/ AgentGone
    \/ (\E failure \in Failures : Verdict(failure))
    \/ (\E result \in {"success"} \cup Failures : Publish(result))
    \/ (\E t \in {"worker", "watchdog"} : ReadStatus(t))
    \/ FinishAttempt
    \/ ReportSuccess
    \/ SkipCallback
    \/ ReportFailure
    \/ RetryAttempt
    \/ HandleException
    \/ LeaveRun
    \/ ReportError
    \/ (\E t \in Threads : MarkSending(t))
    \/ (\E t \in Threads : PostAnswered(t))
    \/ (\E t \in Threads, fault \in Faults : PostFails(t, fault))
    \/ (\E t \in Threads : MarkSent(t))
    \/ (\E t \in Threads : MarkFailed(t))
    \/ Cancel
    \/ MarkCancelled
    \/ RetryCallback
    \/ Sweep
    \/ ForceFinish
    \/ (\E code \in {"zero", "nonzero"} : AgentExits(code))
    \/ Expire
BY DEF Next, WorkerStep, HandlerStep, WatchdogStep, Send, Threads

\* What Append makes of the callbacks n8n got.
LEMMA HeardMore ==
  ASSUME heard \in Seq(Outcome), NEW o \in Outcome
  PROVE  /\ Append(heard, o) \in Seq(Outcome)
         /\ Append(heard, o) # <<>>
         /\ ToSet(Append(heard, o)) = ToSet(heard) \cup {o}
<1>1. /\ Append(heard, o) \in Seq(Outcome)
      /\ Append(heard, o) # <<>>
      /\ Len(Append(heard, o)) = Len(heard) + 1
      /\ \A i \in 1..Len(heard) : Append(heard, o)[i] = heard[i]
      /\ Append(heard, o)[Len(heard) + 1] = o
  BY AppendProperties
<1>2. /\ Len(heard) \in Nat
      /\ DOMAIN heard = 1..Len(heard)
      /\ DOMAIN Append(heard, o) = 1..(Len(heard) + 1)
  BY <1>1, LenProperties
<1>3. 1..(Len(heard) + 1) = (1..Len(heard)) \cup {Len(heard) + 1}
  BY <1>2
<1>4. {Append(heard, o)[i] : i \in 1..(Len(heard) + 1)}
        = {heard[i] : i \in 1..Len(heard)} \cup {o}
  BY <1>1, <1>3
<1>5. ToSet(Append(heard, o)) = ToSet(heard) \cup {o}
  BY <1>2, <1>4 DEF ToSet
<1> QED
  BY <1>1, <1>5

-----------------------------------------------------------------------------
\* No step leaves the types.
LEMMA TypeOKKept ==
  ASSUME RunInv, Next
  PROVE  TypeOK'
<1> USE DEF RunInv, Goto, agentVars, threadVars, TypeOK, TaskStatus, Terminal,
       Unfinished, CallbackStatus, Outcome, Failures, Threads, WorkerPC,
       LoopPC, WatchdogPC, SendPC
<1>1. ASSUME StopCancelled PROVE TypeOK'
  BY <1>1 DEF StopCancelled
<1>2. ASSUME StartAttempt PROVE TypeOK'
  BY <1>2 DEF StartAttempt
<1>3. ASSUME BackOff PROVE TypeOK'
  BY <1>3 DEF BackOff
<1>4. ASSUME ExecuteOnce PROVE TypeOK'
  BY <1>4 DEF ExecuteOnce
<1>5. ASSUME MarkRunning PROVE TypeOK'
  BY <1>5 DEF MarkRunning
<1>6. ASSUME NEW failure \in {"none"} \cup Failures, Prepare(failure) PROVE
   TypeOK'
  BY <1>6 DEF Prepare, Failures
<1>7. ASSUME Launch PROVE TypeOK'
  BY <1>7 DEF Launch
<1>8. ASSUME StartAgent PROVE TypeOK'
  BY <1>8 DEF StartAgent
<1>9. ASSUME RegisterAgent PROVE TypeOK'
  BY <1>9 DEF RegisterAgent
<1>10. ASSUME StopAgent PROVE TypeOK'
  <2>1. handle' \in BOOLEAN
    BY <1>10, Zenon DEF StopAgent
  <2> QED
    BY <1>10, <2>1 DEF StopAgent
<1>11. ASSUME AgentGone PROVE TypeOK'
  <2>1. handle' \in BOOLEAN
    BY <1>11, Zenon DEF AgentGone
  <2> QED
    BY <1>11, <2>1 DEF AgentGone
<1>12. ASSUME NEW failure \in Failures, Verdict(failure) PROVE TypeOK'
  BY <1>12 DEF Verdict, Failures
<1>13. ASSUME NEW result \in {"success"} \cup Failures, Publish(result) PROVE
   TypeOK'
  BY <1>13 DEF Publish, Failures
<1>14. ASSUME NEW t \in {"worker", "watchdog"}, ReadStatus(t) PROVE TypeOK'
  BY <1>14 DEF ReadStatus
<1>15. ASSUME FinishAttempt PROVE TypeOK'
  BY <1>15 DEF FinishAttempt, Finished
<1>16. ASSUME ReportSuccess PROVE TypeOK'
  BY <1>16, AttemptsType, CallbackAttemptsType DEF ReportSuccess, StartSending
<1>17. ASSUME SkipCallback PROVE TypeOK'
  BY <1>17 DEF SkipCallback
<1>18. ASSUME ReportFailure PROVE TypeOK'
  BY <1>18, AttemptsType, CallbackAttemptsType DEF ReportFailure, StartSending
<1>19. ASSUME RetryAttempt PROVE TypeOK'
  BY <1>19, AttemptsType, CallbackAttemptsType DEF RetryAttempt
<1>20. ASSUME HandleException PROVE TypeOK'
  BY <1>20 DEF HandleException
<1>21. ASSUME LeaveRun PROVE TypeOK'
  BY <1>21 DEF LeaveRun
<1>22. ASSUME ReportError PROVE TypeOK'
  BY <1>22, AttemptsType, CallbackAttemptsType DEF ReportError, Finished,
    StartSending
<1>23. ASSUME NEW t \in Threads, MarkSending(t) PROVE TypeOK'
  BY <1>23 DEF MarkSending
<1>24. ASSUME NEW t \in Threads, PostAnswered(t) PROVE TypeOK'
  BY <1>24, HeardMore DEF PostAnswered
<1>25. ASSUME NEW t \in Threads, NEW fault \in Faults, PostFails(t, fault)
   PROVE TypeOK'
  BY <1>25, HeardMore, FaultsType DEF PostFails, AfterRaise
<1>26. ASSUME NEW t \in Threads, MarkSent(t) PROVE TypeOK'
  BY <1>26 DEF MarkSent, AfterSend
<1>27. ASSUME NEW t \in Threads, MarkFailed(t) PROVE TypeOK'
  BY <1>27, AttemptsType, CallbackAttemptsType DEF MarkFailed, AfterSend
<1>28. ASSUME Cancel PROVE TypeOK'
  BY <1>28 DEF Cancel
<1>29. ASSUME MarkCancelled PROVE TypeOK'
  BY <1>29 DEF MarkCancelled
<1>30. ASSUME RetryCallback PROVE TypeOK'
  BY <1>30, AttemptsType, CallbackAttemptsType DEF RetryCallback
<1>31. ASSUME Sweep PROVE TypeOK'
  BY <1>31 DEF Sweep
<1>32. ASSUME ForceFinish PROVE TypeOK'
  BY <1>32, AttemptsType, CallbackAttemptsType DEF ForceFinish, Finished,
    StartSending
<1>33. ASSUME NEW code \in {"zero", "nonzero"}, AgentExits(code) PROVE TypeOK'
  BY <1>33 DEF AgentExits
<1>34. ASSUME Expire PROVE TypeOK'
  BY <1>34 DEF Expire
<1> HIDE DEF TypeOK
<1> QED
  BY <1>1, <1>2, <1>3, <1>4, <1>5, <1>6, <1>7, <1>8, <1>9, <1>10, <1>11,
     <1>12, <1>13, <1>14, <1>15, <1>16, <1>17, <1>18, <1>19, <1>20, <1>21,
     <1>22, <1>23, <1>24, <1>25, <1>26, <1>27, <1>28, <1>29, <1>30, <1>31,
     <1>32, <1>33, <1>34, NextCases

\* No step leaves an agent behind.
LEMMA NoAgentLeftKept ==
  ASSUME RunInv, Next
  PROVE  NoAgentLeft'
<1> USE DEF RunInv, Goto, agentVars, threadVars, TypeOK, NoAgentLeft, Threads,
       SendPC
<1>1. ASSUME StopCancelled PROVE NoAgentLeft'
  BY <1>1 DEF StopCancelled
<1>2. ASSUME StartAttempt PROVE NoAgentLeft'
  BY <1>2 DEF StartAttempt
<1>3. ASSUME BackOff PROVE NoAgentLeft'
  BY <1>3 DEF BackOff
<1>4. ASSUME ExecuteOnce PROVE NoAgentLeft'
  BY <1>4 DEF ExecuteOnce
<1>5. ASSUME MarkRunning PROVE NoAgentLeft'
  BY <1>5 DEF MarkRunning
<1>6. ASSUME NEW failure \in {"none"} \cup Failures, Prepare(failure) PROVE
   NoAgentLeft'
  BY <1>6 DEF Prepare, Failures
<1>7. ASSUME Launch PROVE NoAgentLeft'
  BY <1>7 DEF Launch
<1>8. ASSUME StartAgent PROVE NoAgentLeft'
  BY <1>8 DEF StartAgent
<1>9. ASSUME RegisterAgent PROVE NoAgentLeft'
  BY <1>9 DEF RegisterAgent
<1>10. ASSUME StopAgent PROVE NoAgentLeft'
  BY <1>10 DEF StopAgent
<1>11. ASSUME AgentGone PROVE NoAgentLeft'
  BY <1>11 DEF AgentGone
<1>12. ASSUME NEW failure \in Failures, Verdict(failure) PROVE NoAgentLeft'
  BY <1>12 DEF Verdict, Failures
<1>13. ASSUME NEW result \in {"success"} \cup Failures, Publish(result) PROVE
   NoAgentLeft'
  BY <1>13 DEF Publish, Failures
<1>14. ASSUME NEW t \in {"worker", "watchdog"}, ReadStatus(t) PROVE
   NoAgentLeft'
  BY <1>14 DEF ReadStatus
<1>15. ASSUME FinishAttempt PROVE NoAgentLeft'
  BY <1>15 DEF FinishAttempt, Finished
<1>16. ASSUME ReportSuccess PROVE NoAgentLeft'
  BY <1>16 DEF ReportSuccess, StartSending
<1>17. ASSUME SkipCallback PROVE NoAgentLeft'
  BY <1>17 DEF SkipCallback
<1>18. ASSUME ReportFailure PROVE NoAgentLeft'
  BY <1>18 DEF ReportFailure, StartSending
<1>19. ASSUME RetryAttempt PROVE NoAgentLeft'
  BY <1>19 DEF RetryAttempt
<1>20. ASSUME HandleException PROVE NoAgentLeft'
  BY <1>20 DEF HandleException
<1>21. ASSUME LeaveRun PROVE NoAgentLeft'
  BY <1>21 DEF LeaveRun
<1>22. ASSUME ReportError PROVE NoAgentLeft'
  BY <1>22 DEF ReportError, Finished, StartSending
<1>23. ASSUME NEW t \in Threads, MarkSending(t) PROVE NoAgentLeft'
  BY <1>23 DEF MarkSending
<1>24. ASSUME NEW t \in Threads, PostAnswered(t) PROVE NoAgentLeft'
  BY <1>24, HeardMore DEF PostAnswered
<1>25. ASSUME NEW t \in Threads, NEW fault \in Faults, PostFails(t, fault)
   PROVE NoAgentLeft'
  BY <1>25, HeardMore, FaultsType DEF PostFails, AfterRaise
<1>26. ASSUME NEW t \in Threads, MarkSent(t) PROVE NoAgentLeft'
  BY <1>26 DEF MarkSent, AfterSend
<1>27. ASSUME NEW t \in Threads, MarkFailed(t) PROVE NoAgentLeft'
  BY <1>27 DEF MarkFailed, AfterSend
<1>28. ASSUME Cancel PROVE NoAgentLeft'
  BY <1>28 DEF Cancel
<1>29. ASSUME MarkCancelled PROVE NoAgentLeft'
  BY <1>29 DEF MarkCancelled
<1>30. ASSUME RetryCallback PROVE NoAgentLeft'
  BY <1>30 DEF RetryCallback
<1>31. ASSUME Sweep PROVE NoAgentLeft'
  BY <1>31 DEF Sweep
<1>32. ASSUME ForceFinish PROVE NoAgentLeft'
  BY <1>32 DEF ForceFinish, Finished, StartSending
<1>33. ASSUME NEW code \in {"zero", "nonzero"}, AgentExits(code) PROVE
   NoAgentLeft'
  BY <1>33 DEF AgentExits
<1>34. ASSUME Expire PROVE NoAgentLeft'
  BY <1>34 DEF Expire
<1> HIDE DEF NoAgentLeft
<1> QED
  BY <1>1, <1>2, <1>3, <1>4, <1>5, <1>6, <1>7, <1>8, <1>9, <1>10, <1>11,
     <1>12, <1>13, <1>14, <1>15, <1>16, <1>17, <1>18, <1>19, <1>20, <1>21,
     <1>22, <1>23, <1>24, <1>25, <1>26, <1>27, <1>28, <1>29, <1>30, <1>31,
     <1>32, <1>33, <1>34, NextCases

\* A callback is marked sent after its answer only.
LEMMA SentWasHeardKept ==
  ASSUME RunInv, Next
  PROVE  SentWasHeard'
<1> USE DEF RunInv, Goto, agentVars, threadVars, TypeOK, SentWasHeard,
       AnsweredWasHeard, Threads, WorkerPC, LoopPC, WatchdogPC, SendPC
<1>1. ASSUME StopCancelled PROVE SentWasHeard'
  BY <1>1 DEF StopCancelled
<1>2. ASSUME StartAttempt PROVE SentWasHeard'
  BY <1>2 DEF StartAttempt
<1>3. ASSUME BackOff PROVE SentWasHeard'
  BY <1>3 DEF BackOff
<1>4. ASSUME ExecuteOnce PROVE SentWasHeard'
  BY <1>4 DEF ExecuteOnce
<1>5. ASSUME MarkRunning PROVE SentWasHeard'
  BY <1>5 DEF MarkRunning
<1>6. ASSUME NEW failure \in {"none"} \cup Failures, Prepare(failure) PROVE
   SentWasHeard'
  BY <1>6 DEF Prepare, Failures
<1>7. ASSUME Launch PROVE SentWasHeard'
  BY <1>7 DEF Launch
<1>8. ASSUME StartAgent PROVE SentWasHeard'
  BY <1>8 DEF StartAgent
<1>9. ASSUME RegisterAgent PROVE SentWasHeard'
  BY <1>9 DEF RegisterAgent
<1>10. ASSUME StopAgent PROVE SentWasHeard'
  BY <1>10 DEF StopAgent
<1>11. ASSUME AgentGone PROVE SentWasHeard'
  BY <1>11 DEF AgentGone
<1>12. ASSUME NEW failure \in Failures, Verdict(failure) PROVE SentWasHeard'
  BY <1>12 DEF Verdict, Failures
<1>13. ASSUME NEW result \in {"success"} \cup Failures, Publish(result) PROVE
   SentWasHeard'
  BY <1>13 DEF Publish, Failures
<1>14. ASSUME NEW t \in {"worker", "watchdog"}, ReadStatus(t) PROVE
   SentWasHeard'
  BY <1>14 DEF ReadStatus
<1>15. ASSUME FinishAttempt PROVE SentWasHeard'
  BY <1>15 DEF FinishAttempt, Finished
<1>16. ASSUME ReportSuccess PROVE SentWasHeard'
  BY <1>16 DEF ReportSuccess, StartSending
<1>17. ASSUME SkipCallback PROVE SentWasHeard'
  BY <1>17 DEF SkipCallback
<1>18. ASSUME ReportFailure PROVE SentWasHeard'
  BY <1>18 DEF ReportFailure, StartSending
<1>19. ASSUME RetryAttempt PROVE SentWasHeard'
  BY <1>19 DEF RetryAttempt
<1>20. ASSUME HandleException PROVE SentWasHeard'
  BY <1>20 DEF HandleException
<1>21. ASSUME LeaveRun PROVE SentWasHeard'
  BY <1>21 DEF LeaveRun
<1>22. ASSUME ReportError PROVE SentWasHeard'
  BY <1>22 DEF ReportError, Finished, StartSending
<1>23. ASSUME NEW t \in Threads, MarkSending(t) PROVE SentWasHeard'
  BY <1>23 DEF MarkSending
<1>24. ASSUME NEW t \in Threads, PostAnswered(t) PROVE SentWasHeard'
  BY <1>24, HeardMore DEF PostAnswered
<1>25. ASSUME NEW t \in Threads, NEW fault \in Faults, PostFails(t, fault)
   PROVE SentWasHeard'
  BY <1>25, HeardMore, FaultsType DEF PostFails, AfterRaise
<1>26. ASSUME NEW t \in Threads, MarkSent(t) PROVE SentWasHeard'
  BY <1>26 DEF MarkSent, AfterSend
<1>27. ASSUME NEW t \in Threads, MarkFailed(t) PROVE SentWasHeard'
  BY <1>27 DEF MarkFailed, AfterSend
<1>28. ASSUME Cancel PROVE SentWasHeard'
  BY <1>28 DEF Cancel
<1>29. ASSUME MarkCancelled PROVE SentWasHeard'
  BY <1>29 DEF MarkCancelled
<1>30. ASSUME RetryCallback PROVE SentWasHeard'
  BY <1>30 DEF RetryCallback
<1>31. ASSUME Sweep PROVE SentWasHeard'
  BY <1>31 DEF Sweep
<1>32. ASSUME ForceFinish PROVE SentWasHeard'
  BY <1>32 DEF ForceFinish, Finished, StartSending
<1>33. ASSUME NEW code \in {"zero", "nonzero"}, AgentExits(code) PROVE
   SentWasHeard'
  BY <1>33 DEF AgentExits
<1>34. ASSUME Expire PROVE SentWasHeard'
  BY <1>34 DEF Expire
<1> HIDE DEF SentWasHeard
<1> QED
  BY <1>1, <1>2, <1>3, <1>4, <1>5, <1>6, <1>7, <1>8, <1>9, <1>10, <1>11,
     <1>12, <1>13, <1>14, <1>15, <1>16, <1>17, <1>18, <1>19, <1>20, <1>21,
     <1>22, <1>23, <1>24, <1>25, <1>26, <1>27, <1>28, <1>29, <1>30, <1>31,
     <1>32, <1>33, <1>34, NextCases

\* An answer comes with the callback.
LEMMA AnsweredWasHeardKept ==
  ASSUME RunInv, Next
  PROVE  AnsweredWasHeard'
<1> USE DEF RunInv, Goto, agentVars, threadVars, TypeOK, AnsweredWasHeard,
       Threads, SendPC
<1>1. ASSUME StopCancelled PROVE AnsweredWasHeard'
  BY <1>1 DEF StopCancelled
<1>2. ASSUME StartAttempt PROVE AnsweredWasHeard'
  BY <1>2 DEF StartAttempt
<1>3. ASSUME BackOff PROVE AnsweredWasHeard'
  BY <1>3 DEF BackOff
<1>4. ASSUME ExecuteOnce PROVE AnsweredWasHeard'
  BY <1>4 DEF ExecuteOnce
<1>5. ASSUME MarkRunning PROVE AnsweredWasHeard'
  BY <1>5 DEF MarkRunning
<1>6. ASSUME NEW failure \in {"none"} \cup Failures, Prepare(failure) PROVE
   AnsweredWasHeard'
  BY <1>6 DEF Prepare, Failures
<1>7. ASSUME Launch PROVE AnsweredWasHeard'
  BY <1>7 DEF Launch
<1>8. ASSUME StartAgent PROVE AnsweredWasHeard'
  BY <1>8 DEF StartAgent
<1>9. ASSUME RegisterAgent PROVE AnsweredWasHeard'
  BY <1>9 DEF RegisterAgent
<1>10. ASSUME StopAgent PROVE AnsweredWasHeard'
  BY <1>10 DEF StopAgent
<1>11. ASSUME AgentGone PROVE AnsweredWasHeard'
  BY <1>11 DEF AgentGone
<1>12. ASSUME NEW failure \in Failures, Verdict(failure) PROVE
   AnsweredWasHeard'
  BY <1>12 DEF Verdict, Failures
<1>13. ASSUME NEW result \in {"success"} \cup Failures, Publish(result) PROVE
   AnsweredWasHeard'
  BY <1>13 DEF Publish, Failures
<1>14. ASSUME NEW t \in {"worker", "watchdog"}, ReadStatus(t) PROVE
   AnsweredWasHeard'
  BY <1>14 DEF ReadStatus
<1>15. ASSUME FinishAttempt PROVE AnsweredWasHeard'
  BY <1>15 DEF FinishAttempt, Finished
<1>16. ASSUME ReportSuccess PROVE AnsweredWasHeard'
  BY <1>16 DEF ReportSuccess, StartSending
<1>17. ASSUME SkipCallback PROVE AnsweredWasHeard'
  BY <1>17 DEF SkipCallback
<1>18. ASSUME ReportFailure PROVE AnsweredWasHeard'
  BY <1>18 DEF ReportFailure, StartSending
<1>19. ASSUME RetryAttempt PROVE AnsweredWasHeard'
  BY <1>19 DEF RetryAttempt
<1>20. ASSUME HandleException PROVE AnsweredWasHeard'
  BY <1>20 DEF HandleException
<1>21. ASSUME LeaveRun PROVE AnsweredWasHeard'
  BY <1>21 DEF LeaveRun
<1>22. ASSUME ReportError PROVE AnsweredWasHeard'
  BY <1>22 DEF ReportError, Finished, StartSending
<1>23. ASSUME NEW t \in Threads, MarkSending(t) PROVE AnsweredWasHeard'
  BY <1>23 DEF MarkSending
<1>24. ASSUME NEW t \in Threads, PostAnswered(t) PROVE AnsweredWasHeard'
  BY <1>24, HeardMore DEF PostAnswered
<1>25. ASSUME NEW t \in Threads, NEW fault \in Faults, PostFails(t, fault)
   PROVE AnsweredWasHeard'
  BY <1>25, HeardMore, FaultsType DEF PostFails, AfterRaise
<1>26. ASSUME NEW t \in Threads, MarkSent(t) PROVE AnsweredWasHeard'
  BY <1>26 DEF MarkSent, AfterSend
<1>27. ASSUME NEW t \in Threads, MarkFailed(t) PROVE AnsweredWasHeard'
  BY <1>27 DEF MarkFailed, AfterSend
<1>28. ASSUME Cancel PROVE AnsweredWasHeard'
  BY <1>28 DEF Cancel
<1>29. ASSUME MarkCancelled PROVE AnsweredWasHeard'
  BY <1>29 DEF MarkCancelled
<1>30. ASSUME RetryCallback PROVE AnsweredWasHeard'
  BY <1>30 DEF RetryCallback
<1>31. ASSUME Sweep PROVE AnsweredWasHeard'
  BY <1>31 DEF Sweep
<1>32. ASSUME ForceFinish PROVE AnsweredWasHeard'
  BY <1>32 DEF ForceFinish, Finished, StartSending
<1>33. ASSUME NEW code \in {"zero", "nonzero"}, AgentExits(code) PROVE
   AnsweredWasHeard'
  BY <1>33 DEF AgentExits
<1>34. ASSUME Expire PROVE AnsweredWasHeard'
  BY <1>34 DEF Expire
<1> HIDE DEF AnsweredWasHeard
<1> QED
  BY <1>1, <1>2, <1>3, <1>4, <1>5, <1>6, <1>7, <1>8, <1>9, <1>10, <1>11,
     <1>12, <1>13, <1>14, <1>15, <1>16, <1>17, <1>18, <1>19, <1>20, <1>21,
     <1>22, <1>23, <1>24, <1>25, <1>26, <1>27, <1>28, <1>29, <1>30, <1>31,
     <1>32, <1>33, <1>34, NextCases

\* No attempt follows a success.
LEMMA SuccessIsLastKept ==
  ASSUME RunInv, Next
  PROVE  SuccessIsLast'
<1> USE DEF RunInv, Goto, agentVars, threadVars, TypeOK, SuccessIsLast,
       InAttempt, NoSuccessSaid, BeforeVerdict, Outcome, Failures, Threads,
       WorkerPC, LoopPC, WatchdogPC, SendPC
<1>1. ASSUME StopCancelled PROVE SuccessIsLast'
  BY <1>1 DEF StopCancelled
<1>2. ASSUME StartAttempt PROVE SuccessIsLast'
  BY <1>2 DEF StartAttempt
<1>3. ASSUME BackOff PROVE SuccessIsLast'
  BY <1>3 DEF BackOff
<1>4. ASSUME ExecuteOnce PROVE SuccessIsLast'
  BY <1>4 DEF ExecuteOnce
<1>5. ASSUME MarkRunning PROVE SuccessIsLast'
  BY <1>5 DEF MarkRunning
<1>6. ASSUME NEW failure \in {"none"} \cup Failures, Prepare(failure) PROVE
   SuccessIsLast'
  BY <1>6 DEF Prepare, Failures
<1>7. ASSUME Launch PROVE SuccessIsLast'
  BY <1>7 DEF Launch
<1>8. ASSUME StartAgent PROVE SuccessIsLast'
  BY <1>8 DEF StartAgent
<1>9. ASSUME RegisterAgent PROVE SuccessIsLast'
  BY <1>9 DEF RegisterAgent
<1>10. ASSUME StopAgent PROVE SuccessIsLast'
  BY <1>10 DEF StopAgent
<1>11. ASSUME AgentGone PROVE SuccessIsLast'
  BY <1>11 DEF AgentGone
<1>12. ASSUME NEW failure \in Failures, Verdict(failure) PROVE SuccessIsLast'
  BY <1>12 DEF Verdict, Failures
<1>13. ASSUME NEW result \in {"success"} \cup Failures, Publish(result) PROVE
   SuccessIsLast'
  BY <1>13 DEF Publish, Failures
<1>14. ASSUME NEW t \in {"worker", "watchdog"}, ReadStatus(t) PROVE
   SuccessIsLast'
  BY <1>14 DEF ReadStatus
<1>15. ASSUME FinishAttempt PROVE SuccessIsLast'
  BY <1>15 DEF FinishAttempt, Finished
<1>16. ASSUME ReportSuccess PROVE SuccessIsLast'
  BY <1>16 DEF ReportSuccess, StartSending
<1>17. ASSUME SkipCallback PROVE SuccessIsLast'
  BY <1>17 DEF SkipCallback
<1>18. ASSUME ReportFailure PROVE SuccessIsLast'
  BY <1>18 DEF ReportFailure, StartSending
<1>19. ASSUME RetryAttempt PROVE SuccessIsLast'
  BY <1>19 DEF RetryAttempt
<1>20. ASSUME HandleException PROVE SuccessIsLast'
  BY <1>20 DEF HandleException
<1>21. ASSUME LeaveRun PROVE SuccessIsLast'
  BY <1>21 DEF LeaveRun
<1>22. ASSUME ReportError PROVE SuccessIsLast'
  BY <1>22 DEF ReportError, Finished, StartSending
<1>23. ASSUME NEW t \in Threads, MarkSending(t) PROVE SuccessIsLast'
  BY <1>23 DEF MarkSending
<1>24. ASSUME NEW t \in Threads, PostAnswered(t) PROVE SuccessIsLast'
  BY <1>24, HeardMore DEF PostAnswered
<1>25. ASSUME NEW t \in Threads, NEW fault \in Faults, PostFails(t, fault)
   PROVE SuccessIsLast'
  BY <1>25, HeardMore, FaultsType DEF PostFails, AfterRaise
<1>26. ASSUME NEW t \in Threads, MarkSent(t) PROVE SuccessIsLast'
  BY <1>26 DEF MarkSent, AfterSend
<1>27. ASSUME NEW t \in Threads, MarkFailed(t) PROVE SuccessIsLast'
  BY <1>27 DEF MarkFailed, AfterSend
<1>28. ASSUME Cancel PROVE SuccessIsLast'
  BY <1>28 DEF Cancel
<1>29. ASSUME MarkCancelled PROVE SuccessIsLast'
  BY <1>29 DEF MarkCancelled
<1>30. ASSUME RetryCallback PROVE SuccessIsLast'
  BY <1>30 DEF RetryCallback
<1>31. ASSUME Sweep PROVE SuccessIsLast'
  BY <1>31 DEF Sweep
<1>32. ASSUME ForceFinish PROVE SuccessIsLast'
  BY <1>32 DEF ForceFinish, Finished, StartSending
<1>33. ASSUME NEW code \in {"zero", "nonzero"}, AgentExits(code) PROVE
   SuccessIsLast'
  BY <1>33 DEF AgentExits
<1>34. ASSUME Expire PROVE SuccessIsLast'
  BY <1>34 DEF Expire
<1> HIDE DEF SuccessIsLast
<1> QED
  BY <1>1, <1>2, <1>3, <1>4, <1>5, <1>6, <1>7, <1>8, <1>9, <1>10, <1>11,
     <1>12, <1>13, <1>14, <1>15, <1>16, <1>17, <1>18, <1>19, <1>20, <1>21,
     <1>22, <1>23, <1>24, <1>25, <1>26, <1>27, <1>28, <1>29, <1>30, <1>31,
     <1>32, <1>33, <1>34, NextCases

\* A doomed run stays doomed.
LEMMA DoomedKept ==
  ASSUME RunInv, Doomed, Next
  PROVE  Doomed'
<1> USE DEF RunInv, Goto, agentVars, threadVars, TypeOK, SuccessIsLast,
       InAttempt, Doomed, NoSuccessSaid, Outcome, Failures, Threads, WorkerPC,
       LoopPC, WatchdogPC, SendPC
<1>1. ASSUME StopCancelled PROVE Doomed'
  BY <1>1 DEF StopCancelled
<1>2. ASSUME StartAttempt PROVE Doomed'
  BY <1>2 DEF StartAttempt
<1>3. ASSUME BackOff PROVE Doomed'
  BY <1>3 DEF BackOff
<1>4. ASSUME ExecuteOnce PROVE Doomed'
  BY <1>4 DEF ExecuteOnce
<1>5. ASSUME MarkRunning PROVE Doomed'
  BY <1>5 DEF MarkRunning
<1>6. ASSUME NEW failure \in {"none"} \cup Failures, Prepare(failure) PROVE
   Doomed'
  BY <1>6 DEF Prepare, Failures
<1>7. ASSUME Launch PROVE Doomed'
  BY <1>7 DEF Launch
<1>8. ASSUME StartAgent PROVE Doomed'
  BY <1>8 DEF StartAgent
<1>9. ASSUME RegisterAgent PROVE Doomed'
  BY <1>9 DEF RegisterAgent
<1>10. ASSUME StopAgent PROVE Doomed'
  BY <1>10 DEF StopAgent
<1>11. ASSUME AgentGone PROVE Doomed'
  BY <1>11 DEF AgentGone
<1>12. ASSUME NEW failure \in Failures, Verdict(failure) PROVE Doomed'
  BY <1>12 DEF Verdict, Failures
<1>13. ASSUME NEW result \in {"success"} \cup Failures, Publish(result) PROVE
   Doomed'
  BY <1>13 DEF Publish, Failures
<1>14. ASSUME NEW t \in {"worker", "watchdog"}, ReadStatus(t) PROVE Doomed'
  BY <1>14 DEF ReadStatus
<1>15. ASSUME FinishAttempt PROVE Doomed'
  BY <1>15 DEF FinishAttempt, Finished
<1>16. ASSUME ReportSuccess PROVE Doomed'
  BY <1>16 DEF ReportSuccess, StartSending
<1>17. ASSUME SkipCallback PROVE Doomed'
  BY <1>17 DEF SkipCallback
<1>18. ASSUME ReportFailure PROVE Doomed'
  BY <1>18 DEF ReportFailure, StartSending
<1>19. ASSUME RetryAttempt PROVE Doomed'
  BY <1>19 DEF RetryAttempt
<1>20. ASSUME HandleException PROVE Doomed'
  BY <1>20 DEF HandleException
<1>21. ASSUME LeaveRun PROVE Doomed'
  BY <1>21 DEF LeaveRun
<1>22. ASSUME ReportError PROVE Doomed'
  BY <1>22 DEF ReportError, Finished, StartSending
<1>23. ASSUME NEW t \in Threads, MarkSending(t) PROVE Doomed'
  BY <1>23 DEF MarkSending
<1>24. ASSUME NEW t \in Threads, PostAnswered(t) PROVE Doomed'
  BY <1>24, HeardMore DEF PostAnswered
<1>25. ASSUME NEW t \in Threads, NEW fault \in Faults, PostFails(t, fault)
   PROVE Doomed'
  BY <1>25, HeardMore, FaultsType DEF PostFails, AfterRaise
<1>26. ASSUME NEW t \in Threads, MarkSent(t) PROVE Doomed'
  BY <1>26 DEF MarkSent, AfterSend
<1>27. ASSUME NEW t \in Threads, MarkFailed(t) PROVE Doomed'
  BY <1>27 DEF MarkFailed, AfterSend
<1>28. ASSUME Cancel PROVE Doomed'
  BY <1>28 DEF Cancel
<1>29. ASSUME MarkCancelled PROVE Doomed'
  BY <1>29 DEF MarkCancelled
<1>30. ASSUME RetryCallback PROVE Doomed'
  BY <1>30 DEF RetryCallback
<1>31. ASSUME Sweep PROVE Doomed'
  BY <1>31 DEF Sweep
<1>32. ASSUME ForceFinish PROVE Doomed'
  BY <1>32 DEF ForceFinish, Finished, StartSending
<1>33. ASSUME NEW code \in {"zero", "nonzero"}, AgentExits(code) PROVE Doomed'
  BY <1>33 DEF AgentExits
<1>34. ASSUME Expire PROVE Doomed'
  BY <1>34 DEF Expire
<1> HIDE DEF Doomed
<1> QED
  BY <1>1, <1>2, <1>3, <1>4, <1>5, <1>6, <1>7, <1>8, <1>9, <1>10, <1>11,
     <1>12, <1>13, <1>14, <1>15, <1>16, <1>17, <1>18, <1>19, <1>20, <1>21,
     <1>22, <1>23, <1>24, <1>25, <1>26, <1>27, <1>28, <1>29, <1>30, <1>31,
     <1>32, <1>33, <1>34, NextCases

\* A run that was not cancelled shows its outcome when it is over.
LEMMA UncancelledKept ==
  ASSUME RunInv, Uncancelled, LostWasCancelled, Next
  PROVE  Uncancelled' /\ LostWasCancelled'
<1> USE DEF RunInv, Goto, agentVars, threadVars, TypeOK, Uncancelled,
       LostWasCancelled, TaskStatus, Terminal, Unfinished, Outcome, Failures,
       Threads, WorkerPC, LoopPC, WatchdogPC, SendPC
<1>1. ASSUME StopCancelled PROVE Uncancelled' /\ LostWasCancelled'
  BY <1>1 DEF StopCancelled
<1>2. ASSUME StartAttempt PROVE Uncancelled' /\ LostWasCancelled'
  BY <1>2 DEF StartAttempt
<1>3. ASSUME BackOff PROVE Uncancelled' /\ LostWasCancelled'
  BY <1>3 DEF BackOff
<1>4. ASSUME ExecuteOnce PROVE Uncancelled' /\ LostWasCancelled'
  BY <1>4 DEF ExecuteOnce
<1>5. ASSUME MarkRunning PROVE Uncancelled' /\ LostWasCancelled'
  BY <1>5 DEF MarkRunning
<1>6. ASSUME NEW failure \in {"none"} \cup Failures, Prepare(failure) PROVE
   Uncancelled' /\ LostWasCancelled'
  BY <1>6 DEF Prepare, Failures
<1>7. ASSUME Launch PROVE Uncancelled' /\ LostWasCancelled'
  BY <1>7 DEF Launch
<1>8. ASSUME StartAgent PROVE Uncancelled' /\ LostWasCancelled'
  BY <1>8 DEF StartAgent
<1>9. ASSUME RegisterAgent PROVE Uncancelled' /\ LostWasCancelled'
  BY <1>9 DEF RegisterAgent
<1>10. ASSUME StopAgent PROVE Uncancelled' /\ LostWasCancelled'
  BY <1>10 DEF StopAgent
<1>11. ASSUME AgentGone PROVE Uncancelled' /\ LostWasCancelled'
  BY <1>11 DEF AgentGone
<1>12. ASSUME NEW failure \in Failures, Verdict(failure)
   PROVE  Uncancelled' /\ LostWasCancelled'
  BY <1>12 DEF Verdict, Failures
<1>13. ASSUME NEW result \in {"success"} \cup Failures, Publish(result) PROVE
   Uncancelled' /\ LostWasCancelled'
  BY <1>13 DEF Publish, Failures
<1>14. ASSUME NEW t \in {"worker", "watchdog"}, ReadStatus(t)
   PROVE  Uncancelled' /\ LostWasCancelled'
  BY <1>14 DEF ReadStatus
<1>15. ASSUME FinishAttempt PROVE Uncancelled' /\ LostWasCancelled'
  BY <1>15 DEF FinishAttempt, Finished
<1>16. ASSUME ReportSuccess PROVE Uncancelled' /\ LostWasCancelled'
  BY <1>16 DEF ReportSuccess, StartSending
<1>17. ASSUME SkipCallback PROVE Uncancelled' /\ LostWasCancelled'
  BY <1>17 DEF SkipCallback
<1>18. ASSUME ReportFailure PROVE Uncancelled' /\ LostWasCancelled'
  BY <1>18 DEF ReportFailure, StartSending
<1>19. ASSUME RetryAttempt PROVE Uncancelled' /\ LostWasCancelled'
  BY <1>19 DEF RetryAttempt
<1>20. ASSUME HandleException PROVE Uncancelled' /\ LostWasCancelled'
  BY <1>20 DEF HandleException
<1>21. ASSUME LeaveRun PROVE Uncancelled' /\ LostWasCancelled'
  BY <1>21 DEF LeaveRun
<1>22. ASSUME ReportError PROVE Uncancelled' /\ LostWasCancelled'
  BY <1>22 DEF ReportError, Finished, StartSending
<1>23. ASSUME NEW t \in Threads, MarkSending(t)
   PROVE  Uncancelled' /\ LostWasCancelled'
  BY <1>23 DEF MarkSending
<1>24. ASSUME NEW t \in Threads, PostAnswered(t)
   PROVE  Uncancelled' /\ LostWasCancelled'
  BY <1>24, HeardMore DEF PostAnswered
<1>25. ASSUME NEW t \in Threads, NEW fault \in Faults, PostFails(t, fault)
   PROVE Uncancelled' /\ LostWasCancelled'
  BY <1>25, HeardMore, FaultsType DEF PostFails, AfterRaise
<1>26. ASSUME NEW t \in Threads, MarkSent(t)
   PROVE  Uncancelled' /\ LostWasCancelled'
  BY <1>26 DEF MarkSent, AfterSend
<1>27. ASSUME NEW t \in Threads, MarkFailed(t)
   PROVE  Uncancelled' /\ LostWasCancelled'
  BY <1>27 DEF MarkFailed, AfterSend
<1>28. ASSUME Cancel PROVE Uncancelled' /\ LostWasCancelled'
  BY <1>28 DEF Cancel
<1>29. ASSUME MarkCancelled PROVE Uncancelled' /\ LostWasCancelled'
  BY <1>29 DEF MarkCancelled
<1>30. ASSUME RetryCallback PROVE Uncancelled' /\ LostWasCancelled'
  BY <1>30 DEF RetryCallback
<1>31. ASSUME Sweep PROVE Uncancelled' /\ LostWasCancelled'
  BY <1>31 DEF Sweep
<1>32. ASSUME ForceFinish PROVE Uncancelled' /\ LostWasCancelled'
  BY <1>32 DEF ForceFinish, Finished, StartSending
<1>33. ASSUME NEW code \in {"zero", "nonzero"}, AgentExits(code)
   PROVE  Uncancelled' /\ LostWasCancelled'
  BY <1>33 DEF AgentExits
<1>34. ASSUME Expire PROVE Uncancelled' /\ LostWasCancelled'
  BY <1>34 DEF Expire
<1> HIDE DEF Uncancelled, LostWasCancelled
<1> QED
  BY <1>1, <1>2, <1>3, <1>4, <1>5, <1>6, <1>7, <1>8, <1>9, <1>10, <1>11,
     <1>12, <1>13, <1>14, <1>15, <1>16, <1>17, <1>18, <1>19, <1>20, <1>21,
     <1>22, <1>23, <1>24, <1>25, <1>26, <1>27, <1>28, <1>29, <1>30, <1>31,
     <1>32, <1>33, <1>34, NextCases

\* An undisturbed run keeps to its story.
LEMMA OneStoryKept ==
  ASSUME RunInv, OneStory, Undisturbed, Next
  PROVE  OneStory'
<1> USE DEF RunInv, Goto, agentVars, threadVars, TypeOK, Undisturbed,
       OneStory, OnlyTwoReport, Untold, Told, DecidedIsShown, CallbackShown,
       TaskStatus, Terminal, Unfinished, Outcome, Failures, Threads, WorkerPC,
       LoopPC, WatchdogPC, SendPC
<1>1. ASSUME StopCancelled PROVE OneStory'
  BY <1>1 DEF StopCancelled
<1>2. ASSUME StartAttempt PROVE OneStory'
  BY <1>2 DEF StartAttempt
<1>3. ASSUME BackOff PROVE OneStory'
  BY <1>3 DEF BackOff
<1>4. ASSUME ExecuteOnce PROVE OneStory'
  BY <1>4 DEF ExecuteOnce
<1>5. ASSUME MarkRunning PROVE OneStory'
  BY <1>5 DEF MarkRunning
<1>6. ASSUME NEW failure \in {"none"} \cup Failures, Prepare(failure) PROVE
   OneStory'
  BY <1>6 DEF Prepare, Failures
<1>7. ASSUME Launch PROVE OneStory'
  BY <1>7 DEF Launch
<1>8. ASSUME StartAgent PROVE OneStory'
  BY <1>8 DEF StartAgent
<1>9. ASSUME RegisterAgent PROVE OneStory'
  BY <1>9 DEF RegisterAgent
<1>10. ASSUME StopAgent PROVE OneStory'
  BY <1>10 DEF StopAgent
<1>11. ASSUME AgentGone PROVE OneStory'
  BY <1>11 DEF AgentGone
<1>12. ASSUME NEW failure \in Failures, Verdict(failure) PROVE OneStory'
  BY <1>12 DEF Verdict, Failures
<1>13. ASSUME NEW result \in {"success"} \cup Failures, Publish(result) PROVE
   OneStory'
  BY <1>13 DEF Publish, Failures
<1>14. ASSUME NEW t \in {"worker", "watchdog"}, ReadStatus(t) PROVE OneStory'
  BY <1>14 DEF ReadStatus
<1>15. ASSUME FinishAttempt PROVE OneStory'
  BY <1>15 DEF FinishAttempt, Finished
<1>16. ASSUME ReportSuccess PROVE OneStory'
  <2>1. body = "none" /\ heard = <<>> /\ body' = "success"
        /\ \A t \in Threads : pc[t] \notin SendPC
    BY <1>16 DEF ReportSuccess, StartSending
  <2>2. OnlyTwoReport' /\ Untold'
    BY <1>16, <2>1 DEF ReportSuccess, StartSending
  <2>3. status' \in {"success", "cancelled"}
    BY <1>16, <2>1 DEF ReportSuccess, StartSending
  <2>4. \A t \in Threads : pc'[t] \in SendPC => t = "worker"
    BY <1>16, <2>1 DEF ReportSuccess, StartSending
  <2>5. sending'["worker"] = "success"
    BY <1>16 DEF ReportSuccess, StartSending
  <2>6. Told'
    <3>1. pc'["worker"] = "send" /\ heard' = <<>>
      BY <1>16, <2>1 DEF ReportSuccess, StartSending
    <3>2. ToSet(heard') = {}
      BY <3>1 DEF ToSet
    <3> QED
      BY <2>1, <2>3, <2>4, <2>5, <3>1, <3>2
  <2>7. DecidedIsShown' /\ CallbackShown'
    BY <1>16, <2>1 DEF ReportSuccess, StartSending
  <2> QED
    BY <2>2, <2>6, <2>7
<1>17. ASSUME SkipCallback PROVE OneStory'
  BY <1>17 DEF SkipCallback
<1>18. ASSUME ReportFailure PROVE OneStory'
  <2>1. body = "none" /\ heard = <<>> /\ body' = "error"
        /\ \A t \in Threads : pc[t] \notin SendPC
    BY <1>18 DEF ReportFailure, StartSending
  <2>2. OnlyTwoReport' /\ Untold'
    BY <1>18, <2>1 DEF ReportFailure, StartSending
  <2>3. status' \in {"error", "cancelled"}
    BY <1>18, <2>1 DEF ReportFailure, StartSending
  <2>4. \A t \in Threads : pc'[t] \in SendPC => t = "worker"
    BY <1>18, <2>1 DEF ReportFailure, StartSending
  <2>5. sending'["worker"] = "error"
    BY <1>18 DEF ReportFailure, StartSending
  <2>6. Told'
    <3>1. pc'["worker"] = "send" /\ heard' = <<>>
      BY <1>18, <2>1 DEF ReportFailure, StartSending
    <3>2. ToSet(heard') = {}
      BY <3>1 DEF ToSet
    <3> QED
      BY <2>1, <2>3, <2>4, <2>5, <3>1, <3>2
  <2>7. DecidedIsShown' /\ CallbackShown'
    BY <1>18, <2>1 DEF ReportFailure, StartSending
  <2> QED
    BY <2>2, <2>6, <2>7
<1>19. ASSUME RetryAttempt PROVE OneStory'
  BY <1>19 DEF RetryAttempt
<1>20. ASSUME HandleException PROVE OneStory'
  BY <1>20 DEF HandleException
<1>21. ASSUME LeaveRun PROVE OneStory'
  BY <1>21 DEF LeaveRun
<1>22. ASSUME ReportError PROVE OneStory'
  <2>1. body = "none" /\ heard = <<>> /\ body' = "error"
        /\ \A t \in Threads : pc[t] \notin SendPC
    BY <1>22 DEF ReportError, StartSending
  <2>2. OnlyTwoReport' /\ Untold'
    BY <1>22, <2>1 DEF ReportError, Finished, StartSending
  <2>3. status' \in {"error", "cancelled"}
    BY <1>22, <2>1 DEF ReportError, Finished, StartSending
  <2>4. \A t \in Threads : pc'[t] \in SendPC => t = "worker"
    BY <1>22, <2>1 DEF ReportError, StartSending
  <2>5. sending'["worker"] = "error"
    BY <1>22 DEF ReportError, StartSending
  <2>6. Told'
    <3>1. pc'["worker"] = "send" /\ heard' = <<>>
      BY <1>22, <2>1 DEF ReportError, StartSending
    <3>2. ToSet(heard') = {}
      BY <3>1 DEF ToSet
    <3> QED
      BY <2>1, <2>3, <2>4, <2>5, <3>1, <3>2
  <2>7. DecidedIsShown' /\ CallbackShown'
    BY <1>22, <2>1 DEF ReportError, Finished, StartSending
  <2> QED
    BY <2>2, <2>6, <2>7
<1>23. ASSUME NEW t \in Threads, MarkSending(t) PROVE OneStory'
  BY <1>23 DEF MarkSending
<1>24. ASSUME NEW t \in Threads, PostAnswered(t) PROVE OneStory'
  BY <1>24, HeardMore DEF PostAnswered
<1>25. ASSUME NEW t \in Threads, NEW fault \in Faults, PostFails(t, fault)
   PROVE OneStory'
  BY <1>25, HeardMore, FaultsType DEF PostFails, AfterRaise
<1>26. ASSUME NEW t \in Threads, MarkSent(t) PROVE OneStory'
  BY <1>26 DEF MarkSent, AfterSend
<1>27. ASSUME NEW t \in Threads, MarkFailed(t) PROVE OneStory'
  BY <1>27 DEF MarkFailed, AfterSend
<1>28. ASSUME Cancel PROVE OneStory'
  BY <1>28 DEF Cancel
<1>29. ASSUME MarkCancelled PROVE OneStory'
  BY <1>29 DEF MarkCancelled
<1>30. ASSUME RetryCallback PROVE OneStory'
  BY <1>30 DEF RetryCallback
<1>31. ASSUME Sweep PROVE OneStory'
  BY <1>31 DEF Sweep
<1>32. ASSUME ForceFinish PROVE OneStory'
  BY <1>32 DEF ForceFinish, Finished, StartSending
<1>33. ASSUME NEW code \in {"zero", "nonzero"}, AgentExits(code)
   PROVE  OneStory'
  BY <1>33 DEF AgentExits
<1>34. ASSUME Expire PROVE OneStory'
  BY <1>34 DEF Expire
<1> HIDE DEF OneStory
<1> QED
  BY <1>1, <1>2, <1>3, <1>4, <1>5, <1>6, <1>7, <1>8, <1>9, <1>10, <1>11,
     <1>12, <1>13, <1>14, <1>15, <1>16, <1>17, <1>18, <1>19, <1>20, <1>21,
     <1>22, <1>23, <1>24, <1>25, <1>26, <1>27, <1>28, <1>29, <1>30, <1>31,
     <1>32, <1>33, <1>34, NextCases

-----------------------------------------------------------------------------
\* RunInv is an invariant.
THEOREM RunInductive == Spec => []RunInv
<1>1. Init => RunInv
  <2> SUFFICES ASSUME Init PROVE RunInv
    OBVIOUS
  <2>1. cancelReq \in BOOLEAN /\ handle \in BOOLEAN /\ overdue \in BOOLEAN
    BY Zenon DEF Init
  <2>2. sawCancel \in [Threads -> BOOLEAN]
    BY DEF Init
  <2>3. TypeOK
    BY <2>1, <2>2, AttemptsType, CallbackAttemptsType
       DEF Init, TypeOK, TaskStatus, CallbackStatus, Outcome, Threads,
           WorkerPC, LoopPC, WatchdogPC, SendPC
  <2>4. NoAgentLeft /\ SentWasHeard /\ AnsweredWasHeard
    BY DEF Init, NoAgentLeft, SentWasHeard, AnsweredWasHeard
  <2>5. SuccessIsLast
    BY DEF Init, SuccessIsLast, NoSuccessSaid, SendPC, ToSet
  <2> QED
    BY <2>3, <2>4, <2>5 DEF RunInv
<1>2. RunInv /\ [Next]_vars => RunInv'
  <2> SUFFICES ASSUME RunInv, [Next]_vars PROVE RunInv'
    OBVIOUS
  <2>1. CASE Next
    BY <2>1, TypeOKKept, NoAgentLeftKept, SentWasHeardKept,
       AnsweredWasHeardKept, SuccessIsLastKept DEF RunInv
  <2>2. CASE UNCHANGED vars
    BY <2>2 DEF vars, agentVars, threadVars, RunInv, TypeOK, NoAgentLeft,
                SentWasHeard, AnsweredWasHeard, SuccessIsLast, InAttempt,
                NoSuccessSaid
  <2> QED
    BY <2>1, <2>2
<1> QED
  BY <1>1, <1>2, PTL DEF Spec

\* TypeOK, for any constants.
THEOREM RunTypeCorrect == Spec => []TypeOK
<1>1. RunInv => TypeOK
  BY DEF RunInv
<1> QED
  BY <1>1, RunInductive, PTL

\* No agent outlives its attempt, whoever kills it and whenever.
THEOREM NoAgentOutlives == Spec => []NoAgentLeft
<1>1. RunInv => NoAgentLeft
  BY DEF RunInv
<1> QED
  BY <1>1, RunInductive, PTL

\* The dashboard shows a callback as sent only if n8n got one.
THEOREM SentIsHeard == Spec => []SentWasHeard
<1>1. RunInv => SentWasHeard
  BY DEF RunInv
<1> QED
  BY <1>1, RunInductive, PTL

\* After a cancel that comes before the verdict n8n is never told of a success.
THEOREM CancelPreventsSuccess == Spec => CancelInTime
<1>1. RunInv /\ cancelReq /\ pc["worker"] \in BeforeVerdict => Doomed
  BY DEF RunInv, SuccessIsLast, InAttempt, Doomed, BeforeVerdict
<1>2. RunInv /\ Doomed /\ [Next]_vars => Doomed'
  <2> SUFFICES ASSUME RunInv, Doomed, [Next]_vars PROVE Doomed'
    OBVIOUS
  <2>1. CASE Next
    BY <2>1, DoomedKept
  <2>2. CASE UNCHANGED vars
    BY <2>2 DEF vars, agentVars, threadVars, Doomed, NoSuccessSaid
  <2> QED
    BY <2>1, <2>2
<1>3. Doomed => "success" \notin ToSet(heard)
  BY DEF Doomed, NoSuccessSaid
<1> QED
  BY <1>1, <1>2, <1>3, RunInductive, PTL DEF Spec, CancelInTime

\* What a run that nobody cancelled shows, at every place of the worker.
THEOREM UncancelledInductive == Spec => [](Uncancelled /\ LostWasCancelled)
<1>1. Init => Uncancelled /\ LostWasCancelled
  BY DEF Init, Uncancelled, LostWasCancelled, Threads, SendPC
<1>2. RunInv /\ Uncancelled /\ LostWasCancelled /\ [Next]_vars
        => Uncancelled' /\ LostWasCancelled'
  <2>1. ASSUME RunInv, Uncancelled, LostWasCancelled, Next
        PROVE  Uncancelled' /\ LostWasCancelled'
    BY <2>1, UncancelledKept
  <2>2. ASSUME Uncancelled, LostWasCancelled, UNCHANGED vars
        PROVE  Uncancelled' /\ LostWasCancelled'
    BY <2>2 DEF vars, agentVars, threadVars, Uncancelled, LostWasCancelled
  <2> QED
    BY <2>1, <2>2
<1> QED
  BY <1>1, <1>2, RunInductive, PTL DEF Spec

\* Only a run that was cancelled can be lost to its project.
THEOREM LostOnlyIfCancelled == Spec => []LostWasCancelled
BY UncancelledInductive, PTL

\* An undisturbed run keeps to its story.
THEOREM StoryInductive ==
  ASSUME Undisturbed
  PROVE  Spec => [](RunInv /\ OneStory)
<1>1. Init => OneStory
  BY DEF Init, OneStory, OnlyTwoReport, Untold, Told, DecidedIsShown,
         CallbackShown, Threads, SendPC
<1>2. RunInv /\ OneStory /\ [Next]_vars => OneStory'
  <2>1. ASSUME RunInv, OneStory, Next
        PROVE  OneStory'
    BY <2>1, OneStoryKept
  <2>2. ASSUME OneStory, UNCHANGED vars
        PROVE  OneStory'
    BY <2>2 DEF vars, agentVars, threadVars, OneStory, OnlyTwoReport, Untold,
                Told, DecidedIsShown, CallbackShown
  <2> QED
    BY <2>1, <2>2
<1> QED
  BY <1>1, <1>2, RunInductive, PTL DEF Spec

\* Where nobody else deals with a run and no POST raises, n8n is told one
\* outcome, and the run shows it or that it was cancelled.
THEOREM ToldOneOutcome ==
  ASSUME Undisturbed
  PROVE  Spec => []OneOutcome
<1>1. RunInv /\ OneStory => OneOutcome
  <2> SUFFICES ASSUME RunInv, OneStory, NEW i \in DOMAIN heard
               PROVE  /\ heard[i] = heard[1]
                      /\ status \in Terminal
                           => status \in {heard[i], "cancelled"}
    BY DEF OneOutcome
  <2>1. heard \in Seq(Outcome) /\ heard # <<>> /\ 1 \in DOMAIN heard
    BY DEF RunInv, TypeOK
  <2>2. body # "none"
    BY <2>1 DEF OneStory, Untold
  <2>3. heard[i] = body /\ heard[1] = body
    BY <2>1, <2>2 DEF OneStory, Told, ToSet
  <2> QED
    BY <2>2, <2>3 DEF OneStory, Told
<1> QED
  BY <1>1, StoryInductive, PTL

\* There, a callback shown as skipped is one n8n did not get.
THEOREM SkippedUnheard ==
  ASSUME Undisturbed
  PROVE  Spec => []SkippedIsSilent
<1>1. OneStory => SkippedIsSilent
  BY DEF OneStory, CallbackShown, SkippedIsSilent
<1> QED
  BY <1>1, StoryInductive, PTL

\* There, a run is over with a final status and a callback that was sent,
\* skipped, or given up and can be sent again.
THEOREM EndsSaid ==
  ASSUME Undisturbed
  PROVE  Spec => []AllSaid
<1>1. OneStory => AllSaid
  BY DEF OneStory, CallbackShown, AllSaid, Threads, SendPC
<1> QED
  BY <1>1, StoryInductive, PTL

-----------------------------------------------------------------------------
(* An undisturbed run keeps its contract.                                  *)
\* What is reported is what came of the last attempt.
LEMMA ResultFitsKept ==
  ASSUME RunInv, OneStory, ResultFits, Undisturbed, Next
  PROVE  ResultFits'
<1> USE DEF RunInv, Goto, agentVars, threadVars, TypeOK, Undisturbed,
       OneStory, OnlyTwoReport, Untold, Told, SuccessIsLast, InAttempt,
       ResultFits, BeforeVerdict, Unfinished, Outcome, Failures, Threads,
       WorkerPC, LoopPC, WatchdogPC, SendPC
<1>1. ASSUME StopCancelled PROVE ResultFits'
  BY <1>1 DEF StopCancelled
<1>2. ASSUME StartAttempt PROVE ResultFits'
  BY <1>2 DEF StartAttempt
<1>3. ASSUME BackOff PROVE ResultFits'
  BY <1>3 DEF BackOff
<1>4. ASSUME ExecuteOnce PROVE ResultFits'
  BY <1>4 DEF ExecuteOnce
<1>5. ASSUME MarkRunning PROVE ResultFits'
  BY <1>5 DEF MarkRunning
<1>6. ASSUME NEW failure \in {"none"} \cup Failures, Prepare(failure)
   PROVE  ResultFits'
  BY <1>6 DEF Prepare
<1>7. ASSUME Launch PROVE ResultFits'
  BY <1>7 DEF Launch
<1>8. ASSUME StartAgent PROVE ResultFits'
  BY <1>8 DEF StartAgent
<1>9. ASSUME RegisterAgent PROVE ResultFits'
  BY <1>9 DEF RegisterAgent
<1>10. ASSUME StopAgent PROVE ResultFits'
  BY <1>10 DEF StopAgent
<1>11. ASSUME AgentGone PROVE ResultFits'
  BY <1>11 DEF AgentGone
<1>12. ASSUME NEW failure \in Failures, Verdict(failure) PROVE ResultFits'
  BY <1>12 DEF Verdict
<1>13. ASSUME NEW result \in {"success"} \cup Failures, Publish(result)
   PROVE  ResultFits'
  BY <1>13 DEF Publish
<1>14. ASSUME NEW t \in {"worker", "watchdog"}, ReadStatus(t) PROVE ResultFits'
  BY <1>14 DEF ReadStatus
<1>15. ASSUME FinishAttempt PROVE ResultFits'
  BY <1>15 DEF FinishAttempt, Finished
<1>16. ASSUME ReportSuccess PROVE ResultFits'
  BY <1>16 DEF ReportSuccess, StartSending
<1>17. ASSUME SkipCallback PROVE ResultFits'
  BY <1>17 DEF SkipCallback
<1>18. ASSUME ReportFailure PROVE ResultFits'
  BY <1>18 DEF ReportFailure, StartSending
<1>19. ASSUME RetryAttempt PROVE ResultFits'
  BY <1>19 DEF RetryAttempt
<1>20. ASSUME HandleException PROVE ResultFits'
  BY <1>20 DEF HandleException
<1>21. ASSUME LeaveRun PROVE ResultFits'
  BY <1>21 DEF LeaveRun
<1>22. ASSUME ReportError PROVE ResultFits'
  BY <1>22 DEF ReportError, StartSending
<1>23. ASSUME NEW t \in Threads, MarkSending(t) PROVE ResultFits'
  BY <1>23 DEF MarkSending
<1>24. ASSUME NEW t \in Threads, PostAnswered(t) PROVE ResultFits'
  BY <1>24 DEF PostAnswered
<1>25. ASSUME NEW t \in Threads, NEW fault \in Faults, PostFails(t, fault)
   PROVE  ResultFits'
  BY <1>25 DEF PostFails, AfterRaise
<1>26. ASSUME NEW t \in Threads, MarkSent(t) PROVE ResultFits'
  BY <1>26 DEF MarkSent, AfterSend
<1>27. ASSUME NEW t \in Threads, MarkFailed(t) PROVE ResultFits'
  BY <1>27 DEF MarkFailed, AfterSend
<1>28. ASSUME Cancel PROVE ResultFits'
  BY <1>28 DEF Cancel
<1>29. ASSUME MarkCancelled PROVE ResultFits'
  BY <1>29 DEF MarkCancelled
<1>30. ASSUME RetryCallback PROVE ResultFits'
  BY <1>30 DEF RetryCallback
<1>31. ASSUME Sweep PROVE ResultFits'
  BY <1>31 DEF Sweep
<1>32. ASSUME ForceFinish PROVE ResultFits'
  BY <1>32 DEF ForceFinish, StartSending
<1>33. ASSUME NEW code \in {"zero", "nonzero"}, AgentExits(code)
   PROVE  ResultFits'
  BY <1>33 DEF AgentExits
<1>34. ASSUME Expire PROVE ResultFits'
  BY <1>34 DEF Expire
<1> HIDE DEF ResultFits
<1> QED
  BY <1>1, <1>2, <1>3, <1>4, <1>5, <1>6, <1>7, <1>8, <1>9, <1>10, <1>11,
     <1>12, <1>13, <1>14, <1>15, <1>16, <1>17, <1>18, <1>19, <1>20, <1>21,
     <1>22, <1>23, <1>24, <1>25, <1>26, <1>27, <1>28, <1>29, <1>30, <1>31,
     <1>32, <1>33, <1>34, NextCases

\* In an attempt the run is undecided.
LEMMA UndecidedYet ==
  ASSUME RunInv, OneStory, ResultFits, Undisturbed, InAttempt
  PROVE  Contract!Undecided /\ body = "none"
<1>1. phase = "run" /\ pc["worker"] \notin {"leave", "done"} \cup SendPC
  BY DEF RunInv, SuccessIsLast, InAttempt, BeforeVerdict, SendPC
<1>2. body = "none" /\ cb # "skipped"
  BY <1>1 DEF OneStory, Told, ResultFits
<1> QED
  BY <1>1, <1>2 DEF Contract!Undecided, ContractMark

\* Every step is a step of the contract or none it tells of.
LEMMA NextContract ==
  ASSUME RunInv, Uncancelled, OneStory, ResultFits, Undisturbed, Next
  PROVE  [Contract!Next]_(Contract!vars)
<1>0. InAttempt => Contract!Undecided /\ body = "none"
  BY UndecidedYet
<1> USE DEF RunInv, Goto, agentVars, threadVars, TypeOK, Undisturbed,
       Uncancelled, OneStory, OnlyTwoReport, Untold, Told, DecidedIsShown,
       CallbackShown, SuccessIsLast, InAttempt, ResultFits, ContractMark,
       BeforeVerdict, Unfinished, Terminal, TaskStatus, CallbackStatus,
       Outcome, Failures, Threads, WorkerPC, LoopPC, WatchdogPC, SendPC
<1>1. ASSUME StopCancelled PROVE Contract!Skip
  BY <1>0, <1>1 DEF StopCancelled, Contract!Skip
<1>2. ASSUME StartAttempt PROVE UNCHANGED Contract!vars
  BY <1>2 DEF StartAttempt, Contract!vars
<1>3. ASSUME BackOff PROVE Contract!Show
  BY <1>0, <1>3 DEF BackOff, Contract!Show, Contract!Active
<1>4. ASSUME ExecuteOnce PROVE UNCHANGED Contract!vars
  BY <1>4 DEF ExecuteOnce, Contract!vars
<1>5. ASSUME MarkRunning PROVE Contract!Show
  BY <1>0, <1>5 DEF MarkRunning, Contract!Show, Contract!Active
<1>6. ASSUME NEW failure \in {"none"} \cup Failures, Prepare(failure)
   PROVE  UNCHANGED Contract!vars
  BY <1>6 DEF Prepare, Contract!vars
<1>7. ASSUME Launch PROVE UNCHANGED Contract!vars
  BY <1>7 DEF Launch, Contract!vars
<1>8. ASSUME StartAgent PROVE UNCHANGED Contract!vars
  BY <1>8 DEF StartAgent, Contract!vars
<1>9. ASSUME RegisterAgent PROVE UNCHANGED Contract!vars
  BY <1>9 DEF RegisterAgent, Contract!vars
<1>10. ASSUME StopAgent PROVE UNCHANGED Contract!vars
  BY <1>10 DEF StopAgent, Contract!vars
<1>11. ASSUME AgentGone PROVE UNCHANGED Contract!vars
  BY <1>11 DEF AgentGone, Contract!vars
<1>12. ASSUME NEW failure \in Failures, Verdict(failure)
   PROVE  Contract!Succeed \/ UNCHANGED Contract!vars
  BY <1>0, <1>12 DEF Verdict, Contract!Succeed, Contract!vars
<1>13. ASSUME NEW result \in {"success"} \cup Failures, Publish(result)
   PROVE  Contract!Fail \/ UNCHANGED Contract!vars
  BY <1>0, <1>13 DEF Publish, Contract!Fail, Contract!vars
<1>14. ASSUME NEW t \in {"worker", "watchdog"}, ReadStatus(t)
   PROVE  UNCHANGED Contract!vars
  BY <1>14 DEF ReadStatus, Contract!vars
<1>15. ASSUME FinishAttempt PROVE Contract!Show \/ UNCHANGED Contract!vars
  BY <1>0, <1>15 DEF FinishAttempt, Finished, Contract!Show,
    Contract!Active, Contract!vars
<1>16. ASSUME ReportSuccess PROVE Contract!Decide
  BY <1>16 DEF ReportSuccess, StartSending, Contract!Decide
<1>17. ASSUME SkipCallback PROVE Contract!Skip
  BY <1>0, <1>17 DEF SkipCallback, Contract!Skip
<1>18. ASSUME ReportFailure PROVE Contract!Decide
  BY <1>18 DEF ReportFailure, StartSending, Contract!Decide
<1>19. ASSUME RetryAttempt PROVE Contract!Show
  BY <1>0, <1>19 DEF RetryAttempt, Contract!Show, Contract!Active
<1>20. ASSUME HandleException PROVE UNCHANGED Contract!vars
  BY <1>20 DEF HandleException, Contract!vars
<1>21. ASSUME LeaveRun PROVE Contract!Leave \/ UNCHANGED Contract!vars
  <2>1. pc["worker"] = "leave"
    BY <1>21 DEF LeaveRun
  <2>2. body = "none" => cb = "skipped"
    BY <2>1 DEF SentWasHeard
  <2>3. CASE status \in Unfinished
    BY <1>21, <2>1, <2>3 DEF LeaveRun, Contract!vars
  <2>4. CASE status \notin Unfinished
    BY <1>21, <2>1, <2>2, <2>4 DEF LeaveRun, Contract!Leave, Contract!Final
  <2> QED
    BY <2>3, <2>4
<1>22. ASSUME ReportError PROVE Contract!Decide
  <2>1. body = "none" /\ last # "success" /\ pc["worker"] # "done"
    BY <1>22 DEF ReportError
  <2>2. body' = "error" /\ UNCHANGED <<cancelReq, last, heard, cb>>
    BY <1>22 DEF ReportError, StartSending
  <2>3. status' = "error" \/ (cancelReq /\ status' = "cancelled")
    BY <1>22 DEF ReportError, Finished
  <2>4. pc'["worker"] = "send"
    BY <1>22 DEF ReportError, StartSending
  <2> QED
    BY <2>1, <2>2, <2>3, <2>4 DEF Contract!Decide
<1>23. ASSUME NEW t \in Threads, MarkSending(t) PROVE Contract!Mark
  BY <1>23 DEF MarkSending, Contract!Mark, Contract!Final
<1>24. ASSUME NEW t \in Threads, PostAnswered(t) PROVE Contract!Tell
  BY <1>24 DEF PostAnswered, Contract!Tell
<1>25. ASSUME NEW t \in Threads, NEW fault \in Faults, PostFails(t, fault)
   PROVE  Contract!Tell \/ UNCHANGED Contract!vars
  BY <1>25 DEF PostFails, AfterRaise, Contract!Tell, Contract!vars
<1>26. ASSUME NEW t \in Threads, MarkSent(t) PROVE Contract!Mark
  <2>1. /\ body # "none" /\ heard # <<>> /\ cb' = "sent"
        /\ UNCHANGED <<cancelReq, status, last, body, heard>>
    BY <1>26 DEF MarkSent, AnsweredWasHeard
  <2>2. status \in Terminal
    BY <2>1
  <2>3. \/ pc'["worker"] = "done"
        \/ pc'["worker"] # "done" /\ pc["worker"] # "done"
    BY <1>26 DEF MarkSent, AfterSend
  <2> QED
    BY <2>1, <2>2, <2>3 DEF Contract!Mark, Contract!Final
<1>27. ASSUME NEW t \in Threads, MarkFailed(t) PROVE Contract!Mark
  BY <1>27 DEF MarkFailed, AfterSend, Contract!Mark, Contract!Final
<1>28. ASSUME Cancel PROVE Contract!Ask
  BY <1>28 DEF Cancel, Contract!Ask, Contract!Active
<1>29. ASSUME MarkCancelled PROVE Contract!Overwrite
  BY <1>29 DEF MarkCancelled, Contract!Overwrite
<1>30. ASSUME RetryCallback PROVE UNCHANGED Contract!vars
  BY <1>30 DEF RetryCallback, Contract!vars
<1>31. ASSUME Sweep PROVE UNCHANGED Contract!vars
  BY <1>31 DEF Sweep, Contract!vars
<1>32. ASSUME ForceFinish PROVE UNCHANGED Contract!vars
  BY <1>32 DEF ForceFinish, StartSending, Contract!vars
<1>33. ASSUME NEW code \in {"zero", "nonzero"}, AgentExits(code)
   PROVE  UNCHANGED Contract!vars
  BY <1>33 DEF AgentExits, Contract!vars
<1>34. ASSUME Expire PROVE UNCHANGED Contract!vars
  BY <1>34 DEF Expire, Contract!vars
<1> QED
  BY <1>1, <1>2, <1>3, <1>4, <1>5, <1>6, <1>7, <1>8, <1>9, <1>10, <1>11,
     <1>12, <1>13, <1>14, <1>15, <1>16, <1>17, <1>18, <1>19, <1>20, <1>21,
     <1>22, <1>23, <1>24, <1>25, <1>26, <1>27, <1>28, <1>29, <1>30, <1>31,
     <1>32, <1>33, <1>34, NextCases DEF Contract!Next

\* Where nobody else deals with a run and no POST raises, the run keeps its
\* contract: one outcome, told and shown, and a cancel in time makes it none.
THEOREM ImplementsContract ==
  ASSUME Undisturbed
  PROVE  Spec => KeepsContract
<1>1. Init => Contract!Init /\ ResultFits
  BY DEF Init, Contract!Init, ContractMark, ResultFits, Threads
<1>2. RunInv /\ OneStory /\ ResultFits /\ [Next]_vars => ResultFits'
  <2>1. ASSUME RunInv, OneStory, ResultFits, Next
        PROVE  ResultFits'
    BY <2>1, ResultFitsKept
  <2>2. ASSUME ResultFits, UNCHANGED vars
        PROVE  ResultFits'
    BY <2>2 DEF vars, agentVars, threadVars, ResultFits
  <2> QED
    BY <2>1, <2>2
<1>3. RunInv /\ Uncancelled /\ OneStory /\ ResultFits /\ [Next]_vars
        => [Contract!Next]_(Contract!vars)
  <2>1. ASSUME RunInv, Uncancelled, OneStory, ResultFits, Next
        PROVE  [Contract!Next]_(Contract!vars)
    BY <2>1, NextContract
  <2>2. ASSUME UNCHANGED vars
        PROVE  UNCHANGED Contract!vars
    BY <2>2 DEF vars, agentVars, threadVars, Contract!vars, ContractMark
  <2> QED
    BY <2>1, <2>2
<1> QED
  BY <1>1, <1>2, <1>3, UncancelledInductive, StoryInductive, PTL
     DEF Spec, KeepsContract, Contract!Spec

\* The contract is as strong as what it was made for: whatever keeps it tells
\* n8n one outcome, the one the run shows, and never skips a callback that was
\* heard.  Tell is the step that could say something else, and Show and
\* Overwrite those that could show it.
THEOREM ContractSuffices ==
  KeepsContract => [](Contract!Promise /\ OneOutcome /\ SkippedIsSilent)
<1>1. Contract!Init => Contract!Promise
  BY DEF Contract!Init, Contract!Promise
<1>2. Contract!Promise /\ [Contract!Next]_(Contract!vars) => Contract!Promise'
  <2> SUFFICES ASSUME Contract!Promise, [Contract!Next]_(Contract!vars)
               PROVE  Contract!Promise'
    OBVIOUS
  <2>1. CASE Contract!Ask
    BY <2>1 DEF Contract!Ask, Contract!Promise
  <2>2. CASE Contract!Overwrite
    BY <2>2 DEF Contract!Overwrite, Contract!Promise, Contract!Final
  <2>3. CASE Contract!Show
    BY <2>3 DEF Contract!Show, Contract!Undecided, Contract!Promise,
                Contract!Active
  <2>4. CASE Contract!Succeed
    BY <2>4 DEF Contract!Succeed, Contract!Promise
  <2>5. CASE Contract!Fail
    BY <2>5 DEF Contract!Fail, Contract!Promise
  <2>6. CASE Contract!Decide
    <3>1. heard = <<>>
      BY <2>6 DEF Contract!Decide, Contract!Promise
    <3> QED
      BY <3>1, <2>6 DEF Contract!Decide, Contract!Promise, Contract!Final
  <2>7. CASE Contract!Skip
    BY <2>7 DEF Contract!Skip, Contract!Undecided, Contract!Promise
  <2>8. CASE Contract!Tell
    <3>1. Append(heard, body) \in Seq({body}) /\ Append(heard, body) # <<>>
      BY DEF Contract!Promise
    <3> QED
      BY <3>1, <2>8 DEF Contract!Tell, Contract!Promise
  <2>9. CASE Contract!Mark
    BY <2>9 DEF Contract!Mark, Contract!Promise
  <2>10. CASE Contract!Leave
    BY <2>10 DEF Contract!Leave, Contract!Promise
  <2>11. CASE UNCHANGED Contract!vars
    BY <2>11 DEF Contract!vars, Contract!Promise
  <2> QED
    BY <2>1, <2>2, <2>3, <2>4, <2>5, <2>6, <2>7, <2>8, <2>9, <2>10, <2>11
       DEF Contract!Next
<1>3. Contract!Promise => OneOutcome
  <2> SUFFICES ASSUME Contract!Promise, NEW i \in DOMAIN heard
               PROVE  /\ heard[i] = heard[1]
                      /\ status \in Terminal => status \in {heard[i], "cancelled"}
    BY DEF OneOutcome
  <2>1. 1 \in DOMAIN heard /\ heard[i] = body /\ heard[1] = body
    BY DEF Contract!Promise
  <2> QED
    BY <2>1 DEF Contract!Promise
<1>4. Contract!Promise => SkippedIsSilent
  BY DEF Contract!Promise, ContractMark, SkippedIsSilent
<1> QED
  BY <1>1, <1>2, <1>3, <1>4, PTL DEF KeepsContract, Contract!Spec
=============================================================================
