------------------------ MODULE DashboardClientProofs ------------------------
(***************************************************************************)
(* Proof of the safety properties of DashboardClient, for any number of    *)
(* logins, changes and requests.  ClientInv is inductive.                  *)
(***************************************************************************)
EXTENDS DashboardClient, TLAPS

\* The steps.
LEMMA NextCases ==
  ASSUME Next
  PROVE  \/ \E key \in {"right", "wrong"} : Login(key)
         \/ Logout
         \/ OpenDetail
         \/ OnOpen
         \/ ConnectFails
         \/ OnError
         \/ OnClose
         \/ OnCloseOld
         \/ Reconnect
         \/ OnMessage
         \/ OnAuthError
         \/ Poll
         \/ \E i \in DOMAIN fetches : Answer(i)
         \/ \E i \in DOMAIN fetches : OnAnswer(i)
         \/ \E i \in DOMAIN fetches : OnRefused(i)
         \/ \E i \in DOMAIN fetches : OnFailed(i)
         \/ Serve
         \/ Greet
         \/ Change
         \/ Break
         \/ Server
<1> QED
  BY DEF Next, User, SocketEvent, RequestEvent

\* A message with a state has one that the server may be in.
LEMMA MessageStates ==
  ASSUME NEW m \in Message
  PROVE  /\ m.type \in {"snapshot", "event", "auth_ok", "auth_error"}
         /\ m.type \in {"snapshot", "event"} => m.v \in Versions
<1> QED
  BY DEF Message

\* The messages the server sends.
LEMMA MessagesSent ==
  /\ \A v \in Versions : /\ [type |-> "snapshot", v |-> v] \in Message
                         /\ [type |-> "event", v |-> v] \in Message
  /\ [type |-> "auth_ok"] \in Message
  /\ [type |-> "auth_error"] \in Message
<1> QED
  BY DEF Message

\* What becomes of a request is a request.
LEMMA RequestKept ==
  ASSUME fetches \in Seq(Request), NEW i \in DOMAIN fetches,
         NEW at \in {"asked", "answered", "refused", "failed", "done"},
         NEW v \in Versions, Turns(i, at, v)
  PROVE  fetches' \in Seq(Request) /\ Len(fetches') = Len(fetches)
<1> DEFINE r == [fetches[i] EXCEPT !.at = at, !.v = v]
<1>1. fetches[i] \in Request
  OBVIOUS
<1>2. r \in Request
  BY <1>1 DEF Request
<1>3. fetches' = [fetches EXCEPT ![i] = r]
  BY DEF Turns
<1> HIDE DEF r
<1> QED
  BY <1>2, <1>3

\* An answer gives a state that the server may be in.
LEMMA StateAnswered ==
  ASSUME NEW fs \in Seq(Request), NEW i \in DOMAIN fs
  PROVE  fs[i].v \in Versions
<1>1. fs[i] \in Request
  OBVIOUS
<1> QED
  BY <1>1 DEF Request

-----------------------------------------------------------------------------
\* The parts of TypeOK, which the provers take one at a time.
Flags ==
  /\ armed \in BOOLEAN /\ pollArmed \in BOOLEAN
  /\ wsConnected \in BOOLEAN /\ up \in BOOLEAN /\ overwritten \in BOOLEAN

Counts ==
  /\ closing \in Nat /\ timers \in Nat /\ pollTimers \in Nat
  /\ armed => timers > 0
  /\ pollArmed => pollTimers > 0

Data ==
  /\ screen \in {"login", "app"}
  /\ apiKey \in {"right", "wrong", "none"}
  /\ logins \in 0 .. MaxLogins
  /\ ws \in {"none", "closed"} \cup Unclosed
  /\ inbox \in Seq(Message)
  /\ fetches \in Seq(Request) /\ Len(fetches) <= MaxRequests
  /\ version \in Versions /\ shown \in Versions

\* The flags are Boolean.
LEMMA FlagsKept ==
  ASSUME ClientInv, Next
  PROVE  Flags'
<1> USE DEF ClientInv, TypeOK, userVars, socketVars, pollVars, tableVars
<1> USE DEF Flags
<1>1. ASSUME NEW key \in {"right", "wrong"},
             Login(key)
      PROVE  Flags'
  BY <1>1 DEF Login, ConnectWs
<1>2. ASSUME Logout
      PROVE  Flags'
  BY <1>2 DEF Logout, LeaveServer, StopOfflinePoll
<1>3. ASSUME OpenDetail
      PROVE  Flags'
  BY <1>3 DEF OpenDetail
<1>4. ASSUME OnOpen
      PROVE  Flags'
  BY <1>4 DEF OnOpen
<1>5. ASSUME ConnectFails
      PROVE  Flags'
  BY <1>5 DEF ConnectFails
<1>6. ASSUME OnError
      PROVE  Flags'
  BY <1>6 DEF OnError, SetWsStatus, StartOfflinePoll
<1>7. ASSUME OnClose
      PROVE  Flags'
  BY <1>7 DEF OnClose, SetWsStatus, StartOfflinePoll, ArmReconnect
<1>8. ASSUME OnCloseOld
      PROVE  Flags'
  BY <1>8 DEF OnCloseOld, SetWsStatus, StartOfflinePoll, ArmReconnect
<1>9. ASSUME Reconnect
      PROVE  Flags'
  BY <1>9 DEF Reconnect, ConnectWs
<1>10. ASSUME OnMessage
      PROVE  Flags'
  BY <1>10 DEF OnMessage, SetWsStatus, StopOfflinePoll, Show
<1>11. ASSUME OnAuthError
      PROVE  Flags'
  BY <1>11 DEF OnAuthError, LeaveServer, StopOfflinePoll
<1>12. ASSUME Poll
      PROVE  Flags'
  BY <1>12 DEF Poll
<1>13. ASSUME NEW i \in DOMAIN fetches,
             Answer(i)
      PROVE  Flags'
  BY <1>13 DEF Answer
<1>14. ASSUME NEW i \in DOMAIN fetches,
             OnAnswer(i)
      PROVE  Flags'
  BY <1>14 DEF OnAnswer, NextPoll, Show
<1>15. ASSUME NEW i \in DOMAIN fetches,
             OnRefused(i)
      PROVE  Flags'
  BY <1>15 DEF OnRefused, NextPoll, LeaveServer
<1>16. ASSUME NEW i \in DOMAIN fetches,
             OnFailed(i)
      PROVE  Flags'
  BY <1>16 DEF OnFailed, NextPoll
<1>17. ASSUME Serve
      PROVE  Flags'
  BY <1>17 DEF Serve
<1>18. ASSUME Greet
      PROVE  Flags'
  BY <1>18 DEF Greet
<1>19. ASSUME Change
      PROVE  Flags'
  BY <1>19 DEF Change
<1>20. ASSUME Break
      PROVE  Flags'
  BY <1>20 DEF Break
<1>21. ASSUME Server
      PROVE  Flags'
  BY <1>21 DEF Server
<1> QED
  BY NextCases, <1>1, <1>2, <1>3, <1>4, <1>5, <1>6, <1>7, <1>8, <1>9, <1>10,
    <1>11, <1>12, <1>13, <1>14, <1>15, <1>16, <1>17, <1>18, <1>19, <1>20,
    <1>21

\* A handle that is armed is that of a pending timer.
LEMMA CountsKept ==
  ASSUME ClientInv, Next
  PROVE  Counts'
<1> USE DEF ClientInv, TypeOK, userVars, socketVars, pollVars, tableVars
<1> USE BoundsType DEF Unclosed, Registered, One, Versions
<1> USE DEF Counts
<1>1. ASSUME NEW key \in {"right", "wrong"},
             Login(key)
      PROVE  Counts'
  BY <1>1 DEF Login, ConnectWs
<1>2. ASSUME Logout
      PROVE  Counts'
  BY <1>2 DEF Logout, LeaveServer, StopOfflinePoll
<1>3. ASSUME OpenDetail
      PROVE  Counts'
  BY <1>3 DEF OpenDetail
<1>4. ASSUME OnOpen
      PROVE  Counts'
  BY <1>4 DEF OnOpen
<1>5. ASSUME ConnectFails
      PROVE  Counts'
  BY <1>5 DEF ConnectFails
<1>6. ASSUME OnError
      PROVE  Counts'
  BY <1>6 DEF OnError, SetWsStatus, StartOfflinePoll
<1>7. ASSUME OnClose
      PROVE  Counts'
  BY <1>7 DEF OnClose, SetWsStatus, StartOfflinePoll, ArmReconnect
<1>8. ASSUME OnCloseOld
      PROVE  Counts'
  BY <1>8 DEF OnCloseOld, SetWsStatus, StartOfflinePoll, ArmReconnect
<1>9. ASSUME Reconnect
      PROVE  Counts'
  <2>1. PICK mine \in BOOLEAN :
          /\ IF mine THEN armed ELSE timers > One(armed)
          /\ armed' = (armed /\ ~mine)
    BY <1>9 DEF Reconnect
  <2>2. armed' => timers > 1
    <3>1. CASE mine
      BY <2>1, <3>1
    <3>2. CASE ~mine
      BY <2>1, <3>2
    <3> QED
      BY <3>1, <3>2
  <2> QED
    BY <1>9, <2>2 DEF Reconnect, ConnectWs
<1>10. ASSUME OnMessage
      PROVE  Counts'
  BY <1>10 DEF OnMessage, SetWsStatus, StopOfflinePoll, Show
<1>11. ASSUME OnAuthError
      PROVE  Counts'
  BY <1>11 DEF OnAuthError, LeaveServer, StopOfflinePoll
<1>12. ASSUME Poll
      PROVE  Counts'
  <2>1. PICK mine \in BOOLEAN :
          /\ IF mine THEN pollArmed ELSE pollTimers > One(pollArmed)
          /\ pollArmed' = (pollArmed /\ ~mine)
    BY <1>12 DEF Poll
  <2>2. pollArmed' => pollTimers > 1
    <3>1. CASE mine
      BY <2>1, <3>1
    <3>2. CASE ~mine
      BY <2>1, <3>2
    <3> QED
      BY <3>1, <3>2
  <2> QED
    BY <1>12, <2>2 DEF Poll
<1>13. ASSUME NEW i \in DOMAIN fetches,
             Answer(i)
      PROVE  Counts'
  BY <1>13 DEF Answer
<1>14. ASSUME NEW i \in DOMAIN fetches,
             OnAnswer(i)
      PROVE  Counts'
  BY <1>14 DEF OnAnswer, NextPoll, Show
<1>15. ASSUME NEW i \in DOMAIN fetches,
             OnRefused(i)
      PROVE  Counts'
  <2>1. CASE fetches[i].by = "poll"
    BY <1>15, <2>1 DEF OnRefused, NextPoll, LeaveServer
  <2>2. CASE fetches[i].by # "poll"
    BY <1>15, <2>2 DEF OnRefused
  <2> QED
    BY <2>1, <2>2
<1>16. ASSUME NEW i \in DOMAIN fetches,
             OnFailed(i)
      PROVE  Counts'
  BY <1>16 DEF OnFailed, NextPoll
<1>17. ASSUME Serve
      PROVE  Counts'
  BY <1>17 DEF Serve
<1>18. ASSUME Greet
      PROVE  Counts'
  BY <1>18 DEF Greet
<1>19. ASSUME Change
      PROVE  Counts'
  BY <1>19 DEF Change
<1>20. ASSUME Break
      PROVE  Counts'
  BY <1>20 DEF Break
<1>21. ASSUME Server
      PROVE  Counts'
  BY <1>21 DEF Server
<1> QED
  BY NextCases, <1>1, <1>2, <1>3, <1>4, <1>5, <1>6, <1>7, <1>8, <1>9, <1>10,
    <1>11, <1>12, <1>13, <1>14, <1>15, <1>16, <1>17, <1>18, <1>19, <1>20,
    <1>21

\* The other variables keep their types.
LEMMA DataKept ==
  ASSUME ClientInv, Next
  PROVE  Data'
<1> USE DEF ClientInv, TypeOK, userVars, socketVars, pollVars, tableVars
<1> USE BoundsType DEF Unclosed, Registered, One, Versions
<1> USE DEF Data
<1>1. ASSUME NEW key \in {"right", "wrong"},
             Login(key)
      PROVE  Data'
  BY <1>1 DEF Login, ConnectWs
<1>2. ASSUME Logout
      PROVE  Data'
  BY <1>2 DEF Logout, LeaveServer, StopOfflinePoll
<1>3. ASSUME OpenDetail
      PROVE  Data'
  <2>1. [by |-> "detail", key |-> apiKey, at |-> "asked", v |-> 0] \in Request
    BY DEF Request
  <2> QED
    BY <1>3, <2>1 DEF OpenDetail
<1>4. ASSUME OnOpen
      PROVE  Data'
  BY <1>4 DEF OnOpen
<1>5. ASSUME ConnectFails
      PROVE  Data'
  BY <1>5 DEF ConnectFails
<1>6. ASSUME OnError
      PROVE  Data'
  BY <1>6 DEF OnError, SetWsStatus, StartOfflinePoll
<1>7. ASSUME OnClose
      PROVE  Data'
  BY <1>7 DEF OnClose, SetWsStatus, StartOfflinePoll, ArmReconnect
<1>8. ASSUME OnCloseOld
      PROVE  Data'
  BY <1>8 DEF OnCloseOld, SetWsStatus, StartOfflinePoll, ArmReconnect
<1>9. ASSUME Reconnect
      PROVE  Data'
  BY <1>9 DEF Reconnect, ConnectWs
<1>10. ASSUME OnMessage
      PROVE  Data'
  <2>1. Head(inbox) \in Message /\ Tail(inbox) \in Seq(Message)
    BY <1>10 DEF OnMessage
  <2>2. \/ Head(inbox).type = "auth_ok"
        \/ Head(inbox).v \in Versions
    BY <1>10, <2>1, MessageStates DEF OnMessage
  <2> QED
    BY <1>10, <2>1, <2>2 DEF OnMessage, SetWsStatus, StopOfflinePoll, Show
<1>11. ASSUME OnAuthError
      PROVE  Data'
  BY <1>11 DEF OnAuthError, LeaveServer, StopOfflinePoll
<1>12. ASSUME Poll
      PROVE  Data'
  <2>1. [by |-> "poll", key |-> apiKey, at |-> "asked", v |-> 0] \in Request
    BY DEF Request
  <2> QED
    BY <1>12, <2>1 DEF Poll
<1>13. ASSUME NEW i \in DOMAIN fetches,
             Answer(i)
      PROVE  Data'
  <2> DEFINE right == fetches[i].key = "right"
             at == IF ~up THEN "failed"
                   ELSE IF right THEN "answered" ELSE "refused"
             v == IF right THEN version ELSE 0
  <2>1. Turns(i, at, v)
    BY <1>13 DEF Answer
  <2>2. at \in {"asked", "answered", "refused", "failed", "done"}
        /\ v \in Versions
    OBVIOUS
  <2>3. fetches' \in Seq(Request) /\ Len(fetches') = Len(fetches)
    BY <2>1, <2>2, RequestKept
  <2> QED
    BY <1>13, <2>3 DEF Answer
<1>14. ASSUME NEW i \in DOMAIN fetches,
             OnAnswer(i)
      PROVE  Data'
  <2>1. fetches' \in Seq(Request) /\ Len(fetches') = Len(fetches)
    BY <1>14, RequestKept DEF OnAnswer
  <2>2. fetches[i].v \in Versions
    BY StateAnswered
  <2> QED
    BY <1>14, <2>1, <2>2 DEF OnAnswer, NextPoll, Show
<1>15. ASSUME NEW i \in DOMAIN fetches,
             OnRefused(i)
      PROVE  Data'
  <2>1. fetches' \in Seq(Request) /\ Len(fetches') = Len(fetches)
    BY <1>15, RequestKept DEF OnRefused
  <2>3. CASE fetches[i].by = "poll"
    BY <1>15, <2>1, <2>3 DEF OnRefused, NextPoll, LeaveServer
  <2>4. CASE fetches[i].by # "poll"
    BY <1>15, <2>1, <2>4 DEF OnRefused
  <2> QED
    BY <2>3, <2>4
<1>16. ASSUME NEW i \in DOMAIN fetches,
             OnFailed(i)
      PROVE  Data'
  <2>1. fetches' \in Seq(Request) /\ Len(fetches') = Len(fetches)
    BY <1>16, RequestKept DEF OnFailed
  <2>2. fetches[i].v \in Versions
    BY StateAnswered
  <2> QED
    BY <1>16, <2>1, <2>2 DEF OnFailed, NextPoll
<1>17. ASSUME Serve
      PROVE  Data'
  <2>1. CASE apiKey = "right"
    <3> DEFINE m == [type |-> "snapshot", v |-> version]
    <3>1. m \in Message
      BY MessagesSent
    <3>2. inbox' = <<m>>
      BY <1>17, <2>1 DEF Serve
    <3> HIDE DEF m
    <3> QED
      BY <1>17, <2>1, <3>1, <3>2 DEF Serve
  <2>2. CASE apiKey # "right"
    <3> DEFINE m == [type |-> "auth_error"]
    <3>1. m \in Message
      BY MessagesSent
    <3>2. inbox' = <<m>>
      BY <1>17, <2>2 DEF Serve
    <3> HIDE DEF m
    <3> QED
      BY <1>17, <2>2, <3>1, <3>2 DEF Serve
  <2> QED
    BY <2>1, <2>2
<1>18. ASSUME Greet
      PROVE  Data'
  BY <1>18, MessagesSent DEF Greet
<1>19. ASSUME Change
      PROVE  Data'
  <2>1. version + 1 \in Versions
    BY <1>19 DEF Change
  <2>2. [type |-> "event", v |-> version + 1] \in Message
    BY ONLY <2>1, MessagesSent
  <2> QED
    BY <1>19, <2>1, <2>2 DEF Change
<1>20. ASSUME Break
      PROVE  Data'
  BY <1>20 DEF Break
<1>21. ASSUME Server
      PROVE  Data'
  BY <1>21 DEF Server
<1> QED
  BY NextCases, <1>1, <1>2, <1>3, <1>4, <1>5, <1>6, <1>7, <1>8, <1>9, <1>10,
    <1>11, <1>12, <1>13, <1>14, <1>15, <1>16, <1>17, <1>18, <1>19, <1>20,
    <1>21

\* Every variable keeps its type.
LEMMA TypeOKKept ==
  ASSUME ClientInv, Next
  PROVE  TypeOK'
<1> QED
  BY FlagsKept, CountsKept, DataKept DEF TypeOK, Flags, Counts, Data

\* A socket is replaced by its timer and a timer by its socket.
LEMMA ChainsKept ==
  ASSUME ClientInv, Next
  PROVE  NeverGivesUp' /\ OneChain'
<1> USE DEF ClientInv, TypeOK, userVars, socketVars, pollVars, tableVars
<1> USE BoundsType DEF Unclosed, Registered, One, Chains
<1> USE DEF NeverGivesUp, OneChain
<1>1. ASSUME NEW key \in {"right", "wrong"},
             Login(key)
      PROVE  NeverGivesUp' /\ OneChain'
  BY <1>1 DEF Login, ConnectWs
<1>2. ASSUME Logout
      PROVE  NeverGivesUp' /\ OneChain'
  BY <1>2 DEF Logout, LeaveServer, StopOfflinePoll
<1>3. ASSUME OpenDetail
      PROVE  NeverGivesUp' /\ OneChain'
  BY <1>3 DEF OpenDetail
<1>4. ASSUME OnOpen
      PROVE  NeverGivesUp' /\ OneChain'
  BY <1>4 DEF OnOpen
<1>5. ASSUME ConnectFails
      PROVE  NeverGivesUp' /\ OneChain'
  BY <1>5 DEF ConnectFails
<1>6. ASSUME OnError
      PROVE  NeverGivesUp' /\ OneChain'
  BY <1>6 DEF OnError, SetWsStatus, StartOfflinePoll
<1>7. ASSUME OnClose
      PROVE  NeverGivesUp' /\ OneChain'
  BY <1>7 DEF OnClose, SetWsStatus, StartOfflinePoll, ArmReconnect
<1>8. ASSUME OnCloseOld
      PROVE  NeverGivesUp' /\ OneChain'
  BY <1>8 DEF OnCloseOld, SetWsStatus, StartOfflinePoll, ArmReconnect
<1>9. ASSUME Reconnect
      PROVE  NeverGivesUp' /\ OneChain'
  BY <1>9 DEF Reconnect, ConnectWs
<1>10. ASSUME OnMessage
      PROVE  NeverGivesUp' /\ OneChain'
  BY <1>10 DEF OnMessage, SetWsStatus, StopOfflinePoll, Show
<1>11. ASSUME OnAuthError
      PROVE  NeverGivesUp' /\ OneChain'
  BY <1>11 DEF OnAuthError, LeaveServer, StopOfflinePoll
<1>12. ASSUME Poll
      PROVE  NeverGivesUp' /\ OneChain'
  BY <1>12 DEF Poll
<1>13. ASSUME NEW i \in DOMAIN fetches,
             Answer(i)
      PROVE  NeverGivesUp' /\ OneChain'
  BY <1>13 DEF Answer
<1>14. ASSUME NEW i \in DOMAIN fetches,
             OnAnswer(i)
      PROVE  NeverGivesUp' /\ OneChain'
  BY <1>14 DEF OnAnswer, NextPoll, Show
<1>15. ASSUME NEW i \in DOMAIN fetches,
             OnRefused(i)
      PROVE  NeverGivesUp' /\ OneChain'
  <2>1. CASE fetches[i].by = "poll"
    BY <1>15, <2>1 DEF OnRefused, NextPoll, LeaveServer
  <2>2. CASE fetches[i].by # "poll"
    BY <1>15, <2>2 DEF OnRefused
  <2> QED
    BY <2>1, <2>2
<1>16. ASSUME NEW i \in DOMAIN fetches,
             OnFailed(i)
      PROVE  NeverGivesUp' /\ OneChain'
  BY <1>16 DEF OnFailed, NextPoll
<1>17. ASSUME Serve
      PROVE  NeverGivesUp' /\ OneChain'
  BY <1>17 DEF Serve
<1>18. ASSUME Greet
      PROVE  NeverGivesUp' /\ OneChain'
  BY <1>18 DEF Greet
<1>19. ASSUME Change
      PROVE  NeverGivesUp' /\ OneChain'
  BY <1>19 DEF Change
<1>20. ASSUME Break
      PROVE  NeverGivesUp' /\ OneChain'
  BY <1>20 DEF Break
<1>21. ASSUME Server
      PROVE  NeverGivesUp' /\ OneChain'
  BY <1>21 DEF Server
<1> QED
  BY NextCases, <1>1, <1>2, <1>3, <1>4, <1>5, <1>6, <1>7, <1>8, <1>9, <1>10,
    <1>11, <1>12, <1>13, <1>14, <1>15, <1>16, <1>17, <1>18, <1>19, <1>20,
    <1>21

\* A socket has messages only once it is served or refused.
LEMMA InboxKept ==
  ASSUME ClientInv, Next
  PROVE  InboxOfServed'
<1> USE DEF ClientInv, TypeOK, userVars, socketVars, pollVars, tableVars
<1> USE BoundsType DEF Unclosed, Registered, One, Chains
<1> USE DEF InboxOfServed
<1>1. ASSUME NEW key \in {"right", "wrong"},
             Login(key)
      PROVE  InboxOfServed'
  BY <1>1 DEF Login, ConnectWs
<1>2. ASSUME Logout
      PROVE  InboxOfServed'
  BY <1>2 DEF Logout, LeaveServer, StopOfflinePoll
<1>3. ASSUME OpenDetail
      PROVE  InboxOfServed'
  BY <1>3 DEF OpenDetail
<1>4. ASSUME OnOpen
      PROVE  InboxOfServed'
  BY <1>4 DEF OnOpen
<1>5. ASSUME ConnectFails
      PROVE  InboxOfServed'
  BY <1>5 DEF ConnectFails
<1>6. ASSUME OnError
      PROVE  InboxOfServed'
  BY <1>6 DEF OnError, SetWsStatus, StartOfflinePoll
<1>7. ASSUME OnClose
      PROVE  InboxOfServed'
  BY <1>7 DEF OnClose, SetWsStatus, StartOfflinePoll, ArmReconnect
<1>8. ASSUME OnCloseOld
      PROVE  InboxOfServed'
  BY <1>8 DEF OnCloseOld, SetWsStatus, StartOfflinePoll, ArmReconnect
<1>9. ASSUME Reconnect
      PROVE  InboxOfServed'
  BY <1>9 DEF Reconnect, ConnectWs
<1>10. ASSUME OnMessage
      PROVE  InboxOfServed'
  BY <1>10 DEF OnMessage, SetWsStatus, StopOfflinePoll, Show
<1>11. ASSUME OnAuthError
      PROVE  InboxOfServed'
  BY <1>11 DEF OnAuthError, LeaveServer, StopOfflinePoll
<1>12. ASSUME Poll
      PROVE  InboxOfServed'
  BY <1>12 DEF Poll
<1>13. ASSUME NEW i \in DOMAIN fetches,
             Answer(i)
      PROVE  InboxOfServed'
  BY <1>13 DEF Answer
<1>14. ASSUME NEW i \in DOMAIN fetches,
             OnAnswer(i)
      PROVE  InboxOfServed'
  BY <1>14 DEF OnAnswer, NextPoll, Show
<1>15. ASSUME NEW i \in DOMAIN fetches,
             OnRefused(i)
      PROVE  InboxOfServed'
  BY <1>15 DEF OnRefused, NextPoll, LeaveServer
<1>16. ASSUME NEW i \in DOMAIN fetches,
             OnFailed(i)
      PROVE  InboxOfServed'
  BY <1>16 DEF OnFailed, NextPoll
<1>17. ASSUME Serve
      PROVE  InboxOfServed'
  BY <1>17 DEF Serve
<1>18. ASSUME Greet
      PROVE  InboxOfServed'
  BY <1>18 DEF Greet
<1>19. ASSUME Change
      PROVE  InboxOfServed'
  BY <1>19 DEF Change
<1>20. ASSUME Break
      PROVE  InboxOfServed'
  BY <1>20 DEF Break
<1>21. ASSUME Server
      PROVE  InboxOfServed'
  BY <1>21 DEF Server
<1> QED
  BY NextCases, <1>1, <1>2, <1>3, <1>4, <1>5, <1>6, <1>7, <1>8, <1>9, <1>10,
    <1>11, <1>12, <1>13, <1>14, <1>15, <1>16, <1>17, <1>18, <1>19, <1>20,
    <1>21

\* The one chain of a single login is the socket that is live.
LEMMA BadgeKept ==
  ASSUME ClientInv, Next
  PROVE  BadgeHonest' /\ BadgeToCome'
<1> USE DEF ClientInv, TypeOK, userVars, socketVars, pollVars, tableVars
<1> USE BoundsType DEF Unclosed, Registered, One, Chains
<1> USE DEF InboxOfServed, OneChain, BadgeHonest, BadgeToCome
<1>1. ASSUME NEW key \in {"right", "wrong"},
             Login(key)
      PROVE  BadgeHonest' /\ BadgeToCome'
  BY <1>1 DEF Login, ConnectWs
<1>2. ASSUME Logout
      PROVE  BadgeHonest' /\ BadgeToCome'
  BY <1>2 DEF Logout, LeaveServer, StopOfflinePoll
<1>3. ASSUME OpenDetail
      PROVE  BadgeHonest' /\ BadgeToCome'
  BY <1>3 DEF OpenDetail
<1>4. ASSUME OnOpen
      PROVE  BadgeHonest' /\ BadgeToCome'
  BY <1>4 DEF OnOpen
<1>5. ASSUME ConnectFails
      PROVE  BadgeHonest' /\ BadgeToCome'
  BY <1>5 DEF ConnectFails
<1>6. ASSUME OnError
      PROVE  BadgeHonest' /\ BadgeToCome'
  BY <1>6 DEF OnError, SetWsStatus, StartOfflinePoll
<1>7. ASSUME OnClose
      PROVE  BadgeHonest' /\ BadgeToCome'
  BY <1>7 DEF OnClose, SetWsStatus, StartOfflinePoll, ArmReconnect
<1>8. ASSUME OnCloseOld
      PROVE  BadgeHonest' /\ BadgeToCome'
  BY <1>8 DEF OnCloseOld, SetWsStatus, StartOfflinePoll, ArmReconnect
<1>9. ASSUME Reconnect
      PROVE  BadgeHonest' /\ BadgeToCome'
  BY <1>9 DEF Reconnect, ConnectWs
<1>10. ASSUME OnMessage
      PROVE  BadgeHonest' /\ BadgeToCome'
  <2> DEFINE m == Head(inbox)
  <2>1. /\ inbox # <<>> /\ inbox' = Tail(inbox) /\ m = inbox[1]
        /\ ws' = ws /\ logins' = logins
        /\ ws \in {"greeting", "served", "ended"}
        /\ m.type = "auth_ok" => ws # "greeting"
    BY <1>10 DEF OnMessage
  <2>2. CASE m.type = "auth_ok"
    <3>1. wsConnected' = TRUE
      BY <1>10, <2>2 DEF OnMessage, SetWsStatus, StopOfflinePoll, Show
    <3>2. ws' \in {"served", "ended"}
      BY <2>1, <2>2
    <3> QED
      BY <3>1, <3>2
  <2>3. CASE m.type # "auth_ok"
    <3>1. wsConnected' = wsConnected
      BY <1>10, <2>3 DEF OnMessage, SetWsStatus, StopOfflinePoll, Show
    <3>2. ASSUME NEW i \in DOMAIN inbox, inbox[i].type = "auth_ok"
          PROVE  \E j \in DOMAIN inbox' : inbox'[j].type = "auth_ok"
      <4>1. i # 1
        BY <2>1, <2>3, <3>2
      <4>2. i - 1 \in DOMAIN inbox' /\ inbox'[i - 1] = inbox[i]
        BY <2>1, <3>2, <4>1
      <4> QED
        BY <3>2, <4>2
    <3>3. BadgeToCome'
      BY <2>1, <3>1, <3>2
    <3>4. ws = "served" /\ inbox' = <<>> /\ logins <= 1 => wsConnected
      BY <2>1, <3>1, <3>2
    <3> QED
      BY <2>1, <3>1, <3>3, <3>4
  <2> QED
    BY <2>2, <2>3
<1>11. ASSUME OnAuthError
      PROVE  BadgeHonest' /\ BadgeToCome'
  BY <1>11 DEF OnAuthError, LeaveServer, StopOfflinePoll
<1>12. ASSUME Poll
      PROVE  BadgeHonest' /\ BadgeToCome'
  BY <1>12 DEF Poll
<1>13. ASSUME NEW i \in DOMAIN fetches,
             Answer(i)
      PROVE  BadgeHonest' /\ BadgeToCome'
  BY <1>13 DEF Answer
<1>14. ASSUME NEW i \in DOMAIN fetches,
             OnAnswer(i)
      PROVE  BadgeHonest' /\ BadgeToCome'
  BY <1>14 DEF OnAnswer, NextPoll, Show
<1>15. ASSUME NEW i \in DOMAIN fetches,
             OnRefused(i)
      PROVE  BadgeHonest' /\ BadgeToCome'
  BY <1>15 DEF OnRefused, NextPoll, LeaveServer
<1>16. ASSUME NEW i \in DOMAIN fetches,
             OnFailed(i)
      PROVE  BadgeHonest' /\ BadgeToCome'
  BY <1>16 DEF OnFailed, NextPoll
<1>17. ASSUME Serve
      PROVE  BadgeHonest' /\ BadgeToCome'
  BY <1>17 DEF Serve
<1>18. ASSUME Greet
      PROVE  BadgeHonest' /\ BadgeToCome'
  BY <1>18 DEF Greet
<1>19. ASSUME Change
      PROVE  BadgeHonest' /\ BadgeToCome'
  <2>1. /\ wsConnected' = wsConnected /\ ws' = ws /\ logins' = logins
    BY <1>19 DEF Change
  <2>3. inbox' = inbox \/ inbox' # <<>>
    <3>1. CASE ws \in Registered
      BY <1>19, <3>1 DEF Change
    <3>2. CASE ws \notin Registered
      BY <1>19, <3>2 DEF Change
    <3> QED
      BY <3>1, <3>2
  <2>2. ASSUME NEW i \in DOMAIN inbox
        PROVE  i \in DOMAIN inbox' /\ inbox'[i] = inbox[i]
    BY <1>19 DEF Change
  <2> QED
    BY <2>1, <2>2, <2>3
<1>20. ASSUME Break
      PROVE  BadgeHonest' /\ BadgeToCome'
  BY <1>20 DEF Break
<1>21. ASSUME Server
      PROVE  BadgeHonest' /\ BadgeToCome'
  BY <1>21 DEF Server
<1> QED
  BY NextCases, <1>1, <1>2, <1>3, <1>4, <1>5, <1>6, <1>7, <1>8, <1>9, <1>10,
    <1>11, <1>12, <1>13, <1>14, <1>15, <1>16, <1>17, <1>18, <1>19, <1>20,
    <1>21

\* No state overtakes another in the inbox of a served socket.
LEMMA NewsKept ==
  ASSUME ClientInv, Next
  PROVE  NewsInOrder'
<1> USE DEF ClientInv, TypeOK, userVars, socketVars, pollVars, tableVars
<1> USE BoundsType DEF Unclosed, Registered, One, Chains
<1> USE DEF InboxOfServed, NewsInOrder, NewsRead, AnswersPast
<1>1. ASSUME NEW key \in {"right", "wrong"},
             Login(key)
      PROVE  NewsInOrder'
  BY <1>1 DEF Login, ConnectWs
<1>2. ASSUME Logout
      PROVE  NewsInOrder'
  BY <1>2 DEF Logout, LeaveServer, StopOfflinePoll
<1>3. ASSUME OpenDetail
      PROVE  NewsInOrder'
  BY <1>3 DEF OpenDetail
<1>4. ASSUME OnOpen
      PROVE  NewsInOrder'
  BY <1>4 DEF OnOpen
<1>5. ASSUME ConnectFails
      PROVE  NewsInOrder'
  BY <1>5 DEF ConnectFails
<1>6. ASSUME OnError
      PROVE  NewsInOrder'
  BY <1>6 DEF OnError, SetWsStatus, StartOfflinePoll
<1>7. ASSUME OnClose
      PROVE  NewsInOrder'
  BY <1>7 DEF OnClose, SetWsStatus, StartOfflinePoll, ArmReconnect
<1>8. ASSUME OnCloseOld
      PROVE  NewsInOrder'
  BY <1>8 DEF OnCloseOld, SetWsStatus, StartOfflinePoll, ArmReconnect
<1>9. ASSUME Reconnect
      PROVE  NewsInOrder'
  BY <1>9 DEF Reconnect, ConnectWs
<1>10. ASSUME OnMessage
      PROVE  NewsInOrder'
  <2> DEFINE m == Head(inbox)
             n == Len(inbox)
  <2>1. /\ inbox # <<>> /\ inbox' = Tail(inbox) /\ m = inbox[1]
        /\ ws' = ws /\ version' = version /\ m.type # "auth_error"
    BY <1>10 DEF OnMessage
  <2>2. /\ n \in Nat /\ n > 0 /\ DOMAIN inbox = 1 .. n
        /\ DOMAIN inbox' = 1 .. n - 1
        /\ \A i \in 1 .. n - 1 : inbox'[i] = inbox[i + 1]
    BY <2>1
  <2> SUFFICES ASSUME ws \in Registered
               PROVE  NewsInOrder'
    BY <2>1
  <2>3. ASSUME NEW i \in DOMAIN inbox', inbox'[i].type # "auth_ok",
               \A j \in DOMAIN inbox' : j > i => inbox'[j].type = "auth_ok"
        PROVE  inbox'[i].v = version
    <3>1. i + 1 \in 1 .. n /\ inbox'[i] = inbox[i + 1]
      BY <2>2
    <3>2. ASSUME NEW k \in 1 .. n, k > i + 1
          PROVE  inbox[k].type = "auth_ok"
      <4>1. k - 1 \in 1 .. n - 1 /\ k - 1 > i /\ k - 1 + 1 = k
        BY <2>2, <3>2
      <4>2. inbox'[k - 1] = inbox[k]
        BY <2>2, <4>1
      <4> QED
        BY <2>2, <2>3, <4>1, <4>2
    <3> QED
      BY <2>2, <2>3, <3>1, <3>2
  <2>4. (NewsRead' /\ ~overwritten') => shown' = version
    <3> SUFFICES ASSUME NewsRead', ~overwritten'
                 PROVE  shown' = version
      OBVIOUS
    <3>1. ASSUME NEW k \in 1 .. n, k > 1
          PROVE  inbox[k].type = "auth_ok"
      <4>1. k - 1 \in 1 .. n - 1 /\ k - 1 + 1 = k
        BY <2>2, <3>1
      <4>2. inbox'[k - 1] = inbox[k]
        BY <2>2, <4>1
      <4> QED
        BY <2>2, <4>1, <4>2
    <3>2. CASE m.type = "auth_ok"
      <4>1. shown' = shown /\ overwritten' = overwritten
        BY <1>10, <3>2 DEF OnMessage, SetWsStatus, StopOfflinePoll, Show
      <4>2. ASSUME NEW k \in DOMAIN inbox
            PROVE  inbox[k].type = "auth_ok"
        <5>1. k = 1 \/ k > 1
          BY <2>2
        <5> QED
          BY <2>1, <2>2, <3>1, <3>2, <5>1
      <4> QED
        BY <4>1, <4>2
    <3>3. CASE m.type # "auth_ok"
      <4>1. shown' = m.v
        BY <1>10, <3>3 DEF OnMessage, SetWsStatus, StopOfflinePoll, Show
      <4>2. m.v = version
        BY <2>1, <2>2, <3>1, <3>3
      <4> QED
        BY <4>1, <4>2
    <3> QED
      BY <3>2, <3>3
  <2> QED
    BY <2>1, <2>3, <2>4
<1>11. ASSUME OnAuthError
      PROVE  NewsInOrder'
  BY <1>11 DEF OnAuthError, LeaveServer, StopOfflinePoll
<1>12. ASSUME Poll
      PROVE  NewsInOrder'
  BY <1>12 DEF Poll
<1>13. ASSUME NEW i \in DOMAIN fetches,
             Answer(i)
      PROVE  NewsInOrder'
  BY <1>13 DEF Answer
<1>14. ASSUME NEW i \in DOMAIN fetches,
             OnAnswer(i)
      PROVE  NewsInOrder'
  <2>1. /\ inbox' = inbox /\ ws' = ws /\ version' = version
        /\ shown' = fetches[i].v
        /\ overwritten' = (fetches[i].v < shown
                           \/ (overwritten /\ fetches[i].v # version))
        /\ fetches[i].v <= version
    BY <1>14 DEF OnAnswer, NextPoll, Show
  <2>2. fetches[i].v \in Nat /\ version \in Nat /\ shown \in Nat
    BY StateAnswered DEF Versions
  <2>3. (ws \in Registered /\ NewsRead /\ ~overwritten') => shown' = version
    <3> SUFFICES ASSUME ws \in Registered, NewsRead, ~overwritten'
                 PROVE  fetches[i].v = version
      BY <2>1
    <3>1. /\ ~(fetches[i].v < shown)
          /\ overwritten => fetches[i].v = version
      BY <2>1
    <3>2. CASE ~overwritten
      <4>1. shown = version
        BY <3>2
      <4> QED
        BY <2>1, <2>2, <3>1, <4>1
    <3> QED
      BY <3>1, <3>2
  <2> QED
    BY <2>1, <2>3
<1>15. ASSUME NEW i \in DOMAIN fetches,
             OnRefused(i)
      PROVE  NewsInOrder'
  BY <1>15 DEF OnRefused, NextPoll, LeaveServer
<1>16. ASSUME NEW i \in DOMAIN fetches,
             OnFailed(i)
      PROVE  NewsInOrder'
  BY <1>16 DEF OnFailed, NextPoll
<1>17. ASSUME Serve
      PROVE  NewsInOrder'
  <2>1. CASE apiKey = "right"
    <3>1. inbox' = <<[type |-> "snapshot", v |-> version]>>
      BY <1>17, <2>1 DEF Serve
    <3>2. /\ inbox'[1].type = "snapshot" /\ inbox'[1].v = version
          /\ DOMAIN inbox' = {1}
      BY ONLY <3>1
    <3>3. version' = version /\ ~NewsRead'
      BY <1>17, <3>2 DEF Serve
    <3> QED
      BY ONLY <3>2, <3>3 DEF NewsInOrder
  <2>2. CASE apiKey # "right"
    BY <1>17, <2>2 DEF Serve
  <2> QED
    BY <2>1, <2>2
<1>18. ASSUME Greet
      PROVE  NewsInOrder'
  <2> DEFINE n == Len(inbox)
             ok == [type |-> "auth_ok"]
  <2>1. /\ ws = "greeting" /\ inbox' = Append(inbox, ok)
        /\ UNCHANGED <<version, shown, overwritten>>
    BY <1>18 DEF Greet
  <2>2. /\ n \in Nat /\ DOMAIN inbox = 1 .. n /\ DOMAIN inbox' = 1 .. n + 1
        /\ \A i \in 1 .. n : inbox'[i] = inbox[i]
        /\ inbox'[n + 1].type = "auth_ok"
    BY <2>1
  <2>3. ASSUME NEW i \in DOMAIN inbox', inbox'[i].type # "auth_ok",
               \A j \in DOMAIN inbox' : j > i => inbox'[j].type = "auth_ok"
        PROVE  inbox'[i].v = version
    <3>1. i \in 1 .. n
      BY <2>2, <2>3
    <3>2. \A j \in 1 .. n : j > i => inbox[j].type = "auth_ok"
      BY <2>2, <2>3
    <3> QED
      BY <2>1, <2>2, <2>3, <3>1, <3>2
  <2>4. NewsRead' => NewsRead
    BY <2>2
  <2> QED
    BY <2>1, <2>3, <2>4
<1>19. ASSUME Change
      PROVE  NewsInOrder'
  <2> SUFFICES ASSUME ws \in Registered
               PROVE  NewsInOrder'
    BY <1>19 DEF Change
  <2> DEFINE n == Len(inbox)
             e == [type |-> "event", v |-> version + 1]
  <2>1. inbox' = Append(inbox, e) /\ version' = version + 1
    BY <1>19 DEF Change
  <2>2. /\ n \in Nat /\ DOMAIN inbox' = 1 .. n + 1
        /\ inbox'[n + 1].type = "event" /\ inbox'[n + 1].v = version'
    BY <2>1
  <2>3. n + 1 \in DOMAIN inbox' /\ ~NewsRead'
    BY <2>2
  <2>4. ASSUME NEW i \in DOMAIN inbox',
               \A j \in DOMAIN inbox' : j > i => inbox'[j].type = "auth_ok"
        PROVE  i = n + 1
    BY <2>2, <2>3, <2>4
  <2> QED
    BY <2>2, <2>3, <2>4
<1>20. ASSUME Break
      PROVE  NewsInOrder'
  BY <1>20 DEF Break
<1>21. ASSUME Server
      PROVE  NewsInOrder'
  BY <1>21 DEF Server
<1> QED
  BY NextCases, <1>1, <1>2, <1>3, <1>4, <1>5, <1>6, <1>7, <1>8, <1>9, <1>10,
    <1>11, <1>12, <1>13, <1>14, <1>15, <1>16, <1>17, <1>18, <1>19, <1>20,
    <1>21

\* An answer gives a state the server was in.
LEMMA AnswersKept ==
  ASSUME ClientInv, Next
  PROVE  AnswersPast'
<1> USE DEF ClientInv, TypeOK, userVars, socketVars, pollVars, tableVars
<1> USE BoundsType DEF Unclosed, Registered, One, Versions
<1> USE DEF Turns, AnswersPast
<1>1. ASSUME NEW key \in {"right", "wrong"},
             Login(key)
      PROVE  AnswersPast'
  BY <1>1 DEF Login, ConnectWs
<1>2. ASSUME Logout
      PROVE  AnswersPast'
  BY <1>2 DEF Logout, LeaveServer, StopOfflinePoll
<1>3. ASSUME OpenDetail
      PROVE  AnswersPast'
  <2> SUFFICES ASSUME NEW i \in DOMAIN fetches'
               PROVE  fetches'[i].v <= version
    BY <1>3 DEF OpenDetail
  <2>1. CASE i \in DOMAIN fetches
    BY <1>3, <2>1 DEF OpenDetail
  <2>2. CASE i \notin DOMAIN fetches
    <3>1. fetches'[i].v = 0
      BY <1>3, <2>2 DEF OpenDetail
    <3> QED
      BY <3>1
  <2> QED
    BY <2>1, <2>2
<1>4. ASSUME OnOpen
      PROVE  AnswersPast'
  BY <1>4 DEF OnOpen
<1>5. ASSUME ConnectFails
      PROVE  AnswersPast'
  BY <1>5 DEF ConnectFails
<1>6. ASSUME OnError
      PROVE  AnswersPast'
  BY <1>6 DEF OnError, SetWsStatus, StartOfflinePoll
<1>7. ASSUME OnClose
      PROVE  AnswersPast'
  BY <1>7 DEF OnClose, SetWsStatus, StartOfflinePoll, ArmReconnect
<1>8. ASSUME OnCloseOld
      PROVE  AnswersPast'
  BY <1>8 DEF OnCloseOld, SetWsStatus, StartOfflinePoll, ArmReconnect
<1>9. ASSUME Reconnect
      PROVE  AnswersPast'
  BY <1>9 DEF Reconnect, ConnectWs
<1>10. ASSUME OnMessage
      PROVE  AnswersPast'
  BY <1>10 DEF OnMessage, SetWsStatus, StopOfflinePoll, Show
<1>11. ASSUME OnAuthError
      PROVE  AnswersPast'
  BY <1>11 DEF OnAuthError, LeaveServer, StopOfflinePoll
<1>12. ASSUME Poll
      PROVE  AnswersPast'
  <2> SUFFICES ASSUME NEW i \in DOMAIN fetches'
               PROVE  fetches'[i].v <= version
    BY <1>12 DEF Poll
  <2>1. CASE i \in DOMAIN fetches
    BY <1>12, <2>1 DEF Poll
  <2>2. CASE i \notin DOMAIN fetches
    <3>1. fetches'[i].v = 0
      BY <1>12, <2>2 DEF Poll
    <3> QED
      BY <3>1
  <2> QED
    BY <2>1, <2>2
<1>13. ASSUME NEW i \in DOMAIN fetches,
             Answer(i)
      PROVE  AnswersPast'
  BY <1>13 DEF Answer
<1>14. ASSUME NEW i \in DOMAIN fetches,
             OnAnswer(i)
      PROVE  AnswersPast'
  BY <1>14 DEF OnAnswer, NextPoll, Show
<1>15. ASSUME NEW i \in DOMAIN fetches,
             OnRefused(i)
      PROVE  AnswersPast'
  BY <1>15 DEF OnRefused, NextPoll, LeaveServer
<1>16. ASSUME NEW i \in DOMAIN fetches,
             OnFailed(i)
      PROVE  AnswersPast'
  BY <1>16 DEF OnFailed, NextPoll
<1>17. ASSUME Serve
      PROVE  AnswersPast'
  BY <1>17 DEF Serve
<1>18. ASSUME Greet
      PROVE  AnswersPast'
  BY <1>18 DEF Greet
<1>19. ASSUME Change
      PROVE  AnswersPast'
  <2> SUFFICES ASSUME NEW i \in DOMAIN fetches
               PROVE  fetches[i].v <= version + 1
    BY <1>19 DEF Change
  <2>1. fetches[i].v \in Nat /\ fetches[i].v <= version
    BY StateAnswered
  <2> QED
    BY <2>1
<1>20. ASSUME Break
      PROVE  AnswersPast'
  BY <1>20 DEF Break
<1>21. ASSUME Server
      PROVE  AnswersPast'
  BY <1>21 DEF Server
<1> QED
  BY NextCases, <1>1, <1>2, <1>3, <1>4, <1>5, <1>6, <1>7, <1>8, <1>9, <1>10,
    <1>11, <1>12, <1>13, <1>14, <1>15, <1>16, <1>17, <1>18, <1>19, <1>20,
    <1>21

\* The parts of ClientInv hold together in every state.
THEOREM ClientInductive == Spec => []ClientInv
<1>1. Init => ClientInv
  <2> SUFFICES ASSUME Init
               PROVE  ClientInv
    OBVIOUS
  <2>1. Flags
    BY DEF Init, Flags
  <2>2. Counts
    BY DEF Init, Counts
  <2>3. Data
    BY BoundsType DEF Init, Data, Versions
  <2>4. TypeOK
    BY <2>1, <2>2, <2>3 DEF TypeOK, Flags, Counts, Data
  <2>5. NeverGivesUp /\ OneChain
    BY DEF Init, NeverGivesUp, OneChain, Chains, One, Unclosed, Registered
  <2>6. InboxOfServed /\ BadgeHonest /\ BadgeToCome
    BY DEF Init, InboxOfServed, BadgeHonest, BadgeToCome
  <2>7. NewsInOrder /\ AnswersPast
    BY DEF Init, NewsInOrder, AnswersPast, Registered
  <2> QED
    BY <2>4, <2>5, <2>6, <2>7 DEF ClientInv
<1>2. ClientInv /\ [Next]_vars => ClientInv'
  <2>1. ClientInv /\ Next => ClientInv'
    BY TypeOKKept, ChainsKept, InboxKept, BadgeKept, NewsKept, AnswersKept
      DEF ClientInv
  <2>2. ClientInv /\ UNCHANGED vars => ClientInv'
    BY DEF vars, userVars, socketVars, pollVars, tableVars, ClientInv, TypeOK,
      NeverGivesUp, OneChain, Chains, One, InboxOfServed, BadgeHonest,
      BadgeToCome, NewsInOrder, NewsRead, AnswersPast
  <2> QED
    BY <2>1, <2>2
<1> QED
  BY <1>1, <1>2, PTL DEF Spec

\* Every variable keeps its type.
THEOREM ClientTypeCorrect == Spec => []TypeOK
<1>1. ClientInv => TypeOK
  BY DEF ClientInv
<1> QED
  BY <1>1, ClientInductive, PTL

\* While the application is shown, a socket is not closed or a timer pending.
THEOREM AlwaysReconnects == Spec => []NeverGivesUp
<1>1. ClientInv => NeverGivesUp
  BY DEF ClientInv
<1> QED
  BY <1>1, ClientInductive, PTL

\* The page connects at most once for each login.
THEOREM ChainsBounded == Spec => []OneChain
<1>1. ClientInv => OneChain
  BY DEF ClientInv
<1> QED
  BY <1>1, ClientInductive, PTL

\* The badge of a user who logged in once tells the truth.
THEOREM BadgeTrue == Spec => []BadgeHonest
<1>1. ClientInv => BadgeHonest
  BY DEF ClientInv
<1> QED
  BY <1>1, ClientInductive, PTL

\* A page that has read its messages shows the server's state, unless a late
\* answer overwrote it.
THEOREM ConnectedRight == Spec => []ConnectedIsRight
<1>1. ClientInv => ConnectedIsRight
  BY DEF ClientInv, NewsInOrder, NewsRead, ConnectedIsRight
<1> QED
  BY <1>1, ClientInductive, PTL

=============================================================================
