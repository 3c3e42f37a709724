-------------------------- MODULE DashboardClient --------------------------
(***************************************************************************)
(* One dashboard page, static/dashboard/app.js: the WebSocket it keeps     *)
(* open or reconnects, the snapshots it polls while offline, the details   *)
(* it fetches, logging in and out.  The server is up or down and has one   *)
(* state that changes, of which DashboardFeed has the details.             *)
(*                                                                         *)
(* The page runs one callback at a time.  A timer may fire whenever it is  *)
(* pending.  Timers that are set while their variable holds the handle of  *)
(* another one stay pending, and nobody can clear them any more.           *)
(***************************************************************************)
EXTENDS Naturals, Sequences

CONSTANTS MaxLogins,    \* bounds on the user's, the server's and the page's
          MaxChanges,   \* activity, for TLC only
          MaxRequests

ASSUME BoundsType == /\ MaxLogins \in Nat /\ MaxChanges \in Nat
                     /\ MaxRequests \in Nat

VARIABLES
  screen,       \* "login" or "app"
  apiKey,       \* apiKey: the right one, a wrong one or none
  logins,       \* the calls of showApp
  ws,           \* the page's latest socket
  inbox,        \* what the server sent on it and the page has not handled
  closing,      \* the older sockets whose onclose is yet to come
  timers,       \* the pending reconnect timers
  armed,        \* reconnectTimer is one of them
  wsConnected,  \* wsConnected, the badge
  pollTimers,   \* the pending poll timers
  pollArmed,    \* pollTimer is one of them
  fetches,      \* the HTTP requests so far
  up,           \* the server runs and can be reached
  version,      \* the server's state
  shown,        \* what the page shows of it
  overwritten   \* history: by an older state that came late

userVars == <<screen, apiKey, logins>>
socketVars == <<ws, inbox, closing, timers, armed, wsConnected>>
pollVars == <<pollTimers, pollArmed, fetches>>
tableVars == <<shown, overwritten>>
vars == <<userVars, socketVars, pollVars, up, version, tableVars>>

\* A socket is made, opens and sends the key; the server registers it, greets
\* it and serves it, or refuses it; it has ended when the server or the network
\* closed it, and is closing when the page did; then onclose is called.
Registered == {"greeting", "served"}
Unclosed == {"connecting", "failed", "open", "ended", "closing"}
              \cup Registered
Versions == 0 .. MaxChanges
Message == [type : {"snapshot", "event"}, v : Versions]
           \cup [type : {"auth_ok", "auth_error"}]
Request == [by : {"poll", "detail"}, key : {"right", "wrong", "none"},
            at : {"asked", "answered", "refused", "failed", "done"},
            v : Versions]

TypeOK ==
  /\ screen \in {"login", "app"}
  /\ apiKey \in {"right", "wrong", "none"}
  /\ logins \in 0 .. MaxLogins
  /\ ws \in {"none", "closed"} \cup Unclosed
  /\ inbox \in Seq(Message)
  /\ closing \in Nat /\ timers \in Nat /\ pollTimers \in Nat
  /\ armed \in BOOLEAN /\ (armed => timers > 0)
  /\ pollArmed \in BOOLEAN /\ (pollArmed => pollTimers > 0)
  /\ wsConnected \in BOOLEAN
  /\ fetches \in Seq(Request) /\ Len(fetches) <= MaxRequests
  /\ up \in BOOLEAN
  /\ version \in Versions /\ shown \in Versions
  /\ overwritten \in BOOLEAN

Init ==
  /\ screen = "login" /\ apiKey = "none" /\ logins = 0
  /\ ws = "none" /\ inbox = <<>> /\ closing = 0
  /\ timers = 0 /\ armed = FALSE /\ wsConnected = FALSE
  /\ pollTimers = 0 /\ pollArmed = FALSE /\ fetches = <<>>
  /\ up \in BOOLEAN
  /\ version = 0 /\ shown = 0 /\ overwritten = FALSE

One(b) == IF b THEN 1 ELSE 0

-----------------------------------------------------------------------------
(***************************************************************************)
(* The page's functions.                                                   *)
(***************************************************************************)
\* connectWs: close, which does nothing to a closed socket, and a new one.
ConnectWs ==
  /\ closing' = closing + One(ws \in Unclosed)
  /\ ws' = "connecting"
  /\ inbox' = <<>>

StopOfflinePoll ==
  /\ pollTimers' = pollTimers - One(pollArmed)
  /\ pollArmed' = FALSE

StartOfflinePoll ==
  /\ pollTimers' = pollTimers - One(pollArmed) + 1
  /\ pollArmed' = TRUE

SetWsStatus(live) ==
  /\ wsConnected' = live
  /\ IF live THEN StopOfflinePoll ELSE StartOfflinePoll

ArmReconnect ==
  /\ timers' = timers + 1
  /\ armed' = TRUE

\* Of showLogin and of the log-out button: ws.close() and clearTimeout.
LeaveServer ==
  /\ screen' = "login"
  /\ ws' = IF ws \in Unclosed THEN "closing" ELSE ws
  /\ inbox' = <<>>
  /\ timers' = timers - One(armed)
  /\ armed' = FALSE

Show(v) ==
  /\ shown' = v
  /\ overwritten' = (v < shown \/ (overwritten /\ v # version))

-----------------------------------------------------------------------------
(***************************************************************************)
(* The user.                                                               *)
(***************************************************************************)
Login(key) ==
  /\ screen = "login"
  /\ logins < MaxLogins
  /\ screen' = "app"
  /\ apiKey' = key
  /\ logins' = logins + 1
  /\ ConnectWs
  /\ UNCHANGED <<timers, armed, wsConnected, pollVars, up, version, tableVars>>

Logout ==
  /\ screen = "app"
  /\ apiKey' = "none"
  /\ LeaveServer
  /\ StopOfflinePoll
  /\ UNCHANGED <<logins, closing, wsConnected, fetches, up, version,
                 tableVars>>

\* openDrawer: fetchTaskDetail.
OpenDetail ==
  /\ screen = "app"
  /\ Len(fetches) < MaxRequests
  /\ fetches' = Append(fetches, [by |-> "detail", key |-> apiKey,
                                 at |-> "asked", v |-> 0])
  /\ UNCHANGED <<userVars, socketVars, pollTimers, pollArmed, up, version,
                 tableVars>>

-----------------------------------------------------------------------------
(***************************************************************************)
(* The socket's events.                                                    *)
(***************************************************************************)
\* onopen sends the key.
OnOpen ==
  /\ ws = "connecting" /\ up
  /\ ws' = "open"
  /\ UNCHANGED <<userVars, inbox, closing, timers, armed, wsConnected,
                 pollVars, up, version, tableVars>>

ConnectFails ==
  /\ ws = "connecting" /\ ~up
  /\ ws' = "failed"
  /\ UNCHANGED <<userVars, inbox, closing, timers, armed, wsConnected,
                 pollVars, up, version, tableVars>>

\* Mutant of OnError: it reconnects as well.
OnErrorReconnects ==
  /\ ws = "failed"
  /\ ws' = "ended"
  /\ SetWsStatus(FALSE)
  /\ ArmReconnect
  /\ UNCHANGED <<userVars, inbox, closing, fetches, up, version, tableVars>>

OnError ==
  /\ ws = "failed"
  /\ ws' = "ended"
  /\ SetWsStatus(FALSE)
  /\ UNCHANGED <<userVars, inbox, closing, timers, armed, fetches, up,
                 version, tableVars>>

\* Mutant of OnClose: the badge is left to onerror.
OnCloseQuietly ==
  /\ ws = "closing" \/ (ws = "ended" /\ inbox = <<>>)
  /\ ws' = "closed"
  /\ ArmReconnect
  /\ UNCHANGED <<userVars, inbox, closing, wsConnected, pollVars, up, version,
                 tableVars>>

\* Mutant of OnClose: only a page that was connected reconnects.
OnCloseIfConnected ==
  /\ ws = "closing" \/ (ws = "ended" /\ inbox = <<>>)
  /\ ws' = "closed"
  /\ SetWsStatus(FALSE)
  /\ IF wsConnected THEN ArmReconnect ELSE UNCHANGED <<timers, armed>>
  /\ UNCHANGED <<userVars, inbox, closing, fetches, up, version, tableVars>>

\* onclose, after the messages that came before the end.
OnClose ==
  /\ ws = "closing" \/ (ws = "ended" /\ inbox = <<>>)
  /\ ws' = "closed"
  /\ SetWsStatus(FALSE)
  /\ ArmReconnect
  /\ UNCHANGED <<userVars, inbox, closing, fetches, up, version, tableVars>>

\* The same function is called for the sockets connectWs replaced.
OnCloseOld ==
  /\ closing > 0
  /\ closing' = closing - 1
  /\ SetWsStatus(FALSE)
  /\ ArmReconnect
  /\ UNCHANGED <<userVars, ws, inbox, fetches, up, version, tableVars>>

\* Mutant of Reconnect: the handle of the timer that fired is taken for that
\* of a pending one.
ReconnectKeepsHandle ==
  /\ timers > 0
  /\ timers' = timers - 1
  /\ ConnectWs
  /\ UNCHANGED <<userVars, armed, wsConnected, pollVars, up, version,
                 tableVars>>

\* One of the reconnect timers fires; reconnectTimer may be another one.
Reconnect ==
  /\ timers > 0
  /\ \E mine \in BOOLEAN :
       /\ IF mine THEN armed ELSE timers > One(armed)
       /\ armed' = (armed /\ ~mine)
  /\ timers' = timers - 1
  /\ ConnectWs
  /\ UNCHANGED <<userVars, wsConnected, pollVars, up, version, tableVars>>

\* Mutant of OnMessage: auth_ok is not looked at, the first event shows that
\* the page is connected.
OnMessageLate ==
  LET m == Head(inbox)
  IN /\ inbox # <<>>
     /\ m.type # "auth_error"
     /\ inbox' = Tail(inbox)
     /\ IF m.type = "event" THEN SetWsStatus(TRUE)
        ELSE UNCHANGED <<wsConnected, pollTimers, pollArmed>>
     /\ IF m.type = "auth_ok" THEN UNCHANGED tableVars ELSE Show(m.v)
     /\ UNCHANGED <<userVars, ws, closing, timers, armed, fetches, up,
                    version>>

\* Mutant of OnMessage: a page that has shown something takes its news from
\* the events alone.
OnMessageNoSnapshot ==
  LET m == Head(inbox)
  IN /\ inbox # <<>>
     /\ m.type # "auth_error"
     /\ inbox' = Tail(inbox)
     /\ IF m.type = "auth_ok"
        THEN SetWsStatus(TRUE) /\ UNCHANGED tableVars
        ELSE /\ IF m.type = "event" \/ shown = 0 THEN Show(m.v)
                ELSE UNCHANGED tableVars
             /\ UNCHANGED <<wsConnected, pollTimers, pollArmed>>
     /\ UNCHANGED <<userVars, ws, closing, timers, armed, fetches, up,
                    version>>

\* handleWsMessage: a snapshot, an event or auth_ok.
OnMessage ==
  LET m == Head(inbox)
  IN /\ inbox # <<>>
     /\ m.type # "auth_error"
     /\ inbox' = Tail(inbox)
     /\ IF m.type = "auth_ok"
        THEN SetWsStatus(TRUE) /\ UNCHANGED tableVars
        ELSE Show(m.v) /\ UNCHANGED <<wsConnected, pollTimers, pollArmed>>
     /\ UNCHANGED <<userVars, ws, closing, timers, armed, fetches, up,
                    version>>

\* setWsStatus(false), whose poll timer showLogin stops at once, and showLogin.
OnAuthError ==
  /\ inbox # <<>> /\ Head(inbox).type = "auth_error"
  /\ LeaveServer
  /\ wsConnected' = FALSE
  /\ StopOfflinePoll
  /\ UNCHANGED <<apiKey, logins, closing, fetches, up, version, tableVars>>

-----------------------------------------------------------------------------
(***************************************************************************)
(* Polling, and the answers to requests.                                   *)
(***************************************************************************)
Poll ==
  /\ pollTimers > 0
  /\ \E mine \in BOOLEAN :
       /\ IF mine THEN pollArmed ELSE pollTimers > One(pollArmed)
       /\ pollArmed' = (pollArmed /\ ~mine)
  /\ pollTimers' = pollTimers - 1
  /\ IF wsConnected THEN UNCHANGED fetches
     ELSE /\ Len(fetches) < MaxRequests
          /\ fetches' = Append(fetches, [by |-> "poll", key |-> apiKey,
                                         at |-> "asked", v |-> 0])
  /\ UNCHANGED <<userVars, socketVars, up, version, tableVars>>

\* What has become of request i.
Turns(i, at, v) ==
  fetches' = [fetches EXCEPT ![i] = [@ EXCEPT !.at = at, !.v = v]]

Answer(i) ==
  /\ fetches[i].at = "asked"
  /\ LET right == fetches[i].key = "right"
         at == IF ~up THEN "failed"
               ELSE IF right THEN "answered" ELSE "refused"
     IN Turns(i, at, IF right THEN version ELSE 0)
  /\ UNCHANGED <<userVars, socketVars, pollTimers, pollArmed, up, version,
                 tableVars>>

\* The rest of tick sets pollTimer; showLogin has stopped the timer before.
NextPoll(by, t) ==
  /\ pollTimers' = t + One(by = "poll")
  /\ pollArmed' = (by = "poll" \/ (t = pollTimers /\ pollArmed))

\* applySnapshot of a polled snapshot, or upsertTask of the details.
OnAnswer(i) ==
  /\ fetches[i].at = "answered"
  /\ Show(fetches[i].v)
  /\ Turns(i, "done", 0)
  /\ NextPoll(fetches[i].by, pollTimers)
  /\ UNCHANGED <<userVars, socketVars, up, version>>

\* A polled snapshot that is refused forgets the key, whichever it is by now,
\* and shows the log-in screen.
OnRefused(i) ==
  /\ fetches[i].at = "refused"
  /\ Turns(i, "done", 0)
  /\ IF fetches[i].by = "poll"
     THEN /\ apiKey' = "none"
          /\ LeaveServer
          /\ NextPoll("poll", pollTimers - One(pollArmed))
          /\ UNCHANGED <<logins, closing, wsConnected>>
     ELSE UNCHANGED <<userVars, socketVars, pollTimers, pollArmed>>
  /\ UNCHANGED <<up, version, tableVars>>

OnFailed(i) ==
  /\ fetches[i].at = "failed"
  /\ Turns(i, "done", 0)
  /\ NextPoll(fetches[i].by, pollTimers)
  /\ UNCHANGED <<userVars, socketVars, up, version, tableVars>>

-----------------------------------------------------------------------------
(***************************************************************************)
(* The server and the network.                                             *)
(***************************************************************************)
\* dashboard_websocket registers the socket and sends it a snapshot, or refuses
\* it with auth_error before it closes it.
Serve ==
  /\ ws = "open" /\ up
  /\ IF apiKey = "right"
     THEN ws' = "greeting" /\ inbox' = <<[type |-> "snapshot", v |-> version]>>
     ELSE ws' = "ended" /\ inbox' = <<[type |-> "auth_error"]>>
  /\ UNCHANGED <<userVars, closing, timers, armed, wsConnected, pollVars, up,
                 version, tableVars>>

\* ... and then, which events may have come before, auth_ok.
Greet ==
  /\ ws = "greeting" /\ up
  /\ ws' = "served"
  /\ inbox' = Append(inbox, [type |-> "auth_ok"])
  /\ UNCHANGED <<userVars, closing, timers, armed, wsConnected, pollVars, up,
                 version, tableVars>>

\* The server's state changes, as the feed delivers it: in DashboardFeed the
\* hub may send two events in the other order, and here the state is that of
\* the last one sent.
Change ==
  /\ up
  /\ version < MaxChanges
  /\ version' = version + 1
  /\ inbox' = IF ws \in Registered
              THEN Append(inbox, [type |-> "event", v |-> version + 1])
              ELSE inbox
  /\ UNCHANGED <<userVars, ws, closing, timers, armed, wsConnected, pollVars,
                 up, tableVars>>

\* The connection breaks, and with it what has not arrived.
Break ==
  /\ ws \in {"open"} \cup Registered /\ ~up
  /\ ws' = "ended"
  /\ \E n \in 0 .. Len(inbox) : inbox' = SubSeq(inbox, 1, n)
  /\ UNCHANGED <<userVars, closing, timers, armed, wsConnected, pollVars, up,
                 version, tableVars>>

Server ==
  /\ up' = ~up
  /\ UNCHANGED <<userVars, socketVars, pollVars, version, tableVars>>

-----------------------------------------------------------------------------
User == (\E key \in {"right", "wrong"} : Login(key)) \/ Logout \/ OpenDetail
SocketEvent ==
  \/ OnOpen \/ OnError \/ OnClose \/ OnCloseOld \/ OnMessage \/ OnAuthError
  \/ Serve \/ Greet
RequestEvent ==
  \E i \in DOMAIN fetches :
    Answer(i) \/ OnAnswer(i) \/ OnRefused(i) \/ OnFailed(i)

Next ==
  \/ User
  \/ SocketEvent \/ ConnectFails \/ Break
  \/ Reconnect
  \/ Poll \/ RequestEvent
  \/ Change
  \/ Server

Spec == Init /\ [][Next]_vars

\* The browser calls the callbacks of events and timers, and a server that is
\* up answers.
FairSpec ==
  /\ Spec
  /\ WF_vars(SocketEvent) /\ WF_vars(Reconnect) /\ WF_vars(RequestEvent)
-----------------------------------------------------------------------------
(***************************************************************************)
(* Properties.                                                             *)
(***************************************************************************)
\* A chain is a socket whose onclose will set a timer, or a timer that will
\* make a socket.
Chains == timers + closing + One(ws \in Unclosed)

\* While the page shows the application, it is connected or about to be: some
\* socket is not closed or some timer is pending, whatever failed before and
\* whichever timers and sockets the user's coming and going stopped.
NeverGivesUp == screen = "app" => Chains > 0

\* The page never connects more than once for each time the user logged in:
\* onerror and onclose of one failure do not both reconnect.
OneChain == Chains <= logins

\* Of a user who logged in once, the badge says SYNC_LIVE only while the
\* server serves the socket or the page has not yet been told that it ended,
\* and says so as soon as the page has read auth_ok on a socket that is
\* served.
BadgeHonest ==
  logins <= 1 =>
    /\ wsConnected => ws \in {"served", "ended", "closing"}
    /\ (ws = "served" /\ inbox = <<>>) => wsConnected

\* A page with a registered socket whose messages it has all read shows the
\* server's state as the feed delivers it, unless an older state, asked for
\* before, was answered late and written over a newer one: what it missed while
\* it was offline, the snapshot has brought, though events come before the
\* greeting is over.
ConnectedIsRight ==
  (ws \in Registered /\ inbox = <<>> /\ ~overwritten) => shown = version

\* However often the connection was lost, the page of a user who logged in
\* once with the right key is live for ever once the server can be reached
\* for ever.
StaysLive ==
  <>[](up /\ screen = "app" /\ apiKey = "right" /\ logins = 1)
    => <>[]wsConnected

-----------------------------------------------------------------------------
(***************************************************************************)
(* The inductive invariant of the safety properties.                       *)
(***************************************************************************)
\* Only a registered socket, and one that has ended since, has messages; only
\* one that has ended a refusal; and none auth_ok before it is served.
InboxOfServed ==
  /\ inbox # <<>> => ws \in Registered \cup {"ended"}
  /\ \A i \in DOMAIN inbox :
       /\ inbox[i].type = "auth_error" => ws = "ended"
       /\ inbox[i].type = "auth_ok" => ws # "greeting"

\* The page of a user who logged in once is live or about to read auth_ok.
BadgeToCome ==
  (logins <= 1 /\ ws = "served" /\ ~wsConnected)
    => \E i \in DOMAIN inbox : inbox[i].type = "auth_ok"

\* The page has read all states.
NewsRead == \A i \in DOMAIN inbox : inbox[i].type = "auth_ok"

\* The state that comes last in the inbox is the latest, and once the page has
\* read it, it shows it.
NewsInOrder ==
  ws \in Registered =>
    /\ \A i \in DOMAIN inbox :
         (/\ inbox[i].type # "auth_ok"
          /\ \A j \in DOMAIN inbox : j > i => inbox[j].type = "auth_ok")
           => inbox[i].v = version
    /\ (NewsRead /\ ~overwritten) => shown = version

AnswersPast == \A i \in DOMAIN fetches : fetches[i].v <= version

\* The parts hold together: a live badge and a state that is read need the one
\* chain to be the socket's, and messages in the order they were sent.
ClientInv ==
  /\ TypeOK
  /\ NeverGivesUp /\ OneChain
  /\ InboxOfServed /\ BadgeHonest /\ BadgeToCome
  /\ NewsInOrder /\ AnswersPast
=============================================================================
