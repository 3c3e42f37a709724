--------------------------- MODULE DashboardFeed ---------------------------
(***************************************************************************)
(* How what the registry knows of the runs reaches the dashboards: threads *)
(* write records and emit events, the event loop broadcasts the events to  *)
(* the WebSocket clients, a client that connects gets a snapshot first,    *)
(* and each client folds what it receives into its table of tasks.         *)
(*                                                                         *)
(* A record is its version, which every write increases: two versions are  *)
(* two contents to tell apart, 0 is a run that does not exist.  The event  *)
(* loop is a thread that also executes REST handlers, and nothing else of  *)
(* it runs in the middle of one.  Its queue of callbacks is ready: an      *)
(* event of another thread comes in as a callback that creates a task      *)
(* ("hop"), one of the loop itself is a task already.                      *)
(***************************************************************************)
EXTENDS Integers, Sequences

CONSTANTS Runs,
          First,       \* the run that exists when the first dashboard comes
          Workers,     \* the threads that write records, apart from the loop
          Loop,        \* the event loop's thread
          Sockets,     \* the connections, each made once
          MaxHistory,  \* DASHBOARD_MAX_HISTORY
          MaxOps       \* bound on the operations of all threads, for TLC only

ASSUME LoopIsNoWorker == Loop \notin Workers
ASSUME FirstIsRun == First \in Runs
ASSUME BoundsType == MaxHistory \in Nat \ {0} /\ MaxOps \in Nat \ {0}

Threads == Workers \cup {Loop}

Stub == -1   \* what appendLog makes up for a run it does not know: "running"

\* What an event or a snapshot says: versions of some runs.
Content == UNION {[R -> 0 .. MaxOps] : R \in SUBSET Runs}
NoRuns == [r \in {} |-> 0]
Nothing == [r \in Runs |-> 0]
Put(f, r, v) == [x \in DOMAIN f \cup {r} |-> IF x = r THEN v ELSE f[x]]

\* The type of an event, as the client's switch tells them apart: one task
\* (task_created, _updated, _finished, _cancelled, callback_updated), the
\* tasks in the queues (queue_updated), a log line, or the first message.
Kind == {"task", "queues", "log", "snapshot"}
Event == [kind : Kind, of : Content]
Callback == [hop : BOOLEAN, ev : Event]
Cast == [ev : Event, left : SUBSET Sockets, dead : SUBSET Sockets]
Emission == [kind : {"none", "task", "queues"}, to : SUBSET Runs, of : Content]

VARIABLES
  version,  \* the records of _tasks
  order,    \* _order: the runs of the history, newest first
  op,       \* what each thread emits next, being read out of the records
  ops,      \* the number of operations begun
  ready,    \* the loop's callbacks that carry events
  casts,    \* the broadcasts that await a send, each with the clients left of
            \* its copy; two that are equal send the same, and are one here
  clients,  \* hub._clients
  sock,     \* where the handler of each connection is
  lost,     \* the connections that are broken, noticed by the bridge or not
  snap,     \* the snapshot the handler reads, and the runs to read
  table,    \* the tasks each client shows when it has what was sent to it
  sent,     \* history: the newest version of each run sent on a connection
  raced     \* history: the runs whose events have overtaken one another

registryVars == <<version, order>>
threadVars == <<op, ops>>
hubVars == <<ready, casts, clients, raced>>
socketVars == <<sock, lost, snap, table, sent>>
vars == <<registryVars, threadVars, hubVars, socketVars>>

NoOp == [kind |-> "none", to |-> {}, of |-> NoRuns]
NoSnap == [to |-> {}, of |-> NoRuns]
Handler == {"new", "snapshot", "greeting", "live", "gone"}

TypeOK ==
  /\ version \in [Runs -> 0 .. ops]
  /\ order \in Seq(Runs) /\ Len(order) <= MaxHistory
  /\ op \in [Threads -> Emission]
  /\ ops \in 0 .. MaxOps
  /\ ready \in Seq(Callback)
  /\ casts \subseteq Cast
  /\ clients \subseteq Sockets
  /\ sock \in [Sockets -> Handler]
  /\ lost \in [Sockets -> BOOLEAN]
  /\ snap \in [to : SUBSET Runs, of : Content]
  /\ table \in [Sockets -> [Runs -> {Stub} \cup 0 .. MaxOps]]
  /\ sent \in [Sockets -> [Runs -> 0 .. MaxOps]]
  /\ raced \subseteq Runs

Init ==
  /\ version = [r \in Runs |-> IF r = First THEN 1 ELSE 0]
  /\ order = <<First>>
  /\ op = [t \in Threads |-> NoOp]
  /\ ops = 1
  /\ ready = <<>>
  /\ casts = {}
  /\ clients = {}
  /\ sock = [s \in Sockets |-> "new"]
  /\ lost = [s \in Sockets |-> FALSE]
  /\ snap = NoSnap
  /\ table = [s \in Sockets |-> Nothing]
  /\ sent = [s \in Sockets |-> Nothing]
  /\ raced = {}

InHistory(r) == \E i \in DOMAIN order : order[i] = r

\* Between two awaits of the code it executes, the loop does nothing else.
LoopIsFree ==
  /\ op[Loop] = NoOp
  /\ \A s \in Sockets : sock[s] # "snapshot"

-----------------------------------------------------------------------------
(***************************************************************************)
(* The registry.                                                           *)
(***************************************************************************)
MayAct(t) ==
  /\ op[t] = NoOp
  /\ t = Loop => LoopIsFree
  /\ ops < MaxOps

Begin(t, kind, R) ==
  /\ op' = [op EXCEPT ![t] = [kind |-> kind, to |-> R, of |-> NoRuns]]
  /\ ops' = ops + 1

Entry(t, ev) == [hop |-> t # Loop, ev |-> ev]
LogEvent(r) == [kind |-> "log", of |-> [x \in {r} |-> 0]]

\* create_task, in the handler of execute_agent or of retry_task: the record,
\* its place in the history, from which the oldest run may drop out, the log
\* line, and then the event.  Nobody else knows the run before its log line.
CreateTask(r) ==
  /\ MayAct(Loop)
  /\ version[r] = 0
  /\ version' = [version EXCEPT ![r] = 1]
  /\ order' = SubSeq(<<r>> \o order, 1,
                     IF Len(order) < MaxHistory THEN Len(order) + 1
                     ELSE MaxHistory)
  /\ ready' = Append(ready, Entry(Loop, LogEvent(r)))
  /\ Begin(Loop, "task", {r})
  /\ UNCHANGED <<casts, clients, raced, socketVars>>

\* Mutant of UpdateTask: the event is made before the fields are assigned.
UpdateTaskReadFirst(t, r) ==
  /\ MayAct(t)
  /\ version[r] > 0
  /\ version' = [version EXCEPT ![r] = @ + 1]
  /\ op' = [op EXCEPT ![t] = [kind |-> "task", to |-> {},
                              of |-> [x \in {r} |-> version[r]]]]
  /\ ops' = ops + 1
  /\ UNCHANGED <<order, hubVars, socketVars>>

\* update_task, cancel, mark_*: fields are assigned, then the record is read.
UpdateTask(t, r) ==
  /\ MayAct(t)
  /\ version[r] > 0
  /\ version' = [version EXCEPT ![r] = @ + 1]
  /\ Begin(t, "task", {r})
  /\ UNCHANGED <<order, hubVars, socketVars>>

\* An event without a write: task_finished and task_cancelled after the
\* update, callback_updated after its log line, queue_updated for the runs
\* that are in queues.
Announce(t, kind, R) ==
  /\ MayAct(t)
  /\ \A r \in R : version[r] > 0
  /\ Begin(t, kind, R)
  /\ UNCHANGED <<registryVars, hubVars, socketVars>>

\* append_log.
AppendLog(t, r) ==
  /\ MayAct(t)
  /\ version[r] > 0
  /\ ready' = Append(ready, Entry(t, LogEvent(r)))
  /\ ops' = ops + 1
  /\ UNCHANGED <<registryVars, op, casts, clients, raced, socketVars>>

\* to_public or _item_from_record, one record after the other.
ReadRecord(t, r) ==
  /\ r \in op[t].to
  /\ op' = [op EXCEPT ![t] = [kind |-> @.kind, to |-> @.to \ {r},
                             of |-> Put(@.of, r, version[r])]]
  /\ UNCHANGED <<registryVars, ops, hubVars, socketVars>>

\* broadcast_sync.  The event is stale if its record changed since it was
\* read, and an event of the loop passes those of workers that still hop.
Emit(t) ==
  LET ev == [kind |-> op[t].kind, of |-> op[t].of]
      Stale(r) == version[r] # ev.of[r]
      Passes(r) == /\ t = Loop
                   /\ \E i \in DOMAIN ready :
                        ready[i].hop /\ r \in DOMAIN ready[i].ev.of
  IN /\ op[t] # NoOp
     /\ op[t].to = {}
     /\ ready' = Append(ready, Entry(t, ev))
     /\ op' = [op EXCEPT ![t] = NoOp]
     /\ raced' = raced \cup {r \in DOMAIN ev.of : Stale(r) \/ Passes(r)}
     /\ UNCHANGED <<registryVars, ops, casts, clients, socketVars>>

-----------------------------------------------------------------------------
(***************************************************************************)
(* The hub.                                                                *)
(***************************************************************************)
\* Mutant of Shown: mergeTask lets the existing task win.
ShownFirst(tasks, m) ==
  [r \in Runs |->
    IF tasks[r] > 0 /\ m.kind # "snapshot" THEN tasks[r]
    ELSE IF r \notin DOMAIN m.of THEN 0
    ELSE IF m.kind = "log" THEN Stub
    ELSE IF m.kind = "queues" /\ tasks[r] = 0 THEN 0
    ELSE m.of[r]]

\* handleWsMessage: a snapshot replaces the table, an event about a task is
\* merged over it, the queues only touch tasks the client knows, and a log
\* line of a run it does not know makes up a running task.
\* A queue's item has the run's status and position only.  Here it carries the
\* state, since whatever else a write changes is in a task event of its own.
Shown(tasks, m) ==
  [r \in Runs |->
    IF r \notin DOMAIN m.of THEN IF m.kind = "snapshot" THEN 0 ELSE tasks[r]
    ELSE IF m.kind = "log" THEN IF tasks[r] = 0 THEN Stub ELSE tasks[r]
    ELSE IF m.kind = "queues" /\ tasks[r] = 0 THEN 0
    ELSE m.of[r]]

Newer(old, of) ==
  [r \in Runs |-> IF r \in DOMAIN of /\ of[r] > old[r] THEN of[r] ELSE old[r]]

\* send_text.  A connection keeps the order and loses nothing until it breaks,
\* so that the client's table can be changed at once.
Send(s, m) ==
  IF lost[s] THEN UNCHANGED <<table, sent>>
  ELSE /\ table' = [table EXCEPT ![s] = Shown(@, m)]
       /\ sent' = [sent EXCEPT ![s] = Newer(@, m.of)]

\* The callback of run_coroutine_threadsafe creates the task.
Hop ==
  /\ LoopIsFree
  /\ ready # <<>> /\ Head(ready).hop
  /\ ready' = Append(Tail(ready), [hop |-> FALSE, ev |-> Head(ready).ev])
  /\ UNCHANGED <<registryVars, threadVars, casts, clients, raced, socketVars>>

\* Mutant of SendNext: no try around the send, an error ends the broadcast.
SendNextUnguarded(c, others) ==
  \E s \in c.left, raises \in BOOLEAN :
    LET left == IF raises THEN {} ELSE c.left \ {s}
    IN /\ raises => lost[s]
       /\ Send(s, c.ev)
       /\ casts' = IF left = {} THEN others
                   ELSE others \cup {[c EXCEPT !.left = left]}
       /\ UNCHANGED clients

\* Mutant of SendNext: an error drops the clients still to be served as well.
SendNextDropsRest(c, others) ==
  \E s \in c.left, raises \in BOOLEAN :
    LET left == IF raises THEN {} ELSE c.left \ {s}
        dead == IF raises THEN c.dead \cup c.left ELSE c.dead
    IN /\ raises => lost[s]
       /\ Send(s, c.ev)
       /\ casts' = IF left = {} THEN others
                   ELSE others \cup {[c EXCEPT !.left = left, !.dead = dead]}
       /\ clients' = IF left = {} THEN clients \ dead ELSE clients

\* One send of a broadcast c, which may raise on a broken connection.  After
\* the last one the clients that raised are dropped.
SendNext(c, others) ==
  \E s \in c.left, raises \in BOOLEAN :
    LET left == c.left \ {s}
        dead == IF raises THEN c.dead \cup {s} ELSE c.dead
    IN /\ raises => lost[s]
       /\ Send(s, c.ev)
       /\ casts' = IF left = {} THEN others
                   ELSE others \cup {[c EXCEPT !.left = left, !.dead = dead]}
       /\ clients' = IF left = {} THEN clients \ dead ELSE clients

\* The first step of the task: a copy of the clients, and the first send.  A
\* broadcast that still awaits a slow client may be overtaken.
StartBroadcast ==
  /\ LoopIsFree
  /\ ready # <<>> /\ ~Head(ready).hop
  /\ LET ev == Head(ready).ev
         Overtakes(r) == \E c \in casts : r \in DOMAIN c.ev.of
     IN /\ ready' = Tail(ready)
        /\ IF clients = {}
           THEN UNCHANGED <<casts, clients, table, sent, raced>>
           ELSE /\ SendNext([ev |-> ev, left |-> clients, dead |-> {}], casts)
                /\ raced' = raced \cup {r \in DOMAIN ev.of : Overtakes(r)}
  /\ UNCHANGED <<registryVars, threadVars, sock, lost, snap>>

\* The client before took the message: the next one.
ContinueBroadcast ==
  /\ LoopIsFree
  /\ \E c \in casts : SendNext(c, casts \ {c})
  /\ UNCHANGED <<registryVars, threadVars, ready, raced, sock, lost, snap>>

-----------------------------------------------------------------------------
(***************************************************************************)
(* dashboard_websocket.                                                    *)
(***************************************************************************)
\* No first message, no authentication, a wrong key, or not a local client.
Refuse(s) ==
  /\ LoopIsFree
  /\ sock[s] = "new"
  /\ sock' = [sock EXCEPT ![s] = "gone"]
  /\ UNCHANGED <<registryVars, threadVars, hubVars, lost, snap, table, sent>>

\* hub.register, then get_snapshot, which copies the order first.
Register(s) ==
  /\ LoopIsFree
  /\ sock[s] = "new"
  /\ sock' = [sock EXCEPT ![s] = "snapshot"]
  /\ clients' = clients \cup {s}
  /\ snap' = [to |-> {r \in Runs : InHistory(r)}, of |-> NoRuns]
  /\ UNCHANGED <<registryVars, threadVars, ready, casts, raced, lost, table,
                 sent>>

ReadSnapshot(r) ==
  /\ r \in snap.to
  /\ snap' = [to |-> snap.to \ {r}, of |-> Put(snap.of, r, version[r])]
  /\ UNCHANGED <<registryVars, threadVars, hubVars, sock, lost, table, sent>>

\* Sending on a broken connection raises, or the handler hears of it later.
SendSnapshot(s) ==
  /\ sock[s] = "snapshot" /\ snap.to = {}
  /\ Send(s, [kind |-> "snapshot", of |-> snap.of])
  /\ sock' = [sock EXCEPT ![s] = "greeting"]
  /\ snap' = NoSnap
  /\ UNCHANGED <<registryVars, threadVars, hubVars, lost>>

\* auth_ok; from then on the handler answers pings.
Greet(s) ==
  /\ LoopIsFree
  /\ sock[s] = "greeting" /\ ~lost[s]
  /\ sock' = [sock EXCEPT ![s] = "live"]
  /\ UNCHANGED <<registryVars, threadVars, hubVars, lost, snap, table, sent>>

\* WebSocketDisconnect, or a send that raises: the finally block.
Disconnect(s) ==
  /\ LoopIsFree
  /\ sock[s] \in {"greeting", "live"} /\ lost[s]
  /\ sock' = [sock EXCEPT ![s] = "gone"]
  /\ clients' = clients \ {s}
  /\ UNCHANGED <<registryVars, threadVars, ready, casts, raced, lost, snap,
                 table, sent>>

-----------------------------------------------------------------------------
(***************************************************************************)
(* The network and the client.                                             *)
(***************************************************************************)
\* The connection breaks, or the page is left; what is on its way is lost.
\* A page that reconnects does so as another client, with an empty table.
Lose(s) ==
  /\ sock[s] \notin {"new", "gone"} /\ ~lost[s]
  /\ lost' = [lost EXCEPT ![s] = TRUE]
  /\ table' = [table EXCEPT ![s] = Nothing]
  /\ sent' = [sent EXCEPT ![s] = Nothing]
  /\ UNCHANGED <<registryVars, threadVars, hubVars, sock, snap>>

-----------------------------------------------------------------------------
ThreadStep(t) == (\E r \in Runs : ReadRecord(t, r)) \/ Emit(t)
HubStep == Hop \/ StartBroadcast \/ ContinueBroadcast
HandlerStep(s) ==
  \/ (\E r \in Runs : ReadSnapshot(r))
  \/ SendSnapshot(s)
  \/ Greet(s)
  \/ Disconnect(s)

Next ==
  \/ \E r \in Runs : CreateTask(r)
  \/ \E t \in Threads, r \in Runs : UpdateTask(t, r) \/ AppendLog(t, r)
  \/ \E t \in Threads, r \in Runs : Announce(t, "task", {r})
  \/ \E t \in Threads, R \in SUBSET Runs \ {{}} : Announce(t, "queues", R)
  \/ \E t \in Threads : ThreadStep(t)
  \/ HubStep
  \/ \E s \in Sockets : \/ Refuse(s)
                        \/ Register(s)
                        \/ HandlerStep(s)
                        \/ Lose(s)

Spec == Init /\ [][Next]_vars

\* An operation that has begun goes on, the loop executes what is ready,
\* handlers answer, and a browser handles its messages.  Nobody has to write,
\* to connect, or to stay.
FairSpec ==
  /\ Spec
  /\ \A t \in Threads : WF_vars(ThreadStep(t))
  /\ WF_vars(HubStep)
  /\ \A s \in Sockets : WF_vars(HandlerStep(s))

-----------------------------------------------------------------------------
(***************************************************************************)
(* Properties.                                                             *)
(***************************************************************************)
\* An event or the snapshot that a client has not been sent yet, and that
\* says version v of run r.
ToBeEmitted(r, v) ==
  \E t \in Threads : \/ r \in op[t].to
                     \/ r \in DOMAIN op[t].of /\ op[t].of[r] = v
Says(ev, r, v) == /\ ev.kind \in {"task", "queues"}
                  /\ r \in DOMAIN ev.of
                  /\ ev.of[r] = v
Scheduled(r, v) == \E i \in DOMAIN ready : Says(ready[i].ev, r, v)
BeingSent(s, r, v) == \E c \in casts : s \in c.left /\ Says(c.ev, r, v)
InSnapshot(s, r, v) ==
  /\ sock[s] = "snapshot"
  /\ r \in snap.to \/ (r \in DOMAIN snap.of /\ snap.of[r] = v)

\* The latest state of r has yet to be sent on s, and is on its way.
Coming(s, r) == \/ ToBeEmitted(r, version[r])
                \/ Scheduled(r, version[r])
                \/ BeingSent(s, r, version[r])
                \/ InSnapshot(s, r, version[r])

Connected(s) == sock[s] \in {"snapshot", "greeting", "live"} /\ ~lost[s]

\* However a client's registration, the threads that write and read records,
\* and the broadcasts interleave, no client misses the latest state of a run
\* of the history: it has been sent to it, or it is on its way.
NothingMissed ==
  \A s \in Sockets, r \in Runs :
    Connected(s) /\ InHistory(r) => sent[s][r] = version[r] \/ Coming(s, r)

\* What NothingMissed rests on: an idle thread carries nothing; events, what
\* they are read from and what was sent are no newer than the records; there
\* is one snapshot at a time; a client is dropped only when its connection is
\* broken.
IdleIsEmpty == \A t \in Threads : op[t].kind = "none" => op[t] = NoOp
NoNewer(of) == \A r \in DOMAIN of : of[r] <= version[r]
NothingNewer ==
  /\ \A t \in Threads : NoNewer(op[t].of)
  /\ \A i \in DOMAIN ready : NoNewer(ready[i].ev.of)
  /\ \A c \in casts : NoNewer(c.ev.of)
  /\ NoNewer(snap.of)
  /\ \A s \in Sockets : NoNewer(sent[s])
OneSnapshot ==
  \A s, s2 \in Sockets :
    sock[s] = "snapshot" /\ sock[s2] = "snapshot" => s = s2
ConnectedAreClients == \A s \in Sockets : Connected(s) => s \in clients
DeadAreLost == \A c \in casts : \A s \in c.dead : lost[s]

FeedInv ==
  /\ TypeOK
  /\ IdleIsEmpty
  /\ NothingNewer
  /\ OneSnapshot
  /\ ConnectedAreClients
  /\ DeadAreLost
  /\ NothingMissed

\* Whether something about run r is still on its way to the client of s.
OnItsWay(s, r) ==
  \/ \E t \in Threads : r \in op[t].to \cup DOMAIN op[t].of
  \/ \E i \in DOMAIN ready : r \in DOMAIN ready[i].ev.of
  \/ \E c \in casts : s \in c.left /\ r \in DOMAIN c.ev.of

\* There are just three ways for a dashboard to go on showing an old state of
\* a run: a thread emitted what another had already written over, an event of
\* the loop passed one of a worker, or a broadcast passed another one at a slow
\* client.  A run none of this happened to is shown as it is once nothing
\* about it is on its way, whatever else happens and whenever the client came.
QuietIsRight ==
  \A s \in Sockets, r \in Runs :
    /\ Connected(s) /\ sock[s] # "snapshot"
    /\ InHistory(r) /\ r \notin raced
    /\ ~OnItsWay(s, r)
    => table[s][r] = version[r]

\* What QuietIsRight rests on.  Whatever is in the history, or is said, is a
\* run that exists; only the first message of a connection is a snapshot.
SaysKnown(ev) ==
  /\ ev.kind # "snapshot"
  /\ \A r \in DOMAIN ev.of :
       version[r] > 0 /\ (ev.kind # "log" => ev.of[r] > 0)
OnlyKnown ==
  /\ \A r \in Runs : InHistory(r) => version[r] > 0
  /\ \A t \in Threads : /\ \A r \in op[t].to : version[r] > 0
                        /\ \A r \in DOMAIN op[t].of : op[t].of[r] > 0
  /\ \A i \in DOMAIN ready : SaysKnown(ready[i].ev)
  /\ \A c \in casts : SaysKnown(c.ev)
  /\ \A r \in snap.to : version[r] > 0
  /\ \A r \in DOMAIN snap.of : snap.of[r] > 0

\* A connection that has not come is in no copy of the clients.
NewUnserved ==
  \A s \in Sockets :
    sock[s] = "new" => s \notin clients /\ \A c \in casts : s \notin c.left

\* A snapshot that is read covers the history.
SnapCovers ==
  \A s \in Sockets, r \in Runs :
    sock[s] = "snapshot" /\ InHistory(r) => r \in snap.to \cup DOMAIN snap.of

\* Broadcasts about one run follow one another, or it has raced.
OneCast ==
  \A c, d \in casts : \A r \in DOMAIN c.ev.of \cap DOMAIN d.ev.of :
    r \in raced \/ c = d

\* A run a client does not know yet is made known by its first log line,
\* before a queue_updated that would pass it over.
Settled(s, r) == Connected(s) /\ InHistory(r) /\ r \notin raced
LogQueued(q, r) ==
  \E i \in DOMAIN q : /\ ~q[i].hop /\ q[i].ev = LogEvent(r)
                      /\ \A j \in 1 .. i - 1 : r \notin DOMAIN q[j].ev.of
LogAhead(s, r) ==
  \/ LogQueued(ready, r) /\ \A c \in casts : r \notin DOMAIN c.ev.of
  \/ \E c \in casts : s \in c.left /\ c.ev = LogEvent(r)
MadeKnown ==
  \A s \in Sockets, r \in Runs :
    Settled(s, r) /\ sock[s] # "snapshot" /\ table[s][r] = 0
    => LogAhead(s, r)

\* The last callback of queue q that tells of r says its version v.  Those
\* that still hop are broadcast after those that do not.
Tells(ev, r) == ev.kind \in {"task", "queues"} /\ r \in DOMAIN ev.of
Telling(q, hop, r) == {i \in DOMAIN q : q[i].hop = hop /\ Tells(q[i].ev, r)}
LastSays(q, hop, r, v) ==
  \E i \in Telling(q, hop, r) :
    q[i].ev.of[r] = v /\ \A j \in Telling(q, hop, r) : j <= i
QueueSays(q, r, v) ==
  \/ LastSays(q, TRUE, r, v)
  \/ Telling(q, TRUE, r) = {} /\ LastSays(q, FALSE, r, v)
Silent(q, r) == \A hop \in BOOLEAN : Telling(q, hop, r) = {}

\* A thread has something to emit about r, or the last that is scheduled
\* about r is its latest state, or nothing is scheduled.
Pending(r) == \E t \in Threads : r \in op[t].to \cup DOMAIN op[t].of
LastIsLatest ==
  \A r \in Runs : \/ r \in raced
                  \/ Pending(r)
                  \/ QueueSays(ready, r, version[r])
                  \/ Silent(ready, r)

\* In the last case it is what is being sent, or the client shows it, or will
\* when it has the snapshot.
Sending(s, r) == {c \in casts : s \in c.left /\ Tells(c.ev, r)}
Shows(s, r) ==
  IF sock[s] = "snapshot"
  THEN r \in snap.to \/ (r \in DOMAIN snap.of /\ snap.of[r] = version[r])
  ELSE table[s][r] = version[r]
SentOrShown(s, r) ==
  /\ \A c \in Sending(s, r) : c.ev.of[r] = version[r]
  /\ Sending(s, r) = {} => Shows(s, r)
ThenShown ==
  \A s \in Sockets, r \in Runs :
    Settled(s, r) /\ ~Pending(r) /\ Silent(ready, r) => SentOrShown(s, r)

QuietInv ==
  /\ FeedInv
  /\ OnlyKnown
  /\ NewUnserved
  /\ SnapCovers
  /\ OneCast
  /\ MadeKnown
  /\ LastIsLatest
  /\ ThenShown

\* A client that stays connected gets to show every run of the history as it
\* is, unless its events raced; in particular no broadcast waits for ever.
Converges ==
  \A s \in Sockets, r \in Runs :
    <>[](\/ ~Connected(s) \/ ~InHistory(r) \/ r \in raced
         \/ table[s][r] = version[r])
=============================================================================
