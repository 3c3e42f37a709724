------------------------ MODULE DashboardFeedProofs ------------------------
(***************************************************************************)
(* Proof that no client misses the latest state of a run, and that a run   *)
(* whose events did not race is shown as it is.  FeedInv is inductive: the *)
(* type invariant and the parts that describe one variable come first,     *)
(* then NothingMissed, which is preserved from each of the places where    *)
(* the latest version can be to the next one.  QuietInv follows a run in   *)
(* the order of its events: its log line makes it known, what is said last *)
(* is its latest state, and what is said last is what a client shows.      *)
(***************************************************************************)
EXTENDS DashboardFeed, TLAPS

\* Reading one more record keeps the content of an event well-formed.
LEMMA PutType ==
  ASSUME NEW f \in Content, NEW r \in Runs, NEW v \in 0 .. MaxOps
  PROVE  /\ Put(f, r, v) \in Content
         /\ DOMAIN Put(f, r, v) = DOMAIN f \cup {r}
         /\ Put(f, r, v)[r] = v
         /\ \A x \in DOMAIN f \ {r} : Put(f, r, v)[x] = f[x]
<1>1. PICK R \in SUBSET Runs : f \in [R -> 0 .. MaxOps]
  BY DEF Content
<1>2. Put(f, r, v) \in [R \cup {r} -> 0 .. MaxOps]
  BY <1>1 DEF Put
<1>3. Put(f, r, v) \in Content
  BY <1>2 DEF Content
<1>4. QED
  BY <1>1, <1>3 DEF Put

\* What a constant content and an empty one are.
LEMMA ContentType ==
  /\ NoRuns \in Content
  /\ DOMAIN NoRuns = {}
  /\ \A r \in Runs : [x \in {r} |-> 0] \in Content
  /\ \A f \in Content : DOMAIN f \subseteq Runs
  /\ \A f \in Content : \A r \in DOMAIN f : f[r] \in 0 .. MaxOps
<1>1. NoRuns \in [{} -> 0 .. MaxOps] /\ {} \in SUBSET Runs
  BY DEF NoRuns
<1>2. NoRuns \in Content /\ DOMAIN NoRuns = {}
  <2>1. NoRuns \in Content
    BY <1>1 DEF Content
  <2> QED
    BY <2>1 DEF NoRuns
<1>3. ASSUME NEW r \in Runs
      PROVE  [x \in {r} |-> 0] \in Content
  <2>1. [x \in {r} |-> 0] \in [{r} -> 0 .. MaxOps] /\ {r} \in SUBSET Runs
    BY BoundsType
  <2> QED
    BY <2>1 DEF Content
<1>4. ASSUME NEW f \in Content
      PROVE  /\ DOMAIN f \subseteq Runs
             /\ \A r \in DOMAIN f : f[r] \in 0 .. MaxOps
  <2>1. PICK R \in SUBSET Runs : f \in [R -> 0 .. MaxOps]
    BY DEF Content
  <2> QED
    BY <2>1
<1>5. QED
  BY <1>2, <1>3, <1>4

\* The history after a new run: it and the runs that did not drop out.
LEMMA OrderType ==
  ASSUME NEW o \in Seq(Runs), Len(o) <= MaxHistory, NEW r \in Runs,
         NEW n, n = IF Len(o) < MaxHistory THEN Len(o) + 1 ELSE MaxHistory
  PROVE  /\ SubSeq(<<r>> \o o, 1, n) \in Seq(Runs)
         /\ Len(SubSeq(<<r>> \o o, 1, n)) <= MaxHistory
         /\ \A i \in DOMAIN SubSeq(<<r>> \o o, 1, n) :
              \/ SubSeq(<<r>> \o o, 1, n)[i] = r
              \/ \E j \in DOMAIN o : SubSeq(<<r>> \o o, 1, n)[i] = o[j]
<1>1. n \in 1 .. Len(o) + 1 /\ n <= MaxHistory
  BY BoundsType
<1>2. <<r>> \o o \in Seq(Runs) /\ Len(<<r>> \o o) = Len(o) + 1
  OBVIOUS
<1>3. \A i \in 1 .. Len(o) + 1 :
        (<<r>> \o o)[i] = IF i = 1 THEN r ELSE o[i - 1]
  OBVIOUS
<1>4. /\ SubSeq(<<r>> \o o, 1, n) \in Seq(Runs)
      /\ Len(SubSeq(<<r>> \o o, 1, n)) = n
  BY <1>1, <1>2
<1>5. ASSUME NEW i \in 1 .. n
      PROVE  SubSeq(<<r>> \o o, 1, n)[i] = IF i = 1 THEN r ELSE o[i - 1]
  BY <1>1, <1>2, <1>3
<1>6. \A i \in 1 .. n : i = 1 \/ i - 1 \in DOMAIN o
  BY <1>1
<1>7. QED
  BY <1>1, <1>4, <1>5, <1>6

\* Newer keeps the larger of what was sent and what is sent now.
LEMMA NewerType ==
  ASSUME NEW old \in [Runs -> 0 .. MaxOps], NEW of \in Content
  PROVE  /\ Newer(old, of) \in [Runs -> 0 .. MaxOps]
         /\ \A r \in Runs : \/ Newer(old, of)[r] = old[r]
                            \/ r \in DOMAIN of /\ Newer(old, of)[r] = of[r]
         /\ \A r \in Runs : Newer(old, of)[r] >= old[r]
         /\ \A r \in Runs : r \in DOMAIN of => Newer(old, of)[r] >= of[r]
BY ContentType, BoundsType DEF Newer

\* What the client shows are versions it was told, nothing, or a stub.
LEMMA ShownType ==
  ASSUME NEW tasks \in [Runs -> {Stub} \cup 0 .. MaxOps], NEW m \in Event
  PROVE  Shown(tasks, m) \in [Runs -> {Stub} \cup 0 .. MaxOps]
<1>1. /\ m.of \in Content
      /\ \A r \in DOMAIN m.of : m.of[r] \in 0 .. MaxOps
  BY ContentType DEF Event
<1>2. QED
  BY <1>1, BoundsType DEF Shown

-----------------------------------------------------------------------------
\* The next-state relation, one disjunct per action.
LEMMA NextCases ==
  ASSUME TypeOK, Next
  PROVE
    \/ (\E r \in Runs : CreateTask(r))
    \/ (\E t \in Threads, r \in Runs : UpdateTask(t, r))
    \/ (\E t \in Threads, r \in Runs : AppendLog(t, r))
    \/ (\E t \in Threads, kind \in {"task", "queues"}, R \in SUBSET Runs :
          Announce(t, kind, R))
    \/ (\E t \in Threads, r \in Runs : ReadRecord(t, r))
    \/ (\E t \in Threads : Emit(t))
    \/ Hop
    \/ StartBroadcast
    \/ ContinueBroadcast
    \/ (\E s \in Sockets : Refuse(s))
    \/ (\E s \in Sockets : Register(s))
    \/ (\E r \in Runs : ReadSnapshot(r))
    \/ (\E s \in Sockets : SendSnapshot(s))
    \/ (\E s \in Sockets : Greet(s))
    \/ (\E s \in Sockets : Disconnect(s))
    \/ (\E s \in Sockets : Lose(s))
<1>1. \A r \in Runs : {r} \in SUBSET Runs
  OBVIOUS
<1> QED
  BY <1>1 DEF Next, ThreadStep, HubStep, HandlerStep

-----------------------------------------------------------------------------
(* One lemma per part of FeedInv, with a step per action.                  *)
\* What a send leaves of the client's table and of the history of sends.
LEMMA SendType ==
  ASSUME TypeOK, NEW s \in Sockets, NEW m \in Event, Send(s, m)
  PROVE  /\ table' \in [Sockets -> [Runs -> {Stub} \cup 0 .. MaxOps]]
         /\ sent' \in [Sockets -> [Runs -> 0 .. MaxOps]]
         /\ \A x \in Sockets \ {s} : sent'[x] = sent[x]
         /\ lost[s] => sent'[s] = sent[s]
         /\ ~lost[s] => sent'[s] = Newer(sent[s], m.of)
<1>1. CASE lost[s]
  BY <1>1 DEF Send, TypeOK
<1>2. CASE ~lost[s]
  <2>1. Shown(table[s], m) \in [Runs -> {Stub} \cup 0 .. MaxOps]
    BY ShownType DEF TypeOK
  <2>2. m.of \in Content
    BY DEF Event
  <2>3. Newer(sent[s], m.of) \in [Runs -> 0 .. MaxOps]
    BY <2>2, NewerType DEF TypeOK
  <2> QED
    BY <1>2, <2>1, <2>3 DEF Send, TypeOK
<1> QED
  BY <1>1, <1>2

\* What one send of a broadcast leaves.
LEMMA SendNextType ==
  ASSUME TypeOK, NEW c \in Cast, NEW others \in SUBSET Cast,
         SendNext(c, others)
  PROVE  /\ casts' \subseteq Cast
         /\ clients' \subseteq Sockets
         /\ table' \in [Sockets -> [Runs -> {Stub} \cup 0 .. MaxOps]]
         /\ sent' \in [Sockets -> [Runs -> 0 .. MaxOps]]
<1>1. PICK s \in c.left, raises \in BOOLEAN :
        /\ Send(s, c.ev)
        /\ \/ casts' = others
           \/ \E dead \in {c.dead, c.dead \cup {s}} :
                casts' = others \cup
                           {[c EXCEPT !.left = c.left \ {s}, !.dead = dead]}
        /\ clients' \subseteq clients
  BY DEF SendNext
<1>2. s \in Sockets /\ c.ev \in Event
  BY DEF Cast
<1>3. /\ table' \in [Sockets -> [Runs -> {Stub} \cup 0 .. MaxOps]]
      /\ sent' \in [Sockets -> [Runs -> 0 .. MaxOps]]
  BY <1>1, <1>2, SendType
<1>4. \A dead \in {c.dead, c.dead \cup {s}} :
        [c EXCEPT !.left = c.left \ {s}, !.dead = dead] \in Cast
  BY <1>2 DEF Cast
<1> QED
  BY <1>1, <1>3, <1>4 DEF TypeOK

\* No step leaves the types.
LEMMA TypeOKKept ==
  ASSUME FeedInv, Next
  PROVE  TypeOK'
<1> USE BoundsType, LoopIsNoWorker DEF FeedInv, TypeOK, registryVars,
    threadVars, hubVars, socketVars, Threads
<1>1. ASSUME NEW r \in Runs,
             CreateTask(r)
      PROVE  TypeOK'
  <2>1. LogEvent(r) \in Event
    BY ContentType DEF LogEvent, Event, Kind
  <2>2. Entry(Loop, LogEvent(r)) \in Callback
    BY <2>1 DEF Entry, Callback
  <2>3. /\ order' \in Seq(Runs) /\ Len(order') <= MaxHistory
    BY OrderType, <1>1 DEF CreateTask
  <2> QED
    BY <1>1, <2>2, <2>3, ContentType DEF CreateTask, Begin, MayAct, Emission
<1>2. ASSUME NEW t \in Threads, NEW r \in Runs,
             UpdateTask(t, r)
      PROVE  TypeOK'
  BY <1>2, ContentType DEF UpdateTask, Begin, MayAct, Emission
<1>3. ASSUME NEW t \in Threads, NEW r \in Runs,
             AppendLog(t, r)
      PROVE  TypeOK'
  <2>1. LogEvent(r) \in Event
    BY ContentType DEF LogEvent, Event, Kind
  <2>2. Entry(t, LogEvent(r)) \in Callback
    BY <2>1 DEF Entry, Callback
  <2> QED
    BY <1>3, <2>2 DEF AppendLog, MayAct
<1>4. ASSUME NEW t \in Threads, NEW kind \in {"task", "queues"},
             NEW R \in SUBSET Runs,
             Announce(t, kind, R)
      PROVE  TypeOK'
  BY <1>4, ContentType DEF Announce, Begin, MayAct, Emission
<1>5. ASSUME NEW t \in Threads, NEW r \in Runs,
             ReadRecord(t, r)
      PROVE  TypeOK'
  <2>1. op[t].of \in Content /\ version[r] \in 0 .. MaxOps
    BY DEF Emission
  <2>2. Put(op[t].of, r, version[r]) \in Content
    BY <2>1, PutType
  <2> QED
    BY <1>5, <2>2 DEF ReadRecord, Emission
<1>6. ASSUME NEW t \in Threads,
             Emit(t)
      PROVE  TypeOK'
  <2> DEFINE ev == [kind |-> op[t].kind, of |-> op[t].of]
  <2>1. op[t].kind \in {"task", "queues"}
    BY <1>6 DEF Emit, IdleIsEmpty, Emission
  <2>2. ev \in Event /\ DOMAIN ev.of \subseteq Runs
    BY <2>1, ContentType DEF Event, Kind, Emission
  <2>3. Entry(t, ev) \in Callback
    BY <2>2 DEF Entry, Callback
  <2>4. NoOp \in Emission
    BY ContentType DEF NoOp, Emission
  <2>5. ready' \in Seq(Callback) /\ op' \in [Threads -> Emission]
    BY <1>6, <2>3, <2>4 DEF Emit
  <2>6. raced' \subseteq Runs
    BY <1>6, <2>2 DEF Emit
  <2> QED
    BY <1>6, <2>5, <2>6 DEF Emit
<1>7. ASSUME Hop
      PROVE  TypeOK'
  <2>1. Head(ready) \in Callback /\ Tail(ready) \in Seq(Callback)
    BY <1>7 DEF Hop
  <2>2. [hop |-> FALSE, ev |-> Head(ready).ev] \in Callback
    BY <2>1 DEF Callback
  <2> QED
    BY <1>7, <2>1, <2>2 DEF Hop
<1>8. ASSUME StartBroadcast
      PROVE  TypeOK'
  <2>1. Head(ready) \in Callback /\ Tail(ready) \in Seq(Callback)
    BY <1>8 DEF StartBroadcast
  <2>2. /\ Head(ready).ev \in Event
        /\ DOMAIN Head(ready).ev.of \subseteq Runs
    BY <2>1, ContentType DEF Callback, Event
  <2>3. [ev |-> Head(ready).ev, left |-> clients, dead |-> {}] \in Cast
    BY <2>2 DEF Cast
  <2>4. CASE clients = {}
    BY <1>8, <2>1, <2>4 DEF StartBroadcast
  <2>5. CASE clients # {}
    <3>1. /\ casts' \subseteq Cast
          /\ clients' \subseteq Sockets
          /\ table' \in [Sockets -> [Runs -> {Stub} \cup 0 .. MaxOps]]
          /\ sent' \in [Sockets -> [Runs -> 0 .. MaxOps]]
      BY <1>8, <2>3, <2>5, SendNextType DEF StartBroadcast
    <3>2. raced' \subseteq Runs
      BY <1>8, <2>2, <2>5 DEF StartBroadcast
    <3> QED
      BY <1>8, <2>1, <3>1, <3>2 DEF StartBroadcast
  <2> QED
    BY <2>4, <2>5
<1>9. ASSUME ContinueBroadcast
      PROVE  TypeOK'
  <2>1. PICK c \in casts : SendNext(c, casts \ {c})
    BY <1>9 DEF ContinueBroadcast
  <2>2. /\ casts' \subseteq Cast
        /\ clients' \subseteq Sockets
        /\ table' \in [Sockets -> [Runs -> {Stub} \cup 0 .. MaxOps]]
        /\ sent' \in [Sockets -> [Runs -> 0 .. MaxOps]]
    BY <2>1, SendNextType
  <2> QED
    BY <1>9, <2>2 DEF ContinueBroadcast
<1>10. ASSUME NEW s \in Sockets,
             Refuse(s)
      PROVE  TypeOK'
  BY <1>10 DEF Refuse, Handler
<1>11. ASSUME NEW s \in Sockets,
             Register(s)
      PROVE  TypeOK'
  BY <1>11, ContentType DEF Register, Handler
<1>12. ASSUME NEW r \in Runs,
             ReadSnapshot(r)
      PROVE  TypeOK'
  <2>1. version[r] \in 0 .. MaxOps
    OBVIOUS
  <2>2. Put(snap.of, r, version[r]) \in Content
    BY <2>1, PutType
  <2> QED
    BY <1>12, <2>2 DEF ReadSnapshot
<1>13. ASSUME NEW s \in Sockets,
             SendSnapshot(s)
      PROVE  TypeOK'
  <2>1. [kind |-> "snapshot", of |-> snap.of] \in Event
    BY DEF Event, Kind
  <2>2. /\ table' \in [Sockets -> [Runs -> {Stub} \cup 0 .. MaxOps]]
        /\ sent' \in [Sockets -> [Runs -> 0 .. MaxOps]]
    BY <1>13, <2>1, SendType DEF SendSnapshot
  <2> QED
    BY <1>13, <2>2, ContentType DEF SendSnapshot, Handler, NoSnap
<1>14. ASSUME NEW s \in Sockets,
             Greet(s)
      PROVE  TypeOK'
  BY <1>14 DEF Greet, Handler
<1>15. ASSUME NEW s \in Sockets,
             Disconnect(s)
      PROVE  TypeOK'
  BY <1>15 DEF Disconnect, Handler
<1>16. ASSUME NEW s \in Sockets,
             Lose(s)
      PROVE  TypeOK'
  BY <1>16, BoundsType DEF Lose, Nothing
<1> HIDE DEF FeedInv, TypeOK
<1> QED
  BY <1>1, <1>2, <1>3, <1>4, <1>5, <1>6, <1>7, <1>8, <1>9,
     <1>10, <1>11, <1>12, <1>13, <1>14, <1>15, <1>16, NextCases DEF FeedInv

\* What one send of a broadcast changes for the others.
LEMMA SendNextEffect ==
  ASSUME TypeOK, NEW c \in Cast, NEW others \in SUBSET Cast,
         SendNext(c, others), \A x \in c.dead : lost[x]
  PROVE  \E s \in c.left :
           /\ Send(s, c.ev)
           /\ others \subseteq casts'
           /\ \A d \in casts' \ others :
                d.ev = c.ev /\ \A x \in d.dead : lost[x]
           /\ \A x \in c.left \ {s} :
                \E d \in casts' : d.ev = c.ev /\ x \in d.left
           /\ clients' \subseteq clients
           /\ \A x \in clients \ clients' : lost[x]
<1> DEFINE Left(s) == c.left \ {s}
           Dead(s, raises) == IF raises THEN c.dead \cup {s} ELSE c.dead
           Served(s, raises) ==
             [c EXCEPT !.left = Left(s), !.dead = Dead(s, raises)]
<1>1. PICK s \in c.left, raises \in BOOLEAN :
        /\ raises => lost[s]
        /\ Send(s, c.ev)
        /\ casts' = IF Left(s) = {} THEN others
                    ELSE others \cup {Served(s, raises)}
        /\ clients' = IF Left(s) = {} THEN clients \ Dead(s, raises)
                      ELSE clients
  BY DEF SendNext
<1>2. \A x \in Dead(s, raises) : lost[x]
  BY <1>1
<1>3. LET d == Served(s, raises)
      IN  /\ d.ev = c.ev
          /\ d.left = Left(s)
          /\ d.dead = Dead(s, raises)
  BY DEF Cast
<1>4. /\ others \subseteq casts'
      /\ \A d \in casts' \ others :
           d.ev = c.ev /\ \A x \in d.dead : lost[x]
  <2> HIDE DEF Left, Dead, Served
  <2> QED
    BY <1>1, <1>2, <1>3
<1>5. \A x \in c.left \ {s} : \E d \in casts' : d.ev = c.ev /\ x \in d.left
  BY <1>1, <1>3
<1>6. clients' \subseteq clients /\ \A x \in clients \ clients' : lost[x]
  BY <1>1, <1>2
<1> QED
  BY <1>1, <1>4, <1>5, <1>6

\* The broadcast that starts, as a cast that has served nobody yet.
LEMMA StartIsSend ==
  ASSUME FeedInv, StartBroadcast
  PROVE  LET first == [ev |-> Head(ready).ev, left |-> clients, dead |-> {}]
         IN  /\ ready # <<>>
             /\ first \in Cast
             /\ Head(ready) \in Callback
             /\ ready' = Tail(ready)
             /\ \/ UNCHANGED <<casts, clients, table, sent>> /\ clients = {}
                \/ SendNext(first, casts)
             /\ UNCHANGED <<version, order, op, sock, lost, snap>>
<1>1. ready # <<>> /\ Head(ready) \in Callback
  BY DEF FeedInv, TypeOK, StartBroadcast
<1>2. [ev |-> Head(ready).ev, left |-> clients, dead |-> {}] \in Cast
  BY <1>1 DEF FeedInv, TypeOK, Callback, Cast
<1> QED
  BY <1>1, <1>2 DEF StartBroadcast, registryVars, threadVars

\* An idle thread carries nothing.
LEMMA IdleIsEmptyKept ==
  ASSUME FeedInv, Next
  PROVE  IdleIsEmpty'
<1> USE DEF FeedInv, TypeOK, IdleIsEmpty, registryVars, threadVars, hubVars,
    socketVars
<1>1. ASSUME NEW r \in Runs,
             CreateTask(r)
      PROVE  IdleIsEmpty'
  BY <1>1 DEF CreateTask, Begin
<1>2. ASSUME NEW t \in Threads, NEW r \in Runs,
             UpdateTask(t, r)
      PROVE  IdleIsEmpty'
  BY <1>2 DEF UpdateTask, Begin
<1>3. ASSUME NEW t \in Threads, NEW r \in Runs,
             AppendLog(t, r)
      PROVE  IdleIsEmpty'
  BY <1>3 DEF AppendLog
<1>4. ASSUME NEW t \in Threads, NEW kind \in {"task", "queues"},
             NEW R \in SUBSET Runs,
             Announce(t, kind, R)
      PROVE  IdleIsEmpty'
  BY <1>4 DEF Announce, Begin
<1>5. ASSUME NEW t \in Threads, NEW r \in Runs,
             ReadRecord(t, r)
      PROVE  IdleIsEmpty'
  <2>1. op[t].kind # "none"
    BY <1>5 DEF ReadRecord, NoOp
  <2>2. op'[t].kind = op[t].kind
    BY <1>5 DEF ReadRecord
  <2> QED
    BY <1>5, <2>1, <2>2 DEF ReadRecord
<1>6. ASSUME NEW t \in Threads,
             Emit(t)
      PROVE  IdleIsEmpty'
  BY <1>6 DEF Emit, NoOp
<1>7. ASSUME Hop
      PROVE  IdleIsEmpty'
  BY <1>7 DEF Hop
<1>8. ASSUME StartBroadcast
      PROVE  IdleIsEmpty'
  BY <1>8, StartIsSend DEF FeedInv
<1>9. ASSUME ContinueBroadcast
      PROVE  IdleIsEmpty'
  BY <1>9 DEF ContinueBroadcast
<1>10. ASSUME NEW s \in Sockets,
             Refuse(s)
      PROVE  IdleIsEmpty'
  BY <1>10 DEF Refuse
<1>11. ASSUME NEW s \in Sockets,
             Register(s)
      PROVE  IdleIsEmpty'
  BY <1>11 DEF Register
<1>12. ASSUME NEW r \in Runs,
             ReadSnapshot(r)
      PROVE  IdleIsEmpty'
  BY <1>12 DEF ReadSnapshot
<1>13. ASSUME NEW s \in Sockets,
             SendSnapshot(s)
      PROVE  IdleIsEmpty'
  BY <1>13 DEF SendSnapshot
<1>14. ASSUME NEW s \in Sockets,
             Greet(s)
      PROVE  IdleIsEmpty'
  BY <1>14 DEF Greet
<1>15. ASSUME NEW s \in Sockets,
             Disconnect(s)
      PROVE  IdleIsEmpty'
  BY <1>15 DEF Disconnect
<1>16. ASSUME NEW s \in Sockets,
             Lose(s)
      PROVE  IdleIsEmpty'
  BY <1>16 DEF Lose
<1> HIDE DEF FeedInv, TypeOK
<1> QED
  BY <1>1, <1>2, <1>3, <1>4, <1>5, <1>6, <1>7, <1>8, <1>9,
     <1>10, <1>11, <1>12, <1>13, <1>14, <1>15, <1>16, NextCases DEF FeedInv

\* While the loop reads a snapshot no other handler runs.
LEMMA OneSnapshotKept ==
  ASSUME FeedInv, Next
  PROVE  OneSnapshot'
<1> USE DEF FeedInv, TypeOK, OneSnapshot, registryVars, threadVars, hubVars,
    socketVars
<1>1. ASSUME NEW r \in Runs,
             CreateTask(r)
      PROVE  OneSnapshot'
  BY <1>1 DEF CreateTask
<1>2. ASSUME NEW t \in Threads, NEW r \in Runs,
             UpdateTask(t, r)
      PROVE  OneSnapshot'
  BY <1>2 DEF UpdateTask
<1>3. ASSUME NEW t \in Threads, NEW r \in Runs,
             AppendLog(t, r)
      PROVE  OneSnapshot'
  BY <1>3 DEF AppendLog
<1>4. ASSUME NEW t \in Threads, NEW kind \in {"task", "queues"},
             NEW R \in SUBSET Runs,
             Announce(t, kind, R)
      PROVE  OneSnapshot'
  BY <1>4 DEF Announce
<1>5. ASSUME NEW t \in Threads, NEW r \in Runs,
             ReadRecord(t, r)
      PROVE  OneSnapshot'
  BY <1>5 DEF ReadRecord
<1>6. ASSUME NEW t \in Threads,
             Emit(t)
      PROVE  OneSnapshot'
  BY <1>6 DEF Emit
<1>7. ASSUME Hop
      PROVE  OneSnapshot'
  BY <1>7 DEF Hop
<1>8. ASSUME StartBroadcast
      PROVE  OneSnapshot'
  BY <1>8, StartIsSend DEF FeedInv
<1>9. ASSUME ContinueBroadcast
      PROVE  OneSnapshot'
  BY <1>9 DEF ContinueBroadcast
<1>10. ASSUME NEW s \in Sockets,
             Refuse(s)
      PROVE  OneSnapshot'
  BY <1>10 DEF Refuse
<1>11. ASSUME NEW s \in Sockets,
             Register(s)
      PROVE  OneSnapshot'
  BY <1>11 DEF Register, LoopIsFree
<1>12. ASSUME NEW r \in Runs,
             ReadSnapshot(r)
      PROVE  OneSnapshot'
  BY <1>12 DEF ReadSnapshot
<1>13. ASSUME NEW s \in Sockets,
             SendSnapshot(s)
      PROVE  OneSnapshot'
  BY <1>13 DEF SendSnapshot
<1>14. ASSUME NEW s \in Sockets,
             Greet(s)
      PROVE  OneSnapshot'
  BY <1>14 DEF Greet
<1>15. ASSUME NEW s \in Sockets,
             Disconnect(s)
      PROVE  OneSnapshot'
  BY <1>15 DEF Disconnect
<1>16. ASSUME NEW s \in Sockets,
             Lose(s)
      PROVE  OneSnapshot'
  BY <1>16 DEF Lose
<1> HIDE DEF FeedInv, TypeOK
<1> QED
  BY <1>1, <1>2, <1>3, <1>4, <1>5, <1>6, <1>7, <1>8, <1>9,
     <1>10, <1>11, <1>12, <1>13, <1>14, <1>15, <1>16, NextCases DEF FeedInv

\* A client is dropped only when its connection is broken.
LEMMA ConnectedAreClientsKept ==
  ASSUME FeedInv, Next
  PROVE  ConnectedAreClients'
<1> USE DEF FeedInv, TypeOK, ConnectedAreClients, Connected, registryVars,
    threadVars, hubVars, socketVars
<1>1. ASSUME NEW r \in Runs,
             CreateTask(r)
      PROVE  ConnectedAreClients'
  BY <1>1 DEF CreateTask
<1>2. ASSUME NEW t \in Threads, NEW r \in Runs,
             UpdateTask(t, r)
      PROVE  ConnectedAreClients'
  BY <1>2 DEF UpdateTask
<1>3. ASSUME NEW t \in Threads, NEW r \in Runs,
             AppendLog(t, r)
      PROVE  ConnectedAreClients'
  BY <1>3 DEF AppendLog
<1>4. ASSUME NEW t \in Threads, NEW kind \in {"task", "queues"},
             NEW R \in SUBSET Runs,
             Announce(t, kind, R)
      PROVE  ConnectedAreClients'
  BY <1>4 DEF Announce
<1>5. ASSUME NEW t \in Threads, NEW r \in Runs,
             ReadRecord(t, r)
      PROVE  ConnectedAreClients'
  BY <1>5 DEF ReadRecord
<1>6. ASSUME NEW t \in Threads,
             Emit(t)
      PROVE  ConnectedAreClients'
  BY <1>6 DEF Emit
<1>7. ASSUME Hop
      PROVE  ConnectedAreClients'
  BY <1>7 DEF Hop
<1>8. ASSUME StartBroadcast
      PROVE  ConnectedAreClients'
  <2> DEFINE first == [ev |-> Head(ready).ev, left |-> clients, dead |-> {}]
  <2>1. first \in Cast /\ (\A x \in first.dead : lost[x])
    BY <1>8, StartIsSend
  <2>2. CASE UNCHANGED <<casts, clients, table, sent>>
    BY <1>8, <2>2, StartIsSend
  <2>3. CASE SendNext(first, casts)
    <3>1. \A x \in clients \ clients' : lost[x]
      BY <2>1, <2>3, SendNextEffect
    <3> QED
      BY <1>8, <3>1, StartIsSend
  <2> QED
    BY <1>8, <2>2, <2>3, StartIsSend
<1>9. ASSUME ContinueBroadcast
      PROVE  ConnectedAreClients'
  <2>1. PICK c \in casts : SendNext(c, casts \ {c})
    BY <1>9 DEF ContinueBroadcast
  <2>2. \A x \in clients \ clients' : lost[x]
    BY <2>1, SendNextEffect DEF DeadAreLost
  <2> QED
    BY <1>9, <2>2 DEF ContinueBroadcast
<1>10. ASSUME NEW s \in Sockets,
             Refuse(s)
      PROVE  ConnectedAreClients'
  BY <1>10 DEF Refuse
<1>11. ASSUME NEW s \in Sockets,
             Register(s)
      PROVE  ConnectedAreClients'
  BY <1>11 DEF Register
<1>12. ASSUME NEW r \in Runs,
             ReadSnapshot(r)
      PROVE  ConnectedAreClients'
  BY <1>12 DEF ReadSnapshot
<1>13. ASSUME NEW s \in Sockets,
             SendSnapshot(s)
      PROVE  ConnectedAreClients'
  BY <1>13 DEF SendSnapshot
<1>14. ASSUME NEW s \in Sockets,
             Greet(s)
      PROVE  ConnectedAreClients'
  BY <1>14 DEF Greet
<1>15. ASSUME NEW s \in Sockets,
             Disconnect(s)
      PROVE  ConnectedAreClients'
  BY <1>15 DEF Disconnect
<1>16. ASSUME NEW s \in Sockets,
             Lose(s)
      PROVE  ConnectedAreClients'
  BY <1>16 DEF Lose
<1> HIDE DEF FeedInv, TypeOK
<1> QED
  BY <1>1, <1>2, <1>3, <1>4, <1>5, <1>6, <1>7, <1>8, <1>9,
     <1>10, <1>11, <1>12, <1>13, <1>14, <1>15, <1>16, NextCases DEF FeedInv

\* Sends fail on broken connections only.
LEMMA DeadAreLostKept ==
  ASSUME FeedInv, Next
  PROVE  DeadAreLost'
<1> USE DEF FeedInv, DeadAreLost, registryVars, threadVars, hubVars,
    socketVars
<1>1. ASSUME NEW r \in Runs,
             CreateTask(r)
      PROVE  DeadAreLost'
  BY <1>1 DEF CreateTask
<1>2. ASSUME NEW t \in Threads, NEW r \in Runs,
             UpdateTask(t, r)
      PROVE  DeadAreLost'
  BY <1>2 DEF UpdateTask
<1>3. ASSUME NEW t \in Threads, NEW r \in Runs,
             AppendLog(t, r)
      PROVE  DeadAreLost'
  BY <1>3 DEF AppendLog
<1>4. ASSUME NEW t \in Threads, NEW kind \in {"task", "queues"},
             NEW R \in SUBSET Runs,
             Announce(t, kind, R)
      PROVE  DeadAreLost'
  BY <1>4 DEF Announce
<1>5. ASSUME NEW t \in Threads, NEW r \in Runs,
             ReadRecord(t, r)
      PROVE  DeadAreLost'
  BY <1>5 DEF ReadRecord
<1>6. ASSUME NEW t \in Threads,
             Emit(t)
      PROVE  DeadAreLost'
  BY <1>6 DEF Emit
<1>7. ASSUME Hop
      PROVE  DeadAreLost'
  BY <1>7 DEF Hop
<1>8. ASSUME StartBroadcast
      PROVE  DeadAreLost'
  <2> DEFINE first == [ev |-> Head(ready).ev, left |-> clients, dead |-> {}]
  <2>1. first \in Cast /\ (\A x \in first.dead : lost[x])
    BY <1>8, StartIsSend
  <2>2. CASE UNCHANGED <<casts, clients, table, sent>>
    BY <1>8, <2>2, StartIsSend
  <2>3. CASE SendNext(first, casts)
    <3>1. casts \in SUBSET Cast
      BY DEF TypeOK
    <3>2. \A d \in casts' \ casts : \A x \in d.dead : lost[x]
      BY <2>1, <2>3, <3>1, SendNextEffect
    <3> QED
      BY <1>8, <3>2, StartIsSend
  <2> QED
    BY <1>8, <2>2, <2>3, StartIsSend
<1>9. ASSUME ContinueBroadcast
      PROVE  DeadAreLost'
  <2>1. PICK c \in casts : SendNext(c, casts \ {c})
    BY <1>9 DEF ContinueBroadcast
  <2>2. c \in Cast /\ casts \ {c} \in SUBSET Cast
    BY DEF TypeOK
  <2>3. \A d \in casts' \ (casts \ {c}) : \A x \in d.dead : lost[x]
    BY <2>1, <2>2, SendNextEffect
  <2> QED
    BY <1>9, <2>3 DEF ContinueBroadcast
<1>10. ASSUME NEW s \in Sockets,
             Refuse(s)
      PROVE  DeadAreLost'
  BY <1>10 DEF Refuse
<1>11. ASSUME NEW s \in Sockets,
             Register(s)
      PROVE  DeadAreLost'
  BY <1>11 DEF Register
<1>12. ASSUME NEW r \in Runs,
             ReadSnapshot(r)
      PROVE  DeadAreLost'
  BY <1>12 DEF ReadSnapshot
<1>13. ASSUME NEW s \in Sockets,
             SendSnapshot(s)
      PROVE  DeadAreLost'
  BY <1>13 DEF SendSnapshot
<1>14. ASSUME NEW s \in Sockets,
             Greet(s)
      PROVE  DeadAreLost'
  BY <1>14 DEF Greet
<1>15. ASSUME NEW s \in Sockets,
             Disconnect(s)
      PROVE  DeadAreLost'
  BY <1>15 DEF Disconnect
<1>16. ASSUME NEW s \in Sockets,
             Lose(s)
      PROVE  DeadAreLost'
  <2>1. \A c \in casts : c.dead \subseteq Sockets
    BY DEF Cast, TypeOK
  <2> QED
    BY <1>16, <2>1 DEF Lose, TypeOK
<1> HIDE DEF FeedInv, TypeOK
<1> QED
  BY <1>1, <1>2, <1>3, <1>4, <1>5, <1>6, <1>7, <1>8, <1>9,
     <1>10, <1>11, <1>12, <1>13, <1>14, <1>15, <1>16, NextCases DEF FeedInv

\* Versions grow, and a step changes at most one.
LEMMA VersionGrows ==
  ASSUME FeedInv, Next
  PROVE  /\ version' \in [Runs -> Nat]
         /\ \A r \in Runs : version[r] <= version'[r]
<1>1. version' \in [Runs -> Nat]
  BY TypeOKKept DEF TypeOK
<1>2. \/ version' = version
      \/ \E r \in Runs : version' = [version EXCEPT ![r] = @ + 1]
      \/ \E r \in Runs : version[r] = 0 /\ version' = [version EXCEPT ![r] = 1]
  BY NextCases, StartIsSend DEF FeedInv, CreateTask, UpdateTask, AppendLog,
     Announce, ReadRecord, Emit, Hop, ContinueBroadcast, Refuse, Register,
     ReadSnapshot, SendSnapshot, Greet, Disconnect, Lose, registryVars,
     threadVars, hubVars, socketVars
<1>3. version \in [Runs -> Nat]
  BY DEF FeedInv, TypeOK
<1> QED
  BY <1>1, <1>2, <1>3

\* What is no newer than the records stays so.
LEMMA StaysOld ==
  ASSUME FeedInv, Next, NEW of \in Content, NoNewer(of)
  PROVE  \A r \in DOMAIN of : of[r] <= version'[r]
<1>1. DOMAIN of \subseteq Runs /\ \A r \in DOMAIN of : of[r] \in Nat
  BY ContentType
<1>2. version \in [Runs -> Nat]
  BY DEF FeedInv, TypeOK
<1> QED
  BY <1>1, <1>2, VersionGrows DEF NoNewer

\* What is sent on a connection is no newer than the records.
LEMMA SentOld ==
  ASSUME FeedInv, NEW s \in Sockets, NEW m \in Event, Send(s, m),
         NoNewer(m.of), version' = version
  PROVE  \A x \in Sockets : \A r \in DOMAIN sent'[x] :
           sent'[x][r] <= version'[r]
<1>1. TypeOK /\ m.of \in Content
  BY DEF FeedInv, Event
<1>2. ASSUME NEW x \in Sockets, sent'[x] = sent[x]
      PROVE  \A r \in DOMAIN sent'[x] : sent'[x][r] <= version'[r]
  BY <1>2 DEF FeedInv, NothingNewer, NoNewer
<1>3. ASSUME ~lost[s]
      PROVE  \A r \in DOMAIN sent'[s] : sent'[s][r] <= version'[r]
  <2>1. sent[s] \in [Runs -> 0 .. MaxOps]
    BY <1>1 DEF TypeOK
  <2>2. sent'[s] = Newer(sent[s], m.of)
    BY <1>1, <1>3, SendType
  <2>3. \A r \in Runs : sent[s][r] <= version[r]
    BY <2>1 DEF FeedInv, NothingNewer, NoNewer
  <2>4. ASSUME NEW r \in Runs
        PROVE  Newer(sent[s], m.of)[r] <= version[r]
    BY <1>1, <2>1, <2>3, NewerType DEF NoNewer
  <2>5. DOMAIN sent'[s] = Runs
    BY <2>2 DEF Newer
  <2> QED
    BY <2>2, <2>4, <2>5
<1> QED
  BY <1>1, <1>2, <1>3, SendType

\* The parts of NothingNewer.
EmittedOld == \A t \in Threads : NoNewer(op[t].of)
ReadyOld == \A i \in DOMAIN ready : NoNewer(ready[i].ev.of)
CastsOld == \A c \in casts : NoNewer(c.ev.of)
SnapOld == NoNewer(snap.of)
SentIsOld == \A s \in Sockets : NoNewer(sent[s])

\* The events that are no newer than the records, before a step and after.
LEMMA OldStays ==
  ASSUME FeedInv, Next
  PROVE  /\ \A t \in Threads : \A r \in DOMAIN op[t].of :
              op[t].of[r] <= version'[r]
         /\ \A i \in DOMAIN ready : \A r \in DOMAIN ready[i].ev.of :
              ready[i].ev.of[r] <= version'[r]
         /\ \A c \in casts : \A r \in DOMAIN c.ev.of :
              c.ev.of[r] <= version'[r]
         /\ \A r \in DOMAIN snap.of : snap.of[r] <= version'[r]
         /\ \A s \in Sockets : \A r \in DOMAIN sent[s] :
              sent[s][r] <= version'[r]
<1> USE DEF FeedInv, NothingNewer
<1>1. \A t \in Threads : op[t].of \in Content
  BY DEF TypeOK, Emission
<1>2. \A i \in DOMAIN ready : ready[i].ev.of \in Content
  <2>1. ready \in Seq(Callback)
    BY DEF TypeOK
  <2>2. \A i \in DOMAIN ready : ready[i] \in Callback
    BY <2>1
  <2> QED
    BY <2>2 DEF Callback, Event
<1>3. \A c \in casts : c.ev.of \in Content
  BY DEF TypeOK, Cast, Event
<1>4. snap.of \in Content
  BY DEF TypeOK
<1>5. ASSUME NEW s \in Sockets, NEW r \in DOMAIN sent[s]
      PROVE  sent[s][r] <= version'[r]
  <2>1. sent[s] \in [Runs -> 0 .. MaxOps]
    BY DEF TypeOK
  <2>2. r \in Runs /\ sent[s][r] \in Nat /\ version[r] \in Nat
    BY <1>5, <2>1 DEF TypeOK
  <2>3. sent[s][r] <= version[r] /\ version[r] <= version'[r]
    BY <1>5, <2>2, VersionGrows DEF NoNewer
  <2> QED
    BY <2>2, <2>3, VersionGrows
<1> HIDE DEF FeedInv
<1>6. /\ \A t \in Threads : NoNewer(op[t].of)
      /\ \A i \in DOMAIN ready : NoNewer(ready[i].ev.of)
      /\ \A c \in casts : NoNewer(c.ev.of)
      /\ NoNewer(snap.of)
  BY DEF FeedInv
<1> HIDE DEF NothingNewer
<1> QED
  BY <1>1, <1>2, <1>3, <1>4, <1>5, <1>6, StaysOld

\* What a thread has read is no newer than the records.
LEMMA EmittedOldKept ==
  ASSUME FeedInv, Next
  PROVE  EmittedOld'
<1> USE DEF registryVars, threadVars, hubVars, socketVars, EmittedOld, NoNewer
<1>1. ASSUME NEW r \in Runs,
             CreateTask(r)
      PROVE  EmittedOld'
  BY <1>1, OldStays DEF CreateTask, Begin, NoRuns, FeedInv, TypeOK
<1>2. ASSUME NEW t \in Threads, NEW r \in Runs,
             UpdateTask(t, r)
      PROVE  EmittedOld'
  BY <1>2, OldStays DEF UpdateTask, Begin, NoRuns, FeedInv, TypeOK
<1>3. ASSUME NEW t \in Threads, NEW r \in Runs,
             AppendLog(t, r)
      PROVE  EmittedOld'
  BY <1>3, OldStays DEF AppendLog
<1>4. ASSUME NEW t \in Threads, NEW kind \in {"task", "queues"},
             NEW R \in SUBSET Runs,
             Announce(t, kind, R)
      PROVE  EmittedOld'
  BY <1>4, OldStays DEF Announce, Begin, NoRuns, FeedInv, TypeOK
<1>5. ASSUME NEW t \in Threads, NEW r \in Runs,
             ReadRecord(t, r)
      PROVE  EmittedOld'
  <2>1. op[t] \in Emission /\ op[t].of \in Content
    BY DEF FeedInv, TypeOK, Emission
  <2>2. /\ \A u \in Threads \ {t} : op'[u] = op[u]
        /\ op'[t].of = Put(op[t].of, r, version[r])
        /\ version' = version /\ op[t].of = op[t].of
    BY <1>5, <2>1 DEF ReadRecord, FeedInv, TypeOK
  <2>3. version[r] \in Nat
    BY DEF FeedInv, TypeOK
  <2>4. \A x \in DOMAIN op'[t].of : op'[t].of[x] <= version'[x]
    BY <2>1, <2>2, <2>3, OldStays DEF Put
  <2> QED
    BY <2>2, <2>4, OldStays
<1>6. ASSUME NEW t \in Threads,
             Emit(t)
      PROVE  EmittedOld'
  BY <1>6, OldStays DEF Emit, NoOp, NoRuns, FeedInv, TypeOK
<1>7. ASSUME Hop
      PROVE  EmittedOld'
  BY <1>7, OldStays DEF Hop
<1>8. ASSUME StartBroadcast
      PROVE  EmittedOld'
  BY <1>8, StartIsSend, OldStays
<1>9. ASSUME ContinueBroadcast
      PROVE  EmittedOld'
  BY <1>9, OldStays DEF ContinueBroadcast
<1>10. ASSUME NEW s \in Sockets,
             Refuse(s)
      PROVE  EmittedOld'
  BY <1>10, OldStays DEF Refuse
<1>11. ASSUME NEW s \in Sockets,
             Register(s)
      PROVE  EmittedOld'
  BY <1>11, OldStays DEF Register
<1>12. ASSUME NEW r \in Runs,
             ReadSnapshot(r)
      PROVE  EmittedOld'
  BY <1>12, OldStays DEF ReadSnapshot
<1>13. ASSUME NEW s \in Sockets,
             SendSnapshot(s)
      PROVE  EmittedOld'
  BY <1>13, OldStays DEF SendSnapshot
<1>14. ASSUME NEW s \in Sockets,
             Greet(s)
      PROVE  EmittedOld'
  BY <1>14, OldStays DEF Greet
<1>15. ASSUME NEW s \in Sockets,
             Disconnect(s)
      PROVE  EmittedOld'
  BY <1>15, OldStays DEF Disconnect
<1>16. ASSUME NEW s \in Sockets,
             Lose(s)
      PROVE  EmittedOld'
  BY <1>16, OldStays DEF Lose
<1> HIDE DEF FeedInv, TypeOK
<1> QED
  BY <1>1, <1>2, <1>3, <1>4, <1>5, <1>6, <1>7, <1>8, <1>9,
     <1>10, <1>11, <1>12, <1>13, <1>14, <1>15, <1>16, NextCases DEF FeedInv

\* What is scheduled is no newer than the records.
LEMMA ReadyOldKept ==
  ASSUME FeedInv, Next
  PROVE  ReadyOld'
<1> USE DEF registryVars, threadVars, hubVars, socketVars, ReadyOld, NoNewer
<1>1. ASSUME NEW r \in Runs,
             CreateTask(r)
      PROVE  ReadyOld'
  <2> DEFINE e == Entry(Loop, LogEvent(r))
  <2>1. version'[r] >= 0 /\ version'[r] \in Nat
    BY VersionGrows
  <2>2. /\ ready \in Seq(Callback)
        /\ ready' = Append(ready, e)
    BY <1>1 DEF CreateTask, FeedInv, TypeOK
  <2>3. \A x \in DOMAIN e.ev.of : e.ev.of[x] <= version'[x]
    BY <2>1 DEF Entry, LogEvent
  <2> HIDE DEF e
  <2>4. /\ DOMAIN ready' = 1 .. Len(ready) + 1
        /\ \A i \in 1 .. Len(ready) : ready'[i] = ready[i]
        /\ ready'[Len(ready) + 1] = e
        /\ DOMAIN ready = 1 .. Len(ready) /\ Len(ready) \in Nat
    BY <2>2
  <2> QED
    BY <2>3, <2>4, OldStays
<1>2. ASSUME NEW t \in Threads, NEW r \in Runs,
             UpdateTask(t, r)
      PROVE  ReadyOld'
  BY <1>2, OldStays DEF UpdateTask
<1>3. ASSUME NEW t \in Threads, NEW r \in Runs,
             AppendLog(t, r)
      PROVE  ReadyOld'
  <2> DEFINE e == Entry(t, LogEvent(r))
  <2>1. version'[r] >= 0 /\ version'[r] \in Nat
    BY VersionGrows
  <2>2. /\ ready \in Seq(Callback)
        /\ ready' = Append(ready, e)
    BY <1>3 DEF AppendLog, FeedInv, TypeOK
  <2>3. \A x \in DOMAIN e.ev.of : e.ev.of[x] <= version'[x]
    BY <2>1 DEF Entry, LogEvent
  <2> HIDE DEF e
  <2>4. /\ DOMAIN ready' = 1 .. Len(ready) + 1
        /\ \A i \in 1 .. Len(ready) : ready'[i] = ready[i]
        /\ ready'[Len(ready) + 1] = e
        /\ DOMAIN ready = 1 .. Len(ready) /\ Len(ready) \in Nat
    BY <2>2
  <2> QED
    BY <2>3, <2>4, OldStays
<1>4. ASSUME NEW t \in Threads, NEW kind \in {"task", "queues"},
             NEW R \in SUBSET Runs,
             Announce(t, kind, R)
      PROVE  ReadyOld'
  BY <1>4, OldStays DEF Announce
<1>5. ASSUME NEW t \in Threads, NEW r \in Runs,
             ReadRecord(t, r)
      PROVE  ReadyOld'
  BY <1>5, OldStays DEF ReadRecord
<1>6. ASSUME NEW t \in Threads,
             Emit(t)
      PROVE  ReadyOld'
  <2> DEFINE e == Entry(t, [kind |-> op[t].kind, of |-> op[t].of])
  <2>2. /\ ready \in Seq(Callback)
        /\ ready' = Append(ready, e)
    BY <1>6 DEF Emit, FeedInv, TypeOK
  <2>3. \A x \in DOMAIN e.ev.of : e.ev.of[x] <= version'[x]
    BY OldStays DEF Entry
  <2> HIDE DEF e
  <2>4. /\ DOMAIN ready' = 1 .. Len(ready) + 1
        /\ \A i \in 1 .. Len(ready) : ready'[i] = ready[i]
        /\ ready'[Len(ready) + 1] = e
        /\ DOMAIN ready = 1 .. Len(ready) /\ Len(ready) \in Nat
    BY <2>2
  <2> QED
    BY <2>3, <2>4, OldStays
<1>7. ASSUME Hop
      PROVE  ReadyOld'
  <2> DEFINE e == [hop |-> FALSE, ev |-> Head(ready).ev]
  <2>1. ready \in Seq(Callback) /\ ready # <<>>
    BY <1>7 DEF Hop, FeedInv, TypeOK
  <2>2. /\ Len(ready) \in Nat \ {0} /\ DOMAIN ready = 1 .. Len(ready)
        /\ Tail(ready) \in Seq(Callback) /\ Len(Tail(ready)) = Len(ready) - 1
        /\ \A i \in 1 .. Len(ready) - 1 : Tail(ready)[i] = ready[i + 1]
        /\ Head(ready) = ready[1]
    BY <2>1
  <2>3. \A x \in DOMAIN e.ev.of : e.ev.of[x] <= version'[x]
    BY <2>2, OldStays
  <2>4. ready' = Append(Tail(ready), e)
    BY <1>7 DEF Hop
  <2> HIDE DEF e
  <2>5. /\ DOMAIN ready' = 1 .. Len(ready)
        /\ \A i \in 1 .. Len(ready) - 1 : ready'[i] = ready[i + 1]
        /\ ready'[Len(ready)] = e
    BY <2>2, <2>4
  <2>6. \A i \in 1 .. Len(ready) :
          i = Len(ready)
          \/ (i \in 1 .. Len(ready) - 1 /\ i + 1 \in DOMAIN ready)
    BY <2>2
  <2> QED
    BY <2>3, <2>5, <2>6, OldStays
<1>8. ASSUME StartBroadcast
      PROVE  ReadyOld'
  <2>1. ready \in Seq(Callback) /\ ready # <<>> /\ ready' = Tail(ready)
    BY <1>8, StartIsSend DEF FeedInv, TypeOK
  <2>2. /\ Len(ready) \in Nat \ {0} /\ DOMAIN ready = 1 .. Len(ready)
        /\ DOMAIN ready' = 1 .. Len(ready) - 1
        /\ \A i \in 1 .. Len(ready) - 1 : ready'[i] = ready[i + 1]
    BY <2>1
  <2>3. \A i \in 1 .. Len(ready) - 1 : i + 1 \in DOMAIN ready
    BY <2>2
  <2> QED
    BY <2>2, <2>3, OldStays
<1>9. ASSUME ContinueBroadcast
      PROVE  ReadyOld'
  BY <1>9, OldStays DEF ContinueBroadcast
<1>10. ASSUME NEW s \in Sockets,
             Refuse(s)
      PROVE  ReadyOld'
  BY <1>10, OldStays DEF Refuse
<1>11. ASSUME NEW s \in Sockets,
             Register(s)
      PROVE  ReadyOld'
  BY <1>11, OldStays DEF Register
<1>12. ASSUME NEW r \in Runs,
             ReadSnapshot(r)
      PROVE  ReadyOld'
  BY <1>12, OldStays DEF ReadSnapshot
<1>13. ASSUME NEW s \in Sockets,
             SendSnapshot(s)
      PROVE  ReadyOld'
  BY <1>13, OldStays DEF SendSnapshot
<1>14. ASSUME NEW s \in Sockets,
             Greet(s)
      PROVE  ReadyOld'
  BY <1>14, OldStays DEF Greet
<1>15. ASSUME NEW s \in Sockets,
             Disconnect(s)
      PROVE  ReadyOld'
  BY <1>15, OldStays DEF Disconnect
<1>16. ASSUME NEW s \in Sockets,
             Lose(s)
      PROVE  ReadyOld'
  BY <1>16, OldStays DEF Lose
<1> HIDE DEF FeedInv, TypeOK
<1> QED
  BY <1>1, <1>2, <1>3, <1>4, <1>5, <1>6, <1>7, <1>8, <1>9,
     <1>10, <1>11, <1>12, <1>13, <1>14, <1>15, <1>16, NextCases DEF FeedInv

\* What is broadcast is no newer than the records.
LEMMA CastsOldKept ==
  ASSUME FeedInv, Next
  PROVE  CastsOld'
<1> USE DEF registryVars, threadVars, hubVars, socketVars, CastsOld, NoNewer
<1>1. ASSUME NEW r \in Runs,
             CreateTask(r)
      PROVE  CastsOld'
  BY <1>1, OldStays DEF CreateTask
<1>2. ASSUME NEW t \in Threads, NEW r \in Runs,
             UpdateTask(t, r)
      PROVE  CastsOld'
  BY <1>2, OldStays DEF UpdateTask
<1>3. ASSUME NEW t \in Threads, NEW r \in Runs,
             AppendLog(t, r)
      PROVE  CastsOld'
  BY <1>3, OldStays DEF AppendLog
<1>4. ASSUME NEW t \in Threads, NEW kind \in {"task", "queues"},
             NEW R \in SUBSET Runs,
             Announce(t, kind, R)
      PROVE  CastsOld'
  BY <1>4, OldStays DEF Announce
<1>5. ASSUME NEW t \in Threads, NEW r \in Runs,
             ReadRecord(t, r)
      PROVE  CastsOld'
  BY <1>5, OldStays DEF ReadRecord
<1>6. ASSUME NEW t \in Threads,
             Emit(t)
      PROVE  CastsOld'
  BY <1>6, OldStays DEF Emit
<1>7. ASSUME Hop
      PROVE  CastsOld'
  BY <1>7, OldStays DEF Hop
<1>8. ASSUME StartBroadcast
      PROVE  CastsOld'
  <2> DEFINE first == [ev |-> Head(ready).ev, left |-> clients, dead |-> {}]
  <2>1. first \in Cast /\ first.ev = ready[1].ev /\ 1 \in DOMAIN ready
    BY <1>8, StartIsSend DEF FeedInv, TypeOK
  <2>2. casts \in SUBSET Cast /\ TypeOK /\ (\A x \in first.dead : lost[x])
    BY DEF FeedInv, TypeOK
  <2>3. CASE UNCHANGED <<casts, clients, table, sent>>
    BY <2>3, OldStays
  <2>4. CASE SendNext(first, casts)
    <3>1. \A d \in casts' \ casts : d.ev = first.ev
      BY <2>1, <2>2, <2>4, SendNextEffect
    <3> HIDE DEF first
    <3> QED
      BY <2>1, <3>1, OldStays
  <2> QED
    BY <1>8, <2>3, <2>4, StartIsSend
<1>9. ASSUME ContinueBroadcast
      PROVE  CastsOld'
  <2>1. PICK c \in casts : SendNext(c, casts \ {c})
    BY <1>9 DEF ContinueBroadcast
  <2>2. c \in Cast /\ casts \ {c} \in SUBSET Cast /\ TypeOK
    BY DEF FeedInv, TypeOK
  <2>3. \A x \in c.dead : lost[x]
    BY DEF FeedInv, DeadAreLost
  <2>4. \A d \in casts' \ (casts \ {c}) : d.ev = c.ev
    BY <2>1, <2>2, <2>3, SendNextEffect
  <2> QED
    BY <2>4, OldStays
<1>10. ASSUME NEW s \in Sockets,
             Refuse(s)
      PROVE  CastsOld'
  BY <1>10, OldStays DEF Refuse
<1>11. ASSUME NEW s \in Sockets,
             Register(s)
      PROVE  CastsOld'
  BY <1>11, OldStays DEF Register
<1>12. ASSUME NEW r \in Runs,
             ReadSnapshot(r)
      PROVE  CastsOld'
  BY <1>12, OldStays DEF ReadSnapshot
<1>13. ASSUME NEW s \in Sockets,
             SendSnapshot(s)
      PROVE  CastsOld'
  BY <1>13, OldStays DEF SendSnapshot
<1>14. ASSUME NEW s \in Sockets,
             Greet(s)
      PROVE  CastsOld'
  BY <1>14, OldStays DEF Greet
<1>15. ASSUME NEW s \in Sockets,
             Disconnect(s)
      PROVE  CastsOld'
  BY <1>15, OldStays DEF Disconnect
<1>16. ASSUME NEW s \in Sockets,
             Lose(s)
      PROVE  CastsOld'
  BY <1>16, OldStays DEF Lose
<1> HIDE DEF FeedInv, TypeOK
<1> QED
  BY <1>1, <1>2, <1>3, <1>4, <1>5, <1>6, <1>7, <1>8, <1>9,
     <1>10, <1>11, <1>12, <1>13, <1>14, <1>15, <1>16, NextCases DEF FeedInv

\* A snapshot is no newer than the records.
LEMMA SnapOldKept ==
  ASSUME FeedInv, Next
  PROVE  SnapOld'
<1> USE DEF registryVars, threadVars, hubVars, socketVars, SnapOld, NoNewer
<1>1. ASSUME NEW r \in Runs,
             CreateTask(r)
      PROVE  SnapOld'
  BY <1>1, OldStays DEF CreateTask
<1>2. ASSUME NEW t \in Threads, NEW r \in Runs,
             UpdateTask(t, r)
      PROVE  SnapOld'
  BY <1>2, OldStays DEF UpdateTask
<1>3. ASSUME NEW t \in Threads, NEW r \in Runs,
             AppendLog(t, r)
      PROVE  SnapOld'
  BY <1>3, OldStays DEF AppendLog
<1>4. ASSUME NEW t \in Threads, NEW kind \in {"task", "queues"},
             NEW R \in SUBSET Runs,
             Announce(t, kind, R)
      PROVE  SnapOld'
  BY <1>4, OldStays DEF Announce
<1>5. ASSUME NEW t \in Threads, NEW r \in Runs,
             ReadRecord(t, r)
      PROVE  SnapOld'
  BY <1>5, OldStays DEF ReadRecord
<1>6. ASSUME NEW t \in Threads,
             Emit(t)
      PROVE  SnapOld'
  BY <1>6, OldStays DEF Emit
<1>7. ASSUME Hop
      PROVE  SnapOld'
  BY <1>7, OldStays DEF Hop
<1>8. ASSUME StartBroadcast
      PROVE  SnapOld'
  BY <1>8, StartIsSend, OldStays
<1>9. ASSUME ContinueBroadcast
      PROVE  SnapOld'
  BY <1>9, OldStays DEF ContinueBroadcast
<1>10. ASSUME NEW s \in Sockets,
             Refuse(s)
      PROVE  SnapOld'
  BY <1>10, OldStays DEF Refuse
<1>11. ASSUME NEW s \in Sockets,
             Register(s)
      PROVE  SnapOld'
  BY <1>11 DEF Register, NoRuns
<1>12. ASSUME NEW r \in Runs,
             ReadSnapshot(r)
      PROVE  SnapOld'
  <2>1. version[r] \in Nat /\ version' = version
    BY <1>12 DEF ReadSnapshot, FeedInv, TypeOK
  <2>2. snap'.of = Put(snap.of, r, version[r])
    BY <1>12 DEF ReadSnapshot
  <2> QED
    BY <2>1, <2>2, OldStays DEF Put
<1>13. ASSUME NEW s \in Sockets,
             SendSnapshot(s)
      PROVE  SnapOld'
  BY <1>13 DEF SendSnapshot, NoSnap, NoRuns
<1>14. ASSUME NEW s \in Sockets,
             Greet(s)
      PROVE  SnapOld'
  BY <1>14, OldStays DEF Greet
<1>15. ASSUME NEW s \in Sockets,
             Disconnect(s)
      PROVE  SnapOld'
  BY <1>15, OldStays DEF Disconnect
<1>16. ASSUME NEW s \in Sockets,
             Lose(s)
      PROVE  SnapOld'
  BY <1>16, OldStays DEF Lose
<1> HIDE DEF FeedInv, TypeOK
<1> QED
  BY <1>1, <1>2, <1>3, <1>4, <1>5, <1>6, <1>7, <1>8, <1>9,
     <1>10, <1>11, <1>12, <1>13, <1>14, <1>15, <1>16, NextCases DEF FeedInv

\* What was sent is no newer than the records.
LEMMA SentIsOldKept ==
  ASSUME FeedInv, Next
  PROVE  SentIsOld'
<1> USE DEF registryVars, threadVars, hubVars, socketVars, SentIsOld, NoNewer
<1>1. ASSUME NEW r \in Runs,
             CreateTask(r)
      PROVE  SentIsOld'
  BY <1>1, OldStays DEF CreateTask
<1>2. ASSUME NEW t \in Threads, NEW r \in Runs,
             UpdateTask(t, r)
      PROVE  SentIsOld'
  BY <1>2, OldStays DEF UpdateTask
<1>3. ASSUME NEW t \in Threads, NEW r \in Runs,
             AppendLog(t, r)
      PROVE  SentIsOld'
  BY <1>3, OldStays DEF AppendLog
<1>4. ASSUME NEW t \in Threads, NEW kind \in {"task", "queues"},
             NEW R \in SUBSET Runs,
             Announce(t, kind, R)
      PROVE  SentIsOld'
  BY <1>4, OldStays DEF Announce
<1>5. ASSUME NEW t \in Threads, NEW r \in Runs,
             ReadRecord(t, r)
      PROVE  SentIsOld'
  BY <1>5, OldStays DEF ReadRecord
<1>6. ASSUME NEW t \in Threads,
             Emit(t)
      PROVE  SentIsOld'
  BY <1>6, OldStays DEF Emit
<1>7. ASSUME Hop
      PROVE  SentIsOld'
  BY <1>7, OldStays DEF Hop
<1>8. ASSUME StartBroadcast
      PROVE  SentIsOld'
  <2> DEFINE first == [ev |-> Head(ready).ev, left |-> clients, dead |-> {}]
  <2>1. first \in Cast /\ first.ev = ready[1].ev /\ 1 \in DOMAIN ready
    BY <1>8, StartIsSend DEF FeedInv, TypeOK
  <2>2. casts \in SUBSET Cast /\ TypeOK /\ (\A x \in first.dead : lost[x])
    BY DEF FeedInv, TypeOK
  <2>3. CASE UNCHANGED <<casts, clients, table, sent>>
    BY <2>3, OldStays
  <2>4. CASE SendNext(first, casts)
    <3>1. PICK s \in clients : Send(s, first.ev)
      BY <2>1, <2>2, <2>4, SendNextEffect
    <3>2. s \in Sockets /\ first.ev \in Event /\ version' = version
      BY <1>8, <2>1, StartIsSend DEF FeedInv, TypeOK, Cast
    <3>3. NoNewer(first.ev.of)
      BY <2>1 DEF FeedInv, NothingNewer
    <3> HIDE DEF first
    <3> QED
      BY <3>1, <3>2, <3>3, SentOld
  <2> QED
    BY <1>8, <2>3, <2>4, StartIsSend
<1>9. ASSUME ContinueBroadcast
      PROVE  SentIsOld'
  <2>1. PICK c \in casts : SendNext(c, casts \ {c})
    BY <1>9 DEF ContinueBroadcast
  <2>2. c \in Cast /\ casts \ {c} \in SUBSET Cast /\ TypeOK
    BY DEF FeedInv, TypeOK
  <2>3. \A x \in c.dead : lost[x]
    BY DEF FeedInv, DeadAreLost
  <2>4. PICK s \in c.left : Send(s, c.ev)
    BY <2>1, <2>2, <2>3, SendNextEffect
  <2>5. s \in Sockets /\ c.ev \in Event /\ version' = version
    BY <1>9, <2>2 DEF ContinueBroadcast, Cast
  <2>6. NoNewer(c.ev.of)
    BY DEF FeedInv, NothingNewer
  <2> QED
    BY <2>4, <2>5, <2>6, SentOld
<1>10. ASSUME NEW s \in Sockets,
             Refuse(s)
      PROVE  SentIsOld'
  BY <1>10, OldStays DEF Refuse
<1>11. ASSUME NEW s \in Sockets,
             Register(s)
      PROVE  SentIsOld'
  BY <1>11, OldStays DEF Register
<1>12. ASSUME NEW r \in Runs,
             ReadSnapshot(r)
      PROVE  SentIsOld'
  BY <1>12, OldStays DEF ReadSnapshot
<1>13. ASSUME NEW s \in Sockets,
             SendSnapshot(s)
      PROVE  SentIsOld'
  <2> DEFINE m == [kind |-> "snapshot", of |-> snap.of]
  <2>1. m \in Event /\ NoNewer(m.of)
    BY DEF FeedInv, TypeOK, NothingNewer, Event, Kind
  <2>2. Send(s, m) /\ version' = version
    BY <1>13 DEF SendSnapshot
  <2> HIDE DEF m
  <2> QED
    BY <2>1, <2>2, SentOld
<1>14. ASSUME NEW s \in Sockets,
             Greet(s)
      PROVE  SentIsOld'
  BY <1>14, OldStays DEF Greet
<1>15. ASSUME NEW s \in Sockets,
             Disconnect(s)
      PROVE  SentIsOld'
  BY <1>15, OldStays DEF Disconnect
<1>16. ASSUME NEW s \in Sockets,
             Lose(s)
      PROVE  SentIsOld'
  <2>1. \A x \in Runs : Nothing[x] <= version'[x] /\ DOMAIN Nothing = Runs
    BY VersionGrows DEF Nothing
  <2>2. \A y \in Sockets : sent'[y] = IF y = s THEN Nothing ELSE sent[y]
    BY <1>16 DEF Lose, FeedInv, TypeOK
  <2> QED
    BY <2>1, <2>2, OldStays DEF Nothing
<1> HIDE DEF FeedInv, TypeOK
<1> QED
  BY <1>1, <1>2, <1>3, <1>4, <1>5, <1>6, <1>7, <1>8, <1>9,
     <1>10, <1>11, <1>12, <1>13, <1>14, <1>15, <1>16, NextCases DEF FeedInv

\* Nothing on its way or sent is newer than the records.
LEMMA NothingNewerKept ==
  ASSUME FeedInv, Next
  PROVE  NothingNewer'
BY EmittedOldKept, ReadyOldKept, CastsOldKept, SnapOldKept, SentIsOldKept
   DEF NothingNewer, EmittedOld, ReadyOld, CastsOld, SnapOld, SentIsOld

\* What is scheduled, after the steps that change the queue.
LEMMA ScheduledAppend ==
  ASSUME FeedInv, NEW x, NEW v, NEW e, ready' = Append(ready, e)
  PROVE  Scheduled(x, v) \/ Says(e.ev, x, v)
         => \E i \in DOMAIN ready' : Says(ready'[i].ev, x, v)
<1>1. ready \in Seq(Callback)
  BY DEF FeedInv, TypeOK
<1>2. /\ Len(ready) \in Nat /\ DOMAIN ready = 1 .. Len(ready)
      /\ DOMAIN ready' = 1 .. Len(ready) + 1
      /\ \A i \in 1 .. Len(ready) : ready'[i] = ready[i]
      /\ ready'[Len(ready) + 1] = e
  BY <1>1
<1>3. /\ Len(ready) + 1 \in 1 .. Len(ready) + 1
      /\ 1 .. Len(ready) \subseteq 1 .. Len(ready) + 1
  BY <1>2
<1> QED
  BY <1>2, <1>3 DEF Scheduled

LEMMA ScheduledTail ==
  ASSUME FeedInv, NEW x, NEW v, ready # <<>>, Scheduled(x, v)
  PROVE  \/ \E i \in 1 .. Len(ready) - 1 :
              /\ i \in DOMAIN Tail(ready)
              /\ Says(Tail(ready)[i].ev, x, v)
         \/ Says(Head(ready).ev, x, v)
<1>1. ready \in Seq(Callback)
  BY DEF FeedInv, TypeOK
<1>2. /\ Len(ready) \in Nat \ {0} /\ DOMAIN ready = 1 .. Len(ready)
      /\ DOMAIN Tail(ready) = 1 .. Len(ready) - 1
      /\ \A i \in 1 .. Len(ready) - 1 : Tail(ready)[i] = ready[i + 1]
      /\ Head(ready) = ready[1]
  BY <1>1
<1>3. PICK i \in 1 .. Len(ready) : Says(ready[i].ev, x, v)
  BY <1>2 DEF Scheduled
<1>4. CASE i = 1
  BY <1>2, <1>3, <1>4
<1>5. CASE i # 1
  <2>1. i - 1 \in 1 .. Len(ready) - 1 /\ (i - 1) + 1 = i
    BY <1>2, <1>5
  <2> QED
    BY <1>2, <1>3, <2>1
<1> QED
  BY <1>4, <1>5

LEMMA ScheduledHop ==
  ASSUME FeedInv, Hop, NEW x, NEW v, Scheduled(x, v)
  PROVE  \E i \in DOMAIN ready' : Says(ready'[i].ev, x, v)
<1> DEFINE e == [hop |-> FALSE, ev |-> Head(ready).ev]
           q == Tail(ready)
<1>1. ready \in Seq(Callback) /\ ready # <<>> /\ ready' = Append(q, e)
  BY DEF FeedInv, TypeOK, Hop
<1>2. /\ Len(ready) \in Nat \ {0}
      /\ q \in Seq(Callback) /\ Len(q) = Len(ready) - 1
  BY <1>1
<1>3. e.ev = Head(ready).ev
  OBVIOUS
<1> HIDE DEF e, q
<1>4. /\ DOMAIN ready' = 1 .. Len(ready)
      /\ \A i \in 1 .. Len(ready) - 1 : ready'[i] = q[i]
      /\ ready'[Len(ready)] = e
      /\ Len(ready) \in 1 .. Len(ready)
      /\ 1 .. Len(ready) - 1 \subseteq 1 .. Len(ready)
  BY <1>1, <1>2
<1> QED
  BY <1>1, <1>3, <1>4, ScheduledTail DEF q

\* What a client was sent of a run stays the newest there is of it.
LEMMA SentKeeps ==
  ASSUME FeedInv, NEW y \in Sockets, NEW m \in Event, Send(y, m),
         NoNewer(m.of), NEW s \in Sockets, NEW x \in Runs,
         sent[s][x] = version[x]
  PROVE  sent'[s][x] = version[x]
<1>1. TypeOK /\ m.of \in Content /\ version[x] \in Nat
  BY DEF FeedInv, Event, TypeOK
<1>2. CASE sent'[s] = sent[s]
  BY <1>2
<1>3. CASE s = y /\ sent'[s] = Newer(sent[s], m.of)
  <2>1. Newer(sent[s], m.of)[x] =
          IF x \in DOMAIN m.of /\ m.of[x] > sent[s][x] THEN m.of[x]
          ELSE sent[s][x]
    BY DEF Newer
  <2>2. x \in DOMAIN m.of => m.of[x] \in Nat /\ m.of[x] <= version[x]
    BY <1>1, ContentType DEF NoNewer
  <2> QED
    BY <1>1, <1>3, <2>1, <2>2
<1> QED
  BY <1>1, <1>2, <1>3, SendType

LEMMA SentBrings ==
  ASSUME FeedInv, NEW s \in Sockets, NEW m \in Event, Send(s, m), ~lost[s],
         NEW x \in Runs, x \in DOMAIN m.of, m.of[x] = version[x]
  PROVE  sent'[s][x] = version[x]
<1>1. TypeOK /\ m.of \in Content /\ version[x] \in Nat
  BY DEF FeedInv, Event, TypeOK
<1>2. sent[s][x] \in Nat /\ sent[s][x] <= version[x]
  <2>1. sent[s] \in [Runs -> 0 .. MaxOps]
    BY <1>1 DEF TypeOK
  <2> QED
    BY <2>1 DEF FeedInv, NothingNewer, NoNewer
<1>3. sent'[s] = Newer(sent[s], m.of)
  BY <1>1, SendType
<1> QED
  BY <1>1, <1>2, <1>3 DEF Newer

\* What is to be emitted still is after an operation of an idle thread.
LEMMA BeginKeeps ==
  ASSUME FeedInv, NEW t \in Threads, op[t] = NoOp, NEW o,
         op' = [op EXCEPT ![t] = o], NEW x, NEW v, ToBeEmitted(x, v)
  PROVE  \E u \in Threads :
           \/ x \in op'[u].to
           \/ x \in DOMAIN op'[u].of /\ op'[u].of[x] = v
<1>1. PICK u \in Threads :
        \/ x \in op[u].to
        \/ x \in DOMAIN op[u].of /\ op[u].of[x] = v
  BY DEF ToBeEmitted
<1>2. u # t
  BY <1>1 DEF NoOp, NoRuns
<1>3. op'[u] = op[u]
  BY <1>2 DEF FeedInv, TypeOK
<1> QED
  BY <1>1, <1>3

\* Every step keeps what a client lacks on its way.
LEMMA NothingMissedKept ==
  ASSUME FeedInv, Next
  PROVE  NothingMissed'
<1> USE DEF registryVars, threadVars, hubVars, socketVars
<1>1. ASSUME NEW r \in Runs,
             CreateTask(r)
      PROVE  NothingMissed'
  <2> SUFFICES ASSUME NEW z \in Sockets, NEW x \in Runs, Connected(z)',
                      InHistory(x)'
               PROVE  sent'[z][x] = version'[x] \/ Coming(z, x)'
    BY DEF NothingMissed
  <2>1. CASE x = r
    <3>1. op'[Loop].to = {r} /\ Loop \in Threads
      BY <1>1 DEF CreateTask, Begin, FeedInv, TypeOK, Threads
    <3> QED
      BY <2>1, <3>1 DEF Coming, ToBeEmitted
  <2>2. CASE x # r
    <3>1. Connected(z) /\ version'[x] = version[x]
      BY <1>1, <2>2 DEF CreateTask, Connected, FeedInv, TypeOK
    <3>2. InHistory(x)
      <4>1. PICK i \in DOMAIN order' : order'[i] = x
        BY DEF InHistory
      <4>2. order \in Seq(Runs) /\ Len(order) <= MaxHistory
        BY DEF FeedInv, TypeOK
      <4>3. \/ order'[i] = r
            \/ \E j \in DOMAIN order : order'[i] = order[j]
        BY <1>1, <4>1, <4>2, OrderType DEF CreateTask
      <4> QED
        BY <2>2, <4>1, <4>3 DEF InHistory
    <3>3. \/ sent[z][x] = version[x] \/ ToBeEmitted(x, version[x])
          \/ Scheduled(x, version[x]) \/ BeingSent(z, x, version[x])
          \/ InSnapshot(z, x, version[x])
      BY <3>1, <3>2 DEF FeedInv, NothingMissed, Coming
    <3>4. /\ ready' = Append(ready, Entry(Loop, LogEvent(r)))
          /\ op[Loop] = NoOp /\ Loop \in Threads
          /\ op' = [op EXCEPT ![Loop] = [kind |-> "task", to |-> {r},
                                        of |-> NoRuns]]
          /\ UNCHANGED <<casts, sock, snap, sent>>
      BY <1>1 DEF CreateTask, MayAct, Begin, Threads
    <3>5. CASE ToBeEmitted(x, version[x])
      <4>1. \E u \in Threads :
             \/ x \in op'[u].to
             \/ x \in DOMAIN op'[u].of /\ op'[u].of[x] = version[x]
        BY <3>4, <3>5, BeginKeeps
      <4> QED
        BY <3>1, <4>1 DEF Coming, ToBeEmitted
    <3>6. CASE Scheduled(x, version[x])
      BY <3>1, <3>4, <3>6, ScheduledAppend DEF Coming, Scheduled
    <3> QED
      BY <3>1, <3>3, <3>4, <3>5, <3>6 DEF Coming, BeingSent, InSnapshot
  <2> QED
    BY <2>1, <2>2
<1>2. ASSUME NEW t \in Threads, NEW r \in Runs,
             UpdateTask(t, r)
      PROVE  NothingMissed'
  <2> SUFFICES ASSUME NEW z \in Sockets, NEW x \in Runs, Connected(z)',
                      InHistory(x)'
               PROVE  sent'[z][x] = version'[x] \/ Coming(z, x)'
    BY DEF NothingMissed
  <2>1. CASE x = r
    <3>1. op'[t].to = {r}
      BY <1>2 DEF UpdateTask, Begin, FeedInv, TypeOK
    <3> QED
      BY <2>1, <3>1 DEF Coming, ToBeEmitted
  <2>2. CASE x # r
    <3>1. Connected(z) /\ InHistory(x) /\ version'[x] = version[x]
      BY <1>2, <2>2 DEF UpdateTask, Connected, InHistory, FeedInv, TypeOK
    <3>2. \/ sent[z][x] = version[x] \/ ToBeEmitted(x, version[x])
          \/ Scheduled(x, version[x]) \/ BeingSent(z, x, version[x])
          \/ InSnapshot(z, x, version[x])
      BY <3>1 DEF FeedInv, NothingMissed, Coming
    <3>3. /\ op[t] = NoOp
          /\ op' = [op EXCEPT ![t] = [kind |-> "task", to |-> {r},
                                     of |-> NoRuns]]
          /\ UNCHANGED <<ready, casts, sock, snap, sent>>
      BY <1>2 DEF UpdateTask, MayAct, Begin
    <3>4. CASE ToBeEmitted(x, version[x])
      <4>1. \E u \in Threads :
             \/ x \in op'[u].to
             \/ x \in DOMAIN op'[u].of /\ op'[u].of[x] = version[x]
        BY <3>3, <3>4, BeginKeeps
      <4> QED
        BY <3>1, <4>1 DEF Coming, ToBeEmitted
    <3> QED
      BY <3>1, <3>2, <3>3, <3>4 DEF Coming, Scheduled, BeingSent, InSnapshot
  <2> QED
    BY <2>1, <2>2
<1>3. ASSUME NEW t \in Threads, NEW r \in Runs,
             AppendLog(t, r)
      PROVE  NothingMissed'
  <2> SUFFICES ASSUME NEW z \in Sockets, NEW x \in Runs, Connected(z)',
                      InHistory(x)'
               PROVE  sent'[z][x] = version'[x] \/ Coming(z, x)'
    BY DEF NothingMissed
  <2>1. Connected(z) /\ InHistory(x)
    BY <1>3 DEF AppendLog, Connected, InHistory, FeedInv, TypeOK
  <2>2. \/ sent[z][x] = version[x] \/ ToBeEmitted(x, version[x])
        \/ Scheduled(x, version[x]) \/ BeingSent(z, x, version[x])
        \/ InSnapshot(z, x, version[x])
    BY <2>1 DEF FeedInv, NothingMissed, Coming
  <2>3. /\ ready' = Append(ready, Entry(t, LogEvent(r)))
        /\ UNCHANGED <<version, op, casts, sock, snap, sent>>
    BY <1>3 DEF AppendLog
  <2>4. CASE Scheduled(x, version[x])
    BY <2>3, <2>4, ScheduledAppend DEF Coming, Scheduled
  <2> QED
    BY <2>2, <2>3, <2>4 DEF Coming, ToBeEmitted, BeingSent, InSnapshot
<1>4. ASSUME NEW t \in Threads, NEW kind \in {"task", "queues"},
             NEW R \in SUBSET Runs,
             Announce(t, kind, R)
      PROVE  NothingMissed'
  <2> SUFFICES ASSUME NEW z \in Sockets, NEW x \in Runs, Connected(z)',
                      InHistory(x)'
               PROVE  sent'[z][x] = version'[x] \/ Coming(z, x)'
    BY DEF NothingMissed
  <2>1. Connected(z) /\ InHistory(x)
    BY <1>4 DEF Announce, Connected, InHistory, FeedInv, TypeOK
  <2>2. \/ sent[z][x] = version[x] \/ ToBeEmitted(x, version[x])
        \/ Scheduled(x, version[x]) \/ BeingSent(z, x, version[x])
        \/ InSnapshot(z, x, version[x])
    BY <2>1 DEF FeedInv, NothingMissed, Coming
  <2>3. /\ op[t] = NoOp
        /\ op' = [op EXCEPT ![t] = [kind |-> kind, to |-> R, of |-> NoRuns]]
        /\ UNCHANGED <<version, ready, casts, sock, snap, sent>>
    BY <1>4 DEF Announce, MayAct, Begin
  <2>4. CASE ToBeEmitted(x, version[x])
    <3>1. \E u \in Threads :
           \/ x \in op'[u].to
           \/ x \in DOMAIN op'[u].of /\ op'[u].of[x] = version[x]
      BY <2>3, <2>4, BeginKeeps
    <3> QED
      BY <2>3, <3>1 DEF Coming, ToBeEmitted
  <2> QED
    BY <2>2, <2>3, <2>4 DEF Coming, Scheduled, BeingSent, InSnapshot
<1>5. ASSUME NEW t \in Threads, NEW r \in Runs,
             ReadRecord(t, r)
      PROVE  NothingMissed'
  <2> SUFFICES ASSUME NEW z \in Sockets, NEW x \in Runs, Connected(z)',
                      InHistory(x)'
               PROVE  sent'[z][x] = version'[x] \/ Coming(z, x)'
    BY DEF NothingMissed
  <2>1. Connected(z) /\ InHistory(x)
    BY <1>5 DEF ReadRecord, Connected, InHistory, FeedInv, TypeOK
  <2>2. \/ sent[z][x] = version[x] \/ ToBeEmitted(x, version[x])
        \/ Scheduled(x, version[x]) \/ BeingSent(z, x, version[x])
        \/ InSnapshot(z, x, version[x])
    BY <2>1 DEF FeedInv, NothingMissed, Coming
  <2>3. /\ \A u \in Threads \ {t} : op'[u] = op[u]
        /\ op'[t].to = op[t].to \ {r}
        /\ op'[t].of = Put(op[t].of, r, version[r])
        /\ UNCHANGED <<version, ready, casts, sock, snap, sent>>
    BY <1>5 DEF ReadRecord, FeedInv, TypeOK, Emission
  <2>4. CASE ToBeEmitted(x, version[x])
    <3>1. PICK u \in Threads :
            \/ x \in op[u].to
            \/ x \in DOMAIN op[u].of /\ op[u].of[x] = version[x]
      BY <2>4 DEF ToBeEmitted
    <3>2. \/ x \in op'[u].to
          \/ x \in DOMAIN op'[u].of /\ op'[u].of[x] = version[x]
      BY <2>3, <3>1 DEF Put
    <3> QED
      BY <2>3, <3>2 DEF Coming, ToBeEmitted
  <2> QED
    BY <2>2, <2>3, <2>4 DEF Coming, Scheduled, BeingSent, InSnapshot
<1>6. ASSUME NEW t \in Threads,
             Emit(t)
      PROVE  NothingMissed'
  <2> SUFFICES ASSUME NEW z \in Sockets, NEW x \in Runs, Connected(z)',
                      InHistory(x)'
               PROVE  sent'[z][x] = version'[x] \/ Coming(z, x)'
    BY DEF NothingMissed
  <2>1. Connected(z) /\ InHistory(x)
    BY <1>6 DEF Emit, Connected, InHistory, FeedInv, TypeOK
  <2>2. \/ sent[z][x] = version[x] \/ ToBeEmitted(x, version[x])
        \/ Scheduled(x, version[x]) \/ BeingSent(z, x, version[x])
        \/ InSnapshot(z, x, version[x])
    BY <2>1 DEF FeedInv, NothingMissed, Coming
  <2> DEFINE ev == [kind |-> op[t].kind, of |-> op[t].of]
  <2>3. /\ op[t] # NoOp /\ op[t].to = {}
        /\ \A u \in Threads \ {t} : op'[u] = op[u]
        /\ ready' = Append(ready, Entry(t, ev))
        /\ UNCHANGED <<version, casts, sock, snap, sent>>
    BY <1>6 DEF Emit, FeedInv, TypeOK
  <2>4. op[t].kind \in {"task", "queues"}
    BY <2>3 DEF FeedInv, TypeOK, IdleIsEmpty, Emission
  <2>5. CASE ToBeEmitted(x, version[x])
    <3>1. PICK u \in Threads :
            \/ x \in op[u].to
            \/ x \in DOMAIN op[u].of /\ op[u].of[x] = version[x]
      BY <2>5 DEF ToBeEmitted
    <3>2. CASE u = t
      <4>1. Says(Entry(t, ev).ev, x, version[x])
        BY <2>3, <2>4, <3>1, <3>2 DEF Entry, Says
      <4> HIDE DEF ev
      <4> QED
        BY <2>3, <4>1, ScheduledAppend DEF Coming, Scheduled
    <3>3. CASE u # t
      BY <2>3, <3>1, <3>3 DEF Coming, ToBeEmitted
    <3> QED
      BY <3>2, <3>3
  <2>6. CASE Scheduled(x, version[x])
    BY <2>3, <2>6, ScheduledAppend DEF Coming, Scheduled
  <2> QED
    BY <2>2, <2>3, <2>5, <2>6 DEF Coming, BeingSent, InSnapshot
<1>7. ASSUME Hop
      PROVE  NothingMissed'
  <2> SUFFICES ASSUME NEW z \in Sockets, NEW x \in Runs, Connected(z)',
                      InHistory(x)'
               PROVE  sent'[z][x] = version'[x] \/ Coming(z, x)'
    BY DEF NothingMissed
  <2>1. Connected(z) /\ InHistory(x)
    BY <1>7 DEF Hop, Connected, InHistory, FeedInv, TypeOK
  <2>2. \/ sent[z][x] = version[x] \/ ToBeEmitted(x, version[x])
        \/ Scheduled(x, version[x]) \/ BeingSent(z, x, version[x])
        \/ InSnapshot(z, x, version[x])
    BY <2>1 DEF FeedInv, NothingMissed, Coming
  <2>3. UNCHANGED <<version, op, casts, sock, snap, sent>>
    BY <1>7 DEF Hop
  <2>4. CASE Scheduled(x, version[x])
    BY <1>7, <2>3, <2>4, ScheduledHop DEF Coming, Scheduled
  <2> QED
    BY <2>2, <2>3, <2>4 DEF Coming, ToBeEmitted, BeingSent, InSnapshot
<1>8. ASSUME StartBroadcast
      PROVE  NothingMissed'
  <2> SUFFICES ASSUME NEW z \in Sockets, NEW x \in Runs, Connected(z)',
                      InHistory(x)'
               PROVE  sent'[z][x] = version'[x] \/ Coming(z, x)'
    BY DEF NothingMissed
  <2>1. Connected(z) /\ InHistory(x)
    BY <1>8, StartIsSend DEF StartBroadcast, Connected, InHistory, FeedInv,
      TypeOK
  <2>2. \/ sent[z][x] = version[x] \/ ToBeEmitted(x, version[x])
        \/ Scheduled(x, version[x]) \/ BeingSent(z, x, version[x])
        \/ InSnapshot(z, x, version[x])
    BY <2>1 DEF FeedInv, NothingMissed, Coming
  <2> DEFINE first == [ev |-> Head(ready).ev, left |-> clients, dead |-> {}]
  <2>3. /\ UNCHANGED <<version, op, sock, snap>>
        /\ ready # <<>> /\ ready' = Tail(ready)
        /\ first \in Cast /\ first.ev = ready[1].ev /\ 1 \in DOMAIN ready
    BY <1>8, StartIsSend DEF FeedInv, TypeOK
  <2>4. casts \in SUBSET Cast /\ TypeOK /\ (\A y \in first.dead : lost[y])
    BY DEF FeedInv, TypeOK
  <2>5. z \in clients /\ ~lost[z]
    BY <2>1 DEF FeedInv, ConnectedAreClients, Connected
  <2>6. SendNext(first, casts)
    BY <1>8, <2>5, StartIsSend
  <2>7. PICK y \in clients :
          /\ Send(y, first.ev)
          /\ casts \subseteq casts'
          /\ \A w \in clients \ {y} :
               \E d \in casts' : d.ev = first.ev /\ w \in d.left
    BY <2>3, <2>4, <2>6, SendNextEffect
  <2>8. first.ev \in Event /\ y \in Sockets /\ first.ev.of \in Content
    BY <2>3 DEF FeedInv, TypeOK, Cast, Event
  <2>9. NoNewer(first.ev.of)
    BY <2>3 DEF FeedInv, NothingNewer
  <2>10. Head(ready).ev = first.ev
    OBVIOUS
  <2> HIDE DEF first
  <2>11. CASE sent[z][x] = version[x]
    BY <2>3, <2>7, <2>8, <2>9, <2>11, SentKeeps
  <2>12. CASE Says(first.ev, x, version[x])
    <3>1. CASE y = z
      BY <2>3, <2>5, <2>7, <2>8, <2>12, <3>1, SentBrings DEF Says
    <3>2. CASE y # z
      BY <2>3, <2>5, <2>7, <2>12, <3>2 DEF Coming, BeingSent
    <3> QED
      BY <3>1, <3>2
  <2>13. CASE Scheduled(x, version[x])
    BY <2>3, <2>10, <2>12, <2>13, ScheduledTail DEF Coming, Scheduled
  <2>14. CASE BeingSent(z, x, version[x])
    BY <2>3, <2>7, <2>14 DEF Coming, BeingSent
  <2> QED
    BY <2>2, <2>3, <2>11, <2>13, <2>14 DEF Coming, ToBeEmitted, InSnapshot
<1>9. ASSUME ContinueBroadcast
      PROVE  NothingMissed'
  <2> SUFFICES ASSUME NEW z \in Sockets, NEW x \in Runs, Connected(z)',
                      InHistory(x)'
               PROVE  sent'[z][x] = version'[x] \/ Coming(z, x)'
    BY DEF NothingMissed
  <2>1. Connected(z) /\ InHistory(x)
    BY <1>9 DEF ContinueBroadcast, Connected, InHistory, FeedInv, TypeOK
  <2>2. \/ sent[z][x] = version[x] \/ ToBeEmitted(x, version[x])
        \/ Scheduled(x, version[x]) \/ BeingSent(z, x, version[x])
        \/ InSnapshot(z, x, version[x])
    BY <2>1 DEF FeedInv, NothingMissed, Coming
  <2>3. PICK c \in casts : SendNext(c, casts \ {c})
    BY <1>9 DEF ContinueBroadcast
  <2>4. c \in Cast /\ casts \ {c} \in SUBSET Cast /\ TypeOK
    BY DEF FeedInv, TypeOK
  <2>5. \A y \in c.dead : lost[y]
    BY DEF FeedInv, DeadAreLost
  <2>6. PICK y \in c.left :
          /\ Send(y, c.ev)
          /\ casts \ {c} \subseteq casts'
          /\ \A w \in c.left \ {y} :
               \E d \in casts' : d.ev = c.ev /\ w \in d.left
    BY <2>3, <2>4, <2>5, SendNextEffect
  <2>7. c.ev \in Event /\ y \in Sockets /\ NoNewer(c.ev.of)
    BY <2>4 DEF FeedInv, Cast, NothingNewer
  <2>8. UNCHANGED <<version, op, ready, sock, snap>> /\ ~lost[z]
    BY <1>9, <2>1 DEF ContinueBroadcast, Connected
  <2>9. CASE sent[z][x] = version[x]
    BY <2>6, <2>7, <2>8, <2>9, SentKeeps
  <2>10. CASE BeingSent(z, x, version[x])
    <3>1. PICK d \in casts : z \in d.left /\ Says(d.ev, x, version[x])
      BY <2>10 DEF BeingSent
    <3>2. CASE d # c
      BY <2>6, <2>8, <3>1, <3>2 DEF Coming, BeingSent
    <3>3. CASE d = c /\ y = z
      BY <2>6, <2>7, <2>8, <3>1, <3>3, SentBrings DEF Says
    <3>4. CASE d = c /\ y # z
      BY <2>6, <2>8, <3>1, <3>4 DEF Coming, BeingSent
    <3> QED
      BY <3>2, <3>3, <3>4
  <2> QED
    BY <2>2, <2>8, <2>9, <2>10 DEF Coming, ToBeEmitted, Scheduled, InSnapshot
<1>10. ASSUME NEW s \in Sockets,
             Refuse(s)
      PROVE  NothingMissed'
  <2> SUFFICES ASSUME NEW z \in Sockets, NEW x \in Runs, Connected(z)',
                      InHistory(x)'
               PROVE  sent'[z][x] = version'[x] \/ Coming(z, x)'
    BY DEF NothingMissed
  <2>1. Connected(z) /\ InHistory(x)
    BY <1>10 DEF Refuse, Connected, InHistory, FeedInv, TypeOK
  <2>2. \/ sent[z][x] = version[x] \/ ToBeEmitted(x, version[x])
        \/ Scheduled(x, version[x]) \/ BeingSent(z, x, version[x])
        \/ InSnapshot(z, x, version[x])
    BY <2>1 DEF FeedInv, NothingMissed, Coming
  <2>3. /\ UNCHANGED <<version, op, ready, casts, snap, sent>>
        /\ sock[z] = "snapshot" => sock'[z] = "snapshot"
    BY <1>10 DEF Refuse, LoopIsFree, FeedInv, TypeOK
  <2> QED
    BY <2>2, <2>3 DEF Coming, ToBeEmitted, Scheduled, BeingSent, InSnapshot
<1>11. ASSUME NEW s \in Sockets,
             Register(s)
      PROVE  NothingMissed'
  <2> SUFFICES ASSUME NEW z \in Sockets, NEW x \in Runs, Connected(z)',
                      InHistory(x)'
               PROVE  sent'[z][x] = version'[x] \/ Coming(z, x)'
    BY DEF NothingMissed
  <2>1. InHistory(x) /\ UNCHANGED <<version, op, ready, casts, sent>>
    BY <1>11 DEF Register, InHistory
  <2>2. CASE z = s
    <3>1. sock'[z] = "snapshot" /\ x \in snap'.to
      BY <1>11, <2>1, <2>2 DEF Register, FeedInv, TypeOK
    <3> QED
      BY <3>1 DEF Coming, InSnapshot
  <2>3. CASE z # s
    <3>1. Connected(z) /\ sock[z] # "snapshot"
      BY <1>11, <2>3 DEF Register, LoopIsFree, Connected, FeedInv, TypeOK
    <3> QED
      BY <2>1, <3>1 DEF FeedInv, NothingMissed, Coming, ToBeEmitted,
        Scheduled, BeingSent, InSnapshot
  <2> QED
    BY <2>2, <2>3
<1>12. ASSUME NEW r \in Runs,
             ReadSnapshot(r)
      PROVE  NothingMissed'
  <2> SUFFICES ASSUME NEW z \in Sockets, NEW x \in Runs, Connected(z)',
                      InHistory(x)'
               PROVE  sent'[z][x] = version'[x] \/ Coming(z, x)'
    BY DEF NothingMissed
  <2>1. Connected(z) /\ InHistory(x)
    BY <1>12 DEF ReadSnapshot, Connected, InHistory, FeedInv, TypeOK
  <2>2. \/ sent[z][x] = version[x] \/ ToBeEmitted(x, version[x])
        \/ Scheduled(x, version[x]) \/ BeingSent(z, x, version[x])
        \/ InSnapshot(z, x, version[x])
    BY <2>1 DEF FeedInv, NothingMissed, Coming
  <2>3. /\ UNCHANGED <<version, op, ready, casts, sock, sent>>
        /\ snap'.to = snap.to \ {r} /\ snap'.of = Put(snap.of, r, version[r])
    BY <1>12 DEF ReadSnapshot
  <2>4. CASE InSnapshot(z, x, version[x])
    BY <2>3, <2>4 DEF Coming, InSnapshot, Put
  <2> QED
    BY <2>2, <2>3, <2>4 DEF Coming, ToBeEmitted, Scheduled, BeingSent
<1>13. ASSUME NEW s \in Sockets,
             SendSnapshot(s)
      PROVE  NothingMissed'
  <2> SUFFICES ASSUME NEW z \in Sockets, NEW x \in Runs, Connected(z)',
                      InHistory(x)'
               PROVE  sent'[z][x] = version'[x] \/ Coming(z, x)'
    BY DEF NothingMissed
  <2>1. Connected(z) /\ InHistory(x)
    BY <1>13 DEF SendSnapshot, Connected, InHistory, FeedInv, TypeOK
  <2>2. \/ sent[z][x] = version[x] \/ ToBeEmitted(x, version[x])
        \/ Scheduled(x, version[x]) \/ BeingSent(z, x, version[x])
        \/ InSnapshot(z, x, version[x])
    BY <2>1 DEF FeedInv, NothingMissed, Coming
  <2> DEFINE m == [kind |-> "snapshot", of |-> snap.of]
  <2>3. /\ UNCHANGED <<version, op, ready, casts>>
        /\ sock[s] = "snapshot" /\ snap.to = {}
        /\ Send(s, m) /\ m.of = snap.of
    BY <1>13 DEF SendSnapshot
  <2>4. m \in Event /\ NoNewer(m.of)
    BY DEF FeedInv, TypeOK, NothingNewer, Event, Kind
  <2> HIDE DEF m
  <2>5. CASE sent[z][x] = version[x]
    BY <2>3, <2>4, <2>5, SentKeeps
  <2>6. CASE InSnapshot(z, x, version[x])
    <3>1. z = s /\ ~lost[z]
      BY <2>1, <2>3, <2>6 DEF FeedInv, OneSnapshot, InSnapshot, Connected
    <3> QED
      BY <2>3, <2>4, <2>6, <3>1, SentBrings DEF InSnapshot
  <2> QED
    BY <2>2, <2>3, <2>5, <2>6 DEF Coming, ToBeEmitted, Scheduled, BeingSent
<1>14. ASSUME NEW s \in Sockets,
             Greet(s)
      PROVE  NothingMissed'
  <2> SUFFICES ASSUME NEW z \in Sockets, NEW x \in Runs, Connected(z)',
                      InHistory(x)'
               PROVE  sent'[z][x] = version'[x] \/ Coming(z, x)'
    BY DEF NothingMissed
  <2>1. Connected(z) /\ InHistory(x)
    BY <1>14 DEF Greet, Connected, InHistory, FeedInv, TypeOK
  <2>2. \/ sent[z][x] = version[x] \/ ToBeEmitted(x, version[x])
        \/ Scheduled(x, version[x]) \/ BeingSent(z, x, version[x])
        \/ InSnapshot(z, x, version[x])
    BY <2>1 DEF FeedInv, NothingMissed, Coming
  <2>3. /\ UNCHANGED <<version, op, ready, casts, snap, sent>>
        /\ sock[z] = "snapshot" => sock'[z] = "snapshot"
    BY <1>14 DEF Greet, LoopIsFree, FeedInv, TypeOK
  <2> QED
    BY <2>2, <2>3 DEF Coming, ToBeEmitted, Scheduled, BeingSent, InSnapshot
<1>15. ASSUME NEW s \in Sockets,
             Disconnect(s)
      PROVE  NothingMissed'
  <2> SUFFICES ASSUME NEW z \in Sockets, NEW x \in Runs, Connected(z)',
                      InHistory(x)'
               PROVE  sent'[z][x] = version'[x] \/ Coming(z, x)'
    BY DEF NothingMissed
  <2>1. Connected(z) /\ InHistory(x)
    BY <1>15 DEF Disconnect, Connected, InHistory, FeedInv, TypeOK
  <2>2. \/ sent[z][x] = version[x] \/ ToBeEmitted(x, version[x])
        \/ Scheduled(x, version[x]) \/ BeingSent(z, x, version[x])
        \/ InSnapshot(z, x, version[x])
    BY <2>1 DEF FeedInv, NothingMissed, Coming
  <2>3. /\ UNCHANGED <<version, op, ready, casts, snap, sent>>
        /\ sock[z] = "snapshot" => sock'[z] = "snapshot"
    BY <1>15 DEF Disconnect, LoopIsFree, FeedInv, TypeOK
  <2> QED
    BY <2>2, <2>3 DEF Coming, ToBeEmitted, Scheduled, BeingSent, InSnapshot
<1>16. ASSUME NEW s \in Sockets,
             Lose(s)
      PROVE  NothingMissed'
  <2> SUFFICES ASSUME NEW z \in Sockets, NEW x \in Runs, Connected(z)',
                      InHistory(x)'
               PROVE  sent'[z][x] = version'[x] \/ Coming(z, x)'
    BY DEF NothingMissed
  <2>1. Connected(z) /\ InHistory(x)
    BY <1>16 DEF Lose, Connected, InHistory, FeedInv, TypeOK
  <2>2. \/ sent[z][x] = version[x] \/ ToBeEmitted(x, version[x])
        \/ Scheduled(x, version[x]) \/ BeingSent(z, x, version[x])
        \/ InSnapshot(z, x, version[x])
    BY <2>1 DEF FeedInv, NothingMissed, Coming
  <2>3. /\ UNCHANGED <<version, op, ready, casts, sock, snap>>
        /\ sent'[z] = sent[z]
    BY <1>16 DEF Lose, Connected, FeedInv, TypeOK
  <2> QED
    BY <2>2, <2>3 DEF Coming, ToBeEmitted, Scheduled, BeingSent, InSnapshot
<1> HIDE DEF FeedInv, TypeOK
<1> QED
  BY <1>1, <1>2, <1>3, <1>4, <1>5, <1>6, <1>7, <1>8, <1>9,
     <1>10, <1>11, <1>12, <1>13, <1>14, <1>15, <1>16, NextCases DEF FeedInv

-----------------------------------------------------------------------------
\* At first there is one run, nothing is said, and nobody is connected.
LEMMA InitFeed ==
  ASSUME Init
  PROVE  FeedInv
<1>1. TypeOK
  <2>1. NoRuns \in Content /\ {} \in SUBSET Runs
    BY ContentType
  <2>2. order \in Seq(Runs) /\ Len(order) = 1
    BY FirstIsRun DEF Init
  <2> QED
    BY <2>1, <2>2, FirstIsRun, BoundsType DEF Init, TypeOK, NoOp, NoSnap,
      Emission, Nothing, Handler
<1>2. /\ \A t \in Threads : op[t] = NoOp
      /\ ready = <<>> /\ casts = {} /\ clients = {}
      /\ \A s \in Sockets : sock[s] = "new" /\ sent[s] = Nothing
      /\ snap = NoSnap
  BY DEF Init
<1>3. NothingNewer
  BY <1>1, <1>2 DEF NothingNewer, NoNewer, NoOp, NoSnap, NoRuns, Nothing,
    TypeOK
<1> QED
  BY <1>1, <1>2, <1>3 DEF FeedInv, IdleIsEmpty, OneSnapshot,
    ConnectedAreClients, DeadAreLost, NothingMissed, Connected

LEMMA FeedInvKept ==
  ASSUME FeedInv, [Next]_vars
  PROVE  FeedInv'
<1>1. CASE Next
  BY <1>1, TypeOKKept, IdleIsEmptyKept, NothingNewerKept, OneSnapshotKept,
    ConnectedAreClientsKept, DeadAreLostKept, NothingMissedKept DEF FeedInv
<1>2. CASE UNCHANGED vars
  BY <1>2 DEF FeedInv, vars, registryVars, threadVars, hubVars, socketVars,
    TypeOK, IdleIsEmpty, NothingNewer, NoNewer, OneSnapshot, DeadAreLost,
    ConnectedAreClients, Connected, NothingMissed, InHistory, Coming,
    ToBeEmitted, Scheduled, BeingSent, InSnapshot
<1> QED
  BY <1>1, <1>2

\* The bounds of the instance are no part of it: whatever the runs, threads,
\* connections and the length of the history, FeedInv holds.
THEOREM FeedInductive == Spec => []FeedInv
BY InitFeed, FeedInvKept, PTL DEF Spec

\* Every variable keeps its type.
THEOREM FeedTypeCorrect == Spec => []TypeOK
<1>1. FeedInv => TypeOK
  BY DEF FeedInv
<1> QED
  BY <1>1, FeedInductive, PTL

\* A connected client has been sent the latest state of every run of the
\* history, or it is on its way to it.
THEOREM NobodyMisses == Spec => []NothingMissed
<1>1. FeedInv => NothingMissed
  BY DEF FeedInv
<1> QED
  BY <1>1, FeedInductive, PTL

-----------------------------------------------------------------------------
(* The queue of callbacks, and what its last callback about a run says.     *)
LEMMA CallbackType ==
  ASSUME NEW q \in Seq(Callback)
  PROVE  /\ Len(q) \in Nat /\ DOMAIN q = 1 .. Len(q)
         /\ \A i \in DOMAIN q : /\ q[i] \in Callback
                                /\ q[i].hop \in BOOLEAN
                                /\ q[i].ev \in Event
                                /\ q[i].ev.of \in Content
                                /\ DOMAIN q[i].ev.of \subseteq Runs
<1>1. \A i \in DOMAIN q : q[i] \in Callback
  OBVIOUS
<1>2. \A e \in Callback : /\ e.hop \in BOOLEAN
                          /\ e.ev \in Event
                          /\ e.ev.of \in Content
                          /\ DOMAIN e.ev.of \subseteq Runs
  BY ContentType DEF Callback, Event
<1> QED
  BY <1>1, <1>2

\* What the queue is after a callback came in, and after the first one left.
LEMMA AppendShape ==
  ASSUME NEW q \in Seq(Callback), NEW e
  PROVE  /\ Len(q) \in Nat /\ DOMAIN q = 1 .. Len(q)
         /\ DOMAIN Append(q, e) = 1 .. Len(q) + 1
         /\ \A i \in 1 .. Len(q) : Append(q, e)[i] = q[i]
         /\ Append(q, e)[Len(q) + 1] = e
OBVIOUS

LEMMA TailShape ==
  ASSUME NEW q \in Seq(Callback), q # <<>>
  PROVE  /\ Len(q) \in Nat \ {0} /\ DOMAIN q = 1 .. Len(q)
         /\ Tail(q) \in Seq(Callback)
         /\ DOMAIN Tail(q) = 1 .. Len(q) - 1
         /\ \A i \in 1 .. Len(q) - 1 : Tail(q)[i] = q[i + 1]
         /\ Head(q) = q[1] /\ Head(q) \in Callback
OBVIOUS

\* A callback that does not tell of a run does not change what is said of it.
LEMMA AppendOther ==
  ASSUME NEW q \in Seq(Callback), NEW e, NEW r, NEW v, ~Tells(e.ev, r)
  PROVE  /\ QueueSays(q, r, v) => QueueSays(Append(q, e), r, v)
         /\ Silent(q, r) <=> Silent(Append(q, e), r)
<1>1. \A hop \in BOOLEAN : Telling(Append(q, e), hop, r) = Telling(q, hop, r)
  BY AppendShape DEF Telling
<1>2. \A hop \in BOOLEAN : \A i \in Telling(q, hop, r) :
        Append(q, e)[i] = q[i]
  BY AppendShape DEF Telling
<1>3. \A hop \in BOOLEAN :
        LastSays(q, hop, r, v) => LastSays(Append(q, e), hop, r, v)
  BY <1>1, <1>2 DEF LastSays
<1> QED
  BY <1>1, <1>3 DEF QueueSays, Silent

\* A new callback is the last of its kind; nothing it does not pass is later.
LEMMA AppendSays ==
  ASSUME NEW q \in Seq(Callback), NEW e \in Callback, NEW p,
         p = Append(q, e), NEW r, Tells(e.ev, r),
         e.hop \/ Telling(q, TRUE, r) = {}
  PROVE  /\ QueueSays(p, r, e.ev.of[r])
         /\ ~Silent(p, r)
<1> DEFINE n == Len(q) + 1
<1>0. e.hop \in BOOLEAN
  BY DEF Callback
<1>1. /\ Len(q) \in Nat /\ DOMAIN q = 1 .. Len(q) /\ DOMAIN p = 1 .. n
      /\ \A i \in 1 .. Len(q) : p[i] = q[i]
      /\ p[n] = e
  BY AppendShape
<1>2. n \in Telling(p, e.hop, r)
  BY <1>1 DEF Telling
<1>3. \A j \in Telling(p, e.hop, r) : j <= n
  BY <1>1 DEF Telling
<1>4. LastSays(p, e.hop, r, e.ev.of[r])
  BY <1>1, <1>2, <1>3 DEF LastSays
<1>5. ~e.hop => Telling(p, TRUE, r) = {}
  <2> SUFFICES ASSUME ~e.hop, NEW i \in Telling(p, TRUE, r)
               PROVE  FALSE
    OBVIOUS
  <2>1. i \in 1 .. n /\ p[i].hop = TRUE /\ Tells(p[i].ev, r)
    BY <1>1 DEF Telling
  <2>2. i # n
    BY <1>1, <2>1
  <2>3. i \in 1 .. Len(q) /\ p[i] = q[i]
    BY <1>1, <2>1, <2>2
  <2>4. i \in Telling(q, TRUE, r)
    BY <1>1, <2>1, <2>3 DEF Telling
  <2> QED
    BY <2>4
<1>6. QueueSays(p, r, e.ev.of[r])
  BY <1>0, <1>4, <1>5 DEF QueueSays
<1>7. ~Silent(p, r)
  BY <1>0, <1>2 DEF Silent
<1> QED
  BY <1>6, <1>7

\* The callback that hops moves to the end, behind all that do not hop.
LEMMA HopSays ==
  ASSUME NEW q \in Seq(Callback), q # <<>>, Head(q).hop, NEW r, NEW v,
         NEW e, e = [hop |-> FALSE, ev |-> Head(q).ev]
  PROVE  /\ QueueSays(q, r, v) => QueueSays(Append(Tail(q), e), r, v)
         /\ Silent(Append(Tail(q), e), r) <=> Silent(q, r)
<1> DEFINE p == Append(Tail(q), e)
           n == Len(q)
<1>1. /\ n \in Nat \ {0} /\ DOMAIN q = 1 .. n /\ DOMAIN p = 1 .. n
      /\ \A i \in 1 .. n - 1 : p[i] = q[i + 1]
      /\ p[n].hop = FALSE /\ p[n].ev = q[1].ev /\ q[1].hop = TRUE
  <2>1. /\ n \in Nat \ {0} /\ DOMAIN q = 1 .. n
        /\ Tail(q) \in Seq(Callback) /\ DOMAIN Tail(q) = 1 .. n - 1
        /\ \A i \in 1 .. n - 1 : Tail(q)[i] = q[i + 1]
        /\ Head(q) = q[1] /\ Head(q) \in Callback
    BY TailShape
  <2>2. Len(Tail(q)) = n - 1
    BY <2>1
  <2>3. /\ DOMAIN p = 1 .. n /\ p[n] = e
        /\ \A i \in 1 .. n - 1 : p[i] = Tail(q)[i]
    BY <2>1, <2>2, AppendShape
  <2> QED
    BY <2>1, <2>3 DEF Callback
<1> HIDE DEF p, n
<1>2. \A i \in 1 .. n : /\ i = n \/ i \in 1 .. n - 1
                        /\ i # 1 => i - 1 \in 1 .. n - 1 /\ (i - 1) + 1 = i
                        /\ i # n => i + 1 \in 2 .. n
  BY <1>1
<1>3. Telling(p, TRUE, r) = {i \in 1 .. n - 1 : i + 1 \in Telling(q, TRUE, r)}
  BY <1>1, <1>2 DEF Telling
<1>4. Telling(p, FALSE, r) =
        {i \in 1 .. n - 1 : i + 1 \in Telling(q, FALSE, r)}
        \cup (IF Tells(q[1].ev, r) THEN {n} ELSE {})
  BY <1>1, <1>2 DEF Telling
<1>5. /\ 1 \notin Telling(q, FALSE, r)
      /\ 1 \in Telling(q, TRUE, r) <=> Tells(q[1].ev, r)
      /\ \A hop \in BOOLEAN : Telling(q, hop, r) \subseteq 1 .. n
  BY <1>1 DEF Telling
<1>6. Silent(p, r) <=> Silent(q, r)
  <2>1. ASSUME Silent(p, r)
        PROVE  Silent(q, r)
    <3>1. Telling(p, TRUE, r) = {} /\ Telling(p, FALSE, r) = {}
      BY <2>1 DEF Silent
    <3>2. ~Tells(q[1].ev, r)
      BY <1>4, <3>1
    <3>3. ASSUME NEW hop \in BOOLEAN, NEW i \in Telling(q, hop, r)
          PROVE  FALSE
      <4>1. i \in 1 .. n /\ i # 1
        BY <1>5, <3>2, <3>3
      <4>2. i - 1 \in Telling(p, hop, r)
        BY <1>2, <1>3, <1>4, <3>3, <4>1
      <4> QED
        BY <3>1, <4>2
    <3> QED
      BY <3>3 DEF Silent
  <2>2. ASSUME Silent(q, r)
        PROVE  Silent(p, r)
    <3>1. Telling(q, TRUE, r) = {} /\ Telling(q, FALSE, r) = {}
      BY <2>2 DEF Silent
    <3>2. ~Tells(q[1].ev, r)
      BY <1>5, <3>1
    <3>3. Telling(p, TRUE, r) = {} /\ Telling(p, FALSE, r) = {}
      BY <1>3, <1>4, <3>1, <3>2
    <3> QED
      BY <3>3 DEF Silent
  <2> QED
    BY <2>1, <2>2
<1>7. ASSUME LastSays(q, TRUE, r, v)
      PROVE  QueueSays(p, r, v)
  <2>1. PICK i \in Telling(q, TRUE, r) :
          q[i].ev.of[r] = v /\ \A j \in Telling(q, TRUE, r) : j <= i
    BY <1>7 DEF LastSays
  <2>2. CASE i = 1
    <3>1. Tells(q[1].ev, r) /\ q[1].ev.of[r] = v
      BY <1>5, <2>1, <2>2
    <3>2. ASSUME NEW j \in Telling(p, TRUE, r)
          PROVE  FALSE
      <4>1. j \in 1 .. n - 1 /\ j + 1 <= 1
        BY <1>3, <2>1, <2>2, <3>2
      <4> QED
        BY <1>1, <4>1
    <3>3. n \in Telling(p, FALSE, r) /\ Telling(p, FALSE, r) \subseteq 1 .. n
      BY <1>1, <3>1 DEF Telling
    <3>4. p[n].ev.of[r] = v /\ \A j \in Telling(p, FALSE, r) : j <= n
      <4>1. \A j \in 1 .. n : j <= n
        BY <1>1
      <4> QED
        BY <1>1, <3>1, <3>3, <4>1
    <3>5. LastSays(p, FALSE, r, v)
      BY <3>3, <3>4 DEF LastSays
    <3> QED
      BY <3>2, <3>5 DEF QueueSays
  <2>3. CASE i # 1
    <3>1. i \in 1 .. n /\ i - 1 \in 1 .. n - 1 /\ (i - 1) + 1 = i
      BY <1>2, <1>5, <2>3
    <3>2. i - 1 \in Telling(p, TRUE, r) /\ p[i - 1] = q[i]
      BY <1>1, <1>3, <3>1
    <3>3. \A j \in Telling(p, TRUE, r) : j <= i - 1
      <4>1. \A j \in Telling(p, TRUE, r) : j \in 1 .. n - 1 /\ j + 1 <= i
        BY <1>3, <2>1
      <4>2. \A j \in 1 .. n - 1 : j + 1 <= i => j <= i - 1
        BY <1>1, <3>1
      <4> QED
        BY <4>1, <4>2
    <3>4. LastSays(p, TRUE, r, v)
      BY <2>1, <3>2, <3>3 DEF LastSays
    <3> QED
      BY <3>4 DEF QueueSays
  <2> QED
    BY <2>2, <2>3
<1>8. ASSUME Telling(q, TRUE, r) = {}, LastSays(q, FALSE, r, v)
      PROVE  QueueSays(p, r, v)
  <2>1. PICK i \in Telling(q, FALSE, r) :
          q[i].ev.of[r] = v /\ \A j \in Telling(q, FALSE, r) : j <= i
    BY <1>8 DEF LastSays
  <2>2. i \in 1 .. n /\ i - 1 \in 1 .. n - 1 /\ (i - 1) + 1 = i
    BY <1>2, <1>5
  <2>3. i - 1 \in Telling(p, FALSE, r) /\ p[i - 1] = q[i]
    BY <1>1, <1>4, <2>2
  <2>4. \A j \in Telling(p, FALSE, r) : j \in 1 .. n - 1 /\ j + 1 <= i
    <3> SUFFICES ASSUME NEW j \in Telling(p, FALSE, r)
                 PROVE  j \in 1 .. n - 1 /\ j + 1 <= i
      OBVIOUS
    <3>1. ~Tells(q[1].ev, r)
      BY <1>5, <1>8
    <3>2. j \in 1 .. n - 1 /\ j + 1 \in Telling(q, FALSE, r)
      BY <1>4, <3>1
    <3> QED
      BY <2>1, <3>2
  <2>5. \A j \in Telling(p, FALSE, r) : j <= i - 1
    <3>1. \A j \in 1 .. n - 1 : j + 1 <= i => j <= i - 1
      BY <1>1, <2>2
    <3> QED
      BY <2>4, <3>1
  <2>6. LastSays(p, FALSE, r, v)
    BY <2>1, <2>3, <2>5 DEF LastSays
  <2>7. Telling(p, TRUE, r) = {}
    BY <1>3, <1>8
  <2> QED
    BY <2>6, <2>7 DEF QueueSays
<1> QED
  BY <1>6, <1>7, <1>8 DEF QueueSays, p

\* The callback that is executed was the last about a run, or another is.
LEMMA TailSays ==
  ASSUME NEW q \in Seq(Callback), q # <<>>, ~Head(q).hop, NEW r, NEW v
  PROVE  /\ QueueSays(q, r, v) =>
              \/ QueueSays(Tail(q), r, v)
              \/ /\ Silent(Tail(q), r)
                 /\ Tells(Head(q).ev, r) /\ Head(q).ev.of[r] = v
         /\ Silent(q, r) => Silent(Tail(q), r) /\ ~Tells(Head(q).ev, r)
         /\ Silent(Tail(q), r) /\ ~Tells(Head(q).ev, r) => Silent(q, r)
<1> DEFINE p == Tail(q)
           n == Len(q)
<1>1. /\ n \in Nat \ {0} /\ DOMAIN q = 1 .. n /\ DOMAIN p = 1 .. n - 1
      /\ \A i \in 1 .. n - 1 : p[i] = q[i + 1]
      /\ q[1] = Head(q) /\ q[1].hop = FALSE
  BY TailShape DEF Callback
<1> HIDE DEF p, n
<1>2. \A i \in 1 .. n : i # 1 => i - 1 \in 1 .. n - 1 /\ (i - 1) + 1 = i
  BY <1>1
<1>3. \A hop \in BOOLEAN :
        Telling(p, hop, r) = {i \in 1 .. n - 1 : i + 1 \in Telling(q, hop, r)}
  BY <1>1 DEF Telling
<1>4. /\ 1 \notin Telling(q, TRUE, r)
      /\ 1 \in Telling(q, FALSE, r) <=> Tells(q[1].ev, r)
      /\ \A hop \in BOOLEAN : Telling(q, hop, r) \subseteq 1 .. n
  BY <1>1 DEF Telling
<1>5. ASSUME NEW hop \in BOOLEAN, LastSays(q, hop, r, v)
      PROVE  \/ LastSays(p, hop, r, v)
             \/ /\ hop = FALSE /\ Telling(p, FALSE, r) = {}
                /\ Tells(q[1].ev, r) /\ q[1].ev.of[r] = v
  <2>1. PICK i \in Telling(q, hop, r) :
          q[i].ev.of[r] = v /\ \A j \in Telling(q, hop, r) : j <= i
    BY <1>5 DEF LastSays
  <2>2. CASE i = 1
    <3>1. hop = FALSE /\ Tells(q[1].ev, r) /\ q[1].ev.of[r] = v
      BY <1>4, <2>1, <2>2
    <3>2. ASSUME NEW j \in Telling(p, FALSE, r)
          PROVE  FALSE
      <4>1. j \in 1 .. n - 1 /\ j + 1 <= 1
        BY <1>3, <2>1, <2>2, <3>1, <3>2
      <4> QED
        BY <1>1, <4>1
    <3> QED
      BY <3>1, <3>2
  <2>3. CASE i # 1
    <3>1. i \in 1 .. n /\ i - 1 \in 1 .. n - 1 /\ (i - 1) + 1 = i
      BY <1>2, <1>4, <2>3
    <3>2. i - 1 \in Telling(p, hop, r) /\ p[i - 1] = q[i]
      BY <1>1, <1>3, <3>1
    <3>3. \A j \in Telling(p, hop, r) : j <= i - 1
      BY <1>1, <1>3, <2>1, <3>1
    <3> QED
      BY <2>1, <3>2, <3>3 DEF LastSays
  <2> QED
    BY <2>2, <2>3
<1>6. Telling(q, TRUE, r) = {} => Telling(p, TRUE, r) = {}
  BY <1>3
<1>7. Silent(q, r) => Silent(p, r) /\ ~Tells(q[1].ev, r)
  BY <1>3, <1>4 DEF Silent
<1>8. ASSUME Silent(p, r), ~Tells(q[1].ev, r), NEW hop \in BOOLEAN,
             NEW i \in Telling(q, hop, r)
      PROVE  FALSE
  <2>1. i \in 1 .. n /\ i # 1
    BY <1>4, <1>8
  <2>2. i - 1 \in Telling(p, hop, r)
    BY <1>2, <1>3, <2>1
  <2> QED
    BY <1>8, <2>2 DEF Silent
<1>9. QueueSays(q, r, v) => \/ QueueSays(p, r, v)
                            \/ /\ Silent(p, r)
                               /\ Tells(q[1].ev, r) /\ q[1].ev.of[r] = v
  BY <1>5, <1>6 DEF QueueSays, Silent
<1> QED
  BY <1>1, <1>7, <1>8, <1>9 DEF Silent, p

\* If nothing is left that tells of it, the callback that is executed and does
\* was the last.
LEMMA TailQuiet ==
  ASSUME NEW q \in Seq(Callback), q # <<>>, ~Head(q).hop, NEW r, NEW v,
         QueueSays(q, r, v) \/ Silent(q, r), Tells(Head(q).ev, r),
         Silent(Tail(q), r)
  PROVE  Head(q).ev.of[r] = v
<1>1. ~QueueSays(Tail(q), r, v)
  BY DEF QueueSays, LastSays, Silent
<1> QED
  BY <1>1, TailSays

\* The log line that makes a run known stays ahead of all others about it.
LEMMA LogQueuedKept ==
  ASSUME NEW q \in Seq(Callback), NEW r, LogQueued(q, r)
  PROVE  /\ \A e : LogQueued(Append(q, e), r)
         /\ \A e : Head(q).hop => LogQueued(Append(Tail(q), e), r)
         /\ \/ Head(q).ev = LogEvent(r)
            \/ LogQueued(Tail(q), r) /\ r \notin DOMAIN Head(q).ev.of
<1>1. PICK i \in DOMAIN q : /\ ~q[i].hop /\ q[i].ev = LogEvent(r)
                            /\ \A j \in 1 .. i - 1 : r \notin DOMAIN q[j].ev.of
  BY DEF LogQueued
<1>2. /\ Len(q) \in Nat \ {0} /\ DOMAIN q = 1 .. Len(q)
      /\ i \in 1 .. Len(q) /\ q # <<>>
  BY <1>1
<1>3. ASSUME NEW e
      PROVE  LogQueued(Append(q, e), r)
  <2>1. /\ DOMAIN Append(q, e) = 1 .. Len(q) + 1
        /\ \A j \in 1 .. Len(q) : Append(q, e)[j] = q[j]
    BY AppendShape
  <2>2. i \in DOMAIN Append(q, e) /\ Append(q, e)[i] = q[i]
    BY <1>2, <2>1
  <2>3. \A j \in 1 .. i - 1 : Append(q, e)[j] = q[j]
    BY <1>2, <2>1
  <2> QED
    BY <1>1, <2>2, <2>3 DEF LogQueued
<1>4. ASSUME i # 1
      PROVE  LogQueued(Tail(q), r) /\ r \notin DOMAIN Head(q).ev.of
  <2>1. /\ DOMAIN Tail(q) = 1 .. Len(q) - 1 /\ Head(q) = q[1]
        /\ \A j \in 1 .. Len(q) - 1 : Tail(q)[j] = q[j + 1]
    BY <1>2, TailShape
  <2>2. /\ i - 1 \in DOMAIN Tail(q) /\ Tail(q)[i - 1] = q[i]
        /\ \A j \in 1 .. i - 2 : Tail(q)[j] = q[j + 1]
        /\ \A j \in 1 .. i - 2 : j + 1 \in 1 .. i - 1
        /\ 1 \in 1 .. i - 1
    BY <1>2, <1>4, <2>1
  <2>3. \A j \in 1 .. (i - 1) - 1 : r \notin DOMAIN Tail(q)[j].ev.of
    BY <1>1, <1>2, <2>2
  <2> QED
    BY <1>1, <2>1, <2>2, <2>3 DEF LogQueued
<1>5. ASSUME NEW e, LogQueued(Tail(q), r)
      PROVE  LogQueued(Append(Tail(q), e), r)
  <2> DEFINE p == Tail(q)
  <2>1. p \in Seq(Callback)
    BY <1>2, TailShape
  <2> HIDE DEF p
  <2>2. PICK k \in DOMAIN p : /\ ~p[k].hop /\ p[k].ev = LogEvent(r)
                              /\ \A j \in 1 .. k - 1 :
                                   r \notin DOMAIN p[j].ev.of
    BY <1>5 DEF LogQueued, p
  <2>3. /\ Len(p) \in Nat /\ DOMAIN p = 1 .. Len(p)
        /\ DOMAIN Append(p, e) = 1 .. Len(p) + 1
        /\ \A j \in 1 .. Len(p) : Append(p, e)[j] = p[j]
    BY <2>1, AppendShape
  <2>4. /\ k \in DOMAIN Append(p, e) /\ Append(p, e)[k] = p[k]
        /\ \A j \in 1 .. k - 1 : Append(p, e)[j] = p[j]
    BY <2>3
  <2>5. LogQueued(Append(p, e), r)
    BY <2>2, <2>4 DEF LogQueued
  <2> QED
    BY <2>5 DEF p
<1>6. Head(q) = q[1]
  BY <1>2
<1> QED
  BY <1>1, <1>3, <1>4, <1>5, <1>6

\* A log line that is appended makes the run known, if nothing else tells of
\* it.
LEMMA LogQueuedNew ==
  ASSUME NEW q \in Seq(Callback), NEW r, NEW e, ~e.hop, e.ev = LogEvent(r),
         \A i \in DOMAIN q : r \notin DOMAIN q[i].ev.of
  PROVE  LogQueued(Append(q, e), r)
<1> DEFINE n == Len(q) + 1
<1>1. /\ DOMAIN q = 1 .. Len(q) /\ Len(q) \in Nat
      /\ n \in DOMAIN Append(q, e) /\ Append(q, e)[n] = e
      /\ \A j \in 1 .. n - 1 : j \in DOMAIN q /\ Append(q, e)[j] = q[j]
  BY AppendShape
<1> HIDE DEF n
<1> QED
  BY <1>1 DEF LogQueued

-----------------------------------------------------------------------------
(* What a send and a broadcast change.                                      *)
LEMMA TableSend ==
  ASSUME TypeOK, NEW s \in Sockets, NEW m \in Event, Send(s, m)
  PROVE  /\ \A x \in Sockets \ {s} : table'[x] = table[x]
         /\ lost[s] => table'[s] = table[s]
         /\ ~lost[s] =>
              \A r \in Runs :
                table'[s][r] =
                  IF r \notin DOMAIN m.of
                  THEN IF m.kind = "snapshot" THEN 0 ELSE table[s][r]
                  ELSE IF m.kind = "log"
                       THEN IF table[s][r] = 0 THEN Stub ELSE table[s][r]
                  ELSE IF m.kind = "queues" /\ table[s][r] = 0 THEN 0
                  ELSE m.of[r]
<1>1. CASE lost[s]
  BY <1>1 DEF Send
<1>2. CASE ~lost[s]
  <2>1. table' = [table EXCEPT ![s] = Shown(table[s], m)]
    BY <1>2 DEF Send
  <2>2. table'[s] = Shown(table[s], m)
    BY <2>1 DEF TypeOK
  <2> QED
    BY <1>2, <2>1, <2>2 DEF TypeOK, Shown
<1> QED
  BY <1>1, <1>2

\* One send takes the client from those who are left; the broadcast is over
\* when nobody is.
LEMMA CastEffect ==
  ASSUME NEW c \in Cast, NEW others, SendNext(c, others)
  PROVE  \E s \in c.left, d \in Cast :
           /\ Send(s, c.ev)
           /\ d.ev = c.ev /\ d.left = c.left \ {s}
           /\ \/ casts' = others /\ c.left = {s}
              \/ casts' = others \cup {d}
           /\ clients' \subseteq clients
<1>1. PICK s \in c.left, raises \in BOOLEAN :
        LET left == c.left \ {s}
            dead == IF raises THEN c.dead \cup {s} ELSE c.dead
        IN /\ Send(s, c.ev)
           /\ casts' = IF left = {} THEN others
             ELSE others \cup {[c EXCEPT !.left = left, !.dead = dead]}
           /\ clients' = IF left = {} THEN clients \ dead ELSE clients
  BY DEF SendNext
<1> DEFINE dead == IF raises THEN c.dead \cup {s} ELSE c.dead
           d == [c EXCEPT !.left = c.left \ {s}, !.dead = dead]
<1>2. d \in Cast /\ d.ev = c.ev /\ d.left = c.left \ {s}
  BY DEF Cast
<1>3. /\ casts' = IF c.left \ {s} = {} THEN others ELSE others \cup {d}
      /\ clients' \subseteq clients
  BY <1>1
<1> HIDE DEF d
<1> QED
  BY <1>1, <1>2, <1>3

\* A broadcast that goes on, and one that starts.
Serves(c, others) ==
  \E s \in c.left, d \in Cast :
    /\ Send(s, c.ev)
    /\ d.ev = c.ev /\ d.left = c.left \ {s}
    /\ \/ casts' = others /\ c.left = {s}
       \/ casts' = others \cup {d}
    /\ clients' \subseteq clients

LEMMA ContinueEffect ==
  ASSUME FeedInv, ContinueBroadcast
  PROVE  /\ LoopIsFree
         /\ UNCHANGED <<registryVars, threadVars, ready, raced, sock, lost,
                        snap>>
         /\ \E c \in casts : c \in Cast /\ Serves(c, casts \ {c})
<1>1. PICK c \in casts : SendNext(c, casts \ {c})
  BY DEF ContinueBroadcast
<1>2. c \in Cast
  BY DEF FeedInv, TypeOK
<1> QED
  BY <1>1, <1>2, CastEffect DEF ContinueBroadcast, Serves

\* The broadcast of the first callback, before its first send.
Started == [ev |-> Head(ready).ev, left |-> clients, dead |-> {}]

LEMMA StartEffect ==
  ASSUME FeedInv, StartBroadcast
  PROVE  /\ LoopIsFree
         /\ ready \in Seq(Callback) /\ ready # <<>> /\ ~Head(ready).hop
         /\ ready' = Tail(ready) /\ 1 \in DOMAIN ready
         /\ Head(ready) = ready[1] /\ ready[1] \in Callback
         /\ Started \in Cast
         /\ Started.ev = ready[1].ev /\ Started.left = clients
         /\ UNCHANGED <<registryVars, threadVars, sock, lost, snap>>
         /\ \/ /\ clients = {}
               /\ UNCHANGED <<casts, clients, table, sent, raced>>
            \/ /\ Serves(Started, casts)
               /\ raced' = raced \cup {r \in DOMAIN ready[1].ev.of :
                             \E c \in casts : r \in DOMAIN c.ev.of}
<1>1. ready \in Seq(Callback) /\ ready # <<>>
  BY DEF StartBroadcast, FeedInv, TypeOK
<1>2. 1 \in DOMAIN ready /\ Head(ready) = ready[1] /\ ready[1] \in Callback
  BY <1>1
<1>3. Started \in Cast /\ Started.ev = ready[1].ev /\ Started.left = clients
  BY <1>2 DEF Started, FeedInv, TypeOK, Callback, Cast
<1>4. CASE clients = {}
  BY <1>1, <1>2, <1>3, <1>4 DEF StartBroadcast
<1>5. CASE clients # {}
  <2>1. /\ SendNext(Started, casts)
        /\ raced' = raced \cup {r \in DOMAIN ready[1].ev.of :
                             \E c \in casts : r \in DOMAIN c.ev.of}
    BY <1>2, <1>5 DEF StartBroadcast, Started
  <2>2. Serves(Started, casts)
    BY <1>3, <2>1, CastEffect DEF Serves
  <2> QED
    BY <1>1, <1>2, <1>3, <2>1, <2>2 DEF StartBroadcast
<1> QED
  BY <1>4, <1>5

-----------------------------------------------------------------------------
(* Whatever is in the history, or is said, is a run that exists.            *)
\* A run that exists goes on existing, and so does what is said of it.
LEMMA KnownStays ==
  ASSUME FeedInv, Next
  PROVE  /\ \A r \in Runs : version[r] > 0 => version'[r] > 0
         /\ \A ev : DOMAIN ev.of \subseteq Runs /\ SaysKnown(ev)
                    => /\ ev.kind # "snapshot"
                       /\ \A r \in DOMAIN ev.of :
                            /\ version'[r] > 0
                            /\ ev.kind # "log" => ev.of[r] > 0
<1>1. version \in [Runs -> Nat] /\ version' \in [Runs -> Nat]
  BY VersionGrows DEF FeedInv, TypeOK
<1>2. \A r \in Runs : version[r] > 0 => version'[r] > 0
  BY <1>1, VersionGrows
<1> QED
  BY <1>2 DEF SaysKnown

HistoryKnown == \A r \in Runs : InHistory(r) => version[r] > 0
OpKnown == \A t \in Threads : /\ \A r \in op[t].to : version[r] > 0
                              /\ \A r \in DOMAIN op[t].of : op[t].of[r] > 0
ReadyKnown == \A i \in DOMAIN ready : SaysKnown(ready[i].ev)
CastsKnown == \A c \in casts : SaysKnown(c.ev)
SnapKnown == /\ \A r \in snap.to : version[r] > 0
             /\ \A r \in DOMAIN snap.of : snap.of[r] > 0

\* A new run is the only one to come into the history.
LEMMA HistoryEffect ==
  ASSUME FeedInv, NEW r \in Runs, CreateTask(r)
  PROVE  \A x \in Runs : InHistory(x)' => x = r \/ InHistory(x)
<1> DEFINE n == IF Len(order) < MaxHistory THEN Len(order) + 1 ELSE MaxHistory
<1>1. order \in Seq(Runs) /\ Len(order) <= MaxHistory
  BY DEF FeedInv, TypeOK
<1>2. order' = SubSeq(<<r>> \o order, 1, n)
  BY DEF CreateTask
<1>3. \A i \in DOMAIN order' : order'[i] = r
                               \/ \E j \in DOMAIN order : order'[i] = order[j]
  BY <1>1, <1>2, OrderType
<1> QED
  BY <1>3 DEF InHistory

LEMMA OrderUnchanged ==
  ASSUME FeedInv, Next
  PROVE  \/ \E r \in Runs : CreateTask(r)
         \/ order' = order
BY NextCases, StartIsSend DEF FeedInv, CreateTask, UpdateTask, AppendLog,
   Announce, ReadRecord, Emit, Hop, ContinueBroadcast, Refuse, Register,
   ReadSnapshot, SendSnapshot, Greet, Disconnect, Lose, registryVars,
   threadVars, hubVars, socketVars

\* The parts of OnlyKnown, one after the other.
LEMMA HistoryKnownKept ==
  ASSUME FeedInv, OnlyKnown, Next
  PROVE  HistoryKnown'
<1>1. ASSUME NEW r \in Runs, CreateTask(r)
      PROVE  HistoryKnown'
  <2>1. version'[r] = 1
    BY <1>1 DEF CreateTask, FeedInv, TypeOK
  <2>2. \A x \in Runs : InHistory(x)' => x = r \/ version'[x] > 0
    BY <1>1, HistoryEffect, KnownStays DEF OnlyKnown
  <2> QED
    BY <2>1, <2>2 DEF HistoryKnown
<1>2. CASE order' = order
  BY <1>2, KnownStays DEF OnlyKnown, HistoryKnown, InHistory
<1> QED
  BY <1>1, <1>2, OrderUnchanged

\* The actions that change what a thread is to emit.
LEMMA OpCases ==
  ASSUME FeedInv, Next
  PROVE  \/ op' = op
         \/ \E t \in Threads :
              \/ \E r \in Runs : CreateTask(r) /\ t = Loop
              \/ \E r \in Runs : UpdateTask(t, r)
              \/ \E kind \in {"task", "queues"}, R \in SUBSET Runs :
                   Announce(t, kind, R)
              \/ \E r \in Runs : ReadRecord(t, r)
              \/ Emit(t)
<1>1. Loop \in Threads
  BY DEF Threads
<1> QED
  BY <1>1, NextCases, StartIsSend DEF FeedInv, AppendLog, Hop,
     ContinueBroadcast, Refuse, Register, ReadSnapshot, SendSnapshot, Greet,
     Disconnect, Lose, registryVars, threadVars, hubVars, socketVars

LEMMA VersionType ==
  ASSUME FeedInv
  PROVE  version \in [Runs -> 0 .. MaxOps]
BY BoundsType DEF FeedInv, TypeOK

\* Reading a record that exists keeps a content positive.
LEMMA PutPositive ==
  ASSUME NEW f \in Content, NEW r \in Runs, NEW v \in 0 .. MaxOps, v > 0,
         \A x \in DOMAIN f : f[x] > 0
  PROVE  \A x \in DOMAIN Put(f, r, v) : Put(f, r, v)[x] > 0
BY DEF Put

LEMMA OpKnownKept ==
  ASSUME FeedInv, OnlyKnown, Next
  PROVE  OpKnown'
<1>1. /\ op \in [Threads -> Emission] /\ version \in [Runs -> Nat]
      /\ \A t \in Threads : op[t].to \subseteq Runs /\ op[t].of \in Content
      /\ \A t \in Threads : DOMAIN op[t].of \subseteq Runs
  BY ContentType DEF FeedInv, TypeOK, Emission
<1>2. ASSUME NEW t \in Threads, op' = op
      PROVE  /\ \A r \in op'[t].to : version'[r] > 0
             /\ \A r \in DOMAIN op'[t].of : op'[t].of[r] > 0
  BY <1>1, <1>2, KnownStays DEF OnlyKnown
<1>3. ASSUME NEW t \in Threads, NEW u \in Threads, op'[u] = op[u]
      PROVE  /\ \A r \in op'[u].to : version'[r] > 0
             /\ \A r \in DOMAIN op'[u].of : op'[u].of[r] > 0
  BY <1>1, <1>3, KnownStays DEF OnlyKnown
<1>4. ASSUME NEW t \in Threads, NEW kind, NEW R \in SUBSET Runs,
             Begin(t, kind, R), \A r \in R : version'[r] > 0
      PROVE  OpKnown'
  <2>1. op'[t].to = R /\ DOMAIN op'[t].of = {}
    BY <1>1, <1>4 DEF Begin, NoRuns
  <2>2. \A u \in Threads \ {t} : op'[u] = op[u]
    BY <1>1, <1>4 DEF Begin
  <2> QED
    BY <1>3, <1>4, <2>1, <2>2 DEF OpKnown
<1>5. ASSUME NEW r \in Runs, CreateTask(r)
      PROVE  OpKnown'
  <2>1. version'[r] = 1 /\ Begin(Loop, "task", {r}) /\ Loop \in Threads
    BY <1>1, <1>5 DEF CreateTask, Threads
  <2> QED
    BY <1>4, <2>1
<1>6. ASSUME NEW t \in Threads, NEW r \in Runs, UpdateTask(t, r)
      PROVE  OpKnown'
  <2>1. version[r] > 0 /\ Begin(t, "task", {r})
    BY <1>6 DEF UpdateTask
  <2> QED
    BY <1>4, <2>1, KnownStays
<1>7. ASSUME NEW t \in Threads, NEW kind, NEW R \in SUBSET Runs,
             Announce(t, kind, R)
      PROVE  OpKnown'
  <2>1. (\A r \in R : version[r] > 0) /\ Begin(t, kind, R)
    BY <1>7 DEF Announce
  <2> QED
    BY <1>4, <2>1, KnownStays
<1>8. ASSUME NEW t \in Threads, NEW r \in Runs, ReadRecord(t, r)
      PROVE  OpKnown'
  <2>1. /\ op'[t].to = op[t].to \ {r}
        /\ op'[t].of = Put(op[t].of, r, version[r])
        /\ \A u \in Threads \ {t} : op'[u] = op[u]
    BY <1>1, <1>8 DEF ReadRecord
  <2>2. version[r] > 0 /\ version[r] \in 0 .. MaxOps
    <3>1. r \in op[t].to
      BY <1>8 DEF ReadRecord
    <3> QED
      BY <3>1, VersionType DEF OnlyKnown
  <2>3. \A x \in DOMAIN op'[t].of : op'[t].of[x] > 0
    BY <1>1, <2>1, <2>2, PutPositive DEF OnlyKnown
  <2>4. \A x \in op'[t].to : version'[x] > 0
    BY <1>1, <2>1, KnownStays DEF OnlyKnown
  <2> QED
    BY <1>3, <2>1, <2>3, <2>4 DEF OpKnown
<1>9. ASSUME NEW t \in Threads, Emit(t)
      PROVE  OpKnown'
  <2>1. op'[t].to = {} /\ DOMAIN op'[t].of = {}
    BY <1>1, <1>9 DEF Emit, NoOp, NoRuns
  <2>2. \A u \in Threads \ {t} : op'[u] = op[u]
    BY <1>1, <1>9 DEF Emit
  <2> QED
    BY <1>3, <2>1, <2>2 DEF OpKnown
<1>10. CASE op' = op
  BY <1>2, <1>10 DEF OpKnown
<1> QED
  BY <1>5, <1>6, <1>7, <1>8, <1>9, <1>10, OpCases

\* How a step changes the queue of callbacks.
LEMMA ReadyCases ==
  ASSUME FeedInv, Next
  PROVE  \/ ready' = ready
         \/ \E r \in Runs : CreateTask(r)
         \/ \E t \in Threads, r \in Runs : AppendLog(t, r)
         \/ \E t \in Threads : Emit(t)
         \/ Hop
         \/ StartBroadcast
BY NextCases DEF FeedInv, UpdateTask, Announce, ReadRecord, ContinueBroadcast,
   Refuse, Register, ReadSnapshot, SendSnapshot, Greet, Disconnect, Lose,
   registryVars, threadVars, hubVars, socketVars

\* What a thread emits tells of runs that exist, and is no newer than they.
LEMMA EmitEvent ==
  ASSUME FeedInv, NEW t \in Threads, Emit(t)
  PROVE  LET ev == [kind |-> op[t].kind, of |-> op[t].of]
         IN  /\ Entry(t, ev) \in Callback
             /\ ev.kind \in {"task", "queues"}
             /\ ev.of \in Content /\ DOMAIN ev.of \subseteq Runs
             /\ NoNewer(ev.of)
             /\ ready' = Append(ready, Entry(t, ev))
             /\ Entry(t, ev).hop = (t # Loop) /\ Entry(t, ev).ev = ev
<1> DEFINE ev == [kind |-> op[t].kind, of |-> op[t].of]
<1>1. op[t] \in Emission /\ op[t] # NoOp
  BY DEF FeedInv, TypeOK, Emit
<1>2. op[t].kind \in {"task", "queues"}
  BY <1>1 DEF FeedInv, IdleIsEmpty, Emission
<1>3. op[t].of \in Content /\ DOMAIN op[t].of \subseteq Runs
  BY <1>1, ContentType DEF Emission
<1>4. NoNewer(op[t].of)
  BY DEF FeedInv, NothingNewer
<1>5. ev.kind = op[t].kind /\ ev.of = op[t].of /\ ev \in Event
  BY <1>2, <1>3 DEF Event, Kind
<1>6. ready' = Append(ready, Entry(t, ev))
  BY DEF Emit
<1> HIDE DEF ev
<1>7. /\ Entry(t, ev) \in Callback
      /\ Entry(t, ev).hop = (t # Loop) /\ Entry(t, ev).ev = ev
  BY <1>5 DEF Entry, Callback
<1>8. /\ Entry(t, ev) \in Callback
      /\ ev.kind \in {"task", "queues"}
      /\ ev.of \in Content /\ DOMAIN ev.of \subseteq Runs
      /\ NoNewer(ev.of)
      /\ ready' = Append(ready, Entry(t, ev))
      /\ Entry(t, ev).hop = (t # Loop) /\ Entry(t, ev).ev = ev
  BY <1>2, <1>3, <1>4, <1>5, <1>6, <1>7
<1> QED
  BY <1>8 DEF ev

LEMMA ReadyKnownKept ==
  ASSUME FeedInv, OnlyKnown, Next
  PROVE  ReadyKnown'
<1>1. ready \in Seq(Callback) /\ version \in [Runs -> Nat]
  BY DEF FeedInv, TypeOK
<1>2. \A i \in DOMAIN ready : /\ ready[i] \in Callback
                              /\ DOMAIN ready[i].ev.of \subseteq Runs
                              /\ SaysKnown(ready[i].ev)
  BY <1>1, CallbackType DEF OnlyKnown
<1> DEFINE Known(ev) == /\ ev.kind # "snapshot"
                        /\ \A r \in DOMAIN ev.of :
                             /\ version'[r] > 0
                             /\ ev.kind # "log" => ev.of[r] > 0
<1>3. \A i \in DOMAIN ready : Known(ready[i].ev)
  BY <1>2, KnownStays
<1>4. ReadyKnown' <=> \A i \in DOMAIN ready' : Known(ready'[i].ev)
  BY DEF ReadyKnown, SaysKnown
<1> HIDE DEF Known
<1>5. ASSUME NEW e, ready' = Append(ready, e), Known(e.ev)
      PROVE  ReadyKnown'
  BY <1>1, <1>3, <1>4, <1>5, AppendShape
<1>6. ASSUME NEW t, NEW r \in Runs, version'[r] > 0
      PROVE  Known(Entry(t, LogEvent(r)).ev)
  BY <1>6 DEF Entry, LogEvent, Known
<1>7. ASSUME NEW r \in Runs, CreateTask(r)
      PROVE  ReadyKnown'
  <2>1. version'[r] > 0 /\ ready' = Append(ready, Entry(Loop, LogEvent(r)))
    BY <1>1, <1>7 DEF CreateTask
  <2> QED
    BY <1>5, <1>6, <2>1
<1>8. ASSUME NEW t \in Threads, NEW r \in Runs, AppendLog(t, r)
      PROVE  ReadyKnown'
  <2>1. version'[r] > 0 /\ ready' = Append(ready, Entry(t, LogEvent(r)))
    BY <1>8, KnownStays DEF AppendLog
  <2> QED
    BY <1>5, <1>6, <2>1
<1>9. ASSUME NEW t \in Threads, Emit(t)
      PROVE  ReadyKnown'
  <2> DEFINE ev == [kind |-> op[t].kind, of |-> op[t].of]
  <2>1. /\ ev.kind \in {"task", "queues"}
        /\ ev.of \in Content /\ DOMAIN ev.of \subseteq Runs
        /\ NoNewer(ev.of)
        /\ ready' = Append(ready, Entry(t, ev)) /\ Entry(t, ev).ev = ev
    BY <1>9, EmitEvent
  <2>2. \A r \in DOMAIN ev.of : ev.of[r] > 0
    BY DEF OnlyKnown
  <2> HIDE DEF ev
  <2>3. \A r \in DOMAIN ev.of : r \in Runs /\ version[r] > 0
    BY <1>1, <2>1, <2>2, ContentType DEF NoNewer
  <2>4. Known(ev)
    BY <2>1, <2>2, <2>3, KnownStays DEF Known
  <2> QED
    BY <1>5, <2>1, <2>4
<1>10. CASE Hop
  <2> DEFINE e == [hop |-> FALSE, ev |-> Head(ready).ev]
  <2>1. ready # <<>> /\ ready' = Append(Tail(ready), e)
    BY <1>10 DEF Hop
  <2>2. /\ Tail(ready) \in Seq(Callback) /\ Head(ready) = ready[1]
        /\ 1 \in DOMAIN ready
        /\ \A i \in DOMAIN Tail(ready) :
             i + 1 \in DOMAIN ready /\ Tail(ready)[i] = ready[i + 1]
    BY <1>1, <2>1, TailShape
  <2>3. e.ev = ready[1].ev
    BY <2>2
  <2> HIDE DEF e
  <2>4. \A i \in DOMAIN ready' : \/ ready'[i] = e
                                 \/ /\ i \in DOMAIN Tail(ready)
                                    /\ ready'[i] = Tail(ready)[i]
    BY <2>1, <2>2, AppendShape
  <2> QED
    BY <1>3, <1>4, <2>2, <2>3, <2>4
<1>11. CASE StartBroadcast
  <2>1. ready # <<>> /\ ready' = Tail(ready)
    BY <1>11, StartEffect
  <2>2. \A i \in DOMAIN Tail(ready) :
          i + 1 \in DOMAIN ready /\ Tail(ready)[i] = ready[i + 1]
    BY <1>1, <2>1, TailShape
  <2> QED
    BY <1>3, <1>4, <2>1, <2>2
<1>12. CASE ready' = ready
  BY <1>3, <1>4, <1>12
<1> QED
  BY <1>7, <1>8, <1>9, <1>10, <1>11, <1>12, ReadyCases

\* How a step changes the broadcasts.
LEMMA CastsCases ==
  ASSUME FeedInv, Next
  PROVE  \/ casts' = casts
         \/ StartBroadcast
         \/ ContinueBroadcast
BY NextCases DEF FeedInv, CreateTask, UpdateTask, AppendLog, Announce,
   ReadRecord, Emit, Hop, Refuse, Register, ReadSnapshot, SendSnapshot, Greet,
   Disconnect, Lose, registryVars, threadVars, hubVars, socketVars

\* A broadcast after a step was there before, perhaps with one client more
\* left of its copy, or has just started.
LEMMA CastSource ==
  ASSUME FeedInv, Next, NEW d \in casts'
  PROVE  \/ \E c \in casts : d.ev = c.ev /\ d.left \subseteq c.left
         \/ /\ StartBroadcast /\ 1 \in DOMAIN ready
            /\ d.ev = ready[1].ev /\ d.left \subseteq clients
<1>1. CASE casts' = casts
  BY <1>1
<1>2. CASE StartBroadcast
  BY <1>2, StartEffect DEF Serves
<1>3. CASE ContinueBroadcast
  BY <1>3, ContinueEffect DEF Serves
<1> QED
  BY <1>1, <1>2, <1>3, CastsCases

LEMMA CastsKnownKept ==
  ASSUME FeedInv, OnlyKnown, Next
  PROVE  CastsKnown'
<1>1. \A c \in casts : DOMAIN c.ev.of \subseteq Runs /\ SaysKnown(c.ev)
  BY ContentType DEF FeedInv, TypeOK, Cast, Event, OnlyKnown
<1>2. ready \in Seq(Callback)
  BY DEF FeedInv, TypeOK
<1>3. \A i \in DOMAIN ready : /\ DOMAIN ready[i].ev.of \subseteq Runs
                              /\ SaysKnown(ready[i].ev)
  BY <1>2, CallbackType DEF OnlyKnown
<1>4. \A d \in casts' : /\ d.ev.kind # "snapshot"
                        /\ \A r \in DOMAIN d.ev.of :
                             /\ version'[r] > 0
                             /\ d.ev.kind # "log" => d.ev.of[r] > 0
  BY <1>1, <1>3, KnownStays, CastSource
<1> QED
  BY <1>4 DEF CastsKnown, SaysKnown

\* The actions that change the snapshot.
LEMMA SnapCases ==
  ASSUME FeedInv, Next
  PROVE  \/ snap' = snap
         \/ \E s \in Sockets : Register(s) \/ SendSnapshot(s)
         \/ \E r \in Runs : ReadSnapshot(r)
BY NextCases, StartIsSend DEF FeedInv, CreateTask, UpdateTask, AppendLog,
   Announce, ReadRecord, Emit, Hop, ContinueBroadcast, Refuse, Greet,
   Disconnect, Lose, registryVars, threadVars, hubVars, socketVars

LEMMA SnapKnownKept ==
  ASSUME FeedInv, OnlyKnown, Next
  PROVE  SnapKnown'
<1>1. /\ snap.to \subseteq Runs /\ snap.of \in Content
      /\ version \in [Runs -> 0 .. MaxOps]
  BY VersionType DEF FeedInv, TypeOK
<1>2. CASE snap' = snap
  BY <1>1, <1>2, KnownStays DEF SnapKnown, OnlyKnown
<1>3. ASSUME NEW s \in Sockets, Register(s)
      PROVE  SnapKnown'
  <2>1. snap'.to = {r \in Runs : InHistory(r)} /\ DOMAIN snap'.of = {}
    BY <1>3 DEF Register, NoRuns
  <2> QED
    BY <2>1, KnownStays DEF SnapKnown, OnlyKnown
<1>4. ASSUME NEW r \in Runs, ReadSnapshot(r)
      PROVE  SnapKnown'
  <2>1. /\ r \in snap.to
        /\ snap'.to = snap.to \ {r} /\ snap'.of = Put(snap.of, r, version[r])
    BY <1>4 DEF ReadSnapshot
  <2>2. version[r] > 0 /\ \A x \in DOMAIN snap.of : snap.of[x] > 0
    BY <2>1 DEF OnlyKnown
  <2>3. \A x \in DOMAIN snap'.of : snap'.of[x] > 0
    BY <1>1, <2>1, <2>2, PutPositive
  <2> QED
    BY <1>1, <2>1, <2>3, KnownStays DEF SnapKnown, OnlyKnown
<1>5. ASSUME NEW s \in Sockets, SendSnapshot(s)
      PROVE  SnapKnown'
  <2>1. snap'.to = {} /\ DOMAIN snap'.of = {}
    BY <1>5 DEF SendSnapshot, NoSnap, NoRuns
  <2> QED
    BY <2>1 DEF SnapKnown
<1> QED
  BY <1>2, <1>3, <1>4, <1>5, SnapCases

LEMMA OnlyKnownKept ==
  ASSUME FeedInv, OnlyKnown, Next
  PROVE  OnlyKnown'
BY HistoryKnownKept, OpKnownKept, ReadyKnownKept, CastsKnownKept, SnapKnownKept
   DEF OnlyKnown, HistoryKnown, OpKnown, ReadyKnown, CastsKnown, SnapKnown

-----------------------------------------------------------------------------
(* Connections, snapshots and broadcasts.                                   *)
\* How a step changes where the handlers are.
LEMMA SockCases ==
  ASSUME FeedInv, Next
  PROVE  \/ UNCHANGED sock
         \/ \E s \in Sockets : \/ Refuse(s)
                               \/ Register(s)
                               \/ SendSnapshot(s)
                               \/ Greet(s)
                               \/ Disconnect(s)
BY NextCases, StartIsSend DEF FeedInv, CreateTask, UpdateTask, AppendLog,
   Announce, ReadRecord, Emit, Hop, ContinueBroadcast, ReadSnapshot, Lose,
   registryVars, threadVars, hubVars, socketVars

\* A connection that has not come was not there before, and nobody but
\* register makes a client.
LEMMA NewAndClients ==
  ASSUME FeedInv, Next
  PROVE  /\ \A s \in Sockets : sock'[s] = "new" => sock[s] = "new"
         /\ \A s \in clients' : s \in clients \/ Register(s)
<1>1. sock \in [Sockets -> Handler]
  BY DEF FeedInv, TypeOK
<1>2. \A s \in Sockets : sock'[s] = "new" => sock[s] = "new"
  BY <1>1, SockCases DEF Refuse, Register, SendSnapshot, Greet, Disconnect
<1>3. \/ \E s \in Sockets : Register(s)
      \/ clients' \subseteq clients
  <2>1. StartBroadcast => clients' \subseteq clients
    BY StartEffect DEF Serves
  <2>2. ContinueBroadcast => clients' \subseteq clients
    BY ContinueEffect DEF Serves
  <2> QED
    BY <2>1, <2>2, NextCases DEF FeedInv, CreateTask, UpdateTask, AppendLog,
       Announce, ReadRecord, Emit, Hop, Refuse, ReadSnapshot, SendSnapshot,
       Greet, Disconnect, Lose, registryVars, threadVars, hubVars, socketVars
<1>4. \A s \in Sockets : Register(s) => clients' = clients \cup {s}
  BY DEF Register
<1> QED
  BY <1>2, <1>3, <1>4

\* A copy of the clients is one of those that have registered.
LEMMA NewUnservedKept ==
  ASSUME FeedInv, NewUnserved, Next
  PROVE  NewUnserved'
<1> SUFFICES ASSUME NEW s \in Sockets, sock'[s] = "new"
             PROVE  s \notin clients' /\ \A d \in casts' : s \notin d.left
  BY DEF NewUnserved
<1>1. /\ sock[s] = "new" /\ s \notin clients
      /\ \A c \in casts : s \notin c.left
  BY NewAndClients DEF NewUnserved
<1>2. ~Register(s)
  BY DEF Register, FeedInv, TypeOK
<1>3. s \notin clients'
  BY <1>1, <1>2, NewAndClients
<1>4. \A d \in casts' : s \notin d.left
  BY <1>1, CastSource
<1> QED
  BY <1>3, <1>4

\* While a snapshot is read the history stays, and every run of it is read.
LEMMA SnapCoversKept ==
  ASSUME FeedInv, SnapCovers, Next
  PROVE  SnapCovers'
<1>1. sock \in [Sockets -> Handler] /\ snap.of \in Content
  BY DEF FeedInv, TypeOK
<1>2. ASSUME NEW r \in Runs, CreateTask(r)
      PROVE  SnapCovers'
  <2>1. \A s \in Sockets : sock'[s] # "snapshot"
    BY <1>2 DEF CreateTask, MayAct, LoopIsFree, socketVars
  <2> QED
    BY <2>1 DEF SnapCovers
<1>3. ASSUME order' = order, NEW s \in Sockets, Register(s)
      PROVE  SnapCovers'
  <2>1. /\ \A x \in Sockets : sock'[x] = "snapshot" => x = s
        /\ snap'.to = {r \in Runs : InHistory(r)}
    BY <1>1, <1>3 DEF Register, LoopIsFree
  <2> QED
    BY <1>3, <2>1 DEF SnapCovers, InHistory
<1>4. ASSUME order' = order, NEW s \in Sockets, SendSnapshot(s)
      PROVE  SnapCovers'
  <2>1. \A x \in Sockets : sock'[x] # "snapshot"
    BY <1>1, <1>4 DEF SendSnapshot, FeedInv, OneSnapshot
  <2> QED
    BY <2>1 DEF SnapCovers
<1>5. ASSUME order' = order, NEW r \in Runs, ReadSnapshot(r)
      PROVE  SnapCovers'
  <2>1. /\ snap'.to = snap.to \ {r} /\ snap'.of = Put(snap.of, r, version[r])
        /\ sock' = sock
    BY <1>5 DEF ReadSnapshot
  <2>2. DOMAIN snap'.of = DOMAIN snap.of \cup {r}
    BY <2>1 DEF Put
  <2> QED
    BY <1>5, <2>1, <2>2 DEF SnapCovers, InHistory
<1>6. ASSUME order' = order, snap' = snap
      PROVE  SnapCovers'
  <2>1. \A s \in Sockets : sock'[s] = "snapshot" => sock[s] = "snapshot"
                                                    \/ Register(s)
    BY <1>1, SockCases DEF Refuse, Register, SendSnapshot, Greet, Disconnect
  <2>2. ASSUME NEW s \in Sockets, Register(s)
        PROVE  SnapCovers'
    BY <1>3, <1>6, <2>2
  <2> QED
    BY <1>6, <2>1, <2>2 DEF SnapCovers, InHistory
<1> QED
  BY <1>2, <1>3, <1>4, <1>5, <1>6, OrderUnchanged, SnapCases

\* Broadcasts of a run that does not race follow one another.
LEMMA RacedGrows ==
  ASSUME FeedInv, Next
  PROVE  raced \subseteq raced'
<1>1. StartBroadcast => raced \subseteq raced'
  BY StartEffect
<1> QED
  BY <1>1, NextCases DEF FeedInv, CreateTask, UpdateTask, AppendLog,
     Announce, ReadRecord, Emit, Hop, ContinueBroadcast, Refuse, Register,
     ReadSnapshot, SendSnapshot, Greet, Disconnect, Lose, registryVars,
     threadVars, hubVars, socketVars

\* A broadcast that starts while another one about the run goes on races.
LEMMA OneCastKept ==
  ASSUME FeedInv, OneCast, Next
  PROVE  OneCast'
<1>1. CASE casts' = casts
  BY <1>1, RacedGrows DEF OneCast
<1>2. CASE StartBroadcast
  <2>1. CASE casts' = casts
    BY <1>1, <2>1
  <2>2. CASE casts' # casts
    <3>1. /\ Serves(Started, casts) /\ Started.ev = ready[1].ev
          /\ raced' = raced \cup {r \in DOMAIN ready[1].ev.of :
                             \E c \in casts : r \in DOMAIN c.ev.of}
      BY <1>2, <2>2, StartEffect
    <3>2. PICK d \in Cast : d.ev = ready[1].ev /\ casts' = casts \cup {d}
      BY <2>2, <3>1 DEF Serves
    <3>3. \A c \in casts : \A r \in DOMAIN c.ev.of \cap DOMAIN d.ev.of :
            r \in raced'
      BY <3>1, <3>2
    <3> QED
      BY <3>2, <3>3, RacedGrows DEF OneCast
  <2> QED
    BY <2>1, <2>2
<1>3. CASE ContinueBroadcast
  <2>1. PICK c \in casts : Serves(c, casts \ {c})
    BY <1>3, ContinueEffect
  <2>2. PICK d \in Cast : /\ d.ev = c.ev
                          /\ casts' \subseteq (casts \ {c}) \cup {d}
    BY <2>1 DEF Serves
  <2>3. \A b \in casts \ {c} : \A r \in DOMAIN b.ev.of \cap DOMAIN d.ev.of :
          r \in raced'
    BY <2>2, RacedGrows DEF OneCast
  <2> QED
    BY <2>2, <2>3, RacedGrows DEF OneCast
<1> QED
  BY <1>1, <1>2, <1>3, CastsCases

-----------------------------------------------------------------------------
(* A run a client does not know is made known first.                        *)
\* The history of a step that is not a creation is that before it.
LEMMA SettledBefore ==
  ASSUME FeedInv, Next, NEW s \in Sockets, NEW r \in Runs, Settled(s, r)'
  PROVE  /\ r \notin raced /\ ~lost[s] /\ lost'[s] = lost[s]
         /\ InHistory(r) \/ CreateTask(r)
         /\ Connected(s) \/ Register(s)
<1>1. /\ sock \in [Sockets -> Handler] /\ lost \in [Sockets -> BOOLEAN]
  BY DEF FeedInv, TypeOK
<1>2. /\ r \notin raced' /\ ~lost'[s] /\ InHistory(r)'
      /\ sock'[s] \in {"snapshot", "greeting", "live"}
  BY DEF Settled, Connected
<1>3. InHistory(r) \/ CreateTask(r)
  <2>1. ASSUME NEW x \in Runs, CreateTask(x)
        PROVE  InHistory(r) \/ CreateTask(r)
    BY <1>2, <2>1, HistoryEffect
  <2>2. CASE order' = order
    BY <1>2, <2>2 DEF InHistory
  <2> QED
    BY <2>1, <2>2, OrderUnchanged
<1>4. \/ lost' = lost
      \/ \E x \in Sockets : lost' = [lost EXCEPT ![x] = TRUE]
  BY NextCases, StartIsSend DEF FeedInv, CreateTask, UpdateTask, AppendLog,
     Announce, ReadRecord, Emit, Hop, ContinueBroadcast, Refuse, Register,
     ReadSnapshot, SendSnapshot, Greet, Disconnect, Lose, registryVars,
     threadVars, hubVars, socketVars
<1>5. ~lost[s] /\ lost'[s] = lost[s]
  BY <1>1, <1>2, <1>4
<1>6. sock[s] \in {"snapshot", "greeting", "live"} \/ Register(s)
  BY <1>1, <1>2, SockCases DEF Refuse, Register, SendSnapshot, Greet,
     Disconnect
<1> QED
  BY <1>2, <1>3, <1>5, <1>6, RacedGrows DEF Connected

\* A client that does not know a run did not before, and got no line of it.
LEMMA ServedZero ==
  ASSUME FeedInv, NEW s \in Sockets, NEW m \in Event, Send(s, m),
         SaysKnown(m), NEW y \in Sockets, NEW r \in Runs, ~lost[y],
         table'[y][r] = 0
  PROVE  table[y][r] = 0 /\ (y = s => m # LogEvent(r))
<1>1. TypeOK
  BY DEF FeedInv
<1>2. CASE y # s
  BY <1>1, <1>2, TableSend
<1>3. CASE y = s
  <2>1. table'[s][r] =
          IF r \notin DOMAIN m.of
          THEN IF m.kind = "snapshot" THEN 0 ELSE table[s][r]
          ELSE IF m.kind = "log"
               THEN IF table[s][r] = 0 THEN Stub ELSE table[s][r]
          ELSE IF m.kind = "queues" /\ table[s][r] = 0 THEN 0
          ELSE m.of[r]
    BY <1>1, <1>3, TableSend
  <2>2. r \in DOMAIN m.of /\ m.kind # "log" => m.of[r] > 0
    BY DEF SaysKnown
  <2>3. m = LogEvent(r) => r \in DOMAIN m.of /\ m.kind = "log"
    BY DEF LogEvent
  <2>4. m.kind # "snapshot" /\ Stub # 0
    BY DEF SaysKnown, Stub
  <2> HIDE DEF Stub
  <2>5. r \in DOMAIN m.of => m.kind # "log"
    BY <1>3, <2>1, <2>4
  <2>6. r \in DOMAIN m.of => table[s][r] = 0
    <3>1. r \in DOMAIN m.of => m.of[r] \in Nat
      BY ContentType DEF Event
    <3> QED
      BY <1>3, <2>1, <2>2, <2>5, <3>1
  <2>7. r \notin DOMAIN m.of => table[s][r] = 0
    BY <1>3, <2>1, <2>4
  <2> QED
    BY <1>3, <2>3, <2>5, <2>6, <2>7
<1> QED
  BY <1>2, <1>3

\* The actions that change what a client shows.
LEMMA TableCases ==
  ASSUME FeedInv, Next
  PROVE  \/ table' = table
         \/ StartBroadcast
         \/ ContinueBroadcast
         \/ \E s \in Sockets : SendSnapshot(s) \/ Lose(s)
BY NextCases DEF FeedInv, CreateTask, UpdateTask, AppendLog, Announce,
   ReadRecord, Emit, Hop, Refuse, Register, ReadSnapshot, Greet, Disconnect,
   registryVars, threadVars, hubVars, socketVars

\* The snapshot a client gets knows every run of the history.
LEMMA SnapshotShown ==
  ASSUME FeedInv, SnapCovers, NEW s \in Sockets, SendSnapshot(s), ~lost[s],
         NEW r \in Runs, InHistory(r)
  PROVE  r \in DOMAIN snap.of /\ table'[s][r] = snap.of[r]
<1>1. sock[s] = "snapshot" /\ snap.to = {}
  BY DEF SendSnapshot
<1>2. r \in DOMAIN snap.of
  BY <1>1 DEF SnapCovers
<1> DEFINE m == [kind |-> "snapshot", of |-> snap.of]
<1>3. m \in Event /\ Send(s, m) /\ m.of = snap.of /\ m.kind = "snapshot"
  BY DEF SendSnapshot, FeedInv, TypeOK, Event, Kind
<1> HIDE DEF m
<1>4. table'[s][r] = m.of[r]
  BY <1>2, <1>3, TableSend DEF FeedInv
<1> QED
  BY <1>2, <1>3, <1>4

\* A log line of a run stays ahead of what else tells of it until it is
\* broadcast.
LEMMA LogQueuedNext ==
  ASSUME FeedInv, Next, ~StartBroadcast, NEW r \in Runs, LogQueued(ready, r)
  PROVE  LogQueued(ready', r)
<1>1. ready \in Seq(Callback)
  BY DEF FeedInv, TypeOK
<1>2. ASSUME NEW e, ready' = Append(ready, e)
      PROVE  LogQueued(ready', r)
  BY <1>1, <1>2, LogQueuedKept
<1>3. ASSUME Hop
      PROVE  LogQueued(ready', r)
  BY <1>1, <1>3, LogQueuedKept DEF Hop
<1> QED
  BY <1>2, <1>3, ReadyCases DEF CreateTask, AppendLog, Emit

\* A run a client does not know keeps its log line ahead.
LEMMA MadeKnownKept ==
  ASSUME FeedInv, OnlyKnown, SnapCovers, OneCast, MadeKnown, Next
  PROVE  MadeKnown'
<1> SUFFICES ASSUME NEW s \in Sockets, NEW r \in Runs, Settled(s, r)',
                    sock'[s] # "snapshot", table'[s][r] = 0
             PROVE  LogAhead(s, r)'
  BY DEF MadeKnown
<1>1. /\ ready \in Seq(Callback) /\ sock \in [Sockets -> Handler]
      /\ version \in [Runs -> Nat] /\ lost \in [Sockets -> BOOLEAN]
  BY DEF FeedInv, TypeOK
<1>2. r \notin raced /\ ~lost[s] /\ ~lost'[s]
  BY SettledBefore
<1>3. CASE CreateTask(r)
  <2>1. /\ version[r] = 0 /\ casts' = casts
        /\ ready' = Append(ready, Entry(Loop, LogEvent(r)))
    BY <1>3 DEF CreateTask
  <2>2. \A i \in DOMAIN ready : r \notin DOMAIN ready[i].ev.of
    BY <2>1 DEF OnlyKnown, SaysKnown
  <2>3. \A c \in casts : r \notin DOMAIN c.ev.of
    BY <2>1 DEF OnlyKnown, SaysKnown
  <2>4. /\ ~Entry(Loop, LogEvent(r)).hop
        /\ Entry(Loop, LogEvent(r)).ev = LogEvent(r)
    BY DEF Entry
  <2>5. LogQueued(ready', r)
    BY <1>1, <2>1, <2>2, <2>4, LogQueuedNew
  <2> QED
    BY <2>1, <2>3, <2>5 DEF LogAhead
<1>4. CASE ~CreateTask(r)
  <2>1. ~Register(s)
    BY <1>1 DEF Register
  <2>2. InHistory(r) /\ Connected(s) /\ Settled(s, r)
    BY <1>2, <1>4, <2>1, SettledBefore DEF Settled
  <2>3. ~SendSnapshot(s)
    <3> SUFFICES ASSUME SendSnapshot(s)
                 PROVE  FALSE
      OBVIOUS
    <3>1. r \in DOMAIN snap.of /\ snap.of[r] = 0
      BY <1>2, <2>2, SnapshotShown
    <3> QED
      BY <3>1 DEF OnlyKnown
  <2>4. sock[s] # "snapshot"
    BY <1>1, <2>3, SockCases DEF Refuse, Register, SendSnapshot, Greet,
       Disconnect
  <2>5. table[s][r] = 0 => LogAhead(s, r)
    BY <2>2, <2>4 DEF MadeKnown
  <2>6. CASE StartBroadcast
    <3>1. /\ ready # <<>> /\ ready' = Tail(ready) /\ 1 \in DOMAIN ready
          /\ Head(ready) = ready[1] /\ ready[1] \in Callback
          /\ ready[1].ev \in Event /\ SaysKnown(ready[1].ev)
      BY <2>6, StartEffect DEF OnlyKnown, Callback
    <3>2. s \in clients
      BY <2>2 DEF FeedInv, ConnectedAreClients
    <3>3. /\ Serves(Started, casts)
          /\ Started.ev = ready[1].ev /\ Started.left = clients
      BY <2>6, <3>2, StartEffect
    <3>4. PICK x \in clients, d \in Cast :
            /\ Send(x, ready[1].ev)
            /\ d.ev = ready[1].ev /\ d.left = clients \ {x}
            /\ \/ casts' = casts /\ clients = {x}
               \/ casts' = casts \cup {d}
      BY <3>3 DEF Serves
    <3>5. table[s][r] = 0 /\ (s = x => ready[1].ev # LogEvent(r))
      <4>1. x \in Sockets
        BY DEF FeedInv, TypeOK
      <4> QED
        BY <1>2, <3>1, <3>4, <4>1, ServedZero
    <3>6. CASE LogQueued(ready, r) /\ \A c \in casts : r \notin DOMAIN c.ev.of
      <4>1. CASE ready[1].ev = LogEvent(r)
        <5>1. d \in casts' /\ s \in d.left /\ d.ev = LogEvent(r)
          BY <3>2, <3>4, <3>5, <4>1
        <5> QED
          BY <5>1 DEF LogAhead
      <4>2. CASE ready[1].ev # LogEvent(r)
        <5>1. LogQueued(ready', r) /\ r \notin DOMAIN ready[1].ev.of
          BY <1>1, <3>1, <3>6, <4>2, LogQueuedKept
        <5>2. \A c \in casts' : r \notin DOMAIN c.ev.of
          BY <3>4, <3>6, <5>1
        <5> QED
          BY <5>1, <5>2 DEF LogAhead
      <4> QED
        BY <4>1, <4>2
    <3>7. CASE \E c \in casts : s \in c.left /\ c.ev = LogEvent(r)
      BY <3>4, <3>7 DEF LogAhead
    <3> QED
      BY <2>5, <3>5, <3>6, <3>7 DEF LogAhead
  <2>7. CASE ContinueBroadcast
    <3>1. PICK c \in casts : c \in Cast /\ Serves(c, casts \ {c})
      BY <2>7, ContinueEffect
    <3>2. PICK x \in c.left, d \in Cast :
            /\ Send(x, c.ev)
            /\ d.ev = c.ev /\ d.left = c.left \ {x}
            /\ \/ casts' = casts \ {c} /\ c.left = {x}
               \/ casts' = (casts \ {c}) \cup {d}
      BY <3>1 DEF Serves
    <3>3. x \in Sockets /\ c.ev \in Event /\ SaysKnown(c.ev)
      BY <3>1 DEF Cast, OnlyKnown
    <3>4. table[s][r] = 0 /\ (s = x => c.ev # LogEvent(r))
      BY <1>2, <3>2, <3>3, ServedZero
    <3>5. CASE LogQueued(ready, r) /\ \A b \in casts : r \notin DOMAIN b.ev.of
      <4>1. ready' = ready
        BY <2>7, ContinueEffect
      <4>2. \A b \in casts' : r \notin DOMAIN b.ev.of
        BY <3>1, <3>2, <3>5
      <4> QED
        BY <3>5, <4>1, <4>2 DEF LogAhead
    <3>6. CASE \E b \in casts : s \in b.left /\ b.ev = LogEvent(r)
      <4>1. PICK b \in casts : s \in b.left /\ b.ev = LogEvent(r)
        BY <3>6
      <4>2. CASE b = c
        <5>1. s # x
          BY <3>4, <4>1, <4>2
        <5>2. d \in casts' /\ s \in d.left /\ d.ev = LogEvent(r)
          BY <3>2, <4>1, <4>2, <5>1
        <5> QED
          BY <5>2 DEF LogAhead
      <4>3. CASE b # c
        BY <3>2, <4>1, <4>3 DEF LogAhead
      <4> QED
        BY <4>2, <4>3
    <3> QED
      BY <2>5, <3>4, <3>5, <3>6 DEF LogAhead
  <2>8. CASE ~StartBroadcast /\ ~ContinueBroadcast
    <3>1. casts' = casts
      BY <2>8, CastsCases
    <3>2. table'[s] = table[s]
      <4>1. ASSUME NEW x \in Sockets, SendSnapshot(x)
            PROVE  table'[s] = table[s]
        <5>1. x # s
          BY <2>3, <4>1
        <5> QED
          BY <4>1, <5>1 DEF SendSnapshot, Send, FeedInv, TypeOK
      <4>2. ASSUME NEW x \in Sockets, Lose(x)
            PROVE  table'[s] = table[s]
        <5>1. x # s
          BY <1>1, <1>2, <4>2 DEF Lose
        <5> QED
          BY <4>2, <5>1 DEF Lose, FeedInv, TypeOK
      <4> QED
        BY <2>8, <4>1, <4>2, TableCases
    <3>3. LogAhead(s, r)
      BY <2>5, <3>2
    <3> QED
      BY <2>8, <3>1, <3>3, LogQueuedNext DEF LogAhead
  <2> QED
    BY <2>6, <2>7, <2>8
<1> QED
  BY <1>3, <1>4

-----------------------------------------------------------------------------
(* The last that is scheduled about a run is its latest state.              *)
\* Who writes a record has its event to emit, and it is emitted at last.
LEMMA PendingNext ==
  ASSUME FeedInv, Next, NEW r \in Runs, ~Pending(r)'
  PROVE  /\ version'[r] = version[r] /\ ~CreateTask(r)
         /\ \/ ~Pending(r)
            \/ \E t \in Threads : Emit(t) /\ r \in DOMAIN op[t].of
<1>1. /\ op \in [Threads -> Emission] /\ version \in [Runs -> Nat]
      /\ Loop \in Threads
  BY DEF FeedInv, TypeOK, Threads
<1>2. ASSUME NEW t \in Threads, NEW kind, NEW R \in SUBSET Runs,
             op[t] = NoOp, Begin(t, kind, R)
      PROVE  /\ r \notin R
             /\ ~Pending(r)
  <2>1. op'[t].to = R /\ \A u \in Threads \ {t} : op'[u] = op[u]
    BY <1>1, <1>2 DEF Begin
  <2>2. op[t].to = {} /\ DOMAIN op[t].of = {}
    BY <1>2 DEF NoOp, NoRuns
  <2> QED
    BY <2>1, <2>2 DEF Pending
<1>3. ASSUME NEW x \in Runs, CreateTask(x)
      PROVE  version'[r] = version[r] /\ r # x /\ ~Pending(r)
  <2>1. op[Loop] = NoOp /\ Begin(Loop, "task", {x})
    BY <1>3 DEF CreateTask, MayAct
  <2>2. r # x /\ ~Pending(r)
    BY <1>1, <1>2, <2>1
  <2> QED
    BY <1>1, <1>3, <2>2 DEF CreateTask
<1>4. ASSUME NEW t \in Threads, NEW x \in Runs, UpdateTask(t, x)
      PROVE  version'[r] = version[r] /\ ~Pending(r)
  <2>1. op[t] = NoOp /\ Begin(t, "task", {x})
    BY <1>4 DEF UpdateTask, MayAct
  <2>2. r # x /\ ~Pending(r)
    BY <1>2, <2>1
  <2> QED
    BY <1>1, <1>4, <2>2 DEF UpdateTask
<1>5. ASSUME NEW t \in Threads, NEW kind, NEW R \in SUBSET Runs,
             Announce(t, kind, R)
      PROVE  version'[r] = version[r] /\ ~Pending(r)
  BY <1>2, <1>5 DEF Announce, MayAct, registryVars
<1>6. ASSUME NEW t \in Threads, NEW x \in Runs, ReadRecord(t, x)
      PROVE  version'[r] = version[r] /\ ~Pending(r)
  <2>1. /\ op'[t].to = op[t].to \ {x}
        /\ op'[t].of = Put(op[t].of, x, version[x])
        /\ \A u \in Threads \ {t} : op'[u] = op[u]
        /\ x \in op[t].to
    BY <1>1, <1>6 DEF ReadRecord
  <2>2. DOMAIN op'[t].of = DOMAIN op[t].of \cup {x}
    BY <2>1 DEF Put
  <2> QED
    BY <1>6, <2>1, <2>2 DEF Pending, ReadRecord, registryVars
<1>7. ASSUME NEW t \in Threads, Emit(t)
      PROVE  /\ version'[r] = version[r]
             /\ ~Pending(r) \/ r \in DOMAIN op[t].of
  <2>1. op[t].to = {} /\ \A u \in Threads \ {t} : op'[u] = op[u]
    BY <1>1, <1>7 DEF Emit
  <2> QED
    BY <1>7, <2>1 DEF Pending, Emit, registryVars
<1>8. ASSUME op' = op
      PROVE  /\ ~Pending(r)
             /\ (\A t \in Threads, x \in Runs : ~UpdateTask(t, x))
                => \/ version' = version
                   \/ \E x \in Runs : CreateTask(x)
  BY <1>8, NextCases, StartIsSend DEF Pending, Announce, AppendLog,
     ReadRecord, Emit, Hop, ContinueBroadcast, Refuse, Register,
     ReadSnapshot, SendSnapshot, Greet, Disconnect, Lose, FeedInv,
     registryVars
<1>9. ~CreateTask(r)
  BY <1>3
<1> QED
  BY <1>3, <1>4, <1>5, <1>6, <1>7, <1>8, <1>9, OpCases

\* A log line tells nothing of a run's state.
LEMMA LogTellsNothing ==
  \A t, x, r : ~Tells(Entry(t, LogEvent(x)).ev, r)
BY DEF Tells, Entry, LogEvent

\* A step that neither emits of a run nor starts a broadcast keeps what the
\* queue says of it.
LEMMA QueueNext ==
  ASSUME FeedInv, Next, ~StartBroadcast, NEW r \in Runs, NEW v,
         \A t \in Threads : Emit(t) => r \notin DOMAIN op[t].of
  PROVE  /\ QueueSays(ready, r, v) => QueueSays(ready', r, v)
         /\ Silent(ready', r) <=> Silent(ready, r)
<1>1. ready \in Seq(Callback)
  BY DEF FeedInv, TypeOK
<1>2. ASSUME NEW e, ready' = Append(ready, e), ~Tells(e.ev, r)
      PROVE  /\ QueueSays(ready, r, v) => QueueSays(ready', r, v)
             /\ Silent(ready', r) <=> Silent(ready, r)
  BY <1>1, <1>2, AppendOther
<1>3. ASSUME NEW x \in Runs, CreateTask(x)
      PROVE  /\ QueueSays(ready, r, v) => QueueSays(ready', r, v)
             /\ Silent(ready', r) <=> Silent(ready, r)
  BY <1>2, <1>3, LogTellsNothing DEF CreateTask
<1>4. ASSUME NEW t \in Threads, NEW x \in Runs, AppendLog(t, x)
      PROVE  /\ QueueSays(ready, r, v) => QueueSays(ready', r, v)
             /\ Silent(ready', r) <=> Silent(ready, r)
  BY <1>2, <1>4, LogTellsNothing DEF AppendLog
<1>5. ASSUME NEW t \in Threads, Emit(t)
      PROVE  /\ QueueSays(ready, r, v) => QueueSays(ready', r, v)
             /\ Silent(ready', r) <=> Silent(ready, r)
  <2> DEFINE ev == [kind |-> op[t].kind, of |-> op[t].of]
  <2>1. ready' = Append(ready, Entry(t, ev)) /\ Entry(t, ev).ev = ev
    BY <1>5, EmitEvent
  <2>2. ~Tells(Entry(t, ev).ev, r)
    BY <1>5, <2>1 DEF Tells
  <2> QED
    BY <1>2, <2>1, <2>2
<1>6. ASSUME Hop
      PROVE  /\ QueueSays(ready, r, v) => QueueSays(ready', r, v)
             /\ Silent(ready', r) <=> Silent(ready, r)
  BY <1>1, <1>6, HopSays DEF Hop
<1> QED
  BY <1>3, <1>4, <1>5, <1>6, ReadyCases

\* An event that is emitted is the last about its runs, unless they race.
LEMMA EmitSays ==
  ASSUME FeedInv, Next, NEW t \in Threads, Emit(t), NEW r \in Runs,
         r \in DOMAIN op[t].of, r \notin raced'
  PROVE  /\ QueueSays(ready', r, version[r])
         /\ ~Silent(ready', r)
<1> DEFINE ev == [kind |-> op[t].kind, of |-> op[t].of]
           e == Entry(t, ev)
<1>1. /\ ready \in Seq(Callback) /\ e \in Callback
      /\ ev.kind \in {"task", "queues"}
      /\ ready' = Append(ready, e) /\ e.hop = (t # Loop) /\ e.ev = ev
  BY EmitEvent DEF FeedInv, TypeOK
<1>2. Tells(e.ev, r)
  BY <1>1 DEF Tells
<1>3. /\ version[r] = ev.of[r]
      /\ t = Loop => \A i \in DOMAIN ready :
                       ~(ready[i].hop /\ r \in DOMAIN ready[i].ev.of)
  BY DEF Emit
<1>4. e.hop \in BOOLEAN /\ e.ev.of[r] = version[r]
  BY <1>1, <1>3
<1>5. t = Loop => Telling(ready, TRUE, r) = {}
  BY <1>3 DEF Telling, Tells
<1> HIDE DEF e, ev
<1>6. e.hop \/ Telling(ready, TRUE, r) = {}
  BY <1>1, <1>5
<1>7. QueueSays(ready', r, e.ev.of[r]) /\ ~Silent(ready', r)
  BY <1>1, <1>2, <1>6, AppendSays
<1> QED
  BY <1>4, <1>7

\* What is said last about a run stays its latest state.
LEMMA LastIsLatestKept ==
  ASSUME FeedInv, LastIsLatest, Next
  PROVE  LastIsLatest'
<1> SUFFICES ASSUME NEW r \in Runs, r \notin raced', ~Pending(r)'
             PROVE  QueueSays(ready', r, version'[r]) \/ Silent(ready', r)
  BY DEF LastIsLatest
<1>1. /\ version'[r] = version[r] /\ r \notin raced
      /\ ready \in Seq(Callback)
  BY PendingNext, RacedGrows DEF FeedInv, TypeOK
<1>2. ASSUME NEW t \in Threads, Emit(t), r \in DOMAIN op[t].of
      PROVE  QueueSays(ready', r, version'[r])
  BY <1>1, <1>2, EmitSays
<1>3. CASE \A t \in Threads : Emit(t) => r \notin DOMAIN op[t].of
  <2>1. QueueSays(ready, r, version[r]) \/ Silent(ready, r)
    BY <1>1, <1>3, PendingNext DEF LastIsLatest
  <2>2. CASE ~StartBroadcast
    BY <1>1, <1>3, <2>1, <2>2, QueueNext
  <2>3. CASE StartBroadcast
    <3>1. ready # <<>> /\ ~Head(ready).hop /\ ready' = Tail(ready)
      BY <2>3, StartEffect
    <3> QED
      BY <1>1, <2>1, <3>1, TailSays
  <2> QED
    BY <2>2, <2>3
<1> QED
  BY <1>2, <1>3

-----------------------------------------------------------------------------
(* The latest state is shown, or is being sent.                             *)
\* What a client shows of a run after a message that does not tell of it.
LEMMA ShowsSame ==
  ASSUME FeedInv, NEW s \in Sockets, NEW m \in Event, Send(s, m),
         SaysKnown(m), NEW y \in Sockets, NEW r \in Runs,
         ~Tells(m, r) \/ y # s, table[y][r] # 0
  PROVE  table'[y][r] = table[y][r]
<1>1. TypeOK
  BY DEF FeedInv
<1>2. CASE y # s \/ lost[s]
  BY <1>1, <1>2, TableSend
<1>3. CASE y = s /\ ~lost[s]
  <2>1. r \in DOMAIN m.of => m.kind = "log"
    BY <1>3 DEF Tells, Event, Kind, SaysKnown
  <2> QED
    BY <1>1, <1>3, <2>1, TableSend DEF SaysKnown
<1> QED
  BY <1>2, <1>3

\* What a client shows of a run after a message that tells of it, when it
\* knows the run or hears of it by itself.
LEMMA ShowsTold ==
  ASSUME FeedInv, NEW s \in Sockets, NEW m \in Event, Send(s, m), ~lost[s],
         NEW r \in Runs, Tells(m, r), m.kind = "queues" => table[s][r] # 0
  PROVE  table'[s][r] = m.of[r]
<1>1. TypeOK
  BY DEF FeedInv
<1> QED
  BY <1>1, TableSend DEF Tells

\* A broadcast that tells a client of a run it does not know comes too early
\* to be the only one about it.
LEMMA KnowsWhenTold ==
  ASSUME FeedInv, OneCast, MadeKnown, NEW s \in Sockets, NEW r \in Runs,
         Settled(s, r), sock[s] # "snapshot", table[s][r] = 0
  PROVE  /\ \A c \in casts : ~(s \in c.left /\ Tells(c.ev, r))
         /\ ready # <<>> /\ Tells(Head(ready).ev, r)
            => \E c \in casts : r \in DOMAIN c.ev.of
<1>1. LogAhead(s, r) /\ r \notin raced
  BY DEF MadeKnown, Settled
<1>2. ~Tells(LogEvent(r), r) /\ r \in DOMAIN LogEvent(r).of
  BY DEF Tells, LogEvent
<1>3. ready \in Seq(Callback)
  BY DEF FeedInv, TypeOK
<1>4. CASE LogQueued(ready, r) /\ \A c \in casts : r \notin DOMAIN c.ev.of
  <2>1. \/ Head(ready).ev = LogEvent(r)
        \/ r \notin DOMAIN Head(ready).ev.of
    BY <1>3, <1>4, LogQueuedKept
  <2> QED
    BY <1>2, <1>4, <2>1 DEF Tells
<1>5. CASE \E c \in casts : s \in c.left /\ c.ev = LogEvent(r)
  <2>1. PICK c \in casts : s \in c.left /\ c.ev = LogEvent(r)
    BY <1>5
  <2>2. \A d \in casts : r \in DOMAIN d.ev.of => d = c
    BY <1>1, <1>2, <2>1 DEF OneCast
  <2> QED
    BY <1>2, <2>1, <2>2 DEF Tells
<1> QED
  BY <1>1, <1>4, <1>5 DEF LogAhead

\* A broadcast that starts while nothing else about the run is on its way.
LEMMA StartShows ==
  ASSUME FeedInv, OnlyKnown, OneCast, MadeKnown, LastIsLatest, ThenShown,
         StartBroadcast,
         NEW s \in Sockets, NEW r \in Runs, Settled(s, r), r \notin raced',
         ~Pending(r), Silent(ready', r)
  PROVE  SentOrShown(s, r)'
<1>1. /\ ready \in Seq(Callback) /\ ready # <<>> /\ ~Head(ready).hop
      /\ ready' = Tail(ready) /\ 1 \in DOMAIN ready
      /\ Head(ready) = ready[1] /\ ready[1].ev \in Event
      /\ version' = version /\ sock' = sock /\ LoopIsFree
  BY StartEffect DEF Callback, registryVars
<1>2. /\ s \in clients /\ ~lost[s] /\ r \notin raced /\ InHistory(r)
      /\ sock[s] # "snapshot" /\ sock'[s] # "snapshot"
      /\ version[r] > 0 /\ version[r] \in Nat
  BY <1>1, VersionType DEF Settled, Connected, FeedInv, ConnectedAreClients,
     LoopIsFree, OnlyKnown
<1> DEFINE ev == ready[1].ev
<1>3. SaysKnown(ev)
  BY <1>1 DEF OnlyKnown
<1>4. /\ Serves(Started, casts) /\ Started.ev = ev /\ Started.left = clients
      /\ raced' = raced \cup {x \in DOMAIN ev.of :
                    \E c \in casts : x \in DOMAIN c.ev.of}
  BY <1>2, StartEffect
<1>5. PICK x \in clients, d \in Cast :
        /\ Send(x, ev)
        /\ d.ev = ev /\ d.left = clients \ {x}
        /\ \/ casts' = casts /\ clients = {x}
           \/ casts' = casts \cup {d}
  BY <1>4 DEF Serves
<1>6. x \in Sockets
  BY DEF FeedInv, TypeOK
<1>7. s # x => d \in casts' /\ s \in d.left
  BY <1>2, <1>5
<1> HIDE DEF ev
<1>8. CASE Tells(ev, r)
  <2>1. \A c \in casts : r \notin DOMAIN c.ev.of
    BY <1>2, <1>4, <1>8 DEF Tells
  <2>2. ev.of[r] = version[r]
    <3>1. QueueSays(ready, r, version[r]) \/ Silent(ready, r)
      BY <1>2 DEF LastIsLatest
    <3> QED
      BY <1>1, <1>8, <3>1, TailQuiet DEF ev
  <2>3. table[s][r] # 0
    BY <1>1, <1>2, <1>8, <2>1, KnowsWhenTold DEF ev
  <2>4. s = x => table'[s][r] = version[r]
    BY <1>1, <1>2, <1>5, <1>6, <1>8, <2>2, <2>3, ShowsTold DEF ev
  <2>5. \A c \in casts' : Tells(c.ev, r) => c.ev.of[r] = version'[r]
    BY <1>1, <1>5, <2>1, <2>2 DEF Tells
  <2>6. s # x => \E c \in casts' : s \in c.left /\ Tells(c.ev, r)
    BY <1>5, <1>7, <1>8
  <2> QED
    BY <1>1, <1>2, <2>4, <2>5, <2>6 DEF SentOrShown, Sending, Shows
<1>9. CASE ~Tells(ev, r)
  <2>1. Silent(ready, r)
    BY <1>1, <1>9, TailSays DEF ev
  <2>2. SentOrShown(s, r)
    BY <2>1 DEF ThenShown
  <2>3. \A c \in casts' : Tells(c.ev, r) => c \in casts
    BY <1>5, <1>9
  <2>4. casts \subseteq casts'
    BY <1>5
  <2>5. table[s][r] = version[r] => table'[s][r] = version[r]
    BY <1>1, <1>2, <1>3, <1>5, <1>6, <1>9, ShowsSame DEF ev
  <2> QED
    BY <1>1, <1>2, <2>2, <2>3, <2>4, <2>5 DEF SentOrShown, Sending, Shows
<1> QED
  BY <1>8, <1>9

\* A broadcast that goes on.
LEMMA ContinueShows ==
  ASSUME FeedInv, OnlyKnown, OneCast, MadeKnown, ContinueBroadcast,
         NEW s \in Sockets, NEW r \in Runs, Settled(s, r), SentOrShown(s, r)
  PROVE  SentOrShown(s, r)'
<1>1. version' = version /\ sock' = sock /\ LoopIsFree
  BY ContinueEffect DEF registryVars
<1>2. /\ ~lost[s] /\ InHistory(r)
      /\ sock[s] # "snapshot" /\ sock'[s] # "snapshot"
      /\ version[r] > 0 /\ version[r] \in Nat
  BY <1>1, VersionType DEF Settled, Connected, LoopIsFree, OnlyKnown
<1>3. PICK c \in casts : c \in Cast /\ Serves(c, casts \ {c})
  BY ContinueEffect
<1>4. PICK x \in c.left, d \in Cast :
        /\ Send(x, c.ev)
        /\ d.ev = c.ev /\ d.left = c.left \ {x}
        /\ \/ casts' = casts \ {c} /\ c.left = {x}
           \/ casts' = (casts \ {c}) \cup {d}
  BY <1>3 DEF Serves
<1>5. x \in Sockets /\ c.ev \in Event /\ SaysKnown(c.ev)
  BY <1>3 DEF Cast, OnlyKnown
<1>6. \A b \in casts' : s \in b.left /\ Tells(b.ev, r)
                        => b.ev.of[r] = version'[r]
  BY <1>1, <1>4 DEF SentOrShown, Sending
<1>7. CASE s = x /\ Tells(c.ev, r)
  <2>1. table[s][r] # 0
    BY <1>2, <1>4, <1>7, KnowsWhenTold
  <2>2. c.ev.of[r] = version[r]
    BY <1>4, <1>7 DEF SentOrShown, Sending
  <2>3. table'[s][r] = version[r]
    BY <1>2, <1>4, <1>5, <1>7, <2>1, <2>2, ShowsTold
  <2> QED
    BY <1>1, <1>2, <1>6, <2>3 DEF SentOrShown, Sending, Shows
<1>8. CASE s # x \/ ~Tells(c.ev, r)
  <2>1. \A b \in casts : s \in b.left /\ Tells(b.ev, r)
          => \E e \in casts' : s \in e.left /\ Tells(e.ev, r)
    BY <1>4, <1>8
  <2>2. table[s][r] = version[r] => table'[s][r] = version[r]
    BY <1>2, <1>4, <1>5, <1>8, ShowsSame
  <2> QED
    BY <1>1, <1>2, <1>6, <2>1, <2>2 DEF SentOrShown, Sending, Shows
<1> QED
  BY <1>7, <1>8

\* The snapshot shows what it was read to show.
LEMMA ViewKept ==
  ASSUME FeedInv, SnapCovers, Next, ~StartBroadcast, ~ContinueBroadcast,
         NEW s \in Sockets, NEW r \in Runs, Settled(s, r), Settled(s, r)',
         version'[r] = version[r], Shows(s, r)
  PROVE  Shows(s, r)'
<1>1. /\ sock \in [Sockets -> Handler] /\ lost \in [Sockets -> BOOLEAN]
      /\ snap.of \in Content /\ table \in [Sockets -> [Runs -> Int]]
      /\ version \in [Runs -> 0 .. MaxOps]
  <2>1. Stub \in Int
    BY DEF Stub
  <2> QED
    BY <2>1, VersionType DEF FeedInv, TypeOK
<1>2. ~lost[s] /\ ~lost'[s] /\ sock[s] \in {"snapshot", "greeting", "live"}
      /\ sock'[s] \in {"snapshot", "greeting", "live"} /\ InHistory(r)
  BY DEF Settled, Connected
<1>3. ASSUME NEW x \in Sockets, SendSnapshot(x)
      PROVE  Shows(s, r)'
  <2>1. CASE x = s
    <3>1. sock[s] = "snapshot" /\ snap.to = {} /\ sock'[s] = "greeting"
      BY <1>1, <1>3, <2>1 DEF SendSnapshot
    <3>2. r \in DOMAIN snap.of /\ table'[s][r] = snap.of[r]
      BY <1>2, <1>3, <2>1, SnapshotShown
    <3> QED
      BY <3>1, <3>2 DEF Shows
  <2>2. CASE x # s
    <3>1. sock[s] # "snapshot" /\ sock'[s] = sock[s]
      BY <1>1, <1>3, <2>2 DEF SendSnapshot, FeedInv, OneSnapshot
    <3>2. table'[s] = table[s]
      BY <1>1, <1>3, <2>2 DEF SendSnapshot, Send
    <3> QED
      BY <3>1, <3>2 DEF Shows
  <2> QED
    BY <2>1, <2>2
<1>4. ASSUME NEW x \in Runs, ReadSnapshot(x)
      PROVE  Shows(s, r)'
  <2>1. /\ snap'.to = snap.to \ {x} /\ snap'.of = Put(snap.of, x, version[x])
        /\ sock' = sock /\ table' = table
    BY <1>4 DEF ReadSnapshot
  <2>2. /\ DOMAIN snap'.of = DOMAIN snap.of \cup {x}
        /\ snap'.of[x] = version[x]
        /\ \A y \in DOMAIN snap.of \ {x} : snap'.of[y] = snap.of[y]
    BY <2>1 DEF Put
  <2> QED
    BY <2>1, <2>2 DEF Shows
<1>5. ASSUME NEW x \in Sockets, Register(x)
      PROVE  Shows(s, r)'
  <2>1. /\ x # s /\ sock[s] # "snapshot" /\ sock'[s] = sock[s]
        /\ table' = table
    BY <1>1, <1>2, <1>5 DEF Register, LoopIsFree
  <2> QED
    BY <2>1 DEF Shows
<1>6. ASSUME NEW x \in Sockets, Lose(x)
      PROVE  Shows(s, r)'
  <2>1. x # s
    BY <1>1, <1>2, <1>6 DEF Lose
  <2>2. table'[s] = table[s] /\ sock' = sock /\ snap' = snap
    BY <1>1, <1>6, <2>1 DEF Lose
  <2> QED
    BY <2>2 DEF Shows
<1>7. ASSUME UNCHANGED <<table, snap>>,
             \A x \in Sockets : ~SendSnapshot(x) /\ ~Register(x)
      PROVE  Shows(s, r)'
  <2>1. sock'[s] = "snapshot" <=> sock[s] = "snapshot"
    BY <1>1, <1>2, <1>7, SockCases DEF Refuse, Greet, Disconnect
  <2> QED
    BY <1>7, <2>1 DEF Shows
<1> QED
  BY <1>3, <1>4, <1>5, <1>6, <1>7, TableCases, SnapCases

\* When nothing more is scheduled, the latest state is shown or being sent.
LEMMA ThenShownKept ==
  ASSUME FeedInv, OnlyKnown, NewUnserved, SnapCovers, OneCast, MadeKnown,
         LastIsLatest, ThenShown, Next
  PROVE  ThenShown'
<1> SUFFICES ASSUME NEW s \in Sockets, NEW r \in Runs, Settled(s, r)',
                    ~Pending(r)', Silent(ready', r)
             PROVE  SentOrShown(s, r)'
  BY DEF ThenShown
<1>1. r \notin raced' /\ r \notin raced /\ version'[r] = version[r]
  BY SettledBefore, PendingNext DEF Settled
<1>2. \A t \in Threads : Emit(t) => r \notin DOMAIN op[t].of
  BY <1>1, EmitSays
<1>3. ~Pending(r) /\ InHistory(r)
  BY <1>2, PendingNext, SettledBefore
<1>4. CASE Register(s)
  <2>1. /\ sock[s] = "new" /\ casts' = casts
        /\ sock'[s] = "snapshot"
        /\ snap'.to = {x \in Runs : InHistory(x)}
    BY <1>4 DEF Register, FeedInv, TypeOK
  <2>2. \A c \in casts' : s \notin c.left
    BY <2>1 DEF NewUnserved
  <2>3. r \in snap'.to
    BY <1>3, <2>1
  <2> QED
    BY <2>1, <2>2, <2>3 DEF SentOrShown, Sending, Shows
<1>5. CASE ~Register(s)
  <2>1. Settled(s, r)
    BY <1>1, <1>3, <1>5, SettledBefore DEF Settled
  <2>2. CASE StartBroadcast
    BY <1>1, <1>3, <2>1, <2>2, StartShows
  <2>3. CASE ~StartBroadcast
    <3>1. Silent(ready, r)
      BY <1>2, <2>3, QueueNext
    <3>2. SentOrShown(s, r)
      BY <1>3, <2>1, <3>1 DEF ThenShown
    <3>3. CASE ContinueBroadcast
      BY <2>1, <3>2, <3>3, ContinueShows
    <3>4. CASE ~ContinueBroadcast
      <4>1. casts' = casts
        BY <2>3, <3>4, CastsCases
      <4>2. Shows(s, r) => Shows(s, r)'
        BY <1>1, <2>1, <2>3, <3>4, ViewKept
      <4> QED
        BY <1>1, <3>2, <4>1, <4>2 DEF SentOrShown, Sending
    <3> QED
      BY <3>3, <3>4
  <2> QED
    BY <2>2, <2>3
<1> QED
  BY <1>4, <1>5

-----------------------------------------------------------------------------
\* QuietInv holds at first, and every step keeps it.
LEMMA QuietInit ==
  ASSUME Init
  PROVE  QuietInv
<1>1. FeedInv
  BY InitFeed
<1>2. /\ ready = <<>> /\ casts = {} /\ clients = {}
      /\ \A t \in Threads : op[t] = NoOp
      /\ \A s \in Sockets : sock[s] = "new"
      /\ snap = NoSnap
  BY DEF Init
<1>3. OnlyKnown
  <2>1. version = [r \in Runs |-> IF r = First THEN 1 ELSE 0]
    BY DEF Init
  <2>2. \A r \in Runs : InHistory(r) => r = First
    <3>1. order = <<First>>
      BY DEF Init
    <3> QED
      BY <3>1 DEF InHistory
  <2>3. \A r \in Runs : InHistory(r) => version[r] > 0
    BY <2>1, <2>2
  <2>4. \A t \in Threads : op[t].to = {} /\ DOMAIN op[t].of = {}
    BY <1>2 DEF NoOp, NoRuns
  <2>5. snap.to = {} /\ DOMAIN snap.of = {}
    BY <1>2 DEF NoSnap, NoRuns
  <2> QED
    BY <1>2, <2>3, <2>4, <2>5 DEF OnlyKnown
<1>4. NewUnserved /\ SnapCovers /\ OneCast
  BY <1>2 DEF NewUnserved, SnapCovers, OneCast
<1>5. MadeKnown /\ ThenShown
  BY <1>2 DEF MadeKnown, ThenShown, Settled, Connected
<1>6. LastIsLatest
  <2>1. DOMAIN ready = {}
    BY <1>2
  <2> QED
    BY <2>1 DEF LastIsLatest, Silent, Telling
<1> QED
  BY <1>1, <1>3, <1>4, <1>5, <1>6 DEF QuietInv

LEMMA QuietKept ==
  ASSUME QuietInv, [Next]_vars
  PROVE  QuietInv'
<1>1. FeedInv'
  BY FeedInvKept DEF QuietInv
<1>2. CASE Next
  BY <1>1, <1>2, OnlyKnownKept, NewUnservedKept, SnapCoversKept, OneCastKept,
    MadeKnownKept, LastIsLatestKept, ThenShownKept DEF QuietInv
<1>3. CASE UNCHANGED vars
  <2> USE <1>3 DEF vars, registryVars, threadVars, hubVars, socketVars,
        QuietInv
  <2>1. OnlyKnown' /\ NewUnserved' /\ SnapCovers' /\ OneCast'
    BY DEF OnlyKnown, InHistory, SaysKnown, NewUnserved, SnapCovers, OneCast
  <2>2. \A r \in Runs : /\ Pending(r)' = Pending(r)
                       /\ InHistory(r)' = InHistory(r)
    BY DEF Pending, InHistory
  <2>3. MadeKnown'
    BY DEF MadeKnown, Settled, Connected, InHistory, LogAhead
  <2>4. LastIsLatest'
    BY <2>2 DEF LastIsLatest
  <2>5. ThenShown'
    BY <2>2 DEF ThenShown, Settled, Connected, SentOrShown, Sending, Shows
  <2> QED
    BY <1>1, <2>1, <2>3, <2>4, <2>5
<1> QED
  BY <1>2, <1>3

\* The part of the proof about the end of the way: what was said last of a
\* run is its latest state, and it arrives.
THEOREM QuietInductive == Spec => []QuietInv
BY QuietInit, QuietKept, PTL DEF Spec

\* A run whose events did not race is shown as it is by every client that is
\* connected, once nothing about it is on its way: a dashboard shows an old
\* state for ever in the three ways the hub has, and in no other.
THEOREM QuietRight == Spec => []QuietIsRight
<1>1. QuietInv => QuietIsRight
  <2> SUFFICES ASSUME QuietInv,
                      NEW s \in Sockets, NEW r \in Runs,
                      Connected(s), sock[s] # "snapshot", InHistory(r),
                      r \notin raced, ~OnItsWay(s, r)
               PROVE  table[s][r] = version[r]
    BY DEF QuietIsRight
  <2>1. ~Pending(r) /\ Silent(ready, r) /\ Sending(s, r) = {}
    BY DEF OnItsWay, Pending, Silent, Telling, Tells, Sending
  <2> QED
    BY <2>1 DEF QuietInv, ThenShown, Settled, SentOrShown, Shows
<1> QED
  BY <1>1, QuietInductive, PTL
=============================================================================
