-------------------------- MODULE ProjectLineProofs --------------------------
(***************************************************************************)
(* TLAPS proofs that ProjectQueue shows its lines as they are, for any     *)
(* runs, projects, workers and attempts.                                   *)
(***************************************************************************)
EXTENDS ProjectQueueProofs

-----------------------------------------------------------------------------
(* What the queue's operators return.                                      *)

\* With nobody to drop, popleft takes the first run.
LEMMA NextIsFirst ==
  ASSUME NEW q \in Seq(Runs), q # <<>>, \A i \in 1..Len(q) : ~Dropped(q[i])
  PROVE  NextIndex(q) = 1
<1> DEFINE I == {i \in 1..Len(q) : ~Dropped(q[i])}
<1>1. Len(q) \in Nat /\ Len(q) >= 1
  BY EmptySeq, LenProperties
<1>2. I = 1..Len(q)
  OBVIOUS
<1>3. NextIndex(q) = Min(I)
  BY <1>1, <1>2 DEF NextIndex, SelectInSeq
<1> HIDE DEF I
<1>4. I \subseteq 1..Len(q) /\ I # {} /\ 1 \in I
  BY <1>1, <1>2
<1>5. Min(I) \in I /\ \A i \in I : Min(I) <= i
  BY <1>1, <1>4, MinOfIndices
<1>6. Min(I) \in 1..Len(q) /\ Min(I) <= 1
  BY <1>2, <1>4, <1>5
<1> QED
  BY <1>1, <1>3, <1>6

\* deque.remove takes out a run that is there once.
LEMMA RemoveFirstExact ==
  ASSUME NEW S, NEW s \in Seq(S), NEW k \in 1..Len(s),
         \A i \in 1..Len(s) : s[i] = s[k] => i = k
  PROVE  /\ RemoveFirst(s, s[k]) \in Seq(S)
         /\ Len(RemoveFirst(s, s[k])) = Len(s) - 1
         /\ \A i \in 1..Len(s) - 1 :
              RemoveFirst(s, s[k])[i] = IF i < k THEN s[i] ELSE s[i + 1]
<1> DEFINE I == {i \in 1..Len(s) : s[i] = s[k]}
<1>1. Min(I) = k
  <2>1. I \subseteq 1..Len(s) /\ k \in I /\ Len(s) \in Nat
    BY LenProperties
  <2>2. Min(I) \in I
    BY <2>1, MinOfIndices
  <2> QED
    BY <2>2
<1>2. RemoveFirst(s, s[k]) = RemoveAt(s, k)
  BY <1>1 DEF RemoveFirst, SelectInSeq
<1> QED
  BY <1>2, RemoveAtProperties

-----------------------------------------------------------------------------
(* The line of a project.                                                  *)

\* The runs of a line are the project's, accepted and distinct.
LEMMA LineRuns ==
  ASSUME IInv, NEW p \in Projects
  PROVE  LET l == Line(active[p], waiting[p])
         IN /\ l \in Seq(Runs) /\ Len(l) \in Nat
            /\ \A i \in 1..Len(l) : l[i] \in Runs /\ ProjectOf[l[i]] = p
<1> DEFINE a == active[p]
           q == waiting[p]
           l == Line(a, q)
<1>1. /\ a \in Runs \cup {NoRun} /\ q \in Seq(Runs) /\ Len(q) \in Nat
      /\ a # NoRun => ProjectOf[a] = p
      /\ \A i \in 1..Len(q) : q[i] \in Runs /\ ProjectOf[q[i]] = p
  BY Types DEF IInv, ActiveRuns, WaitingRuns, WaitingOf
<1> HIDE DEF a, q
<1>2. CASE a = NoRun
  BY <1>1, <1>2, LineOfNone DEF a, q
<1>3. CASE a # NoRun
  <2>1. /\ l \in Seq(Runs) /\ Len(l) = Len(q) + 1 /\ l[1] = a
        /\ \A i \in 1..Len(q) : l[i + 1] = q[i]
    BY <1>1, <1>3, LineAt
  <2> HIDE DEF l
  <2>2. ASSUME NEW i \in 1..Len(l)
        PROVE  l[i] \in Runs /\ ProjectOf[l[i]] = p
    <3>1. CASE i = 1
      BY <1>1, <1>3, <2>1, <3>1
    <3>2. CASE i # 1
      <4>1. PICK j \in 1..Len(q) : i = j + 1
        <5>1. i - 1 \in 1..Len(q) /\ i - 1 + 1 = i
          BY <1>1, <2>1, <3>2
        <5> QED
          BY <5>1
      <4> QED
        BY <1>1, <2>1, <4>1
    <3> QED
      BY <3>1, <3>2
  <2>3. l \in Seq(Runs) /\ Len(l) \in Nat
    BY <1>1, <2>1
  <2> QED
    BY <2>2, <2>3, Zenon DEF l, a, q
<1> QED
  BY <1>2, <1>3

\* A worker's run does not wait.
LEMMA JobNotWaiting ==
  ASSUME IInv, NEW w \in Workers, job[w] # NoRun, NEW p \in Projects,
         NEW i \in 1..Len(waiting[p])
  PROVE  waiting[p][i] # job[w]
BY DEF IInv, HoldersActive, WaitingRuns, WaitingOf

\* on_task_finished takes the first run that waits: none is to be dropped.
LEMMA FinishedExact ==
  ASSUME IInv, LineInv, NEW w \in Workers, OnTaskFinished(w)
  PROVE  LET p == ProjectOf[job[w]]
             q == waiting[p]
         IN /\ pc[w] = "finish" /\ job[w] \in Runs /\ job[w] # NoRun
            /\ p \in Projects /\ active[p] = job[w] /\ q \in Seq(Runs)
            /\ q = <<>> => LeaveSection(w, p, NoRun, <<>>, <<>>, NoRun)
            /\ q # <<>> =>
                 LeaveSection(w, p, q[1], Tail(q), Dequeued(q[1], Tail(q)), q[1])
<1> DEFINE r == job[w]
           p == ProjectOf[r]
           q == waiting[p]
           i == NextIndex(q)
           rest == SubSeq(q, i + 1, Len(q))
<1>1. /\ pc[w] = "finish" /\ r \in Runs /\ r # NoRun /\ p \in Projects
      /\ active[p] = r /\ q \in Seq(Runs)
  BY Types DEF OnTaskFinished, IInv, LocalsSet, HoldersActive
<1>2. IF i = 0 THEN LeaveSection(w, p, NoRun, <<>>, <<>>, NoRun)
      ELSE LeaveSection(w, p, q[i], rest, Dequeued(q[i], rest), q[i])
  BY <1>1 DEF OnTaskFinished
<1>3. ASSUME q = <<>>
      PROVE  LeaveSection(w, p, NoRun, <<>>, <<>>, NoRun)
  <2>1. i \in 0..Len(q) /\ Len(q) = 0
    BY <1>1, <1>3, NextIndexRange
  <2>2. i = 0
    BY <2>1
  <2> QED
    BY <1>2, <2>2
<1>4. ASSUME q # <<>>
      PROVE  LeaveSection(w, p, q[1], Tail(q), Dequeued(q[1], Tail(q)), q[1])
  <2>1. \A k \in 1..Len(q) : ~Dropped(q[k])
    <3> SUFFICES ASSUME NEW k \in 1..Len(q)
                 PROVE  ~Dropped(q[k])
      OBVIOUS
    <3>1. ~cancelReq[q[k]]
      BY <1>1 DEF LineInv, WaitingNotAsked
    <3>2. status[q[k]] = "queue_waiting" \/ ShownNext(q[k])
      BY <1>1 DEF LineInv, WaitingShown
    <3>3. status[q[k]] # "cancelled"
      BY <1>1, <3>2 DEF ShownNext
    <3> QED
      BY <3>1, <3>3 DEF Dropped
  <2>2. i = 1
    BY <1>1, <1>4, <2>1, NextIsFirst
  <2>3. Tail(q) = SubSeq(q, 2, Len(q))
    BY <1>1, <1>4, TailIsSubSeq
  <2>4. rest = Tail(q)
    BY <2>2, <2>3
  <2> HIDE DEF i, rest
  <2> QED
    BY <1>2, <2>2, <2>4
<1> QED
  BY <1>1, <1>3, <1>4, Zenon

-----------------------------------------------------------------------------
(* The invariant of the line: steps outside the queue's lock.              *)

\* Updates to come are about runs.
LEMMA UpdateAt ==
  ASSUME IInv, NEW t \in Threads, NEW k \in 1..Len(todo[t])
  PROVE  todo[t][k] \in Update /\ todo[t][k].run \in Runs
<1>1. todo[t] \in Seq(Update)
  BY DEF IInv, TypeOK
<1>2. todo[t][k] \in Update
  BY <1>1, LenProperties
<1> QED
  BY <1>2 DEF Update

\* A run is asked to stop only through the loop.
LEMMA AskedFrame ==
  ASSUME IInv, LineInv, UNCHANGED <<waiting, cancelReq>>,
         pc'[Loop] = "cancelMark" => pc[Loop] = "cancelMark" /\ target' = target,
         \A r \in Runs : status'[r] = "none" => status[r] = "none"
  PROVE  WaitingNotAsked'
BY DEF LineInv, WaitingNotAsked

\* A step that changes neither the queue nor an update to come.
LEMMA ShownFrame ==
  ASSUME IInv, LineInv, UNCHANGED <<active, waiting, racy, todo, place>>,
         \A r \in Runs : status'[r] = "none" => status[r] = "none",
         \A p \in Projects : \A i \in 1..Len(waiting[p]) :
           status'[waiting[p][i]] = status[waiting[p][i]],
         \A t \in Threads : todo[t] # <<>> => pc'[t] = pc[t]
  PROVE  /\ \A t \in Threads : todo'[t] # <<>> => pc'[t] = "updating"
         /\ WaitingShown'
         /\ NumbersComing'
<1>1. \A t \in Threads : todo'[t] # <<>> => pc'[t] = "updating"
  BY DEF LineInv
<1>2. WaitingShown'
  <2>1. \A t \in Threads : \A k \in 1..Len(todo[t]) : todo[t][k].run \in Runs
    BY UpdateAt
  <2>2. \A t \in Threads : \A k \in 1..Len(todo'[t]) :
          status'[todo'[t][k].run] # "none"
    BY <2>1 DEF LineInv, WaitingShown
  <2>3. \A p \in Projects : \A i \in 1..Len(waiting'[p]) :
          ShownNext(waiting[p][i]) => ShownNext(waiting[p][i])'
    BY Types DEF ShownNext
  <2> QED
    BY <2>2, <2>3 DEF LineInv, WaitingShown
<1>3. NumbersComing'
  <2>1. \A r, at : PlaceComing(r, at) => PlaceComing(r, at)'
    BY DEF PlaceComing
  <2> QED
    BY <2>1 DEF LineInv, NumbersComing
<1> QED
  BY <1>1, <1>2, <1>3

\* Applying an update shows what was to come, to the run it is about.
LEMMA ApplyLine ==
  ASSUME IInv, LineInv, NEW t \in Threads, ApplyUpdate(t)
  PROVE  LineInv'
<1> DEFINE u == Head(todo[t])
           s == todo[t]
<1>1. /\ s \in Seq(Update) /\ s # <<>> /\ Len(s) \in Nat
      /\ Tail(s) \in Seq(Update) /\ Len(Tail(s)) = Len(s) - 1
      /\ \A k \in 1..Len(Tail(s)) : Tail(s)[k] = s[k + 1]
      /\ u = s[1] /\ u \in Update /\ 1 \in 1..Len(s)
  <2>1. s \in Seq(Update) /\ s # <<>> /\ Len(s) \in Nat
    BY LenProperties DEF ApplyUpdate, IInv, TypeOK
  <2>2. 1 \in 1..Len(s)
    BY <2>1, EmptySeq
  <2> QED
    BY <2>1, <2>2, HeadTailProperties
<1>2. /\ pc[t] = "updating" /\ todo'[t] = Tail(s)
      /\ \A t2 \in Threads \ {t} : todo'[t2] = todo[t2]
      /\ UNCHANGED <<cancelReq, pc, target, active, waiting, racy>>
  BY DEF ApplyUpdate, queueVars, IInv, TypeOK
<1>3. /\ u.run \in Runs /\ u.status \in TaskStatus \cup {Keep}
      /\ status'[u.run] = IF u.status = Keep THEN status[u.run] ELSE u.status
      /\ place'[u.run] = u.place
      /\ \A r \in Runs \ {u.run} : status'[r] = status[r] /\ place'[r] = place[r]
  BY <1>1 DEF ApplyUpdate, IInv, TypeOK, Update
<1> HIDE DEF u, s
<1>4. \A r \in Runs : status'[r] = "none" => status[r] = "none"
  BY <1>3 DEF TaskStatus
\* An update that is still to come was to come before.
<1>5. ASSUME NEW t2 \in Threads, NEW k \in 1..Len(todo'[t2])
      PROVE  \E j \in 1..Len(todo[t2]) :
               todo'[t2][k] = todo[t2][j] /\ (t2 = t => j = k + 1)
  <2>1. CASE t2 = t
    <3>1. k + 1 \in 1..Len(s) /\ k \in 1..Len(Tail(s))
      BY <1>1, <1>2, <1>5, <2>1
    <3> QED
      BY <1>1, <1>2, <2>1, <3>1 DEF s
  <2>2. CASE t2 # t
    BY <1>2, <2>2
  <2> QED
    BY <2>1, <2>2
<1>6. \A t2 \in Threads : todo'[t2] # <<>> => pc'[t2] = "updating"
  BY <1>2 DEF LineInv
<1>7. WaitingNotAsked'
  BY <1>2, <1>4, AskedFrame
<1>8. WaitingShown'
  <2>1. \A t2 \in Threads : \A k \in 1..Len(todo[t2]) : todo[t2][k].run \in Runs
    BY UpdateAt
  <2>2. ASSUME NEW t2 \in Threads, NEW k \in 1..Len(todo'[t2])
        PROVE  status'[todo'[t2][k].run] # "none"
    <3>1. PICK j \in 1..Len(todo[t2]) : todo'[t2][k] = todo[t2][j]
      BY <1>5
    <3> QED
      BY <1>4, <2>1, <3>1 DEF LineInv, WaitingShown
  <2>3. ASSUME NEW p \in Projects, NEW i \in 1..Len(waiting[p])
        PROVE  status'[waiting[p][i]] = "queue_waiting"
               \/ ShownNext(waiting[p][i])'
    <3> DEFINE x == waiting[p][i]
    <3>1. x \in Runs
      BY <2>3, Types
    <3>2. status[x] = "queue_waiting" \/ ShownNext(x)
      BY <2>3 DEF LineInv, WaitingShown
    <3>3. u.run = x => u.status \in {Keep, "queue_waiting"}
      BY <1>1, <2>3 DEF LineInv, WaitingShown, s
    <3> HIDE DEF x
    <3>4. CASE status[x] = "queue_waiting"
      BY <1>3, <3>1, <3>3, <3>4 DEF x
    <3>5. CASE ShownNext(x) /\ t = Loop
      BY <1>1, <1>3, <3>3, <3>5 DEF ShownNext, s, x, Keep
    <3>6. CASE ShownNext(x) /\ t # Loop
      <4>1. todo'[Loop] = todo[Loop] /\ pc'[Loop] = pc[Loop]
        BY <1>2, <3>6, Types
      <4>2. status'[x] \in {"queue_waiting", "queued"}
        BY <1>3, <3>1, <3>3, <3>6 DEF ShownNext
      <4> QED
        BY <1>2, <3>6, <4>1, <4>2 DEF ShownNext, x
    <3> QED
      BY <3>2, <3>4, <3>5, <3>6
  <2>4. ASSUME NEW p \in Projects, NEW i \in 1..Len(waiting[p]),
               NEW t2 \in Threads, NEW k \in 1..Len(todo'[t2]),
               todo'[t2][k].run = waiting[p][i]
        PROVE  todo'[t2][k].status \in {Keep, "queue_waiting"}
    <3>1. PICK j \in 1..Len(todo[t2]) : todo'[t2][k] = todo[t2][j]
      BY <1>5
    <3> QED
      BY <2>4, <3>1 DEF LineInv, WaitingShown
  <2> QED
    BY <1>2, <2>2, <2>3, <2>4 DEF WaitingShown
<1>9. ASSUME NEW r \in Runs, NEW at, PlaceComing(r, at)
      PROVE  PlaceComing(r, at)'
  <2>1. \A t2 \in Threads : \A k \in 1..Len(todo[t2]) :
          todo[t2][k].run = r => todo[t2][k].place = at
    BY <1>9 DEF PlaceComing
  <2>2. \/ place[r] = at
        \/ \E t2 \in Threads : \E k \in 1..Len(todo[t2]) : todo[t2][k].run = r
    BY <1>9 DEF PlaceComing
  <2>3. \A t2 \in Threads : \A k \in 1..Len(todo'[t2]) :
          todo'[t2][k].run = r => todo'[t2][k].place = at
    <3> SUFFICES ASSUME NEW t2 \in Threads, NEW k \in 1..Len(todo'[t2]),
                        todo'[t2][k].run = r
                 PROVE  todo'[t2][k].place = at
      OBVIOUS
    <3>1. PICK j \in 1..Len(todo[t2]) : todo'[t2][k] = todo[t2][j]
      BY <1>5
    <3> QED
      BY <2>1, <3>1
  <2>4. CASE u.run = r
    <3>1. u.place = at
      BY <1>1, <2>1, <2>4 DEF s
    <3> QED
      BY <1>3, <2>3, <2>4, <3>1 DEF PlaceComing
  <2>5. CASE u.run # r /\ place[r] = at
    <3>1. place'[r] = at
      BY <1>3, <2>5
    <3> QED
      BY <2>3, <3>1 DEF PlaceComing
  <2>6. ASSUME u.run # r, NEW t2 \in Threads, NEW k \in 1..Len(todo[t2]),
               todo[t2][k].run = r
        PROVE  \E j \in 1..Len(todo'[t2]) : todo'[t2][j].run = r
    <3>1. CASE t2 = t
      <4>1. k # 1 /\ k \in 1..Len(s) /\ s[k].run = r
        BY <1>1, <2>6, <3>1 DEF s
      <4>2. k - 1 \in 1..Len(Tail(s)) /\ k - 1 + 1 = k
        BY <1>1, <4>1
      <4>3. Tail(s)[k - 1] = s[k]
        BY <1>1, <4>2
      <4> QED
        BY <1>2, <3>1, <4>1, <4>2, <4>3
    <3>2. CASE t2 # t
      BY <1>2, <2>6, <3>2
    <3> QED
      BY <3>1, <3>2
  <2> QED
    BY <2>2, <2>3, <2>4, <2>5, <2>6 DEF PlaceComing
<1>10. NumbersComing'
  <2>1. \A p \in Projects :
          LET l == Line(active[p], waiting[p])
          IN \A i \in 1..Len(l) : l[i] \in Runs
    BY LineRuns
  <2> QED
    BY <1>2, <1>9, <2>1 DEF LineInv, NumbersComing
<1> QED
  BY <1>6, <1>7, <1>8, <1>10 DEF LineInv

-----------------------------------------------------------------------------
(* The invariant of the line: sections of the queue's lock.                *)

\* What a section of thread t on project p does to the threads and queues.
LEMMA SectionSteps ==
  ASSUME IInv, NEW t \in Threads, NEW p \in Projects, NEW a, NEW q, NEW u,
         NEW n, LeaveSection(t, p, a, q, u, n)
  PROVE  /\ active'[p] = a /\ waiting'[p] = q
         /\ \A o \in Projects \ {p} :
              active'[o] = active[o] /\ waiting'[o] = waiting[o]
         /\ todo'[t] = u /\ sched'[t] = n /\ pc'[t] = "updating"
         /\ \A t2 \in Threads \ {t} :
              todo'[t2] = todo[t2] /\ sched'[t2] = sched[t2] /\ pc'[t2] = pc[t2]
         /\ racy'[p] = UpdatesPending(t, p)
         /\ \A o \in Projects \ {p} : racy'[o] = racy[o]
BY DEF LeaveSection, IInv, TypeOK

\* A section whose updates number the new line, each run once.
LEMMA SectionNumbers ==
  ASSUME IInv, LineInv, NEW t \in Threads, NEW p \in Projects,
         NEW a \in Runs \cup {NoRun}, NEW q \in Seq(Runs), NEW u, NEW n,
         LeaveSection(t, p, a, q, u, n),
         pc[t] # "updating", place' = place,
         \A k \in 1..Len(u) : ProjectOf[u[k].run] = p,
         \A i \in 1..Len(Line(a, q)) :
           /\ ProjectOf[Line(a, q)[i]] = p
           /\ \A k \in 1..Len(u) :
                u[k].run = Line(a, q)[i] => u[k].place = <<i, Len(Line(a, q))>>
           /\ \E k \in 1..Len(u) : u[k].run = Line(a, q)[i]
  PROVE  NumbersComing'
<1> DEFINE l == Line(a, q)
<1>1. /\ active'[p] = a /\ waiting'[p] = q
      /\ \A o \in Projects \ {p} :
           active'[o] = active[o] /\ waiting'[o] = waiting[o]
      /\ todo'[t] = u
      /\ \A t2 \in Threads \ {t} : todo'[t2] = todo[t2]
      /\ racy'[p] = UpdatesPending(t, p)
      /\ \A o \in Projects \ {p} : racy'[o] = racy[o]
  BY SectionSteps
<1>2. \A i \in 1..Len(l) :
        /\ ProjectOf[l[i]] = p
        /\ \A k \in 1..Len(u) : u[k].run = l[i] => u[k].place = <<i, Len(l)>>
        /\ \E k \in 1..Len(u) : u[k].run = l[i]
  OBVIOUS
<1>3. todo[t] = <<>>
  BY DEF LineInv
<1> HIDE DEF l
\* The project itself.
<1>4. ASSUME ~racy'[p], NEW i \in 1..Len(l)
      PROVE  PlaceComing(l[i], <<i, Len(l)>>)'
  <2>1. ASSUME NEW t2 \in Threads \ {t}, NEW k \in 1..Len(todo[t2])
        PROVE  ProjectOf[todo[t2][k].run] # p
    <3>1. todo[t2] \in Seq(Update)
      BY DEF IInv, TypeOK
    <3>2. DOMAIN todo[t2] = 1..Len(todo[t2])
      BY <3>1, LenProperties
    <3> QED
      BY <1>1, <1>4, <3>2 DEF UpdatesPending
  <2>2. \A t2 \in Threads : \A k \in 1..Len(todo'[t2]) :
          todo'[t2][k].run = l[i] => todo'[t2][k].place = <<i, Len(l)>>
    <3> SUFFICES ASSUME NEW t2 \in Threads, NEW k \in 1..Len(todo'[t2]),
                        todo'[t2][k].run = l[i]
                 PROVE  todo'[t2][k].place = <<i, Len(l)>>
      OBVIOUS
    <3>1. CASE t2 = t
      BY <1>1, <1>2, <1>4, <3>1
    <3>2. CASE t2 # t
      BY <1>1, <1>2, <1>4, <2>1, <3>2
    <3> QED
      BY <3>1, <3>2
  <2>3. \E t2 \in Threads : \E k \in 1..Len(todo'[t2]) : todo'[t2][k].run = l[i]
    BY <1>1, <1>2, <1>4
  <2> QED
    BY <2>2, <2>3 DEF PlaceComing
\* The others, of which this section's updates say nothing.
<1>5. ASSUME NEW r \in Runs, ProjectOf[r] # p, NEW at, PlaceComing(r, at)
      PROVE  PlaceComing(r, at)'
  <2>1. \A t2 \in Threads : \A k \in 1..Len(todo'[t2]) :
          todo'[t2][k].run = r => todo'[t2][k].place = at
    <3> SUFFICES ASSUME NEW t2 \in Threads, NEW k \in 1..Len(todo'[t2]),
                        todo'[t2][k].run = r
                 PROVE  todo'[t2][k].place = at
      OBVIOUS
    <3>1. CASE t2 = t
      BY <1>1, <1>5, <3>1
    <3>2. CASE t2 # t
      BY <1>1, <1>5, <3>2 DEF PlaceComing
    <3> QED
      BY <3>1, <3>2
  <2>2. ASSUME NEW t2 \in Threads, NEW k \in 1..Len(todo[t2]),
               todo[t2][k].run = r
        PROVE  \E k2 \in 1..Len(todo'[t2]) : todo'[t2][k2].run = r
    <3>1. t2 # t
      BY <1>3, <2>2
    <3> QED
      BY <1>1, <2>2, <3>1
  <2> QED
    BY <1>5, <2>1, <2>2 DEF PlaceComing
<1>6. SUFFICES ASSUME NEW o \in Projects, ~racy'[o],
                      NEW i \in 1..Len(Line(active[o], waiting[o])'),
                      o # p
               PROVE  PlaceComing(Line(active[o], waiting[o])[i],
                        <<i, Len(Line(active[o], waiting[o]))>>)'
  BY <1>1, <1>4 DEF NumbersComing, l
<1> DEFINE m == Line(active[o], waiting[o])
<1>7. Line(active[o], waiting[o])' = m
  BY <1>1, <1>6
<1>8. i \in 1..Len(m) /\ m[i] \in Runs /\ ProjectOf[m[i]] = o
  BY <1>6, <1>7, LineRuns
<1>9. PICK r \in Runs, at \in {<<i, Len(m)>>} : r = m[i] /\ at = <<i, Len(m)>>
  BY <1>8
<1>10. PlaceComing(r, at)
  BY <1>1, <1>6, <1>8, <1>9 DEF LineInv, NumbersComing
<1>11. PlaceComing(r, at)'
  BY <1>5, <1>6, <1>8, <1>9, <1>10
<1>12. /\ r = Line(active[o], waiting[o])'[i]
       /\ at = <<i, Len(Line(active[o], waiting[o])')>>
  BY <1>7, <1>9
<1> QED
  BY <1>11, <1>12 DEF PlaceComing

\* A section whose updates keep the runs that still wait shown as waiting.
LEMMA SectionShown ==
  ASSUME IInv, LineInv, NEW t \in Threads, NEW p \in Projects, NEW a, NEW q,
         NEW u, NEW n, LeaveSection(t, p, a, q, u, n),
         \A r \in Runs : status'[r] = "none" => status[r] = "none",
         \A k \in 1..Len(u) : u[k].run \in Runs /\ status'[u[k].run] # "none",
         \A o \in Projects : \A i \in 1..Len(waiting'[o]) :
           \E x \in Runs :
             /\ x = waiting'[o][i]
             /\ \/ \E j \in 1..Len(waiting[o]) : waiting[o][j] = x
                \/ status[x] = "none"
             /\ \/ status'[x] = "queue_waiting"
                \/ /\ t = Loop /\ status'[x] = "queued" /\ u # <<>>
                   /\ u[1].run = x /\ u[1].status = "queue_waiting"
                \/ t # Loop /\ status'[x] = status[x] /\ status[x] # "none"
             /\ \A k \in 1..Len(u) :
                  u[k].run = x => u[k].status \in {Keep, "queue_waiting"}
  PROVE  WaitingShown'
<1>1. /\ todo'[t] = u /\ pc'[t] = "updating"
      /\ \A t2 \in Threads \ {t} : todo'[t2] = todo[t2] /\ pc'[t2] = pc[t2]
  BY SectionSteps
<1>2. ASSUME NEW t2 \in Threads, NEW k \in 1..Len(todo'[t2])
      PROVE  status'[todo'[t2][k].run] # "none"
  <2>1. CASE t2 = t
    BY <1>1, <1>2, <2>1
  <2>2. CASE t2 # t
    <3>1. todo'[t2][k] = todo[t2][k] /\ k \in 1..Len(todo[t2])
      BY <1>1, <1>2, <2>2
    <3> QED
      BY <3>1, UpdateAt DEF LineInv, WaitingShown
  <2> QED
    BY <2>1, <2>2
<1>3. ASSUME NEW o \in Projects, NEW i \in 1..Len(waiting'[o])
      PROVE  /\ \/ status'[waiting'[o][i]] = "queue_waiting"
                \/ ShownNext(waiting[o][i])'
             /\ \A t2 \in Threads : \A k \in 1..Len(todo'[t2]) :
                  todo'[t2][k].run = waiting'[o][i]
                    => todo'[t2][k].status \in {Keep, "queue_waiting"}
  <2>1. PICK x \in Runs :
          /\ x = waiting'[o][i]
          /\ \/ \E j \in 1..Len(waiting[o]) : waiting[o][j] = x
             \/ status[x] = "none"
          /\ \/ status'[x] = "queue_waiting"
             \/ /\ t = Loop /\ status'[x] = "queued" /\ u # <<>>
                /\ u[1].run = x /\ u[1].status = "queue_waiting"
             \/ t # Loop /\ status'[x] = status[x] /\ status[x] # "none"
          /\ \A k \in 1..Len(u) :
               u[k].run = x => u[k].status \in {Keep, "queue_waiting"}
    BY <1>3
  <2>2. status'[x] = "queue_waiting" \/ ShownNext(x)'
    <3>1. CASE t = Loop
      BY <1>1, <2>1, <3>1 DEF ShownNext
    <3>2. CASE t # Loop /\ status'[x] = status[x] /\ status[x] # "none"
      <4>1. status[x] = "queue_waiting" \/ ShownNext(x)
        BY <2>1, <3>2 DEF LineInv, WaitingShown
      <4>2. todo'[Loop] = todo[Loop] /\ pc'[Loop] = pc[Loop]
        BY <1>1, <3>2, Types
      <4> QED
        BY <3>2, <4>1, <4>2 DEF ShownNext
    <3> QED
      BY <2>1, <3>1, <3>2
  <2>3. ASSUME NEW t2 \in Threads, NEW k \in 1..Len(todo'[t2]),
               todo'[t2][k].run = x
        PROVE  todo'[t2][k].status \in {Keep, "queue_waiting"}
    <3>1. CASE t2 = t
      BY <1>1, <2>1, <2>3, <3>1
    <3>2. CASE t2 # t
      <4>1. todo'[t2][k] = todo[t2][k] /\ k \in 1..Len(todo[t2])
        BY <1>1, <2>3, <3>2
      <4>2. status[x] # "none"
        BY <2>3, <4>1 DEF LineInv, WaitingShown
      <4> QED
        BY <2>1, <2>3, <4>1, <4>2 DEF LineInv, WaitingShown
    <3> QED
      BY <3>1, <3>2
  <2>4. \/ status'[waiting'[o][i]] = "queue_waiting"
        \/ ShownNext(waiting[o][i])'
    BY <2>1, <2>2 DEF ShownNext
  <2> QED
    BY <2>1, <2>3, <2>4
<1> QED
  BY <1>2, <1>3 DEF WaitingShown

\* A line of runs that are distinct, as the queue's are.
LEMMA LineDistinct ==
  ASSUME NEW p \in Projects, NEW a \in Runs, NEW q \in Seq(Runs),
         ProjectOf[a] = p,
         \A i \in 1..Len(q) : q[i] # a /\ ProjectOf[q[i]] = p,
         \A i, j \in 1..Len(q) : q[i] = q[j] => i = j
  PROVE  LET l == Line(a, q)
         IN /\ \A i, j \in 1..Len(l) : l[i] = l[j] => i = j
            /\ \A i \in 1..Len(l) : l[i] \in Runs /\ ProjectOf[l[i]] = p
            /\ \A i \in 1..Len(l) :
                 l[i] = a \/ \E j \in 1..Len(q) : l[i] = q[j]
<1> DEFINE l == Line(a, q)
<1>1. /\ l \in Seq(Runs) /\ Len(l) = Len(q) + 1 /\ l[1] = a
      /\ \A i \in 1..Len(q) : l[i + 1] = q[i]
  BY LineAt
<1>2. Len(q) \in Nat /\ \A i \in 1..Len(l) : l[i] \in Runs
  BY <1>1, LenProperties
<1> HIDE DEF l
<1>3. ASSUME NEW i \in 1..Len(l), i # 1
      PROVE  \E j \in 1..Len(q) : i = j + 1 /\ l[i] = q[j]
  <2>1. i - 1 \in 1..Len(q) /\ i = i - 1 + 1
    BY <1>1, <1>2, <1>3
  <2> QED
    BY <1>1, <2>1
<1>4. \A i \in 1..Len(l) : l[i] = a \/ \E j \in 1..Len(q) : l[i] = q[j]
  BY <1>1, <1>3
<1>5. \A i, j \in 1..Len(l) : l[i] = l[j] => i = j
  <2> TAKE i, j \in 1..Len(l)
  <2> HAVE l[i] = l[j]
  <2>1. \A k \in 1..Len(l) : k # 1 => l[k] # a
    BY <1>3
  <2>2. CASE i # 1 /\ j # 1
    <3>1. PICK k \in 1..Len(q) : i = k + 1 /\ l[i] = q[k]
      BY <1>3, <2>2
    <3>2. PICK m \in 1..Len(q) : j = m + 1 /\ l[j] = q[m]
      BY <1>3, <2>2
    <3> QED
      BY <3>1, <3>2
  <2> QED
    BY <1>1, <2>1, <2>2
<1>6. \A i \in 1..Len(l) : ProjectOf[l[i]] = p
  BY <1>4
<1> QED
  BY <1>2, <1>4, <1>5, <1>6 DEF l

\* Updates u are one of the run in first, then those of the line l.
FirstThenLine(u, first, l) ==
  /\ Len(l) \in Nat /\ Len(u) = Len(l) + 1 /\ u # <<>>
  /\ u[1] = first
  /\ \A k \in 1..Len(l) : /\ u[k + 1].run = l[k]
                          /\ u[k + 1].status = Keep
                          /\ u[k + 1].place = <<k, Len(l)>>

\* enqueue's updates: the new run's own, then the renumbered line.
LEMMA EnqueueUpdates ==
  ASSUME NEW a \in Runs, NEW q \in Seq(Runs), NEW first, NEW u, NEW l,
         l = Line(a, q), u = <<first>> \o Renumbered(a, q)
  PROVE  FirstThenLine(u, first, l)
<1> DEFINE v == Renumbered(a, q)
<1>1. v \in Seq(Update) /\ Len(v) = Len(l) /\ Len(l) \in Nat
  BY RenumberedType, LineType
<1>2. \A k \in 1..Len(l) : /\ v[k].run = l[k]
                           /\ v[k].status = Keep
                           /\ v[k].place = <<k, Len(l)>>
  BY RenumberedAt
<1> HIDE DEF v
<1>3. v \in Seq(Update \cup {first}) /\ <<first>> \in Seq(Update \cup {first})
  BY <1>1, SeqMonotonic
<1>4. /\ Len(u) = 1 + Len(v)
      /\ \A k \in 1..1 + Len(v) :
           u[k] = IF k <= 1 THEN <<first>>[k] ELSE v[k - 1]
  BY <1>3, ConcatProperties DEF v
<1>5. u # <<>> /\ u[1] = first
  BY <1>1, <1>4
<1>6. ASSUME NEW k \in 1..Len(l)
      PROVE  u[k + 1] = v[k]
  <2>1. k + 1 \in 1..1 + Len(v) /\ ~(k + 1 <= 1) /\ k + 1 - 1 = k
    BY <1>1, <1>6
  <2> QED
    BY <1>4, <2>1
<1> QED
  BY <1>1, <1>2, <1>4, <1>5, <1>6 DEF FirstThenLine

\* enqueue keeps the invariant: the new run, if it waits, is shown next.
LEMMA EnqueueLine ==
  ASSUME IInv, LineInv, NEW r \in Runs, Enqueue(r)
  PROVE  LineInv'
<1> DEFINE p == ProjectOf[r]
           a == active[p]
           q == Append(waiting[p], r)
           l == Line(a, q)
           n == Len(l)
           first == [run |-> r, status |-> "queue_waiting", place |-> <<n, n>>]
           u == <<first>> \o Renumbered(a, q)
           one == <<[run |-> r, status |-> "queued", place |-> <<1, 1>>]>>
<1>1. /\ p \in Projects /\ a \in Runs \cup {NoRun} /\ waiting[p] \in Seq(Runs)
      /\ Loop \in Threads /\ r # NoRun /\ Len(waiting[p]) \in Nat
  BY Types
<1>2. /\ pc[Loop] = "idle" /\ status[r] = "none"
      /\ UNCHANGED <<cancelReq, place, target>>
      /\ status'[r] = "queued"
      /\ \A x \in Runs \ {r} : status'[x] = status[x]
  BY DEF Enqueue, IInv, TypeOK
<1>3. IF StartsAtOnce(p) THEN LeaveSection(Loop, p, r, <<>>, one, r)
      ELSE LeaveSection(Loop, p, a, q, u, NoRun)
  BY DEF Enqueue
<1>4. /\ \A o \in Projects : \A i \in 1..Len(waiting[o]) :
           /\ waiting[o][i] \in Runs \ {r}
           /\ status[waiting[o][i]] = "queue_waiting"
           /\ ~cancelReq[waiting[o][i]]
      /\ ~cancelReq[r]
  BY <1>2, Types, NewRunNowhere
     DEF LineInv, WaitingShown, WaitingNotAsked, ShownNext
<1>5. \A x \in Runs : status'[x] = "none" => status[x] = "none"
  BY <1>2
<1> HIDE DEF p, a, q, l, n, first, u, one
\* The parts that do not depend on the branch.
<1>6. ASSUME NEW b, NEW s, NEW v, NEW m, LeaveSection(Loop, p, b, s, v, m)
      PROVE  /\ \A t \in Threads : todo'[t] # <<>> => pc'[t] = "updating"
             /\ pc'[Loop] = "updating"
             /\ waiting'[p] = s
             /\ \A o \in Projects \ {p} : waiting'[o] = waiting[o]
  BY <1>1, <1>6, SectionSteps DEF LineInv
<1>7. CASE StartsAtOnce(p)
  <2> DEFINE rec == [run |-> r, status |-> "queued", place |-> <<1, 1>>]
             m == Line(r, <<>>)
  <2>1. LeaveSection(Loop, p, r, <<>>, one, r)
    BY <1>3, <1>7
  <2>2. /\ Len(one) = 1 /\ one[1] = rec
        /\ rec.run = r /\ rec.place = <<1, 1>> /\ rec.status = "queued"
    BY DEF one
  <2>3. <<>> \in Seq(Runs) /\ Len(<<>>) = 0
    OBVIOUS
  <2>4. Len(m) = 1 /\ m[1] = r
    <3>1. Line(r, <<>>)[1] = r /\ Len(Line(r, <<>>)) = Len(<<>>) + 1
      BY <2>3, LineAt
    <3> QED
      BY <2>3, <3>1
  <2> HIDE DEF m, rec
  <2>5. WaitingNotAsked'
    BY <1>2, <1>4, <1>5, <1>6, <2>1, <2>3 DEF LineInv, WaitingNotAsked
  <2>6. WaitingShown'
    <3>1. \A k \in 1..Len(one) : one[k].run \in Runs /\ status'[one[k].run] # "none"
      BY <1>2, <2>2
    <3>2. ASSUME NEW o \in Projects, NEW i \in 1..Len(waiting'[o])
          PROVE  \E x \in Runs :
                   /\ x = waiting'[o][i] /\ x # r
                   /\ \E j \in 1..Len(waiting[o]) : waiting[o][j] = x
                   /\ status'[x] = "queue_waiting"
      BY <1>2, <1>4, <1>6, <2>1, <2>3, <3>2
    <3>3. \A x \in Runs \ {r} : \A k \in 1..Len(one) : one[k].run # x
      BY <2>2
    <3>4. ASSUME NEW o \in Projects, NEW i \in 1..Len(waiting'[o])
          PROVE  \E x \in Runs :
             /\ x = waiting'[o][i]
             /\ \/ \E j \in 1..Len(waiting[o]) : waiting[o][j] = x
                \/ status[x] = "none"
             /\ \/ status'[x] = "queue_waiting"
                \/ /\ Loop = Loop /\ status'[x] = "queued" /\ one # <<>>
                   /\ one[1].run = x /\ one[1].status = "queue_waiting"
                \/ Loop # Loop /\ status'[x] = status[x] /\ status[x] # "none"
             /\ \A k \in 1..Len(one) :
                  one[k].run = x => one[k].status \in {Keep, "queue_waiting"}
      BY <3>2, <3>3, <3>4
    <3> QED
      BY <1>1, <1>5, <2>1, <3>1, <3>4, SectionShown
  <2>7. NumbersComing'
    <3>1. \A k \in 1..Len(one) : ProjectOf[one[k].run] = p
      BY <2>2 DEF p
    <3>2. \A i \in 1..Len(m) :
            /\ ProjectOf[m[i]] = p
            /\ \A k \in 1..Len(one) :
                 one[k].run = m[i] => one[k].place = <<i, Len(m)>>
            /\ \E k \in 1..Len(one) : one[k].run = m[i]
      BY <2>2, <2>4 DEF p
    <3> QED
      BY <1>1, <1>2, <2>1, <2>3, <3>1, <3>2, SectionNumbers DEF m
  <2> QED
    BY <1>6, <2>1, <2>5, <2>6, <2>7 DEF LineInv
<1>8. CASE ~StartsAtOnce(p)
  <2>1. LeaveSection(Loop, p, a, q, u, NoRun)
    BY <1>3, <1>8
  <2>2. a \in Runs /\ a # r /\ ProjectOf[a] = p
    BY <1>1, <1>2, <1>8, NewRunNowhere
       DEF StartsAtOnce, IInv, NoStrandedWaiters, ActiveRuns, a
  <2>3. /\ q \in Seq(Runs) /\ Len(q) = Len(waiting[p]) + 1
        /\ \A i \in 1..Len(waiting[p]) : q[i] = waiting[p][i]
        /\ q[Len(waiting[p]) + 1] = r
    BY <1>1, AppendProperties DEF q
  <2>4. \A i \in 1..Len(q) :
          q[i] = r \/ \E j \in 1..Len(waiting[p]) : i = j /\ q[i] = waiting[p][j]
    <3> TAKE i \in 1..Len(q)
    <3>1. i \in 1..Len(waiting[p]) \/ i = Len(waiting[p]) + 1
      BY <1>1, <2>3
    <3> QED
      BY <2>3, <3>1
  <2>5. /\ \A i \in 1..Len(q) : q[i] # a /\ ProjectOf[q[i]] = p
        /\ \A i, j \in 1..Len(q) : q[i] = q[j] => i = j
    <3>1. \A i \in 1..Len(waiting[p]) :
            waiting[p][i] # a /\ ProjectOf[waiting[p][i]] = p /\ waiting[p][i] # r
      BY <1>1, <1>4 DEF IInv, WaitingRuns, WaitingOf, a
    <3>2. \A i, j \in 1..Len(waiting[p]) : waiting[p][i] = waiting[p][j] => i = j
      BY <1>1 DEF IInv, WaitingRuns, WaitingOf
    <3>3. ASSUME NEW i \in 1..Len(q)
          PROVE  q[i] = r => i = Len(q)
      <4>1. i \in 1..Len(waiting[p]) \/ i = Len(q)
        BY <1>1, <2>3
      <4> QED
        BY <2>3, <3>1, <4>1
    <3>4. \A i \in 1..Len(q) : q[i] # a /\ ProjectOf[q[i]] = p
      BY <2>2, <2>4, <3>1 DEF p
    <3>5. \A i, j \in 1..Len(q) : q[i] = q[j] => i = j
      <4> TAKE i, j \in 1..Len(q)
      <4>1. CASE q[i] = r
        BY <3>3, <4>1
      <4>2. CASE q[i] # r
        BY <2>4, <3>2, <4>2
      <4> QED
        BY <4>1, <4>2
    <3> QED
      BY <3>4, <3>5
  <2>6. /\ l \in Seq(Runs) /\ n = Len(q) + 1 /\ l[1] = a /\ n \in Nat
        /\ \A i \in 1..Len(q) : l[i + 1] = q[i]
    <3>1. Line(a, q) \in Seq(Runs) /\ Len(Line(a, q)) \in Nat
      BY <2>2, <2>3, LineType
    <3> QED
      BY <2>2, <2>3, <3>1, LineAt DEF l, n
  <2>7. /\ \A i, j \in 1..n : l[i] = l[j] => i = j
        /\ \A i \in 1..n : l[i] \in Runs /\ ProjectOf[l[i]] = p
        /\ \A i \in 1..n : l[i] = a \/ \E j \in 1..Len(q) : l[i] = q[j]
    BY <1>1, <2>2, <2>3, <2>5, LineDistinct DEF l, n
  <2>8. n \in 1..n /\ l[n] = r
    <3>1. Len(q) \in 1..Len(q) /\ q[Len(q)] = r
      BY <1>1, <2>3
    <3> QED
      BY <2>6, <3>1
  <2>9. /\ Len(u) = n + 1 /\ u # <<>> /\ u[1] = first
        /\ \A k \in 1..n : /\ u[k + 1].run = l[k]
                           /\ u[k + 1].status = Keep
                           /\ u[k + 1].place = <<k, n>>
    <3>1. a \in Runs
      BY <2>2
    <3>2. q \in Seq(Runs)
      BY <2>3
    <3>3. l = Line(a, q)
      BY DEF l
    <3>4. u = <<first>> \o Renumbered(a, q)
      BY DEF u
    <3>5. FirstThenLine(u, first, l)
      BY <3>1, <3>2, <3>3, <3>4, EnqueueUpdates
    <3>6. n = Len(l)
      BY DEF n
    <3> QED
      BY <3>5, <3>6 DEF FirstThenLine
  <2>10. /\ first.run = r /\ first.status = "queue_waiting"
         /\ first.place = <<n, n>>
    BY DEF first
  <2>11. \A k \in 1..Len(u) : k = 1 \/ \E j \in 1..n : k = j + 1
    <3> TAKE k \in 1..Len(u)
    <3>1. k = 1 \/ (k - 1 \in 1..n /\ k = k - 1 + 1)
      BY <2>6, <2>9
    <3> QED
      BY <3>1
  <2>12. WaitingNotAsked'
    <3>1. \A o \in Projects : \A i \in 1..Len(waiting'[o]) :
            waiting'[o][i] = r \/ \E j \in 1..Len(waiting[o]) :
                                    waiting'[o][i] = waiting[o][j]
      BY <1>6, <2>1, <2>4
    <3> QED
      BY <1>2, <1>4, <1>5, <1>6, <2>1, <3>1 DEF LineInv, WaitingNotAsked
  <2>13. WaitingShown'
    <3>1. ASSUME NEW k \in 1..Len(u)
          PROVE  u[k].run \in Runs /\ status'[u[k].run] # "none"
      <4>1. CASE k = 1
        BY <1>2, <2>9, <2>10, <4>1
      <4>2. ASSUME NEW j \in 1..n, k = j + 1
            PROVE  u[k].run \in Runs /\ status'[u[k].run] # "none"
        <5>1. u[k].run = l[j]
          BY <2>9, <4>2
        <5>2. status[a] # "none"
          BY <1>1, <2>2, NoRunIsNoRun DEF IInv, ActiveRuns, a
        <5>3. l[j] = a \/ l[j] = r
              \/ \E i \in 1..Len(waiting[p]) : l[j] = waiting[p][i]
          BY <2>4, <2>7
        <5>4. status'[l[j]] # "none"
          BY <1>1, <1>2, <1>4, <2>2, <5>2, <5>3
        <5> QED
          BY <2>7, <5>1, <5>4
      <4> QED
        BY <2>11, <4>1, <4>2
    <3>2. \A k \in 1..Len(u) : u[k].status \in {Keep, "queue_waiting"}
      BY <2>9, <2>10, <2>11
    <3>3. ASSUME NEW o \in Projects, NEW i \in 1..Len(waiting'[o])
          PROVE  \E x \in Runs :
             /\ x = waiting'[o][i]
             /\ \/ \E j \in 1..Len(waiting[o]) : waiting[o][j] = x
                \/ status[x] = "none"
             /\ \/ status'[x] = "queue_waiting"
                \/ /\ Loop = Loop /\ status'[x] = "queued" /\ u # <<>>
                   /\ u[1].run = x /\ u[1].status = "queue_waiting"
                \/ Loop # Loop /\ status'[x] = status[x] /\ status[x] # "none"
             /\ \A k \in 1..Len(u) :
                  u[k].run = x => u[k].status \in {Keep, "queue_waiting"}
      <4>1. waiting'[o][i] = r \/ \E j \in 1..Len(waiting[o]) :
                                    waiting'[o][i] = waiting[o][j]
        BY <1>6, <2>1, <2>4, <3>3
      <4>2. CASE waiting'[o][i] = r
        BY <1>2, <2>9, <2>10, <3>2, <4>2
      <4>3. ASSUME NEW j \in 1..Len(waiting[o]), waiting'[o][i] = waiting[o][j]
            PROVE  /\ waiting'[o][i] \in Runs
                   /\ status'[waiting'[o][i]] = "queue_waiting"
        BY <1>2, <1>4, <4>3
      <4> QED
        BY <3>2, <4>1, <4>2, <4>3
    <3> QED
      BY <1>1, <1>5, <2>1, <3>1, <3>3, SectionShown
  <2>14. NumbersComing'
    <3>1. \A k \in 1..Len(u) : ProjectOf[u[k].run] = p
      <4>1. \A k \in 1..Len(u) : u[k].run = r \/ \E j \in 1..n : u[k].run = l[j]
        BY <2>9, <2>10, <2>11
      <4> QED
        BY <2>7, <4>1 DEF p
    <3>2. ASSUME NEW i \in 1..n
          PROVE  /\ ProjectOf[l[i]] = p
                 /\ \A k \in 1..Len(u) :
                      u[k].run = l[i] => u[k].place = <<i, n>>
                 /\ \E k \in 1..Len(u) : u[k].run = l[i]
      <4>1. ASSUME NEW k \in 1..Len(u), u[k].run = l[i]
            PROVE  u[k].place = <<i, n>>
        <5>1. CASE k = 1
          BY <2>7, <2>8, <2>9, <2>10, <4>1, <5>1
        <5>2. ASSUME NEW j \in 1..n, k = j + 1
              PROVE  u[k].place = <<i, n>>
          BY <2>7, <2>9, <4>1, <5>2
        <5> QED
          BY <2>11, <5>1, <5>2
      <4>2. i + 1 \in 1..Len(u) /\ u[i + 1].run = l[i]
        BY <2>6, <2>9
      <4> QED
        BY <2>7, <4>1, <4>2
    <3> QED
      BY <1>1, <1>2, <2>1, <2>2, <2>3, <3>1, <3>2, SectionNumbers DEF l, n
  <2> QED
    BY <1>6, <2>1, <2>12, <2>13, <2>14 DEF LineInv
<1> QED
  BY <1>7, <1>8

\* Updates u are those of the line l, then one with the update last.
LineThenMark(u, l, last) ==
  /\ Len(l) \in Nat /\ Len(u) = Len(l) + 1
  /\ \A k \in 1..Len(l) : /\ u[k].run = l[k]
                          /\ u[k].status = Keep
                          /\ u[k].place = <<k, Len(l)>>
  /\ u[Len(l) + 1] = last

\* cancel_waiting's updates: the renumbered line, then the run's own.
LEMMA RemoveUpdates ==
  ASSUME NEW a \in Runs, NEW q \in Seq(Runs), NEW last, NEW u, NEW l,
         l = Line(a, q), u = Append(Renumbered(a, q), last)
  PROVE  LineThenMark(u, l, last)
<1> DEFINE v == Renumbered(a, q)
<1>1. v \in Seq(Update) /\ Len(v) = Len(l) /\ Len(l) \in Nat
  BY RenumberedType, LineType
<1>2. \A k \in 1..Len(l) : /\ v[k].run = l[k]
                           /\ v[k].status = Keep
                           /\ v[k].place = <<k, Len(l)>>
  BY RenumberedAt
<1>3. u = Append(v, last)
  OBVIOUS
<1> HIDE DEF v
<1>4. v \in Seq(Update \cup {last}) /\ last \in Update \cup {last}
  BY <1>1, SeqMonotonic
<1>5. /\ Len(u) = Len(v) + 1
      /\ \A k \in 1..Len(v) : u[k] = v[k]
      /\ u[Len(v) + 1] = last
  BY <1>3, <1>4, AppendProperties
<1> QED
  BY <1>1, <1>2, <1>5 DEF LineThenMark

\* cancel_waiting keeps the invariant: the others move up, in order.
LEMMA RemoveLine ==
  ASSUME IInv, LineInv, RemoveWaiting
  PROVE  LineInv'
<1> DEFINE r == target
           p == ProjectOf[r]
           a == active[p]
           s == waiting[p]
           q == RemoveFirst(s, r)
           l == Line(a, q)
           last == [run |-> r, status |-> "cancelled", place |-> NoPlace]
           u == Append(Renumbered(a, q), last)
<1>1. /\ pc[Loop] = "cancelWaiting" /\ status[r] = "queue_waiting"
      /\ Contains(s, r)
      /\ LeaveSection(Loop, p, a, q, u, NoRun)
      /\ UNCHANGED <<status, cancelReq, place>>
  BY DEF RemoveWaiting
<1>2. r \in Runs /\ p \in Projects /\ Loop \in Threads
  BY <1>1, Types DEF IInv, TypeOK, LocalsSet
<1>3. s \in Seq(Runs) /\ Len(s) \in Nat /\ \E k \in 1..Len(s) : s[k] = r
  BY <1>1, <1>2, Types DEF Contains
<1>4. \A o \in Projects : \A i \in 1..Len(waiting[o]) :
        waiting[o][i] \in Runs /\ status[waiting[o][i]] = "queue_waiting"
  BY <1>1, Types DEF LineInv, WaitingShown, ShownNext
<1>5. PICK k \in 1..Len(s) : s[k] = r
  BY <1>3
<1>6. \A i, j \in 1..Len(s) : s[i] = s[j] => i = j
  BY <1>2 DEF IInv, WaitingRuns, WaitingOf
<1>7. /\ \A i \in 1..Len(s) : s[i] # a /\ ProjectOf[s[i]] = p
      /\ a \in Runs /\ ProjectOf[a] = p /\ status[a] # "none"
  <2>1. s # <<>>
    BY <1>3
  <2>2. a # NoRun
    BY <1>2, <2>1 DEF IInv, NoStrandedWaiters
  <2> QED
    BY <1>2, <2>2, Types DEF IInv, WaitingRuns, WaitingOf, ActiveRuns
<1>8. /\ q \in Seq(Runs) /\ Len(q) = Len(s) - 1
      /\ \A i \in 1..Len(s) - 1 : q[i] = IF i < k THEN s[i] ELSE s[i + 1]
  <2>1. q = RemoveFirst(s, s[k])
    BY <1>5
  <2> HIDE DEF q, r, s
  <2>2. \A i \in 1..Len(s) : s[i] = s[k] => i = k
    BY <1>6
  <2> QED
    BY <1>3, <2>1, <2>2, RemoveFirstExact
<1> HIDE DEF r, p, a, s, q, l, last, u
<1>9. \A i \in 1..Len(q) : \E j \in 1..Len(s) :
        q[i] = s[j] /\ j # k /\ (j = i \/ j = i + 1)
  <2> TAKE i \in 1..Len(q)
  <2>1. CASE i < k
    <3>1. i \in 1..Len(s) /\ i # k /\ q[i] = s[i]
      BY <1>3, <1>8, <2>1
    <3> QED
      BY <3>1
  <2>2. CASE ~(i < k)
    <3>1. i + 1 \in 1..Len(s) /\ i + 1 # k /\ q[i] = s[i + 1]
      BY <1>3, <1>8, <2>2
    <3> QED
      BY <3>1
  <2> QED
    BY <2>1, <2>2
<1>10. /\ \A i \in 1..Len(q) : q[i] # a /\ q[i] # r /\ ProjectOf[q[i]] = p
       /\ \A i, j \in 1..Len(q) : q[i] = q[j] => i = j
  <2>1. \A i \in 1..Len(q) : q[i] # a /\ q[i] # r /\ ProjectOf[q[i]] = p
    BY <1>5, <1>6, <1>7, <1>9
  <2>2. ASSUME NEW i \in 1..Len(q), NEW j \in 1..Len(q), q[i] = q[j]
        PROVE  i = j
    <3>1. i \in 1..Len(s) - 1 /\ j \in 1..Len(s) - 1
      BY <1>3, <1>8
    <3>2. i + 1 \in 1..Len(s) /\ j + 1 \in 1..Len(s)
          /\ i \in 1..Len(s) /\ j \in 1..Len(s)
      BY <1>3, <3>1
    <3> QED
      BY <1>3, <1>6, <1>8, <2>2, <3>1, <3>2
  <2> QED
    BY <2>1, <2>2
<1>11. /\ \A i, j \in 1..Len(l) : l[i] = l[j] => i = j
       /\ \A i \in 1..Len(l) : l[i] \in Runs /\ ProjectOf[l[i]] = p
       /\ \A i \in 1..Len(l) : l[i] = a \/ \E j \in 1..Len(q) : l[i] = q[j]
  <2>1. p \in Projects
    BY <1>2
  <2>2. a \in Runs /\ ProjectOf[a] = p
    BY <1>7
  <2>3. q \in Seq(Runs)
    BY <1>8
  <2>4. \A i \in 1..Len(q) : q[i] # a /\ ProjectOf[q[i]] = p
    BY <1>10
  <2>5. \A i, j \in 1..Len(q) : q[i] = q[j] => i = j
    BY <1>10
  <2> QED
    BY <2>1, <2>2, <2>3, <2>4, <2>5, LineDistinct DEF l
<1>12. LineThenMark(u, l, last)
  <2>1. l = Line(a, q)
    BY DEF l
  <2>2. u = Append(Renumbered(a, q), last)
    BY DEF u
  <2>3. a \in Runs
    BY <1>7
  <2>4. q \in Seq(Runs)
    BY <1>8
  <2> QED
    BY <2>1, <2>2, <2>3, <2>4, RemoveUpdates
<1>13. \A i \in 1..Len(l) : l[i] # r
  <2>1. a # r
    BY <1>3, <1>7
  <2> QED
    BY <1>10, <1>11, <2>1
<1>14. last.run = r /\ last.status = "cancelled" /\ r \in Runs
  BY <1>2 DEF last
<1>15. \A j \in 1..Len(u) : j \in 1..Len(l) \/ u[j] = last
  BY <1>12 DEF LineThenMark
<1>16. /\ waiting'[p] = q
       /\ \A o \in Projects \ {p} : waiting'[o] = waiting[o]
       /\ pc'[Loop] = "updating"
       /\ \A t \in Threads : todo'[t] # <<>> => pc'[t] = "updating"
  BY <1>1, <1>2, SectionSteps DEF LineInv
<1>17. ASSUME NEW o \in Projects, NEW i \in 1..Len(waiting'[o])
       PROVE  /\ waiting'[o][i] # r
              /\ \E j \in 1..Len(waiting[o]) : waiting'[o][i] = waiting[o][j]
  <2>1. CASE o = p
    BY <1>9, <1>10, <1>16, <1>17, <2>1 DEF s
  <2>2. CASE o # p
    <3>1. waiting'[o] = waiting[o] /\ ProjectOf[waiting[o][i]] = o
      BY <1>16, <1>17, <2>2 DEF IInv, WaitingRuns, WaitingOf
    <3> QED
      BY <1>17, <2>2, <3>1 DEF p
  <2> QED
    BY <2>1, <2>2
<1>18. WaitingNotAsked'
  BY <1>1, <1>16, <1>17 DEF LineInv, WaitingNotAsked
<1>19. WaitingShown'
  <2>1. ASSUME NEW j \in 1..Len(u)
        PROVE  u[j].run \in Runs /\ status'[u[j].run] # "none"
    <3>1. CASE j \in 1..Len(l)
      <4>1. u[j].run = l[j] /\ l[j] \in Runs
        BY <1>11, <1>12, <3>1 DEF LineThenMark
      <4>2. l[j] = a \/ \E i \in 1..Len(s) : l[j] = s[i]
        BY <1>9, <1>11, <3>1
      <4> QED
        BY <1>1, <1>2, <1>4, <1>7, <4>1, <4>2 DEF s
    <3>2. CASE u[j] = last
      BY <1>1, <1>14, <3>2
    <3> QED
      BY <1>15, <3>1, <3>2
  <2>2. \A j \in 1..Len(u) : u[j].run # r => u[j].status = Keep
    BY <1>12, <1>14, <1>15 DEF LineThenMark
  <2>3. ASSUME NEW o \in Projects, NEW i \in 1..Len(waiting'[o])
        PROVE  \E x \in Runs :
             /\ x = waiting'[o][i]
             /\ \/ \E j \in 1..Len(waiting[o]) : waiting[o][j] = x
                \/ status[x] = "none"
             /\ \/ status'[x] = "queue_waiting"
                \/ /\ Loop = Loop /\ status'[x] = "queued" /\ u # <<>>
                   /\ u[1].run = x /\ u[1].status = "queue_waiting"
                \/ Loop # Loop /\ status'[x] = status[x] /\ status[x] # "none"
             /\ \A j \in 1..Len(u) :
                  u[j].run = x => u[j].status \in {Keep, "queue_waiting"}
    <3>1. PICK j \in 1..Len(waiting[o]) : waiting'[o][i] = waiting[o][j]
      BY <1>17, <2>3
    <3>2. waiting'[o][i] # r
      BY <1>17, <2>3
    <3> QED
      BY <1>1, <1>4, <2>2, <3>1, <3>2
  <2>4. \A x \in Runs : status'[x] = "none" => status[x] = "none"
    BY <1>1
  <2>5. /\ LeaveSection(Loop, p, a, q, u, NoRun)
        /\ Loop \in Threads /\ p \in Projects
    BY <1>1, <1>2
  <2> QED
    BY <2>1, <2>3, <2>4, <2>5, SectionShown
<1>20. NumbersComing'
  <2>1. ASSUME NEW j \in 1..Len(u)
        PROVE  ProjectOf[u[j].run] = p
    <3>1. CASE j \in 1..Len(l)
      <4>1. u[j].run = l[j]
        BY <1>12, <3>1 DEF LineThenMark
      <4> QED
        BY <1>11, <3>1, <4>1
    <3>2. CASE u[j] = last
      BY <1>14, <3>2 DEF p
    <3> QED
      BY <1>15, <3>1, <3>2
  <2>2. ASSUME NEW i \in 1..Len(l)
        PROVE  /\ ProjectOf[l[i]] = p
               /\ \A j \in 1..Len(u) :
                    u[j].run = l[i] => u[j].place = <<i, Len(l)>>
               /\ \E j \in 1..Len(u) : u[j].run = l[i]
    <3>1. i \in 1..Len(u) /\ u[i].run = l[i]
      BY <1>12 DEF LineThenMark
    <3>2. ASSUME NEW j \in 1..Len(u), u[j].run = l[i]
          PROVE  u[j].place = <<i, Len(l)>>
      <4>1. j \in 1..Len(l)
        BY <1>13, <1>14, <1>15, <3>2
      <4>2. l[j] = l[i]
        BY <1>12, <3>2, <4>1 DEF LineThenMark
      <4>3. j = i
        BY <1>11, <4>1, <4>2
      <4> QED
        BY <1>12, <4>1, <4>3 DEF LineThenMark
    <3> QED
      BY <1>11, <3>1, <3>2
  <2>3. pc[Loop] # "updating" /\ place' = place /\ a \in Runs \cup {NoRun}
    BY <1>1, <1>7
  <2> QED
    BY <1>1, <1>2, <1>8, <2>1, <2>2, <2>3, SectionNumbers DEF l
<1> QED
  BY <1>16, <1>18, <1>19, <1>20 DEF LineInv

\* on_task_finished keeps the invariant: the next run shows queued and is 1.
LEMMA FinishLine ==
  ASSUME IInv, LineInv, NEW w \in Workers, OnTaskFinished(w)
  PROVE  LineInv'
<1> DEFINE p == ProjectOf[job[w]]
           s == waiting[p]
           a == s[1]
           q == Tail(s)
           l == Line(a, q)
           u == Dequeued(a, q)
<1>1. /\ pc[w] = "finish" /\ p \in Projects /\ s \in Seq(Runs)
      /\ s = <<>> => LeaveSection(w, p, NoRun, <<>>, <<>>, NoRun)
      /\ s # <<>> => LeaveSection(w, p, a, q, u, a)
  BY FinishedExact
<1>2. UNCHANGED <<status, cancelReq, place, target>>
  BY DEF OnTaskFinished
<1>3. w \in Threads /\ w # Loop /\ Loop \in Threads /\ Len(s) \in Nat
  BY <1>1, Types
<1>4. /\ \A i \in 1..Len(s) : ProjectOf[s[i]] = p /\ status[s[i]] # "none"
      /\ \A i, j \in 1..Len(s) : s[i] = s[j] => i = j
  BY <1>1 DEF IInv, WaitingRuns, WaitingOf
<1>5. \A o \in Projects : \A i \in 1..Len(waiting[o]) :
        waiting[o][i] \in Runs /\ status[waiting[o][i]] # "none"
  BY Types DEF IInv, WaitingRuns, WaitingOf
\* What does not depend on there being a next run.
<1>6. ASSUME NEW b, NEW rest, NEW v, LeaveSection(w, p, b, rest, v, b)
      PROVE  /\ \A t \in Threads : todo'[t] # <<>> => pc'[t] = "updating"
             /\ pc'[Loop] = pc[Loop]
             /\ waiting'[p] = rest
             /\ \A o \in Projects \ {p} : waiting'[o] = waiting[o]
  BY <1>1, <1>3, <1>6, SectionSteps DEF LineInv
<1> HIDE DEF p, s, a, q, l, u
<1>7. ASSUME pc'[Loop] = pc[Loop],
             \A o \in Projects : \A i \in 1..Len(waiting'[o]) :
               \E j \in 1..Len(waiting[o]) : waiting'[o][i] = waiting[o][j]
      PROVE  WaitingNotAsked'
  BY <1>2, <1>7 DEF LineInv, WaitingNotAsked
<1>8. CASE s = <<>>
  <2>1. LeaveSection(w, p, NoRun, <<>>, <<>>, NoRun)
    BY <1>1, <1>8
  <2>2. Len(<<>>) = 0 /\ <<>> \in Seq(Runs) /\ Line(NoRun, <<>>) = <<>>
    <3>1. Len(<<>>) = 0 /\ <<>> \in Seq(Runs)
      OBVIOUS
    <3>2. Line(NoRun, <<>>) = <<>>
      BY <3>1, LineOfNone
    <3> QED
      BY <3>1, <3>2
  <2>3. \A o \in Projects : \A i \in 1..Len(waiting'[o]) :
          o # p /\ waiting'[o] = waiting[o] /\ i \in 1..Len(waiting[o])
    BY <1>6, <2>1, <2>2
  <2>4. WaitingNotAsked'
    BY <1>6, <1>7, <2>1, <2>3
  <2>5. WaitingShown'
    <3>1. \A k \in 1..Len(<<>>) : FALSE
      BY <2>2
    <3>2. \A o \in Projects : \A i \in 1..Len(waiting'[o]) :
            \E x \in Runs :
             /\ x = waiting'[o][i]
             /\ \/ \E j \in 1..Len(waiting[o]) : waiting[o][j] = x
                \/ status[x] = "none"
             /\ \/ status'[x] = "queue_waiting"
                \/ /\ w = Loop /\ status'[x] = "queued" /\ <<>> # <<>>
                   /\ <<>>[1].run = x /\ <<>>[1].status = "queue_waiting"
                \/ w # Loop /\ status'[x] = status[x] /\ status[x] # "none"
             /\ \A k \in 1..Len(<<>>) :
                  <<>>[k].run = x => <<>>[k].status \in {Keep, "queue_waiting"}
      BY <1>2, <1>3, <1>5, <2>3, <3>1
    <3>3. \A x \in Runs : status'[x] = "none" => status[x] = "none"
      BY <1>2
    <3> QED
      BY <1>1, <1>3, <2>1, <3>1, <3>2, <3>3, SectionShown
  <2>6. NumbersComing'
    <3>1. \A i \in 1..Len(Line(NoRun, <<>>)) : FALSE
      BY <2>2
    <3>2. \A k \in 1..Len(<<>>) : FALSE
      BY <2>2
    <3>3. pc[w] # "updating" /\ place' = place /\ NoRun \in Runs \cup {NoRun}
      BY <1>1, <1>2
    <3> QED
      BY <1>1, <1>3, <2>1, <2>2, <3>1, <3>2, <3>3, SectionNumbers
  <2> QED
    BY <1>6, <2>1, <2>4, <2>5, <2>6 DEF LineInv
<1>9. CASE s # <<>>
  <2>1. LeaveSection(w, p, a, q, u, a)
    BY <1>1, <1>9
  <2>2. /\ Len(s) >= 1 /\ a = s[1] /\ a \in Runs
        /\ q \in Seq(Runs) /\ Len(q) = Len(s) - 1
        /\ \A i \in 1..Len(q) : q[i] = s[i + 1]
    <3>1. Len(s) >= 1
      BY <1>3, <1>1, <1>9, EmptySeq
    <3>2. q \in Seq(Runs) /\ Len(q) = Len(s) - 1
          /\ \A i \in 1..Len(q) : q[i] = s[i + 1]
      BY <1>1, <1>9, HeadTailProperties DEF q
    <3> QED
      BY <1>1, <1>3, <3>1, <3>2, LenProperties DEF a
  <2>3. \A i \in 1..Len(q) : i + 1 \in 1..Len(s) /\ i + 1 # 1
    BY <1>3, <2>2
  <2>4. \A i \in 1..Len(q) : q[i] # a /\ ProjectOf[q[i]] = p
    <3> TAKE i \in 1..Len(q)
    <3>1. 1 \in 1..Len(s) /\ i + 1 \in 1..Len(s) /\ i + 1 # 1
      BY <1>3, <2>2, <2>3
    <3>2. s[i + 1] # s[1] /\ ProjectOf[s[i + 1]] = p
      BY <1>4, <3>1
    <3> QED
      BY <2>2, <3>2
  <2>5. \A i, j \in 1..Len(q) : q[i] = q[j] => i = j
    <3> TAKE i, j \in 1..Len(q)
    <3>1. i + 1 = j + 1 => i = j
      BY <1>3, <2>2
    <3>2. i + 1 \in 1..Len(s) /\ j + 1 \in 1..Len(s)
      BY <2>3
    <3>3. s[i + 1] = s[j + 1] => i + 1 = j + 1
      BY <1>4, <3>2
    <3> QED
      BY <2>2, <3>1, <3>3
  <2>6. ProjectOf[a] = p /\ status[a] # "none"
    BY <1>3, <1>4, <2>2
  <2>7. /\ \A i, j \in 1..Len(l) : l[i] = l[j] => i = j
        /\ \A i \in 1..Len(l) : l[i] \in Runs /\ ProjectOf[l[i]] = p
        /\ \A i \in 1..Len(l) : l[i] = a \/ \E j \in 1..Len(q) : l[i] = q[j]
    <3>1. p \in Projects /\ a \in Runs /\ q \in Seq(Runs) /\ ProjectOf[a] = p
      BY <1>1, <2>2, <2>6
    <3> QED
      BY <3>1, <2>4, <2>5, LineDistinct DEF l
  <2>8. Len(l) \in Nat /\ l[1] = a /\ 1 \in 1..Len(l)
    <3>1. Len(l) = Len(q) + 1 /\ l[1] = a
      BY <2>2, LineAt DEF l
    <3> QED
      BY <1>3, <2>2, <3>1
  <2>9. /\ Len(u) = Len(l)
        /\ \A i \in 1..Len(l) : /\ u[i].run = l[i]
                                /\ u[i].status \in {Keep, "queued"}
                                /\ i # 1 => u[i].status = Keep
                                /\ u[i].place = <<i, Len(l)>>
    BY <2>2, DequeuedAt DEF l, u
  <2>10. ASSUME NEW o \in Projects, NEW i \in 1..Len(waiting'[o])
         PROVE  /\ waiting'[o][i] # a
                /\ \E j \in 1..Len(waiting[o]) : waiting'[o][i] = waiting[o][j]
    <3>1. CASE o = p
      BY <1>6, <2>1, <2>2, <2>3, <2>4, <2>10, <3>1 DEF s
    <3>2. CASE o # p
      <4>1. waiting'[o] = waiting[o]
        BY <1>6, <2>1, <2>10, <3>2
      <4>2. ProjectOf[waiting[o][i]] = o
        BY <2>10, <4>1 DEF IInv, WaitingRuns, WaitingOf
      <4> QED
        BY <2>6, <2>10, <3>2, <4>1, <4>2
    <3> QED
      BY <3>1, <3>2
  <2>11. WaitingNotAsked'
    BY <1>6, <1>7, <2>1, <2>10
  <2>12. WaitingShown'
    <3>1. ASSUME NEW k \in 1..Len(u)
          PROVE  u[k].run \in Runs /\ status'[u[k].run] # "none"
      <4>1. u[k].run = l[k] /\ l[k] \in Runs
        BY <2>7, <2>9
      <4>2. l[k] = a \/ \E j \in 1..Len(s) : l[k] = s[j]
        BY <2>2, <2>3, <2>7, <2>9
      <4> QED
        BY <1>2, <1>4, <2>6, <4>1, <4>2
    <3>2. \A k \in 1..Len(u) : u[k].run # a => u[k].status = Keep
      BY <2>8, <2>9
    <3>3. ASSUME NEW o \in Projects, NEW i \in 1..Len(waiting'[o])
          PROVE  \E x \in Runs :
             /\ x = waiting'[o][i]
             /\ \/ \E j \in 1..Len(waiting[o]) : waiting[o][j] = x
                \/ status[x] = "none"
             /\ \/ status'[x] = "queue_waiting"
                \/ /\ w = Loop /\ status'[x] = "queued" /\ u # <<>>
                   /\ u[1].run = x /\ u[1].status = "queue_waiting"
                \/ w # Loop /\ status'[x] = status[x] /\ status[x] # "none"
             /\ \A k \in 1..Len(u) :
                  u[k].run = x => u[k].status \in {Keep, "queue_waiting"}
      <4>1. PICK j \in 1..Len(waiting[o]) : waiting'[o][i] = waiting[o][j]
        BY <2>10, <3>3
      <4>2. waiting'[o][i] # a
        BY <2>10, <3>3
      <4> QED
        BY <1>2, <1>3, <1>5, <3>2, <4>1, <4>2
    <3>4. \A x \in Runs : status'[x] = "none" => status[x] = "none"
      BY <1>2
    <3> QED
      BY <1>1, <1>3, <2>1, <3>1, <3>3, <3>4, SectionShown
  <2>13. NumbersComing'
    <3>1. \A k \in 1..Len(u) : ProjectOf[u[k].run] = p
      BY <2>7, <2>9
    <3>2. ASSUME NEW i \in 1..Len(l)
          PROVE  /\ ProjectOf[l[i]] = p
                 /\ \A k \in 1..Len(u) :
                      u[k].run = l[i] => u[k].place = <<i, Len(l)>>
                 /\ \E k \in 1..Len(u) : u[k].run = l[i]
      <4>1. i \in 1..Len(u) /\ u[i].run = l[i]
        BY <2>9
      <4>2. ASSUME NEW k \in 1..Len(u), u[k].run = l[i]
            PROVE  u[k].place = <<i, Len(l)>>
        <5>1. k \in 1..Len(l) /\ l[k] = l[i] /\ u[k].place = <<k, Len(l)>>
          BY <2>9, <4>2
        <5>2. k = i
          BY <2>7, <5>1
        <5> QED
          BY <5>1, <5>2
      <4> QED
        BY <2>7, <4>1, <4>2
    <3>3. pc[w] # "updating" /\ place' = place
      BY <1>1, <1>2
    <3>4. a \in Runs \cup {NoRun} /\ q \in Seq(Runs)
      BY <2>2
    <3> QED
      BY <1>1, <1>3, <2>1, <3>1, <3>2, <3>3, <3>4, SectionNumbers DEF l
  <2> QED
    BY <1>6, <2>1, <2>11, <2>12, <2>13 DEF LineInv
<1> QED
  BY <1>8, <1>9

-----------------------------------------------------------------------------
(* The invariant of the line: every step.                                  *)

\* Nothing waits at first.
LEMMA InitLine == Init => LineInv
<1> SUFFICES ASSUME Init
             PROVE  LineInv
  OBVIOUS
<1>1. Loop \in Threads
  BY DEF Threads
<1>2. /\ \A t \in Threads : todo[t] = <<>> /\ pc[t] = "idle"
      /\ \A r \in Runs : ~cancelReq[r]
      /\ \A p \in Projects : active[p] = NoRun /\ waiting[p] = <<>>
  BY DEF Init
<1>3. Len(<<>>) = 0 /\ <<>> \in Seq(Runs)
  OBVIOUS
<1>4. Line(NoRun, <<>>) = <<>>
  BY <1>3, LineOfNone
<1>5. WaitingNotAsked
  <2>1. pc[Loop] # "cancelMark"
    BY <1>1, <1>2
  <2> QED
    BY <1>2, <1>3, <2>1 DEF WaitingNotAsked
<1>6. WaitingShown
  BY <1>2, <1>3 DEF WaitingShown
<1>7. NumbersComing
  BY <1>2, <1>3, <1>4 DEF NumbersComing
<1> QED
  BY <1>2, <1>5, <1>6, <1>7 DEF LineInv

\* A step outside the queue's lock that shows the waiting runs nothing new.
LEMMA QuietLine ==
  ASSUME IInv, LineInv,
         UNCHANGED <<active, waiting, racy, todo, place, cancelReq>>,
         pc'[Loop] = "cancelMark" => pc[Loop] = "cancelMark" /\ target' = target,
         \A r \in Runs : status'[r] = "none" => status[r] = "none",
         \A p \in Projects : \A i \in 1..Len(waiting[p]) :
           status'[waiting[p][i]] = status[waiting[p][i]],
         \A t \in Threads : todo[t] # <<>> => pc'[t] = pc[t]
  PROVE  LineInv'
<1>1. WaitingNotAsked'
  BY AskedFrame
<1>2. /\ \A t \in Threads : todo'[t] # <<>> => pc'[t] = "updating"
      /\ WaitingShown' /\ NumbersComing'
  BY ShownFrame
<1> QED
  BY <1>1, <1>2 DEF LineInv

\* A step of a worker on its run, which does not wait.
LEMMA WorkerQuiet ==
  ASSUME IInv, LineInv, NEW w \in Workers,
         UNCHANGED <<active, waiting, racy, todo, place, cancelReq, target>>,
         todo[w] = <<>>,
         \A t \in Threads \ {w} : pc'[t] = pc[t],
         \A r \in Runs : r # job[w] => status'[r] = status[r],
         \A r \in Runs : status'[r] = "none" => status[r] = "none"
  PROVE  LineInv'
<1>1. ASSUME NEW p \in Projects, NEW i \in 1..Len(waiting[p])
      PROVE  status'[waiting[p][i]] = status[waiting[p][i]]
  <2>1. waiting[p][i] \in Runs /\ (job[w] = NoRun => waiting[p][i] # job[w])
    BY <1>1, Types
  <2>2. waiting[p][i] # job[w]
    BY <1>1, <2>1, JobNotWaiting
  <2> QED
    BY <2>1, <2>2
<1>2. pc'[Loop] = pc[Loop]
  BY Types
<1> QED
  BY <1>1, <1>2, QuietLine

\* A cancel of a run that does not wait.
LEMMA CancelLine ==
  ASSUME IInv, LineInv, NEW r \in Runs, CancelActive(r)
  PROVE  LineInv'
<1>1. /\ pc[Loop] = "idle" /\ status[r] \in Unfinished
      /\ UNCHANGED <<status, place, todo, active, waiting, racy>>
      /\ target' = r
      /\ cancelReq'[r] = TRUE
      /\ \A x \in Runs \ {r} : cancelReq'[x] = cancelReq[x]
      /\ \A t \in Threads \ {Loop} : pc'[t] = pc[t]
  BY Types DEF CancelActive, queueVars, IInv, TypeOK
<1>2. todo[Loop] = <<>>
  BY <1>1, Types DEF LineInv
<1>3. status[r] # "none" /\ status[r] # "queue_waiting"
  BY <1>1 DEF Unfinished
<1>4. \A p \in Projects : \A i \in 1..Len(waiting[p]) :
        /\ waiting[p][i] # r /\ waiting[p][i] \in Runs
  <2>1. \A p \in Projects : \A i \in 1..Len(waiting[p]) :
          status[waiting[p][i]] = "queue_waiting"
    BY <1>1 DEF LineInv, WaitingShown, ShownNext
  <2> QED
    BY <1>3, <2>1, Types
<1>5. WaitingNotAsked'
  <2>1. \A x \in Runs : status'[x] = "none" => ~cancelReq'[x]
    BY <1>1, <1>3 DEF LineInv, WaitingNotAsked
  <2> QED
    BY <1>1, <1>4, <2>1 DEF LineInv, WaitingNotAsked
<1>6. \A t \in Threads : todo[t] # <<>> => pc'[t] = pc[t]
  BY <1>1, <1>2
<1>7. /\ \A t \in Threads : todo'[t] # <<>> => pc'[t] = "updating"
      /\ WaitingShown' /\ NumbersComing'
  BY <1>1, <1>6, ShownFrame
<1> QED
  BY <1>5, <1>7 DEF LineInv

\* Every step of the event loop.
LEMMA LoopStepLine ==
  ASSUME IInv, LineInv, LoopStep
  PROVE  LineInv'
<1>1. Loop \in Threads /\ \A w \in Workers : w # Loop
  BY Types
<1>2. \A r \in Runs : Enqueue(r) => LineInv'
  BY EnqueueLine
<1>3. \A r \in Runs : CancelActive(r) => LineInv'
  BY CancelLine
<1>4. ASSUME NEW r \in Runs, CancelQueued(r)
      PROVE  LineInv'
  <2>1. /\ UNCHANGED <<status, active, waiting, racy, todo, place, cancelReq>>
        /\ pc[Loop] = "idle" /\ pc'[Loop] = "cancelWaiting"
        /\ \A t \in Threads \ {Loop} : pc'[t] = pc[t]
    BY <1>1, <1>4 DEF CancelQueued, queueVars, IInv, TypeOK
  <2>2. \A t \in Threads : todo[t] # <<>> => pc'[t] = pc[t]
    BY <1>1, <2>1 DEF LineInv
  <2> QED
    BY <2>1, <2>2, QuietLine
<1>5. ASSUME RefuseCancel
      PROVE  LineInv'
  <2>1. /\ UNCHANGED <<status, active, waiting, racy, todo, place, cancelReq>>
        /\ pc[Loop] = "cancelWaiting" /\ pc'[Loop] = "idle"
        /\ \A t \in Threads \ {Loop} : pc'[t] = pc[t]
    BY <1>1, <1>5 DEF RefuseCancel, queueVars, IInv, TypeOK
  <2>2. \A t \in Threads : todo[t] # <<>> => pc'[t] = pc[t]
    BY <1>1, <2>1 DEF LineInv
  <2> QED
    BY <2>1, <2>2, QuietLine
<1>6. ASSUME MarkCancelled
      PROVE  LineInv'
  <2>1. /\ UNCHANGED <<active, waiting, racy, todo, place, cancelReq>>
        /\ pc[Loop] = "cancelMark" /\ pc'[Loop] = "idle"
        /\ \A t \in Threads \ {Loop} : pc'[t] = pc[t]
        /\ target \in Runs \cup {NoRun}
        /\ \A r \in Runs : status'[r] = IF r = target THEN "cancelled" ELSE status[r]
    BY <1>1, <1>6 DEF MarkCancelled, queueVars, IInv, TypeOK
  <2>2. \A t \in Threads : todo[t] # <<>> => pc'[t] = pc[t]
    BY <1>1, <2>1 DEF LineInv
  <2>3. \A p \in Projects : \A i \in 1..Len(waiting[p]) :
          status'[waiting[p][i]] = status[waiting[p][i]]
    BY <2>1, Types DEF LineInv, WaitingNotAsked
  <2> QED
    BY <2>1, <2>2, <2>3, QuietLine
<1>7. ASSUME Submit(Loop)
      PROVE  LineInv'
  BY <1>7, QuietLine DEF Submit, queueVars
<1>8. ASSUME Return(Loop)
      PROVE  LineInv'
  <2>1. /\ UNCHANGED <<status, active, waiting, racy, todo, place, cancelReq>>
        /\ todo[Loop] = <<>> /\ pc'[Loop] = "idle"
        /\ \A t \in Threads \ {Loop} : pc'[t] = pc[t]
    BY <1>1, <1>8 DEF Return, queueVars, IInv, TypeOK
  <2> QED
    BY <2>1, QuietLine
<1> QED
  BY <1>1, <1>2, <1>3, <1>4, <1>5, <1>6, <1>7, <1>8, ApplyLine, RemoveLine
     DEF LoopStep

\* Every step of a worker.
LEMMA WorkerStepLine ==
  ASSUME IInv, LineInv, NEW w \in Workers, WorkerStep(w)
  PROVE  LineInv'
<1>1. w \in Threads
  BY Types
<1>2. pc[w] # "updating" => todo[w] = <<>>
  BY <1>1 DEF LineInv
<1>3. ASSUME pc[w] # "updating" \/ todo[w] = <<>>,
             UNCHANGED <<active, waiting, racy, todo, place, cancelReq, target>>,
             \E v \in WorkerPC : pc' = [pc EXCEPT ![w] = v],
             \E v \in TaskStatus \cup {status[job[w]]} :
               status' = status \/ status' = [status EXCEPT ![job[w]] = v]
      PROVE  LineInv'
  <2>1. \A t \in Threads \ {w} : pc'[t] = pc[t]
    BY <1>3 DEF IInv, TypeOK
  <2>2. /\ \A r \in Runs : r # job[w] => status'[r] = status[r]
        /\ \A r \in Runs : status'[r] = "none" => status[r] = "none"
    BY <1>3 DEF IInv, TypeOK, TaskStatus
  <2> QED
    BY <1>2, <1>3, <2>1, <2>2, WorkerQuiet
<1>4. TakeJob(w) => LineInv'
  BY <1>3 DEF TakeJob, Goto, queueVars, WorkerPC
<1>5. AcquireLock(w) => LineInv'
  BY <1>3 DEF AcquireLock, Goto, queueVars, WorkerPC, Holding
<1>6. StopCancelled(w) => LineInv'
  BY <1>3 DEF StopCancelled, Goto, queueVars, WorkerPC, Holding, TaskStatus
<1>7. StartAttempt(w) => LineInv'
  BY <1>3 DEF StartAttempt, Goto, queueVars, WorkerPC, Holding
<1>8. MarkRunning(w) => LineInv'
  BY <1>3 DEF MarkRunning, Goto, queueVars, WorkerPC, Holding, TaskStatus
<1>9. \A ok \in BOOLEAN : AgentExits(w, ok) => LineInv'
  BY <1>3 DEF AgentExits, Goto, queueVars, WorkerPC, Holding
<1>10. \A ok \in BOOLEAN : FinishAttempt(w, ok) => LineInv'
  BY <1>3 DEF FinishAttempt, Goto, queueVars, WorkerPC, Holding, TaskStatus
<1>11. RetryAttempt(w) => LineInv'
  BY <1>3 DEF RetryAttempt, Goto, queueVars, WorkerPC, Holding, TaskStatus
<1>12. RunReturns(w) => LineInv'
  BY <1>3 DEF RunReturns, Goto, queueVars, WorkerPC, Holding
<1>13. RunRaises(w) => LineInv'
  BY <1>3 DEF RunRaises, Goto, queueVars, WorkerPC, Holding, TaskStatus
<1>14. ReleaseLock(w) => LineInv'
  BY <1>3 DEF ReleaseLock, Goto, queueVars, WorkerPC, Holding
<1>15. EnsureNotStuck(w) => LineInv'
  BY <1>3 DEF EnsureNotStuck, Goto, queueVars, WorkerPC, TaskStatus
<1>16. ExecuteOnce(w) => LineInv'
  BY <1>3 DEF ExecuteOnce, Goto, queueVars, WorkerPC, Holding, TaskStatus
<1>17. JobAborts(w) => LineInv'
  BY <1>3 DEF JobAborts, Goto, queueVars, WorkerPC, TaskStatus
<1>18. Submit(w) => LineInv'
  BY <1>1, QuietLine DEF Submit, queueVars
<1>19. Return(w) => LineInv'
  BY <1>3 DEF Return, queueVars, WorkerPC
<1> QED
  BY <1>1, <1>4, <1>5, <1>6, <1>7, <1>8, <1>9, <1>10, <1>11, <1>12, <1>13,
     <1>14, <1>15, <1>16, <1>17, <1>18, <1>19,
     ApplyLine, FinishLine DEF WorkerStep

LEMMA NextLine ==
  ASSUME IInv, LineInv, [Next]_vars
  PROVE  LineInv'
<1>1. CASE LoopStep
  BY <1>1, LoopStepLine
<1>2. ASSUME NEW w \in Workers, WorkerStep(w)
      PROVE  LineInv'
  BY <1>2, WorkerStepLine
<1>3. CASE UNCHANGED vars
  BY <1>3, QuietLine DEF vars, queueVars
<1> QED
  BY <1>1, <1>2, <1>3 DEF Next

\* Both invariants hold in every reachable state: the one of the line rests on
\* who holds which run.
THEOREM LineInductive == Spec => []QueueInv
<1>1. Init => QueueInv
  BY InitIInv, InitLine DEF QueueInv
<1>2. QueueInv /\ [Next]_vars => QueueInv'
  BY NextIInv, NextLine DEF QueueInv
<1> QED
  BY <1>1, <1>2, PTL DEF Spec

-----------------------------------------------------------------------------
(* What clients see.                                                       *)

\* Between two handlers of the event loop every run that waits shows
\* queue_waiting and was not asked to stop: cancel, which goes by what a run
\* shows, takes it out of the queue.
THEOREM WaitingLooksWaiting == Spec => []WaitingShowsWaiting
<1>1. ASSUME IInv, LineInv
      PROVE  WaitingShowsWaiting
  <2> SUFFICES ASSUME pc[Loop] = "idle", NEW p \in Projects,
                      NEW r \in ToSet(waiting[p])
               PROVE  status[r] = "queue_waiting" /\ ~cancelReq[r]
    BY DEF WaitingShowsWaiting
  <2>1. DOMAIN waiting[p] = 1..Len(waiting[p])
    BY <1>1, LenProperties DEF IInv, TypeOK
  <2>2. PICK i \in 1..Len(waiting[p]) : r = waiting[p][i]
    BY <2>1 DEF ToSet
  <2> QED
    BY <1>1, <2>2 DEF LineInv, WaitingNotAsked, WaitingShown, ShownNext
<1>2. QueueInv => WaitingShowsWaiting
  BY <1>1 DEF QueueInv
<1> QED
  BY <1>2, LineInductive, PTL

\* When all updates of a project are applied and none overlapped, its line
\* shows positions 1..n of n, in order.
THEOREM PlacesRight == Spec => []NumbersRight
<1>1. ASSUME IInv, LineInv
      PROVE  NumbersRight
  <2> SUFFICES ASSUME NEW p \in Projects, ~racy[p],
                      \A t \in Threads : ~\E k \in DOMAIN todo[t] :
                        ProjectOf[todo[t][k].run] = p,
                      NEW i \in DOMAIN Line(active[p], waiting[p])
               PROVE  place[Line(active[p], waiting[p])[i]]
                        = <<i, Len(Line(active[p], waiting[p]))>>
    BY DEF NumbersRight
  <2> DEFINE l == Line(active[p], waiting[p])
  <2>1. /\ l \in Seq(Runs) /\ Len(l) \in Nat
        /\ \A j \in 1..Len(l) : l[j] \in Runs /\ ProjectOf[l[j]] = p
    BY <1>1, LineRuns
  <2>2. i \in 1..Len(l)
    BY <2>1, LenProperties
  <2>3. PlaceComing(l[i], <<i, Len(l)>>)
    BY <1>1, <2>2 DEF LineInv, NumbersComing
  <2>4. \A t \in Threads : DOMAIN todo[t] = 1..Len(todo[t])
    BY <1>1, LenProperties DEF IInv, TypeOK
  <2>5. \A t \in Threads : \A k \in 1..Len(todo[t]) : todo[t][k].run # l[i]
    BY <2>1, <2>2, <2>4
  <2> QED
    BY <2>3, <2>5 DEF PlaceComing
<1>2. QueueInv => NumbersRight
  BY <1>1 DEF QueueInv
<1> QED
  BY <1>2, LineInductive, PTL
=============================================================================
