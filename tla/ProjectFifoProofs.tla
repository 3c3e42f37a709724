-------------------------- MODULE ProjectFifoProofs --------------------------
(***************************************************************************)
(* TLAPS proof that ProjectQueue implements ProjectFifo, for any runs,     *)
(* projects, workers and attempts: each step of the threads is a step of   *)
(* the lines, or none.                                                     *)
(***************************************************************************)
EXTENDS ProjectLineProofs

-----------------------------------------------------------------------------
(* Lines as sequences.                                                     *)

\* A run that joins the queue joins the line.
LEMMA LineAppend ==
  ASSUME NEW h \in Runs \cup {NoRun}, NEW s \in Seq(Runs), NEW r \in Runs
  PROVE  Line(h, Append(s, r)) = Append(Line(h, s), r)
<1>1. Append(s, r) \in Seq(Runs) /\ Append(s, r) = s \o <<r>>
  BY AppendProperties, AppendIsConcat
<1>2. CASE h = NoRun
  BY <1>1, <1>2, LineOfNone
<1>3. CASE h \in Runs
  <2>1. Line(h, s) = <<h>> \o s /\ Line(h, s) \in Seq(Runs)
    BY <1>3, LineAt
  <2>2. Line(h, Append(s, r)) = <<h>> \o (s \o <<r>>)
    BY <1>1, <1>3, LineAt
  <2>3. <<h>> \in Seq(Runs) /\ <<r>> \in Seq(Runs)
    BY <1>3
  <2>4. (<<h>> \o s) \o <<r>> = <<h>> \o (s \o <<r>>)
    BY <2>3, ConcatAssociative
  <2>5. Append(Line(h, s), r) = Line(h, s) \o <<r>>
    BY <2>1, AppendIsConcat
  <2> QED
    BY <2>1, <2>2, <2>4, <2>5
<1> QED
  BY <1>2, <1>3

\* The head of a line with an active run is that run, and the tail the queue.
LEMMA LineHeadTail ==
  ASSUME NEW h \in Runs, NEW s \in Seq(Runs)
  PROVE  /\ Line(h, s) # <<>> /\ Head(Line(h, s)) = h /\ Tail(Line(h, s)) = s
<1> DEFINE l == Line(h, s)
<1>1. /\ l \in Seq(Runs) /\ Len(l) = Len(s) + 1 /\ l[1] = h
      /\ \A i \in 1..Len(s) : l[i + 1] = s[i]
  BY LineAt
<1> HIDE DEF l
<1>2. Len(s) \in Nat
  BY LenProperties
<1>3. l # <<>>
  BY <1>1, <1>2, EmptySeq
<1>4. /\ Head(l) = l[1] /\ Tail(l) \in Seq(Runs) /\ Len(Tail(l)) = Len(l) - 1
      /\ \A i \in 1..Len(Tail(l)) : Tail(l)[i] = l[i + 1]
  BY <1>1, <1>3, HeadTailProperties
<1>5. Len(Tail(l)) = Len(s)
  BY <1>1, <1>2, <1>4
<1>6. Tail(l) = s
  BY <1>1, <1>4, <1>5, SeqEqual
<1> QED
  BY <1>1, <1>3, <1>4, <1>6 DEF l

\* A queue is the line of its first run and the others.
LEMMA LineOfHead ==
  ASSUME NEW s \in Seq(Runs), s # <<>>
  PROVE  s[1] \in Runs /\ Tail(s) \in Seq(Runs) /\ Line(s[1], Tail(s)) = s
<1> DEFINE t == Tail(s)
           l == Line(s[1], t)
<1>1. Len(s) \in Nat /\ Len(s) >= 1 /\ \A i \in 1..Len(s) : s[i] \in Runs
  BY LenProperties, EmptySeq
<1>2. s[1] \in Runs
  BY <1>1
<1>3. /\ t \in Seq(Runs) /\ Len(t) = Len(s) - 1
      /\ \A i \in 1..Len(t) : t[i] = s[i + 1]
  BY HeadTailProperties
<1> HIDE DEF t
<1>4. /\ l \in Seq(Runs) /\ Len(l) = Len(t) + 1 /\ l[1] = s[1]
      /\ \A i \in 1..Len(t) : l[i + 1] = t[i]
  BY <1>2, <1>3, LineAt
<1> HIDE DEF l
<1>5. ASSUME NEW i \in 1..Len(l)
      PROVE  l[i] = s[i]
  <2>1. CASE i = 1
    BY <1>4, <2>1
  <2>2. CASE i # 1
    <3>1. i - 1 \in 1..Len(t) /\ i - 1 + 1 = i
      BY <1>1, <1>3, <1>4, <2>2
    <3> QED
      BY <1>3, <1>4, <3>1
  <2> QED
    BY <2>1, <2>2
<1>6. Len(l) = Len(s)
  BY <1>1, <1>3, <1>4
<1>7. l = s
  BY <1>4, <1>5, <1>6, SeqEqual
<1> QED
  BY <1>2, <1>3, <1>7 DEF l, t

\* A run that leaves the queue leaves the line.
LEMMA LineRemove ==
  ASSUME NEW h \in Runs \cup {NoRun}, NEW s \in Seq(Runs), NEW k \in 1..Len(s),
         s[k] # h, \A i \in 1..Len(s) : s[i] = s[k] => i = k
  PROVE  Line(h, RemoveFirst(s, s[k])) = RemoveFirst(Line(h, s), s[k])
<1> DEFINE r == s[k]
           q == RemoveFirst(s, r)
           l == Line(h, s)
           m == Line(h, q)
<1>1. /\ q \in Seq(Runs) /\ Len(q) = Len(s) - 1
      /\ \A i \in 1..Len(s) - 1 : q[i] = IF i < k THEN s[i] ELSE s[i + 1]
  BY RemoveFirstExact
<1>2. Len(s) \in Nat
  BY LenProperties
<1>3. CASE h = NoRun
  BY <1>1, <1>3, LineOfNone
<1>4. CASE h \in Runs
  <2>1. /\ l \in Seq(Runs) /\ Len(l) = Len(s) + 1 /\ l[1] = h
        /\ \A i \in 1..Len(s) : l[i + 1] = s[i]
    BY <1>4, LineAt
  <2> HIDE DEF q
  <2>2. /\ m \in Seq(Runs) /\ Len(m) = Len(q) + 1 /\ m[1] = h
        /\ \A i \in 1..Len(q) : m[i + 1] = q[i]
    BY <1>1, <1>4, LineAt
  <2> HIDE DEF l, m
  <2>3. k + 1 \in 1..Len(l) /\ l[k + 1] = r
    BY <1>2, <2>1
  <2>4. ASSUME NEW i \in 1..Len(l), l[i] = l[k + 1]
        PROVE  i = k + 1
    <3>1. i # 1
      BY <2>1, <2>3, <2>4
    <3>2. i - 1 \in 1..Len(s) /\ i - 1 + 1 = i
      BY <1>2, <2>1, <3>1
    <3>3. s[i - 1] = s[k]
      BY <2>1, <2>3, <2>4, <3>2
    <3>4. i - 1 = k
      BY <3>2, <3>3
    <3> QED
      BY <3>2, <3>4
  <2> DEFINE f == RemoveFirst(l, l[k + 1])
  <2>5. /\ f \in Seq(Runs) /\ Len(f) = Len(l) - 1
        /\ \A i \in 1..Len(l) - 1 : f[i] = IF i < k + 1 THEN l[i] ELSE l[i + 1]
    BY <2>1, <2>3, <2>4, RemoveFirstExact
  <2>6. f = RemoveFirst(l, r)
    BY <2>3
  <2> HIDE DEF f
  <2>7. ASSUME NEW i \in 1..Len(f)
        PROVE  f[i] = m[i]
    <3>1. i \in 1..Len(s)
      BY <1>2, <2>1, <2>5
    <3>2. CASE i = 1
      <4>1. f[i] = l[1]
        BY <1>2, <2>1, <2>5, <3>2
      <4> QED
        BY <2>1, <2>2, <3>2, <4>1
    <3>3. CASE i # 1
      <4>1. PICK j \in 1..Len(q) : i = j + 1
        <5>1. i - 1 \in 1..Len(q) /\ i = i - 1 + 1
          BY <1>1, <1>2, <3>1, <3>3
        <5> QED
          BY <5>1
      <4>2. m[i] = q[j] /\ j \in 1..Len(s) - 1 /\ j \in 1..Len(s)
        BY <1>1, <1>2, <2>2, <4>1
      <4>3. i \in 1..Len(l) - 1
        BY <1>2, <2>1, <3>1
      <4>4. CASE j < k
        <5>1. f[i] = l[i]
          BY <2>5, <4>1, <4>3, <4>4
        <5>2. l[i] = s[j]
          BY <2>1, <4>1, <4>2
        <5> QED
          BY <1>1, <4>2, <4>4, <5>1, <5>2
      <4>5. CASE ~(j < k)
        <5>1. f[i] = l[i + 1]
          BY <2>5, <4>1, <4>3, <4>5
        <5>2. l[i + 1] = s[i] /\ s[i] = s[j + 1]
          BY <2>1, <3>1, <4>1
        <5> QED
          BY <1>1, <4>2, <4>5, <5>1, <5>2
      <4> QED
        BY <4>4, <4>5
    <3> QED
      BY <3>2, <3>3
  <2>8. Len(f) = Len(m)
    BY <1>1, <1>2, <2>1, <2>2, <2>5
  <2>9. f = m
    BY <2>2, <2>5, <2>7, <2>8, SeqEqual
  <2> QED
    BY <2>6, <2>9 DEF m, l, q
<1> QED
  BY <1>3, <1>4

-----------------------------------------------------------------------------
(* The refinement mapping, in the terms of the queue.                      *)

\* p's active run has taken the workspace, or found it taken.
Begun(p) == \E w \in Workers : job[w] = active[p] /\ pc[w] # "acquire"

\* The run at the head of p's line, not waiting any more.
Heading(p) ==
  IF active[p] # NoRun /\ ~Begun(p) /\ ~Stalled(p) THEN active[p] ELSE NoRun

\* The line is the heading run and the queue; the run that works is the active
\* one while the workspace is locked.
MappedRight ==
  /\ FifoLine = [p \in Projects |-> Line(Heading(p), waiting[p])]
  /\ FifoWorking = [p \in Projects |-> IF locked[p] THEN active[p] ELSE NoRun]

LEMMA Mapped == IInv => MappedRight
<1> SUFFICES ASSUME IInv
             PROVE  MappedRight
  OBVIOUS
<1>1. ASSUME NEW p \in Projects, active[p] # NoRun
      PROVE  NotBegun(p) <=> ~Begun(p) /\ ~Stalled(p)
  <2>1. DOMAIN pool = 1..Len(pool)
    BY Types
  <2>2. ASSUME NotBegun(p)
        PROVE  ~Begun(p)
    <3>1. CASE \E t \in Threads : sched[t] = active[p]
      BY <1>1, <3>1 DEF IInv, HeldOnce, Begun
    <3>2. CASE \E i \in 1..Len(pool) : pool[i] = active[p]
      BY <3>2 DEF IInv, HeldOnce, Begun
    <3>3. CASE \E w \in Workers : job[w] = active[p] /\ pc[w] = "acquire"
      BY <1>1, <3>3 DEF IInv, HeldOnce, Begun
    <3> QED
      BY <2>1, <2>2, <3>1, <3>2, <3>3 DEF NotBegun
  <2>3. NotBegun(p) => ~Stalled(p)
    BY DEF NotBegun, Stalled, InFlight
  <2>4. ~Begun(p) /\ ~Stalled(p) => NotBegun(p)
    BY <1>1 DEF Stalled, InFlight, Begun, NotBegun
  <2> QED
    BY <2>2, <2>3, <2>4
<1>2. FifoLine = [p \in Projects |-> Line(Heading(p), waiting[p])]
  <2>1. \A p \in Projects :
          (IF active[p] # NoRun /\ NotBegun(p) THEN active[p] ELSE NoRun)
            = Heading(p)
    BY <1>1 DEF Heading
  <2> QED
    BY <2>1 DEF FifoLine
<1>3. ASSUME NEW p \in Projects
      PROVE  WorkingOn(p) = IF locked[p] THEN active[p] ELSE NoRun
  <2> DEFINE ws == {w \in Workers : pc[w] \in Holding /\ ProjectOf[job[w]] = p}
  <2>1. locked[p] <=> ws # {}
    BY DEF IInv, LocksHeld
  <2>2. ASSUME NEW w \in ws
        PROVE  job[w] = active[p]
    <3>1. job[w] # NoRun
      BY <2>2 DEF IInv, LocalsSet, Holding
    <3> QED
      BY <2>2, <3>1 DEF IInv, HoldersActive
  <2>3. WorkingOn(p) = IF ws = {} THEN NoRun ELSE job[CHOOSE w \in ws : TRUE]
    BY DEF WorkingOn
  <2> HIDE DEF ws
  <2>4. ws # {} => (CHOOSE w \in ws : TRUE) \in ws
    OBVIOUS
  <2> QED
    BY <2>1, <2>2, <2>3, <2>4
<1>4. FifoWorking = [p \in Projects |-> IF locked[p] THEN active[p] ELSE NoRun]
  BY <1>3 DEF FifoWorking
<1> QED
  BY <1>2, <1>4 DEF MappedRight

\* ... also after a step.
LEMMA MappedNext == IInv' => MappedRight'
BY Mapped, PTL

\* The parts of a line are of their types.
LEMMA HeadingType ==
  ASSUME IInv, NEW p \in Projects
  PROVE  /\ Heading(p) \in Runs \cup {NoRun}
         /\ waiting[p] \in Seq(Runs)
         /\ FifoLine[p] = Line(Heading(p), waiting[p])
         /\ FifoWorking[p] = IF locked[p] THEN active[p] ELSE NoRun
BY Mapped, Types DEF Heading, MappedRight

\* A step that leaves all lines alone.
LEMMA LinesKept ==
  ASSUME IInv, IInv',
         \A p \in Projects :
           Line(Heading(p)', waiting'[p]) = Line(Heading(p), waiting[p])
  PROVE  FifoLine' = FifoLine
BY Mapped, MappedNext DEF MappedRight

\* A step that changes the line of one project.
LEMMA LineChanged ==
  ASSUME IInv, IInv', NEW p \in Projects, NEW l,
         Line(Heading(p)', waiting'[p]) = l,
         \A o \in Projects \ {p} :
           Heading(o)' = Heading(o) /\ waiting'[o] = waiting[o]
  PROVE  FifoLine' = [FifoLine EXCEPT ![p] = l]
BY Mapped, MappedNext DEF MappedRight

\* A step that takes nothing into a workspace or out of one.
LEMMA WorkKept ==
  ASSUME IInv, IInv',
         \A p \in Projects : locked'[p] = locked[p]
                             /\ (locked[p] => active'[p] = active[p])
  PROVE  FifoWorking' = FifoWorking
BY Mapped, MappedNext DEF MappedRight

\* Runs are seen as soon as they have a record.
LEMMA SeenKept ==
  ASSUME \A r \in Runs : status'[r] = "none" <=> status[r] = "none"
  PROVE  FifoSeen' = FifoSeen
BY DEF FifoSeen

\* Nothing is asked by a step that is not of a cancel of a waiting run.
LEMMA AskedKept ==
  ASSUME \/ pc[Loop] # "cancelWaiting" /\ pc'[Loop] # "cancelWaiting"
         \/ pc'[Loop] = pc[Loop] /\ target' = target
  PROVE  FifoAsked' = FifoAsked
BY DEF FifoAsked

\* Runs are asked to stop by their flag.
LEMMA StoppedKept ==
  ASSUME cancelReq' = cancelReq
  PROVE  FifoStopped' = FifoStopped
BY DEF FifoStopped

\* A project whose active run stays in flight, or out of it.
LEMMA FlightKept ==
  ASSUME NEW p \in Projects, active'[p] = active[p],
         active[p] # NoRun => (InFlight(active[p])' <=> InFlight(active[p]))
  PROVE  Stalled(p)' <=> Stalled(p)
BY DEF Stalled

\* A step that moves no run.
LEMMA SameFlight ==
  ASSUME UNCHANGED <<active, sched, pool, job>>
  PROVE  \A p \in Projects : Stalled(p)' <=> Stalled(p)
BY DEF Stalled, InFlight

\* A step that stalls no project and rescues none.
LEMMA StalledKept ==
  ASSUME \A p \in Projects : Stalled(p)' <=> Stalled(p)
  PROVE  FifoStalled' = FifoStalled
BY DEF FifoStalled

\* A heading depends on the active run and the workers that have it.
LEMMA HeadingKept ==
  ASSUME NEW p \in Projects, active'[p] = active[p],
         Stalled(p)' <=> Stalled(p),
         \A w \in Workers : active[p] # NoRun =>
           (job'[w] = active[p] /\ pc'[w] # "acquire"
              <=> job[w] = active[p] /\ pc[w] # "acquire")
  PROVE  Heading(p)' = Heading(p)
BY DEF Heading, Begun

-----------------------------------------------------------------------------
(* Steps of the event loop.                                                *)

\* The run in a locked workspace is the active one.
LEMMA LockedActive ==
  ASSUME IInv, NEW p \in Projects, locked[p]
  PROVE  /\ active[p] # NoRun
         /\ \E w \in Workers : pc[w] \in Holding /\ job[w] = active[p]
<1>1. PICK w \in Workers : pc[w] \in Holding /\ ProjectOf[job[w]] = p
  BY DEF IInv, LocksHeld
<1>2. job[w] # NoRun
  BY <1>1 DEF IInv, LocalsSet, Holding
<1>3. job[w] = active[p]
  BY <1>1, <1>2 DEF IInv, HoldersActive
<1> QED
  BY <1>1, <1>2, <1>3

\* enqueue: the run joins the tail of its project's line.
LEMMA EnqueueFifo ==
  ASSUME IInv, IInv', NEW r \in Runs, Enqueue(r)
  PROVE  Fifo!Accept(r)
<1> DEFINE p == ProjectOf[r]
<1>1. /\ p \in Projects /\ r # NoRun /\ Loop \in Threads
      /\ \A w \in Workers : w \in Threads \ {Loop}
  BY Types
<1>2. /\ pc[Loop] = "idle" /\ status[r] = "none"
      /\ \A x \in Runs : status'[x] = IF x = r THEN "queued" ELSE status[x]
      /\ UNCHANGED <<cancelReq, locked, pool, job, target>>
      /\ sched[Loop] = NoRun /\ \A o \in Projects : active[o] # r
  BY <1>1, NewRunNowhere DEF Enqueue, IInv, TypeOK, LocalsSet
<1>3. r \notin FifoSeen /\ FifoSeen' = FifoSeen \cup {r}
  BY <1>2 DEF FifoSeen
<1>4. ASSUME NEW b, NEW q, NEW v, NEW m, m \in {r, NoRun},
             LeaveSection(Loop, p, b, q, v, m)
      PROVE  /\ active'[p] = b /\ waiting'[p] = q /\ sched'[Loop] = m
             /\ active[p] = b => (Stalled(p)' <=> Stalled(p))
             /\ \A o \in Projects \ {p} :
                  /\ active'[o] = active[o] /\ waiting'[o] = waiting[o]
                  /\ Stalled(o)' <=> Stalled(o)
                  /\ Heading(o)' = Heading(o)
             /\ \A w \in Workers : pc'[w] = pc[w]
             /\ pc'[Loop] = "updating"
  <2>1. /\ active'[p] = b /\ waiting'[p] = q
        /\ \A o \in Projects \ {p} :
             active'[o] = active[o] /\ waiting'[o] = waiting[o]
        /\ \A w \in Workers : pc'[w] = pc[w]
        /\ pc'[Loop] = "updating"
    BY <1>1, <1>4, SectionSteps
  <2>2. sched'[Loop] = m /\ \A t \in Threads \ {Loop} : sched'[t] = sched[t]
    BY <1>1, <1>4 DEF LeaveSection, IInv, TypeOK
  <2>3. ASSUME NEW o \in Projects, active[o] # NoRun, active'[o] = active[o]
        PROVE  InFlight(active[o])' <=> InFlight(active[o])
    BY <1>1, <1>2, <1>4, <2>2, <2>3 DEF InFlight
  <2>4. \A o \in Projects \ {p} : Stalled(o)' <=> Stalled(o)
    BY <2>1, <2>3, FlightKept
  <2>5. active[p] = b => (Stalled(p)' <=> Stalled(p))
    BY <1>1, <2>1, <2>3, FlightKept
  <2>6. \A o \in Projects \ {p} : Heading(o)' = Heading(o)
    BY <1>2, <2>1, <2>4, HeadingKept
  <2> QED
    BY <2>1, <2>2, <2>4, <2>5, <2>6
<1>5. /\ Heading(p) \in Runs \cup {NoRun} /\ waiting[p] \in Seq(Runs)
      /\ FifoLine[p] = Line(Heading(p), waiting[p])
  BY <1>1, HeadingType
<1> HIDE DEF p
<1>6. CASE StartsAtOnce(p)
  <2>1. LeaveSection(Loop, p, r, <<>>,
          <<[run |-> r, status |-> "queued", place |-> <<1, 1>>]>>, r)
    BY <1>6 DEF Enqueue, p
  <2>2. active[p] = NoRun /\ waiting[p] = <<>> /\ ~locked[p]
    BY <1>1, <1>6, LockedActive DEF StartsAtOnce
  <2>3. Heading(p)' = r
    <3>1. \A w \in Workers : job'[w] # r
      BY <1>2, NewRunNowhere
    <3>2. active'[p] = r
      BY <1>4, <2>1
    <3>3. ~Stalled(p)'
      BY <1>1, <1>4, <2>1, <3>2 DEF Stalled, InFlight
    <3> QED
      BY <1>1, <3>1, <3>2, <3>3 DEF Heading, Begun
  <2>4. Line(r, <<>>) = Append(FifoLine[p], r)
    <3>1. <<>> \in Seq(Runs)
      OBVIOUS
    <3>2. Line(r, <<>>) = <<r>> \o <<>> /\ Line(NoRun, <<>>) = <<>>
      BY <3>1, LineAt, LineOfNone
    <3>3. FifoLine[p] = <<>>
      BY <1>5, <2>2, <3>2 DEF Heading
    <3>4. <<r>> \o <<>> = Append(<<>>, r)
      OBVIOUS
    <3> QED
      BY <3>2, <3>3, <3>4
  <2>5. FifoLine' = [FifoLine EXCEPT ![p] = Append(FifoLine[p], r)]
    <3>1. Line(Heading(p)', waiting'[p]) = Append(FifoLine[p], r)
      BY <1>4, <2>1, <2>3, <2>4
    <3> QED
      BY <1>1, <1>4, <2>1, <3>1, LineChanged
  <2>6. FifoWorking' = FifoWorking
    <3>1. \A o \in Projects : locked[o] => active'[o] = active[o]
      BY <1>4, <2>1, <2>2
    <3> QED
      BY <1>2, <3>1, WorkKept
  <2>7. FifoAsked' = FifoAsked
    BY <1>2, <1>4, <2>1, AskedKept
  <2>8. FifoStopped' = FifoStopped /\ FifoStalled' = FifoStalled
    <3>1. ~Stalled(p) /\ ~Stalled(p)'
      BY <1>1, <1>4, <2>1, <2>2 DEF Stalled, InFlight
    <3>2. \A o \in Projects : Stalled(o)' <=> Stalled(o)
      BY <1>4, <2>1, <3>1
    <3> QED
      BY <1>2, <3>2, StoppedKept, StalledKept
  <2> QED
    BY <1>3, <2>5, <2>6, <2>7, <2>8 DEF Fifo!Accept, p
<1>7. CASE ~StartsAtOnce(p)
  <2> DEFINE n == Len(Line(active[p], Append(waiting[p], r)))
             u == <<[run |-> r, status |-> "queue_waiting", place |-> <<n, n>>]>>
                    \o Renumbered(active[p], Append(waiting[p], r))
  <2>1. LeaveSection(Loop, p, active[p], Append(waiting[p], r), u, NoRun)
    BY <1>7 DEF Enqueue, p
  <2> HIDE DEF n, u
  <2>2. \A o \in Projects :
          active'[o] = active[o] /\ (Stalled(o)' <=> Stalled(o))
    BY <1>4, <2>1
  <2>3. Heading(p)' = Heading(p)
    BY <1>1, <1>2, <1>4, <2>1, <2>2, HeadingKept
  <2>4. Line(Heading(p), Append(waiting[p], r)) = Append(FifoLine[p], r)
    BY <1>5, LineAppend
  <2>5. FifoLine' = [FifoLine EXCEPT ![p] = Append(FifoLine[p], r)]
    <3>1. Line(Heading(p)', waiting'[p]) = Append(FifoLine[p], r)
      BY <1>4, <2>1, <2>3, <2>4
    <3> QED
      BY <1>1, <1>4, <2>1, <3>1, LineChanged
  <2>6. FifoWorking' = FifoWorking
    BY <1>2, <2>2, WorkKept
  <2>7. FifoAsked' = FifoAsked
    BY <1>2, <1>4, <2>1, AskedKept
  <2>8. FifoStopped' = FifoStopped /\ FifoStalled' = FifoStalled
    BY <1>2, <2>2, StoppedKept, StalledKept
  <2> QED
    BY <1>3, <2>5, <2>6, <2>7, <2>8 DEF Fifo!Accept, p
<1> QED
  BY <1>6, <1>7

\* ProjectFifo and ProjectQueue use the same operators on sequences.
LEMMA FifoSequences ==
  ASSUME NEW s, NEW e
  PROVE  /\ Fifo!Contains(s, e) <=> Contains(s, e)
         /\ Fifo!RemoveFirst(s, e) = RemoveFirst(s, e)
<1>1. Fifo!Contains(s, e) <=> Contains(s, e)
  BY DEF Fifo!Contains, Contains
<1>2. Fifo!RemoveFirst(s, e) = RemoveFirst(s, e)
  BY DEF Fifo!RemoveFirst, Fifo!RemoveAt, Fifo!SelectInSeq, Fifo!Min,
         RemoveFirst, RemoveAt, SelectInSeq, Min
<1> QED
  BY <1>1, <1>2

\* cancel_waiting: the run leaves the line it waits in.
LEMMA RemoveFifo ==
  ASSUME IInv, IInv', RemoveWaiting
  PROVE  Fifo!Withdraw
<1>1. PICK r \in Runs : r = target
  BY Types DEF RemoveWaiting, IInv, TypeOK, LocalsSet
<1> DEFINE p == ProjectOf[r]
           s == waiting[p]
           q == RemoveFirst(s, r)
           u == Append(Renumbered(active[p], q),
                  [run |-> r, status |-> "cancelled", place |-> NoPlace])
<1>2. /\ p \in Projects /\ r # NoRun /\ Loop \in Threads
      /\ \A w \in Workers : w \in Threads \ {Loop}
      /\ s \in Seq(Runs) /\ Len(s) \in Nat
  BY Types
<1>3. /\ pc[Loop] = "cancelWaiting" /\ Contains(s, r)
      /\ LeaveSection(Loop, p, active[p], q, u, NoRun)
      /\ UNCHANGED <<status, cancelReq, locked, pool, job>>
  BY <1>1 DEF RemoveWaiting
<1> HIDE DEF u
<1>4. /\ \A o \in Projects : active'[o] = active[o]
      /\ waiting'[p] = q
      /\ \A o \in Projects \ {p} : waiting'[o] = waiting[o]
      /\ \A w \in Workers : pc'[w] = pc[w]
      /\ pc'[Loop] = "updating"
  BY <1>2, <1>3, SectionSteps
<1>5. \A o \in Projects : Stalled(o)' <=> Stalled(o)
  <2>1. sched[Loop] = NoRun
    BY <1>2, <1>3 DEF IInv, LocalsSet
  <2>2. sched' = sched
    BY <1>2, <1>3, <2>1 DEF LeaveSection, IInv, TypeOK
  <2>3. active' = active
    BY <1>2, <1>3 DEF LeaveSection, IInv, TypeOK
  <2> QED
    BY <1>3, <2>2, <2>3, SameFlight
<1>6. \A o \in Projects : Heading(o)' = Heading(o)
  BY <1>3, <1>4, <1>5, HeadingKept
<1>7. /\ Heading(p) \in Runs \cup {NoRun}
      /\ FifoLine[p] = Line(Heading(p), s)
  BY <1>2, HeadingType
<1>8. PICK k \in 1..Len(s) : s[k] = r
  BY <1>3 DEF Contains
<1>9. /\ \A i \in 1..Len(s) : s[i] = s[k] => i = k
      /\ s[k] # Heading(p)
  <2>1. \A i, j \in 1..Len(s) : s[i] = s[j] => i = j
    BY <1>2 DEF IInv, WaitingRuns, WaitingOf
  <2>2. s[k] # active[p]
    BY <1>2 DEF IInv, WaitingRuns, WaitingOf
  <2> QED
    BY <1>2, <1>8, <2>1, <2>2 DEF Heading
<1> HIDE DEF s, q, p
<1>10. Line(Heading(p), q) = RemoveFirst(FifoLine[p], r)
  <2>1. Line(Heading(p), RemoveFirst(s, s[k]))
          = RemoveFirst(Line(Heading(p), s), s[k])
    BY <1>2, <1>7, <1>9, LineRemove
  <2> QED
    BY <1>7, <1>8, <2>1 DEF q
<1>11. Contains(FifoLine[p], r)
  <2>1. CASE Heading(p) = NoRun
    <3>1. FifoLine[p] = s
      BY <1>2, <1>7, <2>1, LineOfNone
    <3> QED
      BY <1>8, <3>1 DEF Contains
  <2>2. CASE Heading(p) \in Runs
    <3>1. /\ Len(FifoLine[p]) = Len(s) + 1 /\ FifoLine[p][k + 1] = s[k]
      <4>1. ASSUME NEW h \in Runs
            PROVE  Len(Line(h, s)) = Len(s) + 1 /\ Line(h, s)[k + 1] = s[k]
        <5>1. s \in Seq(Runs)
          BY <1>2
        <5>2. /\ Len(Line(h, s)) = Len(s) + 1
              /\ \A i \in 1..Len(s) : Line(h, s)[i + 1] = s[i]
          BY <5>1, LineAt
        <5> QED
          BY <5>2
      <4> QED
        BY <1>7, <2>2, <4>1
    <3>2. k + 1 \in 1..Len(FifoLine[p])
      BY <1>2, <3>1
    <3> QED
      BY <1>8, <3>1, <3>2 DEF Contains
  <2> QED
    BY <1>7, <2>1, <2>2
<1>12. FifoLine' = [FifoLine EXCEPT ![p] = RemoveFirst(FifoLine[p], r)]
  <2>1. Line(Heading(p)', waiting'[p]) = RemoveFirst(FifoLine[p], r)
    BY <1>2, <1>4, <1>6, <1>10
  <2> QED
    BY <1>2, <1>4, <1>6, <2>1, LineChanged
<1>13. FifoWorking' = FifoWorking
  BY <1>3, <1>4, WorkKept
<1>14. FifoSeen' = FifoSeen
  BY <1>3, SeenKept
<1>15. FifoAsked = r /\ FifoAsked' = NoRun
  BY <1>1, <1>3, <1>4 DEF FifoAsked
<1>16. FifoLine' = [FifoLine EXCEPT ![ProjectOf[FifoAsked]]
                                    = RemoveFirst(@, FifoAsked)]
  BY <1>12, <1>15 DEF p
<1>17. FifoAsked # NoRun /\ Contains(FifoLine[ProjectOf[FifoAsked]], FifoAsked)
  BY <1>2, <1>11, <1>15 DEF p
<1>18. FifoStopped' = FifoStopped /\ FifoStalled' = FifoStalled
  BY <1>3, <1>5, StoppedKept, StalledKept
<1> QED
  BY <1>13, <1>14, <1>15, <1>16, <1>17, <1>18, FifoSequences DEF Fifo!Withdraw

\* A step that changes neither the queue nor what the workers hold.
LEMMA StillFifo ==
  ASSUME IInv, IInv', UNCHANGED <<active, waiting, locked>>,
         \A p \in Projects : Stalled(p)' <=> Stalled(p),
         \A w \in Workers : job'[w] # NoRun /\ pc'[w] # "acquire"
                              <=> job[w] # NoRun /\ pc[w] # "acquire",
         \A w \in Workers : job'[w] # NoRun /\ pc'[w] # "acquire"
                              => job'[w] = job[w],
         \A r \in Runs : status'[r] = "none" <=> status[r] = "none"
  PROVE  UNCHANGED <<FifoLine, FifoWorking, FifoSeen, FifoStalled>>
<1>1. \A p \in Projects : Heading(p)' = Heading(p)
  BY HeadingKept
<1>2. FifoLine' = FifoLine
  BY <1>1, LinesKept
<1>3. FifoWorking' = FifoWorking
  BY WorkKept
<1>4. FifoSeen' = FifoSeen
  BY SeenKept
<1>5. FifoStalled' = FifoStalled
  BY StalledKept
<1> QED
  BY <1>2, <1>3, <1>4, <1>5

\* A run goes from the thread that schedules it to the executor ...
LEMMA SubmitFlight ==
  ASSUME IInv, NEW t \in Threads, Submit(t), NEW r \in Runs
  PROVE  InFlight(r)' <=> InFlight(r)
<1>1. /\ sched[t] \in Runs /\ pool \in Seq(Runs)
      /\ pool' = Append(pool, sched[t]) /\ job' = job /\ sched'[t] = NoRun
      /\ \A u \in Threads \ {t} : sched'[u] = sched[u]
  BY Types DEF Submit, IInv, TypeOK
<1>2. /\ pool' \in Seq(Runs) /\ Len(pool') = Len(pool) + 1
      /\ Len(pool) \in Nat /\ pool'[Len(pool) + 1] = sched[t]
      /\ \A i \in 1..Len(pool) : pool'[i] = pool[i]
  BY <1>1, AppendProperties, LenProperties
<1>3. DOMAIN pool = 1..Len(pool) /\ DOMAIN pool' = 1..Len(pool) + 1
  BY <1>1, <1>2, LenProperties
<1>4. (\E i \in DOMAIN pool' : pool'[i] = r)
        <=> (\E i \in DOMAIN pool : pool[i] = r) \/ sched[t] = r
  <2>1. ASSUME NEW i \in 1..Len(pool) + 1, pool'[i] = r
        PROVE  (\E j \in 1..Len(pool) : pool[j] = r) \/ sched[t] = r
    <3>1. i \in 1..Len(pool) \/ i = Len(pool) + 1
      BY <1>2
    <3> QED
      BY <1>2, <2>1, <3>1
  <2>2. 1..Len(pool) \subseteq 1..Len(pool) + 1 /\ Len(pool) + 1 \in 1..Len(pool) + 1
    BY <1>2
  <2> QED
    BY <1>2, <1>3, <2>1, <2>2
<1> QED
  BY <1>1, <1>4, NoRunIsNoRun DEF InFlight

\* ... and from there to the worker that takes it.
LEMMA TakeFlight ==
  ASSUME IInv, NEW w \in Workers, TakeJob(w), NEW r \in Runs
  PROVE  InFlight(r)' <=> InFlight(r)
<1>1. /\ pool \in Seq(Runs) /\ pool # <<>> /\ pool' = Tail(pool) /\ sched' = sched
      /\ job[w] = NoRun /\ job'[w] = Head(pool)
      /\ \A v \in Workers \ {w} : job'[v] = job[v]
  BY DEF TakeJob, IInv, TypeOK, LocalsSet
<1>2. /\ Len(pool) \in Nat /\ DOMAIN pool = 1..Len(pool) /\ 1 \in 1..Len(pool)
      /\ Head(pool) = pool[1] /\ pool' \in Seq(Runs)
      /\ Len(pool') = Len(pool) - 1 /\ DOMAIN pool' = 1..Len(pool')
      /\ \A i \in 1..Len(pool') : pool'[i] = pool[i + 1]
  <2>1. /\ Len(pool) \in Nat /\ DOMAIN pool = 1..Len(pool) /\ 1 \in 1..Len(pool)
    BY <1>1, EmptySeq, LenProperties
  <2>2. /\ Head(pool) = pool[1] /\ pool' \in Seq(Runs)
        /\ Len(pool') = Len(pool) - 1
        /\ \A i \in 1..Len(pool') : pool'[i] = pool[i + 1]
    BY <1>1, HeadTailProperties
  <2> QED
    BY <2>1, <2>2, LenProperties
<1>3. (\E i \in DOMAIN pool : pool[i] = r)
        <=> (\E i \in DOMAIN pool' : pool'[i] = r) \/ job'[w] = r
  <2>1. ASSUME NEW i \in 1..Len(pool), pool[i] = r
        PROVE  (\E j \in 1..Len(pool') : pool'[j] = r) \/ job'[w] = r
    <3>1. CASE i = 1
      BY <1>1, <1>2, <2>1, <3>1
    <3>2. CASE i # 1
      <4>1. i - 1 \in 1..Len(pool') /\ i - 1 + 1 = i
        BY <1>2, <3>2
      <4> QED
        BY <1>2, <2>1, <4>1
    <3> QED
      BY <3>1, <3>2
  <2>2. ASSUME NEW j \in 1..Len(pool'), pool'[j] = r
        PROVE  \E i \in 1..Len(pool) : pool[i] = r
    <3>1. j + 1 \in 1..Len(pool)
      BY <1>2
    <3> QED
      BY <1>2, <2>2, <3>1
  <2> QED
    BY <1>1, <1>2, <2>1, <2>2
<1> QED
  BY <1>1, <1>3, NoRunIsNoRun DEF InFlight

\* What follows a section of the queue's lock changes no line.
LEMMA ThreadFifo ==
  ASSUME IInv, IInv', LineInv, NEW t \in Threads,
         ApplyUpdate(t) \/ Submit(t) \/ Return(t)
  PROVE  UNCHANGED Fifo!vars
<1>1. CASE ApplyUpdate(t)
  <2> DEFINE u == todo[t][1]
  <2>1. 1 \in 1..Len(todo[t]) /\ u = Head(todo[t])
    <3>1. todo[t] \in Seq(Update) /\ todo[t] # <<>>
      BY <1>1 DEF ApplyUpdate, IInv, TypeOK
    <3> QED
      BY <3>1, EmptySeq, LenProperties
  <2>2. u \in Update /\ status[u.run] # "none"
    BY <2>1, UpdateAt DEF LineInv, WaitingShown
  <2> HIDE DEF u
  <2>3. /\ UNCHANGED <<active, waiting, locked, sched, pool, job, pc, target,
                        cancelReq>>
        /\ status' = [status EXCEPT
                        ![u.run] = IF u.status = Keep THEN @ ELSE u.status]
    BY <1>1, <2>1 DEF ApplyUpdate, queueVars
  <2>4. \A r \in Runs : status'[r] = "none" <=> status[r] = "none"
    BY <2>2, <2>3 DEF Update, TaskStatus, IInv, TypeOK
  <2>5. UNCHANGED <<FifoLine, FifoWorking, FifoSeen, FifoStalled>>
    BY <2>3, <2>4, SameFlight, StillFifo
  <2>6. FifoAsked' = FifoAsked /\ FifoStopped' = FifoStopped
    BY <2>3, AskedKept, StoppedKept
  <2> QED
    BY <2>5, <2>6 DEF Fifo!vars
<1>2. CASE Submit(t)
  <2>1. UNCHANGED <<active, waiting, locked, job, pc, target, status, cancelReq>>
    BY <1>2 DEF Submit, queueVars
  <2>2. \A p \in Projects : Stalled(p)' <=> Stalled(p)
    BY <1>2, <2>1, SubmitFlight, FlightKept, Types
  <2>3. UNCHANGED <<FifoLine, FifoWorking, FifoSeen, FifoStalled>>
    BY <2>1, <2>2, StillFifo
  <2>4. FifoAsked' = FifoAsked /\ FifoStopped' = FifoStopped
    BY <2>1, AskedKept, StoppedKept
  <2> QED
    BY <2>3, <2>4 DEF Fifo!vars
<1>3. CASE Return(t)
  <2>1. /\ UNCHANGED <<active, waiting, locked, sched, pool, job, target, status,
                        cancelReq>>
        /\ pc[t] = "updating" /\ pc'[t] = "idle"
        /\ \A t2 \in Threads \ {t} : pc'[t2] = pc[t2]
    BY <1>3 DEF Return, queueVars, IInv, TypeOK
  <2>2. \A w \in Workers : pc'[w] # "acquire" <=> pc[w] # "acquire"
    BY <2>1, Types
  <2>3. UNCHANGED <<FifoLine, FifoWorking, FifoSeen, FifoStalled>>
    BY <2>1, <2>2, SameFlight, StillFifo
  <2>4. FifoAsked' = FifoAsked
    <3>1. CASE t = Loop
      BY <2>1, <3>1, AskedKept
    <3>2. CASE t # Loop
      BY <2>1, <3>2, Types, AskedKept
    <3> QED
      BY <3>1, <3>2
  <2>5. FifoStopped' = FifoStopped
    BY <2>1, StoppedKept
  <2> QED
    BY <2>3, <2>4, <2>5 DEF Fifo!vars
<1> QED
  BY <1>1, <1>2, <1>3

\* Every step of the event loop is one of the lines, or none.
LEMMA LoopStepFifo ==
  ASSUME IInv, IInv', LineInv, LoopStep
  PROVE  [Fifo!Next]_(Fifo!vars)
<1>1. Loop \in Threads /\ \A w \in Workers : w \in Threads \ {Loop}
  BY Types
<1>2. ASSUME NEW r \in Runs, Enqueue(r)
      PROVE  Fifo!Next
  BY <1>2, EnqueueFifo DEF Fifo!Next
<1>3. ASSUME RemoveWaiting
      PROVE  Fifo!Next
  BY <1>3, RemoveFifo DEF Fifo!Next
<1>4. ASSUME UNCHANGED <<active, waiting, locked, sched, pool, job>>,
             \A w \in Workers : pc'[w] = pc[w],
             \A r \in Runs : status'[r] = "none" <=> status[r] = "none"
      PROVE  UNCHANGED <<FifoLine, FifoWorking, FifoSeen, FifoStalled>>
  BY <1>4, SameFlight, StillFifo
<1>5. ASSUME NEW r \in Runs, CancelQueued(r)
      PROVE  Fifo!Next
  <2>1. /\ UNCHANGED <<active, waiting, locked, sched, pool, job, status, cancelReq>>
        /\ pc[Loop] = "idle" /\ pc'[Loop] = "cancelWaiting" /\ target' = r
        /\ status[r] = "queue_waiting"
        /\ \A w \in Workers : pc'[w] = pc[w]
    BY <1>1, <1>5 DEF CancelQueued, queueVars, IInv, TypeOK
  <2>2. UNCHANGED <<FifoLine, FifoWorking, FifoSeen, FifoStalled>>
    BY <1>4, <2>1
  <2>3. FifoAsked = NoRun /\ FifoAsked' = r /\ r \in FifoSeen
    BY <2>1 DEF FifoAsked, FifoSeen
  <2>4. FifoStopped' = FifoStopped
    BY <2>1, StoppedKept
  <2> QED
    BY <2>2, <2>3, <2>4 DEF Fifo!Next, Fifo!Ask
<1>6. ASSUME RefuseCancel
      PROVE  Fifo!Next
  <2>1. /\ UNCHANGED <<active, waiting, locked, sched, pool, job, status, cancelReq>>
        /\ pc[Loop] = "cancelWaiting" /\ pc'[Loop] = "idle" /\ target # NoRun
        /\ \A w \in Workers : pc'[w] = pc[w]
    BY <1>1, <1>6 DEF RefuseCancel, queueVars, IInv, TypeOK, LocalsSet
  <2>2. UNCHANGED <<FifoLine, FifoWorking, FifoSeen, FifoStalled>>
    BY <1>4, <2>1
  <2>3. FifoAsked # NoRun /\ FifoAsked' = NoRun
    BY <2>1 DEF FifoAsked
  <2>4. FifoStopped' = FifoStopped
    BY <2>1, StoppedKept
  <2> QED
    BY <2>2, <2>3, <2>4 DEF Fifo!Next, Fifo!Refuse
<1>7. ASSUME NEW r \in Runs, CancelActive(r)
      PROVE  Fifo!Next
  <2>1. /\ UNCHANGED <<active, waiting, locked, sched, pool, job, status>>
        /\ cancelReq' = [cancelReq EXCEPT ![r] = TRUE] /\ status[r] # "none"
        /\ pc[Loop] = "idle" /\ pc'[Loop] = "cancelMark"
        /\ \A w \in Workers : pc'[w] = pc[w]
    BY <1>1, <1>7 DEF CancelActive, queueVars, Unfinished, IInv, TypeOK
  <2>2. FifoAsked' = FifoAsked
    BY <2>1, AskedKept
  <2>3. r \in FifoSeen /\ FifoStopped' = FifoStopped \cup {r}
    BY <2>1 DEF FifoSeen, FifoStopped, IInv, TypeOK
  <2> QED
    BY <1>4, <2>1, <2>2, <2>3 DEF Fifo!Next, Fifo!Stop
<1>8. ASSUME MarkCancelled
      PROVE  UNCHANGED Fifo!vars
  <2>1. /\ UNCHANGED <<active, waiting, locked, sched, pool, job, cancelReq>>
        /\ pc[Loop] = "cancelMark" /\ pc'[Loop] = "idle"
        /\ \A w \in Workers : pc'[w] = pc[w]
        /\ \A r \in Runs : status'[r] = IF r = target THEN "cancelled" ELSE status[r]
    BY <1>1, <1>8 DEF MarkCancelled, queueVars, IInv, TypeOK
  <2>2. FifoAsked' = FifoAsked /\ FifoStopped' = FifoStopped
    BY <2>1, AskedKept, StoppedKept
  <2>3. \A r \in Runs : status'[r] = "none" <=> status[r] = "none"
    BY <2>1 DEF LineInv, WaitingNotAsked
  <2> QED
    BY <1>4, <2>1, <2>2, <2>3 DEF Fifo!vars
<1> QED
  BY <1>2, <1>3, <1>5, <1>6, <1>7, <1>8, <1>1, ThreadFifo DEF LoopStep

-----------------------------------------------------------------------------
(* Steps of a worker.                                                      *)

\* A worker's run is the active run of its project.
LEMMA JobActive ==
  ASSUME IInv, NEW w \in Workers, job[w] # NoRun
  PROVE  /\ job[w] \in Runs /\ ProjectOf[job[w]] \in Projects
         /\ active[ProjectOf[job[w]]] = job[w]
         /\ status[job[w]] # "none"
         /\ \A o \in Projects : active[o] = job[w] => o = ProjectOf[job[w]]
<1>1. job[w] \in Runs /\ ProjectOf[job[w]] \in Projects
  BY Types
<1>2. active[ProjectOf[job[w]]] = job[w]
  BY DEF IInv, HoldersActive
<1>3. /\ status[job[w]] # "none"
      /\ \A o \in Projects : active[o] = job[w] => ProjectOf[job[w]] = o
  BY <1>1, <1>2 DEF IInv, ActiveRuns
<1> QED
  BY <1>1, <1>2, <1>3

\* try_acquire_project: the head of the line begins.
LEMMA AcquireFifo ==
  ASSUME IInv, IInv', NEW w \in Workers, AcquireLock(w)
  PROVE  Fifo!Next
<1>1. /\ pc[w] = "acquire" /\ job[w] # NoRun /\ w \in Threads /\ w # Loop
  BY Types DEF AcquireLock, IInv, LocalsSet
<1>2. PICK r \in Runs, p \in Projects :
        /\ r = job[w] /\ p = ProjectOf[r] /\ active[p] = r /\ status[r] # "none"
        /\ \A o \in Projects : active[o] = r => o = p
  BY <1>1, JobActive
<1>3. ~locked[p] /\ r # NoRun
  BY <1>1, <1>2, LockIsFreeNow DEF LockNeverBusy
<1>4. /\ UNCHANGED <<active, waiting, sched, pool, job, status, target, cancelReq>>
      /\ pc'[w] = "attempt"
      /\ \A t \in Threads \ {w} : pc'[t] = pc[t]
      /\ locked'[p]
      /\ \A o \in Projects \ {p} : locked'[o] = locked[o]
  BY <1>1, <1>2, <1>3 DEF AcquireLock, Goto, queueVars, IInv, TypeOK
<1>5. \A v \in Workers : job[v] = r => v = w
  BY <1>2, <1>3 DEF IInv, HeldOnce
<1>6. /\ \A o \in Projects : Stalled(o)' <=> Stalled(o)
      /\ ~Stalled(p)
  BY <1>2, <1>4, SameFlight DEF Stalled, InFlight
<1>7. Heading(p) = r /\ Heading(p)' = NoRun
  BY <1>1, <1>2, <1>3, <1>4, <1>5, <1>6 DEF Heading, Begun
<1>8. \A o \in Projects \ {p} : Heading(o)' = Heading(o)
  <2> TAKE o \in Projects \ {p}
  <2>1. \A v \in Workers :
          job'[v] = active[o] /\ pc'[v] # "acquire"
            <=> job[v] = active[o] /\ pc[v] # "acquire"
    BY <1>2, <1>4, Types
  <2> QED
    BY <1>4, <1>6, <2>1, HeadingKept
<1>9. /\ waiting[p] \in Seq(Runs)
      /\ FifoLine[p] = Line(r, waiting[p])
      /\ FifoWorking[p] = NoRun
  BY <1>3, <1>7, HeadingType
<1>10. /\ FifoLine[p] # <<>> /\ Head(FifoLine[p]) = r
       /\ Tail(FifoLine[p]) = waiting[p]
  BY <1>9, LineHeadTail
<1>11. FifoLine' = [FifoLine EXCEPT ![p] = Tail(FifoLine[p])]
  <2>1. Line(Heading(p)', waiting'[p]) = Tail(FifoLine[p])
    BY <1>4, <1>7, <1>9, <1>10, LineOfNone
  <2> QED
    BY <1>4, <1>8, <2>1, LineChanged
<1>12. FifoWorking' = [FifoWorking EXCEPT ![p] = Head(FifoLine[p])]
  BY <1>2, <1>4, <1>10, Mapped, MappedNext DEF MappedRight
<1>13. FifoSeen' = FifoSeen /\ FifoAsked' = FifoAsked
  BY <1>1, <1>4, Types, SeenKept, AskedKept
<1>14. /\ FifoStopped' = FifoStopped /\ FifoStalled' = FifoStalled
       /\ p \notin FifoStalled
  BY <1>4, <1>6, StoppedKept, StalledKept DEF FifoStalled
<1> QED
  BY <1>9, <1>10, <1>11, <1>12, <1>13, <1>14 DEF Fifo!Next, Fifo!Begin

\* release_project: the run that works ends.
LEMMA ReleaseFifo ==
  ASSUME IInv, IInv', NEW w \in Workers, ReleaseLock(w)
  PROVE  Fifo!Next
<1>1. /\ pc[w] = "release" /\ job[w] # NoRun /\ w \in Threads /\ w # Loop
  BY Types DEF ReleaseLock, IInv, LocalsSet
<1>2. PICK r \in Runs, p \in Projects :
        r = job[w] /\ p = ProjectOf[r] /\ active[p] = r
  BY <1>1, JobActive
<1>3. locked[p]
  BY <1>1, <1>2 DEF IInv, LocksHeld, Holding
<1>4. /\ UNCHANGED <<active, waiting, sched, pool, job, status, target, cancelReq>>
      /\ pc'[w] = "released"
      /\ \A t \in Threads \ {w} : pc'[t] = pc[t]
      /\ ~locked'[p]
      /\ \A o \in Projects \ {p} : locked'[o] = locked[o]
  BY <1>1, <1>2 DEF ReleaseLock, Goto, queueVars, IInv, TypeOK
<1>5. \A o \in Projects : Heading(o)' = Heading(o)
  <2> TAKE o \in Projects
  <2>1. \A v \in Workers : pc'[v] # "acquire" <=> pc[v] # "acquire"
    BY <1>1, <1>4, Types
  <2> QED
    BY <1>4, <2>1, SameFlight, HeadingKept
<1>6. FifoLine' = FifoLine
  BY <1>4, <1>5, LinesKept
<1>7. FifoWorking[p] # NoRun /\ FifoWorking' = [FifoWorking EXCEPT ![p] = NoRun]
  <2>1. r # NoRun
    BY <1>1, <1>2
  <2> QED
    BY <1>2, <1>3, <1>4, <2>1, Mapped, MappedNext DEF MappedRight
<1>8. FifoSeen' = FifoSeen /\ FifoAsked' = FifoAsked
  BY <1>1, <1>4, Types, SeenKept, AskedKept
<1>9. FifoStopped' = FifoStopped /\ FifoStalled' = FifoStalled
  BY <1>4, SameFlight, StoppedKept, StalledKept
<1> QED
  BY <1>6, <1>7, <1>8, <1>9 DEF Fifo!Next, Fifo!End

\* The workspace of a run that has released it is free.
LEMMA ReleasedFree ==
  ASSUME IInv, NEW w \in Workers, job[w] # NoRun, pc[w] \notin Holding
  PROVE  ~locked[ProjectOf[job[w]]]
<1> DEFINE p == ProjectOf[job[w]]
<1> SUFFICES ASSUME locked[p]
             PROVE  FALSE
  OBVIOUS
<1>1. p \in Projects /\ active[p] = job[w]
  BY JobActive
<1>2. PICK v \in Workers : pc[v] \in Holding /\ job[v] = active[p]
  BY <1>1, LockedActive
<1>3. v = w
  BY <1>1, <1>2 DEF IInv, HeldOnce
<1> QED
  BY <1>2, <1>3

\* The callback raises: the run, which was asked to stop, stalls its project.
LEMMA AbortFifo ==
  ASSUME IInv, IInv', NEW w \in Workers, JobAborts(w)
  PROVE  Fifo!Next
<1>1. /\ pc[w] = "released" /\ job[w] # NoRun /\ w \in Threads /\ w # Loop
      /\ status[job[w]] \in Unfinished
  BY Types DEF JobAborts, IInv, LocalsSet
<1>2. PICK r \in Runs, p \in Projects :
        /\ r = job[w] /\ p = ProjectOf[r] /\ active[p] = r /\ status[r] # "none"
        /\ \A o \in Projects : active[o] = r => o = p
  BY <1>1, JobActive
<1>3. /\ UNCHANGED <<active, waiting, locked, sched, pool, target, cancelReq>>
      /\ pc'[w] = "idle" /\ \A t \in Threads \ {w} : pc'[t] = pc[t]
      /\ job'[w] = NoRun /\ \A v \in Workers \ {w} : job'[v] = job[v]
      /\ status' = [status EXCEPT ![r] = "error"]
  BY <1>1, <1>2 DEF JobAborts, Goto, queueVars, IInv, TypeOK
\* The run is in no other hands; those of other projects stay where they are.
<1>4. ~InFlight(r)'
  <2>1. /\ \A t \in Threads : sched[t] # r
        /\ \A i \in 1..Len(pool) : pool[i] # r
        /\ \A v \in Workers \ {w} : job[v] # r
    BY <1>1, <1>2 DEF IInv, HeldOnce
  <2> QED
    BY <1>2, <1>3, <2>1, Types DEF InFlight
<1>5. Stalled(p)' /\ \A o \in Projects \ {p} : Stalled(o)' <=> Stalled(o)
  <2>1. Stalled(p)'
    BY <1>2, <1>3, <1>4, NoRunIsNoRun DEF Stalled
  <2>2. ASSUME NEW o \in Projects \ {p}, active[o] # NoRun
        PROVE  InFlight(active[o])' <=> InFlight(active[o])
    BY <1>2, <1>3, <2>2 DEF InFlight
  <2> QED
    BY <1>3, <2>1, <2>2, FlightKept
<1>6. FifoStalled' = FifoStalled \cup {p}
  BY <1>5 DEF FifoStalled
<1>7. Heading(p) = NoRun /\ Heading(p)' = NoRun
  BY <1>1, <1>2, <1>5 DEF Heading, Begun
<1>8. FifoLine' = FifoLine
  <2>1. \A o \in Projects \ {p} : Heading(o)' = Heading(o)
    <3> TAKE o \in Projects \ {p}
    <3>1. \A v \in Workers : active[o] # NoRun =>
            (job'[v] = active[o] /\ pc'[v] # "acquire"
               <=> job[v] = active[o] /\ pc[v] # "acquire")
      BY <1>2, <1>3, Types
    <3> QED
      BY <1>3, <1>5, <3>1, HeadingKept
  <2> QED
    BY <1>3, <1>7, <2>1, LinesKept
<1>9. FifoWorking' = FifoWorking /\ FifoWorking[p] = NoRun
  <2>1. ~locked[p]
    BY <1>1, <1>2, ReleasedFree DEF Holding
  <2> QED
    BY <1>3, <2>1, WorkKept, HeadingType
<1>10. FifoSeen' = FifoSeen
  BY <1>2, <1>3, SeenKept DEF IInv, TypeOK
<1>11. FifoAsked' = FifoAsked /\ FifoStopped' = FifoStopped
  BY <1>1, <1>3, Types, AskedKept, StoppedKept
<1>12. r \in FifoStopped
  BY <1>1, <1>2 DEF IInv, RunsEndFinal, FifoStopped
<1>13. r \notin Fifo!ToSet(FifoLine[p])
  <2>1. FifoLine[p] = waiting[p] /\ DOMAIN waiting[p] = 1..Len(waiting[p])
    BY <1>7, HeadingType, LineOfNone, LenProperties
  <2>2. \A i \in 1..Len(waiting[p]) : waiting[p][i] # r
    BY <1>1, <1>2, JobNotWaiting
  <2> QED
    BY <2>1, <2>2 DEF Fifo!ToSet
<1> QED
  BY <1>2, <1>6, <1>8, <1>9, <1>10, <1>11, <1>12, <1>13 DEF Fifo!Next, Fifo!Stall

\* on_task_finished: the first run that waits heads the same line.
LEMMA FinishFifo ==
  ASSUME IInv, IInv', LineInv, NEW w \in Workers, OnTaskFinished(w)
  PROVE  UNCHANGED Fifo!vars
<1>1. /\ pc[w] = "finish" /\ job[w] # NoRun /\ w \in Threads /\ w # Loop
  BY Types DEF OnTaskFinished, IInv, LocalsSet
<1>2. PICK r \in Runs, p \in Projects :
        /\ r = job[w] /\ p = ProjectOf[r] /\ active[p] = r
        /\ \A o \in Projects : active[o] = r => o = p
  BY <1>1, JobActive
<1> DEFINE s == waiting[p]
<1>3. /\ s \in Seq(Runs)
      /\ s = <<>> => LeaveSection(w, p, NoRun, <<>>, <<>>, NoRun)
      /\ s # <<>> =>
           LeaveSection(w, p, s[1], Tail(s), Dequeued(s[1], Tail(s)), s[1])
  BY <1>2, FinishedExact
<1>4. /\ UNCHANGED <<status, locked, pool, target, cancelReq>>
      /\ job'[w] = NoRun /\ \A v \in Workers \ {w} : job'[v] = job[v]
      /\ sched[w] = NoRun
  BY <1>1 DEF OnTaskFinished, IInv, TypeOK, LocalsSet
<1> HIDE DEF s
<1>5. ASSUME NEW b, NEW q, NEW u, LeaveSection(w, p, b, q, u, b)
      PROVE  /\ active'[p] = b /\ waiting'[p] = q /\ sched'[w] = b
             /\ \A t \in Threads \ {w} : sched'[t] = sched[t]
             /\ \A o \in Projects \ {p} :
                  active'[o] = active[o] /\ waiting'[o] = waiting[o]
             /\ pc'[w] = "updating"
             /\ \A t \in Threads \ {w} : pc'[t] = pc[t]
  <2>1. sched'[w] = b /\ \A t \in Threads \ {w} : sched'[t] = sched[t]
    BY <1>1, <1>5 DEF LeaveSection, IInv, TypeOK
  <2> QED
    BY <1>1, <1>5, <2>1, SectionSteps
<1>6. /\ \A o \in Projects \ {p} :
           active'[o] = active[o] /\ waiting'[o] = waiting[o]
      /\ \A t \in Threads \ {w} : pc'[t] = pc[t]
  BY <1>3, <1>5
\* Projects where a run is in flight stay so: here the next one is scheduled.
<1>7. ~Stalled(p) /\ ~Stalled(p)'
  <2>1. ~Stalled(p)
    BY <1>2 DEF Stalled, InFlight
  <2>2. active'[p] = sched'[w]
    BY <1>3, <1>5
  <2> QED
    BY <1>1, <2>1, <2>2 DEF Stalled, InFlight
<1>8. \A o \in Projects : Stalled(o)' <=> Stalled(o)
  <2>1. /\ \A t \in Threads \ {w} : sched'[t] = sched[t]
        /\ sched'[w] = NoRun \/ ProjectOf[sched'[w]] = p
    <3>1. CASE s = <<>>
      BY <1>3, <1>5, <3>1
    <3>2. CASE s # <<>>
      <4>1. 1 \in 1..Len(s)
        BY <1>3, <3>2, EmptySeq, LenProperties
      <4>2. ProjectOf[s[1]] = p
        BY <4>1 DEF s, IInv, WaitingRuns, WaitingOf
      <4> QED
        BY <1>3, <1>5, <3>2, <4>2
    <3> QED
      BY <3>1, <3>2
  <2>2. ASSUME NEW o \in Projects \ {p}, active[o] # NoRun
        PROVE  InFlight(active[o])' <=> InFlight(active[o])
    <3>1. ProjectOf[active[o]] = o /\ active[o] # r
      BY <1>2, <2>2 DEF IInv, ActiveRuns
    <3>2. sched'[w] # active[o] /\ sched[w] # active[o]
      BY <1>4, <2>1, <2>2, <3>1
    <3>3. \A t \in Threads : sched'[t] = active[o] <=> sched[t] = active[o]
      BY <2>1, <3>2
    <3>4. \A v \in Workers : job'[v] = active[o] <=> job[v] = active[o]
      BY <1>2, <1>4, <2>2, <3>1
    <3> QED
      BY <1>4, <1>6, <3>3, <3>4 DEF InFlight
  <2> QED
    BY <1>6, <1>7, <2>2, FlightKept
\* The lines of the other projects.
<1>9. \A o \in Projects \ {p} : Heading(o)' = Heading(o)
  <2> TAKE o \in Projects \ {p}
  <2>1. \A v \in Workers : active[o] # NoRun =>
          (job'[v] = active[o] /\ pc'[v] # "acquire"
             <=> job[v] = active[o] /\ pc[v] # "acquire")
    BY <1>2, <1>4, <1>6, Types
  <2> QED
    BY <1>6, <1>8, <2>1, HeadingKept
\* The line of this project is its queue before, and after.
<1>10. Heading(p) = NoRun
  BY <1>1, <1>2 DEF Heading, Begun
<1>11. Line(Heading(p), waiting[p]) = s
  BY <1>3, <1>10, LineOfNone DEF s
<1>12. Line(Heading(p)', waiting'[p]) = s
  <2>1. CASE s = <<>>
    <3>1. active'[p] = NoRun /\ waiting'[p] = <<>>
      BY <1>3, <1>5, <2>1
    <3>2. Heading(p)' = NoRun
      BY <3>1 DEF Heading
    <3> QED
      BY <1>3, <2>1, <3>1, <3>2, LineOfNone
  <2>2. CASE s # <<>>
    <3>1. active'[p] = s[1] /\ waiting'[p] = Tail(s)
      BY <1>3, <1>5, <2>2
    <3>2. s[1] \in Runs /\ Line(s[1], Tail(s)) = s /\ 1 \in 1..Len(s)
      BY <1>3, <2>2, LineOfHead, EmptySeq, LenProperties
    <3>3. \A v \in Workers : job[v] # s[1]
      BY <3>2, JobNotWaiting, Types DEF s
    <3>4. \A v \in Workers : job'[v] # s[1]
      BY <1>4, <3>2, <3>3, Types
    <3>5. Heading(p)' = s[1]
      BY <1>7, <3>1, <3>2, <3>4, Types DEF Heading, Begun
    <3> QED
      BY <3>1, <3>2, <3>5
  <2> QED
    BY <2>1, <2>2
<1>13. FifoLine' = FifoLine
  <2>1. \A o \in Projects :
          Line(Heading(o)', waiting'[o]) = Line(Heading(o), waiting[o])
    BY <1>6, <1>9, <1>11, <1>12
  <2> QED
    BY <2>1, LinesKept
\* Its workspace is not locked: the worker has released it.
<1>14. ~locked[p]
  BY <1>1, <1>2, ReleasedFree DEF Holding
<1>15. FifoWorking' = FifoWorking
  BY <1>4, <1>6, <1>14, WorkKept
<1>16. FifoSeen' = FifoSeen /\ FifoAsked' = FifoAsked
  BY <1>1, <1>4, <1>6, Types, SeenKept, AskedKept
<1>17. FifoStopped' = FifoStopped /\ FifoStalled' = FifoStalled
  BY <1>4, <1>8, StoppedKept, StalledKept
<1> QED
  BY <1>13, <1>15, <1>16, <1>17 DEF Fifo!vars

\* Every step of a worker is one of the lines, or none.
LEMMA WorkerStepFifo ==
  ASSUME IInv, IInv', LineInv, NEW w \in Workers, WorkerStep(w)
  PROVE  [Fifo!Next]_(Fifo!vars)
<1>1. w \in Threads /\ w # Loop
  BY Types
\* Between the taking of the lock and the end of the job nothing shows.
<1>2. ASSUME pc[w] \notin {"idle", "acquire", "updating"},
             UNCHANGED <<active, waiting, locked, sched, pool, job, target,
                         cancelReq>>,
             \E v \in WorkerPC \ {"acquire"} : pc' = [pc EXCEPT ![w] = v],
             \E v \in TaskStatus \cup {status[job[w]]} :
               status' = status \/ status' = [status EXCEPT ![job[w]] = v]
      PROVE  UNCHANGED Fifo!vars
  <2>1. job[w] # NoRun /\ status[job[w]] # "none"
    BY <1>2, JobActive DEF IInv, LocalsSet
  <2>2. /\ \A t \in Threads \ {w} : pc'[t] = pc[t]
        /\ pc'[w] # "acquire"
    BY <1>1, <1>2 DEF IInv, TypeOK
  <2>3. \A r \in Runs : status'[r] = "none" <=> status[r] = "none"
    BY <1>2, <2>1 DEF IInv, TypeOK, TaskStatus
  <2>4. \A v \in Workers : pc'[v] # "acquire" <=> pc[v] # "acquire"
    BY <1>2, <2>2, Types
  <2>5. UNCHANGED <<FifoLine, FifoWorking, FifoSeen, FifoStalled>>
    BY <1>2, <2>3, <2>4, SameFlight, StillFifo
  <2>6. FifoAsked' = FifoAsked /\ FifoStopped' = FifoStopped
    BY <1>1, <1>2, <2>2, Types, AskedKept, StoppedKept
  <2> QED
    BY <2>5, <2>6 DEF Fifo!vars
<1>3. ASSUME TakeJob(w)
      PROVE  UNCHANGED Fifo!vars
  <2>1. /\ pc[w] = "idle" /\ pc'[w] = "acquire"
        /\ \A t \in Threads \ {w} : pc'[t] = pc[t]
        /\ \A v \in Workers \ {w} : job'[v] = job[v]
        /\ UNCHANGED <<status, active, waiting, locked, target, cancelReq>>
    BY <1>1, <1>3 DEF TakeJob, Goto, queueVars, IInv, TypeOK
  <2>2. job[w] = NoRun
    BY <2>1 DEF IInv, LocalsSet
  <2>3. \A p \in Projects : Stalled(p)' <=> Stalled(p)
    BY <1>3, <2>1, TakeFlight, FlightKept, Types
  <2>4. UNCHANGED <<FifoLine, FifoWorking, FifoSeen, FifoStalled>>
    BY <2>1, <2>2, <2>3, Types, StillFifo
  <2>5. FifoAsked' = FifoAsked /\ FifoStopped' = FifoStopped
    BY <1>1, <2>1, Types, AskedKept, StoppedKept
  <2> QED
    BY <2>4, <2>5 DEF Fifo!vars
<1>4. StopCancelled(w) => UNCHANGED Fifo!vars
  BY <1>2 DEF StopCancelled, Goto, queueVars, WorkerPC, Holding, TaskStatus
<1>5. StartAttempt(w) => UNCHANGED Fifo!vars
  BY <1>2 DEF StartAttempt, Goto, queueVars, WorkerPC, Holding
<1>6. MarkRunning(w) => UNCHANGED Fifo!vars
  BY <1>2 DEF MarkRunning, Goto, queueVars, WorkerPC, Holding, TaskStatus
<1>7. \A ok \in BOOLEAN : AgentExits(w, ok) => UNCHANGED Fifo!vars
  BY <1>2 DEF AgentExits, Goto, queueVars, WorkerPC, Holding
<1>8. \A ok \in BOOLEAN : FinishAttempt(w, ok) => UNCHANGED Fifo!vars
  BY <1>2 DEF FinishAttempt, Goto, queueVars, WorkerPC, Holding, TaskStatus
<1>9. RetryAttempt(w) => UNCHANGED Fifo!vars
  BY <1>2 DEF RetryAttempt, Goto, queueVars, WorkerPC, Holding, TaskStatus
<1>10. RunReturns(w) => UNCHANGED Fifo!vars
  BY <1>2 DEF RunReturns, Goto, queueVars, WorkerPC, Holding
<1>11. RunRaises(w) => UNCHANGED Fifo!vars
  BY <1>2 DEF RunRaises, Goto, queueVars, WorkerPC, Holding, TaskStatus
<1>12. EnsureNotStuck(w) => UNCHANGED Fifo!vars
  BY <1>2 DEF EnsureNotStuck, Goto, queueVars, WorkerPC, TaskStatus
<1>13. ExecuteOnce(w) => UNCHANGED Fifo!vars
  BY <1>2 DEF ExecuteOnce, Goto, queueVars, WorkerPC, Holding, TaskStatus
<1> QED
  BY <1>1, <1>3, <1>4, <1>5, <1>6, <1>7, <1>8, <1>9, <1>10, <1>11, <1>12, <1>13,
     AcquireFifo, ReleaseFifo, AbortFifo, FinishFifo, ThreadFifo DEF WorkerStep

-----------------------------------------------------------------------------
(* The refinement.                                                         *)

LEMMA InitFifo == Init => Fifo!Init
<1> SUFFICES ASSUME Init
             PROVE  Fifo!Init
  OBVIOUS
<1>1. IInv
  BY InitIInv
<1>2. /\ \A p \in Projects : active[p] = NoRun /\ waiting[p] = <<>> /\ ~locked[p]
      /\ \A r \in Runs : status[r] = "none" /\ ~cancelReq[r]
      /\ pc[Loop] = "idle"
  BY Types, <1>1 DEF Init
<1>3. Line(NoRun, <<>>) = <<>>
  <2>1. <<>> \in Seq(Runs)
    OBVIOUS
  <2> QED
    BY <2>1, LineOfNone
<1>4. FifoLine = [p \in Projects |-> <<>>]
  BY <1>1, <1>2, <1>3, Mapped DEF MappedRight, Heading
<1>5. FifoWorking = [p \in Projects |-> NoRun]
  BY <1>1, <1>2, Mapped DEF MappedRight
<1>6. FifoSeen = {} /\ FifoAsked = NoRun
  BY <1>2 DEF FifoSeen, FifoAsked
<1>7. FifoStopped = {} /\ FifoStalled = {}
  BY <1>2 DEF FifoStopped, FifoStalled, Stalled
<1> QED
  BY <1>4, <1>5, <1>6, <1>7 DEF Fifo!Init

LEMMA NextFifo ==
  ASSUME IInv, IInv', LineInv, [Next]_vars
  PROVE  [Fifo!Next]_(Fifo!vars)
<1>1. CASE LoopStep
  BY <1>1, LoopStepFifo
<1>2. ASSUME NEW w \in Workers, WorkerStep(w)
      PROVE  [Fifo!Next]_(Fifo!vars)
  BY <1>2, WorkerStepFifo
<1>3. CASE UNCHANGED vars
  <2>1. UNCHANGED <<FifoLine, FifoWorking, FifoSeen, FifoStalled>>
    BY <1>3, SameFlight, StillFifo DEF vars, queueVars
  <2>2. FifoAsked' = FifoAsked /\ FifoStopped' = FifoStopped
    BY <1>3, AskedKept, StoppedKept DEF vars, queueVars
  <2> QED
    BY <2>1, <2>2 DEF Fifo!vars
<1> QED
  BY <1>1, <1>2, <1>3 DEF Next

\* However the loop, the workers and the queue's lock interleave, the runs of a
\* project use its workspace one at a time and in the order of acceptance, each
\* at most once, and only a cancel takes a run out of the line before.
THEOREM Implements == Spec => ImplementsFifo
<1>1. Init => Fifo!Init
  BY InitFifo
<1>2. IInv /\ IInv' /\ LineInv /\ [Next]_vars => [Fifo!Next]_(Fifo!vars)
  BY NextFifo
<1>3. QueueInv => IInv /\ LineInv
  BY DEF QueueInv
<1> QED
  BY <1>1, <1>2, <1>3, LineInductive, PTL DEF Spec, ImplementsFifo, Fifo!Spec
=============================================================================
