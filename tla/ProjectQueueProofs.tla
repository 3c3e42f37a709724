-------------------------- MODULE ProjectQueueProofs --------------------------
(***************************************************************************)
(* TLAPS proofs about ProjectQueue, for any runs, projects, workers and    *)
(* number of attempts.                                                     *)
(***************************************************************************)
EXTENDS ProjectQueue, SequenceTheorems, WellFoundedInduction, TLAPS

-----------------------------------------------------------------------------
(* Lemmas about the sequence operators the queue is built from.            *)

\* The first index of SelectInSeq is one of the candidates, and the least.
LEMMA MinOfIndices ==
  ASSUME NEW n \in Nat, NEW I, I \subseteq 1..n, I # {}
  PROVE  Min(I) \in I /\ \A i \in I : Min(I) <= i
<1>1. I \subseteq Nat
  OBVIOUS
<1>2. \E x \in I : \A y \in I : ~(<<y, x>> \in OpToRel(<, Nat))
  BY <1>1, NatLessThanWellFounded, WFMin
<1>3. PICK x \in I : \A y \in I : ~(<<y, x>> \in OpToRel(<, Nat))
  BY <1>2
<1>4. ASSUME NEW y \in I
      PROVE  x <= y
  <2>1. ~(y < x)
    BY <1>1, <1>3 DEF OpToRel
  <2> QED
    BY <1>1, <2>1
<1> QED
  BY <1>4 DEF Min

\* deque.popleft until a run is fit to start: an index of the deque, or 0.
LEMMA NextIndexRange ==
  ASSUME NEW q \in Seq(Runs)
  PROVE  NextIndex(q) \in 0..Len(q)
<1> DEFINE I == {i \in 1..Len(q) : ~Dropped(q[i])}
<1>1. CASE I = {}
  <2>1. NextIndex(q) = 0
    BY <1>1 DEF NextIndex, SelectInSeq
  <2> QED
    BY <2>1, LenProperties
<1>2. CASE I # {}
  <2>1. Min(I) \in I
    BY <1>2, MinOfIndices, LenProperties
  <2>2. NextIndex(q) = Min(I)
    BY <1>2 DEF NextIndex, SelectInSeq
  <2> QED
    BY <2>1, <2>2, LenProperties
<1> QED
  BY <1>1, <1>2

\* Taking the k-th element out of a sequence.
LEMMA RemoveAtProperties ==
  ASSUME NEW S, NEW s \in Seq(S), NEW k \in 1..Len(s)
  PROVE  /\ RemoveAt(s, k) \in Seq(S)
         /\ Len(RemoveAt(s, k)) = Len(s) - 1
         /\ \A i \in 1..Len(s) - 1 :
              RemoveAt(s, k)[i] = IF i < k THEN s[i] ELSE s[i + 1]
<1> DEFINE s1 == SubSeq(s, 1, k - 1)
           s2 == SubSeq(s, k + 1, Len(s))
           r == s1 \o s2
<1>1. Len(s) \in Nat /\ \A i \in 1..Len(s) : s[i] \in S
  BY LenProperties
<1>2. RemoveAt(s, k) = r
  BY DEF RemoveAt
<1>3. /\ s1 \in Seq(S)
      /\ Len(s1) = k - 1
      /\ \A i \in 1..k - 1 : s1[i] = s[i]
  <2>1. \A i \in 1..k - 1 : s[i] \in S
    BY <1>1
  <2>2. 1 \in Int /\ k - 1 \in Int
    BY <1>1
  <2>3. /\ s1 \in Seq(S)
        /\ Len(s1) = IF 1 <= k - 1 THEN k - 1 - 1 + 1 ELSE 0
        /\ \A i \in 1..k - 1 - 1 + 1 : s1[i] = s[1 + i - 1]
    BY <2>1, <2>2, SubSeqProperties
  <2> QED
    BY <2>3, <1>1
<1>4. /\ s2 \in Seq(S)
      /\ Len(s2) = Len(s) - k
      /\ \A i \in 1..Len(s) - k : s2[i] = s[k + i]
  <2>1. \A i \in k + 1..Len(s) : s[i] \in S
    BY <1>1
  <2>2. k + 1 \in Int /\ Len(s) \in Int
    BY <1>1
  <2>3. /\ s2 \in Seq(S)
        /\ Len(s2) = IF k + 1 <= Len(s) THEN Len(s) - (k + 1) + 1 ELSE 0
        /\ \A i \in 1..Len(s) - (k + 1) + 1 : s2[i] = s[k + 1 + i - 1]
    BY <2>1, <2>2, SubSeqProperties
  <2> QED
    BY <2>3, <1>1
<1> HIDE DEF s1, s2
<1>5. /\ r \in Seq(S)
      /\ Len(r) = Len(s1) + Len(s2)
      /\ \A i \in 1..Len(s1) + Len(s2) :
           r[i] = IF i <= Len(s1) THEN s1[i] ELSE s2[i - Len(s1)]
  BY <1>3, <1>4, ConcatProperties
<1> HIDE DEF r
<1>6. Len(s1) + Len(s2) = Len(s) - 1
  BY <1>1, <1>3, <1>4
<1>7. \A i \in 1..Len(s) - 1 : r[i] = IF i < k THEN s[i] ELSE s[i + 1]
  <2> TAKE i \in 1..Len(s) - 1
  <2>1. CASE i < k
    BY <1>1, <1>3, <1>5, <1>6, <2>1
  <2>2. CASE ~(i < k)
    <3>1. ~(i <= k - 1) /\ i - (k - 1) \in 1..Len(s) - k
          /\ k + (i - (k - 1)) = i + 1
      BY <1>1, <2>2
    <3>2. r[i] = s2[i - (k - 1)]
      BY <1>3, <1>5, <1>6, <3>1
    <3>3. s2[i - (k - 1)] = s[i + 1]
      BY <1>4, <3>1
    <3> QED
      BY <2>2, <3>2, <3>3
  <2> QED
    BY <2>1, <2>2
<1>8. r \in Seq(S) /\ Len(r) = Len(s) - 1
  BY <1>5, <1>6
<1> QED
  BY <1>2, <1>7, <1>8, Zenon

\* deque.remove takes elements out, and adds or repeats none.
LEMMA RemoveFirstProperties ==
  ASSUME NEW S, NEW s \in Seq(S), NEW e
  PROVE  /\ RemoveFirst(s, e) \in Seq(S)
         /\ \A i \in 1..Len(RemoveFirst(s, e)) :
              \E j \in 1..Len(s) : RemoveFirst(s, e)[i] = s[j]
         /\ (\A i, j \in 1..Len(s) : s[i] = s[j] => i = j) =>
              \A i, j \in 1..Len(RemoveFirst(s, e)) :
                RemoveFirst(s, e)[i] = RemoveFirst(s, e)[j] => i = j
<1> DEFINE I == {i \in 1..Len(s) : s[i] = e}
<1>1. CASE I = {}
  <2>1. RemoveFirst(s, e) = s
    BY <1>1 DEF RemoveFirst
  <2> QED
    BY <2>1
<1>2. CASE I # {}
  <2> DEFINE k == Min(I)
             r == RemoveAt(s, k)
             f(i) == IF i < k THEN i ELSE i + 1
  <2>1. k \in 1..Len(s) /\ Len(s) \in Nat
    <3>1. Len(s) \in Nat
      BY LenProperties
    <3>2. k \in I
      BY <1>2, <3>1, MinOfIndices
    <3> QED
      BY <3>1, <3>2
  <2>2. RemoveFirst(s, e) = r
    BY <1>2 DEF RemoveFirst, SelectInSeq
  <2> HIDE DEF k
  <2>3. /\ r \in Seq(S)
        /\ Len(r) = Len(s) - 1
        /\ \A i \in 1..Len(s) - 1 : r[i] = IF i < k THEN s[i] ELSE s[i + 1]
    BY <2>1, RemoveAtProperties
  <2> HIDE DEF r
  <2>4. \A i \in 1..Len(r) : f(i) \in 1..Len(s) /\ r[i] = s[f(i)]
    BY <2>1, <2>3
  <2>5. \A i, j \in 1..Len(r) : f(i) = f(j) => i = j
    BY <2>1, <2>3
  <2> HIDE DEF f
  <2>6. \A i \in 1..Len(r) : \E j \in 1..Len(s) : r[i] = s[j]
    BY <2>4
  <2>7. ASSUME \A i, j \in 1..Len(s) : s[i] = s[j] => i = j
        PROVE  \A i, j \in 1..Len(r) : r[i] = r[j] => i = j
    <3> TAKE i, j \in 1..Len(r)
    <3> HAVE r[i] = r[j]
    <3>1. f(i) = f(j)
      BY <2>4, <2>7
    <3> QED
      BY <2>5, <3>1
  <2> QED
    BY <2>2, <2>3, <2>6, <2>7
<1> QED
  BY <1>1, <1>2

\* A project's line is a sequence of runs.
LEMMA LineType ==
  ASSUME NEW a \in Runs \cup {NoRun}, NEW q \in Seq(Runs)
  PROVE  /\ Line(a, q) \in Seq(Runs)
         /\ Len(Line(a, q)) \in Nat
         /\ a # NoRun => Len(Line(a, q)) >= 1
<1>1. CASE a = NoRun
  BY <1>1, ConcatEmptySeq, LenProperties DEF Line
<1>2. CASE a # NoRun
  <2>1. <<a>> \in Seq(Runs) /\ Len(<<a>>) = 1
    BY <1>2
  <2>2. Line(a, q) = <<a>> \o q
    BY <1>2 DEF Line
  <2> QED
    BY <2>1, <2>2, ConcatProperties, LenProperties
<1> QED
  BY <1>1, <1>2

\* Renumbering yields updates, as many as the line is long.
LEMMA RenumberedType ==
  ASSUME NEW a \in Runs \cup {NoRun}, NEW q \in Seq(Runs)
  PROVE  /\ Renumbered(a, q) \in Seq(Update)
         /\ Len(Renumbered(a, q)) = Len(Line(a, q))
<1> DEFINE l == Line(a, q)
           u == [i \in 1..Len(l) |->
                   [run |-> l[i], status |-> Keep, place |-> <<i, Len(l)>>]]
<1>1. l \in Seq(Runs) /\ Len(l) \in Nat
  BY LineType
<1>2. Renumbered(a, q) = u
  BY DEF Renumbered
<1> HIDE DEF l
<1>3. \A i \in 1..Len(l) : u[i] \in Update
  <2> TAKE i \in 1..Len(l)
  <2>1. l[i] \in Runs
    BY <1>1, LenProperties
  <2>2. Keep \in TaskStatus \cup {Keep}
    OBVIOUS
  <2>3. <<i, Len(l)>> \in Nat \X Nat
    BY <1>1
  <2> QED
    BY <2>1, <2>2, <2>3 DEF Update
<1>4. u \in [1..Len(l) -> Update]
  BY <1>3
<1>5. u \in Seq(Update) /\ Len(u) = Len(l)
  BY <1>1, <1>4
<1> QED
  BY <1>2, <1>5 DEF l

\* So does popping the next run.
LEMMA DequeuedType ==
  ASSUME NEW a \in Runs, NEW q \in Seq(Runs)
  PROVE  Dequeued(a, q) \in Seq(Update)
<1> DEFINE u == Renumbered(a, q)
<1>1. u \in Seq(Update) /\ Len(u) \in Nat /\ Len(u) >= 1
  BY RenumberedType, LineType, NoRunIsNoRun
<1>2. Dequeued(a, q) = [u EXCEPT ![1].status = "queued"]
  BY DEF Dequeued
<1> HIDE DEF u
<1>3. u[1] \in Update
  BY <1>1, LenProperties
<1>4. [u[1] EXCEPT !.status = "queued"] \in Update
  BY <1>3 DEF Update, TaskStatus
<1>5. [u EXCEPT ![1] = [u[1] EXCEPT !.status = "queued"]] \in Seq(Update)
  BY <1>1, <1>4, ExceptSeq
<1> QED
  BY <1>2, <1>5

\* A line begins with the active run, if there is one.
LEMMA LineAt ==
  ASSUME NEW a \in Runs, NEW q \in Seq(Runs)
  PROVE  /\ Line(a, q) = <<a>> \o q
         /\ Line(a, q) \in Seq(Runs)
         /\ Len(Line(a, q)) = Len(q) + 1
         /\ Line(a, q)[1] = a
         /\ \A i \in 1..Len(q) : Line(a, q)[i + 1] = q[i]
<1>1. <<a>> \in Seq(Runs) /\ Len(<<a>>) = 1 /\ <<a>>[1] = a
  OBVIOUS
<1>2. Line(a, q) = <<a>> \o q
  BY NoRunIsNoRun DEF Line
<1>3. Len(q) \in Nat
  BY LenProperties
<1>4. /\ <<a>> \o q \in Seq(Runs)
      /\ Len(<<a>> \o q) = 1 + Len(q)
      /\ \A i \in 1..1 + Len(q) :
           (<<a>> \o q)[i] = IF i <= 1 THEN <<a>>[i] ELSE q[i - 1]
  BY <1>1, ConcatProperties
<1>5. \A i \in 1..Len(q) :
        i + 1 \in 1..1 + Len(q) /\ ~(i + 1 <= 1) /\ i + 1 - 1 = i
  BY <1>3
<1> QED
  BY <1>1, <1>2, <1>3, <1>4, <1>5

\* With no active run the line is the queue.
LEMMA LineOfNone ==
  ASSUME NEW q \in Seq(Runs)
  PROVE  Line(NoRun, q) = q
BY ConcatEmptySeq DEF Line

\* Renumbering is about the runs of the line, each with its place.
LEMMA RenumberedAt ==
  ASSUME NEW a \in Runs \cup {NoRun}, NEW q \in Seq(Runs)
  PROVE  LET l == Line(a, q)
         IN \A i \in 1..Len(l) :
              /\ Renumbered(a, q)[i].run = l[i]
              /\ Renumbered(a, q)[i].status = Keep
              /\ Renumbered(a, q)[i].place = <<i, Len(l)>>
BY DEF Renumbered

\* So is popping the next run, which shows queued.
LEMMA DequeuedAt ==
  ASSUME NEW a \in Runs, NEW q \in Seq(Runs)
  PROVE  LET l == Line(a, q)
         IN /\ Len(Dequeued(a, q)) = Len(l)
            /\ \A i \in 1..Len(l) :
                 /\ Dequeued(a, q)[i].run = l[i]
                 /\ Dequeued(a, q)[i].status \in {Keep, "queued"}
                 /\ i # 1 => Dequeued(a, q)[i].status = Keep
                 /\ Dequeued(a, q)[i].place = <<i, Len(l)>>
<1> DEFINE l == Line(a, q)
           u == Renumbered(a, q)
<1>1. u \in Seq(Update) /\ Len(u) = Len(l) /\ Len(l) \in Nat /\ Len(l) >= 1
  BY RenumberedType, LineType, NoRunIsNoRun
<1>2. \A i \in 1..Len(l) : /\ u[i].run = l[i]
                           /\ u[i].status = Keep
                           /\ u[i].place = <<i, Len(l)>>
  BY RenumberedAt
<1>3. Dequeued(a, q) = [u EXCEPT ![1].status = "queued"]
  BY DEF Dequeued
<1> HIDE DEF u, l
<1>4. \A i \in 1..Len(l) : u[i] \in Update
  BY <1>1, LenProperties
<1> DEFINE d == [u EXCEPT ![1].status = "queued"]
<1>5. Len(d) = Len(u)
  BY <1>1
<1>6. \A i \in 1..Len(l) :
        d[i] = IF i = 1 THEN [u[1] EXCEPT !.status = "queued"] ELSE u[i]
  BY <1>1
<1>7. [u[1] EXCEPT !.status = "queued"].run = u[1].run
      /\ [u[1] EXCEPT !.status = "queued"].status = "queued"
      /\ [u[1] EXCEPT !.status = "queued"].place = u[1].place
  BY <1>1, <1>4 DEF Update
<1> HIDE DEF d
<1> QED
  BY <1>1, <1>2, <1>3, <1>5, <1>6, <1>7 DEF d, l

\* The updates u leave no run unfinished but n.
OnlyNext(u, n) ==
  \A k \in 1..Len(u) : u[k].status \in Unfinished => n = u[k].run

\* Renumbering changes no status.
LEMMA RenumberedNext ==
  ASSUME NEW a \in Runs \cup {NoRun}, NEW q \in Seq(Runs), NEW n
  PROVE  OnlyNext(Renumbered(a, q), n)
<1>1. Len(Renumbered(a, q)) = Len(Line(a, q))
  BY RenumberedType
<1>2. \A i \in 1..Len(Line(a, q)) : Renumbered(a, q)[i].status = Keep
  BY RenumberedAt
<1> QED
  BY <1>1, <1>2 DEF OnlyNext, Unfinished, Keep

\* Popping the next run changes only its status.
LEMMA DequeuedNext ==
  ASSUME NEW a \in Runs, NEW q \in Seq(Runs)
  PROVE  OnlyNext(Dequeued(a, q), a)
<1> DEFINE d == Dequeued(a, q)
           l == Line(a, q)
<1>1. Len(d) = Len(l)
  BY DequeuedAt
<1>2. \A i \in 1..Len(l) : d[i].run = l[i] /\ (i # 1 => d[i].status = Keep)
  BY DequeuedAt
<1>3. l[1] = a
  BY LineAt
<1> HIDE DEF d, l
<1>4. \A k \in 1..Len(d) : d[k].status \in Unfinished => a = d[k].run
  BY <1>1, <1>2, <1>3 DEF Unfinished, Keep
<1> QED
  BY <1>4 DEF OnlyNext, d

-----------------------------------------------------------------------------
(* The inductive invariant holds initially.                                *)

LEMMA InitIInv == Init => IInv
<1> SUFFICES ASSUME Init
             PROVE  IInv
  OBVIOUS
<1> USE ProjectOfType, LoopIsNoWorker, NoRunIsNoRun, MaxAttemptsType
<1>1. TypeOK
  <2>1. <<>> \in Seq(Runs) /\ <<>> \in Seq(Update)
    OBVIOUS
  <2>2. 1 \in 1..MaxAttempts
    OBVIOUS
  <2>3. NoPlace \in Nat \X Nat
    BY DEF NoPlace
  <2> QED
    BY <2>1, <2>2, <2>3 DEF Init, TypeOK, Threads, LoopPC, WorkerPC
<1>2. LocalsSet
  BY DEF Init, LocalsSet, Threads
<1>3. HoldersActive
  BY DEF Init, HoldersActive
<1>4. HeldOnce
  BY DEF Init, HeldOnce
<1>5. ActiveRuns
  BY DEF Init, ActiveRuns
<1>6. LocksHeld
  BY DEF Init, LocksHeld, Holding, Threads
<1>7. WaitingRuns
  BY DEF Init, WaitingRuns, WaitingOf
<1>8. NoStrandedWaiters
  BY DEF Init, NoStrandedWaiters
<1>9. RunsEndFinal /\ UpdatesNext
  BY DEF Init, RunsEndFinal, UpdatesNext, Threads
<1> QED
  BY <1>1, <1>2, <1>3, <1>4, <1>5, <1>6, <1>7, <1>8, <1>9 DEF IInv

-----------------------------------------------------------------------------
(* What a step leaves alone stays true.                                    *)

\* A step that moves no run between the queue, the executor and the threads
\* keeps every part of the invariant about them.
LEMMA QueueFrame ==
  ASSUME IInv,
         UNCHANGED <<active, waiting, pool, job, sched>>,
         \A r \in Runs : status[r] # "none" => status'[r] # "none",
         \A r \in Runs : cancelReq[r] => cancelReq'[r]
  PROVE  /\ HoldersActive' /\ HeldOnce' /\ ActiveRuns'
         /\ WaitingRuns' /\ NoStrandedWaiters'
<1>1. HoldersActive'
  BY DEF IInv, HoldersActive
<1>2. HeldOnce'
  BY DEF IInv, HeldOnce
<1>3. ActiveRuns'
  <2>1. \A r : InFlight(r)' <=> InFlight(r)
    BY DEF InFlight
  <2>2. \A p \in Projects : active[p] # NoRun => active[p] \in Runs
    BY DEF IInv, TypeOK
  <2> QED
    BY <2>1, <2>2 DEF IInv, ActiveRuns
<1>4. WaitingRuns'
  <2>1. \A p \in Projects : \A i \in 1..Len(waiting[p]) : waiting[p][i] \in Runs
    BY LenProperties DEF IInv, TypeOK
  <2> QED
    BY <2>1 DEF IInv, WaitingRuns, WaitingOf
<1>5. NoStrandedWaiters'
  BY DEF IInv, NoStrandedWaiters
<1> QED
  BY <1>1, <1>2, <1>3, <1>4, <1>5

\* Locks and their holders stay matched when no worker starts or stops to
\* hold one, and those that hold one keep their run.
LEMMA LockFrame ==
  ASSUME LocksHeld,
         locked' = locked,
         \A w \in Workers :
           /\ pc'[w] \in Holding <=> pc[w] \in Holding
           /\ pc[w] \in Holding => job'[w] = job[w]
  PROVE  LocksHeld'
BY DEF LocksHeld

\* A worker's step that only moves its program counter within the holding
\* region, or outside it, and does not end its job.
LEMMA PcFrame ==
  ASSUME IInv, NEW w \in Workers, NEW l,
         Goto(w, l),
         UNCHANGED <<locked, job, sched, target>>,
         pc[w] # "updating",
         l \notin {"idle", "updating"},
         job[w] # NoRun,
         l \in Holding <=> pc[w] \in Holding
  PROVE  LocalsSet' /\ LocksHeld'
<1> USE LoopIsNoWorker DEF Goto, Threads
<1>1. /\ pc' = [pc EXCEPT ![w] = l]
      /\ pc \in [Threads -> LoopPC \cup WorkerPC]
  BY DEF IInv, TypeOK
<1>2. LocalsSet'
  BY <1>1 DEF IInv, LocalsSet
<1>3. LocksHeld'
  BY <1>1, LockFrame DEF IInv
<1> QED
  BY <1>2, <1>3

-----------------------------------------------------------------------------
(* What the sections of the queue's lock do, stated once.                  *)

\* The types a section leaves behind.
LEMMA SectionType ==
  ASSUME TypeOK, NEW t \in Threads, NEW p \in Projects,
         NEW a \in Runs \cup {NoRun}, NEW q \in Seq(Runs),
         NEW u \in Seq(Update), NEW n \in Runs \cup {NoRun},
         LeaveSection(t, p, a, q, u, n)
  PROVE  /\ active' \in [Projects -> Runs \cup {NoRun}]
         /\ waiting' \in [Projects -> Seq(Runs)]
         /\ todo' \in [Threads -> Seq(Update)]
         /\ sched' \in [Threads -> Runs \cup {NoRun}]
         /\ racy' \in [Projects -> BOOLEAN]
         /\ pc' \in [Threads -> LoopPC \cup WorkerPC]
         /\ pc'[Loop] \in LoopPC
         /\ \A w \in Workers : pc'[w] \in WorkerPC
<1> USE DEF LeaveSection, TypeOK
<1>1. active' \in [Projects -> Runs \cup {NoRun}]
  OBVIOUS
<1>2. waiting' \in [Projects -> Seq(Runs)]
  OBVIOUS
<1>3. todo' \in [Threads -> Seq(Update)] /\ sched' \in [Threads -> Runs \cup {NoRun}]
  OBVIOUS
<1>4. racy' \in [Projects -> BOOLEAN]
  BY UpdatesPending(t, p) \in BOOLEAN DEF UpdatesPending
<1>5. /\ pc' \in [Threads -> LoopPC \cup WorkerPC]
      /\ pc'[Loop] \in LoopPC
      /\ \A w \in Workers : pc'[w] \in WorkerPC
  BY LoopIsNoWorker DEF Threads, LoopPC, WorkerPC
<1> QED
  BY <1>1, <1>2, <1>3, <1>4, <1>5

\* The types a worker's move leaves behind.
LEMMA GotoType ==
  ASSUME TypeOK, NEW w \in Workers, NEW l \in WorkerPC, Goto(w, l)
  PROVE  /\ pc' \in [Threads -> LoopPC \cup WorkerPC]
         /\ pc'[Loop] \in LoopPC
         /\ \A v \in Workers : pc'[v] \in WorkerPC
BY LoopIsNoWorker DEF TypeOK, Goto, Threads

\* The section of on_task_finished: the next run is taken from the deque and
\* becomes the active and the scheduled one; with none the deque is empty.
LEMMA FinishedSection ==
  ASSUME IInv, NEW w \in Workers, OnTaskFinished(w)
  PROVE  LET p == ProjectOf[job[w]]
         IN \E a \in Runs \cup {NoRun}, q \in Seq(Runs), u \in Seq(Update) :
              /\ LeaveSection(w, p, a, q, u, a)
              /\ OnlyNext(u, a)
              /\ a = NoRun => q = <<>>
              /\ a # NoRun => \E i \in 1..Len(waiting[p]) : a = waiting[p][i]
              /\ \A j \in 1..Len(q) :
                   q[j] # a /\ \E k \in 1..Len(waiting[p]) : q[j] = waiting[p][k]
              /\ \A j, k \in 1..Len(q) : q[j] = q[k] => j = k
<1> DEFINE r == job[w]
           p == ProjectOf[r]
           q0 == waiting[p]
           i == NextIndex(q0)
           rest == SubSeq(q0, i + 1, Len(q0))
<1>1. pc[w] = "finish" /\ r \in Runs /\ p \in Projects /\ active[p] = r
  BY ProjectOfType DEF OnTaskFinished, IInv, LocalsSet, HoldersActive, TypeOK
<1>2. q0 \in Seq(Runs) /\ Len(q0) \in Nat /\ i \in 0..Len(q0)
  BY <1>1, NextIndexRange, LenProperties DEF IInv, TypeOK
<1>3. \A j \in 1..Len(q0) : q0[j] \in Runs
  BY <1>2, LenProperties
<1>4. \A j, k \in 1..Len(q0) : q0[j] = q0[k] => j = k
  BY <1>1 DEF IInv, WaitingRuns, WaitingOf
<1>5. IF i = 0 THEN LeaveSection(w, p, NoRun, <<>>, <<>>, NoRun)
      ELSE LeaveSection(w, p, q0[i], rest, Dequeued(q0[i], rest), q0[i])
  BY <1>1 DEF OnTaskFinished
<1> HIDE DEF i
<1>6. CASE i = 0
  <2>1. LeaveSection(w, p, NoRun, <<>>, <<>>, NoRun)
    BY <1>5, <1>6
  <2>2. <<>> \in Seq(Runs) /\ <<>> \in Seq(Update) /\ 1..Len(<<>>) = {}
    OBVIOUS
  <2>3. OnlyNext(<<>>, NoRun)
    BY DEF OnlyNext
  <2> HIDE DEF q0, p
  <2> QED
    BY <2>1, <2>2, <2>3 DEF p, q0
<1>7. CASE i # 0
  <2>1. i \in 1..Len(q0) /\ q0[i] \in Runs /\ q0[i] # NoRun
    BY <1>2, <1>3, <1>7, NoRunIsNoRun
  <2>2. \A j \in i + 1..Len(q0) : q0[j] \in Runs
    BY <1>3, <2>1
  <2>3. i + 1 \in Int /\ Len(q0) \in Int
    BY <1>2
  <2>4. /\ rest \in Seq(Runs)
        /\ Len(rest) = IF i + 1 <= Len(q0) THEN Len(q0) - (i + 1) + 1 ELSE 0
        /\ \A j \in 1..Len(q0) - (i + 1) + 1 : rest[j] = q0[i + 1 + j - 1]
    BY <2>2, <2>3, SubSeqProperties
  <2>5. /\ Dequeued(q0[i], rest) \in Seq(Update)
        /\ OnlyNext(Dequeued(q0[i], rest), q0[i])
    BY <2>1, <2>4, DequeuedType, DequeuedNext
  <2> HIDE DEF rest
  <2>6. Len(rest) \in Nat /\ \A j \in 1..Len(rest) : i + j \in 1..Len(q0) /\ rest[j] = q0[i + j]
    BY <1>2, <2>1, <2>4
  <2>7. \A j \in 1..Len(rest) :
          rest[j] # q0[i] /\ \E k \in 1..Len(q0) : rest[j] = q0[k]
    BY <1>4, <2>1, <2>6
  <2>8. \A j, k \in 1..Len(rest) : rest[j] = rest[k] => j = k
    BY <1>4, <2>1, <2>6
  <2> HIDE DEF q0, p
  <2> QED
    BY <1>5, <1>7, <2>1, <2>4, <2>5, <2>7, <2>8 DEF p, q0
<1> QED
  BY <1>6, <1>7

\* The section of enqueue: the run starts at once, or joins the tail.
LEMMA EnqueueSection ==
  ASSUME IInv, NEW r \in Runs, Enqueue(r)
  PROVE  LET p == ProjectOf[r]
         IN \E u \in Seq(Update) :
              \/ /\ active[p] = NoRun /\ waiting[p] = <<>>
                 /\ LeaveSection(Loop, p, r, <<>>, u, r)
                 /\ OnlyNext(u, r)
              \/ /\ active[p] # NoRun
                 /\ LeaveSection(Loop, p, active[p], Append(waiting[p], r), u, NoRun)
                 /\ OnlyNext(u, NoRun)
<1> DEFINE p == ProjectOf[r]
           q == Append(waiting[p], r)
           n == Len(Line(active[p], q))
           first == <<[run |-> r, status |-> "queue_waiting", place |-> <<n, n>>]>>
           one == <<[run |-> r, status |-> "queued", place |-> <<1, 1>>]>>
<1>1. p \in Projects /\ active[p] \in Runs \cup {NoRun} /\ waiting[p] \in Seq(Runs)
  BY ProjectOfType DEF IInv, TypeOK
<1>2. q \in Seq(Runs)
  BY <1>1, AppendProperties
<1>3. n \in Nat
  BY <1>1, <1>2, LineType
<1> HIDE DEF n
<1>4. first \in Seq(Update)
  <2>1. [run |-> r, status |-> "queue_waiting", place |-> <<n, n>>] \in Update
    BY <1>3 DEF Update, TaskStatus
  <2> QED
    BY <2>1
<1>5. one \in Seq(Update)
  <2>1. [run |-> r, status |-> "queued", place |-> <<1, 1>>] \in Update
    BY DEF Update, TaskStatus
  <2> QED
    BY <2>1
<1>6. OnlyNext(one, r) /\ OnlyNext(first, NoRun) /\ Len(first) = 1
  BY DEF OnlyNext, Unfinished
<1> HIDE DEF first, one
<1>7. CASE StartsAtOnce(p)
  <2>1. LeaveSection(Loop, p, r, <<>>, one, r)
    BY <1>7 DEF Enqueue, one
  <2> QED
    BY <1>5, <1>6, <1>7, <2>1 DEF StartsAtOnce
<1>8. CASE ~StartsAtOnce(p)
  <2> DEFINE more == Renumbered(active[p], q)
             u == first \o more
  <2>1. active[p] # NoRun
    BY <1>1, <1>8 DEF StartsAtOnce, IInv, NoStrandedWaiters
  <2>2. LeaveSection(Loop, p, active[p], q, u, NoRun)
    BY <1>8 DEF Enqueue, first, n
  <2>3. more \in Seq(Update) /\ OnlyNext(more, NoRun)
    BY <1>1, <1>2, RenumberedType, RenumberedNext
  <2> HIDE DEF more
  <2>4. /\ u \in Seq(Update)
        /\ Len(u) = 1 + Len(more) /\ Len(more) \in Nat
        /\ \A i \in 1..1 + Len(more) :
             u[i] = IF i <= 1 THEN first[i] ELSE more[i - 1]
    <3>1. /\ u \in Seq(Update) /\ Len(u) = Len(first) + Len(more)
          /\ \A i \in 1..Len(first) + Len(more) :
               u[i] = IF i <= Len(first) THEN first[i] ELSE more[i - Len(first)]
      BY <1>4, <2>3, ConcatProperties
    <3>2. Len(more) \in Nat
      BY <2>3, LenProperties
    <3> HIDE DEF u
    <3> QED
      BY <1>6, <3>1, <3>2
  <2> HIDE DEF u
  <2>5. OnlyNext(u, NoRun)
    <3>1. SUFFICES ASSUME NEW k \in 1..Len(u), u[k].status \in Unfinished
                   PROVE  NoRun = u[k].run
      BY DEF OnlyNext
    <3>2. CASE k = 1
      BY <1>6, <2>4, <3>1, <3>2 DEF OnlyNext
    <3>3. CASE k # 1
      <4>1. k - 1 \in 1..Len(more) /\ u[k] = more[k - 1]
        BY <2>4, <3>3
      <4> QED
        BY <2>3, <3>1, <4>1 DEF OnlyNext
    <3> QED
      BY <3>2, <3>3
  <2> QED
    BY <2>1, <2>2, <2>4, <2>5
<1> QED
  BY <1>7, <1>8

\* The section of cancel_waiting: the run leaves the deque, nothing starts.
LEMMA RemoveSection ==
  ASSUME IInv, RemoveWaiting
  PROVE  LET p == ProjectOf[target]
         IN /\ p \in Projects
            /\ active[p] # NoRun
            /\ \E u \in Seq(Update) :
                 /\ LeaveSection(Loop, p, active[p],
                                 RemoveFirst(waiting[p], target), u, NoRun)
                 /\ OnlyNext(u, NoRun)
<1> DEFINE r == target
           p == ProjectOf[r]
           q == RemoveFirst(waiting[p], r)
           mark == [run |-> r, status |-> "cancelled", place |-> NoPlace]
<1>1. r \in Runs /\ p \in Projects
  BY ProjectOfType DEF RemoveWaiting, IInv, LocalsSet, TypeOK
<1>2. active[p] \in Runs \cup {NoRun} /\ waiting[p] \in Seq(Runs) /\ Contains(waiting[p], r)
  BY <1>1 DEF RemoveWaiting, IInv, TypeOK
<1>3. waiting[p] # <<>>
  BY <1>2 DEF Contains
<1>4. active[p] # NoRun
  BY <1>1, <1>3 DEF IInv, NoStrandedWaiters
<1>5. q \in Seq(Runs)
  BY <1>2, RemoveFirstProperties
<1>6. mark \in Update
  BY <1>1 DEF Update, TaskStatus, NoPlace
<1> DEFINE more == Renumbered(active[p], q)
           u == Append(more, mark)
<1>7. more \in Seq(Update) /\ OnlyNext(more, NoRun)
  BY <1>2, <1>5, RenumberedType, RenumberedNext
<1>8. LeaveSection(Loop, p, active[p], q, u, NoRun)
  BY DEF RemoveWaiting
<1>9. mark.status \notin Unfinished
  BY DEF Unfinished
<1> HIDE DEF more, mark
<1>10. /\ u \in Seq(Update)
       /\ Len(u) = Len(more) + 1 /\ Len(more) \in Nat
       /\ \A i \in 1..Len(more) : u[i] = more[i]
       /\ u[Len(more) + 1] = mark
  BY <1>6, <1>7, AppendProperties, LenProperties
<1> HIDE DEF u
<1>11. OnlyNext(u, NoRun)
  <2>1. SUFFICES ASSUME NEW k \in 1..Len(u), u[k].status \in Unfinished
                 PROVE  NoRun = u[k].run
    BY DEF OnlyNext
  <2>2. k # Len(more) + 1
    BY <1>9, <1>10, <2>1
  <2>3. k \in 1..Len(more)
    BY <1>10, <2>2
  <2> QED
    BY <1>7, <1>10, <2>1, <2>3 DEF OnlyNext
<1> QED
  BY <1>1, <1>4, <1>8, <1>10, <1>11

\* Applying an update keeps the types, in either kind of thread.
LEMMA ApplyUpdateType ==
  ASSUME TypeOK, NEW t \in Threads, ApplyUpdate(t)
  PROVE  TypeOK'
<1>1. Head(todo[t]) \in Update /\ Tail(todo[t]) \in Seq(Update)
  BY HeadTailProperties DEF TypeOK, ApplyUpdate
<1>2. status' \in [Runs -> TaskStatus \cup {"none"}]
  BY <1>1 DEF TypeOK, ApplyUpdate, Update
<1>3. place' \in [Runs -> Nat \X Nat]
  BY <1>1 DEF TypeOK, ApplyUpdate, Update
<1>4. todo' \in [Threads -> Seq(Update)]
  BY <1>1 DEF TypeOK, ApplyUpdate
<1> QED
  BY <1>2, <1>3, <1>4 DEF TypeOK, ApplyUpdate, queueVars

\* So does submitting a run.
LEMMA SubmitType ==
  ASSUME TypeOK, NEW t \in Threads, Submit(t)
  PROVE  TypeOK'
<1>1. sched[t] \in Runs
  BY DEF TypeOK, Submit
<1>2. pool' \in Seq(Runs)
  BY <1>1, AppendProperties DEF TypeOK, Submit
<1>3. sched' \in [Threads -> Runs \cup {NoRun}]
  BY DEF TypeOK, Submit
<1> QED
  BY <1>2, <1>3 DEF TypeOK, Submit, queueVars

-----------------------------------------------------------------------------
(* Every step preserves the types.                                         *)

LEMMA LoopStepType ==
  ASSUME IInv, LoopStep
  PROVE  TypeOK'
<1> USE LoopIsNoWorker DEF IInv
<1>1. ASSUME NEW r \in Runs, Enqueue(r)
      PROVE  TypeOK'
  <2>1. status' \in [Runs -> TaskStatus \cup {"none"}]
    BY <1>1 DEF Enqueue, TypeOK, TaskStatus
  <2>2. Loop \in Threads /\ ProjectOf[r] \in Projects /\ <<>> \in Seq(Runs)
    BY ProjectOfType DEF Threads
  <2>3. active[ProjectOf[r]] \in Runs \cup {NoRun}
    BY <2>2 DEF TypeOK
  <2>4. Append(waiting[ProjectOf[r]], r) \in Seq(Runs)
    BY <2>2, AppendProperties DEF TypeOK
  <2>5. PICK u \in Seq(Update) :
          \/ LeaveSection(Loop, ProjectOf[r], r, <<>>, u, r)
          \/ LeaveSection(Loop, ProjectOf[r], active[ProjectOf[r]],
                          Append(waiting[ProjectOf[r]], r), u, NoRun)
    BY <1>1, EnqueueSection
  <2>6. /\ active' \in [Projects -> Runs \cup {NoRun}]
        /\ waiting' \in [Projects -> Seq(Runs)]
        /\ todo' \in [Threads -> Seq(Update)]
        /\ sched' \in [Threads -> Runs \cup {NoRun}]
        /\ racy' \in [Projects -> BOOLEAN]
        /\ pc' \in [Threads -> LoopPC \cup WorkerPC]
        /\ pc'[Loop] \in LoopPC
        /\ \A w \in Workers : pc'[w] \in WorkerPC
    BY <2>2, <2>3, <2>4, <2>5, SectionType
  <2> QED
    BY <1>1, <2>1, <2>6 DEF Enqueue, TypeOK
<1>2. ASSUME NEW r \in Runs, CancelQueued(r)
      PROVE  TypeOK'
  BY <1>2 DEF CancelQueued, TypeOK, queueVars, Threads, LoopPC
<1>3. ASSUME NEW r \in Runs, CancelActive(r)
      PROVE  TypeOK'
  BY <1>3 DEF CancelActive, TypeOK, queueVars, Threads, LoopPC
<1>4. CASE RemoveWaiting
  <2>1. Loop \in Threads
    BY DEF Threads
  <2>2. /\ ProjectOf[target] \in Projects
        /\ active[ProjectOf[target]] \in Runs \cup {NoRun}
        /\ RemoveFirst(waiting[ProjectOf[target]], target) \in Seq(Runs)
    BY <1>4, RemoveSection, RemoveFirstProperties DEF TypeOK
  <2>3. PICK u \in Seq(Update) :
          LeaveSection(Loop, ProjectOf[target], active[ProjectOf[target]],
            RemoveFirst(waiting[ProjectOf[target]], target), u, NoRun)
    BY <1>4, RemoveSection
  <2>4. /\ active' \in [Projects -> Runs \cup {NoRun}]
        /\ waiting' \in [Projects -> Seq(Runs)]
        /\ todo' \in [Threads -> Seq(Update)]
        /\ sched' \in [Threads -> Runs \cup {NoRun}]
        /\ racy' \in [Projects -> BOOLEAN]
        /\ pc' \in [Threads -> LoopPC \cup WorkerPC]
        /\ pc'[Loop] \in LoopPC
        /\ \A w \in Workers : pc'[w] \in WorkerPC
    BY <2>1, <2>2, <2>3, SectionType
  <2> QED
    BY <1>4, <2>4 DEF RemoveWaiting, TypeOK
<1>5. CASE RefuseCancel
  BY <1>5 DEF RefuseCancel, TypeOK, queueVars, Threads, LoopPC
<1>6. CASE MarkCancelled
  BY <1>6 DEF MarkCancelled, TypeOK, queueVars, Threads, LoopPC, TaskStatus
<1>7. CASE ApplyUpdate(Loop)
  BY <1>7, ApplyUpdateType DEF Threads
<1>8. CASE Submit(Loop)
  BY <1>8, SubmitType DEF Threads
<1>9. CASE Return(Loop)
  BY <1>9 DEF Return, TypeOK, queueVars, Threads, LoopPC
<1> QED
  BY <1>1, <1>2, <1>3, <1>4, <1>5, <1>6, <1>7, <1>8, <1>9 DEF LoopStep

LEMMA WorkerStepType ==
  ASSUME IInv, NEW w \in Workers, WorkerStep(w)
  PROVE  TypeOK'
<1> USE LoopIsNoWorker DEF IInv
<1>0. w \in Threads /\ ProjectOf \in [Runs -> Projects]
  BY ProjectOfType DEF Threads
<1>1. CASE TakeJob(w)
  <2>1. Head(pool) \in Runs /\ Tail(pool) \in Seq(Runs)
    BY <1>1, HeadTailProperties DEF TakeJob, TypeOK
  <2>2. 1 \in 1..MaxAttempts /\ "acquire" \in WorkerPC
    BY MaxAttemptsType DEF WorkerPC
  <2> QED
    BY <1>1, <2>1, <2>2, GotoType DEF TakeJob, TypeOK, queueVars
<1>2. CASE AcquireLock(w)
  <2>1. "busy" \in WorkerPC /\ "attempt" \in WorkerPC
    BY DEF WorkerPC, Holding
  <2> QED
    BY <1>2, <2>1, GotoType DEF AcquireLock, TypeOK, queueVars
<1>3. CASE StopCancelled(w)
  <2>1. "release" \in WorkerPC
    BY DEF WorkerPC, Holding
  <2> QED
    BY <1>3, <2>1, GotoType DEF StopCancelled, TypeOK, queueVars, TaskStatus
<1>4. CASE StartAttempt(w)
  <2>1. "execute" \in WorkerPC
    BY DEF WorkerPC, Holding
  <2> QED
    BY <1>4, <2>1, GotoType DEF StartAttempt, TypeOK, queueVars
<1>5. CASE MarkRunning(w)
  <2>1. "executing" \in WorkerPC
    BY DEF WorkerPC, Holding
  <2> QED
    BY <1>5, <2>1, GotoType DEF MarkRunning, TypeOK, queueVars, TaskStatus
<1>6. ASSUME NEW ok \in BOOLEAN, AgentExits(w, ok)
      PROVE  TypeOK'
  <2>1. "succeeding" \in WorkerPC /\ "failing" \in WorkerPC
    BY DEF WorkerPC, Holding
  <2> QED
    BY <1>6, <2>1, GotoType DEF AgentExits, TypeOK, queueVars
<1>7. ASSUME NEW ok \in BOOLEAN, FinishAttempt(w, ok)
      PROVE  TypeOK'
  <2>1. "succeeded" \in WorkerPC /\ "failed" \in WorkerPC
    BY DEF WorkerPC, Holding
  <2> QED
    BY <1>7, <2>1, GotoType DEF FinishAttempt, TypeOK, queueVars, TaskStatus
<1>8. CASE RetryAttempt(w)
  <2>1. "attempt" \in WorkerPC
    BY DEF WorkerPC, Holding
  <2>2. attempt' \in [Workers -> 1..MaxAttempts]
    BY <1>8, MaxAttemptsType DEF RetryAttempt, TypeOK
  <2> QED
    BY <1>8, <2>1, <2>2, GotoType DEF RetryAttempt, TypeOK, queueVars, TaskStatus
<1>9. CASE RunReturns(w)
  <2>1. "release" \in WorkerPC
    BY DEF WorkerPC, Holding
  <2> QED
    BY <1>9, <2>1, GotoType DEF RunReturns, TypeOK, queueVars
<1>10. CASE RunRaises(w)
  <2>1. "release" \in WorkerPC
    BY DEF WorkerPC, Holding
  <2> QED
    BY <1>10, <2>1, GotoType DEF RunRaises, TypeOK, queueVars, TaskStatus
<1>11. CASE ReleaseLock(w)
  <2>1. "released" \in WorkerPC
    BY DEF WorkerPC, Holding
  <2> QED
    BY <1>11, <2>1, GotoType DEF ReleaseLock, TypeOK, queueVars
<1>12. CASE EnsureNotStuck(w)
  <2>1. "finish" \in WorkerPC
    BY DEF WorkerPC, Holding
  <2> QED
    BY <1>12, <2>1, GotoType DEF EnsureNotStuck, TypeOK, queueVars, TaskStatus
<1>13. CASE OnTaskFinished(w)
  <2>1. job[w] \in Runs
    BY <1>13 DEF OnTaskFinished, LocalsSet, TypeOK
  <2>2. PICK a \in Runs \cup {NoRun}, q \in Seq(Runs), u \in Seq(Update) :
          LeaveSection(w, ProjectOf[job[w]], a, q, u, a)
    BY <1>13, FinishedSection
  <2>3. /\ active' \in [Projects -> Runs \cup {NoRun}]
        /\ waiting' \in [Projects -> Seq(Runs)]
        /\ todo' \in [Threads -> Seq(Update)]
        /\ sched' \in [Threads -> Runs \cup {NoRun}]
        /\ racy' \in [Projects -> BOOLEAN]
        /\ pc' \in [Threads -> LoopPC \cup WorkerPC]
        /\ pc'[Loop] \in LoopPC
        /\ \A v \in Workers : pc'[v] \in WorkerPC
    BY <1>0, <2>1, <2>2, SectionType
  <2> QED
    BY <1>13, <2>3 DEF OnTaskFinished, TypeOK
<1>14. CASE ApplyUpdate(w)
  BY <1>0, <1>14, ApplyUpdateType
<1>15. CASE Submit(w)
  BY <1>0, <1>15, SubmitType
<1>16. CASE Return(w)
  <2>1. "idle" \in WorkerPC
    BY DEF WorkerPC
  <2>2. Goto(w, "idle")
    BY <1>16 DEF Return, Goto
  <2> QED
    BY <1>16, <2>1, <2>2, GotoType DEF Return, TypeOK, queueVars
<1>17. CASE ExecuteOnce(w)
  <2>1. "release" \in WorkerPC /\ "start" \in WorkerPC
    BY DEF WorkerPC, Holding
  <2> QED
    BY <1>17, <2>1, GotoType DEF ExecuteOnce, TypeOK, queueVars, TaskStatus
<1>18. CASE JobAborts(w)
  <2>1. "idle" \in WorkerPC
    BY DEF WorkerPC
  <2> QED
    BY <1>18, <2>1, GotoType DEF JobAborts, TypeOK, queueVars, TaskStatus
<1> QED
  BY <1>1, <1>2, <1>3, <1>4, <1>5, <1>6, <1>7, <1>8, <1>9, <1>10, <1>11,
     <1>12, <1>13, <1>14, <1>15, <1>16, <1>17, <1>18 DEF WorkerStep

-----------------------------------------------------------------------------
(* The steps that move runs preserve the rest of the invariant.            *)

\* The invariant about who holds which run.
Rest ==
  /\ LocalsSet /\ HoldersActive /\ HeldOnce /\ ActiveRuns
  /\ LocksHeld /\ WaitingRuns /\ NoStrandedWaiters

\* The parts of the types the proofs below need.
LEMMA Types ==
  ASSUME IInv
  PROVE  /\ \A p \in Projects : active[p] \in Runs \cup {NoRun}
         /\ \A p \in Projects :
              /\ waiting[p] \in Seq(Runs) /\ Len(waiting[p]) \in Nat
              /\ \A i \in 1..Len(waiting[p]) : waiting[p][i] \in Runs
         /\ pool \in Seq(Runs) /\ Len(pool) \in Nat /\ DOMAIN pool = 1..Len(pool)
         /\ \A i \in 1..Len(pool) : pool[i] \in Runs
         /\ \A w \in Workers : job[w] \in Runs \cup {NoRun}
         /\ \A t \in Threads : sched[t] \in Runs \cup {NoRun}
         /\ Loop \in Threads /\ Loop \notin Workers /\ Workers \subseteq Threads
         /\ NoRun \notin Runs /\ \A r \in Runs : ProjectOf[r] \in Projects
BY LenProperties, LoopIsNoWorker, NoRunIsNoRun, ProjectOfType
   DEF IInv, TypeOK, Threads

\* A run no record existed for is new to the queue, executor and threads.
LEMMA NewRunNowhere ==
  ASSUME IInv, NEW r \in Runs, status[r] = "none"
  PROVE  /\ \A p \in Projects : active[p] # r
         /\ \A t \in Threads : sched[t] # r
         /\ \A i \in 1..Len(pool) : pool[i] # r
         /\ \A w \in Workers : job[w] # r
         /\ \A p \in Projects : \A i \in 1..Len(waiting[p]) : waiting[p][i] # r
<1> USE Types
<1>1. \A p \in Projects : active[p] # r
  BY DEF IInv, ActiveRuns
<1>2. active[ProjectOf[r]] # r /\ r # NoRun
  BY <1>1
<1>3. /\ \A t \in Threads : sched[t] # r
      /\ \A i \in 1..Len(pool) : pool[i] # r
      /\ \A w \in Workers : job[w] # r
  BY <1>2 DEF IInv, HoldersActive
<1>4. \A p \in Projects : \A i \in 1..Len(waiting[p]) : waiting[p][i] # r
  BY DEF IInv, WaitingRuns, WaitingOf
<1> QED
  BY <1>1, <1>3, <1>4

\* The waiting runs of a project that a step leaves alone.
LEMMA WaitingKept ==
  ASSUME IInv, NEW o \in Projects, waiting'[o] = waiting[o], active'[o] = active[o],
         \A r \in Runs : status[r] # "none" => status'[r] # "none"
  PROVE  WaitingOf(o)'
<1>1. WaitingOf(o)
  BY DEF IInv, WaitingRuns
<1>2. \A i \in 1..Len(waiting[o]) : waiting[o][i] \in Runs
  BY Types
<1> QED
  BY <1>1, <1>2 DEF WaitingOf

\* enqueue: the new run is active and scheduled, or last in the line.
LEMMA EnqueueRest ==
  ASSUME IInv, NEW r \in Runs, Enqueue(r)
  PROVE  Rest'
<1> DEFINE p == ProjectOf[r]
           q == Append(waiting[p], r)
<1>1. pc[Loop] = "idle" /\ status[r] = "none" /\ p \in Projects
  BY Types DEF Enqueue
<1>2. status' = [status EXCEPT ![r] = "queued"]
  BY DEF Enqueue
<1>3. /\ \A s \in Runs : status[s] # "none" => status'[s] # "none"
      /\ status'[r] # "none"
  BY <1>2 DEF IInv, TypeOK
<1>4. UNCHANGED <<cancelReq, locked, pool, job, target>>
  BY DEF Enqueue
<1>5. sched[Loop] = NoRun
  BY <1>1, Types DEF IInv, LocalsSet
<1>6. LocksHeld' /\ pc' = [pc EXCEPT ![Loop] = "updating"]
  <2>1. pc' = [pc EXCEPT ![Loop] = "updating"]
    BY EnqueueSection DEF LeaveSection
  <2>2. \A w \in Workers : pc'[w] = pc[w]
    BY <2>1, Types DEF IInv, TypeOK
  <2> QED
    BY <1>4, <2>1, <2>2, LockFrame DEF IInv
<1>7. CASE active[p] = NoRun
  <2>1. PICK u \in Seq(Update) : LeaveSection(Loop, p, r, <<>>, u, r) /\ waiting[p] = <<>>
    BY <1>7, EnqueueSection
  <2>2. /\ active' = [active EXCEPT ![p] = r]
        /\ waiting' = [waiting EXCEPT ![p] = <<>>]
        /\ sched' = [sched EXCEPT ![Loop] = r]
    BY <2>1 DEF LeaveSection
  <2>3. waiting' = waiting
    BY <1>1, <2>1, <2>2 DEF IInv, TypeOK
  <2>4. /\ active'[p] = r /\ \A o \in Projects \ {p} : active'[o] = active[o]
        /\ sched'[Loop] = r /\ \A t \in Threads \ {Loop} : sched'[t] = sched[t]
    BY <1>1, <2>2, Types DEF IInv, TypeOK
  <2>5. LocalsSet'
    BY <1>4, <1>6, <2>4, Types DEF IInv, LocalsSet, TypeOK
  <2>6. HoldersActive'
    <3>1. \A o \in Projects : active[o] # NoRun => active'[o] = active[o]
      BY <1>7, <2>4
    <3>2. \A t \in Threads : sched'[t] # NoRun => active'[ProjectOf[sched'[t]]] = sched'[t]
      BY <2>4, <3>1, Types DEF IInv, HoldersActive
    <3>3. \A i \in 1..Len(pool') : active'[ProjectOf[pool'[i]]] = pool'[i]
      BY <1>4, <3>1, Types DEF IInv, HoldersActive
    <3>4. \A w \in Workers : job'[w] # NoRun => active'[ProjectOf[job'[w]]] = job'[w]
      BY <1>4, <3>1, Types DEF IInv, HoldersActive
    <3> QED
      BY <3>2, <3>3, <3>4 DEF HoldersActive
  <2>7. HeldOnce'
    BY <1>1, <1>4, <2>4, Types, NewRunNowhere DEF IInv, HeldOnce
  <2>8. ActiveRuns'
    <3>1. \A s : InFlight(s) /\ s # NoRun => InFlight(s)'
      BY <1>4, <1>5, <2>4, Types DEF InFlight
    <3>2. InFlight(r)'
      BY <2>4, Types DEF InFlight
    <3> QED
      BY <1>3, <1>4, <2>4, <3>1, <3>2, Types DEF IInv, ActiveRuns
  <2>9. WaitingRuns'
    <3>1. ASSUME NEW o \in Projects \ {p}
          PROVE  WaitingOf(o)'
      BY <1>3, <2>3, <2>4, WaitingKept
    <3>2. WaitingOf(p)'
      BY <2>1, <2>3 DEF WaitingOf
    <3> QED
      BY <3>1, <3>2 DEF WaitingRuns
  <2>10. NoStrandedWaiters'
    BY <1>1, <2>3, <2>4, Types DEF IInv, NoStrandedWaiters
  <2> QED
    BY <1>6, <2>5, <2>6, <2>7, <2>8, <2>9, <2>10 DEF Rest
<1>8. CASE active[p] # NoRun
  <2>1. PICK u \in Seq(Update) : LeaveSection(Loop, p, active[p], q, u, NoRun)
    BY <1>8, EnqueueSection
  <2>2. active' = active /\ waiting' = [waiting EXCEPT ![p] = q] /\ sched' = sched
    BY <1>5, <2>1, Types DEF LeaveSection, IInv, TypeOK
  <2>3. /\ Len(q) = Len(waiting[p]) + 1 /\ q[Len(waiting[p]) + 1] = r
        /\ \A i \in 1..Len(waiting[p]) : q[i] = waiting[p][i]
    BY <1>1, AppendProperties, Types
  <2>4. waiting'[p] = q /\ \A o \in Projects \ {p} : waiting'[o] = waiting[o]
    BY <1>1, <2>2 DEF IInv, TypeOK
  <2> HIDE DEF q
  <2>5. LocalsSet'
    BY <1>4, <1>6, <2>2, Types DEF IInv, LocalsSet, TypeOK
  <2>6. HoldersActive' /\ HeldOnce'
    BY <1>4, <2>2 DEF IInv, HoldersActive, HeldOnce
  <2>7. ActiveRuns'
    <3>1. \A s : InFlight(s) <=> InFlight(s)'
      BY <1>4, <2>2 DEF InFlight
    <3> QED
      BY <1>3, <1>4, <2>2, <3>1, Types DEF IInv, ActiveRuns
  <2>8. WaitingRuns'
    <3>1. ASSUME NEW o \in Projects \ {p}
          PROVE  WaitingOf(o)'
      BY <1>3, <2>2, <2>4, WaitingKept
    <3>2. \A i \in 1..Len(q) : i \in 1..Len(waiting[p]) \/ i = Len(waiting[p]) + 1
      BY <1>1, <2>3, Types
    <3>3. \A i \in 1..Len(waiting[p]) :
            /\ ProjectOf[q[i]] = p /\ status'[q[i]] # "none"
            /\ q[i] # active[p] /\ q[i] # r
      <4> TAKE i \in 1..Len(waiting[p])
      <4>1. q[i] = waiting[p][i] /\ waiting[p][i] \in Runs
        BY <1>1, <2>3, Types
      <4>2. /\ ProjectOf[waiting[p][i]] = p /\ status[waiting[p][i]] # "none"
            /\ waiting[p][i] # active[p]
        BY <1>1 DEF IInv, WaitingRuns, WaitingOf
      <4>3. waiting[p][i] # r
        BY <1>1, NewRunNowhere
      <4>4. status'[q[i]] # "none"
        BY <1>3, <4>1, <4>2
      <4> QED
        BY <4>1, <4>2, <4>3, <4>4
    <3>4. \A i, j \in 1..Len(waiting[p]) : q[i] = q[j] => i = j
      BY <1>1, <2>3 DEF IInv, WaitingRuns, WaitingOf
    <3>5. r # active[p]
      BY <1>1, NewRunNowhere
    <3>6. \A i \in 1..Len(q) :
            ProjectOf[q[i]] = p /\ status'[q[i]] # "none" /\ q[i] # active[p]
      BY <1>3, <2>3, <3>2, <3>3, <3>5
    <3>7. \A i, j \in 1..Len(q) : q[i] = q[j] => i = j
      BY <2>3, <3>2, <3>3, <3>4
    <3> QED
      BY <2>2, <2>4, <3>1, <3>6, <3>7 DEF WaitingRuns, WaitingOf
  <2>9. NoStrandedWaiters'
    BY <1>1, <1>8, <2>2, <2>4 DEF IInv, NoStrandedWaiters
  <2> QED
    BY <1>6, <2>5, <2>6, <2>7, <2>8, <2>9 DEF Rest
<1> QED
  BY <1>7, <1>8

\* cancel_waiting: the run leaves the line, nothing else moves.
LEMMA RemoveRest ==
  ASSUME IInv, RemoveWaiting
  PROVE  Rest'
<1> DEFINE p == ProjectOf[target]
           q == RemoveFirst(waiting[p], target)
<1>1. p \in Projects /\ active[p] # NoRun /\ pc[Loop] = "cancelWaiting"
  BY RemoveSection DEF RemoveWaiting
<1>2. PICK u \in Seq(Update) : LeaveSection(Loop, p, active[p], q, u, NoRun)
  BY RemoveSection
<1>3. UNCHANGED <<status, cancelReq, locked, pool, job>>
  BY DEF RemoveWaiting
<1>4. sched[Loop] = NoRun
  BY <1>1, Types DEF IInv, LocalsSet
<1>5. active' = active /\ sched' = sched
  BY <1>2, <1>4, Types DEF LeaveSection, IInv, TypeOK
<1>6. pc' = [pc EXCEPT ![Loop] = "updating"]
  BY <1>2 DEF LeaveSection
<1>7. waiting'[p] = q /\ \A o \in Projects \ {p} : waiting'[o] = waiting[o]
  BY <1>1, <1>2 DEF LeaveSection, IInv, TypeOK
<1>8. /\ \A i \in 1..Len(q) : \E j \in 1..Len(waiting[p]) : q[i] = waiting[p][j]
      /\ \A i, j \in 1..Len(q) : q[i] = q[j] => i = j
  <2>1. waiting[p] \in Seq(Runs)
    BY <1>1, Types
  <2>2. \A i, j \in 1..Len(waiting[p]) : waiting[p][i] = waiting[p][j] => i = j
    BY <1>1 DEF IInv, WaitingRuns, WaitingOf
  <2> HIDE DEF p
  <2> DEFINE s == waiting[p]
  <2>3. \A i \in 1..Len(q) : \E j \in 1..Len(s) : q[i] = s[j]
    BY <2>1, RemoveFirstProperties
  <2>4. (\A i, j \in 1..Len(s) : s[i] = s[j] => i = j)
          => \A i, j \in 1..Len(q) : q[i] = q[j] => i = j
    BY <2>1, RemoveFirstProperties
  <2> QED
    BY <2>2, <2>3, <2>4
<1> HIDE DEF q
<1>9. LocalsSet' /\ LocksHeld'
  <2>1. \A w \in Workers : pc'[w] = pc[w]
    BY <1>6, Types DEF IInv, TypeOK
  <2>2. LocksHeld'
    BY <1>3, <2>1, LockFrame DEF IInv
  <2>3. LocalsSet'
    BY <1>3, <1>5, <1>6, Types DEF IInv, LocalsSet, TypeOK
  <2> QED
    BY <2>2, <2>3
<1>10. HoldersActive' /\ HeldOnce'
  BY <1>3, <1>5 DEF IInv, HoldersActive, HeldOnce
<1>11. ActiveRuns'
  <2>1. \A s : InFlight(s) <=> InFlight(s)'
    BY <1>3, <1>5 DEF InFlight
  <2> QED
    BY <1>3, <1>5, <2>1 DEF IInv, ActiveRuns
<1>12. WaitingRuns'
  <2>1. ASSUME NEW o \in Projects \ {p}
        PROVE  WaitingOf(o)'
    BY <1>3, <1>5, <1>7, WaitingKept
  <2>2. \A i \in 1..Len(q) :
          ProjectOf[q[i]] = p /\ status[q[i]] # "none" /\ q[i] # active[p]
    <3> TAKE i \in 1..Len(q)
    <3>1. PICK j \in 1..Len(waiting[p]) : q[i] = waiting[p][j]
      BY <1>8
    <3> QED
      BY <1>1, <3>1 DEF IInv, WaitingRuns, WaitingOf
  <2>3. ASSUME NEW o \in Projects, o = p
        PROVE  WaitingOf(o)'
    BY <1>3, <1>5, <1>7, <1>8, <2>2, <2>3 DEF WaitingOf
  <2> QED
    BY <2>1, <2>3 DEF WaitingRuns
<1>13. NoStrandedWaiters'
  BY <1>1, <1>5, <1>7 DEF IInv, NoStrandedWaiters
<1> QED
  BY <1>9, <1>10, <1>11, <1>12, <1>13 DEF Rest

\* _schedule_run: the run moves from the thread to the executor.
LEMMA SubmitRest ==
  ASSUME IInv, NEW t \in Threads, Submit(t)
  PROVE  Rest'
<1> DEFINE r == sched[t]
<1>1. r \in Runs /\ r # NoRun /\ pc[t] = "updating"
  BY Types DEF Submit
<1>2. UNCHANGED <<status, cancelReq, locked, pc, job, target, active, waiting>>
  BY DEF Submit, queueVars
<1>3. /\ Len(pool') = Len(pool) + 1 /\ pool'[Len(pool) + 1] = r
      /\ \A i \in 1..Len(pool) : pool'[i] = pool[i]
  BY <1>1, AppendProperties, Types DEF Submit
<1>4. sched'[t] = NoRun /\ \A u \in Threads \ {t} : sched'[u] = sched[u]
  BY DEF Submit, IInv, TypeOK
<1>5. /\ \A i \in 1..Len(pool') : i \in 1..Len(pool) \/ i = Len(pool) + 1
      /\ Len(pool) + 1 \in 1..Len(pool')
      /\ \A i \in 1..Len(pool) : i \in 1..Len(pool')
  BY <1>3, Types
<1>6. LocalsSet'
  BY <1>2, <1>4 DEF IInv, LocalsSet
<1>7. HoldersActive'
  BY <1>1, <1>2, <1>3, <1>4, <1>5 DEF IInv, HoldersActive
<1>8. HeldOnce'
  <2>1. /\ \A u \in Threads \ {t} : sched[u] # r
        /\ \A i \in 1..Len(pool) : pool[i] # r
        /\ \A w \in Workers : job[w] # r
    BY <1>1 DEF IInv, HeldOnce
  <2>2. \A u, v \in Threads : sched'[u] = sched'[v] /\ sched'[u] # NoRun => u = v
    BY <1>4 DEF IInv, HeldOnce
  <2>3. \A i, j \in 1..Len(pool') : pool'[i] = pool'[j] => i = j
    BY <1>3, <1>5, <2>1 DEF IInv, HeldOnce
  <2>4. \A u \in Threads, i \in 1..Len(pool') : sched'[u] # pool'[i]
    BY <1>1, <1>3, <1>4, <1>5, <2>1, Types DEF IInv, HeldOnce
  <2>5. \A u \in Threads, w \in Workers : sched'[u] = job'[w] => job'[w] = NoRun
    BY <1>2, <1>4 DEF IInv, HeldOnce
  <2>6. \A w \in Workers, i \in 1..Len(pool') : job'[w] # pool'[i]
    BY <1>2, <1>3, <1>5, <2>1 DEF IInv, HeldOnce
  <2>7. \A v, w \in Workers : job'[v] = job'[w] /\ job'[v] # NoRun => v = w
    BY <1>2 DEF IInv, HeldOnce
  <2> QED
    BY <2>2, <2>3, <2>4, <2>5, <2>6, <2>7 DEF HeldOnce
<1>9. ActiveRuns'
  <2>1. DOMAIN pool' = 1..Len(pool')
    BY <1>1, AppendProperties, LenProperties, Types DEF Submit
  <2>2. \A s : InFlight(s) => InFlight(s)'
    BY <1>2, <1>3, <1>4, <1>5, <2>1, Types DEF InFlight
  <2> QED
    BY <1>2, <2>2 DEF IInv, ActiveRuns
<1>10. LocksHeld' /\ WaitingRuns' /\ NoStrandedWaiters'
  BY <1>2 DEF IInv, LocksHeld, WaitingRuns, WaitingOf, NoStrandedWaiters
<1> QED
  BY <1>6, <1>7, <1>8, <1>9, <1>10 DEF Rest

\* The executor hands its oldest run to a worker.
LEMMA TakeJobRest ==
  ASSUME IInv, NEW w \in Workers, TakeJob(w)
  PROVE  Rest'
<1> DEFINE r == Head(pool)
<1>1. pc[w] = "idle" /\ pool # <<>> /\ job[w] = NoRun
  BY DEF TakeJob, IInv, LocalsSet
<1>2. UNCHANGED <<status, cancelReq, locked, sched, target, active, waiting>>
  BY DEF TakeJob, queueVars
<1>3. /\ Len(pool) >= 1 /\ r = pool[1] /\ r \in Runs /\ r # NoRun
      /\ Len(pool') = Len(pool) - 1
      /\ \A i \in 1..Len(pool') : pool'[i] = pool[i + 1]
  BY <1>1, HeadTailProperties, EmptySeq, Types DEF TakeJob
<1>4. /\ \A i \in 1..Len(pool') : i + 1 \in 1..Len(pool) /\ i + 1 # 1
      /\ 1 \in 1..Len(pool) /\ Len(pool') \in Nat
      /\ \A i \in 1..Len(pool) : i # 1 => i - 1 \in 1..Len(pool') /\ pool'[i - 1] = pool[i]
  BY <1>3, Types
<1>5. job'[w] = r /\ \A v \in Workers \ {w} : job'[v] = job[v]
  BY DEF TakeJob, IInv, TypeOK
<1>6. pc'[w] = "acquire" /\ \A t \in Threads \ {w} : pc'[t] = pc[t]
  BY Types DEF TakeJob, Goto, IInv, TypeOK
<1>7. LocalsSet'
  BY <1>1, <1>2, <1>3, <1>5, <1>6, Types DEF IInv, LocalsSet
<1>8. HoldersActive'
  <2>1. active[ProjectOf[r]] = r
    BY <1>3, <1>4 DEF IInv, HoldersActive
  <2>2. \A i \in 1..Len(pool') : active[ProjectOf[pool'[i]]] = pool'[i]
    BY <1>3, <1>4 DEF IInv, HoldersActive
  <2>3. \A v \in Workers : job'[v] # NoRun => active[ProjectOf[job'[v]]] = job'[v]
    BY <1>5, <2>1 DEF IInv, HoldersActive
  <2>4. active' = active /\ sched' = sched
    BY <1>2
  <2> QED
    BY <2>2, <2>3, <2>4 DEF IInv, HoldersActive
<1>9. HeldOnce'
  <2>1. /\ \A t \in Threads : sched[t] # r
        /\ \A i \in 1..Len(pool) : i # 1 => pool[i] # r
        /\ \A v \in Workers : job[v] # r
    BY <1>3, <1>4 DEF IInv, HeldOnce
  <2>2. \A t, u \in Threads : sched'[t] = sched'[u] /\ sched'[t] # NoRun => t = u
    BY <1>2 DEF IInv, HeldOnce
  <2>3. \A i, j \in 1..Len(pool') : pool'[i] = pool'[j] => i = j
    BY <1>3, <1>4 DEF IInv, HeldOnce
  <2>4. \A t \in Threads, i \in 1..Len(pool') : sched'[t] # pool'[i]
    BY <1>2, <1>3, <1>4 DEF IInv, HeldOnce
  <2>5. \A t \in Threads, v \in Workers : sched'[t] = job'[v] => job'[v] = NoRun
    BY <1>2, <1>5, <2>1 DEF IInv, HeldOnce
  <2>6. \A v \in Workers, i \in 1..Len(pool') : job'[v] # pool'[i]
    BY <1>3, <1>4, <1>5, <2>1 DEF IInv, HeldOnce
  <2>7. \A u, v \in Workers : job'[u] = job'[v] /\ job'[u] # NoRun => u = v
    BY <1>5, <2>1 DEF IInv, HeldOnce
  <2> QED
    BY <2>2, <2>3, <2>4, <2>5, <2>6, <2>7 DEF HeldOnce
<1>10. ActiveRuns'
  <2>1. DOMAIN pool' = 1..Len(pool')
    BY <1>1, HeadTailProperties, LenProperties, Types DEF TakeJob
  <2>2. ASSUME NEW s, s # NoRun, InFlight(s)
        PROVE  InFlight(s)'
    <3>1. CASE \E t \in Threads : sched[t] = s
      BY <1>2, <3>1 DEF InFlight
    <3>2. CASE \E i \in 1..Len(pool) : pool[i] = s
      <4>1. PICK i \in 1..Len(pool) : pool[i] = s
        BY <3>2
      <4>2. CASE i = 1
        BY <1>3, <1>5, <4>1, <4>2 DEF InFlight
      <4>3. CASE i # 1
        BY <1>4, <2>1, <4>1, <4>3 DEF InFlight
      <4> QED
        BY <4>2, <4>3
    <3>3. CASE \E v \in Workers : job[v] = s
      BY <1>1, <1>5, <2>2, <3>3 DEF InFlight
    <3> QED
      BY <2>2, <3>1, <3>2, <3>3, Types DEF InFlight
  <2> QED
    BY <1>2, <2>2 DEF IInv, ActiveRuns
<1>11. LocksHeld'
  BY <1>1, <1>2, <1>5, <1>6, Types, LockFrame DEF IInv, Holding
<1>12. WaitingRuns' /\ NoStrandedWaiters'
  BY <1>2 DEF IInv, WaitingRuns, WaitingOf, NoStrandedWaiters
<1> QED
  BY <1>7, <1>8, <1>9, <1>10, <1>11, <1>12 DEF Rest

\* on_task_finished: the worker's run leaves, the next one takes its place.
LEMMA FinishedRest ==
  ASSUME IInv, NEW w \in Workers, OnTaskFinished(w)
  PROVE  Rest'
<1> DEFINE r == job[w]
           p == ProjectOf[r]
<1>1. /\ pc[w] = "finish" /\ r \in Runs /\ r # NoRun /\ p \in Projects
      /\ active[p] = r
  BY Types DEF OnTaskFinished, IInv, LocalsSet, HoldersActive
<1>2. PICK a \in Runs \cup {NoRun}, q \in Seq(Runs), u \in Seq(Update) :
        /\ LeaveSection(w, p, a, q, u, a)
        /\ a = NoRun => q = <<>>
        /\ a # NoRun => \E i \in 1..Len(waiting[p]) : a = waiting[p][i]
        /\ \A j \in 1..Len(q) :
             q[j] # a /\ \E k \in 1..Len(waiting[p]) : q[j] = waiting[p][k]
        /\ \A j, k \in 1..Len(q) : q[j] = q[k] => j = k
  BY FinishedSection
<1>3. UNCHANGED <<status, cancelReq, locked, pool, target>>
  BY DEF OnTaskFinished
<1>4. /\ active'[p] = a /\ \A o \in Projects \ {p} : active'[o] = active[o]
      /\ waiting'[p] = q /\ \A o \in Projects \ {p} : waiting'[o] = waiting[o]
  BY <1>1, <1>2 DEF LeaveSection, IInv, TypeOK
<1>5. /\ sched'[w] = a /\ \A t \in Threads \ {w} : sched'[t] = sched[t]
      /\ pc'[w] = "updating" /\ \A t \in Threads \ {w} : pc'[t] = pc[t]
  BY <1>2, Types DEF LeaveSection, IInv, TypeOK
<1>6. job'[w] = NoRun /\ \A v \in Workers \ {w} : job'[v] = job[v]
  BY DEF OnTaskFinished, IInv, TypeOK
<1>7. sched[w] = NoRun
  BY <1>1, Types DEF IInv, LocalsSet
\* The popped run is the project's and in flight nowhere.
<1>8. a # NoRun => ProjectOf[a] = p /\ status[a] # "none" /\ a # r
  BY <1>1, <1>2 DEF IInv, WaitingRuns, WaitingOf
<1>9. \A o \in Projects : active[o] # NoRun => ProjectOf[active[o]] = o
  BY DEF IInv, ActiveRuns
<1>10. /\ \A t \in Threads : sched[t] # NoRun => ProjectOf[sched[t]] # p
       /\ \A i \in 1..Len(pool) : ProjectOf[pool[i]] # p
       /\ \A v \in Workers \ {w} : job[v] # NoRun => ProjectOf[job[v]] # p
  <2>1. \A t \in Threads : sched[t] # r
    BY <1>1, Types DEF IInv, HeldOnce
  <2>2. \A i \in 1..Len(pool) : pool[i] # r
    BY <1>1 DEF IInv, HeldOnce
  <2>3. \A v \in Workers \ {w} : job[v] # r
    BY <1>1 DEF IInv, HeldOnce
  <2> QED
    BY <1>1, <2>1, <2>2, <2>3 DEF IInv, HoldersActive
<1>11. LocalsSet'
  <2>1. \A t \in Threads : sched'[t] # NoRun => pc'[t] = "updating"
    BY <1>5 DEF IInv, LocalsSet
  <2>2. \A v \in Workers : job'[v] # NoRun <=> pc'[v] \notin {"idle", "updating"}
    BY <1>5, <1>6, Types DEF IInv, LocalsSet
  <2>3. pc'[Loop] = pc[Loop] /\ target' = target
    BY <1>3, <1>5, Types
  <2> QED
    BY <2>1, <2>2, <2>3 DEF IInv, LocalsSet
<1>12. HoldersActive'
  <2>1. \A t \in Threads : sched'[t] # NoRun => active'[ProjectOf[sched'[t]]] = sched'[t]
    BY <1>4, <1>5, <1>8, <1>10, Types DEF IInv, HoldersActive
  <2>2. \A i \in 1..Len(pool') : active'[ProjectOf[pool'[i]]] = pool'[i]
    BY <1>3, <1>4, <1>10, Types DEF IInv, HoldersActive
  <2>3. \A v \in Workers : job'[v] # NoRun => active'[ProjectOf[job'[v]]] = job'[v]
    BY <1>4, <1>6, <1>10, Types DEF IInv, HoldersActive
  <2> QED
    BY <2>1, <2>2, <2>3 DEF HoldersActive
<1>13. HeldOnce'
  <2>1. \A t, v \in Threads : sched'[t] = sched'[v] /\ sched'[t] # NoRun => t = v
    BY <1>5, <1>8, <1>10 DEF IInv, HeldOnce
  <2>2. \A i, j \in 1..Len(pool') : pool'[i] = pool'[j] => i = j
    BY <1>3 DEF IInv, HeldOnce
  <2>3. \A t \in Threads, i \in 1..Len(pool') : sched'[t] # pool'[i]
    BY <1>3, <1>5, <1>8, <1>10, Types DEF IInv, HeldOnce
  <2>4. \A t \in Threads, v \in Workers : sched'[t] = job'[v] => job'[v] = NoRun
    BY <1>5, <1>6, <1>8, <1>10 DEF IInv, HeldOnce
  <2>5. \A v \in Workers, i \in 1..Len(pool') : job'[v] # pool'[i]
    BY <1>3, <1>6, Types DEF IInv, HeldOnce
  <2>6. \A v, x \in Workers : job'[v] = job'[x] /\ job'[v] # NoRun => v = x
    BY <1>6 DEF IInv, HeldOnce
  <2> QED
    BY <2>1, <2>2, <2>3, <2>4, <2>5, <2>6 DEF HeldOnce
<1>14. ActiveRuns'
  <2>1. ASSUME NEW s, s # NoRun, s # r, InFlight(s)
        PROVE  InFlight(s)'
    <3>1. CASE \E t \in Threads : sched[t] = s
      BY <1>5, <1>7, <2>1, <3>1 DEF InFlight
    <3>2. CASE \E i \in DOMAIN pool : pool[i] = s
      BY <1>3, <3>2 DEF InFlight
    <3>3. CASE \E v \in Workers : job[v] = s
      BY <1>6, <2>1, <3>3 DEF InFlight
    <3> QED
      BY <2>1, <3>1, <3>2, <3>3 DEF InFlight
  <2>2. a # NoRun => InFlight(a)'
    BY <1>5, Types DEF InFlight
  <2>3. \A o \in Projects \ {p} : active[o] # r
    BY <1>1, <1>9
  <2> QED
    BY <1>3, <1>4, <1>8, <2>1, <2>2, <2>3 DEF IInv, ActiveRuns
<1>15. LocksHeld'
  <2>1. Holding \cap {"finish", "updating"} = {}
    BY DEF Holding
  <2> QED
    BY <1>1, <1>3, <1>5, <1>6, <2>1, Types, LockFrame DEF IInv
<1>16. WaitingRuns'
  <2>1. \A i \in 1..Len(q) :
          ProjectOf[q[i]] = p /\ status[q[i]] # "none" /\ q[i] # a
    <3> TAKE i \in 1..Len(q)
    <3>1. PICK k \in 1..Len(waiting[p]) : q[i] = waiting[p][k]
      BY <1>2
    <3>2. ProjectOf[waiting[p][k]] = p /\ status[waiting[p][k]] # "none"
      BY <1>1, <3>1 DEF IInv, WaitingRuns, WaitingOf
    <3>3. q[i] # a
      BY <1>2
    <3> QED
      BY <3>1, <3>2, <3>3
  <2>2. \A i, j \in 1..Len(q) : q[i] = q[j] => i = j
    BY <1>2
  <2>3. ASSUME NEW o \in Projects \ {p}
        PROVE  WaitingOf(o)'
    BY <1>3, <1>4, WaitingKept
  <2>4. ASSUME NEW o \in Projects, o = p
        PROVE  WaitingOf(o)'
    BY <1>3, <1>4, <2>1, <2>2, <2>4 DEF WaitingOf
  <2> QED
    BY <2>3, <2>4 DEF WaitingRuns
<1>17. NoStrandedWaiters'
  BY <1>2, <1>4 DEF IInv, NoStrandedWaiters
<1> QED
  BY <1>11, <1>12, <1>13, <1>14, <1>15, <1>16, <1>17 DEF Rest

\* The finally of run_agent_job is left early: the run is in nobody's hands.
LEMMA AbortRest ==
  ASSUME IInv, NEW w \in Workers, JobAborts(w)
  PROVE  Rest'
<1> DEFINE r == job[w]
<1>1. /\ pc[w] = "released" /\ r \in Runs /\ r # NoRun
      /\ cancelReq[r]
  BY Types DEF JobAborts, IInv, LocalsSet, RunsEndFinal
<1>2. UNCHANGED <<cancelReq, locked, pool, target, sched, active, waiting>>
  BY DEF JobAborts, queueVars
<1>3. job'[w] = NoRun /\ \A v \in Workers \ {w} : job'[v] = job[v]
  BY DEF JobAborts, IInv, TypeOK
<1>4. pc'[w] = "idle" /\ \A t \in Threads \ {w} : pc'[t] = pc[t]
  BY Types DEF JobAborts, Goto, IInv, TypeOK
<1>5. \A s \in Runs : status[s] # "none" => status'[s] # "none"
  BY DEF JobAborts, IInv, TypeOK
<1>6. sched[w] = NoRun
  BY <1>1, Types DEF IInv, LocalsSet
<1>7. LocalsSet'
  BY <1>2, <1>3, <1>4, <1>6, Types DEF IInv, LocalsSet
<1>8. HoldersActive' /\ HeldOnce'
  <2>1. HoldersActive'
    BY <1>2, <1>3 DEF IInv, HoldersActive
  <2>2. \A i, j \in 1..Len(pool') : pool'[i] = pool'[j] => i = j
    BY <1>2 DEF IInv, HeldOnce
  <2>3. \A t, u \in Threads : sched'[t] = sched'[u] /\ sched'[t] # NoRun => t = u
    BY <1>2 DEF IInv, HeldOnce
  <2>4. \A t \in Threads, i \in 1..Len(pool') : sched'[t] # pool'[i]
    BY <1>2 DEF IInv, HeldOnce
  <2>5. \A t \in Threads, v \in Workers : sched'[t] = job'[v] => job'[v] = NoRun
    BY <1>2, <1>3 DEF IInv, HeldOnce
  <2>6. \A v \in Workers, i \in 1..Len(pool') : job'[v] # pool'[i]
    BY <1>2, <1>3, Types DEF IInv, HeldOnce
  <2>7. \A u, v \in Workers : job'[u] = job'[v] /\ job'[u] # NoRun => u = v
    BY <1>3 DEF IInv, HeldOnce
  <2> QED
    BY <2>1, <2>2, <2>3, <2>4, <2>5, <2>6, <2>7 DEF HeldOnce
<1>9. ActiveRuns'
  <2>1. ASSUME NEW s, s # NoRun, s # r, InFlight(s)
        PROVE  InFlight(s)'
    BY <1>2, <1>3, <2>1 DEF InFlight
  <2> QED
    BY <1>1, <1>2, <1>5, <2>1, Types DEF IInv, ActiveRuns
<1>10. LocksHeld'
  <2>1. Holding \cap {"released", "idle"} = {}
    BY DEF Holding
  <2> QED
    BY <1>1, <1>2, <1>3, <1>4, <2>1, Types, LockFrame DEF IInv
<1>11. WaitingRuns'
  BY <1>2, <1>5, WaitingKept DEF WaitingRuns
<1>12. NoStrandedWaiters'
  BY <1>2 DEF IInv, NoStrandedWaiters
<1> QED
  BY <1>7, <1>8, <1>9, <1>10, <1>11, <1>12 DEF Rest

-----------------------------------------------------------------------------
(* What is known of the status of a run that ends.                         *)

\* A run ends final if the step of worker w leaves its own run so, and no other
\* run is touched.
LEMMA FinalFrame ==
  ASSUME IInv, NEW w \in Workers,
         \A v \in Workers \ {w} : pc'[v] = pc[v] /\ job'[v] = job[v],
         \A r \in Runs \ {job[w]} : status'[r] = status[r],
         cancelReq' = cancelReq,
         pc'[w] \in {"succeeded", "failed", "release", "released"} =>
           /\ job'[w] = job[w]
           /\ status'[job[w]] \in Unfinished => cancelReq[job[w]]
  PROVE  RunsEndFinal'
<1> SUFFICES ASSUME NEW v \in Workers,
                    pc'[v] \in {"succeeded", "failed", "release", "released"},
                    status'[job'[v]] \in Unfinished
             PROVE  cancelReq'[job'[v]]
  BY DEF RunsEndFinal
<1>1. CASE v = w
  BY <1>1
<1>2. CASE v # w
  <2>1. job[v] \in Runs /\ job[v] # job[w]
    BY <1>2, Types DEF IInv, LocalsSet, HeldOnce
  <2> QED
    BY <1>2, <2>1 DEF IInv, RunsEndFinal
<1> QED
  BY <1>1, <1>2

\* A step that no worker makes, or one that has no run, leaves them so.
LEMMA FinalElsewhere ==
  ASSUME IInv, job' = job,
         \A v \in Workers : pc'[v] = pc[v] \/ pc'[v] \in {"idle", "updating"},
         \A v \in Workers :
           job[v] # NoRun /\ status'[job[v]] \in Unfinished
             => status[job[v]] \in Unfinished,
         \A r \in Runs : cancelReq[r] => cancelReq'[r]
  PROVE  RunsEndFinal'
<1> SUFFICES ASSUME NEW v \in Workers,
                    pc'[v] \in {"succeeded", "failed", "release", "released"},
                    status'[job'[v]] \in Unfinished
             PROVE  cancelReq'[job'[v]]
  BY DEF RunsEndFinal
<1>1. pc'[v] = pc[v] /\ job[v] \in Runs /\ job[v] # NoRun
  BY Types DEF IInv, LocalsSet
<1> QED
  BY <1>1 DEF IInv, RunsEndFinal

\* A section decides updates that make no run unfinished but the next one.
LEMMA SectionNext ==
  ASSUME IInv, NEW t \in Threads, NEW p, NEW a, NEW q, NEW u \in Seq(Update),
         NEW n, LeaveSection(t, p, a, q, u, n), OnlyNext(u, n)
  PROVE  UpdatesNext'
<1>1. /\ todo'[t] = u /\ \A v \in Threads \ {t} : todo'[v] = todo[v]
      /\ sched'[t] = n /\ \A v \in Threads \ {t} : sched'[v] = sched[v]
  BY DEF LeaveSection, IInv, TypeOK
<1> QED
  BY <1>1 DEF UpdatesNext, OnlyNext, IInv

\* Applying an update makes no run unfinished that a worker executes.
LEMMA ApplyFinal ==
  ASSUME IInv, NEW t \in Threads, ApplyUpdate(t)
  PROVE  RunsEndFinal' /\ UpdatesNext'
<1> DEFINE s == todo[t]
           u == Head(s)
<1>1. /\ s \in Seq(Update) /\ s # <<>> /\ Len(s) \in Nat
      /\ Len(Tail(s)) = Len(s) - 1
      /\ \A k \in 1..Len(Tail(s)) : Tail(s)[k] = s[k + 1]
      /\ u = s[1] /\ 1 \in 1..Len(s)
  <2>1. s \in Seq(Update) /\ s # <<>> /\ Len(s) \in Nat
    BY LenProperties DEF ApplyUpdate, IInv, TypeOK
  <2>2. 1 \in 1..Len(s)
    BY <2>1, EmptySeq
  <2> QED
    BY <2>1, <2>2, HeadTailProperties
<1>2. /\ todo'[t] = Tail(s) /\ \A v \in Threads \ {t} : todo'[v] = todo[v]
      /\ UNCHANGED <<cancelReq, pc, job, sched>>
  BY DEF ApplyUpdate, IInv, TypeOK
<1>3. status' = [status EXCEPT ![u.run] = IF u.status = Keep THEN @ ELSE u.status]
  BY DEF ApplyUpdate
<1> HIDE DEF u
<1>4. u.status \in Unfinished => sched[t] = u.run
  BY <1>1 DEF IInv, UpdatesNext
<1>5. ASSUME NEW v \in Workers, job[v] # NoRun, status'[job[v]] \in Unfinished
      PROVE  status[job[v]] \in Unfinished
  <2>1. sched[t] # job[v] /\ job[v] \in Runs
    BY <1>5, Types DEF IInv, HeldOnce
  <2>2. CASE job[v] = u.run
    <3>1. status[job[v]] = status'[job[v]] \/ status'[job[v]] = u.status
      BY <1>3, <2>1, <2>2, Types
    <3>2. u.status \notin Unfinished
      BY <1>4, <2>1, <2>2
    <3> QED
      BY <1>5, <3>1, <3>2
  <2>3. CASE job[v] # u.run
    BY <1>3, <1>5, <2>1, <2>3, Types
  <2> QED
    BY <2>2, <2>3
<1>6. RunsEndFinal'
  BY <1>2, <1>5, FinalElsewhere
<1>7. UpdatesNext'
  <2>1. \A k \in 1..Len(Tail(s)) : k + 1 \in 1..Len(s)
    BY <1>1
  <2>2. \A k \in 1..Len(todo'[t]) :
          todo'[t][k].status \in Unfinished => sched[t] = todo'[t][k].run
    BY <1>1, <1>2, <2>1 DEF IInv, UpdatesNext
  <2> QED
    BY <1>2, <2>2 DEF IInv, UpdatesNext
<1> QED
  BY <1>6, <1>7

\* Submitting a run comes when all updates are applied.
LEMMA SubmitFinal ==
  ASSUME IInv, NEW t \in Threads, Submit(t)
  PROVE  RunsEndFinal' /\ UpdatesNext'
<1>1. todo[t] = <<>> /\ UNCHANGED <<status, cancelReq, pc, job, todo>>
  BY DEF Submit
<1>2. \A u \in Threads \ {t} : sched'[u] = sched[u]
  BY DEF Submit, IInv, TypeOK
<1>3. RunsEndFinal'
  BY <1>1, FinalElsewhere
<1>4. UpdatesNext'
  BY <1>1, <1>2 DEF IInv, UpdatesNext
<1> QED
  BY <1>3, <1>4

\* The steps of the event loop leave what is known so.
LEMMA LoopStepFinal ==
  ASSUME IInv, LoopStep
  PROVE  RunsEndFinal' /\ UpdatesNext'
<1> USE Types
<1>1. ASSUME NEW r \in Runs, Enqueue(r)
      PROVE  RunsEndFinal' /\ UpdatesNext'
  <2>1. PICK u \in Seq(Update) :
          \E q, a, n : /\ LeaveSection(Loop, ProjectOf[r], a, q, u, n)
                       /\ OnlyNext(u, n)
    BY <1>1, EnqueueSection
  <2>2. PICK q, a, n :
          LeaveSection(Loop, ProjectOf[r], a, q, u, n) /\ OnlyNext(u, n)
    BY <2>1
  <2>3. \A w \in Workers : pc'[w] = pc[w]
    BY <2>2 DEF LeaveSection, IInv, TypeOK
  <2>4. \A w \in Workers : job[w] # r
    BY <1>1, NewRunNowhere DEF Enqueue
  <2>5. /\ job' = job /\ cancelReq' = cancelReq
        /\ \A w \in Workers : job[w] # NoRun => status'[job[w]] = status[job[w]]
    BY <1>1, <2>4 DEF Enqueue, IInv, TypeOK
  <2> QED
    BY <2>2, <2>3, <2>5, FinalElsewhere, SectionNext
<1>2. CASE RemoveWaiting
  <2>1. PICK u \in Seq(Update) :
          /\ LeaveSection(Loop, ProjectOf[target], active[ProjectOf[target]],
               RemoveFirst(waiting[ProjectOf[target]], target), u, NoRun)
          /\ OnlyNext(u, NoRun)
    BY <1>2, RemoveSection
  <2>2. \A w \in Workers : pc'[w] = pc[w]
    BY <2>1 DEF LeaveSection, IInv, TypeOK
  <2> QED
    BY <1>2, <2>1, <2>2, FinalElsewhere, SectionNext DEF RemoveWaiting
<1>3. ASSUME UNCHANGED <<job, sched, todo>>,
             \A w \in Workers : pc'[w] = pc[w],
             \A r \in Runs : status'[r] \in Unfinished => status[r] \in Unfinished,
             \A r \in Runs : cancelReq[r] => cancelReq'[r]
      PROVE  RunsEndFinal' /\ UpdatesNext'
  BY <1>3, FinalElsewhere DEF IInv, UpdatesNext
<1>4. ASSUME NEW r \in Runs, CancelQueued(r)
      PROVE  RunsEndFinal' /\ UpdatesNext'
  BY <1>3, <1>4 DEF CancelQueued, IInv, TypeOK
<1>5. ASSUME NEW r \in Runs, CancelActive(r)
      PROVE  RunsEndFinal' /\ UpdatesNext'
  BY <1>3, <1>5 DEF CancelActive, IInv, TypeOK
<1>6. CASE RefuseCancel
  BY <1>3, <1>6 DEF RefuseCancel, IInv, TypeOK
<1>7. CASE MarkCancelled
  BY <1>3, <1>7 DEF MarkCancelled, IInv, TypeOK, Unfinished
<1>8. CASE ApplyUpdate(Loop)
  BY <1>8, ApplyFinal
<1>9. CASE Submit(Loop)
  BY <1>9, SubmitFinal
<1>10. CASE Return(Loop)
  BY <1>3, <1>10 DEF Return, IInv, TypeOK
<1> QED
  BY <1>1, <1>2, <1>4, <1>5, <1>6, <1>7, <1>8, <1>9, <1>10 DEF LoopStep

\* So do those of a worker.
LEMMA WorkerStepFinal ==
  ASSUME IInv, NEW w \in Workers, WorkerStep(w)
  PROVE  RunsEndFinal' /\ UpdatesNext'
<1> USE Types
<1>1. ASSUME NEW l, Goto(w, l),
             UNCHANGED <<cancelReq, sched, todo>>,
             \A v \in Workers \ {w} : job'[v] = job[v],
             \A r \in Runs \ {job[w]} : status'[r] = status[r],
             l \in {"succeeded", "failed", "release", "released"} =>
               /\ job'[w] = job[w]
               /\ status'[job[w]] \in Unfinished => cancelReq[job[w]]
      PROVE  RunsEndFinal' /\ UpdatesNext'
  <2>1. pc'[w] = l /\ \A v \in Workers \ {w} : pc'[v] = pc[v]
    BY <1>1 DEF Goto, IInv, TypeOK
  <2> QED
    BY <1>1, <2>1, FinalFrame DEF IInv, UpdatesNext
<1>2. pc[w] \notin {"idle", "updating"} => job[w] \in Runs /\ job[w] # NoRun
  BY DEF IInv, LocalsSet
<1> USE DEF Unfinished, Terminal
<1>3. CASE TakeJob(w)
  BY <1>1, <1>3 DEF TakeJob, IInv, TypeOK
<1>4. CASE AcquireLock(w)
  BY <1>1, <1>4 DEF AcquireLock
<1>5. CASE StopCancelled(w)
  BY <1>1, <1>2, <1>5 DEF StopCancelled, IInv, TypeOK
<1>6. CASE StartAttempt(w)
  BY <1>1, <1>6 DEF StartAttempt
<1>7. CASE ExecuteOnce(w)
  BY <1>1, <1>2, <1>7 DEF ExecuteOnce, IInv, TypeOK
<1>8. CASE MarkRunning(w)
  BY <1>1, <1>2, <1>8 DEF MarkRunning, IInv, TypeOK
<1>9. ASSUME NEW ok \in BOOLEAN, AgentExits(w, ok)
      PROVE  RunsEndFinal' /\ UpdatesNext'
  BY <1>1, <1>9 DEF AgentExits
<1>10. ASSUME NEW ok \in BOOLEAN, FinishAttempt(w, ok)
       PROVE  RunsEndFinal' /\ UpdatesNext'
  BY <1>1, <1>2, <1>10 DEF FinishAttempt, IInv, TypeOK
<1>11. CASE RetryAttempt(w)
  BY <1>1, <1>2, <1>11 DEF RetryAttempt, IInv, TypeOK
<1>12. CASE RunReturns(w)
  BY <1>1, <1>2, <1>12 DEF RunReturns, IInv, RunsEndFinal
<1>13. CASE RunRaises(w)
  BY <1>1, <1>2, <1>13 DEF RunRaises, IInv, TypeOK
<1>14. CASE ReleaseLock(w)
  BY <1>1, <1>2, <1>14 DEF ReleaseLock, IInv, RunsEndFinal
<1>15. CASE EnsureNotStuck(w)
  BY <1>1, <1>2, <1>15 DEF EnsureNotStuck, IInv, TypeOK
<1>16. CASE JobAborts(w)
  BY <1>1, <1>2, <1>16 DEF JobAborts, IInv, TypeOK
<1>17. CASE OnTaskFinished(w)
  <2>1. PICK a \in Runs \cup {NoRun}, q \in Seq(Runs), u \in Seq(Update) :
          LeaveSection(w, ProjectOf[job[w]], a, q, u, a) /\ OnlyNext(u, a)
    BY <1>17, FinishedSection
  <2>2. pc'[w] = "updating" /\ \A v \in Workers \ {w} : pc'[v] = pc[v]
    BY <2>1 DEF LeaveSection, IInv, TypeOK
  <2>3. /\ \A v \in Workers \ {w} : job'[v] = job[v]
        /\ UNCHANGED <<status, cancelReq>>
    BY <1>17 DEF OnTaskFinished, IInv, TypeOK
  <2>4. RunsEndFinal'
    BY <2>2, <2>3, FinalFrame
  <2> QED
    BY <2>1, <2>4, SectionNext
<1>18. CASE ApplyUpdate(w)
  BY <1>18, ApplyFinal
<1>19. CASE Submit(w)
  BY <1>19, SubmitFinal
<1>20. CASE Return(w)
  BY <1>1, <1>20 DEF Return, Goto
<1> QED
  BY <1>3, <1>4, <1>5, <1>6, <1>7, <1>8, <1>9, <1>10, <1>11, <1>12, <1>13,
     <1>14, <1>15, <1>16, <1>17, <1>18, <1>19, <1>20 DEF WorkerStep

-----------------------------------------------------------------------------
(* The invariant is inductive.                                             *)

\* The steps of the event loop preserve the rest of the invariant.
LEMMA LoopStepRest ==
  ASSUME IInv, LoopStep
  PROVE  Rest'
<1> USE Types
\* Handlers that move no run: the thread stays outside every lock section.
<1>1. ASSUME UNCHANGED <<active, waiting, pool, job, sched, locked>>,
             \A r \in Runs : status[r] # "none" => status'[r] # "none",
             \A w \in Workers : pc'[w] = pc[w],
             sched[Loop] = NoRun \/ pc'[Loop] = "updating",
             \A r \in Runs : cancelReq[r] => cancelReq'[r],
             pc'[Loop] \in {"cancelWaiting", "cancelMark"} => target' # NoRun
      PROVE  Rest'
  <2>1. LocalsSet'
    BY <1>1 DEF IInv, LocalsSet, Threads
  <2>2. LocksHeld'
    BY <1>1, LockFrame DEF IInv
  <2> QED
    BY <1>1, <2>1, <2>2, QueueFrame DEF Rest
<1>2. pc[Loop] # "updating" => sched[Loop] = NoRun
  BY DEF IInv, LocalsSet
<1>3. ASSUME NEW r \in Runs, Enqueue(r)
      PROVE  Rest'
  BY <1>3, EnqueueRest
<1>4. ASSUME NEW r \in Runs, CancelQueued(r) \/ CancelActive(r)
      PROVE  Rest'
  BY <1>1, <1>2, <1>4 DEF CancelQueued, CancelActive, queueVars, IInv, TypeOK
<1>5. CASE RemoveWaiting
  BY <1>5, RemoveRest
<1>6. CASE RefuseCancel
  BY <1>1, <1>2, <1>6 DEF RefuseCancel, queueVars, IInv, TypeOK
<1>7. CASE MarkCancelled
  BY <1>1, <1>2, <1>7 DEF MarkCancelled, queueVars, IInv, TypeOK
<1>8. CASE ApplyUpdate(Loop)
  <2>1. Head(todo[Loop]) \in Update
    BY <1>8, HeadTailProperties DEF ApplyUpdate, IInv, TypeOK
  <2>2. \A r \in Runs : status[r] # "none" => status'[r] # "none"
    BY <1>8, <2>1 DEF ApplyUpdate, IInv, TypeOK, Update, TaskStatus
  <2> QED
    BY <1>1, <1>8, <2>2 DEF ApplyUpdate, queueVars
<1>9. CASE Submit(Loop)
  BY <1>9, SubmitRest
<1>10. CASE Return(Loop)
  BY <1>1, <1>10 DEF Return, queueVars, IInv, TypeOK
<1> QED
  BY <1>3, <1>4, <1>5, <1>6, <1>7, <1>8, <1>9, <1>10 DEF LoopStep

\* A worker that comes for a workspace is the one worker of its project.
LEMMA LockIsFreeNow ==
  ASSUME IInv
  PROVE  LockNeverBusy
<1> SUFFICES ASSUME NEW w \in Workers, pc[w] = "acquire",
                    locked[ProjectOf[job[w]]]
             PROVE  FALSE
  BY DEF LockNeverBusy
<1>1. job[w] \in Runs /\ job[w] # NoRun /\ ProjectOf[job[w]] \in Projects
  BY Types DEF IInv, LocalsSet
<1>2. PICK v \in Workers :
        pc[v] \in Holding /\ ProjectOf[job[v]] = ProjectOf[job[w]]
  BY <1>1 DEF IInv, LocksHeld
<1>3. job[v] = job[w]
  BY <1>1, <1>2 DEF IInv, LocalsSet, HoldersActive, Holding
<1>4. v = w
  BY <1>1, <1>3 DEF IInv, HeldOnce
<1> QED
  BY <1>2, <1>4 DEF Holding

\* The steps of a worker preserve the rest of the invariant.
LEMMA WorkerStepRest ==
  ASSUME IInv, NEW w \in Workers, WorkerStep(w)
  PROVE  Rest'
<1> USE Types
\* Steps of a worker that keeps its job, and its lock if it has one.
<1>1. ASSUME NEW l, Goto(w, l), pc[w] \notin {"idle", "updating"},
             l \notin {"idle", "updating"}, l \in Holding <=> pc[w] \in Holding,
             UNCHANGED <<cancelReq, locked, pool, job, sched, target, active,
                         waiting>>,
             \A r \in Runs : status[r] # "none" => status'[r] # "none"
      PROVE  Rest'
  <2>1. job[w] # NoRun
    BY <1>1 DEF IInv, LocalsSet
  <2> QED
    BY <1>1, <2>1, QueueFrame, PcFrame DEF Rest
<1>2. CASE TakeJob(w)
  BY <1>2, TakeJobRest
<1>3. CASE AcquireLock(w)
  <2> DEFINE p == ProjectOf[job[w]]
  <2>1. job[w] \in Runs /\ job[w] # NoRun /\ p \in Projects /\ pc[w] = "acquire"
    BY <1>3 DEF AcquireLock, IInv, LocalsSet
  <2>2. ~locked[p]
    BY <2>1, LockIsFreeNow DEF LockNeverBusy
  <2>3. /\ locked'[p] /\ \A o \in Projects \ {p} : locked'[o] = locked[o]
        /\ pc'[w] = "attempt" /\ \A t \in Threads \ {w} : pc'[t] = pc[t]
        /\ UNCHANGED <<status, cancelReq, job, sched, target, pool, active,
                       waiting>>
    BY <1>3, <2>1, <2>2 DEF AcquireLock, Goto, queueVars, IInv, TypeOK
  <2>4. LocalsSet'
    BY <2>1, <2>3 DEF IInv, LocalsSet
  <2>5. LocksHeld'
    BY <2>1, <2>3 DEF IInv, LocksHeld, Holding
  <2> QED
    BY <2>3, <2>4, <2>5, QueueFrame DEF Rest
<1>4. CASE ReleaseLock(w)
  <2> DEFINE p == ProjectOf[job[w]]
  <2>1. job[w] \in Runs /\ job[w] # NoRun /\ p \in Projects /\ pc[w] = "release"
    BY <1>4 DEF ReleaseLock, IInv, LocalsSet
  <2>2. \A v \in Workers \ {w} : pc[v] \in Holding => ProjectOf[job[v]] # p
    BY <2>1 DEF IInv, HoldersActive, HeldOnce, Holding, LocalsSet
  <2>3. /\ ~locked'[p] /\ \A o \in Projects \ {p} : locked'[o] = locked[o]
        /\ pc'[w] = "released" /\ \A t \in Threads \ {w} : pc'[t] = pc[t]
        /\ UNCHANGED <<status, cancelReq, job, sched, target, pool, active,
                       waiting>>
    BY <1>4, <2>1 DEF ReleaseLock, Goto, queueVars, IInv, TypeOK
  <2>4. LocalsSet'
    BY <2>1, <2>3 DEF IInv, LocalsSet
  <2>5. LocksHeld'
    BY <2>1, <2>2, <2>3 DEF IInv, LocksHeld, Holding
  <2> QED
    BY <2>3, <2>4, <2>5, QueueFrame DEF Rest
<1>5. CASE StopCancelled(w)
  BY <1>1, <1>5 DEF StopCancelled, queueVars, IInv, TypeOK, Holding
<1>6. CASE StartAttempt(w)
  BY <1>1, <1>6 DEF StartAttempt, queueVars, Holding
<1>7. CASE MarkRunning(w)
  BY <1>1, <1>7 DEF MarkRunning, queueVars, IInv, TypeOK, Holding
<1>8. ASSUME NEW ok \in BOOLEAN, AgentExits(w, ok)
      PROVE  Rest'
  BY <1>1, <1>8 DEF AgentExits, queueVars, Holding
<1>9. ASSUME NEW ok \in BOOLEAN, FinishAttempt(w, ok)
      PROVE  Rest'
  BY <1>1, <1>9 DEF FinishAttempt, queueVars, IInv, TypeOK, Holding
<1>10. CASE RetryAttempt(w)
  BY <1>1, <1>10 DEF RetryAttempt, queueVars, IInv, TypeOK, Holding
<1>11. CASE RunReturns(w)
  BY <1>1, <1>11 DEF RunReturns, queueVars, Holding
<1>12. CASE RunRaises(w)
  BY <1>1, <1>12 DEF RunRaises, queueVars, IInv, TypeOK, Holding
<1>13. CASE EnsureNotStuck(w)
  BY <1>1, <1>13 DEF EnsureNotStuck, queueVars, IInv, TypeOK, Holding
<1>14. CASE OnTaskFinished(w)
  BY <1>14, FinishedRest
<1>15. CASE Submit(w)
  BY <1>15, SubmitRest
\* Steps of a worker that has no job.
<1>16. ASSUME pc[w] = "updating", pc'[w] \in {"updating", "idle"},
              pc'[w] = "idle" => sched[w] = NoRun,
              \A t \in Threads \ {w} : pc'[t] = pc[t],
              UNCHANGED <<cancelReq, locked, pool, job, sched, target, active,
                          waiting>>,
              \A r \in Runs : status[r] # "none" => status'[r] # "none"
       PROVE  Rest'
  <2>1. LocalsSet'
    BY <1>16 DEF IInv, LocalsSet
  <2>2. LocksHeld'
    BY <1>16, LockFrame DEF IInv, Holding
  <2> QED
    BY <1>16, <2>1, <2>2, QueueFrame DEF Rest
<1>17. CASE ApplyUpdate(w)
  <2>1. Head(todo[w]) \in Update
    BY <1>17, HeadTailProperties DEF ApplyUpdate, IInv, TypeOK
  <2>2. \A r \in Runs : status[r] # "none" => status'[r] # "none"
    BY <1>17, <2>1 DEF ApplyUpdate, IInv, TypeOK, Update, TaskStatus
  <2> QED
    BY <1>16, <1>17, <2>2 DEF ApplyUpdate, queueVars
<1>18. CASE Return(w)
  BY <1>16, <1>18 DEF Return, queueVars, IInv, TypeOK
<1>19. CASE ExecuteOnce(w)
  BY <1>1, <1>19 DEF ExecuteOnce, queueVars, IInv, TypeOK, Holding
<1>20. CASE JobAborts(w)
  BY <1>20, AbortRest
<1> QED
  BY <1>2, <1>3, <1>4, <1>5, <1>6, <1>7, <1>8, <1>9, <1>10, <1>11, <1>12,
     <1>13, <1>14, <1>15, <1>17, <1>18, <1>19, <1>20 DEF WorkerStep

LEMMA NextIInv ==
  ASSUME IInv, [Next]_vars
  PROVE  IInv'
<1>1. CASE LoopStep
  BY <1>1, LoopStepType, LoopStepRest, LoopStepFinal DEF IInv, Rest
<1>2. ASSUME NEW w \in Workers, WorkerStep(w)
      PROVE  IInv'
  BY <1>2, WorkerStepType, WorkerStepRest, WorkerStepFinal DEF IInv, Rest
<1>3. CASE UNCHANGED vars
  <2>1. TypeOK'
    BY <1>3 DEF IInv, TypeOK, vars
  <2>2. LocalsSet' /\ LocksHeld'
    BY <1>3 DEF IInv, LocalsSet, LocksHeld, vars
  <2>3. /\ HoldersActive' /\ HeldOnce' /\ ActiveRuns'
        /\ WaitingRuns' /\ NoStrandedWaiters'
    BY <1>3, QueueFrame DEF vars
  <2>4. RunsEndFinal' /\ UpdatesNext'
    BY <1>3 DEF IInv, RunsEndFinal, UpdatesNext, vars
  <2> QED
    BY <2>1, <2>2, <2>3, <2>4 DEF IInv
<1> QED
  BY <1>1, <1>2, <1>3 DEF Next

\* The inductive invariant holds in every reachable state.
THEOREM Inductive == Spec => []IInv
<1>1. Init => IInv
  BY InitIInv
<1>2. IInv /\ [Next]_vars => IInv'
  BY NextIInv
<1> QED
  BY <1>1, <1>2, PTL DEF Spec

-----------------------------------------------------------------------------
(* What it implies.                                                        *)

\* Records, queue, executor and threads keep their types.
THEOREM TypeCorrect == Spec => []TypeOK
<1>1. IInv => TypeOK
  BY DEF IInv
<1> QED
  BY <1>1, Inductive, PTL

\* One agent run at a time per project_id: with any number of workers, and
\* whatever they and the event loop interleave, a run in flight is the active
\* run of its project, and only a cancelled run is active without being in
\* flight.
THEOREM OneRunPerProject == Spec => []ActiveIsInFlight
<1>1. ASSUME IInv
      PROVE  ActiveIsInFlight
  <2>1. ASSUME NEW r \in Runs, InFlight(r)
        PROVE  active[ProjectOf[r]] = r
    <3>1. r # NoRun
      BY <1>1, Types
    <3> QED
      BY <1>1, <2>1, <3>1, Types DEF InFlight, IInv, HoldersActive
  <2>2. ASSUME NEW p \in Projects, Stalled(p)
        PROVE  cancelReq[active[p]]
    BY <1>1, <2>2 DEF Stalled, IInv, ActiveRuns
  <2> QED
    BY <2>1, <2>2 DEF ActiveIsInFlight
<1> QED
  BY <1>1, Inductive, PTL

\* No worker ever finds the workspace lock of its project taken.
THEOREM LockIsFree == Spec => []LockNeverBusy
<1>1. IInv => LockNeverBusy
  BY LockIsFreeNow
<1> QED
  BY <1>1, Inductive, PTL

\* Runs wait only behind an active run.
THEOREM NobodyStranded == Spec => []NoStrandedWaiters
<1>1. IInv => NoStrandedWaiters
  BY DEF IInv
<1> QED
  BY <1>1, Inductive, PTL
=============================================================================
