--------------------------- MODULE SyncGateProofs ---------------------------
(***************************************************************************)
(* For any number of scheduled and manual tasks: two runs never overlap,   *)
(* no wake-up is lost, and the gate is a first-come first-served lock.     *)
(***************************************************************************)
EXTENDS SyncGate, SeqFilterProofs

\* A completed future is the first of the deque and exists on a free lock only:
\* this is why the waiter it belongs to may claim the lock without looking.
WokenIsFirst ==
    \A k \in DOMAIN waiters : waiters[k].fut = "done" => k = 1 /\ ~locked

RunningHoldsLock == \A t \in Tasks : pc[t] = "running" => locked

IInv ==
    /\ TypeOK
    /\ MutualExclusion
    /\ RunningHoldsLock
    /\ WokenIsFirst
    /\ NoLostWakeup

-----------------------------------------------------------------------------
(***************************************************************************)
(* Lemmas about the deque                                                  *)
(***************************************************************************)

\* Removing one element of a sequence shifts the later ones down by one.
LEMMA RemoveAtShifts ==
    ASSUME NEW S, NEW q \in Seq(S), NEW k \in 1..Len(q)
    PROVE  /\ RemoveAt(q, k) \in Seq(S)
           /\ Len(RemoveAt(q, k)) = Len(q) - 1
           /\ \A j \in 1..Len(q) - 1 :
                RemoveAt(q, k)[j] = IF j < k THEN q[j] ELSE q[j + 1]
  <1>. DEFINE front == SubSeq(q, 1, k - 1)
              back  == SubSeq(q, k + 1, Len(q))
  <1>1. /\ front \in Seq(S) /\ Len(front) = k - 1
        /\ \A j \in 1..k - 1 : front[j] = q[j]
    OBVIOUS
  <1>2. /\ back \in Seq(S) /\ Len(back) = Len(q) - k
        /\ \A j \in 1..Len(q) - k : back[j] = q[k + j]
    OBVIOUS
  <1>3. RemoveAt(q, k) = front \o back
    BY DEF RemoveAt
  <1>. HIDE DEF front, back
  <1>4. /\ front \o back \in Seq(S) /\ Len(front \o back) = Len(front) + Len(back)
        /\ \A j \in 1..Len(front) + Len(back) :
             (front \o back)[j] = IF j <= Len(front) THEN front[j] ELSE back[j - Len(front)]
    BY <1>1, <1>2, ConcatProperties
  <1>5. Len(q) \in Nat /\ k \in 1..Len(q)
    OBVIOUS
  <1>6. ASSUME NEW j \in 1..Len(q) - 1
        PROVE  (front \o back)[j] = IF j < k THEN q[j] ELSE q[j + 1]
    <2>1. CASE j < k
      BY <1>1, <1>2, <1>4, <1>5, <2>1
    <2>2. CASE ~(j < k)
      <3>1. (front \o back)[j] = back[j - (k - 1)]
        BY <1>1, <1>2, <1>4, <1>5, <2>2
      <3>2. j - (k - 1) \in 1..Len(q) - k /\ k + (j - (k - 1)) = j + 1
        BY <1>5, <2>2
      <3>3. QED
        BY <1>2, <2>2, <3>1, <3>2
    <2>3. QED
      BY <2>1, <2>2
  <1>7. QED
    BY <1>1, <1>2, <1>3, <1>4, <1>5, <1>6

\* Waking the first waiter keeps the deque, its tasks and every other future,
\* and leaves no pending future in front.
LEMMA WakeFirstWakesTheFirst ==
    ASSUME NEW q \in Seq(Waiter)
    PROVE  /\ WakeFirst(q) \in Seq(Waiter)
           /\ Len(WakeFirst(q)) = Len(q)
           /\ \A k \in 2..Len(q) : WakeFirst(q)[k] = q[k]
           /\ q # <<>> => WakeFirst(q)[1].fut # "pending"
  <1>. DEFINE w == [q[1] EXCEPT !.fut = "done"]
  <1>1. CASE q # <<>> /\ q[1].fut = "pending"
    <2>1. 1 \in 1..Len(q) /\ q[1] \in Waiter
      BY <1>1, EmptySeq, ElementOfSeq
    <2>2. w \in Waiter /\ w.fut = "done"
      BY <2>1 DEF Waiter, Futures
    <2>3. WakeFirst(q) = [q EXCEPT ![1] = w]
      BY <1>1 DEF WakeFirst
    <2>. HIDE DEF w
    <2>4. /\ WakeFirst(q) \in Seq(Waiter) /\ Len(WakeFirst(q)) = Len(q)
          /\ \A j \in 1..Len(q) : WakeFirst(q)[j] = IF j = 1 THEN w ELSE q[j]
      BY <2>1, <2>2, <2>3, ExceptSeq
    <2>5. QED
      BY <2>1, <2>2, <2>4
  <1>2. CASE ~(q # <<>> /\ q[1].fut = "pending")
    BY <1>2 DEF WakeFirst
  <1>3. QED
    BY <1>1, <1>2

-----------------------------------------------------------------------------
(***************************************************************************)
(* The invariant                                                           *)
(***************************************************************************)

LEMMA InitIInv == Init => IInv
  <1>. SUFFICES ASSUME Init PROVE IInv
    OBVIOUS
  <1>1. waiters \in Seq(Waiter) /\ DOMAIN waiters = {}
    BY DEF Init
  <1>2. TypeOK
    BY <1>1 DEF Init, TypeOK, Places
  <1>3. WokenIsFirst /\ NoLostWakeup
    BY <1>1 DEF Init, WokenIsFirst, NoLostWakeup
  <1>4. MutualExclusion /\ RunningHoldsLock
    BY DEF Init, MutualExclusion, RunningHoldsLock
  <1>5. QED
    BY <1>2, <1>3, <1>4 DEF IInv

\* acquire(): on the fast path no future is completed, so nobody else is about
\* to claim the lock; otherwise the newcomer lines up behind the others.
LEMMA AcquireIInv ==
    ASSUME IInv, NEW t \in Tasks, pc[t] = "idle", Acquire(t)
    PROVE  IInv'
  <1>1. CASE FastPath
    BY <1>1 DEF Acquire, FastPath, IInv, TypeOK, MutualExclusion, RunningHoldsLock,
                WokenIsFirst, NoLostWakeup, Places
  <1>2. CASE ~FastPath
    <2>. DEFINE w == [task |-> t, fut |-> "pending"]
    <2>1. /\ waiters' = Append(waiters, w) /\ locked' = locked
          /\ pc' = [pc EXCEPT ![t] = "waiting"]
      BY <1>2 DEF Acquire
    <2>2. w \in Waiter
      BY DEF Waiter, Futures
    <2>3. /\ waiters' \in Seq(Waiter) /\ Len(waiters') = Len(waiters) + 1
          /\ \A k \in 1..Len(waiters) : waiters'[k] = waiters[k]
          /\ waiters'[Len(waiters) + 1].fut = "pending"
      BY <2>1, <2>2 DEF IInv, TypeOK
    <2>4. TypeOK' /\ MutualExclusion' /\ RunningHoldsLock'
      BY <2>1, <2>3 DEF IInv, TypeOK, MutualExclusion, RunningHoldsLock, Places
    <2>5. WokenIsFirst'
      BY <2>1, <2>3 DEF IInv, TypeOK, WokenIsFirst
    <2>6. NoLostWakeup'
      BY <1>2, <2>1, <2>3 DEF IInv, TypeOK, NoLostWakeup, FastPath
    <2>7. QED
      BY <2>4, <2>5, <2>6 DEF IInv
  <1>3. QED
    BY <1>1, <1>2

\* The completed future was the only one, so the lock it claims is free.
LEMMA ResumeIInv ==
    ASSUME IInv, NEW t \in Tasks, Resume(t)
    PROVE  IInv'
  <1>1. PICK k \in DOMAIN waiters :
           /\ pc[t] = "waiting"
           /\ waiters[k].task = t /\ waiters[k].fut = "done"
           /\ waiters' = RemoveAt(waiters, k)
           /\ locked' = TRUE
           /\ pc' = [pc EXCEPT ![t] = "running"]
    BY DEF Resume
  <1>2. k = 1 /\ ~locked /\ Len(waiters) \in Nat /\ waiters \in Seq(Waiter)
    BY <1>1 DEF IInv, TypeOK, WokenIsFirst
  <1>3. /\ waiters' \in Seq(Waiter) /\ Len(waiters') = Len(waiters) - 1
        /\ \A j \in 1..Len(waiters) - 1 : waiters'[j] = waiters[j + 1]
    BY <1>1, <1>2, RemoveAtShifts
  <1>4. TypeOK' /\ MutualExclusion' /\ RunningHoldsLock' /\ NoLostWakeup'
    BY <1>1, <1>2, <1>3 DEF IInv, TypeOK, MutualExclusion, RunningHoldsLock,
                            NoLostWakeup, Places
  <1>5. WokenIsFirst'
    <2>1. ASSUME NEW j \in DOMAIN waiters' PROVE waiters'[j].fut # "done"
      <3>1. j \in 1..Len(waiters) - 1
        BY <1>3, LenProperties
      <3>2. waiters'[j] = waiters[j + 1] /\ j + 1 \in DOMAIN waiters /\ j + 1 # 1
        BY <1>2, <1>3, <3>1, LenProperties
      <3>3. QED
        BY <3>2 DEF IInv, WokenIsFirst
    <2>2. QED
      BY <2>1 DEF WokenIsFirst
  <1>6. QED
    BY <1>4, <1>5 DEF IInv

LEMMA CancelIInv ==
    ASSUME IInv, NEW t \in Tasks, Cancel(t)
    PROVE  IInv'
  <1>1. PICK k \in DOMAIN waiters :
           /\ waiters' = IF waiters[k].fut = "pending"
                         THEN [waiters EXCEPT ![k].fut = "cancelled"]
                         ELSE waiters
           /\ pc' = [pc EXCEPT ![t] = "cancelling"]
           /\ locked' = locked
    BY DEF Cancel
  <1>. DEFINE w == [waiters[k] EXCEPT !.fut = "cancelled"]
  <1>2. k \in 1..Len(waiters) /\ waiters \in Seq(Waiter) /\ waiters[k] \in Waiter
    BY <1>1, LenProperties, ElementOfSeq DEF IInv, TypeOK
  <1>3. w \in Waiter /\ w.fut = "cancelled"
    BY <1>2 DEF Waiter, Futures
  <1>4. \/ waiters' = waiters
        \/ waiters' = [waiters EXCEPT ![k] = w]
    BY <1>1
  <1>. HIDE DEF w
  <1>5. /\ waiters' \in Seq(Waiter) /\ Len(waiters') = Len(waiters)
        /\ \A j \in 1..Len(waiters) :
             waiters'[j] = waiters[j] \/ waiters'[j].fut = "cancelled"
    BY <1>2, <1>3, <1>4, ExceptSeq
  <1>6. TypeOK' /\ MutualExclusion' /\ RunningHoldsLock'
    BY <1>1, <1>5 DEF IInv, TypeOK, MutualExclusion, RunningHoldsLock, Places
  <1>7. WokenIsFirst'
    BY <1>1, <1>2, <1>5 DEF IInv, WokenIsFirst
  <1>8. NoLostWakeup'
    <2>1. waiters # <<>> <=> waiters' # <<>>
      BY <1>2, <1>5, EmptySeq
    <2>2. QED
      BY <1>1, <1>2, <1>5, <2>1 DEF IInv, NoLostWakeup
  <1>9. QED
    BY <1>6, <1>7, <1>8 DEF IInv

\* On a free lock the task that leaves wakes the next in line, unless the one in
\* front has been woken or will do the same.
LEMMA UnwindIInv ==
    ASSUME IInv, NEW t \in Tasks, Unwind(t)
    PROVE  IInv'
  <1>1. PICK k \in DOMAIN waiters :
           /\ pc[t] = "cancelling"
           /\ waiters' = PassOn(RemoveAt(waiters, k))
           /\ pc' = [pc EXCEPT ![t] = "idle"]
           /\ locked' = locked
    BY DEF Unwind
  <1>. DEFINE rest == RemoveAt(waiters, k)
  <1>2. /\ rest \in Seq(Waiter) /\ Len(rest) = Len(waiters) - 1
        /\ \A j \in 1..Len(waiters) - 1 :
             rest[j] = IF j < k THEN waiters[j] ELSE waiters[j + 1]
    <2>1. waiters \in Seq(Waiter) /\ k \in 1..Len(waiters)
      BY <1>1, LenProperties DEF IInv, TypeOK
    <2>2. QED
      BY <2>1, RemoveAtShifts
  <1>. HIDE DEF rest
  <1>3. ASSUME NEW j \in DOMAIN rest, rest[j].fut = "done"
        PROVE  j = 1 /\ ~locked
    <2>1. j \in 1..Len(waiters) - 1
      BY <1>2, LenProperties
    <2>2. PICK n \in DOMAIN waiters : rest[j] = waiters[n] /\ n >= j
      <3>1. j \in DOMAIN waiters /\ j + 1 \in DOMAIN waiters
        BY <2>1, LenProperties DEF IInv, TypeOK
      <3>2. QED
        BY <1>2, <2>1, <3>1
    <2>3. n = 1 /\ ~locked
      BY <1>3, <2>2 DEF IInv, WokenIsFirst
    <2>4. QED
      BY <2>1, <2>2, <2>3
  <1>4. /\ waiters' \in Seq(Waiter) /\ Len(waiters') = Len(rest)
        /\ \A j \in 2..Len(rest) : waiters'[j] = rest[j]
        /\ locked => waiters' = rest
        /\ ~locked /\ rest # <<>> => waiters'[1].fut # "pending"
    <2>1. waiters' = IF locked THEN rest ELSE WakeFirst(rest)
      BY <1>1 DEF PassOn, rest
    <2>2. /\ WakeFirst(rest) \in Seq(Waiter)
          /\ Len(WakeFirst(rest)) = Len(rest)
          /\ \A j \in 2..Len(rest) : WakeFirst(rest)[j] = rest[j]
          /\ rest # <<>> => WakeFirst(rest)[1].fut # "pending"
      BY <1>2, WakeFirstWakesTheFirst
    <2>3. QED
      BY <1>2, <2>1, <2>2
  <1>5. TypeOK' /\ MutualExclusion' /\ RunningHoldsLock'
    BY <1>1, <1>4 DEF IInv, TypeOK, MutualExclusion, RunningHoldsLock, Places
  <1>6. WokenIsFirst'
    BY <1>1, <1>2, <1>3, <1>4 DEF WokenIsFirst
  <1>7. NoLostWakeup'
    BY <1>1, <1>2, <1>4 DEF NoLostWakeup
  <1>8. QED
    BY <1>5, <1>6, <1>7 DEF IInv

LEMMA FinishIInv ==
    ASSUME IInv, NEW t \in Tasks, Finish(t)
    PROVE  IInv'
  <1>1. /\ pc[t] = "running" /\ locked' = FALSE
        /\ waiters' = WakeFirst(waiters) /\ pc' = [pc EXCEPT ![t] = "idle"]
    BY DEF Finish
  <1>2. /\ waiters' \in Seq(Waiter) /\ Len(waiters') = Len(waiters)
        /\ \A j \in 2..Len(waiters) : waiters'[j] = waiters[j]
        /\ waiters # <<>> => waiters'[1].fut # "pending"
    BY <1>1, WakeFirstWakesTheFirst DEF IInv, TypeOK
  <1>3. TypeOK' /\ MutualExclusion' /\ RunningHoldsLock'
    BY <1>1, <1>2 DEF IInv, TypeOK, MutualExclusion, RunningHoldsLock, Places
  <1>4. WokenIsFirst'
    BY <1>1, <1>2 DEF IInv, TypeOK, WokenIsFirst
  <1>5. NoLostWakeup'
    BY <1>1, <1>2 DEF IInv, TypeOK, NoLostWakeup
  <1>6. QED
    BY <1>3, <1>4, <1>5 DEF IInv

LEMMA NextIInv == IInv /\ [Next]_vars => IInv'
  <1> SUFFICES ASSUME IInv, [Next]_vars PROVE IInv'
    OBVIOUS
  <1>1. ASSUME NEW t \in Scheduled, Run(t) PROVE IInv'
    BY <1>1, AcquireIInv DEF Run, Tasks
  <1>2. ASSUME NEW t \in Manual, TryRunAdmitted(t) PROVE IInv'
    BY <1>2, AcquireIInv DEF TryRunAdmitted, Tasks
  <1>3. ASSUME NEW t \in Manual, TryRunRefused(t) \/ Refusal(t) PROVE IInv'
    BY <1>3 DEF TryRunRefused, Refusal, Tasks, IInv, TypeOK, MutualExclusion,
                RunningHoldsLock, WokenIsFirst, NoLostWakeup, Places
  <1>4. ASSUME NEW t \in Tasks, Resume(t) \/ Cancel(t) \/ Unwind(t) \/ Finish(t)
        PROVE IInv'
    BY <1>4, ResumeIInv, CancelIInv, UnwindIInv, FinishIInv
  <1>5. CASE UNCHANGED vars
    BY <1>5 DEF vars, IInv, TypeOK, MutualExclusion, RunningHoldsLock, WokenIsFirst,
                NoLostWakeup
  <1>6. QED
    BY <1>1, <1>2, <1>3, <1>4, <1>5 DEF Next

LEMMA SpecIInv == Spec => []IInv
  BY InitIInv, NextIInv, PTL DEF Spec

\* Every variable keeps its type, the deque of futures included.
THEOREM SpecTypeOK == Spec => []TypeOK
  BY SpecIInv, PTL DEF IInv

\* class SyncGate: runs through one gate never overlap, for any set of tasks
\* and any interleaving of arrivals, wake-ups and cancellations.
THEOREM SpecMutualExclusion == Spec => []MutualExclusion
  BY SpecIInv, PTL DEF IInv

\* A free lock with a waiter always has a wake-up on its way.
THEOREM SpecNoLostWakeup == Spec => []NoLostWakeup
  BY SpecIInv, PTL DEF IInv

-----------------------------------------------------------------------------
(***************************************************************************)
(* Who is in the deque                                                     *)
(***************************************************************************)

\* A task has one future in the deque at most, only while it waits or is being
\* cancelled, and a cancelled future belongs to a task being cancelled.
OneFutureEach ==
    \A k, l \in DOMAIN waiters : waiters[k].task = waiters[l].task => k = l

OwnersWait ==
    \A k \in DOMAIN waiters :
        /\ pc[waiters[k].task] \in {"waiting", "cancelling"}
        /\ waiters[k].fut = "cancelled" => pc[waiters[k].task] = "cancelling"

LineInv == OneFutureEach /\ OwnersWait

LEMMA OwnersAreTasks ==
    ASSUME NEW q \in Seq(Waiter)
    PROVE  \A k \in DOMAIN q : q[k].task \in Tasks
  <1>1. \A k \in DOMAIN q : q[k] \in Waiter
    BY DomainOf, ElementOfSeq
  <1>2. \A w \in Waiter : w.task \in Tasks
    BY DEF Waiter
  <1>3. QED
    BY <1>1, <1>2

LEMMA AcquireLine ==
    ASSUME IInv, LineInv, NEW t \in Tasks, pc[t] = "idle", Acquire(t)
    PROVE  LineInv'
  <1>1. waiters \in Seq(Waiter) /\ pc \in [Tasks -> Places]
    BY DEF IInv, TypeOK
  <1>2. DOMAIN waiters = 1..Len(waiters) /\ Len(waiters) \in Nat
    BY <1>1, DomainOf
  <1>3. \A k \in 1..Len(waiters) : waiters[k].task # t /\ waiters[k].task \in Tasks
    <2>1. \A k \in 1..Len(waiters) : waiters[k].task \in Tasks
      BY <1>1, <1>2, OwnersAreTasks
    <2>2. QED
      BY <1>2, <2>1 DEF LineInv, OwnersWait
  <1>4. CASE FastPath
    <2>1. waiters' = waiters /\ \A u \in Tasks \ {t} : pc'[u] = pc[u]
      BY <1>1, <1>4 DEF Acquire
    <2>2. QED
      BY <1>2, <1>3, <2>1 DEF LineInv, OneFutureEach, OwnersWait
  <1>5. CASE ~FastPath
    <2> DEFINE w == [task |-> t, fut |-> "pending"]
    <2>1. /\ waiters' = Append(waiters, w)
          /\ pc'[t] = "waiting" /\ \A u \in Tasks \ {t} : pc'[u] = pc[u]
      BY <1>1, <1>5 DEF Acquire
    <2>2. w \in Waiter /\ w.task = t /\ w.fut = "pending"
      BY DEF Waiter, Futures
    <2> HIDE DEF w
    <2>3. /\ waiters' \in Seq(Waiter) /\ Len(waiters') = Len(waiters) + 1
          /\ waiters'[Len(waiters) + 1] = w
          /\ \A k \in 1..Len(waiters) : waiters'[k] = waiters[k]
      BY <1>1, <2>1, <2>2, OneMore
    <2>4. DOMAIN waiters' = 1..Len(waiters) + 1
      BY <2>3, DomainOf
    <2>5. OneFutureEach'
      BY <1>2, <1>3, <2>2, <2>3, <2>4 DEF LineInv, OneFutureEach
    <2>6. OwnersWait'
      BY <1>2, <1>3, <2>1, <2>2, <2>3, <2>4 DEF LineInv, OwnersWait
    <2>7. QED
      BY <2>5, <2>6 DEF LineInv
  <1>6. QED
    BY <1>4, <1>5

\* Taking one future out leaves the others with their tasks.
LEMMA ShorterLine ==
    ASSUME IInv, LineInv, NEW k \in DOMAIN waiters, NEW q \in Seq(Waiter), Len(q) = Len(waiters) - 1,
           \A j \in 1..Len(waiters) - 1 :
             q[j].task = IF j < k THEN waiters[j].task ELSE waiters[j + 1].task
    PROVE  /\ \A i, j \in DOMAIN q : q[i].task = q[j].task => i = j
           /\ \A i \in DOMAIN q : q[i].task \in Tasks /\ q[i].task # waiters[k].task
  <1>1. waiters \in Seq(Waiter)
    BY DEF IInv, TypeOK
  <1>2. DOMAIN waiters = 1..Len(waiters) /\ Len(waiters) \in Nat
    BY <1>1, DomainOf
  <1>3. DOMAIN q = 1..Len(waiters) - 1
    BY DomainOf
  <1>4. \A i \in DOMAIN q : q[i].task \in Tasks
    BY OwnersAreTasks
  <1> DEFINE at(i) == IF i < k THEN i ELSE i + 1
  <1>5. \A i \in DOMAIN q : at(i) \in DOMAIN waiters /\ at(i) # k /\ q[i].task = waiters[at(i)].task
    BY <1>2, <1>3
  <1>6. \A i, j \in DOMAIN q : at(i) = at(j) => i = j
    BY <1>2, <1>3
  <1> HIDE DEF at
  <1>7. ASSUME NEW i \in DOMAIN q, NEW j \in DOMAIN q, q[i].task = q[j].task PROVE i = j
    BY <1>5, <1>6, <1>7 DEF LineInv, OneFutureEach
  <1>8. ASSUME NEW i \in DOMAIN q PROVE q[i].task # waiters[k].task
    BY <1>5 DEF LineInv, OneFutureEach
  <1>9. QED
    BY <1>4, <1>7, <1>8

\* The task that is woken leaves the deque.
LEMMA ResumeLine ==
    ASSUME IInv, LineInv, NEW t \in Tasks, Resume(t)
    PROVE  LineInv'
  <1>1. PICK k \in DOMAIN waiters :
           /\ waiters[k].task = t /\ waiters' = RemoveAt(waiters, k)
           /\ pc' = [pc EXCEPT ![t] = "running"]
    BY DEF Resume
  <1>2. waiters \in Seq(Waiter) /\ k \in 1..Len(waiters) /\ \A u \in Tasks \ {t} : pc'[u] = pc[u]
    BY <1>1, DomainOf DEF IInv, TypeOK
  <1>3. /\ waiters' \in Seq(Waiter) /\ Len(waiters') = Len(waiters) - 1
        /\ \A j \in 1..Len(waiters) - 1 :
             waiters'[j] = IF j < k THEN waiters[j] ELSE waiters[j + 1]
    BY <1>1, <1>2, RemoveAtShifts
  <1>4. /\ \A i, j \in DOMAIN waiters' : waiters'[i].task = waiters'[j].task => i = j
        /\ \A i \in DOMAIN waiters' : waiters'[i].task \in Tasks /\ waiters'[i].task # t
    BY <1>1, <1>3, ShorterLine
  <1>5. \A i \in DOMAIN waiters' : \E n \in DOMAIN waiters : waiters'[i] = waiters[n]
    BY <1>2, <1>3, DomainOf
  <1>6. OwnersWait'
    BY <1>2, <1>4, <1>5 DEF LineInv, OwnersWait
  <1>7. QED
    BY <1>4, <1>6 DEF LineInv, OneFutureEach

LEMMA CancelLine ==
    ASSUME IInv, LineInv, NEW t \in Tasks, Cancel(t)
    PROVE  LineInv'
  <1>1. PICK k \in DOMAIN waiters :
           /\ waiters[k].task = t
           /\ waiters' = IF waiters[k].fut = "pending"
                         THEN [waiters EXCEPT ![k].fut = "cancelled"]
                         ELSE waiters
           /\ pc' = [pc EXCEPT ![t] = "cancelling"]
    BY DEF Cancel
  <1>2. waiters \in Seq(Waiter) /\ k \in 1..Len(waiters) /\ waiters[k] \in Waiter
    BY <1>1, DomainOf, ElementOfSeq DEF IInv, TypeOK
  <1>3. pc'[t] = "cancelling" /\ \A u \in Tasks \ {t} : pc'[u] = pc[u]
    BY <1>1 DEF IInv, TypeOK
  <1> DEFINE w == [waiters[k] EXCEPT !.fut = "cancelled"]
  <1>4. w \in Waiter /\ w.task = t
    BY <1>1, <1>2 DEF Waiter, Futures
  <1>5. waiters' = waiters \/ waiters' = [waiters EXCEPT ![k] = w]
    BY <1>1
  <1> HIDE DEF w
  <1>6. /\ DOMAIN waiters' = DOMAIN waiters
        /\ \A j \in DOMAIN waiters : waiters'[j].task = waiters[j].task
        /\ \A j \in DOMAIN waiters \ {k} : waiters'[j] = waiters[j]
    BY <1>1, <1>2, <1>4, <1>5, ExceptSeq, DomainOf
  <1>7. OneFutureEach'
    BY <1>6 DEF LineInv, OneFutureEach
  <1>8. \A j \in DOMAIN waiters \ {k} : waiters[j].task # t /\ waiters[j].task \in Tasks
    BY <1>1, <1>2, OwnersAreTasks DEF LineInv, OneFutureEach
  <1>9. OwnersWait'
    BY <1>1, <1>3, <1>6, <1>8 DEF LineInv, OwnersWait
  <1>10. QED
    BY <1>7, <1>9 DEF LineInv

\* Waking the first waiter changes no owner and cancels nobody.
LEMMA WakeFirstKeepsOwners ==
    ASSUME NEW q \in Seq(Waiter)
    PROVE  /\ DOMAIN WakeFirst(q) = DOMAIN q
           /\ \A k \in DOMAIN q : /\ WakeFirst(q)[k].task = q[k].task
                                  /\ WakeFirst(q)[k].fut = "cancelled" => q[k].fut = "cancelled"
  <1> DEFINE w == [q[1] EXCEPT !.fut = "done"]
  <1>1. CASE q # <<>> /\ q[1].fut = "pending"
    <2>1. 1 \in 1..Len(q) /\ q[1] \in Waiter
      BY <1>1, EmptySeq, ElementOfSeq
    <2>2. w \in Waiter /\ w.fut = "done" /\ w.task = q[1].task
      BY <2>1 DEF Waiter, Futures
    <2>3. WakeFirst(q) = [q EXCEPT ![1] = w]
      BY <1>1 DEF WakeFirst
    <2>. HIDE DEF w
    <2>4. DOMAIN WakeFirst(q) = DOMAIN q /\ \A j \in DOMAIN q \ {1} : WakeFirst(q)[j] = q[j]
      BY <2>3
    <2>5. WakeFirst(q)[1] = w
      BY <2>1, <2>3, DomainOf
    <2>6. QED
      BY <2>2, <2>4, <2>5
  <1>2. CASE ~(q # <<>> /\ q[1].fut = "pending")
    BY <1>2 DEF WakeFirst
  <1>3. QED
    BY <1>1, <1>2

LEMMA UnwindLine ==
    ASSUME IInv, LineInv, NEW t \in Tasks, Unwind(t)
    PROVE  LineInv'
  <1>1. PICK k \in DOMAIN waiters :
           /\ waiters[k].task = t /\ waiters' = PassOn(RemoveAt(waiters, k))
           /\ pc' = [pc EXCEPT ![t] = "idle"]
    BY DEF Unwind
  <1> DEFINE rest == RemoveAt(waiters, k)
  <1>2. waiters \in Seq(Waiter) /\ k \in 1..Len(waiters) /\ \A u \in Tasks \ {t} : pc'[u] = pc[u]
    BY <1>1, DomainOf DEF IInv, TypeOK
  <1>3. /\ rest \in Seq(Waiter) /\ Len(rest) = Len(waiters) - 1
        /\ \A j \in 1..Len(waiters) - 1 :
             rest[j] = IF j < k THEN waiters[j] ELSE waiters[j + 1]
    BY <1>2, RemoveAtShifts
  <1> HIDE DEF rest
  <1>4. /\ \A i, j \in DOMAIN rest : rest[i].task = rest[j].task => i = j
        /\ \A i \in DOMAIN rest : rest[i].task \in Tasks /\ rest[i].task # t
    BY <1>1, <1>3, ShorterLine
  <1>5. \A i \in DOMAIN rest : \E n \in DOMAIN waiters : rest[i] = waiters[n]
    BY <1>2, <1>3, DomainOf
  <1>6. waiters' = rest \/ waiters' = WakeFirst(rest)
    BY <1>1 DEF PassOn, rest
  <1>7. /\ DOMAIN waiters' = DOMAIN rest
        /\ \A i \in DOMAIN rest : /\ waiters'[i].task = rest[i].task
                                  /\ waiters'[i].fut = "cancelled" => rest[i].fut = "cancelled"
    BY <1>3, <1>6, WakeFirstKeepsOwners
  <1>8. OneFutureEach'
    BY <1>4, <1>7 DEF OneFutureEach
  <1>9. ASSUME NEW i \in DOMAIN rest
        PROVE  /\ pc'[rest[i].task] \in {"waiting", "cancelling"}
               /\ rest[i].fut = "cancelled" => pc'[rest[i].task] = "cancelling"
    BY <1>2, <1>4, <1>5 DEF LineInv, OwnersWait
  <1>10. OwnersWait'
    BY <1>7, <1>9 DEF OwnersWait
  <1>11. QED
    BY <1>8, <1>10 DEF LineInv

LEMMA FinishLine ==
    ASSUME IInv, LineInv, NEW t \in Tasks, Finish(t)
    PROVE  LineInv'
  <1>1. pc[t] = "running" /\ waiters' = WakeFirst(waiters) /\ pc' = [pc EXCEPT ![t] = "idle"]
    BY DEF Finish
  <1>2. waiters \in Seq(Waiter) /\ \A u \in Tasks \ {t} : pc'[u] = pc[u]
    BY <1>1 DEF IInv, TypeOK
  <1>3. /\ DOMAIN waiters' = DOMAIN waiters
        /\ \A i \in DOMAIN waiters : /\ waiters'[i].task = waiters[i].task
                                     /\ waiters'[i].fut = "cancelled" => waiters[i].fut = "cancelled"
    BY <1>1, <1>2, WakeFirstKeepsOwners
  <1>4. \A i \in DOMAIN waiters : waiters[i].task \in Tasks /\ waiters[i].task # t
    BY <1>1, <1>2, OwnersAreTasks DEF LineInv, OwnersWait
  <1>5. OneFutureEach'
    BY <1>3 DEF LineInv, OneFutureEach
  <1>6. OwnersWait'
    BY <1>2, <1>3, <1>4 DEF LineInv, OwnersWait
  <1>7. QED
    BY <1>5, <1>6 DEF LineInv

LEMMA NextLine == IInv /\ LineInv /\ [Next]_vars => LineInv'
  <1> SUFFICES ASSUME IInv, LineInv, [Next]_vars PROVE LineInv'
    OBVIOUS
  <1>1. ASSUME NEW t \in Scheduled, Run(t) PROVE LineInv'
    BY <1>1, AcquireLine DEF Run, Tasks
  <1>2. ASSUME NEW t \in Manual, TryRunAdmitted(t) PROVE LineInv'
    BY <1>2, AcquireLine DEF TryRunAdmitted, Tasks
  <1>3. ASSUME NEW t \in Manual, TryRunRefused(t) \/ Refusal(t) PROVE LineInv'
    <2>1. /\ t \in Tasks /\ pc[t] \in {"idle", "refused"} /\ waiters' = waiters
          /\ \A u \in Tasks \ {t} : pc'[u] = pc[u]
      BY <1>3 DEF TryRunRefused, Refusal, Tasks, IInv, TypeOK
    <2>2. \A k \in DOMAIN waiters : waiters[k].task \in Tasks /\ waiters[k].task # t
      BY <2>1, OwnersAreTasks DEF LineInv, OwnersWait, IInv, TypeOK
    <2>3. QED
      BY <2>1, <2>2 DEF LineInv, OneFutureEach, OwnersWait
  <1>4. ASSUME NEW t \in Tasks, Resume(t) \/ Cancel(t) \/ Unwind(t) \/ Finish(t)
        PROVE LineInv'
    BY <1>4, ResumeLine, CancelLine, UnwindLine, FinishLine
  <1>5. CASE UNCHANGED vars
    BY <1>5 DEF vars, LineInv, OneFutureEach, OwnersWait
  <1>6. QED
    BY <1>1, <1>2, <1>3, <1>4, <1>5 DEF Next




-----------------------------------------------------------------------------
(***************************************************************************)
(* The first-come first-served lock                                        *)
(***************************************************************************)

TasksOf(q) == [k \in DOMAIN q |-> q[k].task]

LEMMA TasksOfList ==
    ASSUME NEW q \in Seq(Waiter)
    PROVE  /\ TasksOf(q) \in Seq(Tasks) /\ Len(TasksOf(q)) = Len(q) /\ DOMAIN TasksOf(q) = 1..Len(q)
           /\ \A k \in 1..Len(q) : TasksOf(q)[k] = q[k].task
  <1>1. DOMAIN q = 1..Len(q) /\ Len(q) \in Nat
    BY DomainOf
  <1>2. \A k \in 1..Len(q) : q[k].task \in Tasks
    BY <1>1, OwnersAreTasks
  <1> DEFINE s == TasksOf(q)
  <1>3. s = [k \in 1..Len(q) |-> s[k]] /\ \A k \in 1..Len(q) : s[k] = q[k].task
    BY <1>1 DEF TasksOf
  <1> HIDE DEF s
  <1>4. s \in Seq(Tasks) /\ Len(s) = Len(q) /\ DOMAIN s = 1..Len(q)
    BY <1>1, <1>2, <1>3, WrittenOut
  <1>5. QED
    BY <1>3, <1>4 DEF s

\* A deque with the same owners makes the same queue.
LEMMA SameOwners ==
    ASSUME NEW q \in Seq(Waiter), NEW r \in Seq(Waiter), DOMAIN q = DOMAIN r,
           \A k \in DOMAIN q : q[k].task = r[k].task
    PROVE  TasksOf(q) = TasksOf(r)
  BY DEF TasksOf

LEMMA TasksOfRemoved ==
    ASSUME NEW q \in Seq(Waiter), NEW k \in 1..Len(q)
    PROVE  TasksOf(RemoveAt(q, k)) = RemoveAt(TasksOf(q), k)
  <1> DEFINE r == RemoveAt(q, k)
             s == TasksOf(q)
  <1>1. /\ r \in Seq(Waiter) /\ Len(r) = Len(q) - 1
        /\ \A j \in 1..Len(q) - 1 : r[j] = IF j < k THEN q[j] ELSE q[j + 1]
    BY RemoveAtShifts
  <1>2. s \in Seq(Tasks) /\ Len(s) = Len(q) /\ \A j \in 1..Len(q) : s[j] = q[j].task
    BY TasksOfList
  <1> HIDE DEF r, s
  <1> DEFINE u == RemoveAt(s, k)
             v == TasksOf(r)
  <1>3. /\ u \in Seq(Tasks) /\ Len(u) = Len(q) - 1
        /\ \A j \in 1..Len(q) - 1 : u[j] = IF j < k THEN s[j] ELSE s[j + 1]
    BY <1>2, RemoveAtShifts
  <1>4. v \in Seq(Tasks) /\ Len(v) = Len(q) - 1 /\ \A j \in 1..Len(q) - 1 : v[j] = r[j].task
    BY <1>1, TasksOfList
  <1> HIDE DEF u, v
  <1>5. \A j \in 1..Len(q) - 1 : j \in 1..Len(q) /\ j + 1 \in 1..Len(q)
    BY DomainOf
  <1>6. \A j \in 1..Len(q) - 1 : u[j] = v[j]
    BY <1>1, <1>2, <1>3, <1>4, <1>5
  <1>7. u = v
    BY <1>3, <1>4, <1>6, SeqEqual
  <1>8. QED
    BY <1>7 DEF r, s, u, v

\* What was not selected can leave the list unnoticed.
LEMMA AmongWithout ==
    ASSUME NEW X, NEW s \in Seq(X), NEW k \in 1..Len(s), NEW S, s[k] \notin S
    PROVE  Among(RemoveAt(s, k), S) = Among(s, S)
  <1> DEFINE front == SubSeq(s, 1, k - 1)
             one   == <<s[k]>>
             back  == SubSeq(s, k + 1, Len(s))
             end   == one \o back
             whole == front \o end
  <1>1. /\ front \in Seq(X) /\ Len(front) = k - 1
        /\ \A j \in 1..k - 1 : front[j] = s[j]
    OBVIOUS
  <1>2. /\ back \in Seq(X) /\ Len(back) = Len(s) - k
        /\ \A j \in 1..Len(s) - k : back[j] = s[k + j]
    OBVIOUS
  <1>3. one \in Seq(X) /\ Len(one) = 1 /\ one[1] = s[k]
    OBVIOUS
  <1>4. RemoveAt(s, k) = front \o back
    BY DEF RemoveAt
  <1>5. Among(one, S) = <<>>
    BY AmongOne
  <1> HIDE DEF front, one, back
  <1>6. /\ end \in Seq(X) /\ Len(end) = 1 + (Len(s) - k)
        /\ \A j \in 1..1 + (Len(s) - k) : end[j] = IF j <= 1 THEN one[j] ELSE back[j - 1]
    <2>1. /\ end \in Seq(X) /\ Len(end) = Len(one) + Len(back)
          /\ \A j \in 1..Len(one) + Len(back) :
               end[j] = IF j <= Len(one) THEN one[j] ELSE back[j - Len(one)]
      BY <1>2, <1>3, ConcatProperties
    <2>2. Len(one) = 1 /\ Len(back) = Len(s) - k
      BY <1>2, <1>3
    <2> HIDE DEF end
    <2>3. QED
      BY <2>1, <2>2
  <1>7. Among(end, S) = Among(back, S)
    <2>1. Among(end, S) = Among(one, S) \o Among(back, S)
      BY <1>2, <1>3, AmongConcat
    <2>2. Among(back, S) \in Seq(X)
      BY <1>2, AmongProperties
    <2>3. QED
      BY <1>5, <2>1, <2>2
  <1> HIDE DEF end
  <1>8. /\ whole \in Seq(X) /\ Len(whole) = Len(front) + Len(end)
        /\ \A j \in 1..Len(front) + Len(end) :
             whole[j] = IF j <= Len(front) THEN front[j] ELSE end[j - Len(front)]
    BY <1>1, <1>6, ConcatProperties
  <1>9. Among(whole, S) = Among(front, S) \o Among(end, S)
    BY <1>1, <1>6, AmongConcat
  <1>10. Among(front \o back, S) = Among(front, S) \o Among(back, S)
    BY <1>1, <1>2, AmongConcat
  <1> HIDE DEF whole
  <1>11. Len(s) \in Nat /\ k \in 1..Len(s) /\ Len(whole) = Len(s)
    BY <1>1, <1>6, <1>8
  <1>12. ASSUME NEW j \in 1..Len(s) PROVE whole[j] = s[j]
    <2>1. CASE j < k
      <3>1. j \in 1..k - 1 /\ j <= Len(front) /\ j \in 1..Len(front) + Len(end)
        BY <1>1, <1>8, <1>11, <2>1
      <3>2. QED
        BY <1>1, <1>8, <3>1
    <2>2. CASE j = k
      <3>1. ~(j <= Len(front)) /\ j - Len(front) = 1 /\ j \in 1..Len(front) + Len(end)
        BY <1>1, <1>8, <1>11, <2>2
      <3>2. whole[j] = end[1] /\ end[1] = one[1]
        <4>1. 1 \in 1..1 + (Len(s) - k) /\ 1 <= 1
          BY <1>11
        <4>2. QED
          BY <1>6, <1>8, <3>1, <4>1
      <3>3. QED
        BY <1>3, <2>2, <3>2
    <2>3. CASE k < j
      <3>1. /\ ~(j <= Len(front)) /\ j - Len(front) = j - k + 1 /\ j \in 1..Len(front) + Len(end)
            /\ j - k + 1 \in 1..1 + (Len(s) - k) /\ ~(j - k + 1 <= 1) /\ j - k + 1 - 1 = j - k
            /\ j - k \in 1..Len(s) - k /\ k + (j - k) = j
        BY <1>1, <1>8, <1>11, <2>3
      <3>2. whole[j] = end[j - k + 1]
        BY <1>8, <3>1
      <3>3. end[j - k + 1] = back[j - k]
        <4> DEFINE i == j - k + 1
        <4>1. i \in 1..1 + (Len(s) - k) /\ ~(i <= 1) /\ i - 1 = j - k
          BY <3>1
        <4> HIDE DEF i
        <4>2. end[i] = back[i - 1]
          BY <1>6, <4>1
        <4>3. QED
          BY <4>1, <4>2 DEF i
      <3>4. QED
        BY <1>2, <3>1, <3>2, <3>3
    <2>4. QED
      BY <1>11, <2>1, <2>2, <2>3
  <1>13. whole = s
    BY <1>8, <1>11, <1>12, SeqEqual
  <1>14. QED
    BY <1>4, <1>7, <1>9, <1>10, <1>13

LineFacts ==
    /\ Line = Among(TasksOf(waiters), Queued)
    /\ TasksOf(waiters) \in Seq(Tasks)
    /\ Line \in Seq(Tasks)
    /\ ToSet(Line) \subseteq Queued

HolderFacts ==
    /\ \A t \in Tasks : pc[t] = "running" => Holder = t
    /\ (\A t \in Tasks : pc[t] # "running") => Holder = Nobody
    /\ \A t \in Tasks : Holder = t => pc[t] = "running"

LEMMA LineIs == IInv => LineFacts
  <1> SUFFICES ASSUME IInv PROVE LineFacts
    OBVIOUS
  <1>1. Line = Among(TasksOf(waiters), Queued)
    BY DEF Line, TasksOf
  <1>2. TasksOf(waiters) \in Seq(Tasks)
    BY TasksOfList DEF IInv, TypeOK
  <1>3. ToSet(Line) = ToSet(TasksOf(waiters)) \cap Queued
    BY <1>1, <1>2, AmongSet
  <1>4. Line \in Seq(Tasks)
    BY <1>1, <1>2, AmongProperties
  <1>5. QED
    BY <1>1, <1>2, <1>3, <1>4 DEF LineFacts

LEMMA HolderIs == IInv => HolderFacts
  <1> SUFFICES ASSUME IInv PROVE HolderFacts
    OBVIOUS
  <1>1. ASSUME NEW t \in Tasks, pc[t] = "running" PROVE Holder = t
    <2>1. \E u \in Tasks : pc[u] = "running"
      BY <1>1
    <2>2. Holder = CHOOSE u \in Tasks : pc[u] = "running"
      BY <2>1 DEF Holder
    <2>3. Holder \in Tasks /\ pc[Holder] = "running"
      BY <2>1, <2>2
    <2>4. QED
      BY <1>1, <2>3 DEF IInv, MutualExclusion
  <1>2. ASSUME \A t \in Tasks : pc[t] # "running" PROVE Holder = Nobody
    BY <1>2 DEF Holder
  <1>3. ASSUME NEW t \in Tasks, Holder = t PROVE pc[t] = "running"
    <2>1. CASE \E u \in Tasks : pc[u] = "running"
      BY <1>1, <1>3, <2>1
    <2>2. CASE ~ \E u \in Tasks : pc[u] = "running"
      BY <1>2, <1>3, <2>2, SyncGateAssumption DEF Tasks
    <2>3. QED
      BY <2>1, <2>2
  <1>4. QED
    BY <1>1, <1>2, <1>3 DEF HolderFacts

LEMMA NextFacts == IInv' => LineFacts' /\ HolderFacts'
  BY LineIs, HolderIs, PTL

\* A step that leaves the running tasks alone leaves the holder alone.
LEMMA SameHolder ==
    ASSUME HolderFacts, HolderFacts', \A t \in Tasks : pc[t] = "running" <=> pc'[t] = "running"
    PROVE  Holder' = Holder
  <1>1. CASE \E t \in Tasks : pc[t] = "running"
    <2>1. PICK t \in Tasks : pc[t] = "running" /\ pc'[t] = "running"
      BY <1>1
    <2>2. Holder = t /\ Holder' = t
      BY <2>1 DEF HolderFacts
    <2>3. QED
      BY <2>2
  <1>2. CASE ~ \E t \in Tasks : pc[t] = "running"
    <2>1. Holder = Nobody
      BY <1>2 DEF HolderFacts
    <2>2. Holder' = Nobody
      BY <1>2 DEF HolderFacts
    <2>3. QED
      BY <2>1, <2>2
  <1>3. QED
    BY <1>1, <1>2

\* An idle task is outside the gate.
LEMMA IdleIsOutside ==
    ASSUME LineFacts, HolderFacts, NEW t \in Tasks, pc[t] = "idle"
    PROVE  Gate!Outside(t)
  <1>1. Holder # t
    BY DEF HolderFacts
  <1>2. t \notin ToSet(Line)
    BY DEF LineFacts, Queued
  <1>3. QED
    BY <1>1, <1>2 DEF Gate!Outside, Gate!ToSet, ToSet

\* The same queue, from a deque with the same owners.
LEMMA SameLine ==
    ASSUME LineFacts, LineFacts', TasksOf(waiters') = TasksOf(waiters),
           \A t \in Tasks : pc[t] = "waiting" <=> pc'[t] = "waiting"
    PROVE  Line' = Line
  <1>1. Queued' = Queued
    BY DEF Queued
  <1>2. Line' = Among(TasksOf(waiters'), Queued')
    BY DEF LineFacts
  <1>3. QED
    BY <1>1, <1>2 DEF LineFacts

LEMMA AcquireRefines ==
    ASSUME IInv, LineInv, LineFacts, HolderFacts, LineFacts', HolderFacts',
           NEW t \in Tasks, pc[t] = "idle", Acquire(t)
    PROVE  Gate!Take(t) \/ Gate!Enter(t)
  <1>1. waiters \in Seq(Waiter) /\ DOMAIN waiters = 1..Len(waiters) /\ pc \in [Tasks -> Places]
    BY DomainOf DEF IInv, TypeOK
  <1>2. Gate!Outside(t)
    BY IdleIsOutside
  <1>3. \A k \in 1..Len(waiters) : TasksOf(waiters)[k] = waiters[k].task
    BY <1>1, TasksOfList
  <1>4. CASE FastPath
    <2>1. /\ waiters' = waiters /\ pc' = [pc EXCEPT ![t] = "running"]
          /\ ~locked /\ \A k \in DOMAIN waiters : waiters[k].fut = "cancelled"
      BY <1>4 DEF Acquire, FastPath
    <2>2. Holder = Nobody
      BY <2>1 DEF HolderFacts, IInv, RunningHoldsLock
    <2>3. \A k \in 1..Len(TasksOf(waiters)) : TasksOf(waiters)[k] \notin Queued
      <3>1. \A k \in 1..Len(waiters) : waiters[k].task \notin Queued
        BY <1>1, <2>1 DEF LineInv, OwnersWait, Queued
      <3>2. Len(TasksOf(waiters)) = Len(waiters)
        BY <1>1, TasksOfList
      <3>3. QED
        BY <1>3, <3>1, <3>2
    <2>4. Line = <<>>
      BY <2>3, AmongNothing DEF LineFacts
    <2>5. Line' = Line
      <3>1. \A u \in Tasks : pc[u] = "waiting" <=> pc'[u] = "waiting"
        BY <1>1, <2>1
      <3>2. QED
        BY <2>1, <3>1, SameLine
    <2>6. Holder' = t
      BY <1>1, <2>1 DEF HolderFacts
    <2>7. QED
      BY <1>2, <2>2, <2>4, <2>5, <2>6 DEF Gate!Take
  <1>5. CASE ~FastPath
    <2> DEFINE w == [task |-> t, fut |-> "pending"]
               s == TasksOf(waiters)
    <2>1. waiters' = Append(waiters, w) /\ pc' = [pc EXCEPT ![t] = "waiting"]
      BY <1>5 DEF Acquire
    <2>2. w \in Waiter /\ w.task = t
      BY DEF Waiter, Futures
    <2> HIDE DEF w
    <2>3. TasksOf(waiters') = Append(s, t)
      <3> DEFINE q == waiters'
                 l == TasksOf(q)
                 r == Append(s, t)
      <3>1. /\ q \in Seq(Waiter) /\ Len(q) = Len(waiters) + 1 /\ q[Len(waiters) + 1] = w
            /\ \A k \in 1..Len(waiters) : q[k] = waiters[k]
        BY <1>1, <2>1, <2>2, OneMore
      <3>2. s \in Seq(Tasks) /\ Len(s) = Len(waiters) /\ Len(waiters) \in Nat
        BY <1>1, TasksOfList
      <3> HIDE DEF q, s
      <3>3. l \in Seq(Tasks) /\ Len(l) = Len(q) /\ \A k \in 1..Len(q) : l[k] = q[k].task
        BY <3>1, TasksOfList
      <3>4. /\ r \in Seq(Tasks) /\ Len(r) = Len(s) + 1 /\ r[Len(s) + 1] = t
            /\ \A k \in 1..Len(s) : r[k] = s[k]
        BY <3>2, OneMore
      <3> HIDE DEF l, r
      <3>5. \A k \in 1..Len(waiters) : s[k] = waiters[k].task
        BY <1>3 DEF s
      <3>6. \A k \in 1..Len(l) : l[k] = r[k]
        BY <2>2, <3>1, <3>2, <3>3, <3>4, <3>5
      <3>7. l = r
        BY <3>1, <3>2, <3>3, <3>4, <3>6, SeqEqual
      <3>8. QED
        BY <3>7 DEF l, r, q
    <2>4. Line' = Among(Append(s, t), Queued \cup {t})
      <3>1. Queued' = Queued \cup {t}
        BY <1>1, <2>1 DEF Queued
      <3>2. Line' = Among(TasksOf(waiters'), Queued')
        BY DEF LineFacts
      <3>3. QED
        BY <2>3, <3>1, <3>2
    <2>5. s \in Seq(Tasks) /\ Line = Among(s, Queued)
      BY DEF LineFacts
    <2> HIDE DEF s
    <2>6. Among(Append(s, t), Queued \cup {t}) = Append(Among(s, Queued \cup {t}), t)
      BY <2>5, AmongAppend
    <2>7. Among(s, Queued \cup {t}) = Among(s, Queued)
      <3>1. \A k \in 1..Len(waiters) : waiters[k].task # t
        BY <1>1 DEF LineInv, OwnersWait
      <3>2. Len(s) = Len(waiters)
        BY <1>1, TasksOfList DEF s
      <3>3. \A k \in 1..Len(s) : s[k] \in Queued \cup {t} <=> s[k] \in Queued
        BY <1>3, <3>1, <3>2 DEF s
      <3> DEFINE Q == Queued
                 R == Queued \cup {t}
      <3>4. \A k \in 1..Len(s) : s[k] \in R <=> s[k] \in Q
        BY <3>3
      <3> HIDE DEF Q, R
      <3>5. Among(s, R) = Among(s, Q)
        BY <2>5, <3>4, AmongSame
      <3>6. QED
        BY <3>5 DEF Q, R
    <2>8. Line' = Append(Line, t)
      BY <2>4, <2>5, <2>6, <2>7
    <2>9. Holder' = Holder
      <3>1. \A u \in Tasks : pc[u] = "running" <=> pc'[u] = "running"
        BY <1>1, <2>1
      <3>2. QED
        BY <3>1, SameHolder
    <2>10. QED
      BY <1>2, <2>8, <2>9 DEF Gate!Enter
  <1>6. QED
    BY <1>4, <1>5

\* The woken waiter is the first of the queue.
LEMMA ResumeRefines ==
    ASSUME IInv, LineInv, LineFacts, HolderFacts, LineFacts', HolderFacts', NEW t \in Tasks, Resume(t)
    PROVE  Gate!Grant
  <1>1. PICK k \in DOMAIN waiters :
           /\ pc[t] = "waiting"
           /\ waiters[k].task = t /\ waiters[k].fut = "done"
           /\ waiters' = RemoveAt(waiters, k)
           /\ pc' = [pc EXCEPT ![t] = "running"]
    BY DEF Resume
  <1>2. k = 1 /\ ~locked
    BY <1>1 DEF IInv, WokenIsFirst
  <1>3. waiters \in Seq(Waiter) /\ DOMAIN waiters = 1..Len(waiters) /\ pc \in [Tasks -> Places]
    BY DomainOf DEF IInv, TypeOK
  <1>4. Holder = Nobody
    BY <1>2 DEF HolderFacts, IInv, RunningHoldsLock
  <1>5. Holder' = t
    BY <1>1, <1>3 DEF HolderFacts
  <1> DEFINE s == TasksOf(waiters)
  <1>6. /\ s \in Seq(Tasks) /\ Len(s) = Len(waiters) /\ 1 \in 1..Len(s)
        /\ \A j \in 1..Len(s) : s[j] = waiters[j].task
    BY <1>1, <1>2, <1>3, TasksOfList
  <1>7. TasksOf(waiters') = RemoveAt(s, 1)
    BY <1>1, <1>2, <1>3, TasksOfRemoved
  <1>8. s[1] = t /\ \A j \in 1..Len(s) : s[j] = t => j = 1
    BY <1>1, <1>2, <1>3, <1>6 DEF LineInv, OneFutureEach
  <1>9. Line = Among(s, Queued) /\ Line' = Among(RemoveAt(s, 1), Queued')
    BY <1>7 DEF LineFacts
  <1>10. Queued' = Queued \ {t} /\ t \in Queued
    BY <1>1, <1>3 DEF Queued
  <1> HIDE DEF s
  <1> DEFINE r == Tail(s)
             Q == Queued
             R == Queued \ {t}
  <1>11. /\ s # <<>> /\ r \in Seq(Tasks) /\ Len(r) = Len(s) - 1
         /\ \A j \in 1..Len(s) - 1 : r[j] = s[j + 1]
    BY <1>6, EmptySeq, RestOfList
  <1>12. RemoveAt(s, 1) = r
    <2> DEFINE u == RemoveAt(s, 1)
    <2>1. /\ u \in Seq(Tasks) /\ Len(u) = Len(s) - 1
          /\ \A j \in 1..Len(s) - 1 : u[j] = IF j < 1 THEN s[j] ELSE s[j + 1]
      BY <1>6, RemoveAtShifts
    <2> HIDE DEF u, r
    <2>2. \A j \in 1..Len(s) - 1 : u[j] = r[j]
      BY <1>11, <2>1
    <2>3. u = r
      BY <1>11, <2>1, <2>2, SeqEqual
    <2>4. QED
      BY <2>3 DEF u
  <1>13. t \in Q /\ \A j \in 1..Len(r) : r[j] \in R <=> r[j] \in Q
    <2>1. Len(s) \in Nat
      BY <1>6
    <2>2. ASSUME NEW j \in 1..Len(r) PROVE r[j] # t
      <3>1. j + 1 \in 1..Len(s) /\ j + 1 # 1 /\ j \in 1..Len(s) - 1
        BY <1>11, <2>1
      <3> HIDE DEF r
      <3>2. QED
        BY <1>8, <1>11, <3>1
    <2> HIDE DEF r
    <2>3. QED
      BY <1>10, <2>2
  <1>14. Among(s, Q) = <<t>> \o Among(r, Q)
    <2> HIDE DEF Q
    <2>1. QED
      BY <1>6, <1>8, <1>11, <1>13, AmongRest
  <1> HIDE DEF r, Q, R
  <1>15. Among(r, R) = Among(r, Q)
    BY <1>11, <1>13, AmongSame
  <1> DEFINE a == Among(r, Q)
  <1>16. a \in Seq(Tasks)
    BY <1>11, AmongProperties
  <1>17. Line = <<t>> \o a /\ Line' = a
    BY <1>9, <1>10, <1>12, <1>14, <1>15 DEF Q, R
  <1> HIDE DEF a
  <1>18. Line # <<>> /\ Head(Line) = t /\ Tail(Line) = a
    <2> DEFINE whole == <<t>> \o a
    <2>1. whole # <<>> /\ Head(whole) = t /\ Tail(whole) = a
      BY <1>16
    <2>2. QED
      BY <1>17, <2>1
  <1>19. QED
    BY <1>4, <1>5, <1>17, <1>18 DEF Gate!Grant

\* A task that is cancelled leaves the queue and the others keep their places.
LEMMA CancelRefines ==
    ASSUME IInv, LineInv, LineFacts, HolderFacts, LineFacts', HolderFacts', NEW t \in Tasks, Cancel(t)
    PROVE  Gate!Leave(t)
  <1>1. PICK k \in DOMAIN waiters :
           /\ pc[t] = "waiting"
           /\ waiters[k].task = t
           /\ waiters' = IF waiters[k].fut = "pending"
                         THEN [waiters EXCEPT ![k].fut = "cancelled"]
                         ELSE waiters
           /\ pc' = [pc EXCEPT ![t] = "cancelling"]
    BY DEF Cancel
  <1>2. /\ waiters \in Seq(Waiter) /\ DOMAIN waiters = 1..Len(waiters) /\ pc \in [Tasks -> Places]
        /\ k \in 1..Len(waiters) /\ waiters[k] \in Waiter
    BY <1>1, DomainOf, ElementOfSeq DEF IInv, TypeOK
  <1> DEFINE w == [waiters[k] EXCEPT !.fut = "cancelled"]
  <1>3. w \in Waiter /\ w.task = t
    BY <1>1, <1>2 DEF Waiter, Futures
  <1>4. waiters' = waiters \/ waiters' = [waiters EXCEPT ![k] = w]
    BY <1>1
  <1> HIDE DEF w
  <1>5. /\ waiters' \in Seq(Waiter) /\ DOMAIN waiters' = DOMAIN waiters
        /\ \A j \in DOMAIN waiters : waiters'[j].task = waiters[j].task
    BY <1>1, <1>2, <1>3, <1>4, ExceptSeq, DomainOf
  <1>6. TasksOf(waiters') = TasksOf(waiters)
    BY <1>2, <1>5, SameOwners
  <1> DEFINE s == TasksOf(waiters)
             Q == Queued
             R == Queued \ {t}
             T == ToSet(Line) \ {t}
  <1>7. Queued' = R /\ t \in Q
    BY <1>1, <1>2 DEF Queued
  <1>8. /\ s \in Seq(Tasks) /\ Len(s) = Len(waiters) /\ \A j \in 1..Len(s) : s[j] = waiters[j].task
    BY <1>2, TasksOfList
  <1>9. s \in Seq(Tasks) /\ Line = Among(s, Q) /\ Line' = Among(s, R)
    BY <1>6, <1>7 DEF LineFacts
  <1>10. \A j \in 1..Len(s) : s[j] \in ToSet(s)
    <2> HIDE DEF s
    <2> QED BY <1>9, ListSet
  <1>11. ToSet(Line) = ToSet(s) \cap Q
    <2> HIDE DEF s, Q
    <2> QED BY <1>9, AmongSet
  <1>12. t \in ToSet(Line)
    BY <1>1, <1>2, <1>7, <1>8, <1>10, <1>11
  <1>13. \A j \in 1..Len(s) : s[j] \in R <=> s[j] \in Q \cap T
    BY <1>10, <1>11
  <1> HIDE DEF s, Q, R, T
  <1>14. Among(Line, T) = Among(s, Q \cap T)
    BY <1>9, AmongTwice
  <1> DEFINE U == Q \cap T
  <1>15. \A j \in 1..Len(s) : s[j] \in R <=> s[j] \in U
    BY <1>13
  <1> HIDE DEF U
  <1>16. Among(s, R) = Among(s, U)
    BY <1>9, <1>15, AmongSame
  <1>17. Line' = Among(Line, T)
    BY <1>9, <1>14, <1>16 DEF U
  <1>18. Holder' = Holder
    <2>1. \A u \in Tasks : pc[u] = "running" <=> pc'[u] = "running"
      BY <1>1, <1>2
    <2>2. QED
      BY <2>1, SameHolder
  <1>19. Gate!Among(Line, T) = Among(Line, T) /\ Gate!ToSet(Line) = ToSet(Line)
    <2>1. Gate!Among(Line, T) = Among(Line, T)
      BY Zenon DEF Gate!Among, Among
    <2>2. Gate!ToSet(Line) = ToSet(Line)
      BY Zenon DEF Gate!ToSet, ToSet
    <2>3. QED
      BY <2>1, <2>2
  <1>20. QED
    BY <1>12, <1>17, <1>18, <1>19 DEF Gate!Leave, T

\* The task that unwinds was in the queue no more.
LEMMA UnwindRefines ==
    ASSUME IInv, LineInv, LineFacts, HolderFacts, LineFacts', HolderFacts', NEW t \in Tasks, Unwind(t)
    PROVE  Line' = Line /\ Holder' = Holder
  <1>1. PICK k \in DOMAIN waiters :
           /\ pc[t] = "cancelling" /\ waiters[k].task = t
           /\ waiters' = PassOn(RemoveAt(waiters, k))
           /\ pc' = [pc EXCEPT ![t] = "idle"]
    BY DEF Unwind
  <1>2. /\ waiters \in Seq(Waiter) /\ k \in 1..Len(waiters) /\ pc \in [Tasks -> Places]
    BY <1>1, DomainOf DEF IInv, TypeOK
  <1> DEFINE rest == RemoveAt(waiters, k)
             s == TasksOf(waiters)
  <1>3. rest \in Seq(Waiter)
    BY <1>2, RemoveAtShifts
  <1>4. TasksOf(rest) = RemoveAt(s, k)
    BY <1>2, TasksOfRemoved
  <1>5. waiters' = rest \/ waiters' = WakeFirst(rest)
    BY <1>1 DEF PassOn
  <1>6. s \in Seq(Tasks) /\ k \in 1..Len(s) /\ s[k] = t
    BY <1>1, <1>2, TasksOfList
  <1> HIDE DEF rest, s
  <1>7. TasksOf(waiters') = TasksOf(rest)
    <2>1. CASE waiters' = rest
      BY <2>1
    <2>2. CASE waiters' = WakeFirst(rest)
      <3>1. WakeFirst(rest) \in Seq(Waiter)
        BY <1>3, WakeFirstWakesTheFirst
      <3>2. /\ DOMAIN WakeFirst(rest) = DOMAIN rest
            /\ \A j \in DOMAIN rest : WakeFirst(rest)[j].task = rest[j].task
        BY <1>3, WakeFirstKeepsOwners
      <3>3. TasksOf(WakeFirst(rest)) = TasksOf(rest)
        BY <1>3, <3>1, <3>2, SameOwners
      <3>4. QED
        BY <2>2, <3>3
    <2>3. QED
      BY <1>5, <2>1, <2>2
  <1>8. Queued' = Queued /\ t \notin Queued
    BY <1>1, <1>2 DEF Queued
  <1>9. Among(RemoveAt(s, k), Queued) = Among(s, Queued)
    <2> DEFINE Q == Queued
    <2>1. s[k] \notin Q
      BY <1>6, <1>8
    <2> HIDE DEF Q
    <2>2. Among(RemoveAt(s, k), Q) = Among(s, Q)
      BY <1>6, <2>1, AmongWithout
    <2>3. QED
      BY <2>2 DEF Q
  <1>10. Line' = Among(TasksOf(waiters'), Queued') /\ Line = Among(s, Queued)
    BY DEF LineFacts, s
  <1>11. Line' = Line
    BY <1>4, <1>7, <1>8, <1>9, <1>10
  <1>12. Holder' = Holder
    <2>1. \A u \in Tasks : pc[u] = "running" <=> pc'[u] = "running"
      BY <1>1, <1>2
    <2>2. QED
      BY <2>1, SameHolder
  <1>13. QED
    BY <1>11, <1>12

LEMMA FinishRefines ==
    ASSUME IInv, LineInv, LineFacts, HolderFacts, IInv', LineFacts', HolderFacts',
           NEW t \in Tasks, Finish(t)
    PROVE  Gate!Release
  <1>1. /\ pc[t] = "running" /\ locked' = FALSE
        /\ waiters' = WakeFirst(waiters) /\ pc' = [pc EXCEPT ![t] = "idle"]
    BY DEF Finish
  <1>2. waiters \in Seq(Waiter) /\ pc \in [Tasks -> Places]
    BY DEF IInv, TypeOK
  <1>3. TasksOf(waiters') = TasksOf(waiters)
    BY <1>1, <1>2, WakeFirstWakesTheFirst, WakeFirstKeepsOwners, SameOwners
  <1>4. Line' = Line
    <2>1. \A u \in Tasks : pc[u] = "waiting" <=> pc'[u] = "waiting"
      BY <1>1, <1>2
    <2>2. QED
      BY <1>3, <2>1, SameLine
  <1>5. Holder = t /\ t # Nobody
    BY <1>1, SyncGateAssumption DEF HolderFacts, Tasks
  <1>6. Holder' = Nobody
    BY <1>1 DEF HolderFacts, IInv, RunningHoldsLock
  <1>7. QED
    BY <1>4, <1>5, <1>6 DEF Gate!Release

LEMMA NextRefines ==
    ASSUME IInv, LineInv, LineFacts, HolderFacts, IInv', LineFacts', HolderFacts', [Next]_vars
    PROVE  [Gate!Next]_(Gate!vars)
  <1> USE DEF Gate!Next, Gate!vars
  <1>1. ASSUME NEW t \in Scheduled, Run(t) PROVE Gate!Next
    <2>1. t \in Tasks /\ pc[t] = "idle" /\ Acquire(t)
      BY <1>1 DEF Run, Tasks
    <2>2. QED
      BY <2>1, AcquireRefines
  <1>2. ASSUME NEW t \in Manual, TryRunAdmitted(t) PROVE Gate!Next
    <2>1. t \in Tasks /\ pc[t] = "idle" /\ Acquire(t)
      BY <1>2 DEF TryRunAdmitted, Tasks
    <2>2. QED
      BY <2>1, AcquireRefines
  <1>3. ASSUME NEW t \in Manual, TryRunRefused(t) \/ Refusal(t) PROVE Line' = Line /\ Holder' = Holder
    <2>1. /\ pc \in [Tasks -> Places] /\ waiters' = waiters /\ t \in Tasks
          /\ pc[t] \in {"idle", "refused"} /\ pc'[t] \in {"idle", "refused"}
          /\ \A u \in Tasks \ {t} : pc'[u] = pc[u]
      BY <1>3 DEF TryRunRefused, Refusal, IInv, TypeOK, Tasks
    <2>2. \A u \in Tasks : /\ pc[u] = "running" <=> pc'[u] = "running"
                           /\ pc[u] = "waiting" <=> pc'[u] = "waiting"
      BY <2>1
    <2>3. QED
      BY <2>1, <2>2, SameLine, SameHolder
  <1>4. ASSUME NEW t \in Tasks, Resume(t) PROVE Gate!Next
    BY <1>4, ResumeRefines
  <1>5. ASSUME NEW t \in Tasks, Cancel(t) PROVE Gate!Next
    BY <1>5, CancelRefines
  <1>6. ASSUME NEW t \in Tasks, Unwind(t) PROVE Line' = Line /\ Holder' = Holder
    BY <1>6, UnwindRefines
  <1>7. ASSUME NEW t \in Tasks, Finish(t) PROVE Gate!Next
    BY <1>7, FinishRefines
  <1>8. CASE UNCHANGED vars
    <2>1. Line' = Line /\ Holder' = Holder
      BY <1>8, SameLine, SameHolder DEF vars
    <2>2. QED
      BY <2>1
  <1>9. QED
    BY <1>1, <1>2, <1>3, <1>4, <1>5, <1>6, <1>7, <1>8 DEF Next

LEMMA InitRefines == Init => LineInv /\ Gate!Init
  <1> SUFFICES ASSUME Init PROVE LineInv /\ Gate!Init
    OBVIOUS
  <1>1. IInv
    BY InitIInv
  <1>2. waiters = <<>> /\ \A t \in Tasks : pc[t] = "idle"
    BY DEF Init
  <1>3. LineInv
    BY <1>2 DEF LineInv, OneFutureEach, OwnersWait
  <1>4. LineFacts /\ HolderFacts
    BY <1>1, LineIs, HolderIs
  <1>5. Holder = Nobody
    BY <1>2, <1>4 DEF HolderFacts
  <1>6. Line = <<>>
    <2>1. TasksOf(waiters) = <<>>
      BY <1>2 DEF TasksOf
    <2>2. QED
      BY <1>4, <2>1, AmongEmpty DEF LineFacts
  <1>7. QED
    BY <1>3, <1>5, <1>6 DEF Gate!Init

\* The gate is a first-come first-served lock: asyncio.Lock's futures, its
\* wake-ups, its fast path and its cancellations implement a queue that lets the
\* longest waiting run in and never one that arrived later.
THEOREM SpecServedInOrder == Spec => ServedInOrder
  <1>1. Init => IInv /\ LineInv /\ Gate!Init
    BY InitIInv, InitRefines
  <1>2. IInv /\ LineInv /\ [Next]_vars => IInv' /\ LineInv'
    BY NextIInv, NextLine
  <1>3. IInv => LineFacts /\ HolderFacts
    BY LineIs, HolderIs
  <1>4. IInv /\ LineInv /\ LineFacts /\ HolderFacts /\ IInv' /\ LineFacts' /\ HolderFacts'
          /\ [Next]_vars => [Gate!Next]_(Gate!vars)
    BY NextRefines
  <1>5. QED
    BY <1>1, <1>2, <1>3, <1>4, PTL DEF Spec, ServedInOrder, Gate!Spec
=============================================================================
