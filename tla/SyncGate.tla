------------------------------ MODULE SyncGate ------------------------------
(***************************************************************************)
(* SyncGate of core/context.py over the asyncio.Lock it owns.              *)
(*                                                                         *)
(* One action is what a task does between two awaits on the event loop.    *)
(* `run' (scheduled work) waits for the lock; `try_run' (a button of the   *)
(* dashboard) looks at locked() and then awaits acquire().  A released     *)
(* lock is not handed over: release() marks the lock free and completes    *)
(* the future of the first waiter, and the waiter claims the lock when the *)
(* loop resumes it.  Other tasks may run in between.                       *)
(*                                                                         *)
(* An operator Name_Fault just before Name is Name with a plausible bug in *)
(* it; only the mutation checks of the properties use it.                  *)
(***************************************************************************)
EXTENDS Naturals, Sequences, SequencesExt, SeqFilter

CONSTANTS Scheduled,   \* tasks that enter through run()
          Manual,      \* tasks that enter through try_run()
          Nobody       \* for the refinement: no task holds the gate

ASSUME SyncGateAssumption ==
    /\ Scheduled \cap Manual = {}
    /\ Nobody \notin Scheduled \cup Manual

Tasks == Scheduled \cup Manual

VARIABLES locked,      \* asyncio.Lock._locked
          waiters,     \* asyncio.Lock._waiters: a deque of futures, with their task
          pc           \* where each task is

vars == <<locked, waiters, pc>>

Futures == {"pending", "done", "cancelled"}
Waiter  == [task : Tasks, fut : Futures]
Places  == {"idle", "refused", "waiting", "cancelling", "running"}

TypeOK ==
    /\ locked \in BOOLEAN
    /\ waiters \in Seq(Waiter)
    /\ pc \in [Tasks -> Places]

Init ==
    /\ locked = FALSE
    /\ waiters = <<>>
    /\ pc = [t \in Tasks |-> "idle"]

(***************************************************************************)
(* asyncio.Lock                                                            *)
(***************************************************************************)

\* acquire() does not queue when the lock is free and every waiter left in the
\* deque has been cancelled.
FastPath_Unfair == ~locked
FastPath == ~locked /\ \A k \in DOMAIN waiters : waiters[k].fut = "cancelled"

\* _wake_up_first(): complete the first future unless it is done already.
WakeFirst(q) ==
    IF q # <<>> /\ q[1].fut = "pending"
    THEN [q EXCEPT ![1].fut = "done"]
    ELSE q

\* What a cancelled acquire() does with the deque it leaves behind.
PassOn_Nothing(q) == q
PassOn(q) == IF locked THEN q ELSE WakeFirst(q)

Acquire(t) ==
    IF FastPath
    THEN /\ locked' = TRUE
         /\ pc' = [pc EXCEPT ![t] = "running"]
         /\ UNCHANGED waiters
    ELSE /\ waiters' = Append(waiters, [task |-> t, fut |-> "pending"])
         /\ pc' = [pc EXCEPT ![t] = "waiting"]
         /\ UNCHANGED locked

(***************************************************************************)
(* SyncGate                                                                *)
(***************************************************************************)

Run(t) ==
    /\ pc[t] = "idle"
    /\ Acquire(t)

\* try_run() on a held gate raises SyncAlreadyRunning and touches nothing.
TryRunRefused(t) ==
    /\ pc[t] = "idle"
    /\ locked
    /\ pc' = [pc EXCEPT ![t] = "refused"]
    /\ UNCHANGED <<locked, waiters>>

TryRunAdmitted(t) ==
    /\ pc[t] = "idle"
    /\ ~locked
    /\ Acquire(t)

\* The 409 reaches the caller, who may press the button again.
Refusal(t) ==
    /\ pc[t] = "refused"
    /\ pc' = [pc EXCEPT ![t] = "idle"]
    /\ UNCHANGED <<locked, waiters>>

\* The loop resumes a waiter whose future is done: it owns the lock from here.
Resume(t) ==
    \E k \in DOMAIN waiters :
        /\ pc[t] = "waiting"
        /\ waiters[k].task = t /\ waiters[k].fut = "done"
        /\ waiters' = RemoveAt(waiters, k)
        /\ locked' = TRUE
        /\ pc' = [pc EXCEPT ![t] = "running"]

\* A waiting task is cancelled (shutdown, a rescheduled job).  Its future is
\* cancelled with it, unless release() has completed the future already.
Cancel(t) ==
    \E k \in DOMAIN waiters :
        /\ pc[t] = "waiting"
        /\ waiters[k].task = t
        /\ waiters' = IF waiters[k].fut = "pending"
                      THEN [waiters EXCEPT ![k].fut = "cancelled"]
                      ELSE waiters
        /\ pc' = [pc EXCEPT ![t] = "cancelling"]
        /\ UNCHANGED locked

\* The CancelledError unwinds acquire(): the future leaves the deque and, on a
\* free lock, the wake-up this task may have swallowed is passed on.
Unwind(t) ==
    \E k \in DOMAIN waiters :
        /\ pc[t] = "cancelling"
        /\ waiters[k].task = t
        /\ waiters' = PassOn(RemoveAt(waiters, k))
        /\ pc' = [pc EXCEPT ![t] = "idle"]
        /\ UNCHANGED locked

\* The factory returned, raised or was cancelled: the lock is released.
Finish(t) ==
    /\ pc[t] = "running"
    /\ locked' = FALSE
    /\ waiters' = WakeFirst(waiters)
    /\ pc' = [pc EXCEPT ![t] = "idle"]

Next ==
    \/ \E t \in Scheduled : Run(t)
    \/ \E t \in Manual : TryRunRefused(t) \/ TryRunAdmitted(t) \/ Refusal(t)
    \/ \E t \in Tasks : Resume(t) \/ Cancel(t) \/ Unwind(t) \/ Finish(t)

\* The loop resumes whatever is ready, and every run ends: each external call
\* of a run has a timeout.  Nothing forces a task to start or to be cancelled.
Fairness == \A t \in Tasks : WF_vars(Resume(t)) /\ WF_vars(Unwind(t)) /\ WF_vars(Finish(t))

Spec == Init /\ [][Next]_vars
FairSpec == Spec /\ Fairness

-----------------------------------------------------------------------------
(***************************************************************************)
(* Properties                                                              *)
(***************************************************************************)

\* Two runs never overlap (class SyncGate), although the lock is free for a
\* moment after each release and the woken waiter claims it without looking.
MutualExclusion ==
    \A t, u \in Tasks : pc[t] = "running" /\ pc[u] = "running" => t = u

\* A free lock with futures in its deque has one on its way: either the first
\* waiter was woken, or a cancelled one that will pass the wake-up on is in
\* front.  Otherwise every later scheduled run would wait for ever.
NoLostWakeup ==
    ~locked /\ waiters # <<>> => waiters[1].fut # "pending"

\* A waiting run is served or cancelled in the end, whatever cancellations and
\* new arrivals happen around it: run() cannot be starved by try_run().
WaiterServed ==
    \A t \in Tasks : pc[t] = "waiting" ~> pc[t] # "waiting"

\* try_run() acquires "without blocking" (_try_acquire, context.py:79-85): a
\* dashboard request is answered at once, it never queues behind a run.
TryRunNeverWaits == \A t \in Manual : pc[t] # "waiting"

\* The gate is a first-come first-served lock: the waiters that are not being
\* cancelled form its queue.
Holder ==
    IF \E t \in Tasks : pc[t] = "running" THEN CHOOSE t \in Tasks : pc[t] = "running" ELSE Nobody
Queued == {t \in Tasks : pc[t] = "waiting"}
Line == Among([k \in DOMAIN waiters |-> waiters[k].task], Queued)

Gate == INSTANCE FifoGate WITH Runs <- Tasks, holder <- Holder, queue <- Line

ServedInOrder == Gate!Spec
=============================================================================
