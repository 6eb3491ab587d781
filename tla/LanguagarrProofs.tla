-------------------------- MODULE LanguagarrProofs --------------------------
(***************************************************************************)
(* For any files and tasks: one scan, batch or delete at a time, and no    *)
(* search is claimed, or sent against the monitoring rule.                 *)
(***************************************************************************)
EXTENDS Languagarr, SequenceTheorems, TLAPS

Inside(p) == at[p] \notin {"idle", "queued"}

\* The gate's queue holds the tasks that wait for it, each of them once.
QueuedWait ==
    /\ queue \in Seq(Tasks) /\ IsInjective(queue)
    /\ \A p \in Tasks : at[p] = "queued" <=> \E i \in DOMAIN queue : queue[i] = p

GateInv ==
    /\ at \in [Tasks -> Places]
    /\ gate \in Tasks \cup {Nobody}
    /\ QueuedWait
    /\ OneAtATime

-----------------------------------------------------------------------------
(***************************************************************************)
(* The gate                                                                *)
(***************************************************************************)

\* The holder goes on to its next call.
LEMMA HolderMoves ==
    ASSUME GateInv, NEW p \in Tasks, Inside(p),
           NEW place \in Places \ {"idle", "queued"},
           at' = [at EXCEPT ![p] = place], UNCHANGED sync
    PROVE  GateInv'
  BY DEF GateInv, QueuedWait, OneAtATime, Inside, Places, sync

\* The holder ends its run.
LEMMA HolderLeaves ==
    ASSUME GateInv, NEW p \in Tasks, Inside(p),
           at' = [at EXCEPT ![p] = "idle"], gate' = Nobody, UNCHANGED queue
    PROVE  GateInv'
  BY LanguagarrAssumption DEF GateInv, QueuedWait, OneAtATime, Inside, Places, Calls

\* Nobody moves.
LEMMA GateStutters ==
    ASSUME GateInv, UNCHANGED <<at, sync>>
    PROVE  GateInv'
  BY DEF GateInv, QueuedWait, OneAtATime, sync

\* A task arrives and finds the gate free.
LEMMA ArrivalEnters ==
    ASSUME GateInv, NEW p \in Tasks, at[p] = "idle", Gate!Take(p),
           at' = [at EXCEPT ![p] = "ready"]
    PROVE  GateInv'
  BY LanguagarrAssumption
     DEF GateInv, QueuedWait, OneAtATime, Places, Gate!Take, Gate!Outside

\* A task arrives and waits: it is not in the queue yet.
LEMMA ArrivalWaits ==
    ASSUME GateInv, NEW p \in Tasks, at[p] = "idle", Gate!Enter(p),
           at' = [at EXCEPT ![p] = "queued"]
    PROVE  GateInv'
  <1>1. queue \in Seq(Tasks) /\ IsInjective(queue) /\ \A i \in 1..Len(queue) : queue[i] # p
    BY DEF GateInv, QueuedWait
  <1>2. queue' = Append(queue, p) /\ gate' = gate
    BY DEF Gate!Enter
  <1>3. /\ queue' \in Seq(Tasks) /\ Len(queue') = Len(queue) + 1
        /\ \A i \in 1..Len(queue) : queue'[i] = queue[i]
        /\ queue'[Len(queue) + 1] = p
    BY <1>1, <1>2
  <1>4. IsInjective(queue')
    BY <1>1, <1>3 DEF IsInjective
  <1>5. ASSUME NEW q \in Tasks
        PROVE  at'[q] = "queued" <=> \E i \in DOMAIN queue' : queue'[i] = q
    <2>1. at[q] = "queued" <=> \E i \in 1..Len(queue) : queue[i] = q
      BY <1>1 DEF GateInv, QueuedWait
    <2>2. DOMAIN queue' = 1..Len(queue) + 1 /\ Len(queue) \in Nat
      BY <1>1, <1>3
    <2>3. at'[q] = IF q = p THEN "queued" ELSE at[q]
      BY DEF GateInv
    <2>4. CASE q = p
      BY <1>3, <2>2, <2>3, <2>4
    <2>5. CASE q # p
      <3>1. \A i \in 1..Len(queue) + 1 : queue'[i] = q => i \in 1..Len(queue)
        BY <1>3, <2>2, <2>5
      <3>2. QED
        BY <1>3, <2>1, <2>2, <2>3, <2>5, <3>1
    <2>6. QED
      BY <2>4, <2>5
  <1>6. QueuedWait'
    BY <1>3, <1>4, <1>5 DEF QueuedWait
  <1>7. OneAtATime'
    BY <1>2 DEF GateInv, OneAtATime
  <1>8. at' \in [Tasks -> Places] /\ gate' \in Tasks \cup {Nobody}
    BY <1>2 DEF GateInv, Places
  <1>9. QED
    BY <1>6, <1>7, <1>8 DEF GateInv

\* The first of the queue is let in; it is not in the rest of the queue.
LEMMA FirstIsLetIn ==
    ASSUME GateInv, Grant
    PROVE  GateInv'
  <1>1. /\ gate = Nobody /\ queue # <<>>
        /\ gate' = Head(queue) /\ queue' = Tail(queue)
        /\ at' = [at EXCEPT ![Head(queue)] = "ready"]
    BY DEF Grant, Gate!Grant
  <1>2. queue \in Seq(Tasks) /\ IsInjective(queue) /\ Len(queue) \in Nat \ {0}
    BY <1>1, EmptySeq DEF GateInv, QueuedWait
  <1>3. Head(queue) = queue[1] /\ Head(queue) \in Tasks
    BY <1>2
  <1>4. /\ queue' \in Seq(Tasks) /\ Len(queue') = Len(queue) - 1
        /\ \A i \in 1..Len(queue) - 1 : queue'[i] = queue[i + 1]
    BY <1>1, <1>2
  <1>5. IsInjective(queue')
    <2>1. ASSUME NEW i \in 1..Len(queue) - 1, NEW j \in 1..Len(queue) - 1, queue'[i] = queue'[j]
          PROVE  i = j
      <3>1. i + 1 \in 1..Len(queue) /\ j + 1 \in 1..Len(queue)
        BY <1>2
      <3>2. queue[i + 1] = queue[j + 1]
        BY <1>4, <2>1
      <3>3. i + 1 = j + 1
        BY <1>2, <3>1, <3>2 DEF IsInjective
      <3>4. QED
        BY <3>3
    <2>2. DOMAIN queue' = 1..Len(queue) - 1
      BY <1>4
    <2>3. QED
      BY <2>1, <2>2 DEF IsInjective
  <1>6. ASSUME NEW q \in Tasks
        PROVE  at'[q] = "queued" <=> \E i \in DOMAIN queue' : queue'[i] = q
    <2>1. at[q] = "queued" <=> \E i \in 1..Len(queue) : queue[i] = q
      BY <1>2 DEF GateInv, QueuedWait
    <2>2. CASE q = queue[1]
      <3>1. at'[q] # "queued"
        BY <1>1, <1>3, <2>2 DEF GateInv
      <3>2. ASSUME NEW i \in 1..Len(queue) - 1 PROVE queue[i + 1] # q
        BY <1>2, <2>2 DEF IsInjective
      <3>3. QED
        BY <1>4, <3>1, <3>2
    <2>3. CASE q # queue[1]
      <3>1. at'[q] = at[q]
        BY <1>1, <1>3, <2>3 DEF GateInv
      <3>2. ASSUME NEW i \in 1..Len(queue), queue[i] = q PROVE \E j \in 1..Len(queue') : queue'[j] = q
        <4>1. i - 1 \in 1..Len(queue) - 1 /\ (i - 1) + 1 = i
          BY <1>2, <2>3, <3>2
        <4>2. QED
          BY <1>4, <3>2, <4>1
      <3>3. ASSUME NEW j \in 1..Len(queue'), queue'[j] = q PROVE \E i \in 1..Len(queue) : queue[i] = q
        BY <1>2, <1>4, <3>3
      <3>4. QED
        BY <1>4, <2>1, <3>1, <3>2, <3>3
    <2>4. QED
      BY <2>2, <2>3
  <1>7. OneAtATime'
    BY <1>1, <1>2, <1>3, LanguagarrAssumption DEF GateInv, QueuedWait, OneAtATime, Places
  <1>8. QED
    BY <1>1, <1>3, <1>4, <1>5, <1>6, <1>7 DEF GateInv, QueuedWait, Places

-----------------------------------------------------------------------------
(***************************************************************************)
(* Every step keeps the gate's part                                        *)
(***************************************************************************)

LEMMA StartMoves ==
    ASSUME GateInv, NEW p \in Tasks, Start(p)
    PROVE  GateInv'
  <1>1. Inside(p)
    BY DEF Start, Inside
  <1>2. \/ \E l : AwaitScope(p, l)
        \/ Leave(p)
    BY DEF Start, BeginScan, BeginBatch
  <1>3. QED
    BY <1>1, <1>2, HolderMoves, HolderLeaves
       DEF AwaitScope, Await, Leave, Goto, Places, Calls

LEMMA PublishMoves ==
    ASSUME GateInv, NEW p \in Tasks, Publish(p)
    PROVE  GateInv'
  <1>1. Inside(p)
    BY DEF Publish, Inside
  <1>2. \/ \E l : AwaitScope(p, l)
        \/ Leave(p)
    BY DEF Publish, BeginBatch
  <1>3. QED
    BY <1>1, <1>2, HolderMoves, HolderLeaves
       DEF AwaitScope, Await, Leave, Goto, Places, Calls

LEMMA ProceedMoves ==
    ASSUME GateInv, NEW p \in Tasks, Inside(p), Proceed(p)
    PROVE  GateInv'
  BY HolderMoves, HolderLeaves
     DEF Proceed, NextFile, Await, Leave, Goto, Places, Calls, sync

LEMMA RefusedMoves ==
    ASSUME GateInv, NEW p \in Tasks, Inside(p), Refused(p)
    PROVE  GateInv'
  BY ProceedMoves DEF Refused, Resolve, MarkFailed

LEMMA TaskStepMoves ==
    ASSUME GateInv, NEW p \in Tasks, TaskStep(p)
    PROVE  GateInv'
  <1>1. CASE Start(p)
    BY <1>1, StartMoves
  <1>2. CASE Publish(p)
    BY <1>2, PublishMoves
  <1>3. CASE ScanFailed(p)
    BY <1>3, HolderLeaves DEF ScanFailed, Inside, Leave, Goto
  <1>4. CASE ResumeScope(p)
    <2>1. Inside(p)
      BY <1>4 DEF ResumeScope, Answered, Inside
    <2>2. QED
      BY <1>4, <2>1, HolderMoves, HolderLeaves, ProceedMoves
         DEF ResumeScope, Await, Leave, Goto, Places, Calls
  <1>5. CASE ResumeFile(p)
    <2>1. Inside(p)
      BY <1>5 DEF ResumeFile, Answered, Inside
    <2>2. QED
      BY <1>5, <2>1, HolderMoves, RefusedMoves
         DEF ResumeFile, Await, Goto, Places, Calls
  <1>6. CASE ResumeSeries(p)
    <2>1. Inside(p)
      BY <1>6 DEF ResumeSeries, Answered, Inside
    <2>2. QED
      BY <1>6, <2>1, HolderMoves, RefusedMoves
         DEF ResumeSeries, Await, Goto, Places, Calls
  <1>7. CASE ResumeEpisodes(p)
    <2>1. Inside(p)
      BY <1>7 DEF ResumeEpisodes, Answered, Inside
    <2>2. QED
      BY <1>7, <2>1, HolderMoves, RefusedMoves
         DEF ResumeEpisodes, Await, Goto, Places, Calls
  <1>8. CASE ResumeDelete(p)
    <2>1. Inside(p)
      BY <1>8 DEF ResumeDelete, Answered, Inside
    <2>2. QED
      BY <1>8, <2>1, HolderMoves, RefusedMoves
         DEF ResumeDelete, Await, Goto, Places, Calls
  <1>9. CASE ResumeSearch(p)
    <2>1. Inside(p)
      BY <1>9 DEF ResumeSearch, Answered, Inside
    <2>2. QED
      BY <1>9, <2>1, ProceedMoves DEF ResumeSearch, MarkFailed
  <1>10. QED
    BY <1>1, <1>2, <1>3, <1>4, <1>5, <1>6, <1>7, <1>8, <1>9 DEF TaskStep

LEMMA ArrivalMoves ==
    ASSUME GateInv, NEW p \in Tasks, NEW todo, EnterGate(p, todo)
    PROVE  GateInv'
  BY ArrivalEnters, ArrivalWaits DEF EnterGate, Admit, Goto

LEMMA InitGateInv == Init => GateInv
  <1>. SUFFICES ASSUME Init PROVE GateInv
    OBVIOUS
  <1>1. queue = <<>> /\ gate = Nobody /\ at = [p \in Tasks |-> "idle"]
    BY DEF Init, Gate!Init
  <1>2. QED
    BY <1>1, LanguagarrAssumption DEF GateInv, QueuedWait, OneAtATime, Places, IsInjective

LEMMA CrashGateInv == Crash => GateInv'
  <1>. SUFFICES ASSUME Crash PROVE GateInv'
    OBVIOUS
  <1>1. queue' = <<>> /\ gate' = Nobody /\ at' = [p \in Tasks |-> "idle"]
    BY DEF Crash, Gate!Restart
  <1>2. QED
    BY <1>1, LanguagarrAssumption DEF GateInv, QueuedWait, OneAtATime, Places, IsInjective

LEMMA NextGateInv == GateInv /\ [Next]_vars => GateInv'
  <1>. SUFFICES ASSUME GateInv, [Next]_vars PROVE GateInv'
    OBVIOUS
  <1>1. ASSUME NEW p \in Scheduled, JobDue(p) PROVE GateInv'
    BY <1>1, ArrivalMoves DEF JobDue, Tasks, Workers
  <1>2. ASSUME NEW p \in Runners, RunNow(p) PROVE GateInv'
    BY <1>2, ArrivalMoves DEF RunNow, Tasks, Workers
  <1>3. ASSUME NEW p \in Scanners, ScanNow(p) PROVE GateInv'
    BY <1>3, ArrivalMoves DEF ScanNow, Tasks
  <1>4. ASSUME NEW p \in Deleters, NEW fs \in SUBSET Files, DeleteNow(p, fs) PROVE GateInv'
    BY <1>4, ArrivalMoves DEF DeleteNow, Tasks
  <1>5. CASE Grant
    BY <1>5, FirstIsLetIn
  <1>6. ASSUME NEW p \in Tasks, TaskStep(p) PROVE GateInv'
    BY <1>6, TaskStepMoves
  <1>7. ASSUME NEW p \in Tasks, Serve(p) \/ Fail(p) PROVE GateInv'
    BY <1>7, GateStutters DEF Serve, Fail, Reply
  <1>8. CASE Environment
    BY <1>8, GateStutters
       DEF Environment, EnqueueNow, WindowElapses, Unmonitor, Reprofile, FileChanges,
           ClearPending, UpdateSettings, task
  <1>9. CASE Crash
    BY <1>9, CrashGateInv
  <1>10. CASE UNCHANGED vars
    BY <1>10, GateStutters DEF vars, sync
  <1>11. QED
    BY <1>1, <1>2, <1>3, <1>4, <1>5, <1>6, <1>7, <1>8, <1>9, <1>10 DEF Next

-----------------------------------------------------------------------------
(***************************************************************************)
(* What a task knows                                                       *)
(***************************************************************************)

LocFields == {"todo", "unread", "found", "cur", "strict", "gone", "reply", "fresh"}
WellFormed(l) == l = [x \in LocFields |-> l[x]]

\* A search that was answered was taken by Sonarr.
AnswerIsTrue ==
    \A p \in Tasks : at[p] = "search" /\ loc[p].reply = "yes" => loc[p].cur \in asked

\* Episodes that were found monitored were monitored when they were read.
EpisodesRead ==
    \A p \in Tasks : at[p] = "episodes" /\ loc[p].reply = "yes" => loc[p].fresh

OnlyDeletersDelete == \A p \in Tasks : at[p] = "delete" => p \in Deleters

LocInv ==
    /\ loc = [p \in Tasks |-> loc[p]] /\ \A p \in Tasks : WellFormed(loc[p])
    /\ AnswerIsTrue /\ EpisodesRead /\ OnlyDeletersDelete /\ SearchedWasMonitored

RowsInv == rows \in [Files -> Statuses] /\ SearchedWasAsked

LEMMA FreshIsWellFormed == WellFormed(Fresh) /\ Fresh.reply = "none"
  BY DEF WellFormed, LocFields, Fresh

\* An update of a function on S is a function on S.
LEMMA FunctionUpdate ==
    ASSUME NEW S, NEW f, f = [x \in S |-> f[x]], NEW p \in S, NEW v
    PROVE  [f EXCEPT ![p] = v] = [x \in S |-> [f EXCEPT ![p] = v][x]]
  OBVIOUS

\* A task goes on to its next call, to its end, or to the gate.
LEMMA AwaitKeepsLoc ==
    ASSUME at \in [Tasks -> Places], LocInv, NEW p \in Tasks, NEW place \in Places,
           NEW l, WellFormed(l), Await(p, place, l),
           place = "search" /\ p \in Workers /\ l.strict => l.fresh,
           place = "delete" => p \in Deleters,
           asked' = asked
    PROVE  LocInv'
  <1>. DEFINE l2 == [l EXCEPT !.reply = "none"]
  <1>1. WellFormed(l2) /\ l2.reply = "none" /\ l2.strict = l.strict /\ l2.fresh = l.fresh
    BY DEF WellFormed, LocFields
  <1>2. at' = [at EXCEPT ![p] = place] /\ loc' = [loc EXCEPT ![p] = l2]
    BY DEF Await, Goto
  <1>. HIDE DEF l2
  <1>3. \A q \in Tasks : /\ loc'[q] = IF q = p THEN l2 ELSE loc[q]
                        /\ at'[q] = IF q = p THEN place ELSE at[q]
    BY <1>2 DEF LocInv
  <1>4. loc' = [q \in Tasks |-> loc'[q]]
    BY <1>2, FunctionUpdate DEF LocInv
  <1>5. AnswerIsTrue' /\ EpisodesRead' /\ OnlyDeletersDelete'
    BY <1>1, <1>3 DEF LocInv, AnswerIsTrue, EpisodesRead, OnlyDeletersDelete
  <1>6. SearchedWasMonitored'
    BY <1>1, <1>3 DEF LocInv, SearchedWasMonitored, Tasks
  <1>7. \A q \in Tasks : WellFormed(loc'[q])
    BY <1>1, <1>3 DEF LocInv
  <1>8. QED
    BY <1>4, <1>5, <1>6, <1>7 DEF LocInv, WellFormed

LEMMA GotoKeepsLoc ==
    ASSUME at \in [Tasks -> Places], LocInv, NEW p \in Tasks,
           NEW place \in {"idle", "queued", "ready"}, NEW l, WellFormed(l), Goto(p, place, l),
           asked' = asked
    PROVE  LocInv'
  <1>1. \A q \in Tasks : /\ loc'[q] = IF q = p THEN l ELSE loc[q]
                        /\ at'[q] = IF q = p THEN place ELSE at[q]
    BY DEF LocInv, Goto
  <1>2. loc' = [q \in Tasks |-> loc'[q]]
    BY FunctionUpdate DEF LocInv, Goto
  <1>3. AnswerIsTrue' /\ EpisodesRead' /\ OnlyDeletersDelete'
    BY <1>1 DEF LocInv, AnswerIsTrue, EpisodesRead, OnlyDeletersDelete
  <1>4. SearchedWasMonitored'
    BY <1>1 DEF LocInv, SearchedWasMonitored, Tasks
  <1>5. \A q \in Tasks : WellFormed(loc'[q])
    BY <1>1 DEF LocInv
  <1>6. QED
    BY <1>2, <1>3, <1>4, <1>5 DEF LocInv, WellFormed

\* An answer arrives.
LEMMA AnswerKeepsLoc ==
    ASSUME LocInv, NEW p \in Tasks, NEW l, WellFormed(l), UNCHANGED at,
           loc' = [loc EXCEPT ![p] = l], asked \subseteq asked',
           at[p] = "search" /\ l.reply = "yes" => l.cur \in asked',
           at[p] = "episodes" /\ l.reply = "yes" => l.fresh,
           at[p] = "search" => l.fresh = loc[p].fresh /\ l.strict = loc[p].strict
    PROVE  LocInv'
  <1>1. \A q \in Tasks : loc'[q] = IF q = p THEN l ELSE loc[q]
    BY DEF LocInv
  <1>2. loc' = [q \in Tasks |-> loc'[q]]
    BY FunctionUpdate DEF LocInv
  <1>3. AnswerIsTrue' /\ EpisodesRead' /\ OnlyDeletersDelete'
    BY <1>1 DEF LocInv, AnswerIsTrue, EpisodesRead, OnlyDeletersDelete
  <1>4. SearchedWasMonitored'
    BY <1>1 DEF LocInv, SearchedWasMonitored, Tasks
  <1>5. \A q \in Tasks : WellFormed(loc'[q])
    BY <1>1 DEF LocInv
  <1>6. QED
    BY <1>2, <1>3, <1>4, <1>5 DEF LocInv, WellFormed

LEMMA NobodyAnswersKeepsLoc ==
    ASSUME LocInv, UNCHANGED <<at, loc, asked>>
    PROVE  LocInv'
  BY DEF LocInv, AnswerIsTrue, EpisodesRead, OnlyDeletersDelete, SearchedWasMonitored

LEMMA LeaveKeepsLoc ==
    ASSUME at \in [Tasks -> Places], LocInv, NEW p \in Tasks, Leave(p), asked' = asked
    PROVE  LocInv'
  BY GotoKeepsLoc, FreshIsWellFormed DEF Leave

LEMMA ScopeKeepsLoc ==
    ASSUME at \in [Tasks -> Places], LocInv, NEW p \in Tasks, NEW l, WellFormed(l),
           AwaitScope(p, l), asked' = asked
    PROVE  LocInv'
  <1>1. WellFormed([l EXCEPT !.strict = settings.monitoredOnly])
    BY DEF WellFormed, LocFields
  <1>2. QED
    BY <1>1, AwaitKeepsLoc DEF AwaitScope, Places, Calls

LEMMA BatchKeepsLoc ==
    ASSUME at \in [Tasks -> Places], LocInv, NEW p \in Tasks, NEW pending,
           BeginBatch(p, pending), asked' = asked
    PROVE  LocInv'
  <1>1. WellFormed([Fresh EXCEPT !.todo = NextPending(pending)])
    BY FreshIsWellFormed DEF WellFormed, LocFields
  <1>2. QED
    BY <1>1, LeaveKeepsLoc, ScopeKeepsLoc DEF BeginBatch

LEMMA ScanKeepsLoc ==
    ASSUME at \in [Tasks -> Places], LocInv, NEW p \in Tasks, BeginScan(p), asked' = asked
    PROVE  LocInv'
  <1>1. WellFormed([Fresh EXCEPT !.unread = Files])
    BY FreshIsWellFormed DEF WellFormed, LocFields
  <1>2. QED
    BY <1>1, ScopeKeepsLoc DEF BeginScan

LEMMA NextFileKeepsLoc ==
    ASSUME at \in [Tasks -> Places], LocInv, NEW p \in Tasks, Proceed(p), asked' = asked
    PROVE  LocInv'
  <1>1. \/ Leave(p)
        \/ \E todo, cur :
             Await(p, "file", [loc[p] EXCEPT !.todo = todo, !.cur = cur, !.fresh = FALSE])
    BY DEF Proceed, NextFile
  <1>2. ASSUME NEW todo, NEW cur
        PROVE  WellFormed([loc[p] EXCEPT !.todo = todo, !.cur = cur, !.fresh = FALSE])
    BY DEF LocInv, WellFormed, LocFields
  <1>3. \/ Leave(p)
        \/ \E l : WellFormed(l) /\ Await(p, "file", l)
    BY <1>1, <1>2
  <1>4. CASE Leave(p)
    BY <1>4, LeaveKeepsLoc
  <1>5. ASSUME NEW l, WellFormed(l), Await(p, "file", l) PROVE LocInv'
    <2>1. "file" \in Places
      BY DEF Places, Calls
    <2>2. QED
      BY <1>5, <2>1, AwaitKeepsLoc
  <1>6. QED
    BY <1>3, <1>4, <1>5

-----------------------------------------------------------------------------
(***************************************************************************)
(* What the queue's table says                                             *)
(***************************************************************************)

LEMMA MarkKeepsRows ==
    ASSUME RowsInv, NEW f, NEW status \in {"recent", "failed"}, Mark(f, status),
           status = "recent" => f \in asked, asked' = asked
    PROVE  RowsInv'
  BY DEF RowsInv, SearchedWasAsked, Mark, Statuses

LEMMA DropKeepsRows ==
    ASSUME RowsInv, NEW fs, Drop(fs), asked' = asked
    PROVE  RowsInv'
  BY DEF RowsInv, SearchedWasAsked, Drop, Statuses

LEMMA EnqueueKeepsRows ==
    ASSUME RowsInv, NEW fs, Enqueue(fs), asked' = asked
    PROVE  RowsInv'
  BY DEF RowsInv, SearchedWasAsked, Enqueue, Statuses

LEMMA UnchangedKeepsRows ==
    ASSUME RowsInv, UNCHANGED rows, asked \subseteq asked'
    PROVE  RowsInv'
  BY DEF RowsInv, SearchedWasAsked

-----------------------------------------------------------------------------
(***************************************************************************)
(* Every step keeps both                                                   *)
(***************************************************************************)

IInv == GateInv /\ LocInv /\ RowsInv

LEMMA StartKeepsData ==
    ASSUME IInv, NEW p \in Tasks, Start(p)
    PROVE  LocInv' /\ RowsInv'
  <1>1. asked' = asked /\ rows' = rows
    BY DEF Start, db, sonarr
  <1>2. WellFormed(loc[p])
    BY DEF IInv, LocInv
  <1>3. LocInv'
    BY <1>1, <1>2, LeaveKeepsLoc, BatchKeepsLoc, ScanKeepsLoc, ScopeKeepsLoc
       DEF Start, IInv, GateInv
  <1>4. QED
    BY <1>1, <1>3, UnchangedKeepsRows DEF IInv

LEMMA PublishKeepsData ==
    ASSUME IInv, NEW p \in Tasks, Publish(p)
    PROVE  LocInv' /\ RowsInv'
  <1>1. asked' = asked
    BY DEF Publish, sonarr
  <1>2. LocInv'
    BY <1>1, LeaveKeepsLoc, BatchKeepsLoc DEF Publish, IInv, GateInv
  <1>3. rows' \in [Files -> Statuses]
    BY DEF Publish, IInv, RowsInv, Statuses
  <1>4. ASSUME NEW f \in Files, rows'[f] \in {"recent", "old"} PROVE rows'[f] = rows[f]
    BY <1>4 DEF Publish
  <1>5. QED
    BY <1>1, <1>2, <1>3, <1>4 DEF IInv, RowsInv, SearchedWasAsked

LEMMA RefusedKeepsData ==
    ASSUME IInv, NEW p \in Tasks, Refused(p), asked' = asked
    PROVE  LocInv' /\ RowsInv'
  <1>1. LocInv'
    BY NextFileKeepsLoc DEF Refused, Resolve, MarkFailed, IInv, GateInv
  <1>2. RowsInv'
    BY DropKeepsRows, MarkKeepsRows, UnchangedKeepsRows
       DEF Refused, Resolve, MarkFailed, IInv, db
  <1>3. QED
    BY <1>1, <1>2

LEMMA CallKeepsData ==
    ASSUME IInv, NEW p \in Tasks, NEW place \in Calls, Await(p, place, loc[p]),
           place = "search" /\ p \in Workers /\ loc[p].strict => loc[p].fresh,
           place = "delete" => p \in Deleters,
           UNCHANGED db, asked' = asked
    PROVE  LocInv' /\ RowsInv'
  <1>1. WellFormed(loc[p])
    BY DEF IInv, LocInv
  <1>2. QED
    BY <1>1, AwaitKeepsLoc, UnchangedKeepsRows DEF IInv, GateInv, db, Places

LEMMA ResumeKeepsData ==
    ASSUME IInv, NEW p \in Tasks,
           \/ ResumeScope(p) \/ ResumeFile(p) \/ ResumeSeries(p) \/ ResumeEpisodes(p)
           \/ ResumeDelete(p) \/ ResumeSearch(p)
    PROVE  LocInv' /\ RowsInv'
  <1>1. asked' = asked
    BY DEF ResumeScope, ResumeFile, ResumeSeries, ResumeEpisodes, ResumeDelete,
           ResumeSearch, sonarr
  <1>2. CASE ResumeScope(p)
    <2>1. WellFormed([loc[p] EXCEPT !.unread = inScope])
      BY DEF IInv, LocInv, WellFormed, LocFields
    <2>2. LocInv'
      BY <1>1, <1>2, <2>1, LeaveKeepsLoc, AwaitKeepsLoc, NextFileKeepsLoc
         DEF ResumeScope, IInv, GateInv, Places, Calls
    <2>3. QED
      BY <1>1, <1>2, <2>2, UnchangedKeepsRows DEF ResumeScope, IInv, db
  <1>3. CASE ResumeFile(p)
    BY <1>1, <1>3, RefusedKeepsData, CallKeepsData DEF ResumeFile, Calls
  <1>4. CASE ResumeSeries(p)
    <2>1. CASE Refused(p)
      BY <1>1, <2>1, RefusedKeepsData
    <2>2. CASE ~Refused(p)
      <3>. DEFINE place == IF NeedsEpisodes(p) THEN "episodes"
                           ELSE IF p \in Deleters THEN "delete" ELSE "search"
      <3>1. Await(p, place, loc[p]) /\ UNCHANGED db
        BY <1>4, <2>2 DEF ResumeSeries
      <3>2. place \in Calls /\ ~(place = "search" /\ p \in Workers /\ loc[p].strict)
            /\ (place = "delete" => p \in Deleters)
        BY DEF NeedsEpisodes, Calls
      <3>. HIDE DEF place
      <3>3. QED
        BY <1>1, <3>1, <3>2, CallKeepsData
    <2>3. QED
      BY <2>1, <2>2
  <1>5. CASE ResumeEpisodes(p)
    <2>1. CASE Refused(p)
      BY <1>1, <2>1, RefusedKeepsData
    <2>2. CASE ~Refused(p)
      <3>1. Await(p, "search", loc[p]) /\ UNCHANGED db /\ loc[p].reply = "yes" /\ at[p] = "episodes"
        BY <1>5, <2>2 DEF ResumeEpisodes, Answered
      <3>2. loc[p].fresh
        BY <3>1 DEF IInv, LocInv, EpisodesRead
      <3>3. QED
        BY <1>1, <3>1, <3>2, CallKeepsData DEF Calls
    <2>3. QED
      BY <2>1, <2>2
  <1>6. CASE ResumeDelete(p)
    <2>1. CASE Refused(p)
      BY <1>1, <2>1, RefusedKeepsData
    <2>2. CASE ~Refused(p)
      <3>. DEFINE l == [loc[p] EXCEPT !.gone = @ \cup {loc[p].cur}]
      <3>1. Enqueue({loc[p].cur}) /\ Await(p, "search", l) /\ at[p] = "delete"
        BY <1>6, <2>2 DEF ResumeDelete, Answered
      <3>2. WellFormed(l) /\ l.strict = loc[p].strict /\ l.fresh = loc[p].fresh
        BY DEF IInv, LocInv, WellFormed, LocFields
      <3>. HIDE DEF l
      <3>3. p \notin Workers
        BY <3>1, LanguagarrAssumption DEF IInv, LocInv, OnlyDeletersDelete
      <3>4. LocInv'
        BY <1>1, <3>1, <3>2, <3>3, AwaitKeepsLoc DEF IInv, GateInv, Places, Calls
      <3>5. QED
        BY <1>1, <3>1, <3>4, EnqueueKeepsRows DEF IInv
    <2>3. QED
      BY <2>1, <2>2
  <1>7. CASE ResumeSearch(p)
    <2>1. LocInv'
      BY <1>1, <1>7, NextFileKeepsLoc DEF ResumeSearch, MarkFailed, IInv, GateInv
    <2>2. loc[p].reply = "yes" => loc[p].cur \in asked
      BY <1>7 DEF ResumeSearch, Answered, IInv, LocInv, AnswerIsTrue
    <2>3. RowsInv'
      BY <1>1, <1>7, <2>2, MarkKeepsRows DEF ResumeSearch, MarkFailed, IInv
    <2>4. QED
      BY <2>1, <2>3
  <1>8. QED
    BY <1>2, <1>3, <1>4, <1>5, <1>6, <1>7

\* Sonarr takes a search before it answers "yes" to it.
LEMMA ServeKeepsData ==
    ASSUME IInv, NEW p \in Tasks, Serve(p)
    PROVE  LocInv' /\ RowsInv'
  <1>. DEFINE Answer(r) == [loc[p] EXCEPT !.reply = r]
  <1>1. at' = at /\ rows' = rows /\ asked \subseteq asked'
    BY DEF Serve, Reply, sonarr, db
  <1>2. \A r : /\ WellFormed(Answer(r)) /\ Answer(r).reply = r
               /\ Answer(r).cur = loc[p].cur /\ Answer(r).fresh = loc[p].fresh
               /\ Answer(r).strict = loc[p].strict
    BY DEF IInv, LocInv, WellFormed, LocFields
  <1>3. CASE at[p] \in {"scope", "file", "delete"}
    <2>1. PICK r : loc' = [loc EXCEPT ![p] = Answer(r)]
      BY <1>3 DEF Serve, Asked, Reply
    <2>. HIDE DEF Answer
    <2>2. QED
      BY <1>1, <1>2, <1>3, <2>1, AnswerKeepsLoc, UnchangedKeepsRows DEF IInv
  <1>4. CASE at[p] = "audit"
    <2>1. PICK g : loc' = [loc EXCEPT ![p].unread = @ \ {g},
                                      ![p].found[g] = Verdict(g, loc[p].strict)]
      BY <1>4 DEF Serve, Asked, Reply
    <2>. DEFINE l == [[loc[p] EXCEPT !.unread = @ \ {g}]
                        EXCEPT !.found[g] = Verdict(g, loc[p].strict)]
    <2>2. loc' = [loc EXCEPT ![p] = l]
      BY ZenonT(40), <2>1 DEF IInv, LocInv, WellFormed, LocFields
    <2>3. WellFormed(l)
      BY DEF IInv, LocInv, WellFormed, LocFields
    <2>. HIDE DEF l
    <2>4. QED
      BY <1>1, <1>4, <2>2, <2>3, AnswerKeepsLoc, UnchangedKeepsRows DEF IInv
  <1>5. CASE at[p] \in {"series", "episodes"}
    <2>. DEFINE seen == loc[p].cur \in monitored
                yes  == YesNo(loc[p].cur \in IF at[p] = "series" THEN inScope ELSE monitored)
                l    == [loc[p] EXCEPT !.reply = yes, !.fresh = seen]
    <2>1. loc' = [loc EXCEPT ![p] = l]
      BY <1>5 DEF Serve, Asked, Reply, IInv, LocInv, WellFormed, LocFields
    <2>2. WellFormed(l) /\ l.reply = yes /\ l.fresh = seen
      BY DEF IInv, LocInv, WellFormed, LocFields
    <2>3. at[p] = "episodes" /\ yes = "yes" => seen
      BY DEF YesNo
    <2>. HIDE DEF l, seen, yes
    <2>4. QED
      BY <1>1, <1>5, <2>1, <2>2, <2>3, AnswerKeepsLoc, UnchangedKeepsRows DEF IInv
  <1>6. CASE at[p] = "search"
    <2>1. loc' = [loc EXCEPT ![p] = Answer("yes")] /\ loc[p].cur \in asked'
      BY <1>6 DEF Serve, Asked, Reply
    <2>. HIDE DEF Answer
    <2>2. QED
      BY <1>1, <1>2, <1>6, <2>1, AnswerKeepsLoc, UnchangedKeepsRows DEF IInv
  <1>7. QED
    BY <1>3, <1>4, <1>5, <1>6 DEF Serve, Asked

\* A call that failed is never answered "yes".
LEMMA FailKeepsData ==
    ASSUME IInv, NEW p \in Tasks, Fail(p)
    PROVE  LocInv' /\ RowsInv'
  <1>. DEFINE l == [loc[p] EXCEPT !.reply = "error"]
  <1>1. at' = at /\ rows' = rows /\ asked \subseteq asked' /\ loc' = [loc EXCEPT ![p] = l]
    BY DEF Fail, Reply, sonarr, db, IInv, LocInv, WellFormed, LocFields
  <1>2. /\ WellFormed(l) /\ l.reply = "error" /\ l.fresh = loc[p].fresh
        /\ l.strict = loc[p].strict
    BY DEF IInv, LocInv, WellFormed, LocFields
  <1>. HIDE DEF l
  <1>3. QED
    BY <1>1, <1>2, AnswerKeepsLoc, UnchangedKeepsRows DEF IInv

LEMMA ArrivalKeepsData ==
    ASSUME IInv, NEW p \in Tasks, NEW todo, EnterGate(p, todo)
    PROVE  LocInv' /\ RowsInv'
  <1>1. WellFormed([Fresh EXCEPT !.todo = todo])
    BY FreshIsWellFormed DEF WellFormed, LocFields
  <1>2. rows' = rows /\ asked' = asked
    BY DEF EnterGate, db, sonarr
  <1>3. LocInv'
    BY <1>1, <1>2, GotoKeepsLoc DEF EnterGate, IInv, GateInv
  <1>4. QED
    BY <1>2, <1>3, UnchangedKeepsRows DEF IInv

LEMMA GrantKeepsData ==
    ASSUME IInv, Grant
    PROVE  LocInv' /\ RowsInv'
  <1>1. /\ at' = [at EXCEPT ![Head(queue)] = "ready"]
        /\ UNCHANGED <<loc, rows, asked>>
    BY DEF Grant, db, sonarr
  <1>2. \A q \in Tasks : at'[q] \in {at[q], "ready"}
    BY <1>1 DEF IInv, GateInv
  <1>3. LocInv'
    BY <1>1, <1>2
       DEF IInv, LocInv, AnswerIsTrue, EpisodesRead, OnlyDeletersDelete,
           SearchedWasMonitored, Tasks
  <1>4. QED
    BY <1>1, <1>3, UnchangedKeepsRows DEF IInv

LEMMA EnvironmentKeepsData ==
    ASSUME IInv, Environment
    PROVE  LocInv' /\ RowsInv'
  <1>1. UNCHANGED <<at, loc, asked>>
    BY DEF Environment, EnqueueNow, WindowElapses, Unmonitor, Reprofile, FileChanges,
           ClearPending, UpdateSettings, task, sonarr
  <1>2. LocInv'
    BY <1>1, NobodyAnswersKeepsLoc DEF IInv
  <1>3. ASSUME NEW f \in Files, WindowElapses(f) PROVE RowsInv'
    BY <1>1, <1>3 DEF WindowElapses, IInv, RowsInv, SearchedWasAsked, Statuses
  <1>4. RowsInv'
    BY <1>1, <1>3, EnqueueKeepsRows, DropKeepsRows, UnchangedKeepsRows
       DEF Environment, EnqueueNow, Unmonitor, Reprofile, FileChanges, ClearPending,
           UpdateSettings, IInv, db
  <1>5. QED
    BY <1>2, <1>4

\* A new process has no task at a call, and the table is as it was.
LEMMA CrashKeepsData ==
    ASSUME IInv, Crash
    PROVE  LocInv' /\ RowsInv'
  <1>1. /\ at' = [p \in Tasks |-> "idle"] /\ loc' = [p \in Tasks |-> Fresh]
        /\ UNCHANGED <<rows, asked>>
    BY DEF Crash, db, sonarr
  <1>2. LocInv'
    BY <1>1, FreshIsWellFormed
       DEF LocInv, AnswerIsTrue, EpisodesRead, OnlyDeletersDelete, SearchedWasMonitored,
           Tasks, WellFormed
  <1>3. QED
    BY <1>1, <1>2, UnchangedKeepsRows DEF IInv

-----------------------------------------------------------------------------
(***************************************************************************)
(* The invariant and the theorems                                          *)
(***************************************************************************)

LEMMA InitIInv == Init => IInv
  <1>. SUFFICES ASSUME Init PROVE IInv
    OBVIOUS
  <1>1. LocInv
    BY FreshIsWellFormed
       DEF Init, LocInv, AnswerIsTrue, EpisodesRead, OnlyDeletersDelete,
           SearchedWasMonitored, Tasks, WellFormed
  <1>2. RowsInv
    BY DEF Init, RowsInv, SearchedWasAsked, Statuses
  <1>3. QED
    BY <1>1, <1>2, InitGateInv DEF IInv

LEMMA NextIInv == IInv /\ [Next]_vars => IInv'
  <1>. SUFFICES ASSUME IInv, [Next]_vars PROVE LocInv' /\ RowsInv'
    BY NextGateInv DEF IInv
  <1>1. ASSUME NEW p \in Scheduled, JobDue(p) PROVE LocInv' /\ RowsInv'
    BY <1>1, ArrivalKeepsData DEF JobDue, Tasks, Workers
  <1>2. ASSUME NEW p \in Runners, RunNow(p) PROVE LocInv' /\ RowsInv'
    BY <1>2, ArrivalKeepsData DEF RunNow, Tasks, Workers
  <1>3. ASSUME NEW p \in Scanners, ScanNow(p) PROVE LocInv' /\ RowsInv'
    BY <1>3, ArrivalKeepsData DEF ScanNow, Tasks
  <1>4. ASSUME NEW p \in Deleters, NEW fs \in SUBSET Files, DeleteNow(p, fs)
        PROVE  LocInv' /\ RowsInv'
    BY <1>4, ArrivalKeepsData DEF DeleteNow, Tasks
  <1>5. CASE Grant
    BY <1>5, GrantKeepsData
  <1>6. ASSUME NEW p \in Tasks, TaskStep(p) PROVE LocInv' /\ RowsInv'
    <2>1. CASE Start(p)
      BY <2>1, StartKeepsData
    <2>2. CASE Publish(p)
      BY <2>2, PublishKeepsData
    <2>3. CASE ScanFailed(p)
      BY <2>3, LeaveKeepsLoc, UnchangedKeepsRows DEF ScanFailed, IInv, GateInv, db, sonarr
    <2>4. QED
      BY <1>6, <2>1, <2>2, <2>3, ResumeKeepsData DEF TaskStep
  <1>7. ASSUME NEW p \in Tasks, Serve(p) \/ Fail(p) PROVE LocInv' /\ RowsInv'
    BY <1>7, ServeKeepsData, FailKeepsData
  <1>8. CASE Environment
    BY <1>8, EnvironmentKeepsData
  <1>9. CASE Crash
    BY <1>9, CrashKeepsData
  <1>10. CASE UNCHANGED vars
    BY <1>10, NobodyAnswersKeepsLoc, UnchangedKeepsRows DEF vars, IInv
  <1>11. QED
    BY <1>1, <1>2, <1>3, <1>4, <1>5, <1>6, <1>7, <1>8, <1>9, <1>10 DEF Next

LEMMA SpecIInv == Spec => []IInv
  BY InitIInv, NextIInv, PTL DEF Spec

\* One scan, batch or delete at a time, for any number of tasks, and every way
\* out of one leaves the gate.
THEOREM SpecOneAtATime == Spec => []OneAtATime
  <1>1. IInv => OneAtATime
    BY DEF IInv, GateInv
  <1>2. QED
    BY <1>1, SpecIInv, PTL

\* A row says "searched" only of a file that Sonarr took a search for.
THEOREM SpecSearchedWasAsked == Spec => []SearchedWasAsked
  <1>1. IInv => SearchedWasAsked
    BY DEF IInv, RowsInv
  <1>2. QED
    BY <1>1, SpecIInv, PTL

\* With monitored_only the worker searches only for what was monitored when it
\* re-read it.
THEOREM SpecSearchedWasMonitored == Spec => []SearchedWasMonitored
  <1>1. IInv => SearchedWasMonitored
    BY DEF IInv, LocInv
  <1>2. QED
    BY <1>1, SpecIInv, PTL
=============================================================================
