--------------------------- MODULE ListSyncProofs ---------------------------
(***************************************************************************)
(* For any lists, titles and tasks and any number of faults and crashes:   *)
(* poll cycles never overlap, a cycle that found Seer unreachable calls it *)
(* no more, only an item read from a Trakt list in the cycle is ever       *)
(* requested, the program has one live request for a title at most, and    *)
(* what a decline and a removal promise holds under the stated limits on   *)
(* what else may remove, add and request.                                  *)
(***************************************************************************)
EXTENDS ListSync, SeqFilterProofs, FiniteSetTheorems

(***************************************************************************)
(* The inductive invariant: the data has its type and every task is in a   *)
(* place that its local variables agree with.  What they have to agree on  *)
(* is where a shared removal or status update returns to: a poll must not  *)
(* fall out of its cycle without leaving the gate.                         *)
(***************************************************************************)

DataOK ==
    /\ rows \in [Items -> Row]
    /\ tracked \subseteq Lists /\ autoRemove \in BOOLEAN
    /\ onTrakt \subseteq Items
    /\ media \in [Titles -> Media]
    /\ requests \in [Titles -> SUBSET Ids]
    /\ declined \subseteq Ids /\ mine \subseteq Ids /\ lastId \in IdOrNone
    /\ faults \in 0..MaxFaults /\ crashes \in 0..MaxCrashes

TasksOK ==
    /\ gate \in Pollers \cup {Nobody} /\ queue \in Seq(Pollers)
    /\ at \in [Tasks -> Places] /\ loc \in [Tasks -> Locals]

\* The poll goes on with the list it reads, the refresh with its snapshots.
Returns(l) ==
    /\ l.after \in {"items", "settle", "snaps"}
    /\ l.snaps # {} => l.after = "snaps"
    /\ l.after # "snaps" => l.list \in Lists

PollerAgrees(place, l) ==
    /\ place \in {"items", "settle", "snaps", "status", "declined", "create"} \cup Removing
         => Returns(l)
    /\ place \in {"items", "settle", "snaps"} => l.after = place
    /\ place \in {"declined", "create"} => l.after = "items"
    /\ place = "status" => l.after # "settle"
    /\ place \in {"lists", "read"} => l.snaps = {}
    /\ place = "read" => l.list \in Lists
    /\ l.down => place \in {"lists", "read", "items"}
    /\ place \in {"status", "declined", "create"} /\ l.after = "items" => l.cur.item \in l.seen

\* Sweeps and deletes walk snapshots and remove; the rest is the poll's.
OtherAgrees(place, l) ==
    /\ place \in {"idle", "snaps", "status"} \cup Removing
    /\ l.after \in {"idle", "snaps"}

Calls == {"status", "declined", "create", "untrakt", "lookup", "delete"}

Agrees(p, place, l) ==
    /\ place \in Calls => l.cur.item \in Items
    /\ IF p \in Pollers THEN PollerAgrees(place, l) ELSE OtherAgrees(place, l)

PlacesAgree == \A p \in Tasks : Agrees(p, at[p], loc[p])

Control == TasksOK /\ OneCycle /\ PlacesAgree

IInv == DataOK /\ Control

-----------------------------------------------------------------------------
(***************************************************************************)
(* Moves of one task                                                       *)
(***************************************************************************)

\* A move inside a cycle, or of a sweep or a delete, keeps the gate's promise.
LEMMA GotoKeepsControl ==
    ASSUME Control, NEW p \in Tasks, NEW place \in Places, NEW l \in Locals,
           Goto(p, place, l), UNCHANGED sync, Agrees(p, place, l),
           p \in Pollers => InCycle(p) /\ place \notin {"idle", "queued"}
    PROVE  Control'
  <1>1. /\ at' = [at EXCEPT ![p] = place] /\ loc' = [loc EXCEPT ![p] = l]
        /\ gate' = gate /\ queue' = queue
    BY DEF Goto, sync
  <1>2. TasksOK'
    BY <1>1 DEF Control, TasksOK
  <1>3. \A q \in Tasks : /\ at'[q] = IF q = p THEN place ELSE at[q]
                         /\ loc'[q] = IF q = p THEN l ELSE loc[q]
    BY <1>1 DEF Control, TasksOK
  <1>4. OneCycle'
    BY <1>1, <1>3 DEF Control, OneCycle, InCycle, Tasks
  <1>5. PlacesAgree'
    BY <1>3 DEF Control, PlacesAgree, Agrees, Calls
  <1>6. QED
    BY <1>2, <1>4, <1>5 DEF Control

\* The local variables a task starts an item, a list or itself with are typed.
LEMMA FreshTypes == NoCur \in Cursor /\ Fresh \in Locals
  <1>1. NoCur \in Cursor
    BY ListSyncAssumption DEF NoCur, Cursor, IdOrNone, NoId, Backoffs
  <1>2. QED
    BY <1>1 DEF Fresh, Locals, Replies, Media

\* Forgetting the current item leaves what the places have to agree with.
LEMMA RestKeeps ==
    ASSUME NEW l \in Locals
    PROVE  /\ Rest(l) \in Locals
           /\ Rest(l).after = l.after /\ Rest(l).snaps = l.snaps
           /\ Rest(l).down = l.down /\ Rest(l).seen = l.seen
           /\ Rest(l).list = l.list
           /\ [Rest(l) EXCEPT !.cur = l.cur] \in Locals
  BY FreshTypes DEF Rest, Locals, Replies, Media

\* Going back to the caller.  A poll is only ever sent back into its cycle.
LEMMA ContinueKeepsControl ==
    ASSUME Control, NEW p \in Tasks, NEW l \in Locals, Continue(p, l), UNCHANGED sync,
           p \in Pollers => InCycle(p) /\ Returns(l) /\ (l.down => l.after = "items"),
           p \notin Pollers => l.after \in {"idle", "snaps"}
    PROVE  Control'
  <1>. DEFINE k == IF l.after = "idle" THEN Fresh
                   ELSE IF l.after = "settle" THEN [Rest(l) EXCEPT !.cur = l.cur]
                   ELSE Rest(l)
  <1>1. Goto(p, l.after, k)
    BY DEF Continue
  <1>2. k \in Locals /\ l.after \in Places
    <2>1. l.after \in Local \cup {"idle"}
      BY DEF Locals
    <2>2. QED
      BY <2>1, FreshTypes, RestKeeps DEF Places
  <1>3. /\ k.after = l.after
        /\ l.after # "idle" => k.snaps = l.snaps /\ k.down = l.down /\ k.list = l.list
    BY RestKeeps DEF Fresh, Rest, Locals
  <1>. HIDE DEF k
  <1>4. CASE p \in Pollers
    <2>1. Returns(k) /\ k.after = l.after /\ (k.down => l.after = "items")
      BY <1>3, <1>4 DEF Returns
    <2>2. Agrees(p, l.after, k)
      BY <1>4, <2>1 DEF Agrees, Calls, PollerAgrees, Returns
    <2>3. l.after \notin {"idle", "queued"}
      BY <1>4 DEF Returns
    <2>4. QED
      BY <1>1, <1>2, <1>4, <2>2, <2>3, GotoKeepsControl
  <1>5. CASE p \notin Pollers
    <2>1. Agrees(p, l.after, k)
      BY <1>3, <1>5 DEF Agrees, Calls, OtherAgrees
    <2>2. QED
      BY <1>1, <1>2, <1>5, <2>1, GotoKeepsControl
  <1>6. QED
    BY <1>4, <1>5

\* A removal that a caller starts, or skips, returns to where the caller says.
LEMMA BeginRemovalKeepsControl ==
    ASSUME Control, NEW p \in Tasks, NEW l \in Locals, BeginRemoval(p, l), UNCHANGED sync,
           l.cur.item \in Items,
           p \in Pollers => InCycle(p) /\ Returns(l) /\ ~l.down,
           p \notin Pollers => l.after \in {"idle", "snaps"}
    PROVE  Control'
  <1>1. CASE Continue(p, l)
    BY <1>1, ContinueKeepsControl
  <1>2. CASE ~Continue(p, l)
    <2>. DEFINE k == [[l EXCEPT !.status = "unknown"] EXCEPT !.reply = "none"]
    <2>1. Goto(p, "untrakt", k)
      BY <1>2 DEF BeginRemoval, Await
    <2>2. /\ k \in Locals /\ k.after = l.after /\ k.snaps = l.snaps /\ k.down = l.down
          /\ k.list = l.list /\ k.cur = l.cur
      BY DEF Locals, Replies, Media
    <2>. HIDE DEF k
    <2>3. Agrees(p, "untrakt", k)
      BY <2>2 DEF Agrees, Calls, PollerAgrees, Returns, OtherAgrees, Removing
    <2>4. QED
      BY <2>1, <2>2, <2>3, GotoKeepsControl DEF Places
  <1>3. QED
    BY <1>1, <1>2

\* Two versions of a task's variables that differ in the results of a call only.
SameTask(l, k) ==
    /\ l.after = k.after /\ l.snaps = k.snaps /\ l.down = k.down
    /\ l.seen = k.seen /\ l.cur.item = k.cur.item /\ l.list = k.list

\* A reply changes neither where a task is nor where it returns to.
LEMMA ReplyKeepsControl ==
    ASSUME Control, UNCHANGED <<at, gate, queue>>,
           loc' \in [Tasks -> Locals],
           \A p \in Tasks : SameTask(loc'[p], loc[p])
    PROVE  Control'
  <1>1. TasksOK'
    BY DEF Control, TasksOK
  <1>2. OneCycle'
    BY DEF Control, OneCycle, InCycle
  <1>3. PlacesAgree'
    BY DEF Control, PlacesAgree, Agrees, Calls, PollerAgrees, Returns, OtherAgrees, SameTask
  <1>4. QED
    BY <1>1, <1>2, <1>3 DEF Control

\* What the other steps of the process leave alone.
LEMMA StutterKeepsControl ==
    ASSUME Control, UNCHANGED <<gate, queue, at, loc>>
    PROVE  Control'
  BY DEF Control, TasksOK, OneCycle, InCycle, PlacesAgree, Agrees, Calls

\* The end of a cycle frees the gate with it.
LEMMA EndPollKeepsControl ==
    ASSUME Control, NEW p \in Pollers, InCycle(p), EndPoll(p)
    PROVE  Control'
  <1>1. /\ at' = [at EXCEPT ![p] = "idle"] /\ loc' = [loc EXCEPT ![p] = Fresh]
        /\ gate' = Nobody /\ queue' = queue
    BY DEF EndPoll, Goto
  <1>2. p \in Tasks /\ Nobody \notin Pollers
    BY ListSyncAssumption DEF Tasks
  <1>3. TasksOK'
    BY <1>1, FreshTypes DEF Control, TasksOK, Places
  <1>4. \A q \in Tasks : /\ at'[q] = IF q = p THEN "idle" ELSE at[q]
                         /\ loc'[q] = IF q = p THEN Fresh ELSE loc[q]
    BY <1>1 DEF Control, TasksOK
  <1>5. OneCycle'
    BY <1>1, <1>2, <1>4 DEF Control, OneCycle, InCycle, Tasks
  <1>6. Agrees(p, "idle", Fresh)
    BY DEF Agrees, Calls, PollerAgrees, Returns, Fresh, Removing
  <1>7. PlacesAgree'
    BY <1>4, <1>6 DEF Control, PlacesAgree, Agrees, Calls
  <1>8. QED
    BY <1>3, <1>5, <1>7 DEF Control

\* A cycle starts only when nobody is inside the gate.
LEMMA StartKeepsControl ==
    ASSUME Control, NEW p \in Pollers, gate = Nobody, gate' = p, BeginPoll(p),
           queue' \in Seq(Pollers), tracked \subseteq Lists
    PROVE  Control'
  <1>. DEFINE l == [Fresh EXCEPT !.lists = tracked]
  <1>1. at' = [at EXCEPT ![p] = "lists"] /\ loc' = [loc EXCEPT ![p] = l]
    BY DEF BeginPoll, Goto
  <1>2. p \in Tasks /\ Nobody \notin Pollers
    BY ListSyncAssumption DEF Tasks
  <1>3. l \in Locals /\ l.snaps = {} /\ l.down = FALSE
    BY FreshTypes DEF Locals, Fresh
  <1>. HIDE DEF l
  <1>4. TasksOK'
    BY <1>1, <1>3 DEF Control, TasksOK, Places, Local
  <1>5. \A q \in Tasks : /\ at'[q] = IF q = p THEN "lists" ELSE at[q]
                         /\ loc'[q] = IF q = p THEN l ELSE loc[q]
    BY <1>1 DEF Control, TasksOK
  <1>6. OneCycle'
    BY <1>2, <1>5 DEF Control, OneCycle, InCycle, Tasks
  <1>7. Agrees(p, "lists", l)
    BY <1>3 DEF Agrees, Calls, PollerAgrees, Returns, Removing
  <1>8. PlacesAgree'
    BY <1>5, <1>7 DEF Control, PlacesAgree, Agrees, Calls
  <1>9. QED
    BY <1>4, <1>6, <1>8 DEF Control

-----------------------------------------------------------------------------
(***************************************************************************)
(* The gate                                                                *)
(***************************************************************************)

LEMMA EnterGateKeepsControl ==
    ASSUME IInv, NEW p \in Pollers, at[p] = "idle", EnterGate(p)
    PROVE  Control'
  <1>1. CASE GateIsFree
    <2>1. gate = Nobody /\ gate' = p /\ queue' = queue /\ BeginPoll(p)
      BY <1>1 DEF EnterGate, GateIsFree
    <2>2. QED
      BY <2>1, StartKeepsControl DEF IInv, DataOK, Control, TasksOK
  <1>2. CASE ~GateIsFree
    <2>1. /\ at' = [at EXCEPT ![p] = "queued"] /\ loc' = [loc EXCEPT ![p] = Fresh]
          /\ gate' = gate /\ queue' = Append(queue, p)
      BY <1>2 DEF EnterGate, Goto
    <2>2. p \in Tasks
      BY DEF Tasks
    <2>3. TasksOK'
      BY <2>1, <2>2, FreshTypes DEF IInv, Control, TasksOK, Places
    <2>4. \A q \in Tasks : /\ at'[q] = IF q = p THEN "queued" ELSE at[q]
                           /\ loc'[q] = IF q = p THEN Fresh ELSE loc[q]
      BY <2>1 DEF IInv, Control, TasksOK
    <2>5. OneCycle'
      BY <2>1, <2>4 DEF IInv, Control, OneCycle, InCycle, Tasks
    <2>6. Agrees(p, "queued", Fresh)
      BY DEF Agrees, Calls, PollerAgrees, Returns, Fresh, Removing
    <2>7. PlacesAgree'
      BY <2>4, <2>6 DEF IInv, Control, PlacesAgree, Agrees, Calls
    <2>8. QED
      BY <2>3, <2>5, <2>7 DEF Control
  <1>3. QED
    BY <1>1, <1>2

LEMMA AdmitKeepsControl ==
    ASSUME IInv, Admit
    PROVE  Control'
  <1>1. queue \in Seq(Pollers) /\ queue # <<>>
    BY DEF IInv, Control, TasksOK, Admit
  <1>2. Head(queue) \in Pollers /\ Tail(queue) \in Seq(Pollers)
    BY <1>1
  <1>3. QED
    BY <1>2, StartKeepsControl DEF Admit, IInv, DataOK

-----------------------------------------------------------------------------
(***************************************************************************)
(* The steps of a task                                                     *)
(***************************************************************************)

\* Calling a service, with the local variables in order for the call's place.
LEMMA AwaitKeepsControl ==
    ASSUME Control, NEW p \in Tasks, NEW call \in Places, NEW l \in Locals,
           Await(p, call, l), UNCHANGED sync, Agrees(p, call, l),
           p \in Pollers => InCycle(p) /\ call \notin {"idle", "queued"}
    PROVE  Control'
  <1>. DEFINE k == [l EXCEPT !.reply = "none"]
  <1>1. Goto(p, call, k)
    BY DEF Await
  <1>2. /\ k \in Locals /\ k.after = l.after /\ k.snaps = l.snaps /\ k.down = l.down
        /\ k.list = l.list /\ k.seen = l.seen /\ k.cur = l.cur
    BY DEF Locals, Replies
  <1>. HIDE DEF k
  <1>3. Agrees(p, call, k)
    BY <1>2 DEF Agrees, Calls, PollerAgrees, Returns, OtherAgrees
  <1>4. QED
    BY <1>1, <1>2, <1>3, GotoKeepsControl

\* An UPDATE keeps the table typed when the new row is.
LEMMA UpdateKeepsRows ==
    ASSUME rows \in [Items -> Row], NEW i, NEW row, i \in Items => row \in Row,
           Update(i, row)
    PROVE  rows' \in [Items -> Row]
  BY DEF Update

\* Setting a status does.
LEMMA SetStatusKeepsRows ==
    ASSUME rows \in [Items -> Row], NEW i, NEW s \in Statuses, SetStatus(i, s)
    PROVE  rows' \in [Items -> Row]
  <1>1. i \in Items => [rows[i] EXCEPT !.status = s] \in Row
    BY DEF Row
  <1>2. QED
    BY <1>1, UpdateKeepsRows DEF SetStatus

\* The tasks write nothing but the items table.
LEMMA RowsKeepData ==
    ASSUME DataOK, rows' \in [Items -> Row], UNCHANGED <<settings, onTrakt, seer, budget>>
    PROVE  DataOK'
  BY DEF DataOK, settings, seer, budget

\* Where the local variables of a task in a removal lead back to.
LEMMA ReturnFacts ==
    ASSUME Control, NEW p \in Tasks, at[p] \in {"status", "declined", "create"} \cup Removing
    PROVE  /\ loc[p] \in Locals /\ loc[p].cur.item \in Items
           /\ p \in Pollers => /\ InCycle(p) /\ ~loc[p].down /\ Returns(loc[p])
                               /\ at[p] # "status" \/ loc[p].after # "settle"
                               /\ at[p] \in {"declined", "create"} => loc[p].after = "items"
                               /\ at[p] \notin Removing /\ loc[p].after = "items"
                                    => loc[p].cur.item \in loc[p].seen
           /\ p \notin Pollers => /\ loc[p].after \in {"idle", "snaps"}
                                  /\ at[p] \notin {"declined", "create"}
  <1>1. loc[p] \in Locals /\ Agrees(p, at[p], loc[p])
    BY DEF Control, TasksOK, PlacesAgree
  <1>2. CASE p \in Pollers
    BY <1>1, <1>2 DEF Agrees, Calls, PollerAgrees, Returns, InCycle, Removing
  <1>3. CASE p \notin Pollers
    BY <1>1, <1>3 DEF Agrees, Calls, OtherAgrees, Removing
  <1>4. QED
    BY <1>1, <1>2, <1>3

\* Going on with a removal that is under way.
LEMMA RemovalGoesOn ==
    ASSUME Control, NEW p \in Tasks, at[p] \in Removing, NEW call \in Removing,
           NEW l \in Locals, l.after = loc[p].after, l.snaps = loc[p].snaps,
           l.down = loc[p].down, l.list = loc[p].list,
           l.cur = loc[p].cur, Await(p, call, l), UNCHANGED sync
    PROVE  Control'
  <1>1. Agrees(p, call, l)
    BY ReturnFacts DEF Agrees, Calls, PollerAgrees, Returns, OtherAgrees, Removing
  <1>2. p \in Pollers => InCycle(p)
    BY ReturnFacts
  <1>3. call \in Places /\ call \notin {"idle", "queued"}
    BY DEF Removing, Places, SeerCall
  <1>4. QED
    BY <1>1, <1>2, <1>3, AwaitKeepsControl

\* Leaving it, whether the item was marked removed or not.
LEMMA RemovalReturns ==
    ASSUME Control, NEW p \in Tasks, at[p] \in Removing, Continue(p, loc[p]),
           UNCHANGED sync
    PROVE  Control'
  BY ReturnFacts, ContinueKeepsControl

LEMMA MarkRemovedIInv ==
    ASSUME IInv, NEW p \in Tasks, at[p] \in Removing, MarkRemoved(p),
           UNCHANGED <<settings, onTrakt, seer, sync, budget>>
    PROVE  IInv'
  <1>1. rows' \in [Items -> Row]
    BY SetStatusKeepsRows DEF MarkRemoved, IInv, DataOK, Statuses
  <1>2. DataOK'
    BY <1>1, RowsKeepData DEF IInv
  <1>3. Control'
    BY RemovalReturns DEF MarkRemoved, IInv
  <1>4. QED
    BY <1>2, <1>3 DEF IInv

LEMMA RemovalStepIInv ==
    ASSUME IInv, NEW p \in Tasks, RemovalStep(p)
    PROVE  IInv'
  <1>. DEFINE me == loc[p]
  <1>1. /\ at[p] \in Removing
        /\ UNCHANGED <<settings, onTrakt, seer, sync, budget>>
    BY DEF RemovalStep, ResumeUntrakt, ResumeLookup, ResumeDelete, Answered, Removing
  <1>2. \/ MarkRemoved(p)
        \/ Continue(p, me) /\ UNCHANGED rows
        \/ me.cur.req # NoId /\ Await(p, "delete", [me EXCEPT !.ids = {me.cur.req}])
             /\ UNCHANGED rows
        \/ \E call \in Removing : Await(p, call, me) /\ UNCHANGED rows
    BY DEF RemovalStep, ResumeUntrakt, ResumeLookup, ResumeDelete, Removing,
           UntraktFailed, CleanupFailed
  <1>3. CASE MarkRemoved(p)
    BY <1>1, <1>3, MarkRemovedIInv
  <1>4. CASE UNCHANGED rows
    <2>1. DataOK'
      BY <1>1, <1>4, RowsKeepData DEF IInv, DataOK
    <2>2. CASE Continue(p, me)
      BY <1>1, <2>1, <2>2, RemovalReturns DEF IInv
    <2>3. CASE \E call \in Removing : Await(p, call, me)
      BY <1>1, <2>1, <2>3, RemovalGoesOn, ReturnFacts DEF IInv
    <2>4. CASE me.cur.req # NoId /\ Await(p, "delete", [me EXCEPT !.ids = {me.cur.req}])
      <3>. DEFINE l == [me EXCEPT !.ids = {me.cur.req}]
      <3>1. me \in Locals
        BY <1>1, ReturnFacts DEF IInv
      <3>2. me.cur.req \in Ids
        BY <2>4, <3>1, ListSyncAssumption DEF Locals, Cursor, IdOrNone, Ids, NoId
      <3>3. /\ l \in Locals /\ l.after = me.after /\ l.snaps = me.snaps
            /\ l.down = me.down /\ l.list = me.list /\ l.cur = me.cur
        BY <3>1, <3>2 DEF Locals
      <3>. HIDE DEF l
      <3>4. Control'
        BY <1>1, <2>4, <3>3, RemovalGoesOn DEF IInv, Removing, l
      <3>5. QED
        BY <2>1, <3>4 DEF IInv
    <2>5. QED
      BY <1>2, <1>3, <2>2, <2>3, <2>4
  <1>5. QED
    BY <1>2, <1>3, <1>4

-----------------------------------------------------------------------------
(***************************************************************************)
(* The steps of a poll                                                     *)
(***************************************************************************)

\* In the places of a poll without a call: who is there and with what.
LEMMA PollFacts ==
    ASSUME Control, NEW p \in Tasks, at[p] \in {"lists", "read", "items", "settle"}
    PROVE  /\ p \in Pollers /\ InCycle(p) /\ loc[p] \in Locals
           /\ loc[p].snaps = {}
           /\ at[p] \in {"items", "settle"} => loc[p].after = at[p]
           /\ at[p] # "lists" => loc[p].list \in Lists
           /\ at[p] = "settle" => ~loc[p].down
  <1>1. loc[p] \in Locals /\ Agrees(p, at[p], loc[p])
    BY DEF Control, TasksOK, PlacesAgree
  <1>2. QED
    BY <1>1 DEF Agrees, Calls, PollerAgrees, Returns, OtherAgrees, Removing, InCycle

\* The steps that walk the lists write nothing and stay in the cycle.
LEMMA ListWalkIInv ==
    ASSUME IInv, NEW p \in Tasks, PickList(p) \/ ResumeRead(p) \/ EndList(p)
    PROVE  IInv'
  <1>1. DataOK' /\ UNCHANGED sync
    BY RowsKeepData DEF IInv, DataOK, PickList, ResumeRead, EndList, store, settings
  <1>2. CASE PickList(p)
    <2>1. PICK l \in loc[p].lists :
            Await(p, "read", [loc[p] EXCEPT !.lists = @ \ {l}, !.list = l])
      BY <1>2 DEF PickList
    <2>. DEFINE k == [loc[p] EXCEPT !.lists = @ \ {l}, !.list = l]
    <2>2. p \in Pollers /\ InCycle(p) /\ loc[p] \in Locals /\ loc[p].snaps = {}
      BY <1>2, PollFacts DEF IInv, PickList
    <2>3. k \in Locals /\ k.snaps = {} /\ k.list \in Lists
      BY <2>1, <2>2 DEF Locals
    <2>. HIDE DEF k
    <2>4. Agrees(p, "read", k)
      BY <2>2, <2>3 DEF Agrees, Calls, PollerAgrees, Returns, Removing
    <2>5. Control'
      BY <1>1, <2>1, <2>2, <2>3, <2>4, AwaitKeepsControl DEF IInv, Places, k
    <2>6. QED
      BY <1>1, <2>5 DEF IInv
  <1>3. CASE ResumeRead(p)
    <2>. DEFINE r  == Rest(loc[p])
                k  == [r EXCEPT !.after = "items"]
                to == IF loc[p].reply = "ok" THEN "items" ELSE "lists"
    <2>1. at[p] = "read" /\ Goto(p, to, k)
      BY <1>3 DEF ResumeRead, Answered
    <2>2. /\ p \in Pollers /\ InCycle(p) /\ loc[p] \in Locals /\ loc[p].snaps = {}
          /\ loc[p].list \in Lists
      BY <2>1, PollFacts DEF IInv
    <2>3. r \in Locals /\ r.snaps = {} /\ r.list = loc[p].list
      BY <2>2, RestKeeps
    <2>. HIDE DEF r
    <2>4. k \in Locals /\ k.after = "items" /\ k.snaps = {} /\ k.list = loc[p].list
      BY <2>3 DEF Locals, Local
    <2>. HIDE DEF k
    <2>5. Agrees(p, to, k)
      BY <2>2, <2>4 DEF Agrees, Calls, PollerAgrees, Returns, Removing
    <2>6. Control'
      BY <1>1, <2>1, <2>2, <2>4, <2>5, GotoKeepsControl DEF IInv, Places, Local
    <2>7. QED
      BY <1>1, <2>6 DEF IInv
  <1>4. CASE EndList(p)
    <2>. DEFINE k == [loc[p] EXCEPT !.polled = @ \cup {loc[p].list}, !.list = NoList]
    <2>1. at[p] = "items" /\ Goto(p, "lists", k)
      BY <1>4 DEF EndList
    <2>2. /\ p \in Pollers /\ InCycle(p) /\ loc[p] \in Locals /\ loc[p].snaps = {}
          /\ loc[p].list \in Lists
      BY <2>1, PollFacts DEF IInv
    <2>3. k \in Locals /\ k.snaps = {}
      BY <2>2 DEF Locals
    <2>. HIDE DEF k
    <2>4. Agrees(p, "lists", k)
      BY <2>2, <2>3 DEF Agrees, Calls, PollerAgrees, Returns, Removing
    <2>5. Control'
      BY <1>1, <2>1, <2>2, <2>3, <2>4, GotoKeepsControl DEF IInv, Places, Local
    <2>6. QED
      BY <1>1, <2>5 DEF IInv
  <1>5. QED
    BY <1>2, <1>3, <1>4

\* _process_item: every early return goes back to the list, and a cycle that
\* found Seer unreachable always takes the first one.
LEMMA ProcessItemIInv ==
    ASSUME IInv, NEW p \in Tasks, NEW i \in Items, ProcessItem(p, i)
    PROVE  IInv'
  <1>. DEFINE row == Upserted(i)
              me  == [loc[p] EXCEPT
                        !.todo = @ \ {i}, !.seen = @ \cup {i}, !.after = "items",
                        !.cur = [item |-> i, req |-> row.req, backoff |-> row.backoff]]
  <1>1. /\ at[p] = "items" /\ rows' = [rows EXCEPT ![i] = row]
        /\ UNCHANGED <<settings, onTrakt, seer, sync, budget>>
        /\ \/ Continue(p, me)
           \/ ~Handled(row, me) /\ BeginRemoval(p, me)
           \/ ~Handled(row, me) /\ Await(p, "status", me)
    BY DEF ProcessItem
  <1>2. row \in Row
    BY ListSyncAssumption DEF IInv, DataOK, Upserted, NewRow, Row, Statuses, Backoffs,
                              IdOrNone, NoId
  <1>3. DataOK'
    BY <1>1, <1>2, RowsKeepData DEF IInv, DataOK
  <1>4. /\ p \in Pollers /\ InCycle(p) /\ loc[p] \in Locals /\ loc[p].snaps = {}
        /\ loc[p].list \in Lists
    BY <1>1, PollFacts DEF IInv
  <1>5. [item |-> i, req |-> row.req, backoff |-> row.backoff] \in Cursor
    BY <1>2 DEF Row, Cursor
  <1>. HIDE DEF row
  <1>6. /\ me \in Locals /\ me.after = "items" /\ me.snaps = {} /\ me.list \in Lists
        /\ me.seen = loc[p].seen \cup {i} /\ me.cur.item = i
    BY <1>4, <1>5 DEF Locals, Local
  <1>. HIDE DEF me
  <1>7. Returns(me)
    BY <1>6 DEF Returns
  <1>8. CASE Continue(p, me)
    BY <1>1, <1>3, <1>4, <1>6, <1>7, <1>8, ContinueKeepsControl DEF IInv
  <1>9. CASE ~Handled(row, me) /\ BeginRemoval(p, me)
    BY <1>1, <1>3, <1>4, <1>6, <1>7, <1>9, BeginRemovalKeepsControl DEF IInv, Handled
  <1>10. CASE ~Handled(row, me) /\ Await(p, "status", me)
    <2>1. Agrees(p, "status", me)
      BY <1>4, <1>6, <1>7, <1>10 DEF Agrees, Calls, PollerAgrees, Handled, Removing
    <2>2. QED
      BY <1>1, <1>3, <1>4, <1>6, <1>10, <2>1, AwaitKeepsControl DEF IInv, Places, SeerCall
  <1>11. QED
    BY <1>1, <1>8, <1>9, <1>10

\* The latch trips while the poll works on an item of its list.
LEMMA TripKeepsControl ==
    ASSUME Control, NEW p \in Pollers, at[p] \in {"status", "declined", "create"},
           loc[p].after = "items", Trip(p), UNCHANGED sync
    PROVE  Control'
  <1>. DEFINE k == [loc[p] EXCEPT !.down = TRUE]
  <1>1. p \in Tasks /\ loc[p] \in Locals /\ InCycle(p) /\ Returns(loc[p])
    BY ReturnFacts DEF Tasks
  <1>2. /\ k \in Locals /\ k.after = "items" /\ k.snaps = loc[p].snaps
        /\ k.list = loc[p].list
    BY <1>1 DEF Locals
  <1>3. Continue(p, k)
    BY DEF Trip
  <1>. HIDE DEF k
  <1>4. QED
    BY <1>1, <1>2, <1>3, ContinueKeepsControl DEF Returns

\* get_status failed: skip the item, trip the latch, or end the refresh.
LEMMA StatusFailedIInv ==
    ASSUME IInv, NEW p \in Tasks, StatusFailed(p)
    PROVE  IInv'
  <1>1. /\ p \in Pollers /\ at[p] = "status"
        /\ UNCHANGED <<store, onTrakt, seer, budget>>
    BY DEF StatusFailed, Answered
  <1>2. DataOK'
    BY <1>1, RowsKeepData DEF IInv, DataOK, store, settings
  <1>3. InCycle(p) /\ ~loc[p].down /\ Returns(loc[p]) /\ loc[p] \in Locals
    BY <1>1, ReturnFacts DEF IInv
  <1>4. CASE Continue(p, loc[p]) /\ UNCHANGED sync
    BY <1>1, <1>2, <1>3, <1>4, ContinueKeepsControl DEF IInv
  <1>5. CASE loc[p].after = "items" /\ Trip(p) /\ UNCHANGED sync
    BY <1>1, <1>2, <1>5, TripKeepsControl DEF IInv
  <1>6. CASE EndPoll(p)
    BY <1>1, <1>2, <1>3, <1>6, EndPollKeepsControl DEF IInv
  <1>7. QED
    BY <1>4, <1>5, <1>6 DEF StatusFailed

\* _apply_seer_status for a title Seer knows: the status is stored and the
\* removal, if one is due, returns to the back-off that is cleared after it.
LEMMA StatusKnownIInv ==
    ASSUME IInv, NEW p \in Tasks, StatusKnown(p)
    PROVE  IInv'
  <1>. DEFINE me == [loc[p] EXCEPT !.after = IF @ = "items" THEN "settle" ELSE @]
  <1>1. /\ p \in Pollers /\ at[p] = "status"
        /\ UNCHANGED <<settings, onTrakt, seer, sync, budget>>
        /\ BeginRemoval(p, me) \/ Continue(p, me)
        /\ SetStatus(me.cur.item,
                     IF me.status = "available" THEN "available" ELSE "requested")
    BY DEF StatusKnown, Answered
  <1>2. rows' \in [Items -> Row]
    BY <1>1, SetStatusKeepsRows DEF IInv, DataOK, Statuses
  <1>3. DataOK'
    BY <1>1, <1>2, RowsKeepData DEF IInv
  <1>4. /\ InCycle(p) /\ ~loc[p].down /\ Returns(loc[p]) /\ loc[p] \in Locals
        /\ loc[p].cur.item \in Items
    BY <1>1, ReturnFacts DEF IInv
  <1>5. me \in Locals /\ ~me.down /\ Returns(me) /\ me.cur.item \in Items
    BY <1>4 DEF Locals, Local, Returns
  <1>. HIDE DEF me
  <1>6. CASE BeginRemoval(p, me)
    BY <1>1, <1>3, <1>4, <1>5, <1>6, BeginRemovalKeepsControl DEF IInv
  <1>7. CASE Continue(p, me)
    BY <1>1, <1>3, <1>4, <1>5, <1>7, ContinueKeepsControl DEF IInv
  <1>8. QED
    BY <1>1, <1>6, <1>7

\* Only the poll of a list goes on to request the title.
LEMMA StatusUnknownIInv ==
    ASSUME IInv, NEW p \in Tasks, StatusUnknown(p)
    PROVE  IInv'
  <1>1. /\ p \in Pollers /\ at[p] = "status"
        /\ UNCHANGED <<store, onTrakt, seer, sync, budget>>
        /\ \/ loc[p].after = "items" /\ Await(p, "declined", loc[p])
           \/ Continue(p, loc[p])
    BY DEF StatusUnknown, Answered, Requests
  <1>2. DataOK'
    BY <1>1, RowsKeepData DEF IInv, DataOK, store, settings
  <1>3. /\ InCycle(p) /\ ~loc[p].down /\ Returns(loc[p]) /\ loc[p] \in Locals
        /\ loc[p].after = "items" => loc[p].cur.item \in loc[p].seen
        /\ loc[p].cur.item \in Items
    BY <1>1, ReturnFacts DEF IInv, Removing
  <1>4. CASE Continue(p, loc[p])
    BY <1>1, <1>2, <1>3, <1>4, ContinueKeepsControl DEF IInv
  <1>5. CASE loc[p].after = "items" /\ Await(p, "declined", loc[p])
    <2>1. Agrees(p, "declined", loc[p])
      BY <1>1, <1>3, <1>5 DEF Agrees, Calls, PollerAgrees
    <2>2. QED
      BY <1>1, <1>2, <1>3, <1>5, <2>1, AwaitKeepsControl DEF IInv, Places, SeerCall
  <1>6. QED
    BY <1>1, <1>4, <1>5

\* The back-off is cleared in the row, and the poll takes its next item.
LEMMA SettleIInv ==
    ASSUME IInv, NEW p \in Tasks, Settle(p)
    PROVE  IInv'
  <1>. DEFINE r == Rest(loc[p])
              k == [r EXCEPT !.after = "items"]
              i == loc[p].cur.item
              row == [rows[i] EXCEPT !.backoff = "none"]
  <1>1. /\ at[p] = "settle" /\ Goto(p, "items", k)
        /\ UNCHANGED <<settings, onTrakt, seer, sync, budget>>
        /\ Update(i, row) \/ UNCHANGED rows
    BY DEF Settle
  <1>2. i \in Items => row \in Row
    BY DEF IInv, DataOK, Row, Backoffs
  <1>3. rows' \in [Items -> Row]
    BY <1>1, <1>2, UpdateKeepsRows DEF IInv, DataOK
  <1>4. DataOK'
    BY <1>1, <1>3, RowsKeepData DEF IInv
  <1>5. /\ p \in Pollers /\ InCycle(p) /\ loc[p] \in Locals /\ loc[p].snaps = {}
        /\ loc[p].list \in Lists
    BY <1>1, PollFacts DEF IInv
  <1>6. r \in Locals /\ r.snaps = {} /\ r.list \in Lists
    BY <1>5, RestKeeps
  <1>. HIDE DEF r
  <1>7. k \in Locals /\ k.after = "items" /\ k.snaps = {} /\ k.list \in Lists
    BY <1>6 DEF Locals, Local
  <1>. HIDE DEF k
  <1>8. Agrees(p, "items", k)
    BY <1>5, <1>7 DEF Agrees, Calls, PollerAgrees, Returns, Removing
  <1>9. QED
    BY <1>1, <1>4, <1>5, <1>7, <1>8, GotoKeepsControl DEF IInv, Places, Local

\* _request_item's two calls: what they have in common.
LEMMA RequestFacts ==
    ASSUME Control, NEW p \in Tasks, at[p] \in {"declined", "create"}
    PROVE  /\ p \in Pollers /\ InCycle(p) /\ ~loc[p].down /\ loc[p] \in Locals
           /\ loc[p].after = "items" /\ Returns(loc[p])
           /\ loc[p].cur.item \in loc[p].seen \cap Items
  BY ReturnFacts DEF Removing

LEMMA RequestReturns ==
    ASSUME Control, NEW p \in Tasks, at[p] \in {"declined", "create"},
           Continue(p, loc[p]), UNCHANGED sync
    PROVE  Control'
  BY RequestFacts, ContinueKeepsControl

LEMMA DeferIInv ==
    ASSUME IInv, NEW p \in Tasks, at[p] \in {"declined", "create"}, Defer(p),
           UNCHANGED <<settings, onTrakt, seer, sync, budget>>
    PROVE  IInv'
  <1>. DEFINE i   == loc[p].cur.item
              row == [rows[i] EXCEPT !.status = "synced", !.backoff = "held"]
  <1>1. Update(i, row) /\ Continue(p, loc[p])
    BY DEF Defer
  <1>2. i \in Items => row \in Row
    BY ZenonT(40) DEF IInv, DataOK, Row, Statuses, Backoffs
  <1>3. rows' \in [Items -> Row]
    BY <1>1, <1>2, UpdateKeepsRows DEF IInv, DataOK
  <1>4. QED
    BY <1>1, <1>3, RowsKeepData, RequestReturns DEF IInv

LEMMA ResumeDeclinedIInv ==
    ASSUME IInv, NEW p \in Tasks, ResumeDeclined(p)
    PROVE  IInv'
  <1>1. /\ at[p] = "declined"
        /\ UNCHANGED <<settings, onTrakt, seer, sync, budget>>
        /\ \/ Defer(p)
           \/ Trip(p) /\ UNCHANGED rows
           \/ Await(p, "create", loc[p]) /\ UNCHANGED rows
    BY DEF ResumeDeclined, Answered
  <1>2. /\ p \in Pollers /\ InCycle(p) /\ ~loc[p].down /\ loc[p] \in Locals
        /\ loc[p].after = "items" /\ Returns(loc[p])
        /\ loc[p].cur.item \in loc[p].seen \cap Items
    BY <1>1, RequestFacts DEF IInv
  <1>3. UNCHANGED rows => DataOK'
    BY <1>1, RowsKeepData DEF IInv, DataOK
  <1>4. CASE Defer(p)
    BY <1>1, <1>4, DeferIInv
  <1>5. CASE Trip(p) /\ UNCHANGED rows
    BY <1>1, <1>2, <1>3, <1>5, TripKeepsControl DEF IInv
  <1>6. CASE Await(p, "create", loc[p]) /\ UNCHANGED rows
    <2>1. Agrees(p, "create", loc[p])
      BY <1>2 DEF Agrees, Calls, PollerAgrees
    <2>2. QED
      BY <1>1, <1>2, <1>3, <1>6, <2>1, AwaitKeepsControl DEF IInv, Places, SeerCall
  <1>7. QED
    BY <1>1, <1>4, <1>5, <1>6

\* A request was made: its id and the status reach the row in one step.
LEMMA ResumeCreateIInv ==
    ASSUME IInv, NEW p \in Tasks, ResumeCreate(p)
    PROVE  IInv'
  <1>. DEFINE i == loc[p].cur.item
              row(id) == [status |-> "requested", req |-> id,
                          backoff |-> IF loc[p].cur.backoff # "none" THEN "none"
                                      ELSE rows[i].backoff]
  <1>1. /\ at[p] = "create"
        /\ UNCHANGED <<settings, onTrakt, seer, sync, budget>>
        /\ \/ Defer(p)
           \/ Trip(p) /\ UNCHANGED rows
           \/ (\E id \in loc[p].ids : Update(i, row(id))) /\ Continue(p, loc[p])
    BY DEF ResumeCreate, Answered
  <1>2. p \in Pollers /\ loc[p] \in Locals /\ loc[p].after = "items"
    BY <1>1, RequestFacts DEF IInv
  <1>3. CASE Defer(p)
    BY <1>1, <1>3, DeferIInv
  <1>4. CASE Trip(p) /\ UNCHANGED rows
    BY <1>1, <1>2, <1>4, TripKeepsControl, RowsKeepData DEF IInv, DataOK
  <1>5. CASE (\E id \in loc[p].ids : Update(i, row(id))) /\ Continue(p, loc[p])
    <2>1. PICK id \in loc[p].ids : Update(i, row(id))
      BY <1>5
    <2>2. id \in IdOrNone
      BY <1>2, <2>1, ListSyncAssumption DEF Locals, Ids, IdOrNone
    <2>3. i \in Items => row(id) \in Row
      BY <2>2 DEF IInv, DataOK, Row, Statuses, Backoffs
    <2>4. rows' \in [Items -> Row]
      BY <2>1, <2>3, UpdateKeepsRows DEF IInv, DataOK
    <2>5. QED
      BY <1>1, <1>5, <2>4, RowsKeepData, RequestReturns DEF IInv
  <1>6. QED
    BY <1>1, <1>3, <1>4, <1>5

-----------------------------------------------------------------------------
(***************************************************************************)
(* The refresh, the sweep and the per-item delete                          *)
(***************************************************************************)

LEMMA SnapTypes ==
    ASSUME DataOK, NEW lists
    PROVE  ActiveSnaps(lists) \subseteq Snap
  BY DEF ActiveSnaps, Snap, DataOK, Row

\* The refresh starts only in a cycle whose latch has not tripped.
LEMMA StartRefreshIInv ==
    ASSUME IInv, NEW p \in Tasks, StartRefresh(p)
    PROVE  IInv'
  <1>. DEFINE me == loc[p]
              ss == {s \in ActiveSnaps(me.polled) : s.item \notin me.seen}
              k  == [Fresh EXCEPT !.snaps = ss, !.seen = me.seen, !.after = "snaps",
                                  !.hit = me.hit]
  <1>1. /\ at[p] = "lists"
        /\ UNCHANGED <<store, onTrakt, seer, budget>>
        /\ EndPoll(p) \/ (Goto(p, "snaps", k) /\ UNCHANGED sync)
    BY DEF StartRefresh
  <1>2. DataOK'
    BY <1>1, RowsKeepData DEF IInv, DataOK, store, settings
  <1>3. p \in Pollers /\ InCycle(p) /\ me \in Locals
    BY <1>1, PollFacts DEF IInv
  <1>4. CASE EndPoll(p)
    BY <1>2, <1>3, <1>4, EndPollKeepsControl DEF IInv
  <1>5. CASE Goto(p, "snaps", k) /\ UNCHANGED sync
    <2>1. ss \subseteq Snap
      BY SnapTypes DEF IInv
    <2>. HIDE DEF ss
    <2>2. k \in Locals /\ k.after = "snaps" /\ k.down = FALSE
      BY <1>3, <2>1, FreshTypes DEF Fresh, Locals, Local
    <2>. HIDE DEF k
    <2>3. Agrees(p, "snaps", k)
      BY <1>3, <2>2 DEF Agrees, Calls, PollerAgrees, Returns, Removing
    <2>4. QED
      BY <1>2, <1>3, <1>5, <2>2, <2>3, GotoKeepsControl DEF IInv, Places, Local
  <1>6. QED
    BY <1>1, <1>4, <1>5

LEMMA SweepIInv ==
    ASSUME IInv, NEW p \in Sweepers, Sweep(p)
    PROVE  IInv'
  <1>. DEFINE k == [Fresh EXCEPT !.snaps = ActiveSnaps(tracked), !.after = "snaps"]
  <1>1. /\ Goto(p, "snaps", k) /\ UNCHANGED <<store, onTrakt, seer, sync, budget>>
        /\ p \in Tasks /\ p \notin Pollers
    BY ListSyncAssumption DEF Sweep, Tasks
  <1>2. DataOK'
    BY <1>1, RowsKeepData DEF IInv, DataOK, store, settings
  <1>3. k \in Locals /\ k.after = "snaps"
    BY SnapTypes, FreshTypes DEF IInv, Fresh, Locals, Local
  <1>. HIDE DEF k
  <1>4. Agrees(p, "snaps", k)
    BY <1>1, <1>3 DEF Agrees, Calls, OtherAgrees
  <1>5. QED
    BY <1>1, <1>2, <1>3, <1>4, GotoKeepsControl DEF IInv, Places, Local

\* delete_item hands one row to the removal and has nothing to go back to.
LEMMA DeleteItemIInv ==
    ASSUME IInv, NEW p \in Deleters, NEW i \in Items, DeleteItem(p, i)
    PROVE  IInv'
  <1>. DEFINE c == [item |-> i, req |-> rows[i].req, backoff |-> rows[i].backoff]
              k == [Fresh EXCEPT !.cur = c]
  <1>1. /\ BeginRemoval(p, k) /\ UNCHANGED <<store, onTrakt, seer, sync, budget>>
        /\ p \in Tasks /\ p \notin Pollers
    BY ListSyncAssumption DEF DeleteItem, Tasks
  <1>2. DataOK'
    BY <1>1, RowsKeepData DEF IInv, DataOK, store, settings
  <1>3. c \in Cursor /\ c.item \in Items
    BY DEF IInv, DataOK, Row, Cursor
  <1>. HIDE DEF c
  <1>4. k \in Locals /\ k.after = "idle" /\ k.cur.item \in Items
    BY <1>3, FreshTypes DEF Fresh, Locals
  <1>. HIDE DEF k
  <1>5. QED
    BY <1>1, <1>2, <1>4, BeginRemovalKeepsControl DEF IInv

LEMMA NextSnapIInv ==
    ASSUME IInv, NEW p \in Tasks, NextSnap(p)
    PROVE  IInv'
  <1>1. PICK s \in loc[p].snaps :
          Await(p, "status",
                [loc[p] EXCEPT !.snaps = @ \ {s},
                               !.cur = [item |-> s.item, req |-> s.req, backoff |-> "none"]])
    BY DEF NextSnap
  <1>. DEFINE c == [item |-> s.item, req |-> s.req, backoff |-> "none"]
              k == [loc[p] EXCEPT !.snaps = @ \ {s}, !.cur = c]
  <1>2. /\ at[p] = "snaps" /\ UNCHANGED <<store, onTrakt, seer, sync, budget>>
        /\ loc[p] \in Locals /\ Agrees(p, "snaps", loc[p])
    BY DEF NextSnap, IInv, Control, TasksOK, PlacesAgree
  <1>3. DataOK'
    BY <1>2, RowsKeepData DEF IInv, DataOK, store, settings
  <1>4. c \in Cursor /\ c.item \in Items
    <2>1. s \in Snap
      BY <1>1, <1>2 DEF Locals
    <2>2. QED
      BY <2>1 DEF Snap, Cursor, Backoffs
  <1>. HIDE DEF c
  <1>5. k \in Locals /\ k.after = loc[p].after /\ k.down = loc[p].down /\ k.cur = c
    BY <1>2, <1>4 DEF Locals
  <1>6. p \in Pollers => k.after = "snaps" /\ ~k.down /\ InCycle(p)
    BY <1>2, <1>5 DEF Agrees, Calls, PollerAgrees, InCycle
  <1>. HIDE DEF k
  <1>7. Agrees(p, "status", k)
    BY <1>2, <1>4, <1>5, <1>6 DEF Agrees, Calls, PollerAgrees, OtherAgrees, Returns
  <1>8. QED
    BY <1>1, <1>2, <1>3, <1>5, <1>6, <1>7, AwaitKeepsControl DEF IInv, Places, SeerCall, k, c

LEMMA EndSnapsIInv ==
    ASSUME IInv, NEW p \in Tasks, EndSnaps(p)
    PROVE  IInv'
  <1>1. at[p] = "snaps" /\ UNCHANGED <<store, onTrakt, seer, budget>>
    BY DEF EndSnaps
  <1>2. DataOK'
    BY <1>1, RowsKeepData DEF IInv, DataOK, store, settings
  <1>3. CASE p \in Pollers
    BY <1>1, <1>2, <1>3, EndPollKeepsControl DEF EndSnaps, IInv, InCycle
  <1>4. CASE p \notin Pollers
    <2>1. Agrees(p, "idle", Fresh)
      BY <1>4 DEF Agrees, Calls, OtherAgrees, Fresh
    <2>2. QED
      BY <1>2, <1>4, <2>1, FreshTypes, GotoKeepsControl DEF EndSnaps, IInv, Places
  <1>5. QED
    BY <1>3, <1>4

LEMMA SweepStatusIInv ==
    ASSUME IInv, NEW p \in Tasks, SweepStatus(p)
    PROVE  IInv'
  <1>1. /\ p \in Sweepers /\ at[p] = "status"
        /\ UNCHANGED <<store, onTrakt, seer, sync, budget>>
        /\ BeginRemoval(p, loc[p]) \/ Continue(p, loc[p])
    BY DEF SweepStatus, Answered
  <1>2. p \notin Pollers
    BY <1>1, ListSyncAssumption
  <1>3. DataOK'
    BY <1>1, RowsKeepData DEF IInv, DataOK, store, settings
  <1>4. loc[p] \in Locals /\ loc[p].cur.item \in Items /\ loc[p].after \in {"idle", "snaps"}
    BY <1>1, <1>2, ReturnFacts DEF IInv
  <1>5. QED
    BY <1>1, <1>2, <1>3, <1>4, BeginRemovalKeepsControl, ContinueKeepsControl DEF IInv

-----------------------------------------------------------------------------
(***************************************************************************)
(* The services, users, time and crashes                                   *)
(***************************************************************************)

Replied(p) == \E l \in Locals : loc' = [loc EXCEPT ![p] = l] /\ SameTask(l, loc[p])

\* Any reply fills in typed results and touches nothing else of the task.
LEMMA AnyReplyKeepsControl ==
    ASSUME IInv, NEW p \in Tasks, UNCHANGED sync,
           \/ \E r \in Replies : Reply(p, r)
           \/ \E s \in Media : ReplyStatus(p, s)
           \/ \E r \in Replies, ids \in SUBSET Ids : ReplyIds(p, r, ids)
           \/ \E is \in SUBSET Items : ReplyItems(p, is)
    PROVE  Control'
  <1>1. at' = at /\ gate' = gate /\ queue' = queue
    BY DEF sync, Reply, ReplyStatus, ReplyIds, ReplyItems
  <1>2. loc[p] \in Locals /\ loc \in [Tasks -> Locals]
    BY DEF IInv, Control, TasksOK
  <1>3. ASSUME NEW r \in Replies, Reply(p, r) PROVE Replied(p)
    <2>. DEFINE h == loc[p].hit \/ (r = "unreachable" /\ at[p] \in SeerCall)
                l == [loc[p] EXCEPT !.reply = r, !.hit = h]
    <2>1. loc' = [loc EXCEPT ![p] = l]
      BY <1>2, <1>3 DEF Reply
    <2>2. h \in BOOLEAN
      OBVIOUS
    <2>. HIDE DEF h
    <2>3. l \in Locals /\ SameTask(l, loc[p])
      BY <1>2, <2>2 DEF Locals, SameTask
    <2>4. QED
      BY <2>1, <2>3 DEF Replied
  <1>4. ASSUME NEW s \in Media, ReplyStatus(p, s) PROVE Replied(p)
    <2>. DEFINE l == [loc[p] EXCEPT !.reply = "ok", !.status = s]
    <2>1. loc' = [loc EXCEPT ![p] = l]
      BY <1>2, <1>4 DEF ReplyStatus
    <2>2. l \in Locals /\ SameTask(l, loc[p])
      BY <1>2 DEF Locals, Replies, SameTask
    <2>3. QED
      BY <2>1, <2>2 DEF Replied
  <1>5. ASSUME NEW r \in Replies, NEW ids \in SUBSET Ids, ReplyIds(p, r, ids)
        PROVE  Replied(p)
    <2>. DEFINE l == [loc[p] EXCEPT !.reply = r, !.ids = ids]
    <2>1. loc' = [loc EXCEPT ![p] = l]
      BY <1>2, <1>5 DEF ReplyIds
    <2>2. l \in Locals /\ SameTask(l, loc[p])
      BY <1>2 DEF Locals, SameTask
    <2>3. QED
      BY <2>1, <2>2 DEF Replied
  <1>6. ASSUME NEW is \in SUBSET Items, ReplyItems(p, is) PROVE Replied(p)
    <2>. DEFINE l == [loc[p] EXCEPT !.reply = "ok", !.todo = is]
    <2>1. loc' = [loc EXCEPT ![p] = l]
      BY <1>2, <1>6 DEF ReplyItems
    <2>2. l \in Locals /\ SameTask(l, loc[p])
      BY <1>2 DEF Locals, Replies, SameTask
    <2>3. QED
      BY <2>1, <2>2 DEF Replied
  <1>7. PICK l \in Locals : loc' = [loc EXCEPT ![p] = l] /\ SameTask(l, loc[p])
    BY <1>3, <1>4, <1>5, <1>6 DEF Replied
  <1>8. loc' \in [Tasks -> Locals]
    BY <1>2, <1>7
  <1>9. \A q \in Tasks : SameTask(loc'[q], loc[q])
    BY <1>2, <1>7 DEF SameTask
  <1>10. QED
    BY <1>1, <1>8, <1>9, ReplyKeepsControl DEF IInv

\* The services keep their own records typed.
LEMMA ServicesKeepData ==
    ASSUME DataOK, UNCHANGED store,
           onTrakt' \subseteq Items, media' \in [Titles -> Media],
           requests' \in [Titles -> SUBSET Ids], declined' \subseteq Ids, mine' \subseteq Ids,
           lastId' \in IdOrNone, faults' \in 0..MaxFaults, crashes' \in 0..MaxCrashes
    PROVE  DataOK'
  BY DEF DataOK, store

LEMMA FaultTypes ==
    ASSUME DataOK, SpendFault \/ UNCHANGED budget
    PROVE  faults' \in 0..MaxFaults /\ crashes' \in 0..MaxCrashes
  BY ListSyncAssumption DEF DataOK, SpendFault, budget

\* A new request has an id within the bound.
LEMMA RecordTypes ==
    ASSUME DataOK, NEW t, Record(t)
    PROVE  /\ lastId' \in IdOrNone /\ lastId + 1 \in Ids
           /\ requests' \in [Titles -> SUBSET Ids] /\ media' \in [Titles -> Media]
           /\ declined' = declined
  <1>1. lastId \in IdOrNone /\ lastId < MaxRequests
    BY DEF DataOK, Record
  <1>2. lastId + 1 \in Ids /\ lastId + 1 \in IdOrNone
    BY <1>1, ListSyncAssumption DEF IdOrNone, Ids
  <1>3. requests' \in [Titles -> SUBSET Ids]
    BY <1>2 DEF Record, DataOK
  <1>4. media' \in [Titles -> Media]
    BY DEF Record, DataOK, Media
  <1>5. QED
    BY <1>2, <1>3, <1>4 DEF Record

LEMMA EraseTypes ==
    ASSUME DataOK, NEW t, NEW ids, Erase(t, ids)
    PROVE  /\ requests' \in [Titles -> SUBSET Ids] /\ media' \in [Titles -> Media]
           /\ UNCHANGED <<declined, mine, lastId>>
  <1>1. requests' \in [Titles -> SUBSET Ids]
    BY DEF Erase, DataOK
  <1>2. media' \in [Titles -> Media]
    BY DEF Erase, DataOK, Media
  <1>3. QED
    BY <1>1, <1>2 DEF Erase

\* The item of a call is one the table may hold.
LEMMA AskedItem ==
    ASSUME IInv, NEW p \in Tasks, NEW call \in Calls, Asked(p, call)
    PROVE  /\ loc[p].cur.item \in Items /\ TitleOf(loc[p].cur.item) \in Titles
           /\ loc[p] \in Locals
  <1>1. loc[p].cur.item \in Items /\ loc[p] \in Locals
    BY DEF Asked, IInv, Control, TasksOK, PlacesAgree, Agrees
  <1>2. QED
    BY <1>1 DEF Items, TitleOf

LEMMA ServeIInv ==
    ASSUME IInv, NEW p \in Tasks, Serve(p)
    PROVE  IInv'
  <1>1. ASSUME NEW call \in SeerCall, SeerFails(p, call) PROVE IInv'
    <2>1. DataOK'
      BY <1>1, ServicesKeepData, FaultTypes DEF IInv, SeerFails, DataOK, seer
    <2>2. Control'
      BY <1>1, AnyReplyKeepsControl DEF SeerFails, Replies
    <2>3. QED
      BY <2>1, <2>2 DEF IInv
  <1>2. CASE ServeRead(p)
    <2>1. DataOK'
      BY <1>2, ServicesKeepData, FaultTypes DEF IInv, ServeRead, DataOK, seer
    <2>2. {i \in onTrakt : ListOf(i) = loc[p].list} \in SUBSET Items
      BY DEF IInv, DataOK
    <2>3. Control'
      BY <1>2, <2>2, AnyReplyKeepsControl DEF ServeRead, Replies
    <2>4. QED
      BY <2>1, <2>3 DEF IInv
  <1>3. CASE ServeStatus(p)
    <2>1. DataOK'
      BY <1>3, RowsKeepData DEF IInv, ServeStatus, DataOK, store, settings
    <2>2. media[TitleOf(loc[p].cur.item)] \in Media
      BY <1>3, AskedItem DEF ServeStatus, Calls, IInv, DataOK
    <2>3. Control'
      BY <1>3, <2>2, AnyReplyKeepsControl DEF ServeStatus
    <2>4. QED
      BY <2>1, <2>3 DEF IInv
  <1>4. CASE ServeDeclined(p)
    <2>1. DataOK'
      BY <1>4, RowsKeepData DEF IInv, ServeDeclined, DataOK, store, settings
    <2>2. Control'
      BY <1>4, AnyReplyKeepsControl DEF ServeDeclined, Replies
    <2>3. QED
      BY <2>1, <2>2 DEF IInv
  <1>5. CASE ServeCreate(p)
    <2>. DEFINE t == TitleOf(loc[p].cur.item)
    <2>1. UNCHANGED <<store, onTrakt, sync>> /\ (SpendFault \/ UNCHANGED budget)
      BY <1>5 DEF ServeCreate
    <2>2. CASE Record(t) /\ mine' = mine \cup {lastId + 1}
                 /\ (ReplyIds(p, "ok", {lastId + 1}) \/ Reply(p, "error"))
      <3>1. DataOK'
        BY <2>1, <2>2, RecordTypes, FaultTypes, ServicesKeepData DEF IInv, DataOK
      <3>2. {lastId + 1} \in SUBSET Ids
        BY <2>2, RecordTypes DEF IInv
      <3>3. Control'
        BY <2>1, <2>2, <3>2, AnyReplyKeepsControl DEF Replies
      <3>4. QED
        BY <3>1, <3>3 DEF IInv
    <2>3. CASE UNCHANGED seer /\ (ReplyIds(p, "ok", {}) \/ Reply(p, "error"))
      <3>1. DataOK'
        BY <2>1, <2>3, FaultTypes, ServicesKeepData DEF IInv, DataOK, seer
      <3>2. Control'
        BY <2>1, <2>3, AnyReplyKeepsControl DEF Replies
      <3>3. QED
        BY <3>1, <3>2 DEF IInv
    <2>4. QED
      BY <1>5, <2>2, <2>3 DEF ServeCreate
  <1>6. CASE ServeUntrakt(p)
    <2>1. onTrakt' \subseteq Items /\ (SpendFault \/ UNCHANGED budget)
      BY <1>6 DEF ServeUntrakt, IInv, DataOK
    <2>2. DataOK'
      BY <1>6, <2>1, FaultTypes, ServicesKeepData DEF ServeUntrakt, IInv, DataOK, seer
    <2>3. Control'
      BY <1>6, AnyReplyKeepsControl DEF ServeUntrakt, Replies
    <2>4. QED
      BY <2>2, <2>3 DEF IInv
  <1>7. CASE ServeLookup(p)
    <2>1. DataOK'
      BY <1>7, RowsKeepData DEF IInv, ServeLookup, DataOK, store, settings
    <2>2. requests[TitleOf(loc[p].cur.item)] \in SUBSET Ids
      BY <1>7, AskedItem DEF ServeLookup, Calls, IInv, DataOK
    <2>3. Control'
      BY <1>7, <2>2, AnyReplyKeepsControl DEF ServeLookup, Replies
    <2>4. QED
      BY <2>1, <2>3 DEF IInv
  <1>8. CASE ServeDelete(p)
    <2>1. PICK id \in loc[p].ids :
             /\ Erase(TitleOf(loc[p].cur.item), {id})
             /\ ReplyIds(p, "ok", loc[p].ids \ {id}) \/ Reply(p, "error")
             /\ SpendFault \/ UNCHANGED budget
      BY <1>8 DEF ServeDelete
    <2>2. DataOK'
      BY <1>8, <2>1, EraseTypes, FaultTypes, ServicesKeepData DEF ServeDelete, IInv, DataOK
    <2>3. loc[p].ids \ {id} \in SUBSET Ids
      BY <1>8, AskedItem DEF ServeDelete, Calls, Locals
    <2>4. Control'
      BY <1>8, <2>1, <2>3, AnyReplyKeepsControl DEF ServeDelete, Replies
    <2>5. QED
      BY <2>2, <2>4 DEF IInv
  <1>9. QED
    BY <1>1, <1>2, <1>3, <1>4, <1>5, <1>6, <1>7, <1>8 DEF Serve

LEMMA BackoffElapsesIInv ==
    ASSUME IInv, NEW i \in Items, BackoffElapses(i)
    PROVE  IInv'
  <1>1. rows' \in [Items -> Row]
    BY DEF BackoffElapses, IInv, DataOK, Row, Backoffs
  <1>2. DataOK'
    BY <1>1, RowsKeepData DEF BackoffElapses, IInv
  <1>3. ASSUME NEW p \in Tasks
        PROVE  loc'[p] \in Locals /\ SameTask(loc'[p], loc[p])
    <2>1. loc[p] \in Locals
      BY DEF IInv, Control, TasksOK
    <2>2. CASE loc'[p] = loc[p]
      BY <2>1, <2>2 DEF SameTask
    <2>3. CASE loc'[p] # loc[p]
      <3>. DEFINE c == [loc[p].cur EXCEPT !.backoff = "due"]
                  l == [loc[p] EXCEPT !.cur = c]
      <3>1. loc'[p] = l
        BY <2>3 DEF BackoffElapses
      <3>2. c \in Cursor /\ c.item = loc[p].cur.item
        BY <2>1 DEF Locals, Cursor, Backoffs
      <3>. HIDE DEF c
      <3>3. l \in Locals /\ SameTask(l, loc[p])
        BY <2>1, <3>2 DEF Locals, SameTask
      <3>4. QED
        BY <3>1, <3>3
    <2>4. QED
      BY <2>2, <2>3
  <1>4. loc' \in [Tasks -> Locals]
    BY <1>3 DEF BackoffElapses
  <1>5. Control'
    BY <1>3, <1>4, ReplyKeepsControl DEF BackoffElapses, IInv, sync
  <1>6. QED
    BY <1>2, <1>5 DEF IInv

\* Users and services move while no task is between two awaits.
LEMMA EnvironmentIInv ==
    ASSUME IInv, Environment
    PROVE  IInv'
  <1>1. ASSUME NEW i \in Items, UserAdds(i) \/ UserDrops(i) PROVE IInv'
    BY <1>1, StutterKeepsControl DEF UserAdds, UserDrops, IInv, DataOK, store, seer, sync,
                                     task, budget
  <1>2. ASSUME NEW t \in Titles, UserRequests(t) PROVE IInv'
    <2>1. DataOK'
      BY <1>2, RecordTypes DEF UserRequests, IInv, DataOK, store, budget
    <2>2. QED
      BY <1>2, <2>1, StutterKeepsControl DEF UserRequests, IInv, sync, task
  <1>3. ASSUME NEW t \in Titles, Progress(t) \/ Vanish(t) PROVE IInv'
    <2>1. media' \in [Titles -> Media] /\ requests' \in [Titles -> SUBSET Ids]
      BY <1>3 DEF Progress, Vanish, IInv, DataOK, Media
    <2>2. QED
      BY <1>3, <2>1, StutterKeepsControl DEF Progress, Vanish, IInv, DataOK, store, sync,
                                             task, budget
  <1>4. ASSUME NEW t \in Titles, NEW id \in Ids, Decline(t, id) PROVE IInv'
    <2>1. media' \in [Titles -> Media] /\ declined' \subseteq Ids
      BY <1>4 DEF Decline, IInv, DataOK, Media
    <2>2. QED
      BY <1>4, <2>1, StutterKeepsControl DEF Decline, IInv, DataOK, store, sync, task, budget
  <1>5. ASSUME NEW l \in Lists, TrackList(l) \/ UntrackList(l) PROVE IInv'
    BY <1>5, StutterKeepsControl DEF TrackList, UntrackList, IInv, DataOK, seer, sync,
                                     task, budget
  <1>6. CASE ToggleAutoRemove
    BY <1>6, StutterKeepsControl DEF ToggleAutoRemove, IInv, DataOK, seer, sync, task, budget
  <1>7. CASE ClearItems
    <2>1. Absent \in Row
      BY ListSyncAssumption DEF Absent, Row, Statuses, Backoffs, IdOrNone, NoId
    <2>2. DataOK'
      BY <1>7, <2>1, RowsKeepData DEF ClearItems, IInv
    <2>3. QED
      BY <1>7, <2>2, StutterKeepsControl DEF ClearItems, IInv, sync, task
  <1>8. QED
    BY <1>1, <1>2, <1>3, <1>4, <1>5, <1>6, <1>7, BackoffElapsesIInv DEF Environment

\* A restart leaves no task behind, and so nobody at the gate.
LEMMA IdleControl ==
    ASSUME gate = Nobody, queue = <<>>, at = [p \in Tasks |-> "idle"],
           loc = [p \in Tasks |-> Fresh]
    PROVE  Control
  <1>1. TasksOK
    BY FreshTypes DEF TasksOK, Places
  <1>2. OneCycle
    BY ListSyncAssumption DEF OneCycle, InCycle, Tasks
  <1>3. PlacesAgree
    BY DEF PlacesAgree, Agrees, PollerAgrees, OtherAgrees, Calls, Fresh, Removing
  <1>4. QED
    BY <1>1, <1>2, <1>3 DEF Control

LEMMA CrashIInv ==
    ASSUME IInv, Crash
    PROVE  IInv'
  <1>1. DataOK'
    BY ListSyncAssumption, ServicesKeepData DEF Crash, IInv, DataOK, store, seer
  <1>2. Control'
    <2>1. /\ gate' = Nobody /\ queue' = <<>> /\ at' = [p \in Tasks |-> "idle"]
          /\ loc' = [p \in Tasks |-> Fresh]
      BY DEF Crash
    <2>2. TasksOK'
      BY <2>1, FreshTypes DEF TasksOK, Places
    <2>3. OneCycle'
      BY <2>1, ListSyncAssumption DEF OneCycle, InCycle, Tasks
    <2>4. PlacesAgree'
      BY <2>1 DEF PlacesAgree, Agrees, PollerAgrees, OtherAgrees, Calls, Fresh, Removing
    <2>5. QED
      BY <2>2, <2>3, <2>4 DEF Control
  <1>3. QED
    BY <1>1, <1>2 DEF IInv

-----------------------------------------------------------------------------
(***************************************************************************)
(* The theorems                                                            *)
(***************************************************************************)

LEMMA InitIInv == Init => IInv
  <1>. SUFFICES ASSUME Init PROVE IInv
    OBVIOUS
  <1>1. Absent \in Row
    BY ListSyncAssumption DEF Absent, Row, Statuses, Backoffs, IdOrNone, NoId
  <1>2. DataOK
    BY <1>1, ListSyncAssumption DEF Init, DataOK, Media, IdOrNone
  <1>3. Control
    BY IdleControl DEF Init
  <1>4. QED
    BY <1>2, <1>3 DEF IInv

LEMMA TaskStepIInv ==
    ASSUME IInv, NEW p \in Tasks, TaskStep(p)
    PROVE  IInv'
  <1>1. CASE PollStep(p)
    BY <1>1, ListWalkIInv, ProcessItemIInv, StatusFailedIInv, StatusKnownIInv,
       StatusUnknownIInv, SettleIInv, ResumeDeclinedIInv, ResumeCreateIInv,
       StartRefreshIInv DEF PollStep
  <1>2. CASE RemovalStep(p)
    BY <1>2, RemovalStepIInv
  <1>3. CASE WalkStep(p)
    BY <1>3, NextSnapIInv, EndSnapsIInv, SweepStatusIInv DEF WalkStep
  <1>4. QED
    BY <1>1, <1>2, <1>3 DEF TaskStep

LEMMA NextIInv == IInv /\ [Next]_vars => IInv'
  <1>. SUFFICES ASSUME IInv, [Next]_vars PROVE IInv'
    OBVIOUS
  <1>1. ASSUME NEW p \in Pollers, PollDue(p) \/ SyncNow(p) PROVE IInv'
    <2>1. DataOK'
      BY <1>1, RowsKeepData DEF PollDue, SyncNow, IInv, DataOK, store, settings
    <2>2. QED
      BY <1>1, <2>1, EnterGateKeepsControl DEF PollDue, SyncNow, IInv
  <1>2. CASE Admit
    <2>1. DataOK'
      BY <1>2, RowsKeepData DEF Admit, IInv, DataOK, store, settings
    <2>2. QED
      BY <1>2, <2>1, AdmitKeepsControl DEF IInv
  <1>3. ASSUME NEW p \in Sweepers, Sweep(p) PROVE IInv'
    BY <1>3, SweepIInv
  <1>4. ASSUME NEW p \in Deleters, NEW i \in Items, DeleteItem(p, i) PROVE IInv'
    BY <1>4, DeleteItemIInv
  <1>5. ASSUME NEW p \in Tasks, TaskStep(p) \/ Serve(p) PROVE IInv'
    BY <1>5, TaskStepIInv, ServeIInv
  <1>6. CASE UNCHANGED vars
    BY <1>6, StutterKeepsControl DEF vars, IInv, DataOK
  <1>7. QED
    BY <1>1, <1>2, <1>3, <1>4, <1>5, <1>6, EnvironmentIInv, CrashIInv DEF Next, Pollers

LEMMA SpecIInv == Spec => []IInv
  BY InitIInv, NextIInv, PTL DEF Spec

\* Every variable keeps its type: the table, the services' records and the
\* local variables of every task, whichever way calls fail or the process dies.
THEOREM SpecTypeOK == Spec => []TypeOK
  <1>1. IInv => TypeOK
    BY DEF IInv, DataOK, Control, TasksOK, TypeOK
  <1>2. QED
    BY <1>1, SpecIInv, PTL

\* AppContext.sync_gate: poll cycles never overlap, and a cycle leaves the gate
\* on every way out of it, for any lists, titles, tasks, faults and crashes.
THEOREM SpecOneCycle == Spec => []OneCycle
  BY SpecIInv, PTL DEF IInv, Control

\* class _SeerOutage: once the latch has tripped the cycle calls Seer no more.
THEOREM SpecTrippedCycleIsQuiet == Spec => []TrippedCycleIsQuiet
  <1>1. IInv => TrippedCycleIsQuiet
    BY DEF IInv, Control, PlacesAgree, Agrees, PollerAgrees, TrippedCycleIsQuiet, Tasks
  <1>2. QED
    BY <1>1, SpecIInv, PTL

\* refresh_tracked_statuses and the sweep never create a request: only an item
\* this cycle read from its Trakt list is asked for.
THEOREM SpecOnlyListedRequested == Spec => []OnlyListedRequested
  <1>1. IInv => OnlyListedRequested
    BY DEF IInv, Control, PlacesAgree, Agrees, PollerAgrees, OtherAgrees, Returns,
           Removing, OnlyListedRequested
  <1>2. QED
    BY <1>1, SpecIInv, PTL

-----------------------------------------------------------------------------
(***************************************************************************)
(* Requests: what a poll knows of Seer while it asks for an item           *)
(***************************************************************************)

\* The poll has been told that Seer does not know the title and has not asked
\* for it yet.
Asking(place, l) ==
    \/ place = "status" /\ l.reply = "ok" /\ l.status = "unknown"
    \/ place = "declined"
    \/ place = "create" /\ l.reply = "none"

\* It has been told that the newest request of the title was not declined.
Cleared(place, l) ==
    \/ place = "declined" /\ l.reply = "ok"
    \/ place = "create" /\ l.reply = "none"

\* The item is off its Trakt list, the rest of the removal is under way.
TakenOff(place, l) ==
    \/ place \in {"lookup", "delete"}
    \/ place = "untrakt" /\ l.reply = "ok"

\* A step that does not bring task p to one of these points.
Kept(p) ==
    /\ Asking(at'[p], loc'[p]) =>
         Asking(at[p], loc[p]) /\ loc'[p].cur.item = loc[p].cur.item
    /\ Cleared(at'[p], loc'[p]) => Cleared(at[p], loc[p])
    /\ TakenOff(at'[p], loc'[p]) =>
         TakenOff(at[p], loc[p]) /\ loc'[p].cur.item = loc[p].cur.item

LEMMA StillKept ==
    ASSUME NEW p \in Tasks, at'[p] = at[p], loc'[p] = loc[p]
    PROVE  Kept(p)
  BY DEF Kept

LEMMA GotoKept ==
    ASSUME IInv, NEW p \in Tasks, NEW place, NEW l, Goto(p, place, l),
           ~Asking(place, l), ~Cleared(place, l), ~TakenOff(place, l)
    PROVE  \A q \in Tasks : Kept(q)
  <1>1. \A q \in Tasks : /\ at'[q] = IF q = p THEN place ELSE at[q]
                         /\ loc'[q] = IF q = p THEN l ELSE loc[q]
    BY DEF Goto, IInv, Control, TasksOK
  <1>2. QED
    BY <1>1, StillKept DEF Kept

LEMMA ElsewhereKept ==
    ASSUME IInv, NEW p \in Tasks, NEW place, NEW l, Goto(p, place, l),
           place \in Local \cup {"idle", "queued", "read"}
    PROVE  \A q \in Tasks : Kept(q)
  <1>1. ~Asking(place, l) /\ ~Cleared(place, l) /\ ~TakenOff(place, l)
    BY DEF Asking, Cleared, TakenOff, Local
  <1>2. QED
    BY <1>1, GotoKept

LEMMA ContinueKept ==
    ASSUME IInv, NEW p \in Tasks, NEW l, l.after \in Local \cup {"idle"}, Continue(p, l)
    PROVE  \A q \in Tasks : Kept(q)
  <1> DEFINE k == IF l.after = "idle" THEN Fresh
                  ELSE IF l.after = "settle" THEN [Rest(l) EXCEPT !.cur = l.cur]
                  ELSE Rest(l)
  <1>1. Goto(p, l.after, k)
    BY DEF Continue
  <1> HIDE DEF k
  <1>2. QED
    BY <1>1, ElsewhereKept

\* A new call starts unanswered.
LEMMA AwaitKept ==
    ASSUME IInv, NEW p \in Tasks, NEW call \in {"read", "status", "untrakt"}, NEW l \in Locals,
           Await(p, call, l)
    PROVE  \A q \in Tasks : Kept(q)
  <1> DEFINE k == [l EXCEPT !.reply = "none"]
  <1>1. Goto(p, call, k) /\ k.reply = "none"
    BY DEF Await, Locals
  <1> HIDE DEF k
  <1>2. ~Asking(call, k) /\ ~Cleared(call, k) /\ ~TakenOff(call, k)
    BY <1>1 DEF Asking, Cleared, TakenOff
  <1>3. QED
    BY <1>1, <1>2, GotoKept

LEMMA BeginRemovalKept ==
    ASSUME IInv, NEW p \in Tasks, NEW l \in Locals, BeginRemoval(p, l)
    PROVE  \A q \in Tasks : Kept(q)
  <1>1. CASE Continue(p, l)
    <2>1. l.after \in Local \cup {"idle"}
      BY DEF Locals
    <2>2. QED
      BY <1>1, <2>1, ContinueKept
  <1>2. CASE ~Continue(p, l)
    <2> DEFINE k == [l EXCEPT !.status = "unknown"]
    <2>1. Await(p, "untrakt", k) /\ k \in Locals
      BY <1>2 DEF BeginRemoval, Locals, Media
    <2> HIDE DEF k
    <2>2. QED
      BY <2>1, AwaitKept
  <1>3. QED
    BY <1>1, <1>2

LEMMA EndPollKept ==
    ASSUME IInv, NEW p \in Tasks, EndPoll(p)
    PROVE  \A q \in Tasks : Kept(q)
  BY ElsewhereKept DEF EndPoll

LEMMA LocalsOf == ASSUME IInv, NEW p \in Tasks PROVE loc[p] \in Locals /\ loc[p].after \in Local \cup {"idle"}
  BY DEF IInv, Control, TasksOK, Locals

\* The next call of the same removal.
LEMMA RemovalKept ==
    ASSUME IInv, NEW p \in Tasks, RemovalStep(p)
    PROVE  \A q \in Tasks : Kept(q)
  <1>1. loc[p] \in Locals /\ loc[p].after \in Local \cup {"idle"}
    BY LocalsOf
  <1>2. CASE Continue(p, loc[p])
    BY <1>1, <1>2, ContinueKept
  <1>3. CASE ~Continue(p, loc[p])
    <2>1. \/ TakenOff(at[p], loc[p]) /\ Await(p, "lookup", loc[p])
          \/ TakenOff(at[p], loc[p]) /\ Await(p, "delete", loc[p])
          \/ TakenOff(at[p], loc[p]) /\ Await(p, "delete", [loc[p] EXCEPT !.ids = {loc[p].cur.req}])
      BY <1>3 DEF RemovalStep, ResumeUntrakt, ResumeLookup, ResumeDelete, MarkRemoved, UntraktFailed,
                  CleanupFailed, Answered, TakenOff
    <2> DEFINE a == [loc[p] EXCEPT !.reply = "none"]
               b == [[loc[p] EXCEPT !.ids = {loc[p].cur.req}] EXCEPT !.reply = "none"]
    <2>2. a.cur = loc[p].cur /\ b.cur = loc[p].cur
      BY <1>1 DEF Locals
    <2>3. PICK call \in {"lookup", "delete"}, l \in {a, b} : TakenOff(at[p], loc[p]) /\ Goto(p, call, l)
      BY <2>1 DEF Await
    <2>4. l.cur = loc[p].cur
      BY <2>2
    <2> HIDE DEF a, b
    <2>5. \A q \in Tasks : /\ at'[q] = IF q = p THEN call ELSE at[q]
                           /\ loc'[q] = IF q = p THEN l ELSE loc[q]
      BY <2>3 DEF Goto, IInv, Control, TasksOK
    <2>6. Kept(p)
      BY <2>3, <2>4, <2>5 DEF Kept, Asking, Cleared
    <2>7. \A q \in Tasks \ {p} : Kept(q)
      BY <2>5, StillKept
    <2>8. QED
      BY <2>6, <2>7
  <1>4. QED
    BY <1>2, <1>3

LEMMA StatusUnknownKept ==
    ASSUME IInv, NEW p \in Tasks, StatusUnknown(p)
    PROVE  \A q \in Tasks : Kept(q)
  <1>1. loc[p] \in Locals /\ loc[p].after \in Local \cup {"idle"}
    BY LocalsOf
  <1>2. CASE Continue(p, loc[p])
    BY <1>1, <1>2, ContinueKept
  <1>3. CASE ~Continue(p, loc[p])
    <2> DEFINE k == [loc[p] EXCEPT !.reply = "none"]
    <2>1. /\ at[p] = "status" /\ loc[p].reply = "ok" /\ loc[p].status = "unknown"
          /\ Goto(p, "declined", k)
      BY <1>3 DEF StatusUnknown, Answered, SeerTracks, Await
    <2>2. k.cur = loc[p].cur /\ k.reply = "none"
      BY <1>1 DEF Locals
    <2> HIDE DEF k
    <2>3. \A q \in Tasks : /\ at'[q] = IF q = p THEN "declined" ELSE at[q]
                           /\ loc'[q] = IF q = p THEN k ELSE loc[q]
      BY <2>1 DEF Goto, IInv, Control, TasksOK
    <2>4. Kept(p)
      BY <2>1, <2>2, <2>3 DEF Kept, Asking, Cleared, TakenOff
    <2>5. \A q \in Tasks \ {p} : Kept(q)
      BY <2>3, StillKept
    <2>6. QED
      BY <2>4, <2>5
  <1>4. QED
    BY <1>2, <1>3

LEMMA ResumeDeclinedKept ==
    ASSUME IInv, NEW p \in Tasks, ResumeDeclined(p)
    PROVE  \A q \in Tasks : Kept(q)
  <1>1. loc[p] \in Locals /\ loc[p].after \in Local \cup {"idle"}
    BY LocalsOf
  <1>2. CASE Continue(p, loc[p])
    BY <1>1, <1>2, ContinueKept
  <1>3. CASE Trip(p)
    <2> DEFINE k == [loc[p] EXCEPT !.down = TRUE]
    <2>1. Continue(p, k) /\ k.after \in Local \cup {"idle"}
      BY <1>1, <1>3 DEF Trip, Locals
    <2> HIDE DEF k
    <2>2. QED
      BY <2>1, ContinueKept
  <1>4. CASE ~Continue(p, loc[p]) /\ ~Trip(p)
    <2> DEFINE k == [loc[p] EXCEPT !.reply = "none"]
    <2>1. /\ at[p] = "declined" /\ loc[p].reply = "ok" /\ Goto(p, "create", k)
      BY <1>4 DEF ResumeDeclined, Answered, Await, Defer
    <2>2. k.cur = loc[p].cur
      BY <1>1 DEF Locals
    <2> HIDE DEF k
    <2>3. \A q \in Tasks : /\ at'[q] = IF q = p THEN "create" ELSE at[q]
                           /\ loc'[q] = IF q = p THEN k ELSE loc[q]
      BY <2>1 DEF Goto, IInv, Control, TasksOK
    <2>4. Kept(p)
      BY <2>1, <2>2, <2>3 DEF Kept, Asking, Cleared, TakenOff
    <2>5. \A q \in Tasks \ {p} : Kept(q)
      BY <2>3, StillKept
    <2>6. QED
      BY <2>4, <2>5
  <1>5. QED
    BY <1>2, <1>3, <1>4

LEMMA TripKept ==
    ASSUME IInv, NEW p \in Tasks, Trip(p)
    PROVE  \A q \in Tasks : Kept(q)
  <1> DEFINE k == [loc[p] EXCEPT !.down = TRUE]
  <1>1. Continue(p, k) /\ k.after \in Local \cup {"idle"}
    BY LocalsOf DEF Trip, Locals
  <1> HIDE DEF k
  <1>2. QED
    BY <1>1, ContinueKept

LEMMA ProcessItemKept ==
    ASSUME IInv, NEW p \in Tasks, NEW i \in Items, ProcessItem(p, i)
    PROVE  \A q \in Tasks : Kept(q)
  <1> DEFINE row == Upserted(i)
             cur == [item |-> i, req |-> row.req, backoff |-> row.backoff]
             me  == [loc[p] EXCEPT
                       !.todo = @ \ {i}, !.seen = @ \cup {i}, !.after = "items", !.cur = cur]
  <1>1. Continue(p, me) \/ BeginRemoval(p, me) \/ Await(p, "status", me)
    BY DEF ProcessItem
  <1>2. row \in Row
    BY ListSyncAssumption DEF IInv, DataOK, Upserted, NewRow, Row, Statuses, Backoffs,
                              IdOrNone, NoId
  <1>3. cur \in Cursor
    BY <1>2 DEF Row, Cursor
  <1> HIDE DEF row, cur
  <1>4. me \in Locals /\ me.after \in Local \cup {"idle"}
    BY <1>3, LocalsOf DEF Locals, Local
  <1> HIDE DEF me
  <1>5. QED
    BY <1>1, <1>4, ContinueKept, BeginRemovalKept, AwaitKept

LEMMA StatusKnownKept ==
    ASSUME IInv, NEW p \in Tasks, StatusKnown(p)
    PROVE  \A q \in Tasks : Kept(q)
  <1> DEFINE me == [loc[p] EXCEPT !.after = IF @ = "items" THEN "settle" ELSE @]
  <1>1. Continue(p, me) \/ BeginRemoval(p, me)
    BY DEF StatusKnown
  <1>2. me \in Locals /\ me.after \in Local \cup {"idle"}
    BY LocalsOf DEF Locals, Local
  <1> HIDE DEF me
  <1>3. QED
    BY <1>1, <1>2, ContinueKept, BeginRemovalKept

LEMMA NextSnapKept ==
    ASSUME IInv, NEW p \in Tasks, NextSnap(p)
    PROVE  \A q \in Tasks : Kept(q)
  <1>1. PICK s \in loc[p].snaps :
          Await(p, "status",
                [loc[p] EXCEPT !.snaps = @ \ {s},
                               !.cur = [item |-> s.item, req |-> s.req, backoff |-> "none"]])
    BY DEF NextSnap
  <1> DEFINE cur == [item |-> s.item, req |-> s.req, backoff |-> "none"]
             k == [loc[p] EXCEPT !.snaps = @ \ {s}, !.cur = cur]
  <1>2. loc[p] \in Locals /\ s \in Snap
    BY LocalsOf DEF Locals
  <1>3. cur \in Cursor
    BY <1>2 DEF Snap, Cursor, Backoffs
  <1> HIDE DEF cur
  <1>4. k \in Locals
    BY <1>2, <1>3 DEF Locals
  <1>5. QED
    BY <1>1, <1>4, AwaitKept DEF cur

LEMMA TaskStepKept ==
    ASSUME IInv, NEW p \in Tasks, TaskStep(p)
    PROVE  \A q \in Tasks : Kept(q)
  <1>1. loc[p] \in Locals /\ loc[p].after \in Local \cup {"idle"}
    BY LocalsOf
  <1>2. CASE PickList(p)
    <2>1. PICK l \in loc[p].lists :
            Await(p, "read", [loc[p] EXCEPT !.lists = @ \ {l}, !.list = l])
      BY <1>2 DEF PickList
    <2> DEFINE k == [loc[p] EXCEPT !.lists = @ \ {l}, !.list = l]
    <2>2. k \in Locals
      BY <1>1, <2>1 DEF Locals
    <2>3. QED
      BY <2>1, <2>2, AwaitKept
  <1>3. CASE ResumeRead(p)
    BY <1>3, ElsewhereKept DEF ResumeRead, Local
  <1>4. CASE EndList(p) \/ Settle(p)
    BY <1>4, ElsewhereKept DEF EndList, Settle, Local
  <1>5. CASE \E i \in Items : ProcessItem(p, i)
    BY <1>5, ProcessItemKept
  <1>6. CASE StatusFailed(p)
    BY <1>1, <1>6, ContinueKept, TripKept, EndPollKept DEF StatusFailed
  <1>7. CASE StatusKnown(p) \/ StatusUnknown(p) \/ ResumeDeclined(p)
    BY <1>7, StatusKnownKept, StatusUnknownKept, ResumeDeclinedKept
  <1>8. CASE ResumeCreate(p)
    BY <1>1, <1>8, ContinueKept, TripKept DEF ResumeCreate, Defer
  <1>9. CASE StartRefresh(p)
    BY <1>9, ElsewhereKept, EndPollKept DEF StartRefresh, Local
  <1>10. CASE RemovalStep(p)
    BY <1>10, RemovalKept
  <1>11. CASE NextSnap(p)
    BY <1>11, NextSnapKept
  <1>12. CASE EndSnaps(p)
    BY <1>12, ElsewhereKept, EndPollKept DEF EndSnaps
  <1>13. CASE SweepStatus(p)
    BY <1>1, <1>13, ContinueKept, BeginRemovalKept DEF SweepStatus
  <1>14. QED
    BY <1>2, <1>3, <1>4, <1>5, <1>6, <1>7, <1>8, <1>9, <1>10, <1>11, <1>12, <1>13
       DEF TaskStep, PollStep, WalkStep

\* A reply to p changes p's variables only, and not what p works on.
LEMMA ReplyIs ==
    ASSUME IInv, NEW p \in Tasks,
           \/ \E r \in Replies : Reply(p, r)
           \/ \E s \in Media : ReplyStatus(p, s)
           \/ \E r \in Replies, ids \in SUBSET Ids : ReplyIds(p, r, ids)
           \/ \E is \in SUBSET Items : ReplyItems(p, is)
    PROVE  /\ at' = at /\ \A q \in Tasks \ {p} : loc'[q] = loc[q]
           /\ loc'[p].cur.item = loc[p].cur.item
  <1>1. loc[p] \in Locals /\ loc \in [Tasks -> Locals]
    BY DEF IInv, Control, TasksOK
  <1>2. CASE \E r \in Replies : Reply(p, r)
    <2>1. PICK r \in Replies : Reply(p, r)
      BY <1>2
    <2> DEFINE h == loc[p].hit \/ (r = "unreachable" /\ at[p] \in SeerCall)
               l == [loc[p] EXCEPT !.reply = r, !.hit = h]
    <2>2. at' = at /\ loc' = [loc EXCEPT ![p] = l]
      BY <2>1 DEF Reply
    <2> HIDE DEF h
    <2>3. l.cur = loc[p].cur
      BY <1>1 DEF Locals
    <2> HIDE DEF l
    <2>4. QED
      BY <1>1, <2>2, <2>3
  <1>3. CASE \E s \in Media : ReplyStatus(p, s)
    <2>1. PICK s \in Media : ReplyStatus(p, s)
      BY <1>3
    <2> DEFINE l == [loc[p] EXCEPT !.reply = "ok", !.status = s]
    <2>2. at' = at /\ loc' = [loc EXCEPT ![p] = l]
      BY <2>1 DEF ReplyStatus
    <2>3. l.cur = loc[p].cur
      BY <1>1 DEF Locals
    <2> HIDE DEF l
    <2>4. QED
      BY <1>1, <2>2, <2>3
  <1>4. CASE \E r \in Replies, ids \in SUBSET Ids : ReplyIds(p, r, ids)
    BY ZenonT(40), <1>1, <1>4 DEF ReplyIds, Locals
  <1>5. CASE \E is \in SUBSET Items : ReplyItems(p, is)
    BY ZenonT(40), <1>1, <1>5 DEF ReplyItems, Locals
  <1>6. QED
    BY <1>2, <1>3, <1>4, <1>5

LEMMA ReplyFacts ==
    ASSUME IInv, NEW p \in Tasks, NEW r
    PROVE  /\ Reply(p, r) => loc'[p].reply = r
           /\ \A ids : ReplyIds(p, r, ids) => loc'[p].reply = r
           /\ \A s : ReplyStatus(p, s) => loc'[p].reply = "ok" /\ loc'[p].status = s
           /\ (Reply(p, r) \/ \E ids : ReplyIds(p, r, ids)) => loc'[p].status = loc[p].status
  <1>1. loc[p] \in Locals /\ loc \in [Tasks -> Locals]
    BY DEF IInv, Control, TasksOK
  <1>2. ASSUME Reply(p, r) PROVE loc'[p].reply = r /\ loc'[p].status = loc[p].status
    <2> DEFINE h == loc[p].hit \/ (r = "unreachable" /\ at[p] \in SeerCall)
               l == [loc[p] EXCEPT !.reply = r, !.hit = h]
    <2>1. loc' = [loc EXCEPT ![p] = l]
      BY <1>2 DEF Reply
    <2> HIDE DEF h
    <2>2. l.reply = r /\ l.status = loc[p].status
      BY <1>1 DEF Locals
    <2> HIDE DEF l
    <2>3. QED
      BY <1>1, <2>1, <2>2
  <1>3. ASSUME NEW ids, ReplyIds(p, r, ids) PROVE loc'[p].reply = r /\ loc'[p].status = loc[p].status
    BY <1>1, <1>3 DEF ReplyIds, Locals
  <1>4. ASSUME NEW s, ReplyStatus(p, s) PROVE loc'[p].reply = "ok" /\ loc'[p].status = s
    BY <1>1, <1>4 DEF ReplyStatus, Locals
  <1>5. QED
    BY <1>2, <1>3, <1>4

\* The calls whose answers bring a task further.
Telling(p) == ServeStatus(p) \/ ServeDeclined(p) \/ ServeUntrakt(p)

LEMMA ServeKept ==
    ASSUME IInv, NEW p \in Tasks, Serve(p)
    PROVE  /\ \A q \in Tasks \ {p} : Kept(q)
           /\ Kept(p) \/ Telling(p)
  <1>1. \/ \E r \in Replies : Reply(p, r)
        \/ \E s \in Media : ReplyStatus(p, s)
        \/ \E r \in Replies, ids \in SUBSET Ids : ReplyIds(p, r, ids)
        \/ \E is \in SUBSET Items : ReplyItems(p, is)
    <2>1. CASE \E call \in SeerCall : SeerFails(p, call)
      BY <2>1 DEF SeerFails, Replies
    <2>2. CASE ServeRead(p)
      <3>1. {i \in onTrakt : ListOf(i) = loc[p].list} \in SUBSET Items
        BY DEF IInv, DataOK
      <3>2. QED
        BY <2>2, <3>1 DEF ServeRead, Replies
    <2>3. CASE ServeStatus(p)
      <3>1. media[TitleOf(loc[p].cur.item)] \in Media
        BY <2>3, AskedItem DEF ServeStatus, Calls, IInv, DataOK
      <3>2. QED
        BY <2>3, <3>1 DEF ServeStatus
    <2>4. CASE ServeDeclined(p) \/ ServeUntrakt(p)
      BY <2>4 DEF ServeDeclined, ServeUntrakt, Replies
    <2>5. CASE ServeCreate(p)
      <3>1. \/ Record(TitleOf(loc[p].cur.item)) /\ (ReplyIds(p, "ok", {lastId + 1}) \/ Reply(p, "error"))
            \/ ReplyIds(p, "ok", {}) \/ Reply(p, "error")
        BY <2>5 DEF ServeCreate
      <3>2. Record(TitleOf(loc[p].cur.item)) => {lastId + 1} \in SUBSET Ids
        BY RecordTypes DEF IInv
      <3>3. QED
        BY <3>1, <3>2 DEF Replies
    <2>6. CASE ServeLookup(p)
      <3>1. requests[TitleOf(loc[p].cur.item)] \in SUBSET Ids
        BY <2>6, AskedItem DEF ServeLookup, Calls, IInv, DataOK
      <3>2. QED
        BY <2>6, <3>1 DEF ServeLookup, Replies
    <2>7. CASE ServeDelete(p)
      <3>1. \E id \in loc[p].ids : ReplyIds(p, "ok", loc[p].ids \ {id}) \/ Reply(p, "error")
        BY <2>7 DEF ServeDelete
      <3>2. \A id : loc[p].ids \ {id} \in SUBSET Ids
        BY LocalsOf DEF Locals
      <3>3. QED
        BY <3>1, <3>2 DEF Replies
    <2>8. QED
      BY <2>1, <2>2, <2>3, <2>4, <2>5, <2>6, <2>7 DEF Serve
  <1>2. /\ at' = at /\ \A q \in Tasks \ {p} : loc'[q] = loc[q]
        /\ loc'[p].cur.item = loc[p].cur.item
    BY <1>1, ReplyIs
  <1>3. \A q \in Tasks \ {p} : Kept(q)
    BY <1>2, StillKept
  <1>4. CASE Telling(p)
    BY <1>3, <1>4
  <1>5. CASE ~Telling(p)
    <2>1. CASE at[p] = "status"
      <3>1. \E r \in {"error", "unreachable"} : Reply(p, r)
        BY <1>5, <2>1 DEF Serve, Telling, SeerFails, ServeRead, ServeCreate, ServeLookup, ServeDelete, Asked
      <3>2. loc'[p].reply # "ok"
        BY <3>1, ReplyFacts
      <3>3. QED
        BY <1>2, <1>3, <2>1, <3>2 DEF Kept, Asking, Cleared, TakenOff
    <2>2. CASE at[p] = "declined"
      <3>1. \E r \in {"error", "unreachable"} : Reply(p, r)
        BY <1>5, <2>2 DEF Serve, Telling, SeerFails, ServeRead, ServeCreate, ServeLookup, ServeDelete, Asked
      <3>2. loc'[p].reply # "ok"
        BY <3>1, ReplyFacts
      <3>3. QED
        BY <1>2, <1>3, <2>2, <3>2 DEF Kept, Asking, Cleared, TakenOff
    <2>3. CASE at[p] = "create"
      <3>1. loc'[p].reply # "none"
        <4>1. \E r \in {"ok", "error", "unreachable"} : Reply(p, r) \/ \E ids : ReplyIds(p, r, ids)
          BY <1>5, <2>3 DEF Serve, Telling, SeerFails, ServeRead, ServeCreate, ServeLookup, ServeDelete, Asked
        <4>2. QED
          BY <4>1, ReplyFacts
      <3>2. QED
        BY <1>2, <1>3, <2>3, <3>1 DEF Kept, Asking, Cleared, TakenOff
    <2>4. CASE at[p] \in {"lookup", "delete"}
      BY <1>2, <1>3, <2>4 DEF Kept, Asking, Cleared, TakenOff
    <2>5. CASE at[p] \notin {"status", "declined", "create", "lookup", "delete"}
      <3>1. at[p] # "untrakt"
        BY <1>5, <2>5 DEF Serve, Telling, SeerFails, ServeRead, ServeCreate, ServeLookup, ServeDelete,
                          Asked, SeerCall
      <3>2. QED
        BY <1>2, <1>3, <2>5, <3>1 DEF Kept, Asking, Cleared, TakenOff
    <2>6. QED
      BY <2>1, <2>2, <2>3, <2>4, <2>5
  <1>6. QED
    BY <1>4, <1>5

LEMMA BackoffKept ==
    ASSUME IInv, NEW i \in Items, BackoffElapses(i)
    PROVE  \A q \in Tasks : Kept(q)
  <1> SUFFICES ASSUME NEW q \in Tasks PROVE Kept(q)
    OBVIOUS
  <1>1. loc[q] \in Locals /\ at' = at
    BY LocalsOf DEF BackoffElapses
  <1>2. CASE loc'[q] = loc[q]
    BY <1>1, <1>2, StillKept
  <1>3. CASE loc'[q] # loc[q]
    <2> DEFINE c == [loc[q].cur EXCEPT !.backoff = "due"]
               l == [loc[q] EXCEPT !.cur = c]
    <2>1. loc'[q] = l
      BY <1>3 DEF BackoffElapses
    <2>2. c.item = loc[q].cur.item
      BY <1>1 DEF Locals, Cursor
    <2> HIDE DEF c
    <2>3. l.cur = c /\ l.reply = loc[q].reply /\ l.status = loc[q].status
      BY <1>1 DEF Locals
    <2> HIDE DEF l
    <2>4. QED
      BY <1>1, <2>1, <2>2, <2>3 DEF Kept, Asking, Cleared, TakenOff
  <1>4. QED
    BY <1>2, <1>3

LEMMA ArrivalKept ==
    ASSUME IInv, NEW p \in Tasks,
           \/ p \in Pollers /\ (PollDue(p) \/ SyncNow(p))
           \/ p \in Sweepers /\ Sweep(p)
           \/ \E i \in Items : p \in Deleters /\ DeleteItem(p, i)
    PROVE  \A q \in Tasks : Kept(q)
  <1>1. CASE p \in Pollers /\ (PollDue(p) \/ SyncNow(p))
    BY <1>1, ElsewhereKept DEF PollDue, SyncNow, EnterGate, BeginPoll, Local
  <1>2. CASE Sweep(p)
    BY <1>2, ElsewhereKept DEF Sweep, Local
  <1>3. CASE \E i \in Items : DeleteItem(p, i)
    <2>1. PICK i \in Items : DeleteItem(p, i)
      BY <1>3
    <2> DEFINE c == [item |-> i, req |-> rows[i].req, backoff |-> rows[i].backoff]
               k == [Fresh EXCEPT !.cur = c]
    <2>2. c \in Cursor
      BY DEF IInv, DataOK, Row, Cursor
    <2> HIDE DEF c
    <2>3. k \in Locals
      BY <2>2, FreshTypes DEF Locals
    <2>4. BeginRemoval(p, k)
      BY <2>1 DEF DeleteItem, c
    <2> HIDE DEF k
    <2>5. QED
      BY <2>3, <2>4, BeginRemovalKept
  <1>4. QED
    BY <1>1, <1>2, <1>3

LEMMA NextKept ==
    ASSUME IInv, [Next]_vars
    PROVE  \/ \A q \in Tasks : Kept(q)
           \/ \E p \in Tasks : Telling(p) /\ \A q \in Tasks \ {p} : Kept(q)
  <1>1. ASSUME NEW p \in Pollers, PollDue(p) \/ SyncNow(p) PROVE \A q \in Tasks : Kept(q)
    BY <1>1, ArrivalKept DEF Tasks
  <1>2. CASE Admit
    <2>1. Head(queue) \in Tasks
      BY <1>2 DEF Admit, IInv, Control, TasksOK, Tasks
    <2>2. QED
      BY <1>2, <2>1, ElsewhereKept DEF Admit, BeginPoll, Local
  <1>3. ASSUME NEW p \in Sweepers, Sweep(p) PROVE \A q \in Tasks : Kept(q)
    BY <1>3, ArrivalKept DEF Tasks
  <1>4. ASSUME NEW p \in Deleters, NEW i \in Items, DeleteItem(p, i) PROVE \A q \in Tasks : Kept(q)
    BY <1>4, ArrivalKept DEF Tasks
  <1>5. ASSUME NEW p \in Tasks, TaskStep(p) PROVE \A q \in Tasks : Kept(q)
    BY <1>5, TaskStepKept
  <1>6. ASSUME NEW i \in Items, BackoffElapses(i) PROVE \A q \in Tasks : Kept(q)
    BY <1>6, BackoffKept
  <1>7. CASE Environment /\ ~ \E i \in Items : BackoffElapses(i)
    <2>1. at' = at /\ loc' = loc
      BY <1>7 DEF Environment, UserAdds, UserDrops, UserRequests, Progress, Vanish, Decline, TrackList,
                  UntrackList, ToggleAutoRemove, ClearItems, task
    <2>2. QED
      BY <2>1, StillKept
  <1>8. CASE Crash
    BY <1>8 DEF Crash, Kept, Asking, Cleared, TakenOff
  <1>9. CASE UNCHANGED vars
    BY <1>9, StillKept DEF vars
  <1>10. ASSUME NEW p \in Tasks, Serve(p)
         PROVE  (\A q \in Tasks \ {p} : Kept(q)) /\ (Kept(p) \/ Telling(p))
    BY <1>10, ServeKept
  <1>11. CASE \E p \in Tasks : Serve(p)
    BY <1>10, <1>11
  <1>12. QED
    BY <1>1, <1>2, <1>3, <1>4, <1>5, <1>6, <1>7, <1>8, <1>9, <1>11 DEF Next, Pollers

-----------------------------------------------------------------------------
(***************************************************************************)
(* What Seer's records say                                                 *)
(***************************************************************************)

\* A title with a live request is not unknown, ids are given out in order, and
\* no title has two live requests of this program.
KnownWhenLive == \A t \in Titles : Live(t) # {} => media[t] # "unknown"

IdsInOrder ==
    /\ \A x \in mine : x <= lastId
    /\ \A t \in Titles : \A x \in requests[t] : x <= lastId

OneLive == \A t \in Titles : \A x, y \in Live(t) \cap mine : x = y

\* While a poll asks for a title nothing of this program's is live for it.
AskedInVain ==
    \A p \in Pollers : Asking(at[p], loc[p]) =>
        Live(TitleOf(loc[p].cur.item)) \cap mine = {}

AskInv == KnownWhenLive /\ IdsInOrder /\ OneLive /\ AskedInVain

\* Seer's records change by a request, a deletion, a decline or a download.
LEMMA SeerChanges ==
    ASSUME [Next]_vars
    PROVE  \/ UNCHANGED seer
           \/ \E p \in Tasks : ServeCreate(p) \/ ServeDelete(p)
           \/ \E t \in Titles : UserRequests(t) \/ Progress(t) \/ Vanish(t)
           \/ \E t \in Titles, id \in Ids : Decline(t, id)
  <1>1. ASSUME NEW p, PollDue(p) \/ SyncNow(p) \/ Sweep(p) PROVE UNCHANGED seer
    BY <1>1 DEF PollDue, SyncNow, Sweep, seer
  <1>2. ASSUME NEW p, NEW i, DeleteItem(p, i) PROVE UNCHANGED seer
    BY <1>2 DEF DeleteItem, seer
  <1>3. ASSUME Admit \/ Crash \/ ToggleAutoRemove \/ ClearItems PROVE UNCHANGED seer
    BY <1>3 DEF Admit, Crash, ToggleAutoRemove, ClearItems, seer
  <1>4. ASSUME NEW p, PollStep(p) PROVE UNCHANGED seer
    BY <1>4 DEF PollStep, PickList, ResumeRead, EndList, ProcessItem, StatusFailed, StatusKnown,
                StatusUnknown, Settle, ResumeDeclined, ResumeCreate, StartRefresh, seer
  <1>5. ASSUME NEW p, RemovalStep(p) \/ WalkStep(p) PROVE UNCHANGED seer
    BY <1>5 DEF RemovalStep, ResumeUntrakt, ResumeLookup, ResumeDelete, WalkStep, NextSnap, EndSnaps,
                SweepStatus, seer
  <1>6. ASSUME NEW p \in Tasks, Serve(p)
        PROVE  UNCHANGED seer \/ ServeCreate(p) \/ ServeDelete(p)
    BY <1>6 DEF Serve, ServeRead, ServeStatus, ServeDeclined, ServeUntrakt, ServeLookup, SeerFails, seer
  <1>7. ASSUME NEW i, UserAdds(i) \/ UserDrops(i) \/ BackoffElapses(i) PROVE UNCHANGED seer
    BY <1>7 DEF UserAdds, UserDrops, BackoffElapses, seer
  <1>8. ASSUME NEW l, TrackList(l) \/ UntrackList(l) PROVE UNCHANGED seer
    BY <1>8 DEF TrackList, UntrackList, seer
  <1>9. CASE UNCHANGED vars
    BY <1>9 DEF vars, seer
  <1>10. QED
    BY <1>1, <1>2, <1>3, <1>4, <1>5, <1>6, <1>7, <1>8, <1>9 DEF Next, TaskStep, Environment

\* Only a poll in its cycle asks for a request, and no other poll is in one.
LEMMA CreatorIsAlone ==
    ASSUME IInv, NEW p \in Tasks, ServeCreate(p)
    PROVE  /\ p \in Pollers /\ at[p] = "create" /\ loc[p].reply = "none"
           /\ loc[p].cur.item \in Items /\ TitleOf(loc[p].cur.item) \in Titles
           /\ \A q \in Pollers \ {p} : ~Asking(at[q], loc[q])
  <1>1. at[p] = "create" /\ loc[p].reply = "none"
    BY DEF ServeCreate, Asked
  <1>2. p \in Pollers /\ InCycle(p)
    BY <1>1, RequestFacts DEF IInv
  <1>3. loc[p].cur.item \in Items /\ TitleOf(loc[p].cur.item) \in Titles
    BY AskedItem DEF ServeCreate, Calls
  <1>4. \A q \in Pollers \ {p} : ~InCycle(q)
    BY <1>2 DEF IInv, Control, OneCycle
  <1>5. QED
    BY <1>1, <1>2, <1>3, <1>4 DEF InCycle, Asking

\* Requests of this program that are live become fewer in every other step.
Fewer == \A t \in Titles : Live(t)' \cap mine' \subseteq Live(t) \cap mine

LEMMA RecordsKeep ==
    ASSUME IInv, KnownWhenLive, IdsInOrder, [Next]_vars
    PROVE  /\ KnownWhenLive' /\ IdsInOrder'
           /\ Fewer \/ \E p \in Tasks : ServeCreate(p)
           /\ (~ \E t \in Titles : UserRequests(t)) /\ (~ \E p \in Tasks : ServeCreate(p))
                => \A t \in Titles : Live(t)' \subseteq Live(t) /\ requests'[t] \subseteq requests[t]
  <1> USE DEF Live
  <1>0. /\ requests \in [Titles -> SUBSET Ids] /\ media \in [Titles -> Media] /\ lastId \in Nat
        /\ \A t \in Titles : \A x \in requests[t] : x \in Nat
        /\ mine \subseteq Nat
    BY ListSyncAssumption DEF IInv, DataOK, IdOrNone, Ids
  <1>1. CASE UNCHANGED seer
    BY <1>1 DEF seer, KnownWhenLive, IdsInOrder, Fewer
  <1>2. ASSUME NEW t \in Titles, Record(t), mine' = mine \/ mine' = mine \cup {lastId + 1}
        PROVE  KnownWhenLive' /\ IdsInOrder'
    <2>1. /\ lastId' = lastId + 1 /\ declined' = declined
          /\ requests' = [requests EXCEPT ![t] = @ \cup {lastId + 1}]
          /\ media' = [media EXCEPT ![t] = IF @ = "unknown" THEN "pending" ELSE @]
      BY <1>2 DEF Record
    <2>2. \A u \in Titles : requests'[u] = IF u = t THEN requests[t] \cup {lastId + 1} ELSE requests[u]
      BY <1>0, <2>1
    <2>3. KnownWhenLive'
      <3>1. media'[t] # "unknown" /\ \A u \in Titles \ {t} : media'[u] = media[u]
        BY <1>0, <2>1
      <3>2. QED
        BY <2>1, <2>2, <3>1 DEF KnownWhenLive
    <2>4. IdsInOrder'
      <3>1. \A x \in mine' : x <= lastId'
        <4>1. mine' \subseteq mine \cup {lastId + 1}
          BY <1>2
        <4>2. \A x \in mine : x \in Nat /\ x <= lastId
          BY <1>0 DEF IdsInOrder
        <4>3. QED
          BY <1>0, <2>1, <4>1, <4>2
      <3>2. \A u \in Titles : \A x \in requests'[u] : x <= lastId'
        BY <1>0, <2>1, <2>2 DEF IdsInOrder
      <3>3. QED
        BY <3>1, <3>2 DEF IdsInOrder
    <2>5. QED
      BY <2>3, <2>4
  <1>3. CASE \E p \in Tasks : ServeCreate(p)
    <2>1. PICK p \in Tasks : ServeCreate(p)
      BY <1>3
    <2>2. TitleOf(loc[p].cur.item) \in Titles
      BY <2>1, CreatorIsAlone
    <2>3. CASE UNCHANGED seer
      BY <1>1, <1>3, <2>3
    <2>4. CASE ~UNCHANGED seer
      <3>1. Record(TitleOf(loc[p].cur.item)) /\ mine' = mine \cup {lastId + 1}
        BY <2>1, <2>4 DEF ServeCreate
      <3>2. QED
        BY <1>2, <1>3, <2>2, <3>1
    <2>5. QED
      BY <2>3, <2>4
  <1>4. ASSUME NEW t \in Titles, UserRequests(t)
        PROVE  KnownWhenLive' /\ IdsInOrder' /\ Fewer
    <2>1. Record(t) /\ mine' = mine
      BY <1>4 DEF UserRequests
    <2>2. lastId + 1 \notin mine
      BY <1>0 DEF IdsInOrder
    <2>3. Fewer
      BY <1>0, <2>1, <2>2 DEF Fewer, Record
    <2>4. QED
      BY <1>2, <2>1, <2>3
  <1>5. ASSUME NEW p \in Tasks, ServeDelete(p)
        PROVE  /\ KnownWhenLive' /\ IdsInOrder' /\ Fewer
               /\ \A t \in Titles : Live(t)' \subseteq Live(t) /\ requests'[t] \subseteq requests[t]
    <2>1. PICK id \in loc[p].ids : Erase(TitleOf(loc[p].cur.item), {id})
      BY <1>5 DEF ServeDelete
    <2> DEFINE t == TitleOf(loc[p].cur.item)
    <2>2. t \in Titles
      BY <1>5, AskedItem DEF ServeDelete, Calls
    <2>3. /\ declined' = declined /\ mine' = mine /\ lastId' = lastId
          /\ requests' = [requests EXCEPT ![t] = @ \ {id}]
          /\ media' = [media EXCEPT ![t] = IF @ = "pending" /\ Live(t) \subseteq {id} THEN "unknown" ELSE @]
      BY <2>1 DEF Erase
    <2> HIDE DEF t
    <2>4. \A u \in Titles : requests'[u] = IF u = t THEN requests[t] \ {id} ELSE requests[u]
      BY <1>0, <2>3
    <2>5. \A u \in Titles : media'[u] = media[u] \/ (u = t /\ requests[t] \ declined \subseteq {id})
      BY <1>0, <2>2, <2>3
    <2>6. KnownWhenLive'
      BY <2>3, <2>4, <2>5 DEF KnownWhenLive
    <2>7. IdsInOrder'
      BY <2>3, <2>4 DEF IdsInOrder
    <2>8. QED
      BY <2>3, <2>4, <2>6, <2>7 DEF Fewer
  <1>6. ASSUME NEW t \in Titles, Progress(t) \/ Vanish(t)
        PROVE  /\ KnownWhenLive' /\ IdsInOrder' /\ Fewer
               /\ \A u \in Titles : Live(u)' \subseteq Live(u) /\ requests'[u] \subseteq requests[u]
    <2>1. CASE Progress(t)
      <3>1. /\ requests' = requests /\ declined' = declined /\ mine' = mine /\ lastId' = lastId
            /\ \A u \in Titles : media'[u] = media[u] \/ media'[u] # "unknown"
        BY <1>0, <2>1 DEF Progress
      <3>2. QED
        BY <3>1 DEF KnownWhenLive, IdsInOrder, Fewer
    <2>2. CASE Vanish(t)
      <3>1. /\ declined' = declined /\ mine' = mine /\ lastId' = lastId
            /\ \A u \in Titles : requests'[u] = IF u = t THEN {} ELSE requests[u]
            /\ \A u \in Titles \ {t} : media'[u] = media[u]
        BY <1>0, <2>2 DEF Vanish
      <3>2. QED
        BY <3>1 DEF KnownWhenLive, IdsInOrder, Fewer
    <2>3. QED
      BY <1>6, <2>1, <2>2
  <1>7. ASSUME NEW t \in Titles, NEW id \in Ids, Decline(t, id)
        PROVE  /\ KnownWhenLive' /\ IdsInOrder' /\ Fewer
               /\ \A u \in Titles : Live(u)' \subseteq Live(u) /\ requests'[u] \subseteq requests[u]
    <2>1. /\ declined' = declined \cup {id} /\ requests' = requests /\ mine' = mine /\ lastId' = lastId
          /\ \A u \in Titles : media'[u] = media[u] \/ (u = t /\ requests[t] \ declined = {id})
      BY <1>0, <1>7 DEF Decline
    <2>2. QED
      BY <2>1 DEF KnownWhenLive, IdsInOrder, Fewer
  <1>8. QED
    BY <1>1, <1>3, <1>4, <1>5, <1>6, <1>7, SeerChanges DEF seer, Fewer

\* While a poll asks, no step but its own request makes one of this program's.
LEMMA AskingGoesOn ==
    ASSUME IInv, KnownWhenLive, AskedInVain, [Next]_vars, Fewer
    PROVE  AskedInVain'
  <1> SUFFICES ASSUME NEW p \in Pollers, Asking(at'[p], loc'[p])
               PROVE  (Live(TitleOf(loc[p].cur.item)) \cap mine)' = {}
    BY DEF AskedInVain
  <1> DEFINE i == loc[p].cur.item
  <1>1. p \in Tasks
    BY DEF Tasks
  <1>2. /\ loc'[p].cur.item = i
        /\ \/ Asking(at[p], loc[p])
           \/ media[TitleOf(i)] = "unknown" /\ TitleOf(i) \in Titles
    <2>1. CASE Kept(p)
      BY <1>1, <2>1 DEF Kept
    <2>2. CASE Telling(p)
      <3>1. at' = at /\ loc'[p].cur.item = i
        <4>1. media[TitleOf(i)] \in Media \/ ~ServeStatus(p)
          BY <1>1, AskedItem DEF ServeStatus, Calls, IInv, DataOK
        <4>2. \/ \E s \in Media : ReplyStatus(p, s)
              \/ \E r \in Replies : Reply(p, r)
          BY <2>2, <4>1 DEF Telling, ServeStatus, ServeDeclined, ServeUntrakt, Replies
        <4>3. QED
          BY <1>1, <4>2, ReplyIs
      <3>2. CASE ServeStatus(p)
        <4>1. at[p] = "status" /\ loc'[p].status = media[TitleOf(i)] /\ TitleOf(i) \in Titles
          BY <1>1, <3>2, ReplyFacts, AskedItem DEF ServeStatus, Asked, Calls
        <4>2. QED
          BY <3>1, <4>1 DEF Asking
      <3>3. CASE ServeDeclined(p)
        BY <3>1, <3>3 DEF ServeDeclined, Asked, Asking
      <3>4. CASE ServeUntrakt(p)
        BY <3>1, <3>4 DEF ServeUntrakt, Asked, Asking
      <3>5. QED
        BY <2>2, <3>2, <3>3, <3>4 DEF Telling
    <2>3. QED
      BY <1>1, <2>1, <2>2, NextKept
  <1>3. TitleOf(i) \in Titles
    <2>1. CASE Asking(at[p], loc[p])
      <3>1. at[p] \in Calls
        BY <2>1 DEF Asking, Calls
      <3>2. i \in Items
        BY <1>1, <3>1 DEF IInv, Control, PlacesAgree, Agrees
      <3>3. QED
        BY <3>2 DEF Items, TitleOf
    <2>2. QED
      BY <1>2, <2>1
  <1>4. PICK t \in Titles : t = TitleOf(i)
    BY <1>3
  <1>5. Live(t) \cap mine = {}
    BY <1>2, <1>4 DEF AskedInVain, KnownWhenLive
  <1>6. Live(t)' \cap mine' = {}
    BY <1>5 DEF Fewer
  <1>7. t = TitleOf(loc'[p].cur.item)
    BY <1>2, <1>4
  <1>8. QED
    BY <1>6, <1>7 DEF Live

\* A poll asks alone: once its request is made nobody asks.
LEMMA NobodyAsks ==
    ASSUME IInv, NEW p \in Tasks, ServeCreate(p)
    PROVE  \A q \in Pollers : ~Asking(at'[q], loc'[q])
  <1>1. /\ p \in Pollers /\ at[p] = "create" /\ loc[p].reply = "none"
        /\ \A q \in Pollers \ {p} : ~Asking(at[q], loc[q])
    BY CreatorIsAlone
  <1>2. at' = at /\ loc'[p].reply # "none"
    <2>1. \E r \in {"ok", "error"} : Reply(p, r) \/ \E ids : ReplyIds(p, r, ids)
      BY DEF ServeCreate
    <2>2. QED
      BY <2>1, ReplyFacts DEF Reply, ReplyIds
  <1>3. \A q \in Tasks \ {p} : Kept(q)
    BY ServeKept DEF Serve
  <1>4. QED
    BY <1>1, <1>2, <1>3 DEF Kept, Asking, Tasks

\* The request is the only live one of its title, and nobody asks any more.
LEMMA CreateKeepsAskInv ==
    ASSUME IInv, AskInv, NEW p \in Tasks, ServeCreate(p)
    PROVE  OneLive' /\ AskedInVain'
  <1>0. PICK t \in Titles : t = TitleOf(loc[p].cur.item)
    BY CreatorIsAlone
  <1>1. /\ p \in Pollers /\ at[p] = "create" /\ loc[p].reply = "none"
        /\ \A q \in Pollers \ {p} : ~Asking(at[q], loc[q])
    BY CreatorIsAlone
  <1>2. Live(t) \cap mine = {}
    BY <1>0, <1>1 DEF AskInv, AskedInVain, Asking
  <1>3. AskedInVain'
    BY NobodyAsks DEF AskedInVain
  <1>4. OneLive'
    <2>1. CASE UNCHANGED seer
      BY <2>1 DEF seer, AskInv, OneLive, Live
    <2>2. CASE ~UNCHANGED seer
      <3>1. Record(t) /\ mine' = mine \cup {lastId + 1}
        BY <1>0, <2>2 DEF ServeCreate
      <3>2. requests \in [Titles -> SUBSET Ids] /\ mine \subseteq Nat /\ lastId \in Nat
        BY ListSyncAssumption DEF IInv, DataOK, IdOrNone, Ids
      <3>3. /\ declined' = declined
            /\ \A u \in Titles : requests'[u] = IF u = t THEN requests[t] \cup {lastId + 1} ELSE requests[u]
        BY <3>1, <3>2 DEF Record
      <3>4. \A u \in Titles : lastId + 1 \notin requests[u]
        BY <3>2 DEF AskInv, IdsInOrder, Ids
      <3>5. \A u \in Titles \ {t} : Live(u)' \cap mine' \subseteq Live(u) \cap mine
        BY <3>1, <3>3, <3>4 DEF Live
      <3>6. Live(t)' \cap mine' \subseteq {lastId + 1}
        BY <1>2, <3>1, <3>3 DEF Live
      <3>7. QED
        BY <3>5, <3>6 DEF AskInv, OneLive
    <2>3. QED
      BY <2>1, <2>2
  <1>5. QED
    BY <1>3, <1>4

LEMMA NextAskInv == IInv /\ AskInv /\ [Next]_vars => AskInv'
  <1> SUFFICES ASSUME IInv, AskInv, [Next]_vars PROVE AskInv'
    OBVIOUS
  <1>1. KnownWhenLive' /\ IdsInOrder' /\ (Fewer \/ \E p \in Tasks : ServeCreate(p))
    BY RecordsKeep DEF AskInv
  <1>2. OneLive' /\ AskedInVain'
    <2>1. CASE Fewer
      <3>1. OneLive'
        BY <2>1 DEF Fewer, AskInv, OneLive
      <3>2. QED
        BY <2>1, <3>1, AskingGoesOn DEF AskInv
    <2>2. CASE \E p \in Tasks : ServeCreate(p)
      BY <2>2, CreateKeepsAskInv
    <2>3. QED
      BY <1>1, <2>1, <2>2
  <1>3. QED
    BY <1>1, <1>2 DEF AskInv

LEMMA InitAskInv == Init => AskInv
  BY DEF Init, AskInv, KnownWhenLive, IdsInOrder, OneLive, AskedInVain, Live, Asking, Tasks

LEMMA SpecAskInv == Spec => []AskInv
  BY InitAskInv, NextAskInv, SpecIInv, PTL DEF Spec

\* The program never holds two live Seer requests for one title: each poll asks
\* Seer before it requests, and no other poll is in its cycle meanwhile.
THEOREM SpecNoDuplicateRequest == Spec => []NoDuplicateRequest
  <1>1. IInv /\ AskInv => NoDuplicateRequest
    <2> SUFFICES ASSUME AskInv, NEW t \in Titles PROVE Cardinality(Live(t) \cap mine) <= 1
      BY DEF NoDuplicateRequest
    <2>1. CASE Live(t) \cap mine = {}
      BY <2>1, FS_EmptySet
    <2>2. CASE Live(t) \cap mine # {}
      <3>1. PICK x : x \in Live(t) \cap mine
        BY <2>2
      <3>2. Live(t) \cap mine = {x}
        BY <3>1 DEF AskInv, OneLive
      <3>3. Cardinality({x}) = 1
        BY FS_Singleton
      <3>4. QED
        BY <3>2, <3>3
    <2>3. QED
      BY <2>1, <2>2
  <1>2. QED
    BY <1>1, SpecIInv, SpecAskInv, PTL

-----------------------------------------------------------------------------
(***************************************************************************)
(* Where users make no requests of their own in Seer, a poll that has been *)
(* told of no declined request asks for a title without any record.        *)
(***************************************************************************)

LiveNone(t) == Live(t) = {}

InVain ==
    \A p \in Pollers :
        /\ Asking(at[p], loc[p]) => LiveNone(TitleOf(loc[p].cur.item))
        /\ Cleared(at[p], loc[p]) => requests[TitleOf(loc[p].cur.item)] = {}

\* A title with records of which none is live was declined last.
LEMMA DeclinedLast ==
    ASSUME NEW t, requests[t] \subseteq Ids, Live(t) = {}, requests[t] # {}
    PROVE  LatestDeclined(t)
  <1> DEFINE Above(n) == \A x \in requests[t] : x <= n
  <1>1. requests[t] \subseteq Nat /\ MaxRequests \in Nat /\ \A x \in requests[t] : x <= MaxRequests
    BY ListSyncAssumption DEF Ids
  <1>2. \E n \in Nat : Above(n) /\ \A m \in Nat : Above(m) => n <= m
    <2> DEFINE S == {n \in Nat : Above(n)}
    <2>1. MaxRequests \in S /\ S \subseteq Nat
      BY <1>1
    <2>2. \E n \in S : \A m \in S : n <= m
      <3> HIDE DEF S
      <3>1. QED
        BY <2>1, LeastNatural
    <2>3. QED
      BY <2>2
  <1>3. PICK n \in Nat : Above(n) /\ \A m \in Nat : Above(m) => n <= m
    BY <1>2
  <1>4. n \in requests[t]
    <2>1. SUFFICES ASSUME n \notin requests[t] PROVE FALSE
      OBVIOUS
    <2>2. \A x \in requests[t] : x \in Nat /\ x <= n - 1
      BY <1>1, <1>3, <2>1
    <2>3. n - 1 \in Nat
      BY <1>1, <1>3, <2>2
    <2>4. QED
      BY <1>3, <2>2, <2>3
  <1>5. n \in declined
    BY <1>4 DEF Live
  <1>6. QED
    BY <1>3, <1>4, <1>5 DEF LatestDeclined

\* What the answer to a call changes while a task asks.
LEMMA ToldWhileAsking ==
    ASSUME IInv, KnownWhenLive, InVain, NEW p \in Pollers, Telling(p), Asking(at'[p], loc'[p])
    PROVE  \E t \in Titles :
             /\ TitleOf(loc[p].cur.item) = t /\ TitleOf(loc'[p].cur.item) = t
             /\ Live(t) = {}
             /\ Cleared(at'[p], loc'[p]) => requests[t] = {}
  <1>1. p \in Tasks
    BY DEF Tasks
  <1>2. PICK t \in Titles : t = TitleOf(loc[p].cur.item)
    BY <1>1, AskedItem DEF Telling, ServeStatus, ServeDeclined, ServeUntrakt, Calls
  <1>3. at' = at /\ loc'[p].cur.item = loc[p].cur.item
    <2>1. \/ \E s \in Media : ReplyStatus(p, s)
          \/ \E r \in Replies : Reply(p, r)
      BY <1>1, <1>2 DEF Telling, ServeStatus, ServeDeclined, ServeUntrakt, Replies, IInv, DataOK
    <2>2. QED
      BY <1>1, <2>1, ReplyIs
  <1>4. CASE ServeStatus(p)
    <2>1. at[p] = "status" /\ loc'[p].status = media[t]
      BY <1>1, <1>2, <1>4, ReplyFacts DEF ServeStatus, Asked
    <2>2. media[t] = "unknown"
      BY <1>3, <2>1 DEF Asking
    <2>3. QED
      BY <1>2, <1>3, <2>1, <2>2 DEF KnownWhenLive, Cleared
  <1>5. CASE ServeDeclined(p)
    <2>1. at[p] = "declined" /\ (LatestDeclined(t) => loc'[p].reply = "declined")
      BY <1>1, <1>2, <1>5, ReplyFacts DEF ServeDeclined, Asked, DeclinedNow
    <2>2. Live(t) = {}
      BY <1>2, <2>1 DEF InVain, Asking, LiveNone
    <2>3. Cleared(at'[p], loc'[p]) => ~LatestDeclined(t)
      BY <1>3, <2>1 DEF Cleared
    <2>4. requests[t] \subseteq Ids
      BY DEF IInv, DataOK
    <2>5. QED
      BY <1>2, <1>3, <2>2, <2>3, <2>4, DeclinedLast
  <1>6. CASE ServeUntrakt(p)
    BY <1>3, <1>6 DEF ServeUntrakt, Asked, Asking
  <1>7. QED
    BY <1>4, <1>5, <1>6 DEF Telling

LEMMA NextInVain ==
    ASSUME IInv, AskInv, InVain, [Next]_vars, "user" \notin Disturb
    PROVE  InVain'
  <1>1. \A p \in Pollers : Cleared(at'[p], loc'[p]) => Asking(at'[p], loc'[p])
    BY DEF Cleared, Asking
  <1>2. CASE \E p \in Tasks : ServeCreate(p)
    BY <1>1, <1>2, NobodyAsks DEF InVain
  <1>3. CASE ~ \E p \in Tasks : ServeCreate(p)
    <2>1. ~ \E t \in Titles : UserRequests(t)
      BY DEF UserRequests, May
    <2>2. \A t \in Titles : Live(t)' \subseteq Live(t) /\ requests'[t] \subseteq requests[t]
      BY <1>3, <2>1, RecordsKeep DEF AskInv
    <2>3. ASSUME NEW p \in Pollers, Asking(at'[p], loc'[p])
          PROVE  \E t \in Titles :
                   /\ TitleOf(loc'[p].cur.item) = t
                   /\ Live(t) = {}
                   /\ Cleared(at'[p], loc'[p]) => requests[t] = {}
      <3>1. p \in Tasks
        BY DEF Tasks
      <3>2. CASE Telling(p)
        BY <2>3, <3>2, ToldWhileAsking DEF AskInv
      <3>3. CASE Kept(p)
        <4>1. /\ Asking(at[p], loc[p]) /\ loc'[p].cur.item = loc[p].cur.item
              /\ Cleared(at'[p], loc'[p]) => Cleared(at[p], loc[p])
          BY <2>3, <3>1, <3>3 DEF Kept
        <4>2. at[p] \in Calls
          BY <4>1 DEF Asking, Calls
        <4>3. TitleOf(loc[p].cur.item) \in Titles
          BY <3>1, <4>2 DEF IInv, Control, PlacesAgree, Agrees, Items, TitleOf
        <4>4. QED
          BY <4>1, <4>3 DEF InVain, LiveNone
      <3>4. QED
        BY <3>1, <3>2, <3>3, NextKept
    <2>4. ASSUME NEW p \in Pollers, Asking(at'[p], loc'[p])
          PROVE  /\ LiveNone(TitleOf(loc[p].cur.item))'
                 /\ Cleared(at'[p], loc'[p]) => requests'[TitleOf(loc'[p].cur.item)] = {}
      <3>1. PICK t \in Titles :
                   /\ TitleOf(loc'[p].cur.item) = t
                   /\ Live(t) = {}
                   /\ Cleared(at'[p], loc'[p]) => requests[t] = {}
        BY <2>3, <2>4
      <3>2. Live(t)' = {} /\ (Cleared(at'[p], loc'[p]) => requests'[t] = {})
        BY <2>2, <3>1
      <3>3. QED
        BY <3>1, <3>2 DEF LiveNone, Live
    <2>5. QED
      BY <1>1, <2>4 DEF InVain
  <1>4. QED
    BY <1>2, <1>3

\* Without requests of the users' own, a title whose newest request was
\* declined is not requested again, also when it is declined between the two
\* calls in which the poll looks and asks (_request_item).
THEOREM SpecDeclineRespected ==
    ASSUME "user" \notin Disturb
    PROVE  Spec => DeclineRespected
  <1>1. Init => InVain
    BY DEF Init, InVain, Asking, Cleared, Tasks
  <1>2. IInv /\ AskInv /\ InVain /\ [Next]_vars => InVain'
    BY NextInVain
  <1>3. ASSUME IInv, AskInv, InVain, [Next]_vars
        PROVE  [\A t \in Titles : LatestDeclined(t) /\ mine' # mine
                  => requests'[t] \cap mine' \subseteq requests[t]]_vars
    <2> SUFFICES ASSUME NEW t \in Titles, LatestDeclined(t), mine' # mine
                 PROVE  requests'[t] \cap mine' \subseteq requests[t]
      OBVIOUS
    <2>1. PICK p \in Tasks : ServeCreate(p)
      BY <1>3, SeerChanges DEF seer, ServeDelete, Erase, UserRequests, Progress, Vanish, Decline
    <2>2. PICK u \in Titles : u = TitleOf(loc[p].cur.item)
      BY <1>3, <2>1, CreatorIsAlone
    <2>3. requests[u] = {}
      BY <1>3, <2>1, <2>2, CreatorIsAlone DEF InVain, Cleared
    <2>4. u # t
      BY <2>3 DEF LatestDeclined
    <2>5. requests'[t] = requests[t]
      <3>1. Record(u)
        BY <2>1, <2>2 DEF ServeCreate, seer
      <3>2. QED
        BY <1>3, <2>4, <3>1 DEF Record, IInv, DataOK
    <2>6. QED
      BY <2>5
  <1>4. QED
    BY <1>1, <1>2, <1>3, SpecIInv, SpecAskInv, PTL DEF Spec, DeclineRespected

-----------------------------------------------------------------------------
(***************************************************************************)
(* How the items table changes                                             *)
(***************************************************************************)

\* The row keeps its request; its status stays or becomes a live one.
Kindly(i) ==
    /\ rows'[i].req = rows[i].req
    /\ \/ rows'[i].status = rows[i].status
       \/ rows[i].status # "absent" /\ rows'[i].status \notin {"absent", "removed"}

\* A removal whose calls have all succeeded.
Through(p) ==
    /\ RemovalStep(p) /\ loc[p].reply = "ok"
    /\ \/ at[p] = "untrakt" /\ loc[p].cur.req = NoId
       \/ at[p] \in {"lookup", "delete"} /\ loc[p].ids = {}

RowChange(i) ==
    \/ Kindly(i)
    \/ rows'[i] = Absent
    \/ rows[i].status = "absent" /\ rows'[i] = NewRow /\ \E p \in Tasks : ProcessItem(p, i)
    \/ /\ rows[i].status # "absent" /\ rows'[i].status = "requested"
       /\ \E p \in Pollers : /\ ResumeCreate(p) /\ loc[p].cur.item = i
                             /\ rows'[i].req \in loc[p].ids
    \/ /\ rows[i].status # "absent" /\ rows'[i].status = "removed" /\ rows'[i].req = rows[i].req
       /\ \E p \in Tasks : Through(p) /\ loc[p].cur.item = i

LEMMA UpdateIs ==
    ASSUME IInv, NEW i \in Items, NEW row, Update(i, row)
    PROVE  /\ rows'[i] = IF rows[i].status # "absent" THEN row ELSE rows[i]
           /\ \A j \in Items \ {i} : rows'[j] = rows[j]
  BY DEF IInv, DataOK, Update, Present

\* An update that keeps the request and does not mark the item removed.
LEMMA KindUpdate ==
    ASSUME IInv, NEW i \in Items, NEW s \in {"synced", "requested", "available"}, NEW b, NEW row,
           row.status = s, row.req = rows[i].req, Update(i, row)
    PROVE  \A j \in Items : Kindly(j)
  BY UpdateIs DEF Kindly

LEMMA PollRows ==
    ASSUME IInv, NEW p \in Tasks, PollStep(p)
    PROVE  \A j \in Items : RowChange(j)
  <1>0. rows \in [Items -> Row] /\ \A j \in Items : rows[j] \in Row
    BY DEF IInv, DataOK
  <1>1. CASE PickList(p) \/ ResumeRead(p) \/ EndList(p) \/ StatusFailed(p) \/ StatusUnknown(p) \/ StartRefresh(p)
    <2>1. rows' = rows
      BY <1>1 DEF PickList, ResumeRead, EndList, StatusFailed, StatusUnknown, StartRefresh, store
    <2>2. QED
      BY <2>1 DEF RowChange, Kindly
  <1>2. CASE \E i \in Items : ProcessItem(p, i)
    <2>1. PICK i \in Items : ProcessItem(p, i)
      BY <1>2
    <2>2. rows' = [rows EXCEPT ![i] = IF rows[i].status # "absent" THEN rows[i] ELSE NewRow]
      BY <2>1 DEF ProcessItem, Upserted, Present
    <2>3. \A j \in Items : rows'[j] = rows[j] \/ (j = i /\ rows[i].status = "absent" /\ rows'[i] = NewRow)
      BY <1>0, <2>2
    <2>4. QED
      BY <2>1, <2>3 DEF RowChange, Kindly
  <1>3. CASE StatusKnown(p)
    <2> DEFINE i == loc[p].cur.item
    <2>1. i \in Items
      BY <1>3 DEF StatusKnown, Answered, Calls, IInv, Control, PlacesAgree, Agrees
    <2>2. \E s \in {"available", "requested"} : SetStatus(i, s)
      <3>1. [loc[p] EXCEPT !.after = IF @ = "items" THEN "settle" ELSE @].cur.item = i
        BY LocalsOf DEF Locals
      <3>2. QED
        BY <1>3, <3>1 DEF StatusKnown
    <2>3. PICK s \in {"available", "requested"} : Update(i, [rows[i] EXCEPT !.status = s])
      BY <2>2 DEF SetStatus
    <2>4. [rows[i] EXCEPT !.status = s].status = s /\ [rows[i] EXCEPT !.status = s].req = rows[i].req
      BY <1>0, <2>1 DEF Row
    <2>5. QED
      BY <2>1, <2>3, <2>4, KindUpdate DEF RowChange
  <1>4. CASE Settle(p)
    <2> DEFINE i == loc[p].cur.item
               row == [rows[i] EXCEPT !.backoff = "none"]
    <2>1. Update(i, row) \/ rows' = rows
      BY <1>4 DEF Settle
    <2>2. CASE i \in Items /\ Update(i, row)
      <3>1. row.status = rows[i].status /\ row.req = rows[i].req
        BY <1>0, <2>2 DEF Row
      <3> HIDE DEF row, i
      <3>2. /\ rows'[i] = IF rows[i].status # "absent" THEN row ELSE rows[i]
            /\ \A j \in Items \ {i} : rows'[j] = rows[j]
        BY <2>2, UpdateIs
      <3>3. QED
        BY <3>1, <3>2 DEF RowChange, Kindly
    <2>3. CASE i \notin Items /\ Update(i, row)
      <3>1. rows' = rows
        BY <1>0, <2>3 DEF Update
      <3>2. QED
        BY <3>1 DEF RowChange, Kindly
    <2>4. CASE rows' = rows
      BY <2>4 DEF RowChange, Kindly
    <2>5. QED
      BY <2>1, <2>2, <2>3, <2>4
  <1>5. ASSUME Defer(p), loc[p].cur.item \in Items PROVE \A j \in Items : RowChange(j)
    <2> DEFINE i == loc[p].cur.item
               row == [rows[i] EXCEPT !.status = "synced", !.backoff = "held"]
    <2>1. Update(i, row)
      BY <1>5 DEF Defer
    <2>2. row.status = "synced" /\ row.req = rows[i].req
      BY <1>0, <1>5 DEF Row
    <2>3. QED
      BY <1>5, <2>1, <2>2, KindUpdate DEF RowChange
  <1>6. CASE ResumeDeclined(p)
    <2>1. loc[p].cur.item \in Items
      BY <1>6 DEF ResumeDeclined, Answered, Calls, IInv, Control, PlacesAgree, Agrees
    <2>2. Defer(p) \/ rows' = rows
      BY <1>6 DEF ResumeDeclined
    <2>3. QED
      BY <1>5, <2>1, <2>2 DEF RowChange, Kindly
  <1>7. CASE ResumeCreate(p)
    <2> DEFINE i == loc[p].cur.item
    <2>1. i \in Items /\ p \in Pollers
      BY <1>7, RequestFacts DEF ResumeCreate, Answered, Calls, IInv, Control, PlacesAgree, Agrees
    <2>2. \/ Defer(p) \/ rows' = rows
          \/ \E id \in loc[p].ids :
               Update(i, [status |-> "requested", req |-> id,
                          backoff |-> IF loc[p].cur.backoff # "none" THEN "none" ELSE rows[i].backoff])
      BY <1>7 DEF ResumeCreate
    <2>3. CASE \E id \in loc[p].ids :
                 Update(i, [status |-> "requested", req |-> id,
                            backoff |-> IF loc[p].cur.backoff # "none" THEN "none" ELSE rows[i].backoff])
      BY <1>7, <2>1, <2>3, UpdateIs DEF RowChange, Kindly
    <2>4. QED
      BY <1>5, <2>1, <2>2, <2>3 DEF RowChange, Kindly
  <1>8. QED
    BY <1>1, <1>2, <1>3, <1>4, <1>6, <1>7 DEF PollStep

LEMMA RemovalRows ==
    ASSUME IInv, NEW p \in Tasks, RemovalStep(p)
    PROVE  \A j \in Items : RowChange(j)
  <1>1. rows' = rows \/ (Through(p) /\ SetStatus(loc[p].cur.item, "removed"))
    BY DEF RemovalStep, Through, ResumeUntrakt, ResumeLookup, ResumeDelete, UntraktFailed, CleanupFailed,
           MarkRemoved, Answered
  <1>2. CASE rows' = rows
    BY <1>2 DEF RowChange, Kindly
  <1>3. CASE Through(p) /\ SetStatus(loc[p].cur.item, "removed")
    <2> DEFINE i == loc[p].cur.item
               row == [rows[i] EXCEPT !.status = "removed"]
    <2>1. i \in Items
      BY <1>3 DEF Through, Calls, IInv, Control, PlacesAgree, Agrees
    <2>2. Update(i, row)
      BY <1>3 DEF SetStatus
    <2>3. row.status = "removed" /\ row.req = rows[i].req
      BY <2>1 DEF IInv, DataOK, Row
    <2> HIDE DEF row
    <2>4. /\ rows'[i] = IF rows[i].status # "absent" THEN row ELSE rows[i]
          /\ \A j \in Items \ {i} : rows'[j] = rows[j]
      BY <2>1, <2>2, UpdateIs
    <2>5. \A j \in Items \ {i} : RowChange(j)
      BY <2>4 DEF RowChange, Kindly
    <2>6. RowChange(i)
      BY <1>3, <2>3, <2>4 DEF RowChange, Kindly
    <2>7. QED
      BY <2>5, <2>6
  <1>4. QED
    BY <1>1, <1>2, <1>3

LEMMA RowsChange ==
    ASSUME IInv, [Next]_vars
    PROVE  \A j \in Items : RowChange(j)
  <1>1. ASSUME rows' = rows PROVE \A j \in Items : RowChange(j)
    BY <1>1 DEF RowChange, Kindly
  <1>2. ASSUME NEW p \in Tasks, TaskStep(p) PROVE \A j \in Items : RowChange(j)
    <2>1. CASE WalkStep(p)
      BY <1>1, <2>1 DEF WalkStep, NextSnap, EndSnaps, SweepStatus, store
    <2>2. QED
      BY <1>2, <2>1, PollRows, RemovalRows DEF TaskStep
  <1>3. ASSUME NEW p \in Tasks, Serve(p) PROVE rows' = rows
    BY <1>3 DEF Serve, ServeRead, ServeStatus, ServeDeclined, ServeCreate, ServeUntrakt, ServeLookup,
                ServeDelete, SeerFails, store
  <1>4. ASSUME NEW p, PollDue(p) \/ SyncNow(p) \/ Sweep(p) PROVE rows' = rows
    BY <1>4 DEF PollDue, SyncNow, Sweep, store
  <1>5. ASSUME NEW p, NEW i, DeleteItem(p, i) PROVE rows' = rows
    BY <1>5 DEF DeleteItem, store
  <1>6. CASE Admit \/ Crash \/ ToggleAutoRemove \/ UNCHANGED vars
    BY <1>1, <1>6 DEF Admit, Crash, ToggleAutoRemove, store, vars
  <1>7. CASE ClearItems
    BY <1>7 DEF ClearItems, RowChange
  <1>8. ASSUME NEW i \in Items, BackoffElapses(i) PROVE \A j \in Items : RowChange(j)
    <2> DEFINE b == IF rows[i].backoff = "held" THEN "due" ELSE rows[i].backoff
               row == [rows[i] EXCEPT !.backoff = b]
    <2>1. rows' = [rows EXCEPT ![i] = row] /\ rows \in [Items -> Row]
      BY <1>8 DEF BackoffElapses, IInv, DataOK
    <2> HIDE DEF b
    <2>2. row.status = rows[i].status /\ row.req = rows[i].req
      BY <2>1 DEF Row
    <2> HIDE DEF row
    <2>3. \A j \in Items : rows'[j] = IF j = i THEN row ELSE rows[j]
      BY <2>1
    <2>4. QED
      BY <2>2, <2>3 DEF RowChange, Kindly
  <1>9. ASSUME NEW i, UserAdds(i) \/ UserDrops(i) PROVE rows' = rows
    BY <1>9 DEF UserAdds, UserDrops, store
  <1>10. ASSUME NEW t, \/ UserRequests(t) \/ Progress(t) \/ Vanish(t) \/ TrackList(t) \/ UntrackList(t)
                       \/ \E id \in Ids : Decline(t, id)
         PROVE  rows' = rows
    BY <1>10 DEF UserRequests, Progress, Vanish, TrackList, UntrackList, Decline, store
  <1>11. QED
    BY <1>1, <1>2, <1>3, <1>4, <1>5, <1>6, <1>7, <1>8, <1>9, <1>10 DEF Next, Environment

-----------------------------------------------------------------------------
(***************************************************************************)
(* Where users put no item back on a list, what was taken off stays off.   *)
(***************************************************************************)

OffTrakt ==
    /\ \A p \in Tasks : TakenOff(at[p], loc[p]) => loc[p].cur.item \notin onTrakt
    /\ RemovedIsOffTrakt

LEMMA OnlyUsersAdd ==
    ASSUME IInv, [Next]_vars, "add" \notin Disturb
    PROVE  onTrakt' \subseteq onTrakt
  <1>1. ASSUME NEW p \in Tasks, TaskStep(p) PROVE onTrakt' = onTrakt
    BY <1>1 DEF TaskStep, PollStep, PickList, ResumeRead, EndList, ProcessItem, StatusFailed, StatusKnown,
                StatusUnknown, Settle, ResumeDeclined, ResumeCreate, StartRefresh, RemovalStep,
                ResumeUntrakt, ResumeLookup, ResumeDelete, WalkStep, NextSnap, EndSnaps, SweepStatus
  <1>2. ASSUME NEW p \in Tasks, Serve(p) PROVE onTrakt' \subseteq onTrakt
    BY <1>2 DEF Serve, ServeRead, ServeStatus, ServeDeclined, ServeCreate, ServeUntrakt, ServeLookup,
                ServeDelete, SeerFails
  <1>3. ASSUME NEW p, PollDue(p) \/ SyncNow(p) \/ Sweep(p) PROVE onTrakt' = onTrakt
    BY <1>3 DEF PollDue, SyncNow, Sweep
  <1>4. ASSUME NEW p, NEW i, DeleteItem(p, i) PROVE onTrakt' = onTrakt
    BY <1>4 DEF DeleteItem
  <1>5. CASE Admit \/ Crash \/ ToggleAutoRemove \/ ClearItems \/ UNCHANGED vars
    BY <1>5 DEF Admit, Crash, ToggleAutoRemove, ClearItems, vars
  <1>6. ASSUME NEW i, UserAdds(i) \/ UserDrops(i) \/ BackoffElapses(i) PROVE onTrakt' \subseteq onTrakt
    BY <1>6 DEF UserAdds, UserDrops, BackoffElapses, May
  <1>7. ASSUME NEW t, \/ UserRequests(t) \/ Progress(t) \/ Vanish(t) \/ TrackList(t) \/ UntrackList(t)
                      \/ \E id \in Ids : Decline(t, id)
        PROVE  onTrakt' = onTrakt
    BY <1>7 DEF UserRequests, Progress, Vanish, TrackList, UntrackList, Decline
  <1>8. QED
    BY <1>1, <1>2, <1>3, <1>4, <1>5, <1>6, <1>7 DEF Next, Environment

LEMMA NextOffTrakt ==
    ASSUME IInv, OffTrakt, [Next]_vars, "add" \notin Disturb
    PROVE  OffTrakt'
  <1>1. onTrakt' \subseteq onTrakt
    BY OnlyUsersAdd
  <1>2. ASSUME NEW p \in Tasks, TakenOff(at'[p], loc'[p]) PROVE loc'[p].cur.item \notin onTrakt'
    <2>1. CASE Kept(p)
      BY <1>1, <1>2, <2>1 DEF Kept, OffTrakt
    <2>2. CASE ServeUntrakt(p)
      <3>1. at[p] = "untrakt" /\ \E r \in {"ok", "error"} : Reply(p, r)
        BY <2>2 DEF ServeUntrakt, Asked
      <3>2. at' = at /\ loc'[p].cur.item = loc[p].cur.item
        BY <3>1, ReplyIs DEF Replies
      <3>3. loc'[p].reply = "ok"
        BY <1>2, <3>1, <3>2 DEF TakenOff
      <3>4. ~Reply(p, "error")
        BY <3>3, ReplyFacts
      <3>5. QED
        BY <2>2, <3>2, <3>4 DEF ServeUntrakt
    <2>3. CASE ServeStatus(p) \/ ServeDeclined(p)
      BY <1>2, <2>3 DEF ServeStatus, ServeDeclined, Asked, ReplyStatus, Reply, TakenOff
    <2>4. QED
      BY <2>1, <2>2, <2>3, NextKept DEF Telling
  <1>3. RemovedIsOffTrakt'
    <2> SUFFICES ASSUME NEW i \in Items, rows'[i].status = "removed" PROVE i \notin onTrakt'
      BY DEF RemovedIsOffTrakt
    <2>1. \/ rows[i].status = "removed"
          \/ \E p \in Tasks : TakenOff(at[p], loc[p]) /\ loc[p].cur.item = i
      <3>1. RowChange(i)
        BY RowsChange
      <3>2. \A p \in Tasks : Through(p) => TakenOff(at[p], loc[p])
        BY DEF Through, TakenOff
      <3>3. QED
        BY <3>1, <3>2 DEF RowChange, Kindly, Absent, NewRow
    <2>2. QED
      BY <1>1, <2>1 DEF OffTrakt, RemovedIsOffTrakt
  <1>4. QED
    BY <1>2, <1>3 DEF OffTrakt

\* Unless a user puts the item back, one marked removed is off its Trakt list,
\* whichever of the poll, the sweep and the per-item delete removed it and
\* however they overlapped (remove_tracked_item).
THEOREM SpecRemovedIsOffTrakt ==
    ASSUME "add" \notin Disturb
    PROVE  Spec => []RemovedIsOffTrakt
  <1>1. Init => OffTrakt
    BY DEF Init, OffTrakt, RemovedIsOffTrakt, TakenOff, Absent
  <1>2. IInv /\ OffTrakt /\ [Next]_vars => OffTrakt'
    BY NextOffTrakt
  <1>3. OffTrakt => RemovedIsOffTrakt
    BY DEF OffTrakt
  <1>4. QED
    BY <1>1, <1>2, <1>3, SpecIInv, PTL DEF Spec

-----------------------------------------------------------------------------
(***************************************************************************)
(* Where only polls remove items, the copy of a row that a poll carries    *)
(* through a removal names the request of the row, so that the request     *)
(* deleted in Seer is the one the row remembers.                           *)
(***************************************************************************)

Working == {"status"} \cup Removing

RowIs(i, q, table) == table[i].status = "absent" \/ table[i].req = q

\* What a task at a place knows of the table and of Seer's records.
Sound(place, l, table, records, newest) ==
    /\ l.cur.req <= newest
    /\ \A s \in l.snaps : s.req <= newest
    /\ \A x \in l.ids : x <= newest
    /\ place \in Working => RowIs(l.cur.item, l.cur.req, table)
    /\ place \notin {"idle", "queued"} => \A s \in l.snaps : RowIs(s.item, s.req, table)
    /\ place = "lookup" => l.cur.req = NoId
    /\ place = "delete" => l.cur.req \in l.ids \/ l.cur.req \notin records[TitleOf(l.cur.item)]

SoundAt(p)   == Sound(at[p], loc[p], rows, requests, lastId)
SoundNext(p) == Sound(at'[p], loc'[p], rows', requests', lastId')

SoundInv ==
    /\ \A p \in Tasks : SoundAt(p)
    /\ \A i \in Items : rows[i].req <= lastId
    /\ RemovedLeavesNoRequest

\* A row that is there keeps its request and no row appears.
Mild(i) ==
    \/ rows'[i].status = "absent"
    \/ rows[i].status # "absent" /\ rows'[i].req = rows[i].req

\* New requests have new ids.
Grows ==
    /\ lastId \in Nat /\ lastId' \in Nat /\ lastId <= lastId'
    /\ \A t \in Titles : requests'[t] \subseteq Nat
    /\ \A t \in Titles : \A x \in requests'[t] : x \in requests[t] \/ x > lastId

LEMMA RequestsGrow ==
    ASSUME IInv, IInv', [Next]_vars
    PROVE  Grows
  <1>1. /\ requests \in [Titles -> SUBSET Ids] /\ requests' \in [Titles -> SUBSET Ids]
        /\ lastId \in Nat /\ lastId' \in Nat
    BY ListSyncAssumption DEF IInv, DataOK, IdOrNone
  <1>2. \A t \in Titles : requests'[t] \subseteq Nat
    BY <1>1 DEF Ids
  <1>3. ASSUME NEW t \in Titles, Record(t) PROVE Grows
    <2>1. /\ lastId' = lastId + 1
          /\ \A u \in Titles : requests'[u] \subseteq requests[u] \cup {lastId + 1}
      BY <1>1, <1>3 DEF Record
    <2>2. QED
      BY <1>1, <1>2, <2>1 DEF Grows
  <1>4. ASSUME lastId' = lastId, \A t \in Titles : requests'[t] \subseteq requests[t] PROVE Grows
    BY <1>1, <1>2, <1>4 DEF Grows
  <1>5. CASE UNCHANGED seer
    BY <1>4, <1>5 DEF seer
  <1>6. CASE \E p \in Tasks : ServeCreate(p)
    <2>1. PICK p \in Tasks : ServeCreate(p)
      BY <1>6
    <2>2. TitleOf(loc[p].cur.item) \in Titles
      BY <2>1, CreatorIsAlone
    <2>3. QED
      BY <1>3, <1>5, <2>1, <2>2 DEF ServeCreate
  <1>7. CASE \E p \in Tasks : ServeDelete(p)
    BY <1>1, <1>4, <1>7 DEF ServeDelete, Erase
  <1>8. CASE \E t \in Titles : UserRequests(t)
    BY <1>3, <1>8 DEF UserRequests
  <1>9. CASE \E t \in Titles : Progress(t) \/ Vanish(t) \/ \E id \in Ids : Decline(t, id)
    BY <1>1, <1>4, <1>9 DEF Progress, Vanish, Decline
  <1>10. QED
    BY <1>5, <1>6, <1>7, <1>8, <1>9, SeerChanges

LEMMA MildUnlessWritten ==
    ASSUME IInv, [Next]_vars,
           \A p \in Tasks, i \in Items : ~ProcessItem(p, i), \A p \in Tasks : ~ResumeCreate(p)
    PROVE  \A i \in Items : Mild(i)
  <1> SUFFICES ASSUME NEW i \in Items PROVE Mild(i)
    OBVIOUS
  <1>1. RowChange(i)
    BY RowsChange
  <1>2. QED
    BY <1>1 DEF RowChange, Kindly, Mild, Absent, Tasks

\* What a task knows stays true while others act.
LEMMA SoundStays ==
    ASSUME Grows, NEW place, NEW l \in Locals, place \in Calls => l.cur.item \in Items,
           Sound(place, l, rows, requests, lastId),
           (\A i \in Items : Mild(i)) \/ place \in {"idle", "queued"}
    PROVE  Sound(place, l, rows', requests', lastId')
  <1>1. /\ l.cur.req \in Nat /\ (\A s \in l.snaps : s.req \in Nat /\ s.item \in Items)
        /\ \A x \in l.ids : x \in Nat
    BY ListSyncAssumption DEF Locals, Cursor, Snap, IdOrNone, Ids
  <1>2. /\ l.cur.req <= lastId' /\ (\A s \in l.snaps : s.req <= lastId')
        /\ \A x \in l.ids : x <= lastId'
    BY <1>1 DEF Sound, Grows
  <1>3. CASE place \in {"idle", "queued"}
    BY <1>2, <1>3 DEF Sound, Working, Removing
  <1>4. CASE \A i \in Items : Mild(i)
    <2>1. \A i \in Items : \A q : RowIs(i, q, rows) => RowIs(i, q, rows')
      BY <1>4 DEF Mild, RowIs
    <2>2. place \in Working => RowIs(l.cur.item, l.cur.req, rows')
      BY <2>1 DEF Sound, Working, Removing, Calls
    <2>3. place \notin {"idle", "queued"} => \A s \in l.snaps : RowIs(s.item, s.req, rows')
      BY <1>1, <2>1 DEF Sound
    <2>4. place = "delete" => l.cur.req \in l.ids \/ l.cur.req \notin requests'[TitleOf(l.cur.item)]
      <3>1. SUFFICES ASSUME place = "delete", l.cur.req \notin requests[TitleOf(l.cur.item)]
                     PROVE  l.cur.req \notin requests'[TitleOf(l.cur.item)]
        BY DEF Sound
      <3>2. TitleOf(l.cur.item) \in Titles
        BY <3>1 DEF Calls, Items, TitleOf
      <3>3. l.cur.req <= lastId
        BY DEF Sound
      <3>4. QED
        BY <1>1, <3>1, <3>2, <3>3 DEF Grows
    <2>5. place = "lookup" => l.cur.req = NoId
      BY DEF Sound
    <2>6. QED
      BY <1>2, <2>2, <2>3, <2>4, <2>5 DEF Sound
  <1>5. QED
    BY <1>3, <1>4

\* A move to a place where nothing is known of the item.
LEMMA SoundElsewhere ==
    ASSUME NEW place, NEW l, NEW place2, NEW k, NEW table, NEW records, NEW newest \in Nat,
           Sound(place, l, table, records, newest), place2 \notin Working,
           k.cur.req = l.cur.req \/ k.cur.req = NoId,
           k.ids \subseteq l.ids, k.snaps \subseteq l.snaps,
           k.snaps = {} \/ place \notin {"idle", "queued"}
    PROVE  Sound(place2, k, table, records, newest)
  BY DEF Sound, Working, Removing, NoId

LEMMA SoundBlank ==
    ASSUME NEW place, place \notin Working, NEW l, l.cur = NoCur, l.snaps = {}, l.ids = {},
           NEW table, NEW records, NEW newest \in Nat
    PROVE  Sound(place, l, table, records, newest)
  BY DEF Sound, Working, Removing, NoId, NoCur

LEMMA FreshBlank == Fresh.cur = NoCur /\ Fresh.snaps = {} /\ Fresh.ids = {}
  BY DEF Fresh

LEMMA Moved ==
    ASSUME IInv, NEW p \in Tasks, NEW place, NEW l, Goto(p, place, l)
    PROVE  /\ at'[p] = place /\ loc'[p] = l
           /\ \A q \in Tasks \ {p} : at'[q] = at[q] /\ loc'[q] = loc[q]
  BY DEF Goto, IInv, Control, TasksOK

\* The caller is resumed without the item, or with what was known of it.
LEMMA ContinueSound ==
    ASSUME IInv, Grows, NEW p \in Tasks, NEW place, NEW l \in Locals, Continue(p, l),
           place \notin {"idle", "queued"}, Sound(place, l, rows', requests', lastId')
    PROVE  SoundNext(p) /\ \A q \in Tasks \ {p} : at'[q] = at[q] /\ loc'[q] = loc[q]
  <1> DEFINE k == IF l.after = "idle" THEN Fresh
                  ELSE IF l.after = "settle" THEN [Rest(l) EXCEPT !.cur = l.cur]
                  ELSE Rest(l)
  <1>1. Goto(p, l.after, k)
    BY DEF Continue
  <1>2. k.cur.req \in {l.cur.req, NoId} /\ k.snaps \subseteq l.snaps /\ k.ids = {}
    BY DEF Rest, Fresh, NoCur, Locals
  <1>3. l.after \notin Working
    BY DEF Locals, Local, Working, Removing
  <1> HIDE DEF k
  <1>4. lastId' \in Nat
    BY DEF Grows
  <1>5. Sound(l.after, k, rows', requests', lastId')
    BY <1>2, <1>3, <1>4, SoundElsewhere
  <1>6. QED
    BY <1>1, <1>5, Moved DEF SoundNext

LEMMA BeginRemovalSound ==
    ASSUME IInv, Grows, NEW p \in Tasks, NEW place, NEW l \in Locals, BeginRemoval(p, l),
           place \notin {"idle", "queued"}, Sound(place, l, rows', requests', lastId'),
           RowIs(l.cur.item, l.cur.req, rows')
    PROVE  SoundNext(p) /\ \A q \in Tasks \ {p} : at'[q] = at[q] /\ loc'[q] = loc[q]
  <1>1. CASE Continue(p, l)
    BY <1>1, ContinueSound
  <1>2. CASE ~Continue(p, l)
    <2> DEFINE k == [[l EXCEPT !.status = "unknown"] EXCEPT !.reply = "none"]
    <2>1. Goto(p, "untrakt", k)
      BY <1>2 DEF BeginRemoval, Await
    <2>2. k.cur = l.cur /\ k.snaps = l.snaps /\ k.ids = l.ids
      BY DEF Locals
    <2> HIDE DEF k
    <2>3. Sound("untrakt", k, rows', requests', lastId')
      BY <2>2 DEF Sound
    <2>4. QED
      BY <2>1, <2>3, Moved DEF SoundNext
  <1>3. QED
    BY <1>1, <1>2

LEMMA EndPollSound ==
    ASSUME IInv, Grows, NEW p \in Tasks, EndPoll(p)
    PROVE  SoundNext(p) /\ \A q \in Tasks \ {p} : at'[q] = at[q] /\ loc'[q] = loc[q]
  <1>1. Sound("idle", Fresh, rows', requests', lastId')
    BY SoundBlank, FreshBlank DEF Grows, Working, Removing
  <1>2. QED
    BY <1>1, Moved DEF EndPoll, SoundNext

\* A task in a place of its own keeps what it knows over its move.
LEMMA OwnStays ==
    ASSUME IInv, Grows, NEW p \in Tasks, SoundAt(p), \A i \in Items : Mild(i)
    PROVE  Sound(at[p], loc[p], rows', requests', lastId')
  <1>1. loc[p] \in Locals /\ (at[p] \in Calls => loc[p].cur.item \in Items)
    BY DEF IInv, Control, TasksOK, PlacesAgree, Agrees
  <1>2. QED
    BY <1>1, SoundStays DEF SoundAt

\* A move that asks nothing of what is known: to another list or item, to a
\* call that does not remove, or back.
LEMMA PlainMove ==
    ASSUME IInv, Grows, NEW p \in Tasks, SoundAt(p), \A i \in Items : Mild(i),
           at[p] \notin {"idle", "queued"}, NEW place, place \notin Working, NEW k, Goto(p, place, k),
           k.cur.req = loc[p].cur.req \/ k.cur.req = NoId,
           k.ids \subseteq loc[p].ids, k.snaps \subseteq loc[p].snaps
    PROVE  SoundNext(p) /\ \A q \in Tasks \ {p} : at'[q] = at[q] /\ loc'[q] = loc[q]
  <1>1. Sound(at[p], loc[p], rows', requests', lastId')
    BY OwnStays
  <1>2. Sound(place, k, rows', requests', lastId')
    BY <1>1, SoundElsewhere DEF Grows
  <1>3. QED
    BY <1>2, Moved DEF SoundNext

\* Calls made and answered while the rows stay mild.
LEMMA BackSound ==
    ASSUME IInv, Grows, NEW p \in Tasks, SoundAt(p), \A i \in Items : Mild(i),
           at[p] \notin {"idle", "queued"}, Continue(p, loc[p]) \/ Trip(p)
    PROVE  SoundNext(p) /\ \A q \in Tasks \ {p} : at'[q] = at[q] /\ loc'[q] = loc[q]
  <1>0. loc[p] \in Locals
    BY LocalsOf
  <1>1. Sound(at[p], loc[p], rows', requests', lastId')
    BY OwnStays
  <1>2. CASE Continue(p, loc[p])
    BY <1>0, <1>1, <1>2, ContinueSound
  <1>3. CASE Trip(p)
    <2> DEFINE k == [loc[p] EXCEPT !.down = TRUE]
    <2>1. Continue(p, k) /\ k \in Locals
      BY <1>0, <1>3 DEF Trip, Locals
    <2>2. k.cur = loc[p].cur /\ k.snaps = loc[p].snaps /\ k.ids = loc[p].ids
      BY <1>0 DEF Locals
    <2> HIDE DEF k
    <2>3. Sound(at[p], k, rows', requests', lastId')
      BY <1>1, <2>2 DEF Sound
    <2>4. QED
      BY <2>1, <2>3, ContinueSound
  <1>4. QED
    BY <1>2, <1>3

LEMMA RemovalSound ==
    ASSUME IInv, Grows, NEW p \in Tasks, SoundAt(p), \A i \in Items : Mild(i), RemovalStep(p)
    PROVE  SoundNext(p) /\ \A q \in Tasks \ {p} : at'[q] = at[q] /\ loc'[q] = loc[q]
  <1>0. loc[p] \in Locals /\ at[p] \in Removing /\ loc[p].cur.item \in Items
    BY LocalsOf DEF RemovalStep, ResumeUntrakt, ResumeLookup, ResumeDelete, Answered, Removing, Calls,
                    IInv, Control, PlacesAgree, Agrees
  <1>1. Sound(at[p], loc[p], rows', requests', lastId')
    BY OwnStays
  <1>2. CASE Continue(p, loc[p])
    BY <1>0, <1>2, BackSound DEF Removing
  <1>3. CASE ~Continue(p, loc[p])
    <2> DEFINE a == [loc[p] EXCEPT !.reply = "none"]
               b == [[loc[p] EXCEPT !.ids = {loc[p].cur.req}] EXCEPT !.reply = "none"]
    <2>1. \/ at[p] = "untrakt" /\ loc[p].cur.req = NoId /\ Goto(p, "lookup", a)
          \/ at[p] = "untrakt" /\ Goto(p, "delete", b)
          \/ at[p] \in {"lookup", "delete"} /\ Goto(p, "delete", a)
      BY <1>3 DEF RemovalStep, ResumeUntrakt, ResumeLookup, ResumeDelete, MarkRemoved, UntraktFailed,
                  CleanupFailed, Answered, Await
    <2>2. /\ a.cur = loc[p].cur /\ a.snaps = loc[p].snaps /\ a.ids = loc[p].ids
          /\ b.cur = loc[p].cur /\ b.snaps = loc[p].snaps /\ b.ids = {loc[p].cur.req}
      BY <1>0 DEF Locals
    <2> HIDE DEF a, b
    <2>3. RowIs(loc[p].cur.item, loc[p].cur.req, rows') /\ at[p] \notin {"idle", "queued"}
      BY <1>0, <1>1 DEF Sound, Working, Removing
    <2>4. CASE at[p] = "untrakt" /\ loc[p].cur.req = NoId /\ Goto(p, "lookup", a)
      <3>1. Sound("lookup", a, rows', requests', lastId')
        BY <1>1, <2>2, <2>3, <2>4 DEF Sound
      <3>2. QED
        BY <2>4, <3>1, Moved DEF SoundNext
    <2>5. CASE at[p] = "untrakt" /\ Goto(p, "delete", b)
      <3>1. Sound("delete", b, rows', requests', lastId')
        BY <1>1, <2>2, <2>3, <2>5 DEF Sound
      <3>2. QED
        BY <2>5, <3>1, Moved DEF SoundNext
    <2>6. CASE at[p] \in {"lookup", "delete"} /\ Goto(p, "delete", a)
      <3>1. at[p] = "lookup" => loc[p].cur.req \notin requests'[TitleOf(loc[p].cur.item)]
        <4>1. requests'[TitleOf(loc[p].cur.item)] \subseteq requests[TitleOf(loc[p].cur.item)] \cup {x \in Nat : x > lastId}
          BY <1>0 DEF Grows, Items, TitleOf
        <4>2. requests[TitleOf(loc[p].cur.item)] \subseteq Ids
          BY <1>0 DEF IInv, DataOK, Items, TitleOf
        <4>3. NoId \notin Ids /\ lastId \in Nat
          BY DEF Ids, NoId, Grows
        <4>4. at[p] = "lookup" => loc[p].cur.req = NoId
          BY DEF SoundAt, Sound
        <4>5. QED
          BY <4>1, <4>2, <4>3, <4>4 DEF NoId
      <3>2. Sound("delete", a, rows', requests', lastId')
        BY <1>1, <2>2, <2>3, <2>6, <3>1 DEF Sound
      <3>3. QED
        BY <2>6, <3>2, Moved DEF SoundNext
    <2>7. QED
      BY <2>1, <2>4, <2>5, <2>6
  <1>4. QED
    BY <1>2, <1>3

LEMMA StatusKnownSound ==
    ASSUME IInv, Grows, NEW p \in Tasks, SoundAt(p), \A i \in Items : Mild(i), StatusKnown(p)
    PROVE  SoundNext(p) /\ \A q \in Tasks \ {p} : at'[q] = at[q] /\ loc'[q] = loc[q]
  <1> DEFINE me == [loc[p] EXCEPT !.after = IF @ = "items" THEN "settle" ELSE @]
  <1>1. at[p] = "status" /\ (Continue(p, me) \/ BeginRemoval(p, me))
    BY DEF StatusKnown, Answered
  <1>2. me \in Locals /\ me.cur = loc[p].cur /\ me.snaps = loc[p].snaps /\ me.ids = loc[p].ids
    BY LocalsOf DEF Locals, Local
  <1> HIDE DEF me
  <1>3. Sound(at[p], loc[p], rows', requests', lastId')
    BY OwnStays
  <1>4. Sound(at[p], me, rows', requests', lastId') /\ RowIs(me.cur.item, me.cur.req, rows')
    BY <1>1, <1>2, <1>3 DEF Sound, Working
  <1>5. QED
    BY <1>1, <1>2, <1>4, ContinueSound, BeginRemovalSound

LEMMA StartRefreshSound ==
    ASSUME IInv, Grows, SoundInv, NEW p \in Tasks, \A i \in Items : Mild(i), StartRefresh(p)
    PROVE  SoundNext(p) /\ \A q \in Tasks \ {p} : at'[q] = at[q] /\ loc'[q] = loc[q]
  <1>1. CASE EndPoll(p)
    BY <1>1, EndPollSound
  <1>2. CASE ~EndPoll(p)
    <2> DEFINE S == {s \in ActiveSnaps(loc[p].polled) : s.item \notin loc[p].seen}
               k == [Fresh EXCEPT !.snaps = S, !.seen = loc[p].seen, !.after = "snaps", !.hit = loc[p].hit]
    <2>1. Goto(p, "snaps", k) /\ rows' = rows
      BY <1>2 DEF StartRefresh, store
    <2>2. \A s \in S : s.item \in Items /\ s.req = rows[s.item].req
      BY DEF ActiveSnaps
    <2> HIDE DEF S
    <2>3. k.cur = NoCur /\ k.snaps = S /\ k.ids = {}
      BY DEF Fresh
    <2> HIDE DEF k
    <2>4. \A s \in S : s.req <= lastId' /\ RowIs(s.item, s.req, rows')
      <3>1. \A i \in Items : rows[i].req \in Nat /\ rows[i].req <= lastId
        BY ListSyncAssumption DEF SoundInv, IInv, DataOK, Row, IdOrNone
      <3>2. QED
        BY <2>1, <2>2, <3>1 DEF RowIs, Grows
    <2>5. Sound("snaps", k, rows', requests', lastId')
      BY <2>3, <2>4 DEF Sound, Working, Removing, NoCur, NoId, Grows
    <2>6. QED
      BY <2>1, <2>5, Moved DEF SoundNext
  <1>3. QED
    BY <1>1, <1>2

LEMMA NextSnapSound ==
    ASSUME IInv, Grows, NEW p \in Tasks, SoundAt(p), \A i \in Items : Mild(i), NextSnap(p)
    PROVE  SoundNext(p) /\ \A q \in Tasks \ {p} : at'[q] = at[q] /\ loc'[q] = loc[q]
  <1>1. PICK s \in loc[p].snaps :
          Await(p, "status",
                [loc[p] EXCEPT !.snaps = @ \ {s},
                               !.cur = [item |-> s.item, req |-> s.req, backoff |-> "none"]])
    BY DEF NextSnap
  <1> DEFINE cur == [item |-> s.item, req |-> s.req, backoff |-> "none"]
             k == [[loc[p] EXCEPT !.snaps = @ \ {s}, !.cur = cur] EXCEPT !.reply = "none"]
  <1>2. at[p] = "snaps" /\ Goto(p, "status", k)
    BY <1>1 DEF NextSnap, Await
  <1>3. cur.item = s.item /\ cur.req = s.req
    OBVIOUS
  <1> HIDE DEF cur
  <1>4. k.cur = cur /\ k.snaps = loc[p].snaps \ {s} /\ k.ids = loc[p].ids
    BY LocalsOf DEF Locals
  <1> HIDE DEF k
  <1>5. Sound(at[p], loc[p], rows', requests', lastId')
    BY OwnStays
  <1>6. Sound("status", k, rows', requests', lastId')
    BY <1>1, <1>2, <1>3, <1>4, <1>5 DEF Sound
  <1>7. QED
    BY <1>2, <1>6, Moved DEF SoundNext

\* Moves of a poll between lists, items and calls that do not remove.
LEMMA PlainSound ==
    ASSUME IInv, Grows, NEW p \in Tasks, SoundAt(p), \A i \in Items : Mild(i),
           \/ PickList(p) \/ ResumeRead(p) \/ EndList(p) \/ Settle(p)
           \/ StatusUnknown(p) \/ ResumeDeclined(p)
    PROVE  SoundNext(p) /\ \A q \in Tasks \ {p} : at'[q] = at[q] /\ loc'[q] = loc[q]
  <1>0. loc[p] \in Locals
    BY LocalsOf
  <1>1. CASE PickList(p)
    <2>1. PICK l \in loc[p].lists : Await(p, "read", [loc[p] EXCEPT !.lists = @ \ {l}, !.list = l])
      BY <1>1 DEF PickList
    <2> DEFINE k == [[loc[p] EXCEPT !.lists = @ \ {l}, !.list = l] EXCEPT !.reply = "none"]
    <2>2. at[p] = "lists" /\ Goto(p, "read", k)
      BY <1>1, <2>1 DEF PickList, Await
    <2>3. k.cur = loc[p].cur /\ k.ids = loc[p].ids /\ k.snaps = loc[p].snaps
      BY <1>0 DEF Locals
    <2> HIDE DEF k
    <2>4. QED
      BY <2>2, <2>3, PlainMove DEF Working, Removing
  <1>2. CASE ResumeRead(p)
    <2> DEFINE k == [Rest(loc[p]) EXCEPT !.after = "items"]
    <2>1. at[p] = "read" /\ \E place \in {"items", "lists"} : Goto(p, place, k)
      BY <1>2 DEF ResumeRead, Answered
    <2>2. k.cur = NoCur /\ k.ids = {} /\ k.snaps = loc[p].snaps
      BY <1>0 DEF Locals, Rest
    <2> HIDE DEF k
    <2>3. QED
      BY <2>1, <2>2, PlainMove DEF Working, Removing, NoCur
  <1>3. CASE EndList(p)
    <2> DEFINE k == [loc[p] EXCEPT !.polled = @ \cup {loc[p].list}, !.list = NoList]
    <2>1. at[p] = "items" /\ Goto(p, "lists", k)
      BY <1>3 DEF EndList
    <2>2. k.cur = loc[p].cur /\ k.ids = loc[p].ids /\ k.snaps = loc[p].snaps
      BY <1>0 DEF Locals
    <2> HIDE DEF k
    <2>3. QED
      BY <2>1, <2>2, PlainMove DEF Working, Removing
  <1>4. CASE Settle(p)
    <2> DEFINE k == [Rest(loc[p]) EXCEPT !.after = "items"]
    <2>1. at[p] = "settle" /\ Goto(p, "items", k)
      BY <1>4 DEF Settle
    <2>2. k.cur = NoCur /\ k.ids = {} /\ k.snaps = loc[p].snaps
      BY <1>0 DEF Locals, Rest
    <2> HIDE DEF k
    <2>3. QED
      BY <2>1, <2>2, PlainMove DEF Working, Removing, NoCur
  <1>5. CASE StatusUnknown(p) \/ ResumeDeclined(p)
    <2>1. at[p] \in {"status", "declined"}
      BY <1>5 DEF StatusUnknown, ResumeDeclined, Answered
    <2>2. CASE Continue(p, loc[p]) \/ Trip(p)
      BY <2>1, <2>2, BackSound
    <2>3. CASE ~Continue(p, loc[p]) /\ ~Trip(p)
      <3> DEFINE k == [loc[p] EXCEPT !.reply = "none"]
      <3>1. \E place \in {"declined", "create"} : Goto(p, place, k)
        BY <1>5, <2>3 DEF StatusUnknown, ResumeDeclined, Defer, Await
      <3>2. k.cur = loc[p].cur /\ k.ids = loc[p].ids /\ k.snaps = loc[p].snaps
        BY <1>0 DEF Locals
      <3> HIDE DEF k
      <3>3. QED
        BY <2>1, <3>1, <3>2, PlainMove DEF Working, Removing
    <2>4. QED
      BY <2>2, <2>3
  <1>6. QED
    BY <1>1, <1>2, <1>3, <1>4, <1>5

\* A poll carries no snapshots while it works on the items of a list.
LEMMA NoSnapsYet ==
    ASSUME IInv, NEW p \in Tasks, loc[p].after = "items",
           at[p] \in {"items", "status", "declined", "create"}, p \in Pollers
    PROVE  loc[p].snaps = {}
  BY DEF IInv, Control, PlacesAgree, Agrees, PollerAgrees, Returns

LEMMA ProcessItemSound ==
    ASSUME IInv, Grows, SoundInv, NEW p \in Pollers, NEW i \in Items, ProcessItem(p, i)
    PROVE  SoundNext(p) /\ \A q \in Tasks \ {p} : at'[q] = at[q] /\ loc'[q] = loc[q]
  <1>0. p \in Tasks /\ loc[p] \in Locals /\ at[p] = "items"
    BY LocalsOf DEF Tasks, ProcessItem
  <1> DEFINE row == Upserted(i)
             cur == [item |-> i, req |-> row.req, backoff |-> row.backoff]
             me  == [loc[p] EXCEPT
                       !.todo = @ \ {i}, !.seen = @ \cup {i}, !.after = "items", !.cur = cur]
  <1>1. Continue(p, me) \/ BeginRemoval(p, me) \/ Await(p, "status", me)
    BY DEF ProcessItem
  <1>2. /\ rows' = [rows EXCEPT ![i] = row] /\ row \in Row
        /\ row.req <= lastId
    BY ListSyncAssumption DEF ProcessItem, SoundInv, IInv, DataOK, Upserted, NewRow, Row, Statuses,
                              Backoffs, IdOrNone, NoId
  <1>3. cur \in Cursor /\ cur.item = i /\ cur.req = row.req
    BY <1>2 DEF Row, Cursor
  <1>4. rows'[i] = row
    BY <1>2 DEF IInv, DataOK
  <1> HIDE DEF row, cur
  <1>5. me \in Locals /\ me.cur = cur /\ me.snaps = loc[p].snaps /\ me.ids = loc[p].ids
    BY <1>0, <1>3 DEF Locals, Local
  <1> HIDE DEF me
  <1>6. loc[p].snaps = {}
    BY <1>0, NoSnapsYet DEF IInv, Control, PlacesAgree, Agrees, PollerAgrees
  <1>7. RowIs(me.cur.item, me.cur.req, rows')
    BY <1>3, <1>4, <1>5 DEF RowIs
  <1>8. me.cur.req <= lastId' /\ \A x \in me.ids : x <= lastId'
    <2>1. row.req \in Nat /\ \A x \in loc[p].ids : x \in Nat /\ x <= lastId
      BY <1>0, <1>2, ListSyncAssumption DEF Row, IdOrNone, Locals, Ids, SoundInv, SoundAt, Sound
    <2>2. QED
      BY <1>2, <1>3, <1>5, <2>1 DEF Grows
  <1>9. \A place \in {"status", "items"} : Sound(place, me, rows', requests', lastId')
    BY <1>5, <1>6, <1>7, <1>8 DEF Sound, Working, Removing
  <1>10. CASE Continue(p, me) \/ BeginRemoval(p, me)
    BY <1>0, <1>5, <1>7, <1>9, <1>10, ContinueSound, BeginRemovalSound
  <1>11. CASE Await(p, "status", me)
    <2> DEFINE k == [me EXCEPT !.reply = "none"]
    <2>1. Goto(p, "status", k)
      BY <1>11 DEF Await
    <2>2. k.cur = me.cur /\ k.snaps = me.snaps /\ k.ids = me.ids
      BY <1>5 DEF Locals
    <2> HIDE DEF k
    <2>3. Sound("status", k, rows', requests', lastId')
      BY <1>9, <2>2 DEF Sound
    <2>4. QED
      BY <1>0, <2>1, <2>3, Moved DEF SoundNext
  <1>12. QED
    BY <1>1, <1>10, <1>11

LEMMA ResumeCreateSound ==
    ASSUME IInv, Grows, SoundInv, NEW p \in Pollers, ResumeCreate(p)
    PROVE  SoundNext(p) /\ \A q \in Tasks \ {p} : at'[q] = at[q] /\ loc'[q] = loc[q]
  <1>0. p \in Tasks /\ loc[p] \in Locals /\ at[p] = "create"
    BY LocalsOf DEF Tasks, ResumeCreate, Answered
  <1>1. loc[p].snaps = {}
    BY <1>0, NoSnapsYet DEF IInv, Control, PlacesAgree, Agrees, PollerAgrees
  <1>2. Sound(at[p], loc[p], rows', requests', lastId')
    <2>1. loc[p].cur.req \in Nat /\ loc[p].cur.req <= lastId /\ \A x \in loc[p].ids : x \in Nat /\ x <= lastId
      BY <1>0, ListSyncAssumption DEF Locals, Cursor, IdOrNone, Ids, SoundInv, SoundAt, Sound
    <2>2. QED
      BY <1>0, <1>1, <2>1 DEF Sound, Working, Removing, Grows
  <1>3. CASE Continue(p, loc[p])
    BY <1>0, <1>2, <1>3, ContinueSound
  <1>4. CASE Trip(p)
    <2> DEFINE k == [loc[p] EXCEPT !.down = TRUE]
    <2>1. Continue(p, k) /\ k \in Locals
      BY <1>0, <1>4 DEF Trip, Locals
    <2>2. k.cur = loc[p].cur /\ k.snaps = loc[p].snaps /\ k.ids = loc[p].ids
      BY <1>0 DEF Locals
    <2> HIDE DEF k
    <2>3. Sound(at[p], k, rows', requests', lastId')
      BY <1>2, <2>2 DEF Sound
    <2>4. QED
      BY <1>0, <2>1, <2>3, ContinueSound
  <1>5. QED
    BY <1>3, <1>4 DEF ResumeCreate, Defer

LEMMA TaskStepSound ==
    ASSUME IInv, Grows, SoundInv, NEW p \in Pollers, \A i \in Items : Mild(i), TaskStep(p),
           \A i \in Items : ~ProcessItem(p, i), ~ResumeCreate(p), p \notin Sweepers
    PROVE  SoundNext(p) /\ \A q \in Tasks \ {p} : at'[q] = at[q] /\ loc'[q] = loc[q]
  <1>0. p \in Tasks /\ SoundAt(p)
    BY DEF Tasks, SoundInv
  <1>1. CASE StatusFailed(p)
    <2>1. at[p] = "status" /\ (Continue(p, loc[p]) \/ Trip(p) \/ EndPoll(p))
      BY <1>1 DEF StatusFailed, Answered
    <2>2. QED
      BY <1>0, <2>1, BackSound, EndPollSound
  <1>2. CASE EndSnaps(p)
    BY <1>0, <1>2, EndPollSound DEF EndSnaps
  <1>3. CASE SweepStatus(p)
    BY <1>3 DEF SweepStatus
  <1>4. CASE StartRefresh(p)
    BY <1>0, <1>4, StartRefreshSound
  <1>5. CASE StatusKnown(p) \/ NextSnap(p) \/ RemovalStep(p)
    BY <1>0, <1>5, StatusKnownSound, NextSnapSound, RemovalSound
  <1>6. CASE \/ PickList(p) \/ ResumeRead(p) \/ EndList(p) \/ Settle(p)
             \/ StatusUnknown(p) \/ ResumeDeclined(p)
    BY <1>0, <1>6, PlainSound
  <1>7. QED
    BY <1>1, <1>2, <1>3, <1>4, <1>5, <1>6 DEF TaskStep, PollStep, WalkStep

\* An answer changes at most the ids a task has, and those are Seer's.
LEMMA ServeSound ==
    ASSUME IInv, AskInv, Grows, NEW p \in Tasks, SoundAt(p), \A i \in Items : Mild(i), Serve(p)
    PROVE  SoundNext(p) /\ \A q \in Tasks \ {p} : at'[q] = at[q] /\ loc'[q] = loc[q]
  <1>0. loc[p] \in Locals /\ loc \in [Tasks -> Locals]
    BY LocalsOf DEF IInv, Control, TasksOK
  <1>1. Sound(at[p], loc[p], rows', requests', lastId')
    BY OwnStays
  <1>2. ASSUME NEW k, loc' = [loc EXCEPT ![p] = k], at' = at, k.cur = loc[p].cur, k.snaps = loc[p].snaps,
               k.ids = loc[p].ids
        PROVE  SoundNext(p) /\ \A q \in Tasks \ {p} : at'[q] = at[q] /\ loc'[q] = loc[q]
    <2>1. loc'[p] = k /\ \A q \in Tasks \ {p} : loc'[q] = loc[q]
      BY <1>0, <1>2
    <2>2. Sound(at[p], k, rows', requests', lastId')
      BY <1>1, <1>2 DEF Sound
    <2>3. QED
      BY <1>2, <2>1, <2>2 DEF SoundNext
  <1>3. ASSUME NEW r, Reply(p, r)
        PROVE  SoundNext(p) /\ \A q \in Tasks \ {p} : at'[q] = at[q] /\ loc'[q] = loc[q]
    <2> DEFINE h == loc[p].hit \/ (r = "unreachable" /\ at[p] \in SeerCall)
               k == [loc[p] EXCEPT !.reply = r, !.hit = h]
    <2>1. at' = at /\ loc' = [loc EXCEPT ![p] = k]
      BY <1>3 DEF Reply
    <2> HIDE DEF h
    <2>2. k.cur = loc[p].cur /\ k.snaps = loc[p].snaps /\ k.ids = loc[p].ids
      BY <1>0 DEF Locals
    <2> HIDE DEF k
    <2>3. QED
      BY <1>2, <2>1, <2>2
  <1>4. ASSUME NEW s, ReplyStatus(p, s)
        PROVE  SoundNext(p) /\ \A q \in Tasks \ {p} : at'[q] = at[q] /\ loc'[q] = loc[q]
    <2> DEFINE k == [loc[p] EXCEPT !.reply = "ok", !.status = s]
    <2>1. at' = at /\ loc' = [loc EXCEPT ![p] = k]
      BY <1>4 DEF ReplyStatus
    <2>2. k.cur = loc[p].cur /\ k.snaps = loc[p].snaps /\ k.ids = loc[p].ids
      BY <1>0 DEF Locals
    <2> HIDE DEF k
    <2>3. QED
      BY <1>2, <2>1, <2>2
  <1>5. ASSUME NEW is, ReplyItems(p, is)
        PROVE  SoundNext(p) /\ \A q \in Tasks \ {p} : at'[q] = at[q] /\ loc'[q] = loc[q]
    <2> DEFINE k == [loc[p] EXCEPT !.reply = "ok", !.todo = is]
    <2>1. at' = at /\ loc' = [loc EXCEPT ![p] = k]
      BY <1>5 DEF ReplyItems
    <2>2. k.cur = loc[p].cur /\ k.snaps = loc[p].snaps /\ k.ids = loc[p].ids
      BY <1>0 DEF Locals
    <2> HIDE DEF k
    <2>3. QED
      BY <1>2, <2>1, <2>2
  <1>6. ASSUME NEW ids, NEW r, ReplyIds(p, r, ids), \A x \in ids : x <= lastId',
               at[p] = "delete" => loc[p].cur.req \in ids
                                   \/ loc[p].cur.req \notin requests'[TitleOf(loc[p].cur.item)]
        PROVE  SoundNext(p) /\ \A q \in Tasks \ {p} : at'[q] = at[q] /\ loc'[q] = loc[q]
    <2> DEFINE k == [loc[p] EXCEPT !.reply = r, !.ids = ids]
    <2>1. at' = at /\ loc' = [loc EXCEPT ![p] = k]
      BY <1>6 DEF ReplyIds
    <2>2. k.cur = loc[p].cur /\ k.snaps = loc[p].snaps /\ k.ids = ids
      BY <1>0 DEF Locals
    <2> HIDE DEF k
    <2>3. loc'[p] = k /\ \A q \in Tasks \ {p} : loc'[q] = loc[q]
      BY <1>0, <2>1
    <2>4. Sound(at[p], k, rows', requests', lastId')
      BY <1>1, <1>6, <2>2 DEF Sound
    <2>5. QED
      BY <2>1, <2>3, <2>4 DEF SoundNext
  <1>7. CASE ServeRead(p) \/ ServeStatus(p) \/ ServeDeclined(p) \/ ServeUntrakt(p)
             \/ \E call \in SeerCall : SeerFails(p, call)
    BY <1>3, <1>4, <1>5, <1>7 DEF ServeRead, ServeStatus, ServeDeclined, ServeUntrakt, SeerFails
  <1>8. CASE ServeCreate(p)
    <2>1. at[p] = "create" /\ lastId' \in Nat /\ lastId \in Nat
      BY <1>8 DEF ServeCreate, Asked, Grows
    <2>2. \/ \E r : Reply(p, r)
          \/ \E r : ReplyIds(p, r, {})
          \/ lastId' = lastId + 1 /\ \E r : ReplyIds(p, r, {lastId + 1})
      BY <1>8 DEF ServeCreate, Record
    <2>3. QED
      BY <1>3, <1>6, <2>1, <2>2
  <1>9. CASE ServeLookup(p)
    <2>1. at[p] = "lookup" /\ lastId' = lastId /\ TitleOf(loc[p].cur.item) \in Titles
      BY <1>9, AskedItem DEF ServeLookup, Asked, Calls, seer
    <2>2. \A x \in requests[TitleOf(loc[p].cur.item)] : x <= lastId'
      BY <2>1 DEF AskInv, IdsInOrder
    <2>3. QED
      BY <1>6, <1>9, <2>1, <2>2 DEF ServeLookup
  <1>10. CASE ServeDelete(p)
    <2>1. PICK id \in loc[p].ids :
            /\ Erase(TitleOf(loc[p].cur.item), {id})
            /\ ReplyIds(p, "ok", loc[p].ids \ {id}) \/ Reply(p, "error")
      BY <1>10 DEF ServeDelete
    <2>2. id \notin requests'[TitleOf(loc[p].cur.item)]
      <3>1. requests \in [Titles -> SUBSET Ids] /\ TitleOf(loc[p].cur.item) \in Titles
        BY <1>10, AskedItem DEF ServeDelete, Calls, IInv, DataOK
      <3>2. QED
        BY <2>1, <3>1 DEF Erase
    <2>3. \A x \in loc[p].ids \ {id} : x <= lastId'
      BY <1>1 DEF Sound
    <2>4. at[p] = "delete" => loc[p].cur.req \in loc[p].ids \ {id}
                              \/ loc[p].cur.req \notin requests'[TitleOf(loc[p].cur.item)]
      BY <1>1, <2>2 DEF Sound
    <2>5. QED
      BY <1>3, <1>6, <2>1, <2>3, <2>4
  <1>11. QED
    BY <1>7, <1>8, <1>9, <1>10 DEF Serve

\* The other polls are not in their cycle while one writes a row of its own.
LEMMA OthersIdle ==
    ASSUME IInv, Grows, SoundInv, NEW p \in Pollers, at[p] \notin {"idle", "queued"}, Tasks = Pollers,
           \A q \in Tasks \ {p} : at'[q] = at[q] /\ loc'[q] = loc[q]
    PROVE  \A q \in Tasks \ {p} : SoundNext(q)
  <1> SUFFICES ASSUME NEW q \in Tasks \ {p} PROVE SoundNext(q)
    OBVIOUS
  <1>1. at[q] \in {"idle", "queued"}
    BY DEF IInv, Control, OneCycle, InCycle
  <1>2. loc[q] \in Locals /\ SoundAt(q) /\ at[q] \notin Calls
    BY <1>1, LocalsOf DEF SoundInv, Calls
  <1>3. Sound(at[q], loc[q], rows', requests', lastId')
    BY <1>1, <1>2, SoundStays DEF SoundAt
  <1>4. QED
    BY <1>3 DEF SoundNext

LEMMA OthersSound ==
    ASSUME IInv, Grows, SoundInv, \A i \in Items : Mild(i), NEW p,
           \A q \in Tasks \ {p} : at'[q] = at[q] /\ loc'[q] = loc[q]
    PROVE  \A q \in Tasks \ {p} : SoundNext(q)
  BY OwnStays DEF SoundInv, SoundNext

\* A task starts with nothing known.
LEMMA StartSound ==
    ASSUME IInv, Grows, NEW p \in Tasks, BeginPoll(p) \/ Goto(p, "queued", Fresh)
    PROVE  SoundNext(p) /\ \A q \in Tasks \ {p} : at'[q] = at[q] /\ loc'[q] = loc[q]
  <1> DEFINE k == [Fresh EXCEPT !.lists = tracked]
  <1>1. k.cur = NoCur /\ k.snaps = {} /\ k.ids = {}
    BY FreshBlank DEF Fresh
  <1>2. \/ Goto(p, "lists", k) \/ Goto(p, "queued", Fresh)
    BY DEF BeginPoll
  <1> HIDE DEF k
  <1>3. Sound("lists", k, rows', requests', lastId') /\ Sound("queued", Fresh, rows', requests', lastId')
    BY <1>1, SoundBlank, FreshBlank DEF Grows, Working, Removing
  <1>4. QED
    BY <1>2, <1>3, Moved DEF SoundNext

\* The reminder of a deferral changes nothing else.
LEMMA BackoffSound ==
    ASSUME IInv, Grows, SoundInv, \A i \in Items : Mild(i), NEW i \in Items, BackoffElapses(i),
           NEW p \in Tasks
    PROVE  SoundNext(p)
  <1>1. loc[p] \in Locals /\ at' = at
    BY LocalsOf DEF BackoffElapses
  <1>2. loc'[p] = IF loc[p].cur.item = i /\ loc[p].cur.backoff = "held"
                  THEN [loc[p] EXCEPT !.cur.backoff = "due"] ELSE loc[p]
    BY DEF BackoffElapses
  <1>3. /\ loc'[p].cur.req = loc[p].cur.req /\ loc'[p].cur.item = loc[p].cur.item
        /\ loc'[p].snaps = loc[p].snaps /\ loc'[p].ids = loc[p].ids
    <2>1. loc[p].cur \in Cursor
      BY <1>1 DEF Locals
    <2> DEFINE c == [loc[p].cur EXCEPT !.backoff = "due"]
               k == [loc[p] EXCEPT !.cur = c]
    <2>2. c.req = loc[p].cur.req /\ c.item = loc[p].cur.item
      BY <2>1 DEF Cursor
    <2>3. loc'[p] = k \/ loc'[p] = loc[p]
      BY <1>2
    <2> HIDE DEF c
    <2>4. k.cur = c /\ k.snaps = loc[p].snaps /\ k.ids = loc[p].ids
      BY <1>1 DEF Locals
    <2> HIDE DEF k
    <2>5. QED
      BY <2>2, <2>3, <2>4
  <1>4. Sound(at[p], loc[p], rows', requests', lastId')
    BY OwnStays DEF SoundInv
  <1>5. QED
    BY <1>1, <1>3, <1>4 DEF Sound, SoundNext

LEMMA MildSound ==
    ASSUME IInv, AskInv, Grows, SoundInv, [Next]_vars, Sweepers = {}, Deleters = {},
           \A i \in Items : Mild(i),
           \A p \in Tasks, i \in Items : ~ProcessItem(p, i), \A p \in Tasks : ~ResumeCreate(p)
    PROVE  \A q \in Tasks : SoundNext(q)
  <1>0. Tasks = Pollers
    BY DEF Tasks
  <1>1. ASSUME NEW p \in Tasks, SoundNext(p), \A q \in Tasks \ {p} : at'[q] = at[q] /\ loc'[q] = loc[q]
        PROVE  \A q \in Tasks : SoundNext(q)
    BY <1>1, OthersSound
  <1>2. CASE \E p \in Tasks : TaskStep(p)
    BY <1>0, <1>1, <1>2, TaskStepSound
  <1>3. CASE \E p \in Tasks : Serve(p)
    BY <1>1, <1>3, ServeSound DEF SoundInv
  <1>4. CASE \E p \in Pollers : PollDue(p) \/ SyncNow(p)
    BY <1>0, <1>1, <1>4, StartSound DEF PollDue, SyncNow, EnterGate
  <1>5. CASE Admit
    <2>1. queue \in Seq(Pollers) /\ queue # <<>>
      BY <1>5 DEF Admit, IInv, Control, TasksOK
    <2>2. Head(queue) \in Tasks
      BY <1>0, <2>1, RestOfList
    <2>3. QED
      BY <1>1, <1>5, <2>2, StartSound DEF Admit
  <1>6. CASE Crash
    <2>1. \A p \in Tasks : at'[p] = "idle" /\ loc'[p] = Fresh
      BY <1>6 DEF Crash
    <2>2. Sound("idle", Fresh, rows', requests', lastId')
      BY SoundBlank, FreshBlank DEF Grows, Working, Removing
    <2>3. QED
      BY <2>1, <2>2 DEF SoundNext
  <1>7. CASE \E i \in Items : BackoffElapses(i)
    BY <1>7, BackoffSound
  <1>8. ASSUME at' = at, loc' = loc PROVE \A q \in Tasks : SoundNext(q)
    BY <1>8, OwnStays DEF SoundInv, SoundNext
  <1>9. CASE Environment /\ ~ \E i \in Items : BackoffElapses(i)
    BY <1>8, <1>9 DEF Environment, UserAdds, UserDrops, UserRequests, Progress, Vanish, Decline, TrackList,
                      UntrackList, ToggleAutoRemove, ClearItems, task
  <1>10. CASE UNCHANGED vars
    BY <1>8, <1>10 DEF vars
  <1>11. QED
    BY <1>2, <1>3, <1>4, <1>5, <1>6, <1>7, <1>9, <1>10 DEF Next, Pollers

LEMMA NextSoundInv ==
    ASSUME IInv, IInv', AskInv, SoundInv, [Next]_vars, Sweepers = {}, Deleters = {}
    PROVE  SoundInv'
  <1>0. Tasks = Pollers /\ Grows
    BY RequestsGrow DEF Tasks
  <1>1. \A p \in Tasks : SoundNext(p)
    <2>1. CASE \E p \in Tasks, i \in Items : ProcessItem(p, i)
      <3>1. PICK p \in Tasks, i \in Items : ProcessItem(p, i)
        BY <2>1
      <3>2. SoundNext(p) /\ \A q \in Tasks \ {p} : at'[q] = at[q] /\ loc'[q] = loc[q]
        BY <1>0, <3>1, ProcessItemSound
      <3>3. at[p] \notin {"idle", "queued"}
        BY <3>1 DEF ProcessItem
      <3>4. QED
        BY <1>0, <3>2, <3>3, OthersIdle
    <2>2. CASE \E p \in Tasks : ResumeCreate(p)
      <3>1. PICK p \in Tasks : ResumeCreate(p)
        BY <2>2
      <3>2. SoundNext(p) /\ \A q \in Tasks \ {p} : at'[q] = at[q] /\ loc'[q] = loc[q]
        BY <1>0, <3>1, ResumeCreateSound
      <3>3. at[p] \notin {"idle", "queued"}
        BY <3>1 DEF ResumeCreate, Answered
      <3>4. QED
        BY <1>0, <3>2, <3>3, OthersIdle
    <2>3. CASE /\ \A p \in Tasks, i \in Items : ~ProcessItem(p, i)
               /\ \A p \in Tasks : ~ResumeCreate(p)
      BY <1>0, <2>3, MildUnlessWritten, MildSound
    <2>4. QED
      BY <2>1, <2>2, <2>3
  <1>2. ASSUME NEW i \in Items PROVE rows'[i].req <= lastId'
    <2>1. rows[i].req \in Nat /\ rows[i].req <= lastId /\ RowChange(i)
      BY RowsChange, ListSyncAssumption DEF SoundInv, IInv, DataOK, Row, IdOrNone
    <2>2. ASSUME NEW p \in Pollers, NEW x \in loc[p].ids PROVE x <= lastId'
      <3>1. x \in Nat /\ x <= lastId
        BY <1>0, LocalsOf, ListSyncAssumption DEF Locals, Ids, SoundInv, SoundAt, Sound
      <3>2. QED
        BY <1>0, <3>1 DEF Grows
    <2>3. QED
      BY <1>0, <2>1, <2>2 DEF RowChange, Kindly, Absent, NewRow, NoId, Grows
  <1>3. RemovedLeavesNoRequest'
    <2> SUFFICES ASSUME NEW i \in Items, rows'[i].status = "removed"
                 PROVE  rows'[i].req \notin requests'[TitleOf(i)]
      BY DEF RemovedLeavesNoRequest
    <2>1. TitleOf(i) \in Titles /\ rows[i].req \in Nat /\ rows[i].req <= lastId
      BY ListSyncAssumption DEF Items, TitleOf, SoundInv, IInv, DataOK, Row, IdOrNone
    <2>2. CASE Kindly(i)
      <3>1. rows[i].status = "removed" /\ rows'[i].req = rows[i].req
        BY <2>2 DEF Kindly
      <3>2. rows[i].req \notin requests[TitleOf(i)]
        BY <3>1 DEF SoundInv, RemovedLeavesNoRequest
      <3>3. QED
        BY <1>0, <2>1, <3>1, <3>2 DEF Grows
    <2>3. CASE /\ rows[i].status # "absent" /\ rows'[i].req = rows[i].req
               /\ \E p \in Tasks : Through(p) /\ loc[p].cur.item = i
      <3>1. PICK p \in Tasks : Through(p) /\ loc[p].cur.item = i
        BY <2>3
      <3>2. at[p] \in Removing
        BY <3>1 DEF Through, Removing
      <3>3. rows[i].req = loc[p].cur.req
        BY <2>3, <3>1, <3>2 DEF SoundInv, SoundAt, Sound, Working, RowIs
      <3>4. NoId \notin requests[TitleOf(i)]
        BY <2>1 DEF IInv, DataOK, Ids, NoId
      <3>5. loc[p].cur.req \notin requests[TitleOf(i)]
        BY <3>1, <3>4 DEF Through, SoundInv, SoundAt, Sound
      <3>6. QED
        BY <1>0, <2>1, <2>3, <3>3, <3>5 DEF Grows
    <2>4. QED
      <3>1. RowChange(i)
        BY RowsChange
      <3>2. QED
        BY <2>2, <2>3, <3>1 DEF RowChange, Absent, NewRow
  <1>4. QED
    BY <1>1, <1>2, <1>3 DEF SoundInv, SoundNext, SoundAt

LEMMA InitSoundInv == Init => SoundInv
  <1> SUFFICES ASSUME Init PROVE SoundInv
    OBVIOUS
  <1>1. lastId = 0 /\ \A i \in Items : rows[i] = Absent
    BY DEF Init
  <1>2. \A p \in Tasks : at[p] = "idle" /\ loc[p] = Fresh
    BY DEF Init
  <1>3. Sound("idle", Fresh, rows, requests, lastId)
    BY <1>1, SoundBlank, FreshBlank DEF Working, Removing
  <1>4. QED
    BY <1>1, <1>2, <1>3 DEF SoundInv, SoundAt, RemovedLeavesNoRequest, Absent, NoId

\* Where polls alone remove items, the request of an item marked removed is
\* gone from Seer, also when the removal took several attempts or a restart
\* fell between its steps, whatever users do (remove_tracked_item).
THEOREM SpecRemovedLeavesNoRequest ==
    ASSUME Sweepers = {}, Deleters = {}
    PROVE  Spec => []RemovedLeavesNoRequest
  <1>1. IInv /\ IInv' /\ AskInv /\ SoundInv /\ [Next]_vars => SoundInv'
    BY NextSoundInv
  <1>2. SoundInv => RemovedLeavesNoRequest
    BY DEF SoundInv
  <1>3. QED
    BY <1>1, <1>2, InitSoundInv, SpecIInv, SpecAskInv, PTL DEF Spec
=============================================================================
