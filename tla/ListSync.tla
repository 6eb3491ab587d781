------------------------------ MODULE ListSync ------------------------------
(***************************************************************************)
(* The list_syncarr module: polls that mirror Trakt lists into SQLite and  *)
(* keep one Seer request per title, the refresh of items that left their   *)
(* list, and the removals (automatic, the "Delete availables" sweep and    *)
(* the per-item delete), with Trakt and Seer as their environment.         *)
(*                                                                         *)
(* Everything runs on one event loop.  A task's place `at[p]' names the    *)
(* call it awaits; a call is answered by a Serve step of the environment   *)
(* and picked up by a Resume step of the task, so that other tasks, users  *)
(* and failures come in between.  In the places of Local the task awaits   *)
(* nothing, and no other task moves until it does.                         *)
(*                                                                         *)
(* An operator Name_Fault just before Name is Name with a plausible bug in *)
(* it.  The specification does not use it: the properties are shown to     *)
(* fail when it replaces Name.                                             *)
(***************************************************************************)
EXTENDS Naturals, FiniteSets, Sequences

CONSTANTS
    Lists, Titles,
    OwnLists,      \* lists of the connected account (owner "me")
    HasTmdb,       \* titles with a TMDB id: Seer knows no other id
    Removable,     \* titles with the id a Trakt removal needs
    Scheduled,     \* the scheduled poll_job
    Manual,        \* "Sync now" requests
    Sweepers,      \* "Delete availables" sweeps
    Deleters,      \* per-item delete requests
    Nobody,        \* nobody holds the gate
    NoItem,        \* a task works on no item
    NoList,        \* a task reads no list
    MaxRequests,   \* bound: Seer requests ever made
    MaxFaults,     \* bound: calls that fail
    MaxCrashes,    \* bound: restarts of the process
    Disturb        \* which moves of users and services a run allows

Pollers == Scheduled \cup Manual
Tasks   == Pollers \cup Sweepers \cup Deleters
Items   == Lists \X Titles
ListOf(i)  == i[1]
TitleOf(i) == i[2]

ASSUME ListSyncAssumption ==
    /\ OwnLists \subseteq Lists
    /\ HasTmdb \subseteq Titles /\ Removable \subseteq Titles
    /\ Scheduled \cap Manual = {}
    /\ Pollers \cap (Sweepers \cup Deleters) = {} /\ Sweepers \cap Deleters = {}
    /\ Nobody \notin Tasks /\ NoItem \notin Items /\ NoList \notin Lists
    /\ MaxRequests \in Nat /\ MaxFaults \in Nat /\ MaxCrashes \in Nat

Ids   == 1..MaxRequests
NoId  == 0
IdOrNone == 0..MaxRequests

VARIABLES
    rows,        \* SQLite: the items table
    tracked,     \* settings store: the lists polled
    autoRemove,  \* settings store: auto_remove_when_available
    onTrakt,     \* Trakt: the items on the lists
    media,       \* Seer: mediaInfo.status of each title
    requests,    \* Seer: the requests recorded for each title
    declined,    \* Seer: the requests that were declined
    mine,        \* the requests this program made (for the properties)
    lastId,      \* Seer: the newest request id
    gate, queue, \* ctx.sync_gate: who is inside, who waits
    at, loc,     \* where each task is, and its local variables
    faults, crashes

store    == <<rows, tracked, autoRemove>>
settings == <<tracked, autoRemove>>
seer     == <<media, requests, declined, mine, lastId>>
sync     == <<gate, queue>>
task     == <<at, loc>>
budget   == <<faults, crashes>>
vars     == <<rows, tracked, autoRemove, onTrakt, media, requests, declined, mine,
              lastId, gate, queue, at, loc, faults, crashes>>

Statuses == {"synced", "requested", "available", "removed"}
\* "none": request_attempts = 0; otherwise next_request_at lies ahead ("held")
\* or has passed ("due").
Backoffs == {"none", "held", "due"}
Row      == [status : Statuses \cup {"absent"}, req : IdOrNone, backoff : Backoffs]
Absent   == [status |-> "absent", req |-> NoId, backoff |-> "none"]
NewRow   == [status |-> "synced", req |-> NoId, backoff |-> "none"]

\* "pending" stands for PENDING and PROCESSING, "unknown" for a title Seer has
\* no record of or no request for.
Media    == {"unknown", "pending", "partial", "available"}
Replies  == {"none", "ok", "declined", "error", "unreachable"}

Local    == {"lists", "items", "settle", "snaps"}
Removing == {"untrakt", "lookup", "delete"}
SeerCall == {"status", "declined", "create", "lookup", "delete"}
Places   == {"idle", "queued", "read", "untrakt"} \cup Local \cup SeerCall

\* The copy of a row that a coroutine carries across its awaits.
Cursor == [item : Items \cup {NoItem}, req : IdOrNone, backoff : Backoffs]
NoCur  == [item |-> NoItem, req |-> NoId, backoff |-> "none"]
Snap   == [item : Items, req : IdOrNone]

Locals == [lists : SUBSET Lists, list : Lists \cup {NoList}, polled : SUBSET Lists,
           seen : SUBSET Items, todo : SUBSET Items, snaps : SUBSET Snap,
           cur : Cursor, after : Local \cup {"idle"}, reply : Replies,
           status : Media, ids : SUBSET Ids, down : BOOLEAN, hit : BOOLEAN]

Fresh == [lists |-> {}, list |-> NoList, polled |-> {}, seen |-> {}, todo |-> {},
          snaps |-> {}, cur |-> NoCur, after |-> "idle", reply |-> "none",
          status |-> "unknown", ids |-> {}, down |-> FALSE, hit |-> FALSE]

TypeOK ==
    /\ rows \in [Items -> Row]
    /\ tracked \subseteq Lists /\ autoRemove \in BOOLEAN
    /\ onTrakt \subseteq Items
    /\ media \in [Titles -> Media]
    /\ requests \in [Titles -> SUBSET Ids]
    /\ declined \subseteq Ids /\ mine \subseteq Ids /\ lastId \in IdOrNone
    /\ gate \in Pollers \cup {Nobody} /\ queue \in Seq(Pollers)
    /\ at \in [Tasks -> Places] /\ loc \in [Tasks -> Locals]
    /\ faults \in 0..MaxFaults /\ crashes \in 0..MaxCrashes

Init ==
    /\ rows = [i \in Items |-> Absent]
    /\ tracked = Lists /\ autoRemove \in BOOLEAN
    /\ onTrakt \in SUBSET Items
    /\ media = [t \in Titles |-> "unknown"]
    /\ requests = [t \in Titles |-> {}]
    /\ declined = {} /\ mine = {} /\ lastId = 0
    /\ gate = Nobody /\ queue = <<>>
    /\ at = [p \in Tasks |-> "idle"] /\ loc = [p \in Tasks |-> Fresh]
    /\ faults = 0 /\ crashes = 0

(***************************************************************************)
(* The event loop                                                          *)
(***************************************************************************)

\* No other task is between two awaits.
Turn(p) == \A q \in Tasks \ {p} : at[q] \notin Local
Quiet   == \A q \in Tasks : at[q] \notin Local

Goto(p, place, l) ==
    /\ at'  = [at EXCEPT ![p] = place]
    /\ loc' = [loc EXCEPT ![p] = l]

Await(p, call, l) == Goto(p, call, [l EXCEPT !.reply = "none"])

\* Done with the current item: forget it and go on where the caller of the
\* shared code left off.
Rest(l) == [l EXCEPT !.cur = NoCur, !.reply = "none", !.status = "unknown", !.ids = {}]
Continue(p, l) ==
    Goto(p, l.after, IF l.after = "idle" THEN Fresh
                     ELSE IF l.after = "settle" THEN [Rest(l) EXCEPT !.cur = l.cur]
                     ELSE Rest(l))

Answered(p, call) == Turn(p) /\ at[p] = call /\ loc[p].reply # "none"
Asked(p, call)    == Quiet /\ at[p] = call /\ loc[p].reply = "none"

(***************************************************************************)
(* The items table                                                         *)
(***************************************************************************)

Present(i) == rows[i].status # "absent"
Active_Unavailable(i) == rows[i].status \in {"synced", "requested"}
Active(i) == rows[i].status \notin {"absent", "removed"}

\* An UPDATE of a row that is not there changes nothing.
Update(i, row) == rows' = [rows EXCEPT ![i] = IF Present(i) THEN row ELSE @]
SetStatus(i, s) == Update(i, [rows[i] EXCEPT !.status = s])

(***************************************************************************)
(* remove_tracked_item                                                     *)
(***************************************************************************)

\* owner_for answers "me" for a list that is no longer tracked.
OwnerIsMe(l) == l \in OwnLists \/ l \notin tracked

BeginRemoval(p, l) ==
    IF OwnerIsMe(ListOf(l.cur.item)) /\ TitleOf(l.cur.item) \in Removable
    THEN Await(p, "untrakt", [l EXCEPT !.status = "unknown"])
    ELSE Continue(p, l)

MarkRemoved(p) ==
    /\ SetStatus(loc[p].cur.item, "removed")
    /\ Continue(p, loc[p])

\* A failed call leaves the item active.
UntraktFailed_CleansUp(p) == Await(p, "lookup", loc[p]) /\ UNCHANGED rows
UntraktFailed(p) == Continue(p, loc[p]) /\ UNCHANGED rows
CleanupFailed_Ignored(p) == MarkRemoved(p)
CleanupFailed(p) == Continue(p, loc[p]) /\ UNCHANGED rows

ResumeUntrakt(p) ==
    LET me == loc[p] IN
    /\ Answered(p, "untrakt")
    /\ \/ /\ me.reply = "error"
          /\ UntraktFailed(p)
       \/ /\ me.reply = "ok" /\ me.cur.req # NoId
          /\ Await(p, "delete", [me EXCEPT !.ids = {me.cur.req}]) /\ UNCHANGED rows
       \/ /\ me.reply = "ok" /\ me.cur.req = NoId
          /\ TitleOf(me.cur.item) \in HasTmdb
          /\ Await(p, "lookup", me) /\ UNCHANGED rows
       \/ /\ me.reply = "ok" /\ me.cur.req = NoId
          /\ TitleOf(me.cur.item) \notin HasTmdb
          /\ MarkRemoved(p)
    /\ UNCHANGED <<settings, onTrakt, seer, sync, budget>>

ResumeLookup(p) ==
    LET me == loc[p] IN
    /\ Answered(p, "lookup")
    /\ \/ /\ me.reply # "ok"
          /\ CleanupFailed(p)
       \/ /\ me.reply = "ok" /\ me.ids # {}
          /\ Await(p, "delete", me) /\ UNCHANGED rows
       \/ /\ me.reply = "ok" /\ me.ids = {}
          /\ MarkRemoved(p)
    /\ UNCHANGED <<settings, onTrakt, seer, sync, budget>>

ResumeDelete(p) ==
    LET me == loc[p] IN
    /\ Answered(p, "delete")
    /\ \/ /\ me.reply # "ok"
          /\ CleanupFailed(p)
       \/ /\ me.reply = "ok" /\ me.ids # {}
          /\ Await(p, "delete", me) /\ UNCHANGED rows
       \/ /\ me.reply = "ok" /\ me.ids = {}
          /\ MarkRemoved(p)
    /\ UNCHANGED <<settings, onTrakt, seer, sync, budget>>

(***************************************************************************)
(* The gate and the poll over the tracked lists                            *)
(***************************************************************************)

BeginPoll(p) == Goto(p, "lists", [Fresh EXCEPT !.lists = tracked])

GateIsFree_Unchecked == queue = <<>>
\* asyncio.Lock: a newcomer takes a free lock only if nobody waits for it.
GateIsFree == gate = Nobody /\ queue = <<>>

EnterGate(p) ==
    IF GateIsFree
    THEN /\ gate' = p /\ BeginPoll(p)
         /\ UNCHANGED queue
    ELSE /\ queue' = Append(queue, p) /\ Goto(p, "queued", Fresh)
         /\ UNCHANGED gate

\* poll_job: sync_gate.run waits for its turn.
PollDue(p) ==
    /\ Quiet /\ at[p] = "idle"
    /\ EnterGate(p)
    /\ UNCHANGED <<store, onTrakt, seer, budget>>

\* post_sync: sync_gate.try_run answers 409 while the gate is held.
SyncNow(p) ==
    /\ Quiet /\ at[p] = "idle" /\ gate = Nobody
    /\ EnterGate(p)
    /\ UNCHANGED <<store, onTrakt, seer, budget>>

Admit ==
    /\ Quiet /\ gate = Nobody /\ queue # <<>>
    /\ gate' = Head(queue) /\ queue' = Tail(queue)
    /\ BeginPoll(Head(queue))
    /\ UNCHANGED <<store, onTrakt, seer, budget>>

EndPoll(p) == gate' = Nobody /\ UNCHANGED queue /\ Goto(p, "idle", Fresh)

PickList(p) ==
    /\ at[p] = "lists"
    /\ \E l \in loc[p].lists :
         Await(p, "read", [loc[p] EXCEPT !.lists = @ \ {l}, !.list = l])
    /\ UNCHANGED <<store, onTrakt, seer, sync, budget>>

ResumeRead(p) ==
    /\ Answered(p, "read")
    /\ Goto(p, IF loc[p].reply = "ok" THEN "items" ELSE "lists",
            [Rest(loc[p]) EXCEPT !.after = "items"])
    /\ UNCHANGED <<store, onTrakt, seer, sync, budget>>

(***************************************************************************)
(* _process_item: mirror one item, then ask Seer or retry its removal      *)
(***************************************************************************)

\* INSERT ... ON CONFLICT DO UPDATE: a row that is there keeps its status, its
\* request id and its back-off.
Upserted(i) == IF Present(i) THEN rows[i] ELSE NewRow

\* Neither a removed item nor a cycle that found Seer unreachable goes on.
Handled_InOutage(row, me) == row.status = "removed"
Handled(row, me) == row.status = "removed" \/ me.down

ProcessItem(p, i) ==
    LET row == Upserted(i)
        me  == [loc[p] EXCEPT
                  !.todo = @ \ {i}, !.seen = @ \cup {i}, !.after = "items",
                  !.cur = [item |-> i, req |-> row.req, backoff |-> row.backoff]]
        handled == Handled(row, me)
    IN  /\ at[p] = "items" /\ i \in loc[p].todo
        /\ rows' = [rows EXCEPT ![i] = row]
        /\ \/ /\ handled
              /\ Continue(p, me)
           \/ /\ ~handled /\ row.status = "available" /\ autoRemove
              /\ BeginRemoval(p, me)
           \/ /\ ~handled /\ row.status = "available" /\ ~autoRemove
              /\ Continue(p, me)
           \/ /\ ~handled /\ row.status # "available" /\ TitleOf(i) \notin HasTmdb
              /\ Continue(p, me)
           \/ /\ ~handled /\ row.status # "available" /\ TitleOf(i) \in HasTmdb
              /\ Await(p, "status", me)
        /\ UNCHANGED <<settings, onTrakt, seer, sync, budget>>

\* The whole list was processed: it counts as polled this cycle.
EndList(p) ==
    /\ at[p] = "items" /\ loc[p].todo = {}
    /\ Goto(p, "lists", [loc[p] EXCEPT !.polled = @ \cup {loc[p].list}, !.list = NoList])
    /\ UNCHANGED <<store, onTrakt, seer, sync, budget>>

(***************************************************************************)
(* The answer to get_status: _apply_seer_status, shared by the poll        *)
(* (after = "items") and the refresh (after = "snaps")                     *)
(***************************************************************************)

\* A call of the poll found Seer unreachable: the latch trips.
Trip(p) == Continue(p, [loc[p] EXCEPT !.down = TRUE])

StatusFailed(p) ==
    LET me == loc[p] IN
    /\ p \in Pollers /\ Answered(p, "status")
    /\ \/ /\ me.reply = "error"
          /\ Continue(p, me) /\ UNCHANGED sync
       \/ /\ me.reply = "unreachable" /\ me.after = "items"
          /\ Trip(p) /\ UNCHANGED sync
       \/ /\ me.reply = "unreachable" /\ me.after = "snaps"
          /\ EndPoll(p)
    /\ UNCHANGED <<store, onTrakt, seer, budget>>

SeerTracks_Downloads(s) == s \in {"partial", "available"}
SeerTracks(s) == s # "unknown"

RemovalDue(s) == s \in {"partial", "available"} /\ autoRemove

\* Seer knows the title.  In the poll the back-off is cleared once the removal,
\* if one is due, is over.
StatusKnown(p) ==
    LET me == [loc[p] EXCEPT !.after = IF @ = "items" THEN "settle" ELSE @]
    IN  /\ p \in Pollers /\ Answered(p, "status")
        /\ me.reply = "ok" /\ SeerTracks(me.status)
        /\ SetStatus(me.cur.item,
                     IF me.status = "available" THEN "available" ELSE "requested")
        /\ IF RemovalDue(me.status) THEN BeginRemoval(p, me) ELSE Continue(p, me)
        /\ UNCHANGED <<settings, onTrakt, seer, sync, budget>>

Deferred_ForGood(b) == b # "none"
Deferred(b) == b = "held"

\* Seer does not know the title: the poll requests it unless the attempt is
\* deferred, the refresh leaves it alone.
Requests_Unlisted(me) == ~Deferred(me.cur.backoff)
Requests(me) == me.after = "items" /\ ~Deferred(me.cur.backoff)

StatusUnknown(p) ==
    LET me == loc[p] IN
    /\ p \in Pollers /\ Answered(p, "status")
    /\ me.reply = "ok" /\ ~SeerTracks(me.status)
    /\ IF Requests(me)
       THEN Await(p, "declined", me)
       ELSE Continue(p, me)
    /\ UNCHANGED <<store, onTrakt, seer, sync, budget>>

\* The row keeps its new status; the deferral of the copy taken before the call
\* is cleared in the table.
Settle(p) ==
    LET me == loc[p]
        i  == me.cur.item
    IN  /\ at[p] = "settle"
        /\ IF me.cur.backoff # "none"
           THEN Update(i, [rows[i] EXCEPT !.backoff = "none"])
           ELSE UNCHANGED rows
        /\ Goto(p, "items", [Rest(me) EXCEPT !.after = "items"])
        /\ UNCHANGED <<settings, onTrakt, seer, sync, budget>>

(***************************************************************************)
(* _request_item                                                           *)
(***************************************************************************)

\* _defer_request: one more failed attempt, and the item is "synced" again.
Defer(p) ==
    LET i == loc[p].cur.item IN
    /\ Update(i, [rows[i] EXCEPT !.status = "synced", !.backoff = "held"])
    /\ Continue(p, loc[p])

ResumeDeclined(p) ==
    LET me == loc[p] IN
    /\ Answered(p, "declined")
    /\ \/ /\ me.reply \in {"declined", "error"}
          /\ Defer(p)
       \/ /\ me.reply = "unreachable"
          /\ Trip(p) /\ UNCHANGED rows
       \/ /\ me.reply = "ok"
          /\ Await(p, "create", me) /\ UNCHANGED rows
    /\ UNCHANGED <<settings, onTrakt, seer, sync, budget>>

ResumeCreate(p) ==
    LET me == loc[p]
        i  == me.cur.item
    IN  /\ Answered(p, "create")
        /\ \/ /\ me.reply = "error" \/ (me.reply = "ok" /\ me.ids = {})
              /\ Defer(p)
           \/ /\ me.reply = "unreachable"
              /\ Trip(p) /\ UNCHANGED rows
           \/ /\ me.reply = "ok"
              /\ \E id \in me.ids :
                   Update(i, [status |-> "requested", req |-> id,
                              backoff |-> IF me.cur.backoff # "none" THEN "none"
                                          ELSE rows[i].backoff])
              /\ Continue(p, me)
        /\ UNCHANGED <<settings, onTrakt, seer, sync, budget>>

(***************************************************************************)
(* refresh_tracked_statuses, and reconcile, which walks the same rows      *)
(***************************************************************************)

\* active_items(), read once and walked across the awaits that follow.
ActiveSnaps(lists) ==
    {[item |-> i, req |-> rows[i].req] :
        i \in {j \in Items : Active(j) /\ ListOf(j) \in lists /\ TitleOf(j) \in HasTmdb}}

StartRefresh(p) ==
    LET me == loc[p] IN
    /\ at[p] = "lists" /\ me.lists = {}
    /\ IF me.down
       THEN EndPoll(p)
       ELSE /\ Goto(p, "snaps",
                    [Fresh EXCEPT !.snaps = {s \in ActiveSnaps(me.polled) : s.item \notin me.seen},
                                  !.seen = me.seen, !.after = "snaps", !.hit = me.hit])
            /\ UNCHANGED sync
    /\ UNCHANGED <<store, onTrakt, seer, budget>>

Sweep(p) ==
    /\ Quiet /\ at[p] = "idle"
    /\ Goto(p, "snaps", [Fresh EXCEPT !.snaps = ActiveSnaps(tracked), !.after = "snaps"])
    /\ UNCHANGED <<store, onTrakt, seer, sync, budget>>

NextSnap(p) ==
    /\ at[p] = "snaps"
    /\ \E s \in loc[p].snaps :
         Await(p, "status",
               [loc[p] EXCEPT !.snaps = @ \ {s},
                              !.cur = [item |-> s.item, req |-> s.req, backoff |-> "none"]])
    /\ UNCHANGED <<store, onTrakt, seer, sync, budget>>

EndSnaps(p) ==
    /\ at[p] = "snaps" /\ loc[p].snaps = {}
    /\ IF p \in Pollers THEN EndPoll(p) ELSE Goto(p, "idle", Fresh) /\ UNCHANGED sync
    /\ UNCHANGED <<store, onTrakt, seer, budget>>

\* The sweep sets no status: it removes what is fully available.
SweepStatus(p) ==
    LET me == loc[p] IN
    /\ p \in Sweepers /\ Answered(p, "status")
    /\ IF me.reply = "ok" /\ me.status = "available"
       THEN BeginRemoval(p, me)
       ELSE Continue(p, me)
    /\ UNCHANGED <<store, onTrakt, seer, sync, budget>>

\* delete_item -> remove_one: not under the gate.
DeleteItem(p, i) ==
    /\ Quiet /\ at[p] = "idle" /\ Present(i)
    /\ BeginRemoval(p, [Fresh EXCEPT !.cur = [item |-> i, req |-> rows[i].req,
                                              backoff |-> rows[i].backoff]])
    /\ UNCHANGED <<store, onTrakt, seer, sync, budget>>

(***************************************************************************)
(* The services answer                                                     *)
(***************************************************************************)

Reply(p, r) ==
    /\ loc' = [loc EXCEPT ![p].reply = r,
                          ![p].hit = @ \/ (r = "unreachable" /\ at[p] \in SeerCall)]
    /\ UNCHANGED at
ReplyStatus(p, s) == loc' = [loc EXCEPT ![p].reply = "ok", ![p].status = s] /\ UNCHANGED at
ReplyIds(p, r, ids) == loc' = [loc EXCEPT ![p].reply = r, ![p].ids = ids] /\ UNCHANGED at
ReplyItems(p, is) == loc' = [loc EXCEPT ![p].reply = "ok", ![p].todo = is] /\ UNCHANGED at

SpendFault == faults < MaxFaults /\ faults' = faults + 1 /\ UNCHANGED crashes

Live(t) == requests[t] \ declined

\* The newest request of the title was declined.
LatestDeclined(t) ==
    \E d \in requests[t] \cap declined : \A r \in requests[t] : r <= d

\* A Seer call fails before Seer sees it, or with an answer that is an error.
SeerFails(p, call) ==
    /\ Asked(p, call) /\ SpendFault
    /\ \E r \in {"error", "unreachable"} : Reply(p, r)
    /\ UNCHANGED <<store, onTrakt, seer, sync>>

ServeRead(p) ==
    /\ Asked(p, "read")
    /\ \/ /\ ReplyItems(p, {i \in onTrakt : ListOf(i) = loc[p].list})
          /\ UNCHANGED budget
       \/ /\ SpendFault /\ Reply(p, "error")
    /\ UNCHANGED <<store, onTrakt, seer, sync>>

ServeStatus(p) ==
    /\ Asked(p, "status")
    /\ ReplyStatus(p, media[TitleOf(loc[p].cur.item)])
    /\ UNCHANGED <<store, onTrakt, seer, sync, budget>>

\* latest_request_declined looks at the newest request, not at the title.
DeclinedNow_WhilePending(t) == LatestDeclined(t) /\ media[t] = "pending"
DeclinedNow(t) == LatestDeclined(t)

ServeDeclined(p) ==
    /\ Asked(p, "declined")
    /\ Reply(p, IF DeclinedNow(TitleOf(loc[p].cur.item)) THEN "declined" ELSE "ok")
    /\ UNCHANGED <<store, onTrakt, seer, sync, budget>>

\* Seer records a request: the title becomes pending unless it is further on.
Record(t) ==
    /\ lastId < MaxRequests
    /\ lastId' = lastId + 1
    /\ requests' = [requests EXCEPT ![t] = @ \cup {lastId + 1}]
    /\ media' = [media EXCEPT ![t] = IF @ = "unknown" THEN "pending" ELSE @]
    /\ UNCHANGED declined

\* The request is made and its id comes back, or the answer is lost after Seer
\* made it, or Seer makes none and answers without an id, or MaxRequests, the
\* quota of the Seer account, is used up and Seer refuses.
ServeCreate(p) ==
    LET t == TitleOf(loc[p].cur.item) IN
    /\ Asked(p, "create")
    /\ \/ /\ Record(t) /\ mine' = mine \cup {lastId + 1}
          /\ \/ ReplyIds(p, "ok", {lastId + 1}) /\ UNCHANGED budget
             \/ SpendFault /\ Reply(p, "error")
       \/ /\ SpendFault /\ ReplyIds(p, "ok", {})
          /\ UNCHANGED seer
       \/ /\ lastId = MaxRequests /\ Reply(p, "error")
          /\ UNCHANGED <<seer, budget>>
    /\ UNCHANGED <<store, onTrakt, sync>>

\* A list of another account cannot be edited.
ServeUntrakt(p) ==
    LET i == loc[p].cur.item IN
    /\ Asked(p, "untrakt")
    /\ \/ /\ ListOf(i) \in OwnLists
          /\ onTrakt' = onTrakt \ {i}
          /\ \/ Reply(p, "ok") /\ UNCHANGED budget
             \/ Reply(p, "error") /\ SpendFault
       \/ /\ Reply(p, "error")
          /\ IF ListOf(i) \in OwnLists THEN SpendFault ELSE UNCHANGED budget
          /\ UNCHANGED onTrakt
    /\ UNCHANGED <<store, seer, sync>>

ServeLookup(p) ==
    /\ Asked(p, "lookup")
    /\ ReplyIds(p, "ok", requests[TitleOf(loc[p].cur.item)])
    /\ UNCHANGED <<store, onTrakt, seer, sync, budget>>

\* The record goes; a title that was merely pending is unknown without one.
Erase(t, ids) ==
    /\ requests' = [requests EXCEPT ![t] = @ \ ids]
    /\ media' = [media EXCEPT ![t] = IF @ = "pending" /\ Live(t) \subseteq ids
                                     THEN "unknown" ELSE @]
    /\ UNCHANGED <<declined, mine, lastId>>

\* Deleting a request that is gone answers 404, which counts as success.
ServeDelete(p) ==
    /\ Asked(p, "delete")
    /\ \E id \in loc[p].ids :
         /\ Erase(TitleOf(loc[p].cur.item), {id})
         /\ \/ ReplyIds(p, "ok", loc[p].ids \ {id}) /\ UNCHANGED budget
            \/ SpendFault /\ Reply(p, "error")
    /\ UNCHANGED <<store, onTrakt, sync>>

(***************************************************************************)
(* Users, the services on their own, time and crashes                      *)
(***************************************************************************)

May(what) == Quiet /\ what \in Disturb

UserAdds(i) ==
    /\ May("add") /\ i \notin onTrakt
    /\ onTrakt' = onTrakt \cup {i}
    /\ UNCHANGED <<store, seer, sync, task, budget>>

UserDrops(i) ==
    /\ May("drop") /\ i \in onTrakt
    /\ onTrakt' = onTrakt \ {i}
    /\ UNCHANGED <<store, seer, sync, task, budget>>

UserRequests(t) ==
    /\ May("user") /\ Record(t)
    /\ UNCHANGED <<store, onTrakt, mine, sync, task, budget>>

Decline(t, id) ==
    /\ May("decline") /\ id \in Live(t) /\ media[t] = "pending"
    /\ declined' = declined \cup {id}
    /\ media' = [media EXCEPT ![t] = IF Live(t) = {id} THEN "unknown" ELSE @]
    /\ UNCHANGED <<store, onTrakt, requests, mine, lastId, sync, task, budget>>

\* Downloads arrive, by way of the request or straight into the library.
Progress(t) ==
    /\ May("progress") /\ media[t] # "available"
    /\ \E s \in {"partial", "available"} \ {media[t]} : media' = [media EXCEPT ![t] = s]
    /\ UNCHANGED <<store, onTrakt, requests, declined, mine, lastId, sync, task, budget>>

\* The title is deleted in Seer, its requests with it.
Vanish(t) ==
    /\ May("vanish") /\ media[t] # "unknown"
    /\ media' = [media EXCEPT ![t] = "unknown"]
    /\ requests' = [requests EXCEPT ![t] = {}]
    /\ UNCHANGED <<store, onTrakt, declined, mine, lastId, sync, task, budget>>

ToggleAutoRemove ==
    /\ May("toggle")
    /\ autoRemove' = ~autoRemove
    /\ UNCHANGED <<rows, tracked, onTrakt, seer, sync, task, budget>>

TrackList(l) ==
    /\ May("track") /\ l \notin tracked
    /\ tracked' = tracked \cup {l}
    /\ UNCHANGED <<rows, autoRemove, onTrakt, seer, sync, task, budget>>

UntrackList(l) ==
    /\ May("track") /\ l \in tracked
    /\ tracked' = tracked \ {l}
    /\ UNCHANGED <<rows, autoRemove, onTrakt, seer, sync, task, budget>>

\* post_clear_items: not under the gate.
ClearItems ==
    /\ May("clear")
    /\ rows' = [i \in Items |-> Absent]
    /\ UNCHANGED <<settings, onTrakt, seer, sync, task, budget>>

\* next_request_at passes, for the row and for the copies of it.
BackoffElapses(i) ==
    /\ Quiet
    /\ \/ rows[i].backoff = "held"
       \/ \E p \in Tasks : loc[p].cur.item = i /\ loc[p].cur.backoff = "held"
    /\ rows' = [rows EXCEPT ![i].backoff = IF @ = "held" THEN "due" ELSE @]
    /\ loc' = [p \in Tasks |->
                 IF loc[p].cur.item = i /\ loc[p].cur.backoff = "held"
                 THEN [loc[p] EXCEPT !.cur.backoff = "due"] ELSE loc[p]]
    /\ UNCHANGED <<settings, onTrakt, seer, sync, at, budget>>

\* The process dies between any two steps; SQLite, the settings and the
\* services keep what they have.
Crash ==
    /\ crashes < MaxCrashes /\ crashes' = crashes + 1
    /\ gate' = Nobody /\ queue' = <<>>
    /\ at' = [p \in Tasks |-> "idle"] /\ loc' = [p \in Tasks |-> Fresh]
    /\ UNCHANGED <<store, onTrakt, seer, faults>>

(***************************************************************************)
(* The specification                                                       *)
(***************************************************************************)

PollStep(p) ==
    \/ PickList(p) \/ ResumeRead(p) \/ EndList(p)
    \/ \E i \in Items : ProcessItem(p, i)
    \/ StatusFailed(p) \/ StatusKnown(p) \/ StatusUnknown(p) \/ Settle(p)
    \/ ResumeDeclined(p) \/ ResumeCreate(p) \/ StartRefresh(p)

RemovalStep(p) == ResumeUntrakt(p) \/ ResumeLookup(p) \/ ResumeDelete(p)

WalkStep(p) == NextSnap(p) \/ EndSnaps(p) \/ SweepStatus(p)

TaskStep(p) == PollStep(p) \/ RemovalStep(p) \/ WalkStep(p)

Serve(p) ==
    \/ ServeRead(p) \/ ServeStatus(p) \/ ServeDeclined(p) \/ ServeCreate(p)
    \/ ServeUntrakt(p) \/ ServeLookup(p) \/ ServeDelete(p)
    \/ \E call \in SeerCall : SeerFails(p, call)

Environment ==
    \/ \E i \in Items : UserAdds(i) \/ UserDrops(i) \/ BackoffElapses(i)
    \/ \E t \in Titles : UserRequests(t) \/ Progress(t) \/ Vanish(t)
    \/ \E t \in Titles, id \in Ids : Decline(t, id)
    \/ \E l \in Lists : TrackList(l) \/ UntrackList(l)
    \/ ToggleAutoRemove \/ ClearItems

Next ==
    \/ \E p \in Scheduled : PollDue(p)
    \/ \E p \in Manual : SyncNow(p)
    \/ \E p \in Sweepers : Sweep(p)
    \/ \E p \in Deleters, i \in Items : DeleteItem(p, i)
    \/ Admit
    \/ \E p \in Tasks : TaskStep(p) \/ Serve(p)
    \/ Environment
    \/ Crash

\* The interval trigger fires for ever, the loop resumes ready tasks in order,
\* every call is answered or times out, and time passes.  Users, failures and
\* crashes are never forced.
Fairness ==
    /\ \A p \in Scheduled : SF_vars(PollDue(p))
    /\ SF_vars(Admit)
    /\ \A p \in Tasks : SF_vars(TaskStep(p) \/ Serve(p))
    /\ \A i \in Items : SF_vars(BackoffElapses(i))

Spec == Init /\ [][Next]_vars
FairSpec == Spec /\ Fairness
-----------------------------------------------------------------------------
(***************************************************************************)
(* Properties                                                              *)
(***************************************************************************)

InCycle(p) == p \in Pollers /\ at[p] \notin {"idle", "queued"}

\* Two poll cycles never overlap, and the gate says which one runs, through
\* every early return, failure and restart (AppContext.sync_gate).
OneCycle == \A p \in Pollers : InCycle(p) <=> gate = p

\* The gate is used as the first-come first-served lock FifoGate promises.
Gate == INSTANCE FifoGate WITH Runs <- Pollers, holder <- gate
GateRefined == Gate!Spec

\* The program never holds two live Seer requests for one title, whatever is
\* lost, restarted or listed twice: each poll asks Seer before it requests.
NoDuplicateRequest ==
    \A t \in Titles : Cardinality(Live(t) \cap mine) <= 1

\* A title declined in Seer is not requested again (_defer_unrequested).
DeclineRespected ==
    [][\A t \in Titles : LatestDeclined(t) /\ mine' # mine
           => requests'[t] \cap mine' \subseteq requests[t]]_vars

\* Only an item read from a Trakt list in this cycle is requested; the refresh
\* "never creates a Seer request" (sync.py:16).
OnlyListedRequested ==
    \A p \in Tasks : at[p] \in {"declined", "create"} =>
        p \in Pollers /\ loc[p].cur.item \in loc[p].seen /\ loc[p].snaps = {}

\* "Auto-remove ... never the instant it is merely requested": a poll takes an
\* item off its list only when Seer holds it at least partially.
OnlyAvailableRemoved ==
    \A p \in Pollers : at[p] \in Removing =>
        media[TitleOf(loc[p].cur.item)] \in {"partial", "available"}

\* Once the latch has tripped the cycle mirrors lists and calls Seer no more,
\* removals included: a Trakt removal would strand the Seer request.
TrippedCycleIsQuiet ==
    \A p \in Pollers : loc[p].down => at[p] \in {"lists", "read", "items"}

\* When an item is marked removed its Seer request is gone, also when the
\* removal took several attempts or a restart fell between its steps.
RemovedLeavesNoRequest ==
    \A i \in Items : rows[i].status = "removed" => rows[i].req \notin requests[TitleOf(i)]

\* An item marked removed was taken off its Trakt list first, whichever of the
\* poll, the sweep and the per-item delete did it, and however they overlapped
\* (checked where users do not put items back on a list themselves).
RemovedIsOffTrakt ==
    \A i \in Items : rows[i].status = "removed" => i \notin onTrakt

\* A removed item is not processed again: it stays removed.
RemovedIsFinal ==
    [][\A i \in Items : rows[i].status = "removed" => rows'[i].status = "removed"]_vars

\* An item that stays on a tracked list is requested in the end, unless it has
\* been declined or removed; a back-off, an answer that was lost and a restart
\* after Seer accepted the request only delay it.  (lastId < MaxRequests is the
\* bound: as long as no live request exists, one more can still be made.)
Wanted(i) ==
    /\ i \in onTrakt /\ ListOf(i) \in tracked
    /\ requests[TitleOf(i)] \cap declined = {}
    /\ rows[i].status # "removed"
    /\ lastId < MaxRequests \/ Live(TitleOf(i)) # {}
RequestedEventually ==
    \A i \in Items : TitleOf(i) \in HasTmdb =>
        (<>[]Wanted(i) => []<>(rows[i].status \in {"requested", "available"}))

\* With auto-remove on, an available item of an own list that was ever polled is
\* removed in the end, also when a removal failed half-way and the item is no
\* longer on the Trakt list to be seen by the poll.
Clearable(i) ==
    /\ autoRemove /\ media[TitleOf(i)] = "available"
    /\ ListOf(i) \in tracked /\ Present(i)
RemovedEventually ==
    \A i \in Items :
        TitleOf(i) \in HasTmdb \cap Removable /\ ListOf(i) \in OwnLists =>
            (<>[]Clearable(i) => <>(rows[i].status = "removed"))

\* An unreachable Seer mutes "every remaining Seer interaction in the same
\* cycle" (sync.py:18-20): no further call once one could not connect.
OutageMutesCycle ==
    \A p \in Pollers : loc[p].hit /\ at[p] \in SeerCall => loc[p].reply # "none"
=============================================================================
