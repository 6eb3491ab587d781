------------------------------- MODULE Findarr -------------------------------
(***************************************************************************)
(* The findarr module: a run reads back what its earlier searches did,     *)
(* then sends new search commands for wanted units that are past their     *)
(* retry delay, under an hourly cap shared by Sonarr and Radarr.           *)
(*                                                                         *)
(* Runs go through one gate (SyncGate), so there is at most one; resets,   *)
(* clears and the Arrs are not gated and may act at every call the run     *)
(* awaits.  The unit of time is what Hour is a number of.                  *)
(*                                                                         *)
(* An operator Name_Fault just before Name is Name with a plausible bug in *)
(* it; the specification does not use it.                                  *)
(***************************************************************************)
EXTENDS Naturals, FiniteSets, Sequences, SequencesExt, Functions, SeqFilter

CONSTANTS
    AppOrder,        \* APP_NAMES, the apps in the order a run takes them
    ModeOrder,       \* MODES
    ItemOrder,       \* every episode and movie, in the Arrs' listing order
    AppOf, SeriesOf, SeasonOf,  \* of each item; 0: the record names none
    Unmonitored, Future,        \* items the preferences exclude
    OwnerUnmonitored,  \* of those, movies and episodes of unmonitored series
    Upgradable,      \* items whose quality profile allows upgrades
    Granularity,     \* setting: what one search of Sonarr covers, by mode
    ModeLimit, Cap, Base, Longest,  \* settings: searches of an app's mode and
                                    \* per hour, first and longest retry delay
    LookupLimit,     \* PENDING_LOOKUP_LIMIT
    Hour, Retention, \* an hour and SEARCH_LOG_RETENTION_DAYS, in units of time
    Grace,           \* _GRAB_GRACE, rounded up to one
    Endings,         \* how a command that grabs nothing ends in a run
    FileStates,      \* which of AllFileStates occur in a run
    MaxTime, MaxCommands,  \* bounds: time, and commands the Arrs accept
    MaxMoves, Allowed      \* bounds: failures, commands without an id, crashes
                           \* and user moves, together and each
Apps  == ToSet(AppOrder)
Modes == ToSet(ModeOrder)
Items == ToSet(ItemOrder)

\* No file; quality below the cutoff; only the score; both; neither.
AllFileStates == {"missing", "poor", "low", "both", "fine"}

ASSUME FindarrAssumption ==
    /\ AppOrder \in Seq(Apps) /\ ModeOrder \in Seq(Modes) /\ ItemOrder \in Seq(Items)
    /\ IsInjective(ItemOrder) /\ AppOrder # <<>>
    /\ \A m \in Modes : Granularity[m] \in {"episodes", "seasons", "shows"}
    /\ Allowed \in [{"fail", "noid", "crash", "reset", "clear", "file"} -> Nat]
    /\ ModeLimit \in [Apps \X Modes -> Nat] /\ Cap \in Nat /\ Base \in Nat \ {0} /\ Longest \in Nat
    /\ LookupLimit \in Nat \ {0} /\ Retention \in Nat /\ Hour \in Nat /\ Retention > Hour
    /\ Grace \in Nat
    /\ FileStates \subseteq AllFileStates /\ Endings \subseteq {"completed", "failed", "purged"}
    /\ MaxTime \in Nat /\ MaxCommands \in Nat /\ MaxMoves \in Nat

VARIABLES
    now,
    processed,   \* findarr_processed: attempts and next_eligible_at of a unit
    searches,    \* findarr_searches, oldest first
    history,     \* findarr_history: unit and status of each row id
    lastHistory, \* the id of the last row ever added (AUTOINCREMENT)
    file,        \* the Arrs: the state of each item's file
    commands,    \* the Arrs: the search commands they accepted
    grabs,       \* the Arrs: their grab history
    run,         \* the run's place and local variables
    moves        \* how often each bounded move was made

tables == <<processed, searches, history, lastHistory>>
arrs   == <<file, commands, grabs>>
vars   == <<now, processed, searches, history, lastHistory, file, commands, grabs,
            run, moves>>

Idle == [at |-> "idle", apps |-> <<>>, modes |-> <<>>, pending |-> <<>>,
         finished |-> <<>>, limit |-> 0, retry |-> <<>>, todo |-> <<>>]

Init ==
    /\ now = 0 /\ processed = <<>> /\ searches = <<>>
    /\ history = <<>> /\ lastHistory = 0
    /\ file \in [Items -> FileStates]
    /\ commands = <<>> /\ grabs = {}
    /\ run = Idle /\ moves = [m \in DOMAIN Allowed |-> 0]

Least(a, b) == IF a < b THEN a ELSE b
Move(m) ==
    /\ moves[m] < Allowed[m]
    /\ moves.fail + moves.noid + moves.crash + moves.reset + moves.clear + moves.file < MaxMoves
    /\ moves' = [moves EXCEPT ![m] = @ + 1]
Update(f, k, v) == [x \in DOMAIN f \cup {k} |-> IF x = k THEN v ELSE f[x]]
Without(f, ks)  == [x \in DOMAIN f \ ks |-> f[x]]

(***************************************************************************)
(* Wanted items and search units                                           *)
(***************************************************************************)

\* _wanted_records: missing, or the cutoff-unmet list followed by the files
\* below their custom-format cutoff ("low": quality met, score not).
OnCutoffList(i) == file[i] \in {"poor", "both"}
BelowFormatCutoff(i) ==
    /\ file[i] \in {"low", "both"} /\ i \in Upgradable
    /\ i \notin OwnerUnmonitored
Listed(a, items) == Among(ItemOrder, {i \in items : AppOf[i] = a})
WantedRecords(a, mode) ==
    IF mode = "missing"
    THEN Listed(a, {i \in Items : file[i] = "missing"})
    ELSE Listed(a, {i \in Items : OnCutoffList(i)}) \o Listed(a, {i \in Items : BelowFormatCutoff(i)})

FirstOccurrences(s) ==
    LET firsts == {n \in DOMAIN s : \A m \in 1..n - 1 : s[m] # s[n]}
        order  == Among([n \in 1..Len(s) |-> n], firsts)
    IN [k \in 1..Len(order) |-> s[order[k]]]

\* _normalise_items keeps the first record of each item.
NormaliseItems(records) == FirstOccurrences(records)

\* build_units: the key of the unit an item belongs to, and the items its
\* command searches.  An item without the series (and season) a grouped
\* command needs is dropped.
GranularityOf(a, mode) == IF a = "sonarr" THEN Granularity[mode] ELSE "movies"
KeyOf(i, g) ==
    CASE g = "seasons" -> <<g, SeriesOf[i], SeasonOf[i]>>
      [] g = "shows"   -> <<g, SeriesOf[i]>>
      [] OTHER         -> <<g, i>>
Groupable(i, g) ==
    /\ g \in {"seasons", "shows"} => SeriesOf[i] # 0
    /\ g = "seasons" => SeasonOf[i] # 0
BuildUnits(a, mode, items) ==
    LET g == GranularityOf(a, mode)
        members == Among(items, {i \in Items : Groupable(i, g)})
        each == [n \in 1..Len(members) |-> KeyOf(members[n], g)]
        keys == IF g \in {"seasons", "shows"} THEN FirstOccurrences(each) ELSE each
    IN [n \in 1..Len(keys) |->
          LET mine == {i \in ToSet(members) : KeyOf(i, g) = keys[n]}
          IN [app |-> a, mode |-> mode, key |-> keys[n],
              monitored |-> mine \ Unmonitored # {}, future |-> mine \subseteq Future]]
IdOf(u) == [app |-> u.app, mode |-> u.mode, key |-> u.key]

\* What a command sent for a unit searches: every item under its key.
Targets(u) == {i \in Items : AppOf[i] = u.app /\ KeyOf(i, u.key[1]) = u.key}

(***************************************************************************)
(* Retry delays                                                            *)
(***************************************************************************)

\* delay_hours: the base delay, doubled with every search after the first
\* that found nothing, up to the longest delay.
MaxExponent == 16
Exponent(attempts) == Least(IF attempts = 0 THEN 0 ELSE attempts - 1, MaxExponent)
Delay(attempts) ==
    LET longest == IF Base > Longest THEN Base ELSE Longest
    IN Least(Base * 2 ^ Exponent(attempts), longest)

\* _unit_due, against the retry state read at the start of the mode.
UnitDue_Always(u, retry) == u.monitored /\ ~u.future
UnitDue(u, retry) ==
    /\ u.monitored /\ ~u.future
    /\ IdOf(u) \in DOMAIN retry => retry[IdOf(u)].due <= now

\* _select_units: never-searched units first, then the listing's order.
SelectUnits(units, retry, limit) ==
    LET due == Among(units, {u \in ToSet(units) : UnitDue(u, retry)})
        known == {u \in ToSet(units) : IdOf(u) \in DOMAIN retry}
        sorted == Among(due, ToSet(units) \ known) \o Among(due, known)
    IN SubSeq(sorted, 1, Least(limit, Len(sorted)))

OutcomeIs(c, o) == \E n \in DOMAIN searches : searches[n].cmd = c /\ searches[n].outcome = o
SearchesSince(t) == {s \in ToSet(searches) : s.ts >= t}
LogCutoff(span)  == IF now > span THEN now - span ELSE 0
\* _remaining_capacity: what the hourly cap leaves.
RemainingCapacity_PerRun == Cap
RemainingCapacity ==
    LET used == Cardinality(SearchesSince(LogCutoff(Hour))) IN IF used < Cap THEN Cap - used ELSE 0

(***************************************************************************)
(* A run                                                                   *)
(***************************************************************************)

Goto(place, r) == run' = [r EXCEPT !.at = place]
NextApp(r)  == IF Len(r.apps) = 1 THEN Idle ELSE [Idle EXCEPT !.at = "app", !.apps = Tail(r.apps)]
Continue(r) == Goto(IF r.todo = <<>> THEN "mode" ELSE "send", r)
ThisApp     == Head(run.apps)
ThisMode    == Head(run.modes)

\* The scheduled job takes every app, a manual run may name one.
Start(names) ==
    /\ run.at = "idle" /\ Goto("app", [Idle EXCEPT !.apps = names])
    /\ UNCHANGED <<now, tables, arrs, moves>>
JobDue == Start(AppOrder)
RunNow == \E a \in Apps : Start(<<a>>)

\* A history id is never used again. The variant counts the rows.
NextHistory_Reused(rows) == 1 + Cardinality(DOMAIN rows)
NextHistory(rows) == lastHistory + 1
Adds(unit, status) ==
    /\ history' = Update(history, NextHistory(history), [unit |-> unit, status |-> status, by |-> unit])
    /\ lastHistory' = NextHistory(history)
NoUnit == [app |-> "none", mode |-> "none", key |-> <<>>]

\* A failed or incompatible connection, and later any call of the app that
\* raises, skips the app and not the run; so does a long download queue.
SkipApp ==
    /\ run.at \in {"app", "queue", "fetch"}
    /\ Adds(NoUnit, "error")
    /\ run' = NextApp(run)
    /\ Move("fail")
    /\ UNCHANGED <<now, processed, searches, arrs>>

\* The compatibility check passed; the pending searches are read before the
\* Arr is asked about them.
BeginApp ==
    /\ run.at = "app"
    /\ LET mine == Among(searches, {s \in ToSet(searches) :
                                      s.unit.app = ThisApp /\ s.outcome = "pending"})
           pending == SubSeq(mine, 1, Least(LookupLimit, Len(mine)))
       IN Goto(IF pending = <<>> THEN "queue" ELSE "lookup", [run EXCEPT !.pending = pending])
    /\ UNCHANGED <<now, tables, arrs, moves>>

\* _finished_commands: the first n pending commands are read before a lookup
\* fails; the finished ones are kept.
ReadCommands ==
    /\ run.at = "lookup"
    /\ \E n \in 0..Len(run.pending) :
         /\ IF n = Len(run.pending) THEN UNCHANGED moves ELSE Move("fail")
         /\ LET read == SubSeq(run.pending, 1, n)
                done == Among(read, {s \in ToSet(read) : commands[s.cmd].status # "running"})
            IN Goto(IF done = <<>> THEN "queue" ELSE "resolve",
                    [run EXCEPT !.finished =
                        [k \in 1..Len(done) |-> [search |-> done[k], command |-> commands[done[k].cmd]]]])
    /\ UNCHANGED <<now, tables, arrs>>

\* classify: by the completion message while the Arr still holds it, else by
\* the grabs of the searched items between the command's start and the grace
\* after its end. The variant has no grace.
InWindow_NoGrace(g, command) == command.started <= g.at /\ g.at <= command.ended
InWindow(g, command) == command.started <= g.at /\ g.at <= command.ended + Grace
Classify_KeepPurged(command, message) ==
    IF command.status = "purged" THEN "pending"
    ELSE IF command.status = "failed" THEN "failed"
    ELSE IF command.grabbed > 0 THEN "grabbed" ELSE "not_found"
Classify(command, message) ==
    CASE command.status = "purged" -> "unknown"
      [] command.status = "failed" -> "failed"
      [] message -> IF command.grabbed > 0 THEN "grabbed" ELSE "not_found"
      [] OTHER -> IF \E g \in grabs : InWindow(g, command) /\ g.item \in Targets(command.unit)
                  THEN "grabbed" ELSE "not_found"

\* _apply_backoff: units pruned or reset since the search are left alone.
Backoff_Revive(p, s, outcome) ==
    LET old == IF s.unit \in DOMAIN p THEN p[s.unit].attempts ELSE 0 IN
    CASE outcome = "unknown"   -> p
      [] outcome = "grabbed"   -> Update(p, s.unit, [attempts |-> 0, due |-> s.ts + Delay(0)])
      [] outcome = "not_found" -> Update(p, s.unit, [attempts |-> old + 1, due |-> s.ts + Delay(old + 1)])
      [] OTHER                 -> Update(p, s.unit, [attempts |-> old, due |-> s.ts])
Backoff(p, s, outcome) ==
    IF s.unit \notin DOMAIN p \/ outcome = "unknown" THEN p
    ELSE LET old == p[s.unit].attempts IN
      [p EXCEPT ![s.unit] =
        CASE outcome = "grabbed"   -> [attempts |-> 0, due |-> s.ts + Delay(0)]
          [] outcome = "not_found" -> [attempts |-> old + 1, due |-> s.ts + Delay(old + 1)]
          [] OTHER                 -> [attempts |-> old, due |-> s.ts]]

\* The retry state after every finished search, the oldest first.
BackoffAll(done, outcome) ==
    LET p[k \in 0..Len(done)] ==
            IF k = 0 THEN processed ELSE Backoff(p[k - 1], done[k].search, outcome[k])
    IN p[Len(done)]

\* resolve_pending after its last await: one pass over the finished searches,
\* of which `kept' still have their completion message.
Resolve ==
    /\ run.at = "resolve"
    /\ \E kept \in SUBSET DOMAIN run.finished :
         LET done == run.finished
             outcome == [k \in DOMAIN done |-> Classify(done[k].command, k \in kept)]
             Of(id)   == {k \in DOMAIN done : done[k].search.id = id}
             Rewrites(h) == {k \in DOMAIN done : done[k].search.hist = h}
         IN /\ processed' = BackoffAll(done, outcome)
            /\ searches' = [n \in DOMAIN searches |-> [searches[n] EXCEPT !.outcome =
                   IF Of(searches[n].id) = {} THEN @
                   ELSE outcome[CHOOSE k \in Of(searches[n].id) : TRUE]]]
            /\ history' = [h \in DOMAIN history |->
                   IF Rewrites(h) = {} THEN history[h]
                   ELSE LET k == CHOOSE k \in Rewrites(h) : TRUE
                        IN [history[h] EXCEPT !.status = outcome[k], !.by = done[k].search.unit]]
    /\ Goto("queue", [run EXCEPT !.finished = <<>>, !.pending = <<>>])
    /\ UNCHANGED <<now, lastHistory, arrs, moves>>

\* The grab history could not be read: every search stays pending.
ResolveFails ==
    /\ run.at = "resolve"
    /\ Goto("queue", [run EXCEPT !.finished = <<>>, !.pending = <<>>])
    /\ Move("fail")
    /\ UNCHANGED <<now, tables, arrs>>

\* _run_app's loop: the cap is read before the mode's lists are fetched. A mode
\* that may send nothing is passed over.
EnterMode(r) ==
    LET Limit(k) == Least(ModeLimit[Head(r.apps), r.modes[k]], RemainingCapacity)
        open == {k \in DOMAIN r.modes : Limit(k) > 0}
    IN IF open = {} THEN NextApp(r)
       ELSE \* the first of them
            LET k == CHOOSE k \in open : \A l \in open : k <= l
            IN [r EXCEPT !.at = "fetch", !.limit = Limit(k), !.retry = <<>>,
                         !.modes = SubSeq(@, k, Len(@))]

\* The Arr's download queue is below the limit, or there is none.
QueueGuard ==
    /\ run.at = "queue"
    /\ run' = EnterMode([run EXCEPT !.modes = ModeOrder, !.pending = <<>>])
    /\ UNCHANGED <<now, tables, arrs, moves>>

NextMode ==
    /\ run.at = "mode"
    /\ run' = EnterMode([run EXCEPT !.modes = Tail(@)])
    /\ UNCHANGED <<now, tables, arrs, moves>>

\* _run_mode up to its first search: prune, read the retry state, select.  The
\* bound MaxCommands is kept here: a run selects no more than it leaves.
Fetch ==
    /\ run.at = "fetch"
    /\ \E items \in {NormaliseItems(WantedRecords(ThisApp, ThisMode))} :
       \E units \in {BuildUnits(ThisApp, ThisMode, items)} :
         LET listed == {u \in DOMAIN processed : u.app = ThisApp /\ u.mode = ThisMode}
             mine == listed \cap {IdOf(units[n]) : n \in DOMAIN units}
             retry == [u \in mine |-> processed[u]]
         IN /\ processed' = Without(processed, listed \ mine)
            /\ Continue([run EXCEPT !.retry = retry,
                   !.todo = SelectUnits(units, retry, Least(run.limit, MaxCommands - Len(commands)))])
    /\ UNCHANGED <<now, searches, history, lastHistory, arrs, moves>>

\* An Arr accepts the command.  For the properties it remembers whether the
\* unit had no retry state, and whether an earlier search of it was pending.
Accepts(u) ==
    /\ commands' = Append(commands,
           [unit |-> u, started |-> now, ended |-> now, status |-> "running", grabbed |-> 0,
            fresh |-> u \notin DOMAIN processed,
            overlaps |-> \E n \in DOMAIN searches :
                            searches[n].unit = u /\ searches[n].outcome = "pending"])
    /\ UNCHANGED <<file, grabs>>

\* The call is awaited: the Arr has the command before the run goes on.
Send ==
    /\ run.at = "send"
    /\ Accepts(IdOf(Head(run.todo)))
    /\ Goto("sent", run)
    /\ UNCHANGED <<now, tables, moves>>

\* The writes after the answer, each its own commit; none is awaited, but the
\* process may die between two of them. The retry state of a unit is inserted
\* if it is gone by now; its delay is of the count read before the calls.
MarkSearched(u, n) ==
    processed' = IF n < 1 THEN processed
                 ELSE Update(processed, u,
                        [attempts |-> IF u \in DOMAIN processed THEN processed[u].attempts ELSE 0,
                         due |-> now + Delay(IF u \in DOMAIN run.retry
                                             THEN run.retry[u].attempts ELSE 0)])
AddSent(u, n) == IF n < 2 THEN UNCHANGED <<history, lastHistory>> ELSE Adds(u, "sent")
LogSearch(u, n, outcome) ==
    searches' = IF n < 3 THEN searches
                ELSE LET rows == Append(searches,
                            [id |-> Len(commands), ts |-> now, unit |-> u, cmd |-> Len(commands),
                             hist |-> NextHistory(history), outcome |-> outcome])
                     IN Among(rows, {s \in ToSet(rows) : s.ts >= LogCutoff(Retention)})
Record(u, n, outcome) == MarkSearched(u, n) /\ AddSent(u, n) /\ LogSearch(u, n, outcome)

\* The Arr's answer; a command without an id cannot be followed up.
Answered ==
    /\ run.at = "sent"
    /\ LET u == IdOf(Head(run.todo)) IN
       \/ Record(u, 3, "pending") /\ UNCHANGED moves
       \/ Record(u, 3, "unknown") /\ Move("noid")
    /\ Continue([run EXCEPT !.todo = Tail(@)])
    /\ UNCHANGED <<now, arrs>>

\* The call raises: the Arr refused it, or took it and the answer was lost.
SendFails ==
    /\ run.at \in {"send", "sent"}
    /\ Move("fail")
    /\ Adds(IdOf(Head(run.todo)), "error")
    /\ Continue([run EXCEPT !.todo = Tail(@)])
    /\ UNCHANGED <<now, processed, searches, arrs>>

\* The process dies after n of the writes, or anywhere else in a run.
CrashInSend ==
    /\ run.at = "sent"
    /\ Move("crash")
    /\ \E n \in 1..2 : Record(IdOf(Head(run.todo)), n, "pending")
    /\ run' = Idle
    /\ UNCHANGED <<now, arrs>>
Crash ==
    /\ run.at # "idle" /\ Move("crash")
    /\ run' = Idle
    /\ UNCHANGED <<now, tables, arrs>>

RunStep ==
    \/ SkipApp \/ BeginApp \/ ReadCommands \/ Resolve \/ ResolveFails
    \/ QueueGuard \/ NextMode \/ Fetch \/ Send \/ Answered \/ SendFails

(***************************************************************************)
(* Users, time and the Arrs                                                *)
(***************************************************************************)

\* A reset and a clear each leave an audit row, which takes an id.
ResetState ==
    /\ Move("reset")
    /\ processed' = <<>>
    /\ Adds(NoUnit, "success")
    /\ UNCHANGED <<now, searches, arrs, run>>

Audit  == [unit |-> NoUnit, status |-> "success", by |-> NoUnit]
ClearHistory ==
    /\ Move("clear")
    /\ LET id == NextHistory(<<>>) IN
       /\ history' = [h \in {id} |-> Audit]
       /\ lastHistory' = id
    /\ UNCHANGED <<now, processed, searches, arrs, run>>

Tick ==
    /\ now < MaxTime /\ now' = now + 1
    /\ UNCHANGED <<tables, arrs, run, moves>>

\* A running command that a run will ask about ends; it grabbed one of its
\* targets or nothing. What it grabbed is in the Arr's history when the Arr
\* shows it as ended, dated by then: no longer than the grace after its end.
CommandEnds(c) ==
    /\ commands[c].status = "running" /\ OutcomeIs(c, "pending")
    /\ \E end \in commands[c].started..now :
         /\ now <= end + Grace
         /\ \/ /\ \E s \in Endings :
                    commands' = [commands EXCEPT ![c].status = s, ![c].ended = end]
               /\ UNCHANGED <<grabs, file>>
            \/ \E i \in Targets(commands[c].unit) :
                 /\ commands' = [commands EXCEPT ![c].status = "completed", ![c].ended = end,
                                                 ![c].grabbed = 1]
                 /\ grabs' = grabs \cup {[item |-> i, at |-> now]}
                 /\ UNCHANGED file
    /\ UNCHANGED <<now, tables, run, moves>>

\* Sonarr and Radarr grab on their own (RSS), and import.
FileChanges(i) ==
    /\ Move("file")
    /\ \/ grabs' = grabs \cup {[item |-> i, at |-> now]} /\ UNCHANGED file
       \/ /\ \E s \in FileStates \ {file[i]} : file' = [file EXCEPT ![i] = s]
          /\ UNCHANGED grabs
    /\ UNCHANGED <<now, tables, commands, run>>

Environment ==
    \/ ResetState \/ ClearHistory \/ Tick \/ Crash \/ CrashInSend
    \/ \E c \in DOMAIN commands : CommandEnds(c)
    \/ \E i \in Items : FileChanges(i)

Next == JobDue \/ RunNow \/ RunStep \/ Environment

Spec == Init /\ [][Next]_vars

\* The interval trigger fires again and again and the gate lets its run in, a
\* run goes on, commands end, and lookups do not fail for ever.
FairSpec ==
    /\ Spec
    /\ SF_vars(JobDue) /\ WF_vars(RunStep) /\ SF_vars(Resolve)
    /\ \A c \in 1..MaxCommands : WF_vars(c \in DOMAIN commands /\ CommandEnds(c))

(***************************************************************************)
(* Properties                                                              *)
(***************************************************************************)

SentSince(t) == {c \in DOMAIN commands : commands[c].started >= t}
Logged(c) == \E n \in DOMAIN searches : searches[n].cmd = c

\* Whatever is in flight, cleared, reset or restarted, the Arrs get no more
\* searches in an hour than the cap, plus those the program could not log: a
\* lost answer and a death before findarr_log_search.
CapKept == Cardinality(SentSince(LogCutoff(Hour))) <= Cap + moves["fail"] + moves["crash"]

\* A later search of the same unit, its retry state not dropped in between.
Repeats(i, j) ==
    /\ i < j /\ commands[i].unit = commands[j].unit
    /\ \A m \in i + 1..j : commands[m].unit = commands[j].unit => ~commands[m].fresh
Delayed(i, j) == commands[j].started >= commands[i].started + Base

\* A unit searched and logged is not searched again within the base delay,
\* unless its retry state was dropped (reset, pruned) or its search failed;
\* and not if an earlier search of the unit was still pending when it was sent.
RetryKept ==
    \A i, j \in DOMAIN commands :
        (Repeats(i, j) /\ Logged(i) /\ ~OutcomeIs(i, "failed") /\ ~commands[i].overlaps)
        => Delayed(i, j)

\* The same without the last exception, as backoff.py states it.
RetryDelayKept ==
    \A i, j \in DOMAIN commands :
        (Repeats(i, j) /\ Logged(i) /\ ~OutcomeIs(i, "failed")) => Delayed(i, j)

\* A search's outcome is written to its own History row and no other, even when
\* the log was cleared and filled again in between.
OutcomeOnOwnRow == \A h \in DOMAIN history : history[h].by = history[h].unit

\* "Found nothing" is never said of a command that grabbed a release. A grab is
\* credited only to a command that ran while it happened, or had ended no longer
\* than the grace before it: within the grace that may be the grab of another.
VerdictTrue ==
    \A n \in DOMAIN searches :
        LET c == commands[searches[n].cmd] IN
        /\ searches[n].outcome = "not_found" => c.grabbed = 0
        /\ searches[n].outcome = "grabbed" =>
             \E g \in grabs : g.item \in Targets(c.unit) /\ c.started <= g.at /\ g.at <= c.ended + Grace

\* outcomes.py:13: "a grabbed event for one of the command's searched items
\* between the command's start and end means the search grabbed a release". So
\* a command is credited with its own grab, or with one made while it ran.
GrabbedWhileRunning ==
    \A n \in DOMAIN searches :
        LET c == commands[searches[n].cmd] IN
        searches[n].outcome = "grabbed" =>
            \/ c.grabbed > 0
            \/ \E g \in grabs : g.item \in Targets(c.unit) /\ c.started <= g.at /\ g.at <= c.ended

\* After a reset the retry state of a unit comes back only with a search of it,
\* and with no count of earlier ones: what was read back before the reset, or
\* is still pending, brings none back. The search may be one that the Arr had
\* when the reset came and whose answer was awaited.
ResetStays ==
    [][\A u \in DOMAIN processed' \ DOMAIN processed :
          /\ run.at = "sent" /\ u = IdOf(Head(run.todo)) /\ commands[Len(commands)].unit = u
          /\ processed'[u].attempts = 0]_vars

\* engine.py:123: a reset clears "every unit's retry delay and backoff", so a
\* unit searched after it waits the base delay.
ResetForgets ==
    [][\A u \in DOMAIN processed' \ DOMAIN processed : processed'[u].due <= now + Delay(0)]_vars

\* Every search the program logged gets an outcome in the end.
OutcomeKnown ==
    \A c \in 1..MaxCommands : OutcomeIs(c, "pending") ~> ~OutcomeIs(c, "pending")
=============================================================================
