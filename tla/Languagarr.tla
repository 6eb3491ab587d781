----------------------------- MODULE Languagarr -----------------------------
(***************************************************************************)
(* The languagarr module: scans of Sonarr's anime files, the queue of      *)
(* replacement searches in SQLite, the worker that re-reads every file     *)
(* before it searches, and the reviewed "Delete & search".                 *)
(*                                                                         *)
(* All four go through one gate, used here as FifoGate promises; queueing  *)
(* and clearing by hand do not.  A task is always at a call it awaits: a   *)
(* Serve step of Sonarr answers it, and a Resume step takes the task to    *)
(* its next call.                                                          *)
(*                                                                         *)
(* An operator Name_Fault just before Name is Name with a plausible bug in *)
(* it; the specification does not use it.                                  *)
(***************************************************************************)
EXTENDS Naturals, FiniteSets, Sequences, SequencesExt

CONSTANTS
    Files,           \* episode files by id, each one a series of its own
    Scheduled,       \* the scheduled languagarr_job
    Runners,         \* "Run a batch now" requests
    Scanners,        \* "Scan" requests
    Deleters,        \* "Delete & search" requests
    Nobody,          \* nobody holds the gate
    NoFile,          \* a task works on no file
    SearchesPerRun,  \* setting: the size of a batch
    MaxFaults,       \* bound: calls that fail
    MaxCrashes,      \* bound: restarts of the process
    Disturb          \* which moves of users and Sonarr a run allows

Workers == Scheduled \cup Runners
Tasks   == Workers \cup Scanners \cup Deleters

ASSUME LanguagarrAssumption ==
    /\ Files \subseteq Nat
    /\ Scheduled \cap Runners = {} /\ Scanners \cap Deleters = {}
    /\ Workers \cap (Scanners \cup Deleters) = {}
    /\ Nobody \notin Tasks /\ NoFile \notin Files
    /\ SearchesPerRun \in Nat \ {0} /\ MaxFaults \in Nat /\ MaxCrashes \in Nat

VARIABLES
    rows, order,     \* SQLite: the queue's statuses; pending files by queued_at
    settings,        \* settings store
    results,         \* ScanState.results: the recommended action of each file
    file,            \* Sonarr: the state of each file
    inScope,         \* Sonarr: files whose series Scope.includes
    monitored,       \* Sonarr: files with a monitored episode
    asked,           \* Sonarr: files a search was accepted for
    gate, queue,     \* ctx.languagarr_gate
    at, loc,         \* the call each task awaits, and its local variables
    faults, crashes

sonarr == <<file, inScope, monitored, asked>>
db     == <<rows, order>>
sync   == <<gate, queue>>
task   == <<at, loc>>
budget == <<faults, crashes>>
vars   == <<rows, order, settings, results, file, inScope, monitored, asked,
            gate, queue, at, loc, faults, crashes>>

\* "recent": searched within retry_after_hours; "old": before that.
Statuses == {"absent", "pending", "recent", "old", "failed"}
Settings == [enabled : BOOLEAN, autoQueue : BOOLEAN, monitoredOnly : BOOLEAN]
Actions  == {"none", "search", "delete"}

\* "below" and "above" lack a target language, with a score below the cutoff or
\* not; "unknown" has no audio data; a replaced file comes back under a new id.
FileStates == {"below", "above", "unknown", "compliant", "gone"}

Calls   == {"scope", "audit", "file", "series", "episodes", "delete", "search"}
Places  == {"idle", "queued", "ready"} \cup Calls
Replies == {"none", "yes", "no", "error"}

\* `fresh' remembers, for the properties, whether the file was monitored when it
\* was last re-read.
Locals == [todo : Seq(Files), unread : SUBSET Files, found : [Files -> Actions],
           cur : Files \cup {NoFile}, strict : BOOLEAN, gone : SUBSET Files,
           reply : Replies, fresh : BOOLEAN]

NoResults == [f \in Files |-> "none"]
Fresh == [todo |-> <<>>, unread |-> {}, found |-> NoResults, cur |-> NoFile,
          strict |-> FALSE, gone |-> {}, reply |-> "none", fresh |-> FALSE]

Queued == {f \in Files : rows[f] = "pending"}

TypeOK ==
    /\ rows \in [Files -> Statuses]
    /\ order \in Seq(Files) /\ ToSet(order) = Queued /\ IsInjective(order)
    /\ settings \in Settings
    /\ results \in [Files -> Actions]
    /\ file \in [Files -> FileStates]
    /\ inScope \subseteq Files /\ monitored \subseteq Files /\ asked \subseteq Files
    /\ gate \in Tasks \cup {Nobody} /\ queue \in Seq(Tasks)
    /\ at \in [Tasks -> Places] /\ loc \in [Tasks -> Locals]
    /\ faults \in 0..MaxFaults /\ crashes \in 0..MaxCrashes

Gate == INSTANCE FifoGate WITH Runs <- Tasks, holder <- gate

Init ==
    /\ rows = [f \in Files |-> "absent"] /\ order = <<>>
    /\ settings \in [enabled : {TRUE}, autoQueue : BOOLEAN, monitoredOnly : BOOLEAN]
    /\ results = NoResults
    /\ file \in [Files -> {"below", "above"}]
    /\ inScope = Files /\ monitored = Files /\ asked = {}
    /\ Gate!Init
    /\ at = [p \in Tasks |-> "idle"] /\ loc = [p \in Tasks |-> Fresh]
    /\ faults = 0 /\ crashes = 0

Goto(p, place, l) ==
    /\ at'  = [at EXCEPT ![p] = place]
    /\ loc' = [loc EXCEPT ![p] = l]
Await(p, call, l) == Goto(p, call, [l EXCEPT !.reply = "none"])
Answered(p, call) == at[p] = call /\ loc[p].reply # "none"
Asked(p, call)    == at[p] = call /\ loc[p].reply = "none"

(***************************************************************************)
(* The queue's table                                                       *)
(***************************************************************************)

Without(s, fs) == SelectSeq(s, LAMBDA f : f \notin fs)
Ascending(fs)  == SetToSortSeq(fs, <)

\* Neither a pending file nor one searched within the retry window is queued.
Skipped(f) == rows[f] \in {"pending", "recent"}

\* languagarr_enqueue: one transaction, one queued_at.
Enqueue(fs) ==
    /\ rows'  = [f \in Files |-> IF f \in fs THEN "pending" ELSE rows[f]]
    /\ order' = order \o Ascending({f \in fs : rows[f] # "pending"})

\* languagarr_mark_attempt updates a row that may have been cleared meanwhile.
Mark(f, status) ==
    /\ rows'  = [rows EXCEPT ![f] = IF @ = "absent" THEN @ ELSE status]
    /\ order' = Without(order, {f})

\* Rows are deleted by a scan, by a resolved search and by hand.
Drop(fs) ==
    /\ rows'  = [f \in Files |-> IF f \in fs THEN "absent" ELSE rows[f]]
    /\ order' = Without(order, fs)

\* languagarr_next_pending: the oldest rows.
NextPending(o) == SubSeq(o, 1, IF Len(o) < SearchesPerRun THEN Len(o) ELSE SearchesPerRun)

(***************************************************************************)
(* The gate                                                                *)
(***************************************************************************)

Admit_Ungated(p) == UNCHANGED sync
Admit(p) == Gate!Take(p)

\* SyncGate.run waits; SyncGate.try_run has looked at the lock before.  The
\* body of the run starts in a step of its own.
EnterGate(p, todo) ==
    /\ at[p] = "idle"
    /\ \/ Admit(p) /\ Goto(p, "ready", [Fresh EXCEPT !.todo = todo])
       \/ /\ gate # Nobody \/ queue # <<>>
          /\ Gate!Enter(p) /\ Goto(p, "queued", [Fresh EXCEPT !.todo = todo])
    /\ UNCHANGED <<db, settings, results, sonarr, budget>>

JobDue(p)  == EnterGate(p, <<>>)
RunNow(p)  == gate = Nobody /\ EnterGate(p, <<>>)
ScanNow(p) == gate = Nobody /\ EnterGate(p, <<>>)
DeleteNow(p, fs) == gate = Nobody /\ EnterGate(p, Ascending(fs))

Grant ==
    /\ Gate!Grant
    /\ at' = [at EXCEPT ![Head(queue)] = "ready"]
    /\ UNCHANGED <<db, settings, results, sonarr, loc, budget>>

Leave(p) == gate' = Nobody /\ UNCHANGED queue /\ Goto(p, "idle", Fresh)

\* _scope reads the settings, then awaits the quality profiles.
AwaitScope(p, l) ==
    /\ Await(p, "scope", [l EXCEPT !.strict = settings.monitoredOnly])
    /\ UNCHANGED sync

\* _process_pending takes its batch before it awaits the scope.
BeginBatch(p, pending) ==
    IF pending = <<>> THEN Leave(p)
    ELSE AwaitScope(p, [Fresh EXCEPT !.todo = NextPending(pending)])

BeginScan(p) == AwaitScope(p, [Fresh EXCEPT !.unread = Files])

Start(p) ==
    /\ at[p] = "ready"
    /\ \/ p \in Scheduled /\ ~settings.enabled /\ Leave(p)
       \/ p \in Scheduled /\ settings.enabled /\ settings.autoQueue /\ BeginScan(p)
       \/ p \in Scheduled /\ settings.enabled /\ ~settings.autoQueue /\ BeginBatch(p, order)
       \/ p \in Runners /\ BeginBatch(p, order)
       \/ p \in Scanners /\ BeginScan(p)
       \/ p \in Deleters /\ AwaitScope(p, loc[p])
    /\ UNCHANGED <<db, settings, results, sonarr, budget>>

(***************************************************************************)
(* The scan                                                                *)
(***************************************************************************)

\* What a scan does with a file of a scoped series: "unknown" ones are listed
\* apart, compliant ones and those without a searchable episode are left out.
Verdict(f, strict) ==
    IF strict /\ f \notin monitored THEN "none"
    ELSE CASE file[f] = "below" -> "search"
           [] file[f] = "above" -> "delete"
           [] OTHER             -> "none"

\* All series were read: the results are published, rows of other files pruned;
\* the scheduled run queues what a search can fix and goes on with a batch.
Publish(p) ==
    LET found  == loc[p].found
        stale  == {f \in Files : found[f] = "none"}
        fixed  == {f \in Files : found[f] = "search" /\ ~Skipped(f)}
        extra  == IF p \in Scheduled THEN fixed ELSE {}
        order2 == Without(order, stale) \o Ascending(extra)
    IN  /\ at[p] = "audit" /\ loc[p].unread = {} /\ loc[p].reply # "error"
        /\ results' = found
        /\ rows' = [f \in Files |-> IF f \in stale THEN "absent"
                                    ELSE IF f \in extra THEN "pending" ELSE rows[f]]
        /\ order' = order2
        /\ IF p \in Scheduled THEN BeginBatch(p, order2) ELSE Leave(p)
        /\ UNCHANGED <<settings, sonarr, budget>>

\* A partial scan is never published, and the run ends with it.
ScanFailed(p) ==
    /\ at[p] = "audit" /\ loc[p].reply = "error"
    /\ Leave(p)
    /\ UNCHANGED <<db, settings, results, sonarr, budget>>

(***************************************************************************)
(* The worker and the reviewed delete                                      *)
(***************************************************************************)

\* Go on with the first file of ts; a deleter skips what no scan has listed.
NextFile(p, l, ts) ==
    LET rest == IF p \in Deleters THEN SelectSeq(ts, LAMBDA f : results[f] # "none") ELSE ts
    IN  IF rest = <<>>
        THEN /\ Leave(p)
             /\ results' = [f \in Files |-> IF f \in l.gone THEN "none" ELSE results[f]]
        ELSE /\ Await(p, "file", [l EXCEPT !.todo = Tail(rest), !.cur = Head(rest), !.fresh = FALSE])
             /\ UNCHANGED <<results, sync>>
Proceed(p) == NextFile(p, loc[p], loc[p].todo)

ResumeScope(p) ==
    LET me == loc[p] IN
    /\ Answered(p, "scope")
    /\ \/ me.reply = "error" /\ Leave(p) /\ UNCHANGED results
       \/ /\ me.reply = "yes" /\ me.unread # {}
          /\ Await(p, "audit", [me EXCEPT !.unread = inScope]) /\ UNCHANGED <<results, sync>>
       \/ me.reply = "yes" /\ me.unread = {} /\ Proceed(p)
    /\ UNCHANGED <<db, settings, sonarr, budget>>

\* The worker has re-read what makes a search pointless: the row goes.
Resolve(p) == Drop({loc[p].cur}) /\ Proceed(p)

MarkFailed_AsSearched(p) == Mark(loc[p].cur, "recent") /\ Proceed(p)
MarkFailed(p) == Mark(loc[p].cur, "failed") /\ Proceed(p)

\* Spared: the deleter leaves the file and the queue alone.
Refused(p) ==
    IF p \in Deleters THEN Proceed(p) /\ UNCHANGED db
    ELSE IF loc[p].reply = "error" THEN MarkFailed(p) ELSE Resolve(p)

ResumeFile(p) ==
    /\ Answered(p, "file")
    /\ \/ loc[p].reply # "yes" /\ Refused(p)
       \/ /\ loc[p].reply = "yes"
          /\ Await(p, "series", loc[p]) /\ UNCHANGED <<db, results, sync>>
    /\ UNCHANGED <<settings, sonarr, budget>>

\* With monitored_only the worker asks for the file's episodes as well.
NeedsEpisodes_Never(p) == FALSE
NeedsEpisodes(p) == p \in Workers /\ loc[p].strict

ResumeSeries(p) ==
    /\ Answered(p, "series")
    /\ \/ loc[p].reply # "yes" /\ Refused(p)
       \/ /\ loc[p].reply = "yes"
          /\ Await(p, IF NeedsEpisodes(p) THEN "episodes"
                      ELSE IF p \in Deleters THEN "delete" ELSE "search", loc[p])
          /\ UNCHANGED <<db, results, sync>>
    /\ UNCHANGED <<settings, sonarr, budget>>

ResumeEpisodes(p) ==
    /\ Answered(p, "episodes")
    /\ \/ loc[p].reply # "yes" /\ Refused(p)
       \/ /\ loc[p].reply = "yes"
          /\ Await(p, "search", loc[p]) /\ UNCHANGED <<db, results, sync>>
    /\ UNCHANGED <<settings, sonarr, budget>>

\* The deleted file is queued before its search is sent, whatever was tried before.
ResumeDelete(p) ==
    LET me == loc[p] IN
    /\ Answered(p, "delete")
    /\ \/ me.reply = "error" /\ Refused(p)
       \/ /\ me.reply = "yes"
          /\ Enqueue({me.cur})
          /\ Await(p, "search", [me EXCEPT !.gone = @ \cup {me.cur}])
          /\ UNCHANGED <<results, sync>>
    /\ UNCHANGED <<settings, sonarr, budget>>

ResumeSearch(p) ==
    /\ Answered(p, "search")
    /\ \/ loc[p].reply = "yes" /\ Mark(loc[p].cur, "recent") /\ Proceed(p)
       \/ loc[p].reply = "error" /\ MarkFailed(p)
    /\ UNCHANGED <<settings, sonarr, budget>>

(***************************************************************************)
(* Sonarr answers                                                          *)
(***************************************************************************)

Reply(p, r) == loc' = [loc EXCEPT ![p].reply = r] /\ UNCHANGED at
YesNo(b) == IF b THEN "yes" ELSE "no"

\* The worker searches for every file that is not compliant, the deleter
\* removes only what is known to lack the language.
StillFlagged(p, f) ==
    file[f] \in IF p \in Deleters THEN {"below", "above"} ELSE {"below", "above", "unknown"}

Serve(p) ==
    LET f == loc[p].cur IN
    /\ \/ Asked(p, "scope") /\ Reply(p, "yes") /\ UNCHANGED sonarr
       \/ /\ Asked(p, "audit")
          /\ \E g \in loc[p].unread :
               loc' = [loc EXCEPT ![p].unread = @ \ {g},
                                  ![p].found[g] = Verdict(g, loc[p].strict)]
          /\ UNCHANGED <<sonarr, at>>
       \/ Asked(p, "file") /\ Reply(p, YesNo(StillFlagged(p, f))) /\ UNCHANGED sonarr
       \/ /\ \/ Asked(p, "series")
             \/ Asked(p, "episodes")
          /\ loc' = [loc EXCEPT
                ![p].reply = YesNo(f \in IF at[p] = "series" THEN inScope ELSE monitored),
                ![p].fresh = f \in monitored]
          /\ UNCHANGED <<sonarr, at>>
       \/ /\ Asked(p, "delete")
          /\ Reply(p, IF file[f] = "gone" THEN "error" ELSE "yes")
          /\ file' = [file EXCEPT ![f] = "gone"]
          /\ UNCHANGED <<inScope, monitored, asked>>
       \/ /\ Asked(p, "search") /\ Reply(p, "yes")
          /\ asked' = asked \cup {f}
          /\ UNCHANGED <<file, inScope, monitored>>
    /\ UNCHANGED <<db, settings, results, sync, budget>>

\* A call fails before Sonarr acts on it, or its answer is lost.
Fail(p) ==
    /\ at[p] \in Calls /\ loc[p].reply = "none"
    /\ at[p] = "audit" => loc[p].unread # {}
    /\ faults < MaxFaults /\ faults' = faults + 1
    /\ Reply(p, "error")
    /\ \/ UNCHANGED sonarr
       \/ /\ at[p] = "search" /\ asked' = asked \cup {loc[p].cur}
          /\ UNCHANGED <<file, inScope, monitored>>
       \/ /\ at[p] = "delete" /\ file' = [file EXCEPT ![loc[p].cur] = "gone"]
          /\ UNCHANGED <<inScope, monitored, asked>>
    /\ UNCHANGED <<db, settings, results, sync, crashes>>

(***************************************************************************)
(* Users, Sonarr on its own, time and crashes                              *)
(***************************************************************************)

May(what) == what \in Disturb

\* enqueue and clear_pending await nothing and are not under the gate.
EnqueueNow(fs) ==
    /\ fs # {} /\ \A f \in fs : results[f] # "none" /\ ~Skipped(f)
    /\ Enqueue(fs)
    /\ UNCHANGED <<settings, results, sonarr, sync, task, budget>>

ClearPending ==
    /\ May("clear") /\ order # <<>>
    /\ Drop(Queued)
    /\ UNCHANGED <<settings, results, sonarr, sync, task, budget>>

UpdateSettings ==
    /\ May("settings")
    /\ settings' \in Settings \ {settings}
    /\ UNCHANGED <<db, results, sonarr, sync, task, budget>>

\* The retry window of a searched file passes.
WindowElapses(f) ==
    /\ rows[f] = "recent"
    /\ rows' = [rows EXCEPT ![f] = "old"]
    /\ UNCHANGED <<order, settings, results, sonarr, sync, task, budget>>

\* A better release is imported, the audio is read anew, the score changes.
FileChanges(f, s) ==
    /\ May(s) /\ file[f] \notin {s, "gone"}
    /\ file' = [file EXCEPT ![f] = s]
    /\ UNCHANGED <<db, settings, results, inScope, monitored, asked, sync, task, budget>>

\* The user monitors episodes, or moves a series to another profile.
Unmonitor(f) ==
    /\ May("monitor")
    /\ monitored' = IF f \in monitored THEN monitored \ {f} ELSE monitored \cup {f}
    /\ UNCHANGED <<db, settings, results, file, inScope, asked, sync, task, budget>>

Reprofile(f) ==
    /\ May("profile")
    /\ inScope' = IF f \in inScope THEN inScope \ {f} ELSE inScope \cup {f}
    /\ UNCHANGED <<db, settings, results, file, monitored, asked, sync, task, budget>>

\* The queue and the settings survive; the results and the tasks do not.
Crash ==
    /\ crashes < MaxCrashes /\ crashes' = crashes + 1
    /\ Gate!Restart
    /\ at' = [p \in Tasks |-> "idle"] /\ loc' = [p \in Tasks |-> Fresh]
    /\ results' = NoResults
    /\ UNCHANGED <<db, settings, sonarr, faults>>

(***************************************************************************)
(* The specification                                                       *)
(***************************************************************************)

TaskStep(p) ==
    \/ Start(p) \/ Publish(p) \/ ScanFailed(p)
    \/ ResumeScope(p) \/ ResumeFile(p) \/ ResumeSeries(p) \/ ResumeEpisodes(p)
    \/ ResumeDelete(p) \/ ResumeSearch(p)

Environment ==
    \/ \E fs \in SUBSET Files : EnqueueNow(fs)
    \/ \E f \in Files : WindowElapses(f) \/ Unmonitor(f) \/ Reprofile(f)
    \/ \E f \in Files, s \in FileStates : FileChanges(f, s)
    \/ ClearPending \/ UpdateSettings

Next ==
    \/ \E p \in Scheduled : JobDue(p)
    \/ \E p \in Runners : RunNow(p)
    \/ \E p \in Scanners : ScanNow(p)
    \/ \E p \in Deleters, fs \in SUBSET Files \ {{}} : DeleteNow(p, fs)
    \/ Grant
    \/ \E p \in Tasks : TaskStep(p) \/ Serve(p) \/ Fail(p)
    \/ Environment
    \/ Crash

\* The interval trigger fires for ever, the loop resumes ready tasks, the first
\* in the gate's queue included, and every call is answered or times out.
Fairness ==
    /\ \A p \in Scheduled : SF_vars(JobDue(p))
    /\ SF_vars(Grant)
    /\ \A p \in Tasks : SF_vars(TaskStep(p) \/ Serve(p) \/ Fail(p))

Spec == Init /\ [][Next]_vars
FairSpec == Spec /\ Fairness
-----------------------------------------------------------------------------
(***************************************************************************)
(* Properties                                                              *)
(***************************************************************************)

\* Whoever awaits a call holds the gate, and every way out of a scan, a batch
\* or a delete leaves it (LanguagarrService.gate).
OneAtATime == \A p \in Tasks : at[p] \notin {"idle", "queued"} <=> gate = p

\* The row a worker searches for is nobody else's: it is still pending, or the
\* user cleared it, but no other run has searched or failed it in between.
BatchIsOurs ==
    \A p \in Workers : at[p] = "search" => rows[loc[p].cur] \in {"pending", "absent"}

\* A row says "searched" only of a file that Sonarr took a search for, whatever
\* was cleared, queued again, lost or restarted meanwhile.
SearchedWasAsked == \A f \in Files : rows[f] \in {"recent", "old"} => f \in asked

\* With monitored_only the worker searches only for a file that was monitored
\* when it re-read it (worker.py: "the only thing standing between a stale row
\* and a replacement the user did not want").
SearchedWasMonitored ==
    \A p \in Workers : at[p] = "search" /\ loc[p].strict => loc[p].fresh

\* Every pending row is worked off while the worker is enabled, however many
\* other files are queued again and whoever else uses the gate.
PendingWorkedOff ==
    <>[]settings.enabled => \A f \in Files : rows[f] = "pending" ~> rows[f] # "pending"

\* Every scan, batch and delete comes to its end.
EveryRunEnds == \A p \in Tasks : at[p] # "idle" ~> at[p] = "idle"

\* A file "unmonitored since the scan is never removed" (engine.py:548-549):
\* the deleter deletes only what was monitored when it re-read it.
DeletedWasMonitored ==
    \A p \in Deleters : at[p] = "delete" /\ loc[p].strict => loc[p].fresh
=============================================================================
