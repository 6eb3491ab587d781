------------------------------- MODULE Cleanarr -------------------------------
(***************************************************************************)
(* The cleanarr module's queue cleaning: a run strikes the downloads of    *)
(* Sonarr and Radarr that fail, forgets the strikes of those that          *)
(* recovered or left, and removes (in a dry run: reports) those with       *)
(* MaxStrikes strikes, at most Cap of them.                                *)
(*                                                                         *)
(* Runs, the clearing of strikes and the Ignore button go through one gate *)
(* and exclude each other; the settings and the Arrs change at any time.   *)
(*                                                                         *)
(* An operator Name_Fault just before Name is Name with a plausible bug in *)
(* it; the specification does not use it.                                  *)
(***************************************************************************)
EXTENDS Naturals, FiniteSets, Sequences, SequencesExt, Functions, SeqFilter

CONSTANTS
    AppOrder,        \* APPS, the apps in the order a run takes them
    DownloadOrder,   \* every download, in the queues' order
    AppOf,           \* the app of a download
    Records, DownloadOf,  \* queue records (one per episode), and their download
    Usenet,          \* records of the usenet protocol
    Matching,        \* failed-import records whose message matches a pattern
    PatternMode,     \* setting: "include" or "exclude"
    TitleIgnored,    \* records whose title the ignore list matches
    CategoryChoices, \* setting: the downloads whose category it ignores
    IgnoreLimit,     \* how many download ids the ignore list holds
    MaxStrikes, Cap, \* settings: max_strikes, max_removals_per_run
    StartDry, StartJobs, StartStates,  \* dry_run, SABnzbd's jobs and the queue
                                       \* at the start: of these
    RecordStates,    \* which states of AllRecordStates occur in a run
    Defects,         \* how a record may be read badly: a subset of AllDefects
    StrikeTop, MaxEntries, MaxMoves, Allowed  \* bounds: strikes (they saturate),
        \* times a record is queued, moves of the world together and each
Downloads == ToSet(DownloadOrder)
Apps == ToSet(AppOrder)

\* trackedDownloadState: "ok" stands for every healthy one, "blocked" for the
\* import failures, "failed" for the download failures; "out": not queued.
AllRecordStates == {"out", "ok", "blocked", "failed"}
\* No usable id; no usable downloadId but a folder; neither, or paged short.
AllDefects == {"no id", "folder only", "lost"}
JobStates  == {"none", "Failed", "Completed"}

ASSUME CleanarrAssumption ==
    /\ AppOrder \in Seq(Apps) /\ AppOrder # <<>>
    /\ DownloadOrder \in Seq(Downloads) /\ IsInjective(DownloadOrder)
    /\ DownloadOf \in [Records -> Downloads]
    /\ MaxStrikes \in Nat \ {0} /\ Cap \in Nat \ {0} /\ IgnoreLimit \in Nat
    /\ RecordStates \cup StartStates \subseteq AllRecordStates /\ StartJobs \subseteq JobStates
    /\ Defects \subseteq AllDefects
    /\ StrikeTop \in Nat /\ StrikeTop > MaxStrikes /\ MaxEntries \in Nat /\ MaxMoves \in Nat
    /\ CategoryChoices \subseteq SUBSET Downloads
    /\ Allowed \in [{"world", "job", "outage", "skip", "defect", "refuse", "crash", "user"} -> Nat]
    /\ StartDry \subseteq BOOLEAN /\ PatternMode \in {"include", "exclude"}

VARIABLES
    state, entry,  \* the Arrs: each record's state, and its queue id (how
                   \* often it was queued)
    job,           \* SABnzbd's history: the state of each download's job
    ignored,       \* setting: the ignored download ids
    categories,    \* setting: the downloads in an ignored category
    dryRun,        \* setting: dry_run
    strikes,       \* cleanarr_strikes, oldest first_seen_at first
    run,           \* the run's place and local variables
    shown,         \* how many runs saw a download fail since it was last seen well
    reported,      \* would_remove entries since the download's row was added
    acked,         \* downloads whose Ignore was answered, while still ignored
    moves          \* how often each bounded move was made

world    == <<state, entry, job>>
settings == <<ignored, categories, dryRun, acked>>
ghosts   == <<shown, reported>>
vars     == <<state, entry, job, ignored, categories, dryRun, strikes, run, shown, reported, acked, moves>>

Unknown == [d \in Downloads |-> "unknown"]
Idle == [at |-> "idle", apps |-> <<>>, history |-> Unknown, ignored |-> {}, categories |-> {}, dry |-> FALSE,
         struck |-> {}, due |-> <<>>, left |-> {}, calls |-> 0]

Init ==
    /\ state \in [Records -> StartStates]
    /\ entry = [r \in Records |-> IF state[r] = "out" THEN 0 ELSE 1]
    /\ job \in [Downloads -> StartJobs]
    /\ ignored = {} /\ categories \in CategoryChoices /\ dryRun \in StartDry /\ acked = {}
    /\ strikes = <<>> /\ run = Idle
    /\ shown = [d \in Downloads |-> 0] /\ reported = [d \in Downloads |-> 0]
    /\ moves = [m \in DOMAIN Allowed |-> 0]

Least(a, b) == IF a < b THEN a ELSE b
Move(m) ==
    /\ moves[m] < Allowed[m]
    /\ FoldSet(LAMBDA x, n : n + moves[x], 0, DOMAIN Allowed) < MaxMoves
    /\ moves' = [moves EXCEPT ![m] = @ + 1]
RecordsOf(d) == {r \in Records : DownloadOf[r] = d}
Queued(d)    == {r \in RecordsOf(d) : state[r] # "out"}
Struck       == {strikes[n].download : n \in DOMAIN strikes}
RowOf(d)     == strikes[CHOOSE n \in DOMAIN strikes : strikes[n].download = d]
Without(rows, ds) == Among(rows, {w \in ToSet(rows) : w.download \notin ds})

(***************************************************************************)
(* Decisions on one read                                                   *)
(***************************************************************************)

\* read_queue: the records with a usable downloadId, those of them with a
\* usable id, the downloads whose folder another record names, and whether
\* every record could be tied to one of them.  At most one is read badly.
BadRead(all, r, defect) ==
    [items |-> IF defect = "no id" THEN all ELSE all \ {r}, usable |-> all \ {r},
     folders |-> IF defect = "folder only" THEN {DownloadOf[r]} ELSE {},
     complete |-> defect # "lost"]
QueueReads(a) ==
    LET all == UNION {Queued(d) : d \in {x \in Downloads : AppOf[x] = a}} IN
    [whole  |-> {[items |-> all, usable |-> all, folders |-> {}, complete |-> TRUE]},
     broken |-> {BadRead(all, r, defect) : r \in all, defect \in Defects}]

HistoryKnown(h) == h # Unknown

\* classify: failed_download wins over failed_import.
Classify(r, h) ==
    IF r \notin Usenet THEN "healthy"
    ELSE IF state[r] = "failed" \/ h[DownloadOf[r]] = "Failed" THEN "failed_download"
    ELSE IF state[r] = "blocked" THEN "failed_import" ELSE "healthy"

\* is_ignored: by id, by the category of the SABnzbd job, by title; undecided
\* while there are category rules and no job tells the category.
CategoryOf(d, h) == IF h[d] \in {"unknown", "none"} THEN "unknown" ELSE "known"
ItemIgnored(r, h) ==
    LET d == DownloadOf[r] IN
    IF \/ d \in run.ignored \/ r \in TitleIgnored
       \/ CategoryOf(d, h) = "known" /\ d \in run.categories
    THEN "yes"
    ELSE IF CategoryOf(d, h) = "unknown" /\ run.categories # {} THEN "undecided" ELSE "no"

\* download_ignored: one ignored record protects the whole download.
DownloadIgnored(rs, h) ==
    LET answers == {ItemIgnored(r, h) : r \in rs} IN
    IF "yes" \in answers THEN "yes" ELSE IF "undecided" \in answers THEN "undecided" ELSE "no"

\* QueueProtection.holds and departed_held_ids: a record that names only a
\* folder may belong to the download of that folder, or be what is left of a
\* struck download missing from the read.
Listed(read) == {DownloadOf[r] : r \in read.items}
ReadHeld_Nothing(a, read) == {}
ReadHeld(a, read) == Listed(read) \cap read.folders
DepartedHeld(a, read) ==
    IF read.folders = {} THEN {} ELSE {d \in Struck : AppOf[d] = a /\ d \notin Listed(read)}

\* outage_held_ids: failed_download strikes, while the history is unknown.
OutageHeld_Nothing(a, h) == {}
OutageHeld(a, h) ==
    IF HistoryKnown(h) THEN {}
    ELSE {d \in Struck : AppOf[d] = a /\ RowOf(d).reason = "failed_download"}

HeldIds(a, read, h) == ReadHeld(a, read) \cup DepartedHeld(a, read) \cup OutageHeld(a, h)

\* A pattern that matches any failed-import record counts for the download.
Excluded(imports) ==
    LET matched == imports \cap Matching # {} IN
    IF PatternMode = "include" THEN ~matched ELSE matched

\* decide_download, over every record of the download that was read.
Decide(d, read, h, held) ==
    LET mine == {r \in read.items : DownloadOf[r] = d}
        downloads == {r \in mine : Classify(r, h) = "failed_download"}
        imports   == {r \in mine : Classify(r, h) = "failed_import"}
        failing   == IF downloads # {} THEN downloads ELSE imports
        actionable == failing \cap read.usable
        answer  == DownloadIgnored(mine, h)
        holds == answer = "undecided" \/ actionable = {} \/ d \in held
    IN [failing |-> failing # {}, held |-> holds,
        strikes |-> failing # {} /\ ~holds /\ answer # "yes"
                    /\ (downloads # {} \/ ~Excluded(imports)),
        reason |-> IF downloads # {} THEN "failed_download" ELSE "failed_import",
        record |-> IF actionable = {} THEN 0 ELSE CHOOSE r \in actionable : TRUE]

(***************************************************************************)
(* The strike ledger                                                       *)
(***************************************************************************)

\* cleanarr_strike on a row there is: it takes the latest id and reason.
AddStrike_KeepsId(w, decision) ==
    [w EXCEPT !.strikes = Least(@ + 1, StrikeTop), !.reason = decision.reason]
AddStrike(w, decision) ==
    [w EXCEPT !.strikes = Least(@ + 1, StrikeTop), !.reason = decision.reason,
              !.record = decision.record, !.id = entry[decision.record]]
NewRow(d, decision) ==
    [download |-> d, strikes |-> 1, reason |-> decision.reason, record |-> decision.record,
     id |-> entry[decision.record], logged |-> FALSE]

\* The struck downloads that get a row of their own, in the queue's order.
Fresh(struck) == Among(DownloadOrder, struck \ Struck)

\* Which rows the end of strike_app deletes.
Cleared(w, keep, h) ==
    /\ w.download \notin keep
    /\ HistoryKnown(h) \/ w.reason = "failed_import"

\* strike_app: nothing of the app's changes on a read that is not complete.
StrikeApp(a, read) ==
    LET h == run.history
        held == HeldIds(a, read, h)
        decided == [d \in {x \in Downloads : AppOf[x] = a} |-> Decide(d, read, h, held)]
        struck == {d \in DOMAIN decided : decided[d].strikes}
        keep == struck \cup held \cup {d \in DOMAIN decided : decided[d].failing /\ decided[d].held}
        kept == Among(strikes, {w \in ToSet(strikes) : AppOf[w.download] # a \/ ~Cleared(w, keep, h)})
        fresh == Fresh(struck)
    IN IF ~read.complete THEN [struck |-> {}, rows |-> strikes]
       ELSE [struck |-> struck,
             rows |-> [n \in DOMAIN kept |-> IF kept[n].download \in struck
                                             THEN AddStrike(kept[n], decided[kept[n].download])
                                             ELSE kept[n]]
                      \o [n \in DOMAIN fresh |-> NewRow(fresh[n], decided[fresh[n]])]]

\* apply_removals: struck in this run, at the threshold, oldest first, capped;
\* a dry run leaves out what it already reported before it applies the cap.
Select_Early(rows, struck, dry) ==
    LET due == Among(rows, {w \in ToSet(rows) : w.download \in struck /\ w.strikes + 1 >= MaxStrikes})
    IN SubSeq(due, 1, Least(Cap, Len(due)))
Select(rows, struck, dry) ==
    LET due == Among(rows, {w \in ToSet(rows) : /\ w.download \in struck /\ w.strikes >= MaxStrikes
                                                /\ ~(dry /\ w.logged)})
    IN SubSeq(due, 1, Least(Cap, Len(due)))

(***************************************************************************)
(* A run                                                                   *)
(***************************************************************************)

\* The settings are read once, before the first await.
Start ==
    /\ run.at = "idle"
    /\ run' = [Idle EXCEPT !.at = "sab", !.apps = AppOrder, !.ignored = ignored,
                        !.categories = categories, !.dry = dryRun]
    /\ UNCHANGED <<world, settings, strikes, ghosts, moves>>

\* _load_sab_state: the history read may fail on its own.
LoadSab ==
    /\ run.at = "sab"
    /\ \/ run' = [run EXCEPT !.at = "app", !.history = job] /\ UNCHANGED moves
       \/ run' = [run EXCEPT !.at = "app"] /\ Move("outage")
    /\ UNCHANGED <<world, settings, strikes, ghosts>>

\* After the last app the removals are chosen, among all apps together.
AfterApp(r, rows) ==
    IF Len(r.apps) > 1 THEN [r EXCEPT !.apps = Tail(@)]
    ELSE LET due == Select(rows, r.struck, r.dry)
         IN IF due = <<>> THEN Idle
            ELSE [r EXCEPT !.at = "remove", !.apps = <<>>, !.due = due, !.history = Unknown]

\* The compatibility check or the queue read fails: the app keeps its strikes.
SkipApp ==
    /\ run.at = "app" /\ Move("skip")
    /\ run' = AfterApp(run, strikes)
    /\ UNCHANGED <<world, settings, strikes, ghosts>>

\* For the properties: how the app's downloads looked, whatever was decided.
Looks(a, read, wholeRead) ==
    shown' = [d \in Downloads |->
        IF AppOf[d] # a THEN shown[d]
        ELSE IF \E r \in Queued(d) : Classify(r, run.history) # "healthy"
             THEN Least(shown[d] + 1, StrikeTop)
        ELSE IF wholeRead /\ HistoryKnown(run.history) THEN 0 ELSE shown[d]]

\* _run_app.  The rows are changed after one more await, from the same read;
\* nothing but this run touches them meanwhile.
RunApp ==
    /\ run.at = "app"
    /\ LET a == Head(run.apps)
           reads == QueueReads(a) IN
       \E read \in reads.whole \cup reads.broken :
         /\ IF read \in reads.whole THEN UNCHANGED moves ELSE Move("defect")
         /\ LET outcome == StrikeApp(a, read) IN
              /\ strikes' = outcome.rows
              /\ run' = AfterApp([run EXCEPT !.struck = @ \cup outcome.struck], outcome.rows)
              /\ reported' = [d \in Downloads |->
                    IF d \in {outcome.rows[n].download : n \in DOMAIN outcome.rows}
                    THEN reported[d] ELSE 0]
         /\ Looks(a, read, read \in reads.whole)
    /\ UNCHANGED <<world, settings>>

Done(d)  == [run EXCEPT !.due = Tail(@), !.calls = @ + 1]
AfterRow(r) == IF r.due = <<>> THEN Idle ELSE r
Target == Head(run.due)
InQueue(w) == state[w.record] # "out" /\ entry[w.record] = w.id

\* The Arr's DELETE: it takes the download, and every record of it, away.
Removed(d) ==
    /\ state' = [r \in Records |-> IF DownloadOf[r] = d THEN "out" ELSE state[r]]
    /\ job' = [job EXCEPT ![d] = "none"]
    /\ UNCHANGED entry
Forget(d) ==
    /\ strikes' = Without(strikes, {d})
    /\ reported' = [reported EXCEPT ![d] = 0]

\* _remove: removed, or already gone (404).
RemoveOne ==
    /\ run.at = "remove" /\ ~run.dry
    /\ IF InQueue(Target) THEN Removed(Target.download) ELSE UNCHANGED world
    /\ Forget(Target.download)
    /\ run' = AfterRow(Done(Target.download))
    /\ UNCHANGED <<settings, shown, moves>>

\* The call raises, whatever the Arr did with it: the row stays.
RemoveFails ==
    /\ run.at = "remove" /\ ~run.dry /\ Move("refuse")
    /\ \/ UNCHANGED world
       \/ InQueue(Target) /\ Removed(Target.download)
    /\ run' = AfterRow(Done(Target.download))
    /\ UNCHANGED <<settings, strikes, ghosts>>

\* _log_would_remove: the History entry, then the flag, one commit each.
Report ==
    /\ run.at = "remove" /\ run.dry
    /\ reported' = [reported EXCEPT ![Target.download] = @ + 1]
    /\ strikes' = [n \in DOMAIN strikes |->
                     IF strikes[n].download = Target.download
                     THEN [strikes[n] EXCEPT !.logged = TRUE] ELSE strikes[n]]
    /\ run' = AfterRow(Done(Target.download))
    /\ UNCHANGED <<world, settings, shown, moves>>

\* The process dies: anywhere in a run, after the Arr removed a download and
\* before its row went, or between an entry and its flag.
Crash ==
    /\ run.at # "idle" /\ Move("crash")
    /\ run' = Idle
    /\ \/ UNCHANGED <<world, reported>>
       \/ run.at = "remove" /\ ~run.dry /\ Removed(Target.download) /\ UNCHANGED reported
       \/ /\ run.at = "remove" /\ run.dry /\ UNCHANGED world
          /\ reported' = [reported EXCEPT ![Target.download] = @ + 1]
    /\ UNCHANGED <<settings, strikes, shown>>

RunStep == LoadSab \/ SkipApp \/ RunApp \/ RemoveOne \/ RemoveFails \/ Report

(***************************************************************************)
(* Users and the world                                                     *)
(***************************************************************************)

\* Both are refused while a run holds the gate.
GateFree == run.at = "idle"
ClearStrikes ==
    /\ GateFree /\ strikes # <<>> /\ Move("user")
    /\ strikes' = <<>> /\ reported' = [d \in Downloads |-> 0]
    /\ UNCHANGED <<world, settings, run, shown>>

\* A full list refuses the id before anything changes.
ListTakes(d) == d \in ignored \/ Cardinality(ignored) < IgnoreLimit
Ignore(d) ==
    /\ GateFree /\ Move("user")
    /\ ListTakes(d)
    /\ ignored' = ignored \cup {d} /\ acked' = acked \cup {d}
    /\ Forget(d)
    /\ UNCHANGED <<world, categories, dryRun, run, shown>>

\* PUT /settings asks no gate: a run goes on with what it read at its start.
UpdateSettings ==
    /\ Move("user")
    /\ \/ \E d \in Downloads :
             /\ ignored' = IF d \in ignored THEN ignored \ {d} ELSE ignored \cup {d}
             /\ Cardinality(ignored') <= IgnoreLimit
             /\ acked' = acked \ {d}
             /\ UNCHANGED <<categories, dryRun>>
       \/ categories' \in CategoryChoices \ {categories} /\ UNCHANGED <<ignored, acked, dryRun>>
       \/ dryRun' = ~dryRun /\ UNCHANGED <<ignored, categories, acked>>
    /\ UNCHANGED <<world, strikes, run, ghosts>>

\* A record is queued (under a new id), changes its state, or is imported.
RecordChanges(r) ==
    /\ Move("world")
    /\ \E s \in RecordStates \ {state[r]} :
         /\ state' = [state EXCEPT ![r] = s]
         /\ entry' = IF state[r] = "out" THEN [entry EXCEPT ![r] = @ + 1] ELSE entry
         /\ entry'[r] <= MaxEntries
    /\ run' = [run EXCEPT !.left = IF state'[r] = "out" /\ run.at \in {"app", "remove"}
                                   THEN @ \cup {DownloadOf[r]} ELSE @]
    /\ UNCHANGED <<job, settings, strikes, ghosts>>
JobChanges(d) ==
    /\ Move("job")
    /\ \E s \in JobStates \ {job[d]} : job' = [job EXCEPT ![d] = s]
    /\ UNCHANGED <<state, entry, settings, strikes, run, ghosts>>

Environment ==
    \/ ClearStrikes \/ UpdateSettings \/ Crash
    \/ \E d \in Downloads : Ignore(d) \/ JobChanges(d)
    \/ \E r \in Records : RecordChanges(r)

Next == Start \/ RunStep \/ Environment

Spec == Init /\ [][Next]_vars

\* The interval trigger fires again and again, and a run goes on.
FairSpec == Spec /\ WF_vars(Start) /\ WF_vars(RunStep) /\ SF_vars(RemoveOne)

(***************************************************************************)
(* Properties                                                              *)
(***************************************************************************)

TypeOK ==
    /\ \A n \in DOMAIN strikes : /\ strikes[n].strikes \in 1..StrikeTop
                                 /\ strikes[n].reason \in {"failed_import", "failed_download"}
    /\ \A m, n \in DOMAIN strikes : strikes[m].download = strikes[n].download => m = n
    /\ run.at \in {"idle", "sab", "app", "remove"}

\* No download has more strikes than runs that saw it fail since a run last saw
\* it well; a download of several episodes gets one strike a run.
StrikesEarned == \A n \in DOMAIN strikes : strikes[n].strikes <= shown[strikes[n].download]

\* A strike is never given to a download that does not fail, that the ignore
\* list names, or one of whose queued records, read well or badly, has an
\* ignored title.
OnlyFailingStruck ==
    [][\A d \in Downloads :
         (/\ run.at = "app" /\ d \in run'.struck \ run.struck) =>
            /\ \E r \in Queued(d) : Classify(r, run.history) # "healthy"
            /\ d \notin run.ignored \cup run.categories /\ Queued(d) \cap TitleIgnored = {}]_vars

\* While SABnzbd's history cannot be read, the pass over an app leaves every
\* failed_download row as it is: it neither gains nor loses a strike.
OutageFreezes ==
    [][(run.at = "app" /\ ~HistoryKnown(run.history)) =>
          \A n \in DOMAIN strikes :
             strikes[n].reason = "failed_download" => strikes[n] \in ToSet(strikes')]_vars

\* What a run removes failed in this very run, in MaxStrikes runs since it was
\* last seen well, and was not ignored by a click answered before.
RemovalEarned ==
    [][\A d \in Downloads :
         (/\ run.at = "remove" /\ Target.download = d /\ ~run.dry
          /\ run'.calls # run.calls \/ run' = Idle) =>
            /\ d \in run.struck /\ shown[d] >= MaxStrikes
            /\ d \notin acked]_vars

\* The removals of a run, over both apps, stay within max_removals_per_run.
CapKept == run.calls + Len(run.due) <= Cap

\* A row is dropped as already gone only if its download left the queue while
\* the run went on: the id it uses was current when the run read it.
AlreadyGoneTrue ==
    run.at = "remove" => (InQueue(Target) \/ Target.download \in run.left)

\* A dry run removes nothing and reports a row once, but for a process that
\* died between the entry and its flag.
ReportedOnce == \A d \in Downloads : reported[d] <= 1 + moves["crash"]

Failing(d) == \E r \in Queued(d) : Classify(r, job) # "healthy"
\* With nothing held or ignored, a download that keeps failing is removed, or
\* in a dry run reported, however many others are before it.
FailingHandled ==
    \A d \in Downloads :
        Failing(d) ~> (~Failing(d) \/ reported[d] > 0)
=============================================================================
