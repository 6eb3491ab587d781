------------------------------ MODULE Trending ------------------------------
(***************************************************************************)
(* The Trending page's data: a refresh cycle fetches every feed into the   *)
(* store in memory and its mirror in the database; a backfill asks OMDb    *)
(* for the IMDb ratings of the titles shown, within a daily budget, with   *)
(* several API keys that share one pointer.  Cycles are started by the     *)
(* scheduler, a changed interval and a boot; backfills by a cycle, a boot  *)
(* and an hourly job.                                                      *)
(*                                                                         *)
(* Days pass without end: what is kept of one is how long ago it was.  A   *)
(* row shows a title under its IMDb id, its TMDB id or both; its rating is *)
(* kept under the IMDb id if it has one.                                   *)
(*                                                                         *)
(* An operator Name_Fault just before Name is Name with a plausible bug in *)
(* it; the specification does not use it.                                  *)
(***************************************************************************)
EXTENDS Naturals, FiniteSets, SequencesExt, FiniteSetsExt, SeqFilter

CONSTANTS
    Fetches,      \* the fetches of a cycle in their order: the feeds each fills
    KeyOrder,     \* the ids, <<title, form>>, in the order the feeds show them
    Resolvable,   \* those whose IMDb id TMDB knows
    FirstOffer, Offers, \* what the providers show and may show: rows of each feed
    FirstPool, Pools,   \* the pool of API keys and what the setting may become
    BadKeys,      \* keys OMDb always rejects
    BudgetPerKey, \* the setting omdb_daily_budget_per_key
    Ttl,          \* the setting rating_ttl_days
    Intervals,    \* days between two cycles, a setting
    Concurrency, Breaker, \* _BACKFILL_CONCURRENCY, _BACKFILL_FAILURE_BREAKER
    Plots         \* bound: the moves of a behaviour, each made once, are those
                  \* of one of these sets: "offer", "fault", "limit", "keys",
                  \* "restart", "reschedule", "read"
Feeds    == UNION {Fetches[i] : i \in DOMAIN Fetches}
Titles   == {k[1] : k \in ToSet(KeyOrder)}
Keys     == UNION {ToSet(p) : p \in Pools}
Absent   == {[title |-> "none", form |-> "none"]}
Forms    == {"imdb", "tmdb"}       \* of an id; a row has one of these forms or "both"
Long     == Ttl + 2                \* an age nothing tells from a greater one
LongAgo  == Max(Intervals)         \* the same for the last cycle
Missing  == Long + 1
Runners  == {"boot", "job", "catchup"}
Spawners == {"cycle", "hourly"}

ASSUME TrendingAssumption ==
    /\ Ttl \in Nat /\ BudgetPerKey \in Nat
    /\ Concurrency \in Nat \ {0} /\ Breaker \in Nat \ {0}
    /\ Intervals \subseteq Nat \ {0} /\ FirstPool \in Pools
    /\ \A s \in Pools \cup {KeyOrder} : s \in Seq(ToSet(s)) /\ IsInjective(s)
    /\ ToSet(KeyOrder) = Titles \X Forms

VARIABLES
    offer,    \* what the providers show
    store,    \* ctx.trending_store
    mirror,   \* the tables trending_feeds and trending_cycle_state: feeds, age of the last full cycle
    interval, \* the setting
    active,   \* _REFRESH_ACTIVE
    cycle,    \* of each runner: the fetch it awaits (0: none), whether one failed
    reader,   \* the feed a page read that found none awaits
    rating,   \* trending_ratings: the age of each key's row
    pool,     \* the configured keys
    omdb,     \* the client: pointer, whether the day it was set on is over; the keys used up today
    usage,    \* omdb_usage of today
    tried,    \* a backfill begun today came to its end: 24 hourly jobs fire in a day
    run,      \* of each spawner: its backfill
    moves     \* the moves made

vars == <<offer, store, mirror, interval, active, cycle, reader, rating, pool, omdb, usage, tried, run, moves>>

NoCycle == [fetch |-> 0, failed |-> FALSE]
NoRun   == [jobs |-> <<>>, fails |-> 0, today |-> TRUE]
Cold    == [f \in Feeds |-> Absent]

\* The first boot: nothing stored, its cycle is under way.
Init ==
    /\ offer = FirstOffer
    /\ store = Cold /\ mirror = [feeds |-> Cold, age |-> LongAgo]
    /\ interval = Max(Intervals)
    /\ active = TRUE
    /\ cycle = [r \in Runners |-> IF r = "boot" THEN [NoCycle EXCEPT !.fetch = 1] ELSE NoCycle]
    /\ reader = {}
    /\ rating = [k \in Titles \X Forms |-> Missing]
    /\ pool = FirstPool
    /\ omdb = [active |-> 1, over |-> FALSE, out |-> {}]
    /\ usage = 0 /\ tried = FALSE
    /\ run = [s \in Spawners |-> NoRun]
    /\ moves = {}

Move(b) == b \notin moves /\ moves' = moves \cup {b} /\ \E plot \in Plots : moves' \subseteq plot
cycling == <<store, mirror, active, cycle>>
rated   == <<rating, omdb, usage, tried>>

------------------------------------------------------------------------------
(* What a backfill looks up, and its start.                                 *)

KeyOf(row) == <<row.title, IF row.form = "tmdb" THEN "tmdb" ELSE "imdb">>
ShownOf(feeds) == UNION {feeds[f] : f \in {g \in Feeds : feeds[g] # Absent}}
Shown == ShownOf(store)

\* _rating_targets: a row without an IMDb id is taken under that of a row that
\* carries both ids; without such a row the two ids are two targets. The
\* variant merges no rows.
Linked(t, rows) == \E row \in rows : row.title = t /\ row.form = "both"
CanonicalOf_Alias(row, rows) == KeyOf(row)
CanonicalOf(row, rows) == IF Linked(row.title, rows) THEN <<row.title, "imdb">> ELSE KeyOf(row)
Group(k, rows) ==
    [title |-> k[1], imdb |-> k[2] = "imdb", linked |-> Linked(k[1], rows),
     aliases |-> {KeyOf(row) : row \in {row \in rows : CanonicalOf(row, rows) = k}}]

\* The targets to rate: what has no rating comes before what has an old one.
Pending(rows) ==
    LET targets == {CanonicalOf(row, rows) : row \in rows}
        Aged(ages) == Among(KeyOrder, {k \in targets : rating[k] \in ages})
    IN  Aged({Missing}) \o Aged(Ttl + 1 .. Long)
Budget == BudgetPerKey * Len(pool)
Batch(feeds) ==
    LET pending == Pending(ShownOf(feeds))
    IN  IF usage >= Budget THEN <<>> ELSE SubSeq(pending, 1, Min({Len(pending), Budget - usage}))

Waiting(g) == [group |-> g, at |-> "wait", index |-> 0, keys |-> <<>>]
Begun(feeds, batch) ==
    IF batch = <<>> THEN NoRun
    ELSE [jobs |-> [i \in DOMAIN batch |-> Waiting(Group(batch[i], ShownOf(feeds)))],
          fails |-> 0, today |-> TRUE]

\* One backfill at a time; a spawned one begins at once. The variant spawns
\* one whoever asks.
Spawn_Always(s) ==
    \E batch \in {Batch(store')} :
        run' = [run EXCEPT ![s] = IF @ = NoRun THEN Begun(store', batch) ELSE @]
Spawn(s) ==
    IF \E o \in Spawners : run[o] # NoRun THEN UNCHANGED run
    ELSE \E batch \in {Batch(store')} : run' = [run EXCEPT ![s] = Begun(store', batch)]

------------------------------------------------------------------------------
(* The refresh cycle.                                                       *)

\* _refresh_cycle: skipped while one is active.
Start(r) ==
    /\ ~active
    /\ cycle' = [cycle EXCEPT ![r].fetch = 1] /\ active' = TRUE

\* The interval is at least a day: after a full cycle today none is due.
Job ==
    /\ mirror.age > 0 /\ cycle["job"] = NoCycle /\ Start("job")
    /\ UNCHANGED <<offer, store, mirror, interval, reader, rated, pool, run, moves>>

Fresh(age) == age < interval'

\* A changed interval starts a cycle when the snapshot is stale for it.
Reschedule ==
    /\ Move("reschedule") /\ interval' \in Intervals \ {interval}
    /\ IF Fresh(mirror.age) \/ active THEN UNCHANGED <<active, cycle>> ELSE Start("catchup")
    /\ UNCHANGED <<offer, store, mirror, reader, rated, pool, run>>

\* The end of a cycle. The variant leaves the flag set.
Ended_KeepsFlag == active' = active /\ Spawn("cycle")
Ended == active' = FALSE /\ Spawn("cycle")

\* A fetch is answered: its feeds are stored and mirrored, or kept as they were.
Fetched(r) ==
    LET c == cycle[r]  feeds == Fetches[c.fetch]  last == c.fetch = Len(Fetches) IN
    /\ c.fetch # 0
    /\ \E ok \in BOOLEAN :
        LET failed == c.failed \/ ~ok
            shown  == [f \in Feeds |-> IF ok /\ f \in feeds THEN offer[f] ELSE store[f]]
            kept   == [f \in Feeds |-> IF ok /\ f \in feeds THEN offer[f] ELSE mirror.feeds[f]] IN
        /\ IF ok THEN UNCHANGED moves ELSE Move("fault")
        /\ store' = shown
        /\ mirror' = [feeds |-> kept, age |-> IF last /\ ~failed THEN 0 ELSE mirror.age]
        /\ cycle' = [cycle EXCEPT ![r] = IF last THEN NoCycle ELSE [fetch |-> @.fetch + 1, failed |-> failed]]
        /\ IF last THEN Ended ELSE UNCHANGED <<active, run>>
    /\ UNCHANGED <<offer, interval, reader, rated, pool>>

\* A page read of a feed that is not stored fetches it for the store alone.
Read(f) ==
    /\ Move("read") /\ reader = {} /\ store[f] = Absent
    /\ reader' = {f}
    /\ UNCHANGED <<offer, cycling, interval, rated, pool, run>>
ReadAnswered ==
    /\ reader # {} /\ reader' = {}
    /\ \/ store' = [f \in Feeds |-> IF f \in reader THEN offer[f] ELSE store[f]] /\ UNCHANGED moves
       \/ Move("fault") /\ UNCHANGED store
    /\ UNCHANGED <<offer, mirror, interval, active, cycle, rated, pool, run>>

------------------------------------------------------------------------------
(* The backfill: one lookup per target.                                     *)

Busy(s) == {i \in DOMAIN run[s].jobs : run[s].jobs[i].at \in {"resolve", "ask"}}

\* The run of s goes on with job i in state job; it ends with its last job. A
\* tripped breaker stays tripped.
Goes(s, i, job, fails) ==
    LET jobs == [run[s].jobs EXCEPT ![i] = job]
        ends == \A j \in DOMAIN jobs : jobs[j].at = "done"
        sum  == IF run[s].fails >= Breaker THEN Breaker ELSE fails
    IN  /\ run' = [run EXCEPT ![s] = IF ends THEN NoRun ELSE [@ EXCEPT !.jobs = jobs, !.fails = sum]]
        /\ tried' = (tried \/ (ends /\ run[s].today))
Done(job) == [job EXCEPT !.at = "done", !.index = 0, !.keys = <<>>]

\* _rotating_get begins: a new day starts with the first key again. A pointer
\* beyond the pool finds no key at all. The variant keeps the pointer.
First_Parked == omdb.active
First == IF omdb.over THEN 1 ELSE omdb.active
Ask(s, i, job, fails) ==
    /\ omdb' = [omdb EXCEPT !.active = First, !.over = FALSE]
    /\ IF First > Len(pool) THEN Goes(s, i, Done(job), fails + 1)
       ELSE Goes(s, i, [job EXCEPT !.at = "ask", !.index = First, !.keys = pool], fails)

\* A job gets its turn: deferred behind a tripped breaker, else looked up,
\* by way of TMDB when only the TMDB id is known.
Turn(s, i) ==
    LET job == run[s].jobs[i] IN
    /\ job.at = "wait"
    /\ Cardinality(Busy(s)) < Concurrency
    /\ \A j \in 1..(i - 1) : run[s].jobs[j].at # "wait"
    /\ \/ run[s].fails >= Breaker /\ Goes(s, i, Done(job), run[s].fails) /\ UNCHANGED omdb
       \/ run[s].fails < Breaker /\ job.group.imdb /\ Ask(s, i, job, run[s].fails)
       \/ /\ run[s].fails < Breaker /\ ~job.group.imdb
          /\ Goes(s, i, [job EXCEPT !.at = "resolve"], run[s].fails) /\ UNCHANGED omdb
    /\ UNCHANGED <<offer, cycling, interval, reader, rating, usage, pool, moves>>

\* Still fresh by the cutoff taken when the run began.
FreshFor(s, age) == age <= IF run[s].today THEN Ttl ELSE Ttl + 1

\* TMDB answers: without an id the title waits for a later run; a rating that
\* was paid for under the IMDb id is copied. The variant pays again.
Copied_Never(s, t) == FALSE
Copied(s, t) == FreshFor(s, rating[<<t, "imdb">>])
Resolved(s, i) ==
    LET job == run[s].jobs[i]  t == job.group.title IN
    /\ job.at = "resolve"
    /\ \/ /\ t \notin Resolvable
          /\ Goes(s, i, Done(job), run[s].fails) /\ UNCHANGED <<rating, omdb, moves>>
       \/ Move("fault") /\ Goes(s, i, Done(job), run[s].fails) /\ UNCHANGED <<rating, omdb>>
       \/ /\ t \in Resolvable /\ Copied(s, t)
          /\ rating' = [k \in DOMAIN rating |-> IF k \in job.group.aliases THEN 0 ELSE rating[k]]
          /\ Goes(s, i, Done(job), run[s].fails) /\ UNCHANGED <<omdb, moves>>
       \/ /\ t \in Resolvable /\ ~Copied(s, t)
          /\ Ask(s, i, job, run[s].fails) /\ UNCHANGED <<rating, moves>>
    /\ UNCHANGED <<offer, cycling, interval, reader, usage, pool>>

Rejects(key) == key \in BadKeys \cup omdb.out

\* A key that is used up or invalid: the pointer moves on, parked at the last.
Rejected(s, i) ==
    LET job == run[s].jobs[i]  next == job.index + 1  n == Len(job.keys) IN
    /\ job.at = "ask" /\ Rejects(job.keys[job.index])
    /\ omdb' = [omdb EXCEPT !.active = Max({@, Min({next, n})})]
    /\ IF next > n THEN Goes(s, i, Done(job), run[s].fails + 1)
       ELSE Goes(s, i, [job EXCEPT !.index = next], run[s].fails)
    /\ UNCHANGED <<offer, cycling, interval, reader, rating, usage, pool, moves>>

\* An answer: charged to the day the run began, stored under every alias.
Rate(s, i) ==
    LET job == run[s].jobs[i]  g == job.group  key == job.keys[job.index] IN
    /\ job.at = "ask" /\ ~Rejects(key)
    /\ omdb' = [omdb EXCEPT !.active = job.index]
    /\ usage' = IF run[s].today THEN usage + 1 ELSE usage
    /\ rating' = [k \in DOMAIN rating |->
                    IF k \in g.aliases \cup {<<g.title, "imdb">>} THEN 0 ELSE rating[k]]
    /\ Goes(s, i, Done(job), 0)
    /\ UNCHANGED <<offer, cycling, interval, reader, pool, moves>>

\* OMDb is out of reach, or answers with what is no rating by a key that then
\* is the one in use: nothing stored, nothing charged.
Unreachable(s, i) ==
    LET job == run[s].jobs[i] IN
    /\ job.at = "ask" /\ Move("fault")
    /\ UNCHANGED omdb \/ (~Rejects(job.keys[job.index]) /\ omdb' = [omdb EXCEPT !.active = job.index])
    /\ Goes(s, i, Done(job), run[s].fails + 1)
    /\ UNCHANGED <<offer, cycling, interval, reader, rating, usage, pool>>

Hourly ==
    /\ UNCHANGED store /\ Spawn("hourly")
    /\ tried' = (tried \/ run' = [s \in Spawners |-> NoRun])
    /\ UNCHANGED <<offer, mirror, active, cycle, interval, reader, rating, omdb, usage, pool, moves>>

------------------------------------------------------------------------------
(* The surroundings.                                                        *)

Older(age, limit) == Min({age + 1, limit})

\* Midnight. A run takes minutes: it sees at most one, and some run begins and ends every day.
NewDay ==
    /\ tried /\ \A s \in Spawners : run[s].today
    /\ run' = [s \in Spawners |-> IF run[s] = NoRun THEN NoRun ELSE [run[s] EXCEPT !.today = FALSE]]
    /\ rating' = [k \in DOMAIN rating |-> IF rating[k] = Missing THEN Missing ELSE Older(rating[k], Long)]
    /\ mirror' = [mirror EXCEPT !.age = Older(@, LongAgo)]
    /\ omdb' = [omdb EXCEPT !.over = TRUE, !.out = {}]
    /\ usage' = 0 /\ tried' = FALSE
    /\ UNCHANGED <<offer, store, interval, active, cycle, reader, pool, moves>>

\* A key reaches its daily limit; posters use it too.
UsedUp(key) ==
    /\ Move("limit") /\ omdb' = [omdb EXCEPT !.out = @ \cup {key}]
    /\ UNCHANGED <<offer, cycling, interval, reader, rating, usage, tried, pool, run>>

\* update_credentials: another pool, the pointer at its first key.
EditKeys ==
    /\ Move("keys") /\ pool' \in Pools \ {pool}
    /\ omdb' = [omdb EXCEPT !.active = 1]
    /\ UNCHANGED <<offer, cycling, interval, reader, rating, usage, tried, run>>

OfferChanges ==
    /\ Move("offer") /\ offer' \in Offers \ {offer}
    /\ UNCHANGED <<cycling, interval, reader, rated, pool, run>>

\* start_trending_sync: the mirror is loaded; a stale one is refreshed.
Restart ==
    /\ Move("restart")
    /\ store' = mirror.feeds /\ reader' = {}
    /\ active' = ~(mirror.age < interval)
    /\ cycle' = [r \in Runners |-> IF r = "boot" /\ active' THEN [NoCycle EXCEPT !.fetch = 1] ELSE NoCycle]
    /\ \E batch \in {Batch(store')} :
           run' = [s \in Spawners |-> IF s = "cycle" /\ ~active' THEN Begun(store', batch) ELSE NoRun]
    /\ omdb' = [omdb EXCEPT !.active = 1, !.over = FALSE]
    /\ UNCHANGED <<offer, mirror, interval, rating, pool, usage, tried>>

Lookup(s) ==
    \E i \in DOMAIN run[s].jobs :
        Turn(s, i) \/ Resolved(s, i) \/ Rejected(s, i) \/ Rate(s, i) \/ Unreachable(s, i)

Next ==
    \/ Job \/ Reschedule \/ ReadAnswered \/ Hourly \/ NewDay \/ EditKeys \/ OfferChanges \/ Restart
    \/ \E r \in Runners : Fetched(r)
    \/ \E f \in Feeds : Read(f)
    \/ \E k \in Keys : UsedUp(k)
    \/ \E s \in Spawners : Lookup(s)

Spec == Init /\ [][Next]_vars
\* The jobs keep firing, calls are answered or time out, days pass.
FairSpec ==
    /\ Spec /\ WF_vars(Job) /\ WF_vars(Hourly) /\ WF_vars(NewDay) /\ WF_vars(ReadAnswered)
    /\ \A r \in Runners : WF_vars(Fetched(r))
    /\ \A s \in Spawners : WF_vars(Lookup(s))

------------------------------------------------------------------------------
(* Properties.                                                              *)

\* trending_sync.py:13: what is charged to a day stays within the budget of
\* the configured keys, whoever starts backfills and however lookups overlap.
\* A pool that shrinks takes budget away that may be spent already: this is of
\* pools of one size, with any keys in them.
BudgetKept == usage <= Budget

Twins(s, i) ==
    {j \in DOMAIN run[s].jobs \ {i} : run[s].jobs[j].group.title = run[s].jobs[i].group.title}
Due(s, i) ==
    /\ ~FreshFor(s, rating[<<run[s].jobs[i].group.title, "imdb">>])
    /\ \A j \in Twins(s, i) : run[s].jobs[j].at # "ask"

\* OMDb is never asked for a title whose IMDb id has a fresh rating, nor for
\* one title twice at once: not for two rows of it in one run that a row with
\* both ids links, nor in a run that meets it under its other id. A run that
\* has a title's two ids and nothing that links them may ask twice.
PaidOnce ==
    \A s \in Spawners : \A i \in DOMAIN run[s].jobs :
        LET job == run[s].jobs[i]
        IN  job.at = "ask" /\ (job.group.linked \/ Twins(s, i) = {}) => Due(s, i)

\* trending_sync.py:289: "Group rows by title identity so each title is looked
\* up once", whichever ids its rows carry.
LookedUpOnce ==
    \A s \in Spawners : \A i \in DOMAIN run[s].jobs : run[s].jobs[i].at = "ask" => Due(s, i)

\* Whatever fails, the page ends up with what the providers show.
FeedsCurrent == <>[](\A f \in Feeds : store[f] = offer[f])

\* A row the page keeps showing keeps having a rating that is not too old:
\* keys that reject, failed lookups, the breaker, a title nobody can resolve
\* and the ends of days only delay it. This needs a budget above the number of
\* titles nobody resolves, which come first in every batch, with room for those
\* that fall due: here two lookups a day, one such title and two others, each a
\* single target.
RatedAgainAndAgain ==
    \A row \in UNION UNION {{o[f] : f \in Feeds} : o \in Offers} :
        row.form # "tmdb" \/ row.title \in Resolvable =>
            (<>[](row \in Shown) => []<>(rating[KeyOf(row)] <= Ttl))

\* omdb.py:125: "The pointer is always in bounds".
PointerInBounds == pool # <<>> => omdb.active <= Len(pool)
=============================================================================
