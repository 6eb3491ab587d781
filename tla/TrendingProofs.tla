--------------------------- MODULE TrendingProofs ---------------------------
(***************************************************************************)
(* For any feeds, titles, keys and faults: OMDb is not paid twice for a    *)
(* title, and a day is charged no more than the budget of a pool that was  *)
(* configured.                                                             *)
(***************************************************************************)
EXTENDS Trending, SeqFilterProofs, FiniteSetTheorems

Ids       == Titles \X Forms
GroupType == [title : Titles, imdb : BOOLEAN, linked : BOOLEAN, aliases : SUBSET Ids]
JobType   == [group : GroupType, at : {"wait", "resolve", "ask", "done"}, index : Nat, keys : Pools \cup {<<>>}]
RunType   == [jobs : Seq(JobType), fails : Nat, today : BOOLEAN]

\* The types of what the backfill reads and writes.
TypeOK ==
    /\ rating \in [Ids -> Nat] /\ usage \in Nat /\ pool \in Pools
    /\ omdb \in [active : Nat, over : BOOLEAN, out : SUBSET Keys]
    /\ run \in [Spawners -> RunType]

\* No other job of the run is for the title of job i.
Alone(jobs, i) == \A j \in DOMAIN jobs \ {i} : jobs[j].group.title # jobs[i].group.title

\* One backfill at a time, each job with keys of its title, and each title whose
\* ids some row links in one of its jobs.
OneRun == \A s, o \in Spawners : s # o => run[s] = NoRun \/ run[o] = NoRun
OwnTitles ==
    \A s \in Spawners : \A i \in DOMAIN run[s].jobs :
        /\ run[s].jobs[i].group.aliases \subseteq {run[s].jobs[i].group.title} \X Forms
        /\ run[s].jobs[i].group.linked => Alone(run[s].jobs, i)

\* A job that will ask, or asks, for a title's rating under its IMDb id was
\* given it because that rating is missing or old, and, unless another job of
\* the run is for the same title, nobody has rated it since.
StillDue ==
    \A s \in Spawners : \A i \in DOMAIN run[s].jobs :
        LET job == run[s].jobs[i]
        IN  Alone(run[s].jobs, i) /\ (job.at = "ask" \/ (job.at = "wait" /\ job.group.imdb))
              => ~FreshFor(s, rating[<<job.group.title, "imdb">>])

IInv == TypeOK /\ OneRun /\ OwnTitles /\ StillDue

\* What is charged to a day and what its backfill may still charge to it.
JobsLeft(r) == {i \in DOMAIN r.jobs : r.jobs[i].at # "done"}
Open(s) == JobsLeft(run[s])
Within(B) ==
    /\ usage <= B
    /\ \A s \in Spawners : run[s].today => usage + Cardinality(Open(s)) <= B
-----------------------------------------------------------------------------
(***************************************************************************)
(* What a batch holds                                                      *)
(***************************************************************************)

\* The lesser and the greater of two numbers.
LEMMA MinOfTwo ==
    ASSUME NEW a \in Nat, NEW b \in Nat
    PROVE  Min({a, b}) \in Nat /\ Min({a, b}) <= a /\ Min({a, b}) <= b /\ Min({a, b}) \in {a, b}
  <1>1. \E x \in {a, b} : \A y \in {a, b} : x <= y
    OBVIOUS
  <1>2. QED
    BY <1>1 DEF Min

LEMMA MaxOfTwo ==
    ASSUME NEW a \in Nat, NEW b \in Nat
    PROVE  Max({a, b}) \in Nat
  <1>1. \E x \in {a, b} : \A y \in {a, b} : x >= y
    OBVIOUS
  <1>2. QED
    BY <1>1 DEF Max

\* The ids in their order, each once.
LEMMA KeysOnce ==
    /\ KeyOrder \in Seq(Ids)
    /\ \A k, l \in 1..Len(KeyOrder) : KeyOrder[k] = KeyOrder[l] => k = l
  BY TrendingAssumption DEF IsInjective, Ids

\* An id's group: its keys are those of its title.
LEMMA GroupTyped ==
    ASSUME NEW k \in Ids, NEW rows
    PROVE  /\ Group(k, rows) \in GroupType /\ Group(k, rows).title = k[1]
           /\ Group(k, rows).aliases \subseteq {k[1]} \X Forms
           /\ Group(k, rows).linked = Linked(k[1], rows)
           /\ Group(k, rows).imdb => k = <<k[1], "imdb">>
  <1> DEFINE mine == {row \in rows : CanonicalOf(row, rows) = k}
  <1>1. \A row \in mine : row.title = k[1]
    BY DEF CanonicalOf, KeyOf
  <1>2. {KeyOf(row) : row \in mine} \subseteq {k[1]} \X Forms
    BY <1>1 DEF KeyOf, Forms
  <1>3. k[1] \in Titles /\ {k[1]} \X Forms \subseteq Ids /\ (k[2] = "imdb" => k = <<k[1], "imdb">>)
    BY DEF Ids
  <1> DEFINE imdb    == k[2] = "imdb"
             linked  == Linked(k[1], rows)
             aliases == {KeyOf(row) : row \in mine}
  <1>4. imdb \in BOOLEAN /\ linked \in BOOLEAN
    BY DEF Linked
  <1>5. aliases \in SUBSET Ids /\ aliases \subseteq {k[1]} \X Forms
    BY <1>2, <1>3
  <1>6. Group(k, rows) = [title |-> k[1], imdb |-> imdb, linked |-> linked, aliases |-> aliases]
    BY DEF Group
  <1>7. imdb => k = <<k[1], "imdb">>
    BY <1>3
  <1> HIDE DEF imdb, linked, aliases
  <1>8. Group(k, rows) \in GroupType /\ Group(k, rows).imdb = imdb /\ Group(k, rows).linked = linked
    BY <1>3, <1>4, <1>5, <1>6 DEF GroupType
  <1>9. QED
    BY <1>5, <1>6, <1>7, <1>8 DEF linked

\* What is pending has no rating or an old one, each id is pending once, and
\* where rows are linked it is the IMDb id that is.
LEMMA PendingProperties ==
    ASSUME TypeOK, NEW rows
    PROVE  /\ Pending(rows) \in Seq(Ids)
           /\ \A k \in 1..Len(Pending(rows)) :
                /\ rating[Pending(rows)[k]] > Ttl
                /\ Linked(Pending(rows)[k][1], rows) => Pending(rows)[k] = <<Pending(rows)[k][1], "imdb">>
           /\ \A k, l \in 1..Len(Pending(rows)) : Pending(rows)[k] = Pending(rows)[l] => k = l
  <1> DEFINE targets   == {CanonicalOf(row, rows) : row \in rows}
             Old(ages) == {k \in targets : rating[k] \in ages}
             A == Among(KeyOrder, Old({Missing}))
             B == Among(KeyOrder, Old(Ttl + 1 .. Long))
  <1>1. /\ A \in Seq(Ids) /\ \A i \in 1..Len(A) : A[i] \in Old({Missing})
        /\ B \in Seq(Ids) /\ \A i \in 1..Len(B) : B[i] \in Old(Ttl + 1 .. Long)
    BY KeysOnce, AmongProperties
  <1>2. /\ \A i, j \in 1..Len(A) : A[i] = A[j] => i = j
        /\ \A i, j \in 1..Len(B) : B[i] = B[j] => i = j
    BY KeysOnce, AmongInjective
  <1> HIDE DEF A, B
  <1>3. Pending(rows) = A \o B
    BY DEF Pending, A, B
  <1>4. /\ A \o B \in Seq(Ids) /\ Len(A \o B) = Len(A) + Len(B)
        /\ Len(A) \in Nat /\ Len(B) \in Nat
        /\ \A k \in 1..Len(A \o B) : (A \o B)[k] = IF k <= Len(A) THEN A[k] ELSE B[k - Len(A)]
    BY <1>1
  <1>5. Ttl \in Nat /\ Missing > Ttl /\ Missing \notin Ttl + 1 .. Long /\ \A a \in Ttl + 1 .. Long : a > Ttl
    BY TrendingAssumption DEF Missing, Long
  <1>6. /\ \A i \in 1..Len(A) : rating[A[i]] = Missing /\ A[i] \in targets
        /\ \A i \in 1..Len(B) : rating[B[i]] \in Ttl + 1 .. Long /\ B[i] \in targets
    BY <1>1
  <1> DEFINE P == A \o B
  <1>7. \A k \in 1..Len(P) : \/ k \in 1..Len(A) /\ P[k] = A[k]
                             \/ k - Len(A) \in 1..Len(B) /\ P[k] = B[k - Len(A)] /\ k > Len(A)
    BY <1>4
  <1>8. \A k \in 1..Len(P) :
           rating[P[k]] > Ttl /\ (Linked(P[k][1], rows) => P[k] = <<P[k][1], "imdb">>)
    <2>1. \A k \in targets : Linked(k[1], rows) => k = <<k[1], "imdb">>
      BY DEF CanonicalOf, KeyOf
    <2> HIDE DEF P, targets
    <2>2. QED
      BY <1>5, <1>6, <1>7, <2>1
  <1>9. \A k, l \in 1..Len(P) : P[k] = P[l] => k = l
    <2> SUFFICES ASSUME NEW k \in 1..Len(P), NEW l \in 1..Len(P), P[k] = P[l] PROVE k = l
      OBVIOUS
    <2> HIDE DEF P, Old, targets
    <2>1. \A i \in 1..Len(A), m \in 1..Len(B) : A[i] # B[m]
      BY <1>5, <1>6
    <2>2. CASE k \in 1..Len(A) /\ P[k] = A[k]
      <3>1. l \in 1..Len(A) /\ P[l] = A[l]
        BY <1>7, <2>1, <2>2
      <3>2. QED
        BY <1>2, <2>2, <3>1
    <2>3. CASE k - Len(A) \in 1..Len(B) /\ P[k] = B[k - Len(A)] /\ k > Len(A)
      <3>1. l - Len(A) \in 1..Len(B) /\ P[l] = B[l - Len(A)] /\ l > Len(A)
        BY <1>7, <2>1, <2>3
      <3>2. k - Len(A) = l - Len(A)
        BY <1>2, <2>3, <3>1
      <3>3. QED
        BY <1>4, <3>2
    <2>4. QED
      BY <1>7, <2>2, <2>3
  <1>10. QED
    BY <1>3, <1>4, <1>8, <1>9

\* A batch is the first of what is pending, no more than the budget leaves.
LEMMA BatchProperties ==
    ASSUME TypeOK, NEW feeds
    PROVE  /\ Batch(feeds) \in Seq(Ids)
           /\ \A k \in 1..Len(Batch(feeds)) :
                /\ rating[Batch(feeds)[k]] > Ttl
                /\ Linked(Batch(feeds)[k][1], ShownOf(feeds)) => Batch(feeds)[k] = <<Batch(feeds)[k][1], "imdb">>
           /\ \A k, l \in 1..Len(Batch(feeds)) : Batch(feeds)[k] = Batch(feeds)[l] => k = l
           /\ Batch(feeds) # <<>> => usage + Len(Batch(feeds)) <= Budget
  <1> DEFINE P == Pending(ShownOf(feeds))
             n == Min({Len(P), Budget - usage})
  <1>1. /\ P \in Seq(Ids)
        /\ \A k \in 1..Len(P) :
             /\ rating[P[k]] > Ttl
             /\ Linked(P[k][1], ShownOf(feeds)) => P[k] = <<P[k][1], "imdb">>
        /\ \A k, l \in 1..Len(P) : P[k] = P[l] => k = l
    BY PendingProperties
  <1>2. Len(P) \in Nat /\ usage \in Nat /\ Budget \in Nat
    <2>1. Len(pool) \in Nat
      BY TrendingAssumption DEF TypeOK
    <2>2. QED
      BY <1>1, <2>1, TrendingAssumption DEF TypeOK, Budget
  <1> HIDE DEF P
  <1>3. CASE usage >= Budget
    BY <1>3 DEF Batch
  <1>4. CASE ~(usage >= Budget)
    <2>1. Budget - usage \in Nat
      BY <1>2, <1>4
    <2>2. n \in Nat /\ n <= Len(P) /\ n <= Budget - usage
      BY <1>2, <2>1, MinOfTwo
    <2>3. Batch(feeds) = SubSeq(P, 1, n)
      BY <1>4 DEF Batch, P
    <2> HIDE DEF n
    <2>4. /\ SubSeq(P, 1, n) \in Seq(Ids) /\ Len(SubSeq(P, 1, n)) = n
          /\ \A k \in 1..n : SubSeq(P, 1, n)[k] = P[k] /\ k \in 1..Len(P)
      BY <1>1, <1>2, <2>2
    <2>5. usage + n <= Budget
      BY <1>2, <2>2
    <2>6. QED
      BY <1>1, <2>3, <2>4, <2>5
  <1>5. QED
    BY <1>3, <1>4

\* The run a batch begins.
LEMMA BegunProperties ==
    ASSUME TypeOK, NEW feeds
    PROVE  LET r == Begun(feeds, Batch(feeds))
           IN  /\ r \in RunType /\ r.today
               /\ \A i \in DOMAIN r.jobs :
                    /\ r.jobs[i].at = "wait"
                    /\ r.jobs[i].group.aliases \subseteq {r.jobs[i].group.title} \X Forms
                    /\ r.jobs[i].group.linked => Alone(r.jobs, i)
                    /\ r.jobs[i].group.imdb => rating[<<r.jobs[i].group.title, "imdb">>] > Ttl
               /\ r # NoRun => usage + Len(r.jobs) <= Budget
  <1> DEFINE b == Batch(feeds)
             r == Begun(feeds, b)
  <1>1. /\ b \in Seq(Ids)
        /\ \A k \in 1..Len(b) :
             /\ rating[b[k]] > Ttl
             /\ Linked(b[k][1], ShownOf(feeds)) => b[k] = <<b[k][1], "imdb">>
        /\ \A k, l \in 1..Len(b) : b[k] = b[l] => k = l
        /\ b # <<>> => usage + Len(b) <= Budget
    BY BatchProperties
  <1> HIDE DEF b
  <1>2. CASE b = <<>>
    <2>1. r = NoRun /\ NoRun.jobs = <<>> /\ NoRun.today = TRUE /\ DOMAIN NoRun.jobs = {}
      BY <1>2 DEF Begun, NoRun
    <2>2. NoRun \in RunType
      BY DEF NoRun, RunType
    <2> HIDE DEF r
    <2>3. QED
      BY <2>1, <2>2 DEF b, r
  <1>3. CASE b # <<>>
    <2>1. /\ r.jobs = [i \in 1..Len(b) |-> Waiting(Group(b[i], ShownOf(feeds)))]
          /\ r.fails = 0 /\ r.today = TRUE
          /\ r = [jobs |-> r.jobs, fails |-> r.fails, today |-> r.today]
      BY <1>1, <1>3 DEF Begun
    <2>2. ASSUME NEW i \in 1..Len(b)
          PROVE  /\ r.jobs[i] \in JobType /\ r.jobs[i].at = "wait"
                 /\ r.jobs[i].group = Group(b[i], ShownOf(feeds)) /\ b[i] \in Ids
      <3>1. b[i] \in Ids
        BY <1>1
      <3>2. Group(b[i], ShownOf(feeds)) \in GroupType
        BY <3>1, GroupTyped
      <3>3. QED
        BY <2>1, <3>1, <3>2 DEF Waiting, JobType
    <2>3. r.jobs \in Seq(JobType) /\ Len(r.jobs) = Len(b) /\ DOMAIN r.jobs = 1..Len(b)
      <3>1. Len(b) \in Nat
        BY <1>1
      <3>2. QED
        BY <2>1, <2>2, <3>1
    <2>4. r \in RunType
      <3>1. ASSUME NEW jobs \in Seq(JobType)
            PROVE  [jobs |-> jobs, fails |-> 0, today |-> TRUE] \in RunType
        BY DEF RunType
      <3>2. r = [jobs |-> r.jobs, fails |-> 0, today |-> TRUE]
        BY <2>1
      <3> HIDE DEF r
      <3>3. QED
        BY <2>3, <3>1, <3>2
    <2>5. ASSUME NEW i \in DOMAIN r.jobs
          PROVE  /\ r.jobs[i].group.title = b[i][1]
                 /\ r.jobs[i].group.aliases \subseteq {b[i][1]} \X Forms
                 /\ r.jobs[i].group.linked = Linked(b[i][1], ShownOf(feeds))
                 /\ r.jobs[i].group.imdb => rating[<<b[i][1], "imdb">>] > Ttl
      <3> DEFINE g == Group(b[i], ShownOf(feeds))
      <3>1. i \in 1..Len(b) /\ r.jobs[i].group = g /\ b[i] \in Ids
        BY <2>2, <2>3
      <3>2. /\ g.title = b[i][1] /\ g.aliases \subseteq {b[i][1]} \X Forms
            /\ g.linked = Linked(b[i][1], ShownOf(feeds)) /\ (g.imdb => b[i] = <<b[i][1], "imdb">>)
        BY <3>1, GroupTyped
      <3>3. rating[b[i]] > Ttl
        BY <1>1, <3>1
      <3> HIDE DEF r, g
      <3>4. QED
        BY <3>1, <3>2, <3>3
    <2>6. ASSUME NEW i \in DOMAIN r.jobs, r.jobs[i].group.linked
          PROVE  Alone(r.jobs, i)
      <3> HIDE DEF r
      <3>1. SUFFICES ASSUME NEW j \in DOMAIN r.jobs \ {i}, r.jobs[j].group.title = r.jobs[i].group.title
                     PROVE  FALSE
        BY DEF Alone
      <3>2. b[j][1] = b[i][1] /\ Linked(b[i][1], ShownOf(feeds)) /\ i # j
        BY <2>5, <2>6, <3>1
      <3>3. b[i] = b[j]
        BY <1>1, <2>3, <3>2
      <3>4. QED
        BY <1>1, <2>3, <3>2, <3>3
    <2> HIDE DEF r
    <2>7. QED
      BY <1>1, <1>3, <2>1, <2>2, <2>3, <2>4, <2>5, <2>6 DEF b, r
  <1>4. QED
    BY <1>2, <1>3 DEF b, r
-----------------------------------------------------------------------------
(***************************************************************************)
(* Steps that begin a run, and steps of a run                              *)
(***************************************************************************)

\* A run begins when none is under way: what it is given is due.
LEMMA BeginKeeps ==
    ASSUME IInv, NEW feeds, NEW s \in Spawners, \A o \in Spawners \ {s} : run'[o] = NoRun,
           run' \in [Spawners -> RunType], run'[s] = Begun(feeds, Batch(feeds)), rating' = rating
    PROVE  OneRun' /\ OwnTitles' /\ StillDue'
  <1> DEFINE r == Begun(feeds, Batch(feeds))
  <1>1. /\ r.today
        /\ \A i \in DOMAIN r.jobs :
             /\ r.jobs[i].at = "wait"
             /\ r.jobs[i].group.aliases \subseteq {r.jobs[i].group.title} \X Forms
             /\ r.jobs[i].group.linked => Alone(r.jobs, i)
             /\ r.jobs[i].group.imdb => rating[<<r.jobs[i].group.title, "imdb">>] > Ttl
             /\ r.jobs[i].group.title \in Titles
    <2>1. /\ r \in RunType /\ r.today
          /\ \A i \in DOMAIN r.jobs :
               /\ r.jobs[i].at = "wait"
               /\ r.jobs[i].group.aliases \subseteq {r.jobs[i].group.title} \X Forms
               /\ r.jobs[i].group.linked => Alone(r.jobs, i)
               /\ r.jobs[i].group.imdb => rating[<<r.jobs[i].group.title, "imdb">>] > Ttl
      BY BegunProperties DEF IInv
    <2> HIDE DEF r
    <2>2. r.jobs \in Seq(JobType)
      BY <2>1 DEF RunType
    <2>3. \A i \in DOMAIN r.jobs : r.jobs[i].group.title \in Titles
      <3>1. \A i \in DOMAIN r.jobs : r.jobs[i] \in JobType
        BY <2>2
      <3>2. QED
        BY <3>1 DEF JobType, GroupType
    <2>4. QED
      BY <2>1, <2>3
  <1> HIDE DEF r
  <1>2. run'[s] = r /\ DOMAIN NoRun.jobs = {}
    BY DEF r, NoRun
  <1>3. OneRun'
    BY DEF OneRun
  <1>4. OwnTitles'
    <2>1. \A o \in Spawners : run'[o] = r \/ run'[o] = NoRun
      BY <1>2
    <2>2. SUFFICES ASSUME NEW o \in Spawners, run'[o] = r, NEW i \in DOMAIN run'[o].jobs
                   PROVE  /\ run'[o].jobs[i].group.aliases \subseteq {run'[o].jobs[i].group.title} \X Forms
                          /\ run'[o].jobs[i].group.linked => Alone(run'[o].jobs, i)
      BY <1>2, <2>1 DEF OwnTitles, Alone
    <2>3. QED
      BY <1>1, <2>2
  <1>5. StillDue'
    <2>1. ASSUME NEW i \in DOMAIN r.jobs, r.jobs[i].group.imdb
          PROVE  ~(rating[<<r.jobs[i].group.title, "imdb">>] <= Ttl)
      <3>1. rating[<<r.jobs[i].group.title, "imdb">>] \in Nat
        BY <1>1 DEF IInv, TypeOK, Ids, Forms
      <3>2. rating[<<r.jobs[i].group.title, "imdb">>] > Ttl
        BY <1>1, <2>1
      <3>3. Ttl \in Nat
        BY TrendingAssumption
      <3>4. \A n, m \in Nat : n > m => ~(n <= m)
        OBVIOUS
      <3>5. QED
        BY Zenon, <3>1, <3>2, <3>3, <3>4
    <2>2. QED
      BY <1>1, <1>2, <2>1 DEF StillDue, FreshFor
  <1>6. QED
    BY <1>3, <1>4, <1>5

\* The run of s goes on with job i, or ends: no other title's rating was
\* touched, and the job's own is still due if it will be asked for.
LEMMA GoesKeeps ==
    ASSUME IInv, NEW s \in Spawners, NEW i \in DOMAIN run[s].jobs,
           NEW job \in JobType, job.group = run[s].jobs[i].group,
           NEW fails \in Nat, Goes(s, i, job, fails), rating' \in [Ids -> Nat],
           \A k \in Ids : k[1] # job.group.title => rating'[k] = rating[k],
           Alone(run[s].jobs, i) /\ (job.at = "ask" \/ (job.at = "wait" /\ job.group.imdb))
             => ~FreshFor(s, rating'[<<job.group.title, "imdb">>])
    PROVE  run' \in [Spawners -> RunType] /\ OneRun' /\ OwnTitles' /\ StillDue'
  <1> DEFINE jobs == [run[s].jobs EXCEPT ![i] = job]
  <1>1. PICK sum \in Nat : \/ run' = [run EXCEPT ![s] = NoRun]
                           \/ run' = [run EXCEPT ![s] = [@ EXCEPT !.jobs = jobs, !.fails = sum]]
    BY TrendingAssumption DEF Goes
  <1>2. /\ run \in [Spawners -> RunType] /\ run[s].jobs \in Seq(JobType) /\ run[s].today \in BOOLEAN
        /\ run[s] \in RunType
    BY DEF IInv, TypeOK, RunType
  <1>3. /\ jobs \in Seq(JobType) /\ DOMAIN jobs = DOMAIN run[s].jobs /\ jobs[i] = job
        /\ \A j \in DOMAIN jobs \ {i} : jobs[j] = run[s].jobs[j]
    BY <1>2
  <1> HIDE DEF jobs
  <1>4. run' \in [Spawners -> RunType]
    <2>1. NoRun \in RunType
      BY DEF NoRun, RunType
    <2>2. [run[s] EXCEPT !.jobs = jobs, !.fails = sum] \in RunType
      BY <1>2, <1>3 DEF RunType
    <2>3. QED
      BY <1>1, <1>2, <2>1, <2>2
  <1>5. \A o \in Spawners \ {s} : run'[o] = run[o]
    BY <1>1, <1>2
  <1>6. /\ \/ run'[s] = NoRun
           \/ run[s] # NoRun /\ run'[s].jobs = jobs /\ run'[s].today = run[s].today
        /\ DOMAIN NoRun.jobs = {} /\ run[s] # NoRun
    <2>1. run[s] # NoRun /\ DOMAIN NoRun.jobs = {}
      BY DEF NoRun
    <2>2. CASE run' = [run EXCEPT ![s] = NoRun]
      BY <1>2, <2>1, <2>2
    <2>3. CASE run' = [run EXCEPT ![s] = [@ EXCEPT !.jobs = jobs, !.fails = sum]]
      <3>1. run'[s] = [run[s] EXCEPT !.jobs = jobs, !.fails = sum]
        BY <1>2, <2>3
      <3>2. run'[s].jobs = jobs /\ run'[s].today = run[s].today
        BY <1>2, <3>1 DEF RunType
      <3>3. QED
        BY <2>1, <3>2
    <2>4. QED
      BY <1>1, <2>2, <2>3
  <1>7. OneRun'
    BY <1>5, <1>6 DEF IInv, OneRun
  <1>8. \A o \in Spawners \ {s} : run[o] = NoRun /\ run'[o] = NoRun
    BY <1>5, <1>6 DEF IInv, OneRun
  <1>9. \A j \in DOMAIN jobs : jobs[j].group = run[s].jobs[j].group
    BY <1>3
  <1>10. \A j \in DOMAIN jobs : Alone(jobs, j) <=> Alone(run[s].jobs, j)
    BY <1>3, <1>9 DEF Alone
  <1>11. OwnTitles'
    <2>1. ASSUME run'[s].jobs = jobs, NEW j \in DOMAIN jobs
          PROVE  /\ jobs[j].group.aliases \subseteq {jobs[j].group.title} \X Forms
                 /\ jobs[j].group.linked => Alone(jobs, j)
      <3>1. /\ run[s].jobs[j].group.aliases \subseteq {run[s].jobs[j].group.title} \X Forms
            /\ run[s].jobs[j].group.linked => Alone(run[s].jobs, j)
        BY <1>3, <2>1 DEF IInv, OwnTitles
      <3>2. QED
        BY <1>9, <1>10, <2>1, <3>1
    <2>2. QED
      BY <1>6, <1>8, <2>1 DEF OwnTitles
  <1>12. StillDue'
    <2>1. ASSUME run'[s].jobs = jobs, run'[s].today = run[s].today, NEW j \in DOMAIN jobs, Alone(jobs, j),
                 jobs[j].at = "ask" \/ (jobs[j].at = "wait" /\ jobs[j].group.imdb)
          PROVE  ~FreshFor(s, rating'[<<jobs[j].group.title, "imdb">>])
      <3>1. CASE j = i
        BY <1>3, <1>10, <2>1, <3>1
      <3>2. CASE j # i
        <4>1. jobs[j] = run[s].jobs[j] /\ jobs[j].group.title # job.group.title
              /\ jobs[j].group.title \in Titles
          <5>1. jobs[j] = run[s].jobs[j] /\ jobs[j] \in JobType
            BY <1>3, <2>1, <3>2
          <5>2. run[s].jobs[j].group.title # run[s].jobs[i].group.title
            BY <1>3, <1>10, <2>1, <3>2 DEF Alone
          <5>3. QED
            BY <5>1, <5>2 DEF JobType, GroupType
        <4>2. rating'[<<jobs[j].group.title, "imdb">>] = rating[<<jobs[j].group.title, "imdb">>]
          BY <4>1 DEF Ids, Forms
        <4>3. ~FreshFor(s, rating[<<jobs[j].group.title, "imdb">>])
          BY ZenonT(40), <1>3, <1>10, <2>1, <4>1 DEF IInv, StillDue
        <4>4. QED
          BY <4>2, <4>3
      <3>3. QED
        BY <3>1, <3>2
    <2>2. QED
      BY <1>6, <1>8, <2>1 DEF StillDue, FreshFor
  <1>13. QED
    BY <1>4, <1>7, <1>11, <1>12
-----------------------------------------------------------------------------
(***************************************************************************)
(* Every step keeps the invariant                                          *)
(***************************************************************************)

\* A step that leaves ratings and runs alone.
LEMMA QuietKeeps ==
    ASSUME IInv, UNCHANGED <<rating, run>>
    PROVE  run' \in [Spawners -> RunType] /\ rating' \in [Ids -> Nat] /\ OneRun' /\ OwnTitles' /\ StillDue'
  BY DEF IInv, TypeOK, OneRun, OwnTitles, StillDue, FreshFor

\* A spawned backfill begins when none runs.
LEMMA SpawnKeeps ==
    ASSUME IInv, NEW s \in Spawners, Spawn(s), rating' = rating
    PROVE  run' \in [Spawners -> RunType] /\ rating' \in [Ids -> Nat] /\ OneRun' /\ OwnTitles' /\ StillDue'
  <1>1. CASE \E o \in Spawners : run[o] # NoRun
    BY <1>1, QuietKeeps DEF Spawn
  <1>2. CASE \A o \in Spawners : run[o] = NoRun
    <2>1. run' = [run EXCEPT ![s] = Begun(store', Batch(store'))]
      BY <1>2 DEF Spawn
    <2>2. Begun(store', Batch(store')) \in RunType
      BY BegunProperties DEF IInv
    <2>3. /\ run' \in [Spawners -> RunType] /\ run'[s] = Begun(store', Batch(store'))
          /\ \A o \in Spawners \ {s} : run'[o] = NoRun
      BY <1>2, <2>1, <2>2 DEF IInv, TypeOK
    <2>4. QED
      BY <2>3, BeginKeeps DEF IInv, TypeOK
  <1>3. QED
    BY <1>1, <1>2

LEMMA RestartKeeps ==
    ASSUME IInv, Restart
    PROVE  IInv'
  <1> DEFINE begun == Begun(store', Batch(store'))
  <1>1. /\ run' = [s \in Spawners |-> IF s = "cycle" /\ ~active' THEN begun ELSE NoRun]
        /\ omdb' = [omdb EXCEPT !.active = 1, !.over = FALSE]
        /\ UNCHANGED <<rating, pool, usage>>
    BY DEF Restart
  <1>2. begun \in RunType /\ NoRun \in RunType
    BY BegunProperties DEF IInv, NoRun, RunType
  <1>3. run' \in [Spawners -> RunType]
    <2> HIDE DEF begun
    <2> QED BY <1>1, <1>2
  <1>4. TypeOK'
    BY <1>1, <1>3 DEF IInv, TypeOK
  <1>5. CASE active'
    <2>1. \A s \in Spawners : run'[s] = NoRun /\ DOMAIN NoRun.jobs = {}
      BY <1>1, <1>5 DEF NoRun
    <2>2. QED
      BY <1>4, <2>1 DEF IInv, OneRun, OwnTitles, StillDue
  <1>6. CASE ~active'
    <2>1. run'["cycle"] = begun /\ \A o \in Spawners \ {"cycle"} : run'[o] = NoRun
      BY <1>1, <1>6 DEF Spawners
    <2>2. "cycle" \in Spawners
      BY DEF Spawners
    <2>3. OneRun' /\ OwnTitles' /\ StillDue'
      BY <1>1, <1>3, <2>1, <2>2, BeginKeeps
    <2>4. QED
      BY <1>4, <2>3 DEF IInv
  <1>7. QED
    BY <1>5, <1>6

\* Midnight makes ratings older, and a run goes on with its own day's cutoff.
LEMMA NewDayKeeps ==
    ASSUME IInv, NewDay
    PROVE  IInv'
  <1>1. /\ \A s \in Spawners : run[s].today
        /\ run' = [s \in Spawners |-> IF run[s] = NoRun THEN NoRun ELSE [run[s] EXCEPT !.today = FALSE]]
        /\ rating' = [k \in DOMAIN rating |-> IF rating[k] = Missing THEN Missing ELSE Older(rating[k], Long)]
        /\ omdb' = [omdb EXCEPT !.over = TRUE, !.out = {}] /\ usage' = 0 /\ pool' = pool
    BY DEF NewDay
  <1>2. ASSUME NEW a \in Nat
        PROVE  Older(a, Long) \in Nat /\ (a > Ttl => Older(a, Long) = Long)
    <2>1. Long \in Nat /\ Long = Ttl + 2 /\ Ttl \in Nat
      BY TrendingAssumption DEF Long
    <2>2. Min({a + 1, Long}) <= Long /\ Min({a + 1, Long}) \in {a + 1, Long}
      BY <2>1, MinOfTwo
    <2>3. QED
      BY <2>1, <2>2 DEF Older
  <1>3. Missing \in Nat /\ Missing > Ttl + 1 /\ Long > Ttl + 1 /\ Ttl \in Nat
    BY TrendingAssumption DEF Missing, Long
  <1>4. /\ rating' \in [Ids -> Nat]
        /\ \A k \in Ids : rating[k] > Ttl => rating'[k] > Ttl + 1
    BY <1>1, <1>2, <1>3 DEF IInv, TypeOK
  <1>5. \A s \in Spawners :
          /\ run'[s] \in RunType /\ run'[s].jobs = run[s].jobs
          /\ run[s] = NoRun => run'[s] = NoRun
          /\ run[s] # NoRun => ~run'[s].today
    <2>1. \A s \in Spawners : run[s] \in RunType /\ [run[s] EXCEPT !.today = FALSE] \in RunType
      BY DEF IInv, TypeOK, RunType
    <2>2. QED
      BY <1>1, <2>1 DEF IInv, TypeOK, RunType
  <1>6. TypeOK'
    <2>1. run' \in [Spawners -> RunType]
      BY <1>1, <1>5
    <2>2. QED
      BY <1>1, <1>4, <2>1 DEF IInv, TypeOK
  <1>7. OneRun' /\ OwnTitles'
    BY <1>5 DEF IInv, OneRun, OwnTitles
  <1>8. StillDue'
    <2> SUFFICES ASSUME NEW s \in Spawners, NEW i \in DOMAIN run'[s].jobs,
                        LET job == run'[s].jobs[i] IN job.at = "ask" \/ (job.at = "wait" /\ job.group.imdb),
                        Alone(run[s].jobs, i)
                 PROVE  ~FreshFor(s, rating[<<run[s].jobs[i].group.title, "imdb">>])'
      BY <1>5 DEF StillDue
    <2> DEFINE k == <<run[s].jobs[i].group.title, "imdb">>
    <2>1. run'[s].jobs = run[s].jobs /\ i \in DOMAIN run[s].jobs /\ run[s] # NoRun /\ ~run'[s].today
      BY <1>5 DEF NoRun
    <2>2. ~FreshFor(s, rating[k])
      BY <2>1 DEF IInv, StillDue
    <2>3. k \in Ids
      <3>1. run[s].jobs \in Seq(JobType)
        BY DEF IInv, TypeOK, RunType
      <3>2. run[s].jobs[i] \in JobType
        BY <2>1, <3>1
      <3>3. QED
        BY <3>2 DEF JobType, GroupType, Ids, Forms
    <2> HIDE DEF k
    <2>4. rating[k] \in Nat /\ rating'[k] \in Nat
      BY <1>4, <2>3 DEF IInv, TypeOK
    <2>5. rating'[k] > Ttl + 1
      BY <1>1, <1>3, <1>4, <2>2, <2>3, <2>4 DEF FreshFor
    <2>6. QED
      BY <1>3, <2>1, <2>4, <2>5 DEF FreshFor, k
  <1>9. QED
    BY <1>6, <1>7, <1>8 DEF IInv

\* A job's type and group, and the key of its title.
LEMMA JobOf ==
    ASSUME IInv, NEW s \in Spawners, NEW i \in DOMAIN run[s].jobs
    PROVE  /\ run[s].jobs[i] \in JobType /\ <<run[s].jobs[i].group.title, "imdb">> \in Ids
           /\ run[s].fails \in Nat
           /\ run[s].jobs[i].group.aliases \subseteq {run[s].jobs[i].group.title} \X Forms
  <1>1. run[s].jobs \in Seq(JobType) /\ run[s].fails \in Nat
    BY DEF IInv, TypeOK, RunType
  <1>2. run[s].jobs[i] \in JobType
    BY <1>1
  <1>3. <<run[s].jobs[i].group.title, "imdb">> \in Ids
    BY <1>2 DEF JobType, GroupType, Ids, Forms
  <1>4. QED
    BY <1>1, <1>2, <1>3 DEF IInv, OwnTitles

LEMMA DoneTyped ==
    ASSUME NEW job \in JobType
    PROVE  Done(job) \in JobType /\ Done(job).group = job.group /\ Done(job).at = "done"
  BY DEF Done, JobType

\* A job is done and no rating was touched.
LEMMA DoneKeeps ==
    ASSUME IInv, NEW s \in Spawners, NEW i \in DOMAIN run[s].jobs, NEW fails \in Nat,
           Goes(s, i, Done(run[s].jobs[i]), fails), rating' = rating
    PROVE  run' \in [Spawners -> RunType] /\ OneRun' /\ OwnTitles' /\ StillDue'
  <1> DEFINE job == Done(run[s].jobs[i])
  <1>1. job \in JobType /\ job.group = run[s].jobs[i].group /\ job.at = "done"
    BY JobOf, DoneTyped
  <1> HIDE DEF job
  <1>2. Goes(s, i, job, fails) /\ rating' \in [Ids -> Nat]
    BY DEF job, IInv, TypeOK
  <1>3. QED
    BY <1>1, <1>2, GoesKeeps

\* A lookup goes to OMDb for a title that is due, or finds no key.
LEMMA AskKeeps ==
    ASSUME IInv, NEW s \in Spawners, NEW i \in DOMAIN run[s].jobs, NEW fails \in Nat,
           Ask(s, i, run[s].jobs[i], fails), rating' = rating,
           Alone(run[s].jobs, i) => ~FreshFor(s, rating[<<run[s].jobs[i].group.title, "imdb">>])
    PROVE  /\ run' \in [Spawners -> RunType] /\ OneRun' /\ OwnTitles' /\ StillDue'
           /\ omdb' \in [active : Nat, over : BOOLEAN, out : SUBSET Keys]
  <1>1. First \in Nat
    BY DEF First, IInv, TypeOK
  <1>2. omdb' \in [active : Nat, over : BOOLEAN, out : SUBSET Keys]
    <2>1. omdb' = [omdb EXCEPT !.active = First, !.over = FALSE]
      BY DEF Ask
    <2>2. QED
      BY <1>1, <2>1 DEF IInv, TypeOK
  <1>3. CASE First > Len(pool)
    <2>1. Goes(s, i, Done(run[s].jobs[i]), fails + 1) /\ fails + 1 \in Nat
      BY <1>3 DEF Ask
    <2>2. QED
      BY <1>2, <2>1, DoneKeeps
  <1>4. CASE ~(First > Len(pool))
    <2> DEFINE job == [run[s].jobs[i] EXCEPT !.at = "ask", !.index = First, !.keys = pool]
    <2>1. Goes(s, i, job, fails)
      BY <1>4 DEF Ask
    <2>2. job \in JobType /\ job.group = run[s].jobs[i].group /\ job.at = "ask"
      <3>1. run[s].jobs[i] \in JobType /\ pool \in Pools
        BY JobOf DEF IInv, TypeOK
      <3>2. QED
        BY <1>1, <3>1 DEF JobType
    <2> HIDE DEF job
    <2>3. rating' \in [Ids -> Nat]
      BY DEF IInv, TypeOK
    <2>4. run' \in [Spawners -> RunType] /\ OneRun' /\ OwnTitles' /\ StillDue'
      BY <2>1, <2>2, <2>3, GoesKeeps
    <2>5. QED
      BY <1>2, <2>4
  <1>5. QED
    BY <1>3, <1>4

LEMMA TurnKeeps ==
    ASSUME IInv, NEW s \in Spawners, NEW i \in DOMAIN run[s].jobs, Turn(s, i)
    PROVE  IInv'
  <1> DEFINE job == run[s].jobs[i]
  <1>1. job.at = "wait" /\ job \in JobType /\ run[s].fails \in Nat /\ UNCHANGED <<rating, usage, pool>>
    BY JobOf DEF Turn
  <1>2. CASE Goes(s, i, Done(job), run[s].fails) /\ UNCHANGED omdb
    <2>1. run' \in [Spawners -> RunType] /\ OneRun' /\ OwnTitles' /\ StillDue'
      BY <1>1, <1>2, DoneKeeps
    <2>2. QED
      BY <1>1, <1>2, <2>1 DEF IInv, TypeOK
  <1>3. CASE job.group.imdb /\ Ask(s, i, job, run[s].fails)
    <2>1. Alone(run[s].jobs, i) => ~FreshFor(s, rating[<<job.group.title, "imdb">>])
      BY <1>1, <1>3 DEF IInv, StillDue
    <2>2. /\ run' \in [Spawners -> RunType] /\ OneRun' /\ OwnTitles' /\ StillDue'
          /\ omdb' \in [active : Nat, over : BOOLEAN, out : SUBSET Keys]
      BY <1>1, <1>3, <2>1, AskKeeps
    <2>3. QED
      BY <1>1, <2>2 DEF IInv, TypeOK
  <1>4. CASE Goes(s, i, [job EXCEPT !.at = "resolve"], run[s].fails) /\ UNCHANGED omdb
    <2> DEFINE new == [job EXCEPT !.at = "resolve"]
    <2>1. new \in JobType /\ new.group = job.group /\ new.at = "resolve" /\ Goes(s, i, new, run[s].fails)
      BY <1>1, <1>4 DEF JobType
    <2> HIDE DEF new
    <2>2. run' \in [Spawners -> RunType] /\ OneRun' /\ OwnTitles' /\ StillDue'
      BY <1>1, <2>1, GoesKeeps DEF IInv, TypeOK
    <2>3. QED
      BY <1>1, <1>4, <2>2 DEF IInv, TypeOK
  <1>5. QED
    BY <1>2, <1>3, <1>4 DEF Turn

\* The title's ratings become new, nobody else's change.
LEMMA RatingsOfTitle ==
    ASSUME IInv, NEW S, NEW t \in Titles, S \subseteq {t} \X Forms,
           rating' = [k \in DOMAIN rating |-> IF k \in S THEN 0 ELSE rating[k]]
    PROVE  rating' \in [Ids -> Nat] /\ \A k \in Ids : k[1] # t => rating'[k] = rating[k]
  BY DEF IInv, TypeOK, Ids

LEMMA ResolvedKeeps ==
    ASSUME IInv, NEW s \in Spawners, NEW i \in DOMAIN run[s].jobs, Resolved(s, i)
    PROVE  IInv'
  <1> DEFINE job == run[s].jobs[i]
             t   == job.group.title
  <1>1. /\ job.at = "resolve" /\ job \in JobType /\ run[s].fails \in Nat /\ UNCHANGED <<usage, pool>>
        /\ t \in Titles /\ job.group.aliases \subseteq {t} \X Forms
    BY JobOf DEF Resolved, JobType, GroupType
  <1>2. CASE Goes(s, i, Done(job), run[s].fails) /\ UNCHANGED <<rating, omdb>>
    <2>1. run' \in [Spawners -> RunType] /\ OneRun' /\ OwnTitles' /\ StillDue'
      BY <1>1, <1>2, DoneKeeps
    <2>2. QED
      BY <1>1, <1>2, <2>1 DEF IInv, TypeOK
  <1>3. CASE /\ rating' = [k \in DOMAIN rating |-> IF k \in job.group.aliases THEN 0 ELSE rating[k]]
             /\ Goes(s, i, Done(job), run[s].fails) /\ UNCHANGED omdb
    <2> DEFINE new == Done(job)
    <2>1. new \in JobType /\ new.group = job.group /\ new.at = "done" /\ Goes(s, i, new, run[s].fails)
      BY <1>1, <1>3, DoneTyped
    <2> HIDE DEF new
    <2>2. rating' \in [Ids -> Nat] /\ \A k \in Ids : k[1] # t => rating'[k] = rating[k]
      BY <1>1, <1>3, RatingsOfTitle
    <2>3. run' \in [Spawners -> RunType] /\ OneRun' /\ OwnTitles' /\ StillDue'
      BY <1>1, <2>1, <2>2, GoesKeeps
    <2>4. QED
      BY <1>1, <1>3, <2>2, <2>3 DEF IInv, TypeOK
  <1>4. CASE ~Copied(s, t) /\ Ask(s, i, job, run[s].fails) /\ UNCHANGED rating
    <2>1. /\ run' \in [Spawners -> RunType] /\ OneRun' /\ OwnTitles' /\ StillDue'
          /\ omdb' \in [active : Nat, over : BOOLEAN, out : SUBSET Keys]
      BY <1>1, <1>4, AskKeeps DEF Copied
    <2>2. QED
      BY <1>1, <1>4, <2>1 DEF IInv, TypeOK
  <1>5. QED
    BY <1>2, <1>3, <1>4 DEF Resolved

LEMMA RejectedKeeps ==
    ASSUME IInv, NEW s \in Spawners, NEW i \in DOMAIN run[s].jobs, Rejected(s, i)
    PROVE  IInv'
  <1> DEFINE job  == run[s].jobs[i]
             next == job.index + 1
             n    == Len(job.keys)
  <1>1. /\ job.at = "ask" /\ job \in JobType /\ run[s].fails \in Nat /\ UNCHANGED <<rating, usage, pool>>
        /\ omdb' = [omdb EXCEPT !.active = Max({@, Min({next, n})})]
    BY JobOf DEF Rejected
  <1>2. next \in Nat /\ n \in Nat
    <2>1. job.keys \in Pools \cup {<<>>} /\ job.index \in Nat
      BY <1>1 DEF JobType
    <2>2. QED
      BY <2>1, TrendingAssumption
  <1>3. omdb' \in [active : Nat, over : BOOLEAN, out : SUBSET Keys]
    <2>1. Min({next, n}) \in Nat /\ omdb.active \in Nat
      BY <1>2, MinOfTwo DEF IInv, TypeOK
    <2>2. Max({omdb.active, Min({next, n})}) \in Nat
      BY <2>1, MaxOfTwo
    <2>3. QED
      BY <1>1, <2>2 DEF IInv, TypeOK
  <1>4. CASE Goes(s, i, Done(job), run[s].fails + 1)
    <2>1. run[s].fails + 1 \in Nat
      BY <1>1
    <2>2. run' \in [Spawners -> RunType] /\ OneRun' /\ OwnTitles' /\ StillDue'
      BY <1>1, <1>4, <2>1, DoneKeeps
    <2>3. QED
      BY <1>1, <1>3, <2>2 DEF IInv, TypeOK
  <1>5. CASE Goes(s, i, [job EXCEPT !.index = next], run[s].fails)
    <2> DEFINE new == [job EXCEPT !.index = next]
    <2>1. new \in JobType /\ new.group = job.group /\ new.at = "ask" /\ Goes(s, i, new, run[s].fails)
      BY <1>1, <1>2, <1>5 DEF JobType
    <2> HIDE DEF new
    <2>2. /\ rating' \in [Ids -> Nat]
          /\ Alone(run[s].jobs, i) => ~FreshFor(s, rating'[<<job.group.title, "imdb">>])
      BY <1>1 DEF IInv, TypeOK, StillDue
    <2>3. run' \in [Spawners -> RunType] /\ OneRun' /\ OwnTitles' /\ StillDue'
      BY <1>1, <2>1, <2>2, GoesKeeps
    <2>4. QED
      BY <1>1, <1>3, <2>3 DEF IInv, TypeOK
  <1>6. QED
    BY <1>4, <1>5 DEF Rejected

LEMMA RateKeeps ==
    ASSUME IInv, NEW s \in Spawners, NEW i \in DOMAIN run[s].jobs, Rate(s, i)
    PROVE  IInv'
  <1> DEFINE job == run[s].jobs[i]
             g   == job.group
             S   == g.aliases \cup {<<g.title, "imdb">>}
             new == Done(job)
  <1>1. /\ job \in JobType /\ g.title \in Titles /\ g.aliases \subseteq {g.title} \X Forms
        /\ usage' = (IF run[s].today THEN usage + 1 ELSE usage) /\ UNCHANGED pool
        /\ omdb' = [omdb EXCEPT !.active = job.index]
        /\ rating' = [k \in DOMAIN rating |-> IF k \in S THEN 0 ELSE rating[k]]
        /\ Goes(s, i, new, 0)
    BY JobOf DEF Rate, JobType, GroupType
  <1>2. new \in JobType /\ new.group = g /\ new.at = "done"
    BY <1>1, DoneTyped
  <1> HIDE DEF new
  <1>3. rating' \in [Ids -> Nat] /\ \A k \in Ids : k[1] # g.title => rating'[k] = rating[k]
    <2>1. S \subseteq {g.title} \X Forms
      BY <1>1 DEF Forms
    <2> HIDE DEF S, g
    <2>2. QED
      BY <1>1, <2>1, RatingsOfTitle
  <1>4. run' \in [Spawners -> RunType] /\ OneRun' /\ OwnTitles' /\ StillDue'
    BY ZenonT(40), <1>1, <1>2, <1>3, GoesKeeps
  <1>5. usage' \in Nat /\ omdb' \in [active : Nat, over : BOOLEAN, out : SUBSET Keys]
    BY <1>1 DEF IInv, TypeOK, JobType
  <1>6. QED
    BY <1>1, <1>3, <1>4, <1>5 DEF IInv, TypeOK

LEMMA UnreachableKeeps ==
    ASSUME IInv, NEW s \in Spawners, NEW i \in DOMAIN run[s].jobs, Unreachable(s, i)
    PROVE  IInv'
  <1>1. /\ Goes(s, i, Done(run[s].jobs[i]), run[s].fails + 1) /\ run[s].fails + 1 \in Nat
        /\ UNCHANGED <<rating, usage, pool>>
        /\ UNCHANGED omdb \/ omdb' = [omdb EXCEPT !.active = run[s].jobs[i].index]
    <2>1. run[s].fails \in Nat
      BY JobOf
    <2>2. QED
      BY <2>1 DEF Unreachable
  <1>2. run' \in [Spawners -> RunType] /\ OneRun' /\ OwnTitles' /\ StillDue'
    <2> DEFINE fails == run[s].fails + 1
    <2>1. Goes(s, i, Done(run[s].jobs[i]), fails) /\ fails \in Nat /\ rating' = rating
      BY <1>1
    <2> HIDE DEF fails
    <2>2. QED
      BY <2>1, DoneKeeps
  <1>3. omdb' \in [active : Nat, over : BOOLEAN, out : SUBSET Keys]
    <2>1. run[s].jobs[i].index \in Nat
      BY JobOf DEF JobType
    <2>2. QED
      BY <1>1, <2>1 DEF IInv, TypeOK
  <1>4. QED
    BY <1>1, <1>2, <1>3 DEF IInv, TypeOK

\* The steps of cycles, page reads and the surroundings.
LEMMA OthersKeep ==
    ASSUME IInv,
           \/ Job \/ Reschedule \/ ReadAnswered \/ Hourly \/ EditKeys \/ OfferChanges
           \/ \E r \in Runners : Fetched(r)
           \/ \E f \in Feeds : Read(f)
           \/ \E k \in Keys : UsedUp(k)
    PROVE  IInv'
  <1>1. /\ rating' = rating /\ usage' = usage /\ pool' \in Pools
        /\ omdb' \in [active : Nat, over : BOOLEAN, out : SUBSET Keys]
        /\ UNCHANGED run \/ \E s \in Spawners : Spawn(s)
    <2>1. CASE Job \/ Reschedule \/ ReadAnswered \/ OfferChanges \/ \E f \in Feeds : Read(f)
      BY <2>1 DEF Job, Reschedule, ReadAnswered, OfferChanges, Read, rated, IInv, TypeOK
    <2>2. CASE Hourly
      BY <2>2 DEF Hourly, Spawners, IInv, TypeOK
    <2>3. CASE EditKeys
      BY <2>3 DEF EditKeys, rated, IInv, TypeOK
    <2>4. ASSUME NEW k \in Keys, UsedUp(k)
          PROVE  /\ rating' = rating /\ usage' = usage /\ pool' \in Pools
                 /\ omdb' \in [active : Nat, over : BOOLEAN, out : SUBSET Keys] /\ UNCHANGED run
      BY <2>4 DEF UsedUp, IInv, TypeOK
    <2>5. ASSUME NEW r \in Runners, Fetched(r)
          PROVE  /\ UNCHANGED <<rating, omdb, usage, pool>>
                 /\ UNCHANGED run \/ Spawn("cycle")
      BY <2>5 DEF Fetched, Ended, rated
    <2>6. QED
      BY <2>1, <2>2, <2>3, <2>4, <2>5 DEF Spawners, IInv, TypeOK
  <1>2. run' \in [Spawners -> RunType] /\ rating' \in [Ids -> Nat] /\ OneRun' /\ OwnTitles' /\ StillDue'
    BY <1>1, QuietKeeps, SpawnKeeps
  <1>3. QED
    BY <1>1, <1>2 DEF IInv, TypeOK

LEMMA InitIInv == Init => IInv
  <1> SUFFICES ASSUME Init PROVE IInv
    OBVIOUS
  <1>1. \A s \in Spawners : run[s] = NoRun /\ DOMAIN NoRun.jobs = {}
    BY DEF Init, NoRun
  <1>2. NoRun \in RunType /\ Missing \in Nat /\ FirstPool \in Pools
    BY TrendingAssumption DEF NoRun, RunType, Missing, Long
  <1>3. TypeOK
    BY <1>2 DEF Init, TypeOK, Ids
  <1>4. QED
    BY <1>1, <1>3 DEF IInv, OneRun, OwnTitles, StillDue

LEMMA StepIInv == IInv /\ [Next]_vars => IInv'
  <1> SUFFICES ASSUME IInv, [Next]_vars PROVE IInv'
    OBVIOUS
  <1>1. CASE \/ Job \/ Reschedule \/ ReadAnswered \/ Hourly \/ EditKeys \/ OfferChanges
             \/ \E r \in Runners : Fetched(r)
             \/ \E f \in Feeds : Read(f)
             \/ \E k \in Keys : UsedUp(k)
    BY <1>1, OthersKeep
  <1>2. CASE NewDay \/ Restart
    BY <1>2, NewDayKeeps, RestartKeeps
  <1>3. ASSUME NEW s \in Spawners, Lookup(s)
        PROVE  IInv'
    BY <1>3, TurnKeeps, ResolvedKeeps, RejectedKeeps, RateKeeps, UnreachableKeeps DEF Lookup
  <1>4. CASE UNCHANGED vars
    BY <1>4, QuietKeeps DEF vars, IInv, TypeOK
  <1>5. QED
    BY <1>1, <1>2, <1>3, <1>4 DEF Next

\* Whatever is shown, offered, asked and answered: one backfill at a time, one
\* job for a title whose ids are linked, and only while it is still due.
THEOREM SpecIInv == Spec => []IInv
  BY InitIInv, StepIInv, PTL DEF Spec

\* OMDb is never asked for a title whose rating is fresh, nor for a title twice
\* at once, where a row links the title's ids or the run has but one of them.
THEOREM SpecPaidOnce == Spec => []PaidOnce
  <1>1. IInv => PaidOnce
    <2> SUFFICES ASSUME IInv, NEW s \in Spawners, NEW i \in DOMAIN run[s].jobs, run[s].jobs[i].at = "ask",
                        run[s].jobs[i].group.linked \/ Twins(s, i) = {}
                 PROVE  Due(s, i)
      BY DEF PaidOnce
    <2>1. Alone(run[s].jobs, i) /\ Twins(s, i) = {}
      BY DEF IInv, OwnTitles, Alone, Twins
    <2>2. QED
      BY <2>1 DEF IInv, StillDue, Due
  <1>2. QED
    BY <1>1, SpecIInv, PTL
-----------------------------------------------------------------------------
(***************************************************************************)
(* The daily budget                                                        *)
(***************************************************************************)

\* The jobs a run has left: of the run of s one less when job i is done, and
\* none of another.
LEMMA GoesLeavesOpen ==
    ASSUME IInv, NEW s \in Spawners, NEW i \in DOMAIN run[s].jobs, run[s].jobs[i].at # "done",
           NEW job \in JobType, NEW fails, Goes(s, i, job, fails)
    PROVE  /\ run'[s] = NoRun \/ run'[s].today = run[s].today
           /\ Open(s)' \subseteq Open(s) /\ i \in Open(s)
           /\ job.at = "done" => Open(s)' \subseteq Open(s) \ {i}
           /\ \A o \in Spawners \ {s} : run'[o] = NoRun /\ run[o] = NoRun
  <1> DEFINE jobs == [run[s].jobs EXCEPT ![i] = job]
             sum  == IF run[s].fails >= Breaker THEN Breaker ELSE fails
  <1>1. /\ run \in [Spawners -> RunType] /\ run[s].jobs \in Seq(JobType) /\ run[s] \in RunType
        /\ run[s] # NoRun /\ DOMAIN NoRun.jobs = {}
    BY DEF IInv, TypeOK, RunType, NoRun
  <1>2. DOMAIN jobs = DOMAIN run[s].jobs /\ jobs[i] = job
        /\ \A j \in DOMAIN jobs \ {i} : jobs[j] = run[s].jobs[j]
    BY <1>1
  <1>3. run' = [run EXCEPT ![s] = NoRun] \/ run' = [run EXCEPT ![s] = [@ EXCEPT !.jobs = jobs, !.fails = sum]]
    BY DEF Goes
  <1> HIDE DEF jobs, sum
  <1>4. run'[s] = NoRun \/ (run'[s].jobs = jobs /\ run'[s].today = run[s].today)
    BY <1>1, <1>3 DEF RunType
  <1>5. \A o \in Spawners \ {s} : run'[o] = NoRun /\ run[o] = NoRun
    BY <1>1, <1>3 DEF IInv, OneRun
  <1>6. i \in Open(s)
    BY DEF Open, JobsLeft
  <1>7. Open(s)' \subseteq Open(s) /\ (job.at = "done" => Open(s)' \subseteq Open(s) \ {i})
    BY <1>1, <1>2, <1>4 DEF Open, JobsLeft
  <1>8. QED
    BY <1>4, <1>5, <1>6, <1>7

LEMMA LeftFinite ==
    ASSUME NEW r \in RunType
    PROVE  /\ IsFiniteSet(JobsLeft(r)) /\ Cardinality(JobsLeft(r)) \in Nat
           /\ Cardinality(JobsLeft(r)) <= Len(r.jobs) /\ Len(r.jobs) \in Nat
           /\ r = NoRun => Cardinality(JobsLeft(r)) = 0
  <1>1. r.jobs \in Seq(JobType)
    BY DEF RunType
  <1>2. Len(r.jobs) \in Nat /\ DOMAIN r.jobs = 1..Len(r.jobs)
    BY <1>1
  <1>3. IsFiniteSet(1..Len(r.jobs)) /\ Cardinality(1..Len(r.jobs)) = Len(r.jobs)
    BY <1>2, FS_Interval
  <1>4. JobsLeft(r) \in SUBSET (1..Len(r.jobs))
    BY <1>2 DEF JobsLeft
  <1>5. r = NoRun => JobsLeft(r) = {}
    BY DEF JobsLeft, NoRun
  <1>6. QED
    BY <1>2, <1>3, <1>4, <1>5, FS_Subset, FS_CardinalityType, FS_EmptySet

\* A bound of the budgets of all pools bounds the budget of today's.
LEMMA BudgetBound ==
    ASSUME NEW B \in Nat, \A p \in Pools : BudgetPerKey * Len(p) <= B, TypeOK
    PROVE  Budget <= B
  BY DEF TypeOK, Budget

\* A run that begins charges no more than the budget leaves.
LEMMA BeginWithin ==
    ASSUME IInv, NEW B \in Nat, \A p \in Pools : BudgetPerKey * Len(p) <= B, Within(B),
           NEW feeds, NEW s \in Spawners, run'[s] \in {NoRun, Begun(feeds, Batch(feeds))},
           \A o \in Spawners \ {s} : run'[o] = NoRun, usage' = usage
    PROVE  Within(B)'
  <1> DEFINE r == Begun(feeds, Batch(feeds))
  <1>1. r \in RunType /\ NoRun \in RunType /\ (r # NoRun => usage + Len(r.jobs) <= Budget)
    BY BegunProperties DEF IInv, NoRun, RunType
  <1> HIDE DEF r
  <1>2. Budget <= B /\ usage \in Nat /\ usage <= B /\ Budget \in Int
    BY BudgetBound, TrendingAssumption DEF IInv, TypeOK, Within, Budget
  <1>3. \A x \in {NoRun, r} : usage + Cardinality(JobsLeft(x)) <= B
    BY <1>1, <1>2, LeftFinite
  <1>4. \A o \in Spawners : run'[o] \in {NoRun, r}
    BY DEF r
  <1>5. QED
    BY <1>2, <1>3, <1>4 DEF Within, Open

\* A lookup that is answered was one of those still open.
LEMMA LookupWithin ==
    ASSUME IInv, IInv', NEW B \in Nat, Within(B), NEW s \in Spawners, Lookup(s)
    PROVE  Within(B)'
  <1>1. PICK i \in DOMAIN run[s].jobs :
            Turn(s, i) \/ Resolved(s, i) \/ Rejected(s, i) \/ Rate(s, i) \/ Unreachable(s, i)
    BY DEF Lookup
  <1> DEFINE job0 == run[s].jobs[i]
  <1>2. job0.at # "done" /\ job0 \in JobType /\ Done(job0) \in JobType /\ Done(job0).at = "done"
    <2>1. job0.at # "done"
      BY <1>1 DEF Turn, Resolved, Rejected, Rate, Unreachable
    <2>2. QED
      BY <2>1, JobOf, DoneTyped
  <1>3. /\ run[s] \in RunType /\ run'[s] \in RunType /\ usage \in Nat /\ usage <= B
        /\ run[s].today \in BOOLEAN
    BY DEF IInv, TypeOK, RunType, Within
  <1>4. run[s].today => usage + Cardinality(Open(s)) <= B
    BY DEF Within
  <1>5. IsFiniteSet(Open(s)) /\ Cardinality(Open(s)) \in Nat
    BY <1>3, LeftFinite DEF Open
  <1>6. ASSUME NEW fails, NEW job \in JobType, Goes(s, i, job, fails),
               \/ usage' = usage
               \/ job.at = "done" /\ usage' = IF run[s].today THEN usage + 1 ELSE usage
        PROVE  Within(B)'
    <2>1. /\ run'[s] = NoRun \/ run'[s].today = run[s].today
          /\ Open(s)' \subseteq Open(s) /\ i \in Open(s)
          /\ job.at = "done" => Open(s)' \subseteq Open(s) \ {i}
          /\ \A o \in Spawners \ {s} : run'[o] = NoRun
      BY <1>2, <1>6, GoesLeavesOpen
    <2>2. Cardinality(Open(s)') \in Nat /\ Cardinality(Open(s)') <= Cardinality(Open(s))
          /\ (job.at = "done" => Cardinality(Open(s)') <= Cardinality(Open(s)) - 1)
      <3>1. Cardinality(Open(s)') \in Nat /\ Cardinality(Open(s)') <= Cardinality(Open(s))
        BY <1>5, <2>1, FS_Subset, FS_CardinalityType
      <3>2. /\ IsFiniteSet(Open(s) \ {i}) /\ Cardinality(Open(s) \ {i}) = Cardinality(Open(s)) - 1
        BY <1>5, <2>1, FS_RemoveElement
      <3>3. job.at = "done" => Cardinality(Open(s)') <= Cardinality(Open(s) \ {i})
        BY <2>1, <3>2, FS_Subset
      <3>4. QED
        BY <3>1, <3>2, <3>3
    <2>3. usage' \in Nat /\ usage' <= B
      <3>1. CASE usage' = usage
        BY <1>3, <3>1
      <3>2. CASE job.at = "done" /\ usage' = (IF run[s].today THEN usage + 1 ELSE usage)
        BY <1>3, <1>4, <1>5, <2>2, <3>2
      <3>3. QED
        BY <1>6, <3>1, <3>2
    <2>4. \A o \in Spawners : run'[o] = NoRun => usage' + Cardinality(Open(o)') <= B
      <3>1. NoRun \in RunType
        BY DEF NoRun, RunType
      <3>2. QED
        BY <2>3, <3>1, LeftFinite DEF Open
    <2>5. run'[s] # NoRun /\ run'[s].today => usage' + Cardinality(Open(s)') <= B
      <3>1. ASSUME run[s].today
            PROVE  usage' + Cardinality(Open(s)') <= B
        <4>1. usage + Cardinality(Open(s)) <= B
          BY <1>4, <3>1
        <4>2. CASE usage' = usage
          BY <1>3, <1>5, <2>2, <4>1, <4>2
        <4>3. CASE job.at = "done" /\ usage' = usage + 1
          BY <1>3, <1>5, <2>2, <4>1, <4>3
        <4>4. QED
          BY <1>6, <3>1, <4>2, <4>3
      <3>2. QED
        BY <2>1, <3>1
    <2>6. QED
      BY <2>1, <2>3, <2>4, <2>5 DEF Within
  <1>7. CASE Turn(s, i)
    <2>1. usage' = usage /\ [job0 EXCEPT !.at = "resolve"] \in JobType
      BY <1>2, <1>7 DEF Turn, JobType
    <2>2. [job0 EXCEPT !.at = "ask", !.index = First, !.keys = pool] \in JobType
      BY <1>2 DEF JobType, First, IInv, TypeOK
    <2>3. \E job \in JobType : \E fails : Goes(s, i, job, fails)
      BY <1>2, <1>7, <2>1, <2>2 DEF Turn, Ask
    <2>4. QED
      BY <1>6, <2>1, <2>3
  <1>8. CASE Resolved(s, i)
    <2>1. [job0 EXCEPT !.at = "ask", !.index = First, !.keys = pool] \in JobType
      BY <1>2 DEF JobType, First, IInv, TypeOK
    <2>2. usage' = usage /\ \E job \in JobType : \E fails : Goes(s, i, job, fails)
      BY <1>2, <1>8, <2>1 DEF Resolved, Ask
    <2>3. QED
      BY <1>6, <2>2
  <1>9. CASE Rejected(s, i)
    <2>1. [job0 EXCEPT !.index = job0.index + 1] \in JobType
      BY <1>2 DEF JobType
    <2>2. usage' = usage /\ \E job \in JobType : \E fails : Goes(s, i, job, fails)
      BY <1>2, <1>9, <2>1 DEF Rejected
    <2>3. QED
      BY <1>6, <2>2
  <1>10. CASE Rate(s, i)
    <2>1. Goes(s, i, Done(job0), 0) /\ usage' = (IF run[s].today THEN usage + 1 ELSE usage)
      BY <1>10 DEF Rate
    <2>2. QED
      BY <1>2, <1>6, <2>1
  <1>11. CASE Unreachable(s, i)
    <2>1. usage' = usage /\ Goes(s, i, Done(job0), run[s].fails + 1)
      BY <1>11 DEF Unreachable
    <2>2. QED
      BY <1>2, <1>6, <2>1
  <1>12. QED
    BY <1>1, <1>7, <1>8, <1>9, <1>10, <1>11

LEMMA StepWithin ==
    ASSUME IInv, IInv', NEW B \in Nat, \A p \in Pools : BudgetPerKey * Len(p) <= B, Within(B), [Next]_vars
    PROVE  Within(B)'
  <1>1. CASE usage' = usage /\ UNCHANGED run
    BY <1>1 DEF Within, Open
  <1>2. ASSUME NEW s \in Spawners, Spawn(s), usage' = usage
        PROVE  Within(B)'
    <2>1. CASE \E o \in Spawners : run[o] # NoRun
      BY <1>1, <1>2, <2>1 DEF Spawn
    <2>2. CASE \A o \in Spawners : run[o] = NoRun
      <3>1. run' = [run EXCEPT ![s] = Begun(store', Batch(store'))]
        BY <1>2, <2>2 DEF Spawn
      <3>2. run'[s] = Begun(store', Batch(store')) /\ \A o \in Spawners \ {s} : run'[o] = NoRun
        BY <2>2, <3>1 DEF IInv, TypeOK
      <3>3. QED
        BY <1>2, <3>2, BeginWithin
    <2>3. QED
      BY <2>1, <2>2
  <1>3. CASE Hourly \/ \E r \in Runners : Fetched(r)
    <2>1. usage' = usage /\ (UNCHANGED run \/ \E s \in Spawners : Spawn(s))
      BY <1>3 DEF Hourly, Fetched, Ended, rated, Spawners
    <2>2. QED
      BY <1>1, <1>2, <2>1
  <1>4. CASE Restart
    <2>1. /\ usage' = usage /\ "cycle" \in Spawners
          /\ run'["cycle"] \in {NoRun, Begun(store', Batch(store'))}
          /\ \A o \in Spawners \ {"cycle"} : run'[o] = NoRun
      BY <1>4 DEF Restart, Spawners
    <2>2. QED
      BY <2>1, BeginWithin
  <1>5. CASE NewDay
    <2>1. usage' = 0 /\ run' = [s \in Spawners |-> IF run[s] = NoRun THEN NoRun ELSE [run[s] EXCEPT !.today = FALSE]]
      BY <1>5 DEF NewDay
    <2>2. \A s \in Spawners : run'[s].today => run'[s] = NoRun
      BY <2>1 DEF IInv, TypeOK, RunType
    <2>3. NoRun \in RunType
      BY DEF NoRun, RunType
    <2>4. \A s \in Spawners : run'[s].today => Cardinality(Open(s)') = 0
      BY <2>2, <2>3, LeftFinite DEF Open
    <2>5. QED
      BY <2>1, <2>4 DEF Within
  <1>6. ASSUME NEW s \in Spawners, Lookup(s)
        PROVE  Within(B)'
    BY <1>6, LookupWithin
  <1>7. QED
    BY <1>1, <1>3, <1>4, <1>5, <1>6
       DEF Next, Job, Reschedule, ReadAnswered, EditKeys, OfferChanges, Read, UsedUp, rated, vars

LEMMA InitWithin == ASSUME NEW B \in Nat PROVE Init => Within(B)
  <1> SUFFICES ASSUME Init PROVE Within(B)
    OBVIOUS
  <1>1. usage = 0 /\ \A s \in Spawners : run[s] = NoRun
    BY DEF Init
  <1>2. NoRun \in RunType
    BY DEF NoRun, RunType
  <1>3. QED
    BY <1>1, <1>2, LeftFinite DEF Within, Open

\* A day is charged no more than the largest budget of the pools, whoever starts
\* backfills, however their lookups overlap and whenever the keys are edited.
THEOREM SpecWithinBudget ==
    ASSUME NEW B \in Nat, \A p \in Pools : BudgetPerKey * Len(p) <= B
    PROVE  Spec => []Within(B)
  <1>1. Init => Within(B)
    BY InitWithin
  <1>2. IInv /\ IInv' /\ Within(B) /\ [Next]_vars => Within(B)'
    BY StepWithin
  <1>3. QED
    BY <1>1, <1>2, SpecIInv, PTL DEF Spec

\* While the pool keeps its size, a day is charged no more than its budget. A
\* pool that shrinks takes budget away that may be spent already.
THEOREM SpecBudgetKept ==
    ASSUME \A p, q \in Pools : Len(p) = Len(q)
    PROVE  Spec => []BudgetKept
  <1> DEFINE B == BudgetPerKey * Len(FirstPool)
  <1>1. B \in Nat /\ \A p \in Pools : BudgetPerKey * Len(p) <= B
    BY TrendingAssumption
  <1>2. IInv /\ Within(B) => BudgetKept
    <2>1. IInv => Len(pool) = Len(FirstPool)
      BY TrendingAssumption DEF IInv, TypeOK
    <2>2. IInv => Budget = B
      BY <2>1 DEF Budget
    <2>3. QED
      BY <2>2 DEF Within, BudgetKept
  <1> HIDE DEF B
  <1>3. Init => Within(B)
    BY <1>1, InitWithin
  <1>4. IInv /\ IInv' /\ Within(B) /\ [Next]_vars => Within(B)'
    BY <1>1, StepWithin
  <1>5. QED
    BY <1>2, <1>3, <1>4, SpecIInv, PTL DEF Spec
=============================================================================
