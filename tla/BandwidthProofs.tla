--------------------------- MODULE BandwidthProofs ---------------------------
(***************************************************************************)
(* For any requests and users: what the API shows between operations is    *)
(* the stored switch, a pause by hand holds, and SABnzbd's limit is only   *)
(* set to what the settings say.                                           *)
(***************************************************************************)
EXTENDS Bandwidth, SequenceTheorems, TLAPS

Places   == {"idle", "queued", "ask_qb", "ask_sab", "enforce", "command", "push", "client"}
Inside(t)  == task[t].at \notin {"idle", "queued"}
Ticking(t) == task[t].at \in {"ask_qb", "ask_sab", "enforce", "command"}

Views  == [online : BOOLEAN, paused : BOOLEAN, limit : Nat]
Locals == [at : Places, req : [op : {"tick"}] \cup Requests, enabled : BOOLEAN,
           torrents : BOOLEAN, view : Views, cmd : Nat \cup {"none", "pause", "resume"}]

\* The types of the state.
TypeOK ==
    /\ set \in [enabled : BOOLEAN, limitOn : BOOLEAN, limit : Nat]
    /\ mirror \in BOOLEAN /\ manual \subseteq Clients
    /\ gate \in Seq(Tasks)
    /\ sab \in [pausedBy : {Nobody, "loop", "user", "elsewhere"}, limit : Nat]
    /\ qb \in [torrents : BOOLEAN, stopped : BOOLEAN]
    /\ task \in [Tasks -> Locals]
    /\ moves \in [{"request", "fault", "outside", "restart"} -> Nat]

\* Only the holder of the lock is inside an operation.
OnlyHolderInside == \A t \in Tasks : Inside(t) => Holds(t)

\* What the holder carries from one await to the next is what the state says:
\* the limiter's settings and the pauses by hand change behind the lock alone.
LocalsCurrent ==
    /\ task[Tick].req.op = "tick"
    /\ \A t \in Tasks :
        /\ task[t].at = "enforce" => set.limitOn /\ task[t].cmd = set.limit
        /\ task[t].at = "push" => task[t].cmd = IF set.limitOn THEN set.limit ELSE NoLimit
        /\ task[t].at = "command" => manual = {} /\ task[t].cmd \in {"pause", "resume"}
        /\ task[t].at = "client" => task[t].req.op = "client"

\* The switch is stored ahead of the lock. Where it and its mirror may differ,
\* now or when a tick that read the old switch ends, a tick is still to come
\* that reads it afterwards, or reads it already.
TickToCome(t)  == task[t].at = "queued" /\ task[t].req.op = "tick"
ReadsNow(t)    == Ticking(t) /\ task[t].enabled = set.enabled
MirrorCatchesUp ==
    \/ \E t \in Tasks : TickToCome(t) \/ ReadsNow(t)
    \/ mirror = set.enabled /\ \A t \in Tasks : ~Ticking(t)

IInv == TypeOK /\ OnlyHolderInside /\ LocalsCurrent /\ MirrorCatchesUp
-----------------------------------------------------------------------------
(***************************************************************************)
(* Facts the steps share                                                   *)
(***************************************************************************)

\* The tuple of a task's locals, with some of them replaced, is one again.
LEMMA IdleLocals == Idle \in Locals
  BY DEF Idle, Locals, Views, Places, NoLimit

\* What a request carries.
LEMMA RequestFields ==
    ASSUME NEW r \in Requests
    PROVE  /\ r.op = "switch" => r.on \in BOOLEAN
           /\ r.op = "limiter" => r.on \in BOOLEAN /\ r.limit \in Nat
           /\ r.op = "client" => r.client \in Clients /\ r.paused \in BOOLEAN
  <1>1. \/ r \in [op : {"switch"}, on : BOOLEAN]
        \/ r \in [op : {"limiter"}, on : BOOLEAN, limit : 1..100]
        \/ r \in [op : {"client"}, client : Clients, paused : BOOLEAN]
    BY BandwidthAssumption
  <1>2. 1..100 \subseteq Nat
    OBVIOUS
  <1>3. QED
    BY <1>1, <1>2

\* A place of an operation and its holder.
LEMMA Inner ==
    ASSUME OnlyHolderInside, NEW t \in Tasks, Inside(t)
    PROVE  Holds(t) /\ \A o \in Tasks : Inside(o) => o = t
  BY DEF OnlyHolderInside, Holds

\* The holder leaves: the lock is the next one's, and nobody is inside.
LEMMA FreeLeaves ==
    ASSUME TypeOK, OnlyHolderInside, NEW t \in Tasks, Holds(t), Free(t)
    PROVE  /\ gate' \in Seq(Tasks) /\ task' \in [Tasks -> Locals]
           /\ \A o \in Tasks : ~Inside(o)'
           /\ \A o \in Tasks \ {t} : task'[o] = task[o]
           /\ task'[t] = Idle
  <1>1. gate \in Seq(Tasks) /\ gate # <<>> /\ gate' = Tail(gate)
    BY DEF TypeOK, Holds, Free
  <1>2. gate' \in Seq(Tasks)
    BY <1>1
  <1>3. task' = [task EXCEPT ![t] = Idle] /\ task \in [Tasks -> Locals]
    BY DEF TypeOK, Free
  <1>4. task' \in [Tasks -> Locals] /\ task'[t] = Idle
        /\ \A o \in Tasks \ {t} : task'[o] = task[o]
    BY <1>3, IdleLocals
  <1>5. \A o \in Tasks : ~Inside(o)'
    BY <1>4 DEF OnlyHolderInside, Inside, Holds, Idle
  <1>6. QED
    BY <1>2, <1>4, <1>5

\* The holder goes on to its next call, whatever locals it takes there.
LEMMA HolderGoes ==
    ASSUME TypeOK, OnlyHolderInside, NEW t \in Tasks, Holds(t), UNCHANGED gate,
           NEW l \in Locals, task' = [task EXCEPT ![t] = l]
    PROVE  /\ task' \in [Tasks -> Locals] /\ OnlyHolderInside'
           /\ \A o \in Tasks \ {t} : task'[o] = task[o] /\ ~Inside(o)
           /\ task'[t] = l
  BY DEF TypeOK, OnlyHolderInside, Inside, Holds

\* A task arrives and waits behind those who are there.
LEMMA WaiterArrives ==
    ASSUME TypeOK, OnlyHolderInside, NEW t \in Tasks, task[t].at = "idle",
           gate' = Append(gate, t),
           NEW l \in Locals, l.at = "queued", task' = [task EXCEPT ![t] = l]
    PROVE  /\ gate' \in Seq(Tasks) /\ task' \in [Tasks -> Locals] /\ OnlyHolderInside'
           /\ \A o \in Tasks \ {t} : task'[o] = task[o]
           /\ task'[t] = l
  <1>1. gate \in Seq(Tasks) /\ task \in [Tasks -> Locals]
    BY DEF TypeOK
  <1>2. gate' \in Seq(Tasks) /\ (gate # <<>> => gate' # <<>> /\ Head(gate') = Head(gate))
    BY <1>1
  <1>3. /\ task' \in [Tasks -> Locals] /\ task'[t] = l
        /\ \A o \in Tasks \ {t} : task'[o] = task[o]
    BY <1>1
  <1>4. OnlyHolderInside'
    BY <1>2, <1>3 DEF OnlyHolderInside, Inside, Holds
  <1>5. QED
    BY <1>2, <1>3, <1>4

-----------------------------------------------------------------------------
(***************************************************************************)
(* The steps of the holder                                                 *)
(***************************************************************************)

\* The holder goes on inside its operation: what it takes along is current, and
\* the switch it ticks with is the one it had, or read now.
LEMMA HolderKeeps ==
    ASSUME IInv, NEW t \in Tasks, Holds(t), UNCHANGED gate,
           NEW l \in Locals, task' = [task EXCEPT ![t] = l],
           l.at \notin {"idle", "queued"}, t = Tick => l.req.op = "tick",
           l.at = "enforce" => set'.limitOn /\ l.cmd = set'.limit,
           l.at = "push" => l.cmd = IF set'.limitOn THEN set'.limit ELSE NoLimit,
           l.at = "command" => manual' = {} /\ l.cmd \in {"pause", "resume"},
           l.at = "client" => l.req.op = "client",
           \/ l.at \in {"ask_qb", "ask_sab", "enforce", "command"} /\ l.enabled = set.enabled
           \/ /\ ~TickToCome(t)
              /\ Ticking(t) <=> l.at \in {"ask_qb", "ask_sab", "enforce", "command"}
              /\ l.enabled = task[t].enabled,
           set'.enabled = set.enabled, mirror' = mirror
    PROVE  task' \in [Tasks -> Locals] /\ OnlyHolderInside' /\ LocalsCurrent' /\ MirrorCatchesUp'
  <1>1. /\ task' \in [Tasks -> Locals] /\ OnlyHolderInside' /\ task'[t] = l
        /\ \A o \in Tasks \ {t} : task'[o] = task[o] /\ ~Inside(o)
    BY HolderGoes DEF IInv
  <1>2. LocalsCurrent'
    BY <1>1 DEF IInv, LocalsCurrent, Inside, Tasks
  <1>3. MirrorCatchesUp'
    <2>1. \A o \in Tasks \ {t} : TickToCome(o)' = TickToCome(o) /\ ~Ticking(o) /\ ~Ticking(o)'
      BY <1>1 DEF TickToCome, Ticking, Inside
    <2>2. CASE l.at \in {"ask_qb", "ask_sab", "enforce", "command"} /\ l.enabled = set.enabled
      BY <1>1, <2>2 DEF MirrorCatchesUp, ReadsNow, Ticking
    <2>3. CASE /\ ~TickToCome(t)
               /\ Ticking(t) <=> l.at \in {"ask_qb", "ask_sab", "enforce", "command"}
               /\ l.enabled = task[t].enabled
      <3>1. ReadsNow(t) => ReadsNow(t)'
        BY <1>1, <2>3 DEF ReadsNow, Ticking
      <3>2. Ticking(t)' => Ticking(t)
        BY <1>1, <2>3 DEF Ticking
      <3>3. QED
        BY <2>1, <2>3, <3>1, <3>2 DEF IInv, MirrorCatchesUp, ReadsNow
    <2>4. QED
      BY <2>2, <2>3
  <1>4. QED
    BY <1>1, <1>2, <1>3

\* The holder leaves: it stores the switch it ticked with, or did not tick.
LEMMA HolderLeaves ==
    ASSUME IInv, NEW t \in Tasks, Holds(t), Free(t), ~TickToCome(t),
           \/ Ticking(t) /\ mirror' = task[t].enabled
           \/ ~Ticking(t) /\ mirror' = mirror,
           set'.enabled = set.enabled
    PROVE  /\ gate' \in Seq(Tasks) /\ task' \in [Tasks -> Locals]
           /\ OnlyHolderInside' /\ LocalsCurrent' /\ MirrorCatchesUp'
  <1>1. /\ gate' \in Seq(Tasks) /\ task' \in [Tasks -> Locals]
        /\ \A o \in Tasks : ~Inside(o)'
        /\ \A o \in Tasks \ {t} : task'[o] = task[o]
        /\ task'[t] = Idle
    BY FreeLeaves DEF IInv
  <1>2. OnlyHolderInside'
    BY <1>1 DEF OnlyHolderInside
  <1>3. LocalsCurrent'
    BY <1>1 DEF IInv, LocalsCurrent, Inside, Idle, Tasks
  <1>4. MirrorCatchesUp'
    <2>1. \A o \in Tasks \ {t} : ~Inside(o)
      BY DEF IInv, OnlyHolderInside, Holds
    <2>2. \A o \in Tasks : TickToCome(o) => TickToCome(o)'
      BY <1>1 DEF TickToCome
    <2>3. \A o \in Tasks : ~Ticking(o)'
      BY <1>1 DEF Ticking, Inside
    <2>4. CASE \E o \in Tasks : TickToCome(o)
      BY <2>2, <2>4 DEF MirrorCatchesUp
    <2>5. CASE \E o \in Tasks : ReadsNow(o)
      <3>1. ReadsNow(t)
        BY <2>1, <2>5 DEF ReadsNow, Ticking, Inside
      <3>2. QED
        BY <2>3, <3>1 DEF MirrorCatchesUp, ReadsNow
    <2>6. CASE mirror = set.enabled /\ \A o \in Tasks : ~Ticking(o)
      BY <2>3, <2>6 DEF MirrorCatchesUp
    <2>7. QED
      BY <2>4, <2>5, <2>6 DEF IInv, MirrorCatchesUp
  <1>5. QED
    BY <1>1, <1>2, <1>3, <1>4

-----------------------------------------------------------------------------
(***************************************************************************)
(* Every step keeps the invariant                                          *)
(***************************************************************************)

\* The settings, the clients and the bounds keep their types.
Kept ==
    /\ set' \in [enabled : BOOLEAN, limitOn : BOOLEAN, limit : Nat]
    /\ mirror' \in BOOLEAN /\ manual' \subseteq Clients
    /\ sab' \in [pausedBy : {Nobody, "loop", "user", "elsewhere"}, limit : Nat]
    /\ qb' \in [torrents : BOOLEAN, stopped : BOOLEAN]
    /\ moves' \in [{"request", "fault", "outside", "restart"} -> Nat]

LEMMA MovesTyped ==
    ASSUME TypeOK, NEW b \in {"request", "fault", "outside", "restart"}, Move(b)
    PROVE  moves' \in [{"request", "fault", "outside", "restart"} -> Nat]
  BY DEF TypeOK, Move

LEMMA FaultTyped ==
    ASSUME TypeOK, Fine \/ Fault
    PROVE  moves' \in [{"request", "fault", "outside", "restart"} -> Nat]
  BY MovesTyped DEF TypeOK, Fine, Fault

LEMMA FireKeeps ==
    ASSUME IInv, Fire
    PROVE  IInv'
  <1> DEFINE l == [task[Tick] EXCEPT !.at = "queued"]
  <1>1. l \in Locals /\ l.at = "queued" /\ l.req.op = "tick" /\ task' = [task EXCEPT ![Tick] = l]
    BY ZenonT(40) DEF Fire, IInv, TypeOK, Locals, Places, LocalsCurrent, Tasks
  <1>2. /\ gate' \in Seq(Tasks) /\ task' \in [Tasks -> Locals] /\ OnlyHolderInside'
        /\ \A o \in Tasks \ {Tick} : task'[o] = task[o]
        /\ task'[Tick] = l
    <2> HIDE DEF l
    <2> QED BY <1>1, WaiterArrives DEF Fire, IInv, Tasks
  <1> HIDE DEF l
  <1>3. LocalsCurrent'
    BY <1>1, <1>2 DEF IInv, LocalsCurrent, Fire
  <1>4. MirrorCatchesUp'
    BY <1>1, <1>2 DEF MirrorCatchesUp, TickToCome, Tasks
  <1>5. TypeOK'
    BY <1>2 DEF IInv, TypeOK, Fire
  <1>6. QED
    BY <1>2, <1>3, <1>4, <1>5 DEF IInv

LEMMA ArriveKeeps ==
    ASSUME IInv, NEW u \in Users, NEW r \in Requests, Arrive(u, r)
    PROVE  IInv'
  <1> DEFINE l == [task[u] EXCEPT !.at = "queued", !.req = IF r.op = "switch" THEN [op |-> "tick"] ELSE r]
  <1>1. u \in Tasks /\ u # Tick /\ task[u] \in Locals /\ task[u].at = "idle"
    BY BandwidthAssumption DEF Arrive, IInv, TypeOK, Tasks
  <1>2. l \in Locals /\ l.at = "queued" /\ (r.op = "switch" => l.req.op = "tick")
    BY <1>1 DEF Locals, Places
  <1>3. task' = [task EXCEPT ![u] = l] /\ gate' = Append(gate, u)
    BY <1>1 DEF Arrive, Switch, IInv, TypeOK, Locals
  <1> HIDE DEF l
  <1>4. /\ gate' \in Seq(Tasks) /\ task' \in [Tasks -> Locals] /\ OnlyHolderInside'
        /\ \A o \in Tasks \ {u} : task'[o] = task[o]
        /\ task'[u] = l
    BY <1>1, <1>2, <1>3, WaiterArrives DEF IInv
  <1>5. LocalsCurrent'
    <2>1. set'.limitOn = set.limitOn /\ set'.limit = set.limit /\ manual' = manual
      BY DEF IInv, TypeOK, Arrive, Switch
    <2>2. task'[Tick] = task[Tick]
      BY <1>1, <1>4 DEF Tasks
    <2>3. QED
      BY ZenonT(40), <1>2, <1>4, <2>1, <2>2 DEF IInv, LocalsCurrent
  <1>6. MirrorCatchesUp'
    <2>1. CASE r.op = "switch"
      BY <1>1, <1>2, <1>4, <2>1 DEF MirrorCatchesUp, TickToCome
    <2>2. CASE r.op # "switch"
      <3>1. UNCHANGED <<set, mirror>>
        BY <2>2 DEF Arrive
      <3>2. ~TickToCome(u) /\ ~Ticking(u) /\ ~Ticking(u)'
        BY <1>1, <1>2, <1>4 DEF TickToCome, Ticking
      <3>3. \A o \in Tasks \ {u} : TickToCome(o)' = TickToCome(o) /\ ReadsNow(o)' = ReadsNow(o)
                                    /\ Ticking(o)' = Ticking(o)
        BY <1>4, <3>1 DEF TickToCome, ReadsNow, Ticking
      <3>4. QED
        BY <3>1, <3>2, <3>3 DEF IInv, MirrorCatchesUp, ReadsNow
    <2>3. QED
      BY <2>1, <2>2
  <1>7. TypeOK'
    <2>1. set' \in [enabled : BOOLEAN, limitOn : BOOLEAN, limit : Nat] /\ mirror' \in BOOLEAN
      <3>1. CASE r.op = "switch"
        <4>1. r.on \in BOOLEAN
          BY <3>1, RequestFields
        <4>2. QED
          BY <3>1, <4>1 DEF Arrive, Switch, IInv, TypeOK
      <3>2. CASE r.op # "switch"
        BY <3>2 DEF Arrive, IInv, TypeOK
      <3>3. QED
        BY <3>1, <3>2
    <2>2. moves' \in [{"request", "fault", "outside", "restart"} -> Nat]
      BY MovesTyped DEF Arrive, IInv
    <2>3. QED
      BY <1>4, <2>1, <2>2 DEF IInv, TypeOK, Arrive
  <1>8. QED
    BY <1>4, <1>5, <1>6, <1>7 DEF IInv

LEMMA StartTickKeeps ==
    ASSUME IInv, NEW t \in Tasks, StartTick(t)
    PROVE  IInv'
  <1> DEFINE l == [task[t] EXCEPT !.at = "ask_qb", !.enabled = set.enabled]
  <1>1. l \in Locals /\ l.at = "ask_qb" /\ l.enabled = set.enabled /\ l.req = task[t].req
        /\ task' = [task EXCEPT ![t] = l]
    BY ZenonT(40) DEF StartTick, ReadSwitch, IInv, TypeOK, Locals, Places
  <1> HIDE DEF l
  <1>2. Holds(t) /\ UNCHANGED <<set, mirror, manual, gate, sab, qb, moves>>
    BY DEF StartTick, Begins
  <1>3. task' \in [Tasks -> Locals] /\ OnlyHolderInside' /\ LocalsCurrent' /\ MirrorCatchesUp'
    <2>1. t = Tick => l.req.op = "tick"
      BY <1>1 DEF IInv, LocalsCurrent
    <2>2. QED
      BY <1>1, <1>2, <2>1, HolderKeeps
  <1>4. QED
    BY <1>2, <1>3 DEF IInv, TypeOK

LEMMA QbAnswersKeeps ==
    ASSUME IInv, NEW t \in Tasks, QbAnswers(t)
    PROVE  IInv'
  <1>1. PICK answer \in BOOLEAN : task' = [task EXCEPT ![t].at = "ask_sab", ![t].torrents = answer]
    BY DEF QbAnswers, Active, IInv, TypeOK
  <1> DEFINE l == [task[t] EXCEPT !.at = "ask_sab", !.torrents = answer]
  <1>2. l \in Locals /\ l.at = "ask_sab" /\ l.enabled = task[t].enabled /\ l.req = task[t].req
        /\ task' = [task EXCEPT ![t] = l]
    BY ZenonT(40), <1>1 DEF IInv, TypeOK, Locals, Places
  <1> HIDE DEF l
  <1>3. Holds(t) /\ Ticking(t) /\ ~TickToCome(t) /\ UNCHANGED <<set, mirror, manual, gate, sab, qb>>
    BY DEF QbAnswers, IInv, OnlyHolderInside, Inside, Ticking, TickToCome
  <1>4. task' \in [Tasks -> Locals] /\ OnlyHolderInside' /\ LocalsCurrent' /\ MirrorCatchesUp'
    <2>1. t = Tick => l.req.op = "tick"
      BY <1>2 DEF IInv, LocalsCurrent
    <2>2. QED
      BY <1>2, <1>3, <2>1, HolderKeeps
  <1>5. QED
    BY <1>3, <1>4, FaultTyped DEF IInv, TypeOK, QbAnswers

-----------------------------------------------------------------------------
\* What the steps that may command SABnzbd end in: a command, or the end.
LEMMA DecideKeeps ==
    ASSUME IInv, NEW t \in Tasks, Ticking(t), NEW view \in Views, Decide(t, view),
           UNCHANGED <<set, manual>>
    PROVE  /\ gate' \in Seq(Tasks) /\ task' \in [Tasks -> Locals]
           /\ OnlyHolderInside' /\ LocalsCurrent' /\ MirrorCatchesUp' /\ mirror' \in BOOLEAN
  <1> DEFINE cmd == Decision(task[t], view)
             l   == [task[t] EXCEPT !.at = "command", !.cmd = cmd]
  <1>1. Holds(t) /\ ~TickToCome(t) /\ task[t] \in Locals
    BY DEF IInv, TypeOK, OnlyHolderInside, Inside, Ticking, TickToCome
  <1>2. CASE cmd = "none"
    <2>1. Free(t) /\ mirror' = task[t].enabled
      BY <1>2 DEF Decide, Store
    <2>2. QED
      BY <1>1, <2>1, HolderLeaves DEF Locals
  <1>3. CASE cmd # "none"
    <2>1. cmd \in {"pause", "resume"} /\ manual = {}
      BY <1>3 DEF Decision
    <2>2. UNCHANGED <<gate, mirror>> /\ task' = [task EXCEPT ![t].at = "command", ![t].cmd = cmd]
      BY <1>3 DEF Decide
    <2> HIDE DEF cmd
    <2>3. l \in Locals /\ l.at = "command" /\ l.cmd = cmd /\ l.req = task[t].req
          /\ l.enabled = task[t].enabled /\ task' = [task EXCEPT ![t] = l]
      BY <1>1, <2>1, <2>2 DEF IInv, TypeOK, Locals, Places
    <2> HIDE DEF l
    <2>4. t = Tick => l.req.op = "tick"
      BY <2>3 DEF IInv, LocalsCurrent
    <2>5. task' \in [Tasks -> Locals] /\ OnlyHolderInside' /\ LocalsCurrent' /\ MirrorCatchesUp'
      BY <1>1, <2>1, <2>2, <2>3, <2>4, HolderKeeps
    <2>6. QED
      BY <2>2, <2>5 DEF IInv, TypeOK
  <1>4. QED
    BY <1>2, <1>3

LEMMA SabAnswersKeeps ==
    ASSUME IInv, NEW t \in Tasks, SabAnswers(t)
    PROVE  IInv'
  <1>1. PICK view \in {Offline, Reading, [Reading EXCEPT !.limit = Unknown]} :
            /\ Fine \/ Fault
            /\ IF Drifted(view)
               THEN /\ task' = [task EXCEPT ![t].at = "enforce", ![t].view = view, ![t].cmd = set.limit]
                    /\ UNCHANGED <<gate, mirror>>
               ELSE Decide(t, view)
    BY DEF SabAnswers
  <1>2. view \in Views
    <2>1. Offline \in Views
      BY DEF Offline, Views, Unknown
    <2>2. Reading \in Views
      BY DEF Reading, Views, SabPaused, IInv, TypeOK
    <2>3. [Reading EXCEPT !.limit = Unknown] \in Views
      BY <2>2 DEF Views, Unknown
    <2>4. QED
      BY <2>1, <2>2, <2>3
  <1>3. Ticking(t) /\ Holds(t) /\ ~TickToCome(t) /\ UNCHANGED <<set, manual, sab, qb>>
    BY DEF SabAnswers, IInv, OnlyHolderInside, Inside, Ticking, TickToCome
  <1>4. CASE Drifted(view)
    <2> DEFINE l == [task[t] EXCEPT !.at = "enforce", !.view = view, !.cmd = set.limit]
    <2>1. l \in Locals /\ l.at = "enforce" /\ l.cmd = set.limit /\ l.req = task[t].req
          /\ l.enabled = task[t].enabled /\ task' = [task EXCEPT ![t] = l]
      <3>1. /\ task' = [task EXCEPT ![t].at = "enforce", ![t].view = view, ![t].cmd = set.limit]
            /\ task \in [Tasks -> Locals] /\ set.limit \in Nat
        BY <1>1, <1>4 DEF IInv, TypeOK
      <3>2. QED
        BY <1>2, <3>1 DEF Locals, Places
    <2> HIDE DEF l
    <2>2. set.limitOn /\ UNCHANGED <<gate, mirror>>
      BY <1>1, <1>4 DEF Drifted
    <2>3. t = Tick => l.req.op = "tick"
      BY <2>1 DEF IInv, LocalsCurrent
    <2>4. task' \in [Tasks -> Locals] /\ OnlyHolderInside' /\ LocalsCurrent' /\ MirrorCatchesUp'
      BY <1>3, <2>1, <2>2, <2>3, HolderKeeps
    <2>5. QED
      BY <1>1, <1>3, <2>2, <2>4, FaultTyped DEF IInv, TypeOK
  <1>5. CASE ~Drifted(view)
    BY <1>1, <1>2, <1>3, <1>5, DecideKeeps, FaultTyped DEF IInv, TypeOK
  <1>6. QED
    BY <1>4, <1>5

\* A limit that was sent, and a command.
LEMMA LimitedTyped ==
    ASSUME TypeOK, NEW n \in Nat
    PROVE  Limited(n) \in [pausedBy : {Nobody, "loop", "user", "elsewhere"}, limit : Nat]
  BY DEF TypeOK, Limited

LEMMA CommandedTyped ==
    ASSUME TypeOK, NEW cmd, NEW who \in {"loop", "user"}
    PROVE  Commanded(cmd, who) \in [pausedBy : {Nobody, "loop", "user", "elsewhere"}, limit : Nat]
  BY DEF TypeOK, Commanded, Nobody

LEMMA LimitEnforcedKeeps ==
    ASSUME IInv, NEW t \in Tasks, LimitEnforced(t)
    PROVE  IInv'
  <1>1. /\ Ticking(t) /\ Decide(t, task[t].view) /\ UNCHANGED <<set, manual, qb>>
        /\ Fine \/ Fault
        /\ sab' = Limited(set.limit) \/ sab' = sab
    BY DEF LimitEnforced, Ticking, Answers, IInv, LocalsCurrent
  <1>2. task[t].view \in Views /\ set.limit \in Nat
    BY DEF IInv, TypeOK, Locals
  <1>3. QED
    <2>1. sab' \in [pausedBy : {Nobody, "loop", "user", "elsewhere"}, limit : Nat]
      BY <1>1, <1>2, LimitedTyped DEF IInv, TypeOK
    <2>2. moves' \in [{"request", "fault", "outside", "restart"} -> Nat]
      BY <1>1, FaultTyped DEF IInv
    <2>3. QED
      BY <1>1, <1>2, <2>1, <2>2, DecideKeeps DEF IInv, TypeOK

LEMMA CommandAnsweredKeeps ==
    ASSUME IInv, NEW t \in Tasks, CommandAnswered(t)
    PROVE  IInv'
  <1>1. /\ task[t].at = "command" /\ Store(t) /\ UNCHANGED <<set, manual, qb>>
        /\ Fine \/ Fault
        /\ sab' = Commanded(task[t].cmd, "loop") \/ sab' = sab
    BY DEF CommandAnswered, Answers
  <1>2. Ticking(t) /\ Holds(t) /\ ~TickToCome(t) /\ Free(t) /\ mirror' = task[t].enabled
        /\ task[t].enabled \in BOOLEAN
    BY <1>1 DEF IInv, TypeOK, OnlyHolderInside, Inside, Ticking, TickToCome, Store, Locals
  <1>3. /\ gate' \in Seq(Tasks) /\ task' \in [Tasks -> Locals]
        /\ OnlyHolderInside' /\ LocalsCurrent' /\ MirrorCatchesUp'
    BY <1>1, <1>2, HolderLeaves
  <1>4. QED
    <2>1. sab' \in [pausedBy : {Nobody, "loop", "user", "elsewhere"}, limit : Nat]
      BY <1>1, CommandedTyped DEF IInv, TypeOK
    <2>2. moves' \in [{"request", "fault", "outside", "restart"} -> Nat]
      BY <1>1, FaultTyped DEF IInv
    <2>3. QED
      BY <1>1, <1>2, <1>3, <2>1, <2>2 DEF IInv, TypeOK

LEMMA StartLimiterKeeps ==
    ASSUME IInv, NEW t \in Tasks, StartLimiter(t)
    PROVE  IInv'
  <1> DEFINE r == task[t].req
             l == [task[t] EXCEPT !.at = "push", !.cmd = IF r.on THEN r.limit ELSE NoLimit]
  <1>1. /\ Holds(t) /\ task[t].at = "queued" /\ r.op = "limiter"
        /\ set' = [set EXCEPT !.limitOn = r.on, !.limit = r.limit]
        /\ UNCHANGED <<mirror, manual, sab, qb, moves>>
    BY DEF StartLimiter, Begins
  <1>2. task[t] \in Locals /\ r.on \in BOOLEAN /\ r.limit \in Nat
    <2>1. task[t] \in Locals /\ task[t].req \in [op : {"tick"}] \cup Requests
      BY DEF IInv, TypeOK, Locals
    <2>2. task[t].req \in Requests
      BY <1>1, <2>1
    <2>3. QED
      BY <1>1, <2>1, <2>2, RequestFields
  <1>3. /\ set' \in [enabled : BOOLEAN, limitOn : BOOLEAN, limit : Nat]
        /\ set'.enabled = set.enabled /\ set'.limitOn = r.on /\ set'.limit = r.limit
    BY <1>1, <1>2 DEF IInv, TypeOK
  <1>4. ~TickToCome(t) /\ ~Ticking(t)
    BY <1>1 DEF TickToCome, Ticking
  <1>5. CASE r.on \/ set.limitOn
    <2>1. task' = [task EXCEPT ![t].at = "push", ![t].cmd = IF r.on THEN r.limit ELSE NoLimit]
          /\ UNCHANGED gate
      BY <1>5 DEF StartLimiter
    <2>2. /\ l \in Locals /\ l.at = "push" /\ l.cmd = (IF r.on THEN r.limit ELSE NoLimit)
          /\ l.req = task[t].req /\ l.enabled = task[t].enabled /\ task' = [task EXCEPT ![t] = l]
      BY <1>2, <2>1 DEF IInv, TypeOK, Locals, Places, NoLimit
    <2> HIDE DEF l
    <2>3. t = Tick => l.req.op = "tick"
      BY <2>2 DEF IInv, LocalsCurrent
    <2>4. task' \in [Tasks -> Locals] /\ OnlyHolderInside' /\ LocalsCurrent' /\ MirrorCatchesUp'
      BY <1>1, <1>3, <1>4, <2>1, <2>2, <2>3, HolderKeeps
    <2>5. QED
      BY <1>1, <1>3, <2>1, <2>4 DEF IInv, TypeOK
  <1>6. CASE ~(r.on \/ set.limitOn)
    <2>1. Free(t)
      BY <1>6 DEF StartLimiter
    <2>2. /\ gate' \in Seq(Tasks) /\ task' \in [Tasks -> Locals]
          /\ OnlyHolderInside' /\ LocalsCurrent' /\ MirrorCatchesUp'
      BY <1>1, <1>3, <1>4, <2>1, HolderLeaves
    <2>3. QED
      BY <1>1, <1>3, <2>2 DEF IInv, TypeOK
  <1>7. QED
    BY <1>5, <1>6

LEMMA LimitPushedKeeps ==
    ASSUME IInv, NEW t \in Tasks, LimitPushed(t)
    PROVE  IInv'
  <1>1. /\ task[t].at = "push" /\ Free(t) /\ UNCHANGED <<set, mirror, manual, qb>>
        /\ Fine \/ Fault
        /\ sab' = Limited(task[t].cmd) \/ sab' = sab
    BY DEF LimitPushed, Answers
  <1>2. Holds(t) /\ ~TickToCome(t) /\ ~Ticking(t) /\ task[t].cmd \in Nat
    BY <1>1 DEF IInv, TypeOK, OnlyHolderInside, Inside, Ticking, TickToCome, LocalsCurrent, NoLimit
  <1>3. /\ gate' \in Seq(Tasks) /\ task' \in [Tasks -> Locals]
        /\ OnlyHolderInside' /\ LocalsCurrent' /\ MirrorCatchesUp'
    BY <1>1, <1>2, HolderLeaves
  <1>4. QED
    <2>1. sab' \in [pausedBy : {Nobody, "loop", "user", "elsewhere"}, limit : Nat]
      BY ZenonT(40), <1>1, <1>2, LimitedTyped DEF IInv, TypeOK
    <2>2. moves' \in [{"request", "fault", "outside", "restart"} -> Nat]
      BY <1>1, FaultTyped DEF IInv
    <2>3. QED
      BY <1>1, <1>2, <1>3, <2>1, <2>2 DEF IInv, TypeOK

LEMMA StartClientKeeps ==
    ASSUME IInv, NEW t \in Tasks, StartClient(t)
    PROVE  IInv'
  <1>1. /\ Holds(t) /\ task[t].at = "queued" /\ task[t].req.op = "client"
        /\ Free(t) \/ (Goto(t, "client") /\ UNCHANGED gate)
        /\ UNCHANGED <<set, mirror, manual, sab, qb, moves>>
    BY DEF StartClient, Begins
  <1>2. ~TickToCome(t) /\ ~Ticking(t)
    BY <1>1 DEF TickToCome, Ticking
  <1>3. CASE Free(t)
    <2>1. /\ gate' \in Seq(Tasks) /\ task' \in [Tasks -> Locals]
          /\ OnlyHolderInside' /\ LocalsCurrent' /\ MirrorCatchesUp'
      BY <1>1, <1>2, <1>3, HolderLeaves
    <2>2. QED
      BY <1>1, <2>1 DEF IInv, TypeOK
  <1>4. CASE Goto(t, "client") /\ UNCHANGED gate
    <2> DEFINE l == [task[t] EXCEPT !.at = "client"]
    <2>1. l \in Locals /\ l.at = "client" /\ l.req = task[t].req /\ l.enabled = task[t].enabled
          /\ task' = [task EXCEPT ![t] = l]
      BY ZenonT(40), <1>4 DEF Goto, IInv, TypeOK, Locals, Places
    <2> HIDE DEF l
    <2>2. t = Tick => l.req.op = "tick"
      BY <2>1 DEF IInv, LocalsCurrent
    <2>3. task' \in [Tasks -> Locals] /\ OnlyHolderInside' /\ LocalsCurrent' /\ MirrorCatchesUp'
      BY <1>1, <1>2, <1>4, <2>1, <2>2, HolderKeeps
    <2>4. QED
      BY <1>1, <1>4, <2>3 DEF IInv, TypeOK
  <1>5. QED
    BY <1>1, <1>3, <1>4

LEMMA ClientAnsweredKeeps ==
    ASSUME IInv, NEW t \in Tasks, ClientAnswered(t)
    PROVE  IInv'
  <1> DEFINE r == task[t].req
  <1>1. PICK o \in Outcomes :
            /\ Answers(o)
            /\ sab' = IF o.done /\ r.client = "sabnzbd"
                      THEN Commanded(IF r.paused THEN "pause" ELSE "resume", "user") ELSE sab
            /\ qb' = IF o.done /\ r.client = "qbittorrent" THEN [qb EXCEPT !.stopped = r.paused] ELSE qb
            /\ manual' = Noted(r, o)
            /\ IF o.ok THEN ReadSwitch(t) /\ UNCHANGED gate ELSE Free(t)
    BY DEF ClientAnswered
  <1>2. task[t].at = "client" /\ Holds(t) /\ ~TickToCome(t) /\ ~Ticking(t) /\ task[t] \in Locals
        /\ UNCHANGED <<set, mirror>>
    BY DEF ClientAnswered, IInv, TypeOK, OnlyHolderInside, Inside, Ticking, TickToCome
  <1>3. r.op = "client" /\ r.paused \in BOOLEAN /\ r.client \in Clients
    <2>1. r.op = "client" /\ r \in [op : {"tick"}] \cup Requests
      BY <1>2 DEF IInv, LocalsCurrent, Locals
    <2>2. r \in Requests
      BY <2>1
    <2>3. QED
      BY <2>1, <2>2, RequestFields
  <1>4. /\ sab' \in [pausedBy : {Nobody, "loop", "user", "elsewhere"}, limit : Nat]
        /\ qb' \in [torrents : BOOLEAN, stopped : BOOLEAN]
        /\ manual' \subseteq Clients
        /\ moves' \in [{"request", "fault", "outside", "restart"} -> Nat]
    <2>1. moves' \in [{"request", "fault", "outside", "restart"} -> Nat]
      BY <1>1, FaultTyped DEF Answers, IInv
    <2>2. qb' \in [torrents : BOOLEAN, stopped : BOOLEAN] /\ manual' \subseteq Clients
      <3>1. manual' \subseteq Clients
        BY <1>1, <1>3 DEF IInv, TypeOK, Noted
      <3>2. [qb EXCEPT !.stopped = r.paused] \in [torrents : BOOLEAN, stopped : BOOLEAN]
        BY <1>3 DEF IInv, TypeOK
      <3>3. QED
        BY <1>1, <3>1, <3>2 DEF IInv, TypeOK
    <2>3. sab' \in [pausedBy : {Nobody, "loop", "user", "elsewhere"}, limit : Nat]
      BY <1>1, CommandedTyped DEF IInv, TypeOK
    <2>4. QED
      BY <2>1, <2>2, <2>3
  <1>5. CASE o.ok
    <2> DEFINE l == [task[t] EXCEPT !.at = "ask_qb", !.enabled = set.enabled]
    <2>1. l \in Locals /\ l.at = "ask_qb" /\ l.enabled = set.enabled /\ l.req = task[t].req
          /\ task' = [task EXCEPT ![t] = l] /\ UNCHANGED gate
      <3>1. ReadSwitch(t) /\ UNCHANGED gate
        BY <1>1, <1>5
      <3>2. QED
        BY ZenonT(40), <3>1 DEF ReadSwitch, IInv, TypeOK, Locals, Places
    <2> HIDE DEF l
    <2>2. t = Tick => l.req.op = "tick"
      BY <2>1 DEF IInv, LocalsCurrent
    <2>3. task' \in [Tasks -> Locals] /\ OnlyHolderInside' /\ LocalsCurrent' /\ MirrorCatchesUp'
      BY <1>2, <2>1, <2>2, HolderKeeps
    <2>4. QED
      BY <1>2, <1>4, <2>1, <2>3 DEF IInv, TypeOK
  <1>6. CASE ~o.ok
    <2>1. Free(t)
      BY <1>1, <1>6
    <2>2. /\ gate' \in Seq(Tasks) /\ task' \in [Tasks -> Locals]
          /\ OnlyHolderInside' /\ LocalsCurrent' /\ MirrorCatchesUp'
      BY <1>2, <2>1, HolderLeaves
    <2>3. QED
      BY <1>2, <1>4, <2>2 DEF IInv, TypeOK
  <1>7. QED
    BY <1>5, <1>6

LEMMA OutsideKeeps == IInv /\ Outside => IInv'
  <1> SUFFICES ASSUME IInv, Outside PROVE IInv'
    OBVIOUS
  <1>1. TypeOK'
    <2>1. moves' \in [{"request", "fault", "outside", "restart"} -> Nat]
      BY MovesTyped DEF Outside, IInv
    <2>2. /\ sab' \in [pausedBy : {Nobody, "loop", "user", "elsewhere"}, limit : Nat]
          /\ qb' \in [torrents : BOOLEAN, stopped : BOOLEAN]
      <3>1. [torrents |-> ~qb.torrents, stopped |-> FALSE] \in [torrents : BOOLEAN, stopped : BOOLEAN]
        BY DEF IInv, TypeOK
      <3>2. [sab EXCEPT !.limit = NoLimit] \in [pausedBy : {Nobody, "loop", "user", "elsewhere"}, limit : Nat]
        BY DEF IInv, TypeOK, NoLimit
      <3>3. [sab EXCEPT !.pausedBy = IF SabPaused THEN Nobody ELSE "elsewhere"]
              \in [pausedBy : {Nobody, "loop", "user", "elsewhere"}, limit : Nat]
        BY DEF IInv, TypeOK, Nobody
      <3>4. QED
        BY <3>1, <3>2, <3>3 DEF Outside, IInv, TypeOK
    <2>3. QED
      BY <2>1, <2>2 DEF Outside, IInv, TypeOK
  <1>2. UNCHANGED <<set, mirror, manual, gate, task>>
    BY DEF Outside
  <1>3. QED
    BY <1>1, <1>2 DEF IInv, OnlyHolderInside, Inside, Holds, LocalsCurrent, MirrorCatchesUp,
                      TickToCome, ReadsNow, Ticking

LEMMA RestartKeeps == IInv /\ Restart => IInv'
  <1> SUFFICES ASSUME IInv, Restart PROVE IInv'
    OBVIOUS
  <1>1. TypeOK'
    BY MovesTyped, IdleLocals DEF Restart, IInv, TypeOK
  <1>2. \A t \in Tasks : task'[t] = Idle
    BY DEF Restart
  <1>3. QED
    BY <1>1, <1>2 DEF Restart, IInv, OnlyHolderInside, Inside, LocalsCurrent, MirrorCatchesUp,
                      Ticking, Idle, Tasks

-----------------------------------------------------------------------------
(***************************************************************************)
(* The theorems                                                            *)
(***************************************************************************)

LEMMA InitIInv == Init => IInv
  <1> SUFFICES ASSUME Init PROVE IInv
    OBVIOUS
  <1>1. \A t \in Tasks : task[t] = Idle
    BY DEF Init
  <1>2. TypeOK
    <2>1. set \in [enabled : BOOLEAN, limitOn : BOOLEAN, limit : Nat]
      <3>1. Limits \subseteq Nat
        BY BandwidthAssumption
      <3>2. QED
        BY <3>1 DEF Init
    <2>2. sab \in [pausedBy : {Nobody, "loop", "user", "elsewhere"}, limit : Nat]
      BY DEF Init, Nobody, NoLimit
    <2>3. moves \in [{"request", "fault", "outside", "restart"} -> Nat]
      BY BandwidthAssumption DEF Init
    <2>4. task \in [Tasks -> Locals] /\ gate \in Seq(Tasks)
      BY IdleLocals DEF Init
    <2>5. QED
      BY <2>1, <2>2, <2>3, <2>4 DEF Init, TypeOK
  <1>3. QED
    BY <1>1, <1>2 DEF Init, IInv, OnlyHolderInside, Inside, LocalsCurrent, MirrorCatchesUp,
                      Ticking, Idle, Tasks

LEMMA StepIInv == IInv /\ [Next]_vars => IInv'
  <1> SUFFICES ASSUME IInv, [Next]_vars PROVE IInv'
    OBVIOUS
  <1>1. CASE Fire \/ Outside \/ Restart
    BY <1>1, FireKeeps, OutsideKeeps, RestartKeeps
  <1>2. CASE \E u \in Users, r \in Requests : Arrive(u, r)
    BY <1>2, ArriveKeeps
  <1>3. CASE \E t \in Tasks : Step(t)
    BY <1>3, StartTickKeeps, QbAnswersKeeps, SabAnswersKeeps, LimitEnforcedKeeps, CommandAnsweredKeeps,
       StartLimiterKeeps, LimitPushedKeeps, StartClientKeeps, ClientAnsweredKeeps DEF Step
  <1>4. CASE UNCHANGED vars
    BY <1>4 DEF vars, IInv, TypeOK, OnlyHolderInside, Inside, Holds, LocalsCurrent, MirrorCatchesUp,
                TickToCome, ReadsNow, Ticking
  <1>5. QED
    BY <1>1, <1>2, <1>3, <1>4 DEF Next

\* Whatever is asked, and whatever the clients answer: one operation at a time,
\* with current locals, and a tick to come wherever switch and mirror differ.
THEOREM SpecIInv == Spec => []IInv
  BY InitIInv, StepIInv, PTL DEF Spec

\* Between operations the API shows the stored switch.
THEOREM SpecMirrorTrue == Spec => []MirrorTrue
  <1>1. IInv => MirrorTrue
    BY DEF IInv, MirrorCatchesUp, MirrorTrue, TickToCome, ReadsNow, Ticking
  <1>2. QED
    BY <1>1, SpecIInv, PTL

\* A client paused by hand stays paused until it is resumed by hand: the one
\* command that could resume it, a tick's, goes out while nothing is noted.
LEMMA NoTickUndoes ==
    ASSUME IInv, Next, NEW c \in Clients, c \in manual, Paused(c), ~Paused(c)', ~ByOthers
    PROVE  ByHand(c)
  <1>1. ~UNCHANGED <<sab, qb>>
    BY DEF Paused, SabPaused
  <1>2. ~Outside
    BY DEF Outside, Move, ByOthers, IInv, TypeOK
  <1>3. PICK t \in Tasks : Step(t)
    BY <1>1, <1>2 DEF Next, Fire, Restart, Arrive
  <1>4. CASE LimitEnforced(t) \/ LimitPushed(t)
    <2>1. sab'.pausedBy = sab.pausedBy /\ qb' = qb
      BY <1>4 DEF LimitEnforced, LimitPushed, Limited, IInv, TypeOK
    <2>2. QED
      BY <2>1 DEF Paused, SabPaused
  <1>5. ~CommandAnswered(t)
    BY DEF CommandAnswered, IInv, LocalsCurrent
  <1>6. CASE ClientAnswered(t)
    <2>1. c = task[t].req.client
      <3>1. \/ task[t].req.client = "sabnzbd" /\ UNCHANGED qb
            \/ task[t].req.client = "qbittorrent" /\ UNCHANGED sab
            \/ UNCHANGED <<sab, qb>>
        BY <1>6 DEF ClientAnswered
      <3>2. QED
        BY <1>1, <3>1 DEF Paused, SabPaused, Clients
    <2>2. QED
      BY <1>6, <2>1 DEF ClientAnswered, ByHand
  <1>7. CASE \/ StartTick(t) \/ QbAnswers(t) \/ SabAnswers(t) \/ StartLimiter(t) \/ StartClient(t)
    BY <1>1, <1>7 DEF StartTick, QbAnswers, SabAnswers, StartLimiter, StartClient
  <1>8. QED
    BY <1>3, <1>4, <1>5, <1>6, <1>7 DEF Step

\* A client paused by hand stays paused until it is resumed by hand.
THEOREM SpecManualPauseHolds == Spec => ManualPauseHolds
  <1> DEFINE Held == \A c \in Clients : c \in manual /\ Paused(c) /\ ~Paused(c)' => ByOthers \/ ByHand(c)
  <1>1. ASSUME IInv, [Next]_vars
        PROVE  [Held]_vars
    <2>1. CASE Next
      BY <1>1, <2>1, NoTickUndoes
    <2>2. CASE UNCHANGED vars
      BY <2>2
    <2>3. QED
      BY <1>1, <2>1, <2>2
  <1>2. QED
    BY <1>1, SpecIInv, PTL DEF Spec, ManualPauseHolds

\* Only the two pushes of the limiter, and nothing else of the application,
\* change SABnzbd's limit, to what the settings say when they do.
LEMMA OnlyCurrentLimits ==
    ASSUME IInv, Next, sab'.limit # sab.limit, ~ByOthers
    PROVE  sab'.limit = IF set.limitOn THEN set.limit ELSE NoLimit
  <1>1. ~Outside
    BY DEF Outside, Move, ByOthers, IInv, TypeOK
  <1>2. PICK t \in Tasks : Step(t)
    BY <1>1 DEF Next, Fire, Restart, Arrive
  <1>3. CASE LimitEnforced(t)
    BY <1>3 DEF LimitEnforced, Limited, IInv, TypeOK, LocalsCurrent
  <1>4. CASE LimitPushed(t)
    BY <1>4 DEF LimitPushed, Limited, IInv, TypeOK, LocalsCurrent
  <1>5. ASSUME NEW cmd, NEW who
        PROVE  Commanded(cmd, who).limit = sab.limit
    BY DEF Commanded, IInv, TypeOK
  <1>6. ~CommandAnswered(t) /\ ~ClientAnswered(t)
    BY <1>5 DEF CommandAnswered, ClientAnswered
  <1>7. CASE \/ StartTick(t) \/ QbAnswers(t) \/ SabAnswers(t) \/ StartLimiter(t) \/ StartClient(t)
    BY <1>7 DEF StartTick, QbAnswers, SabAnswers, StartLimiter, StartClient
  <1>8. QED
    BY <1>2, <1>3, <1>4, <1>6, <1>7 DEF Step

\* What the application makes of SABnzbd's limit is what the settings say.
THEOREM SpecLimitIsCurrent == Spec => LimitIsCurrent
  <1> DEFINE Current == sab'.limit # sab.limit /\ ~ByOthers
                          => sab'.limit = IF set.limitOn THEN set.limit ELSE NoLimit
  <1>1. ASSUME IInv, [Next]_vars
        PROVE  [Current]_vars
    <2>1. CASE Next
      BY <1>1, <2>1, OnlyCurrentLimits
    <2>2. CASE UNCHANGED vars
      BY <2>2
    <2>3. QED
      BY <1>1, <2>1, <2>2
  <1>2. QED
    BY <1>1, SpecIInv, PTL DEF Spec, LimitIsCurrent
=============================================================================
