----------------------------- MODULE Bandwidth ------------------------------
(***************************************************************************)
(* Bandwidth-Controllarr: a scheduled tick pauses SABnzbd while            *)
(* qBittorrent has active torrents and re-asserts SABnzbd's speed limit;   *)
(* requests of the dashboard switch the control and the limiter and pause  *)
(* or resume either client by hand.  All of them command the same two      *)
(* programs, one at a time behind control_lock(); only the switch is       *)
(* stored ahead of the lock.                                               *)
(*                                                                         *)
(* A step runs from one await to the next.  A command takes effect when it *)
(* is answered: nothing here reads the client in between.  The readings    *)
(* that only answer a request (gather_status) are left out.                *)
(*                                                                         *)
(* An operator Name_Fault just before Name is Name with a plausible bug in *)
(* it; the specification does not use it.                                  *)
(***************************************************************************)
EXTENDS Naturals, Sequences, FiniteSets

CONSTANTS
    Requests,      \* what the dashboard sends, see Arrive
    Limits,        \* the speed limits a setting may have, above 0
    Users,         \* the dashboard requests that may run at once
    Allowed        \* bounds: requests, faults, outside changes and restarts
Tick    == "control_job"
Tasks   == Users \cup {Tick}
Clients == {"qbittorrent", "sabnzbd"}
NoLimit == 0
Unknown == 9999    \* SABnzbd reports a limit that cannot be read
Nobody  == "nobody"

ASSUME BandwidthAssumption ==
    /\ Tick \notin Users
    /\ Limits \subseteq 1..100
    /\ Requests \subseteq [op : {"switch"}, on : BOOLEAN] \cup [op : {"limiter"}, on : BOOLEAN, limit : 1..100]
                        \cup [op : {"client"}, client : Clients, paused : BOOLEAN]
    /\ Allowed \in [{"request", "fault", "outside", "restart"} -> Nat]

VARIABLES
    set,     \* the settings store: enabled, limitOn (sab_limit_enabled), limit
    mirror,  \* _STATE.enabled
    manual,  \* _STATE.manual_paused_clients
    gate,    \* control_lock(): its holder, then those who wait, in their order
    sab,     \* SABnzbd: who paused its queue, and its speed limit
    qb,      \* qBittorrent: it has torrents to download; they are stopped
    task,    \* where each task is, and its locals
    moves    \* the bounds left

vars == <<set, mirror, manual, gate, sab, qb, task, moves>>

Idle == [at |-> "idle", req |-> [op |-> "tick"], enabled |-> FALSE, torrents |-> FALSE,
         view |-> [online |-> FALSE, paused |-> FALSE, limit |-> NoLimit], cmd |-> "none"]
SabPaused == sab.pausedBy # Nobody
Active    == qb.torrents /\ ~qb.stopped

Init ==
    /\ set \in [enabled : BOOLEAN, limitOn : BOOLEAN, limit : Limits]
    /\ mirror = set.enabled /\ manual = {} /\ gate = <<>>
    /\ sab = [pausedBy |-> Nobody, limit |-> NoLimit]
    /\ qb \in [torrents : BOOLEAN, stopped : {FALSE}]
    /\ task = [t \in Tasks |-> Idle]
    /\ moves = Allowed

Move(b) == moves[b] > 0 /\ moves' = [moves EXCEPT ![b] = @ - 1]
Goto(t, place) == task' = [task EXCEPT ![t].at = place]
Holds(t) == gate # <<>> /\ Head(gate) = t
\* The holder's operation is over: the first who waits holds the lock.
Free(t)  == gate' = Tail(gate) /\ task' = [task EXCEPT ![t] = Idle]
\* Whether the other side answers at all: a fault is one of the bounded ones.
Fault == Move("fault")
Fine  == UNCHANGED moves

------------------------------------------------------------------------------
(* Starting: the scheduler fires the tick, a request reaches its handler.   *)

Fire ==
    /\ task[Tick].at = "idle"
    /\ task' = [task EXCEPT ![Tick].at = "queued"]
    /\ gate' = Append(gate, Tick)
    /\ UNCHANGED <<set, mirror, manual, sab, qb, moves>>

\* update_settings with the switch: stored and mirrored before it waits.
\* The variant answers without the tick that follows.
Switch_NoTick(u, r) ==
    /\ set' = [set EXCEPT !.enabled = r.on] /\ mirror' = r.on
    /\ task' = task /\ gate' = gate
Switch(u, r) ==
    /\ set' = [set EXCEPT !.enabled = r.on] /\ mirror' = r.on
    /\ task' = [task EXCEPT ![u].at = "queued", ![u].req = [op |-> "tick"]]
    /\ gate' = Append(gate, u)

Arrive(u, r) ==
    /\ task[u].at = "idle" /\ r \in Requests /\ Move("request")
    /\ IF r.op = "switch" THEN Switch(u, r)
       ELSE /\ task' = [task EXCEPT ![u].at = "queued", ![u].req = r]
            /\ gate' = Append(gate, u) /\ UNCHANGED <<set, mirror>>
    /\ UNCHANGED <<manual, sab, qb>>

\* The lock, as each of its users takes it. The variants let the
\* tick, or a change of the limiter, run beside the holder.
Begins_TickAnyway(t, op) == task[t].at = "queued" /\ task[t].req.op = op /\ (op = "tick" \/ Holds(t))
Begins_LimiterAnyway(t, op) == task[t].at = "queued" /\ task[t].req.op = op /\ (op = "limiter" \/ Holds(t))
Begins(t, op) == task[t].at = "queued" /\ task[t].req.op = op /\ Holds(t)

------------------------------------------------------------------------------
(* The tick, _apply_control_locked: read both clients, enforce the limit,   *)
(* decide, command, store.                                                  *)

\* The setting is read here; the first client is asked.
ReadSwitch(t) == task' = [task EXCEPT ![t].at = "ask_qb", ![t].enabled = set.enabled]

StartTick(t) ==
    /\ Begins(t, "tick") /\ ReadSwitch(t)
    /\ UNCHANGED <<set, mirror, manual, gate, sab, qb, moves>>

\* get_stats of qBittorrent; offline counts as no torrents.
QbAnswers(t) ==
    /\ task[t].at = "ask_qb"
    /\ \/ Fine /\ task' = [task EXCEPT ![t].at = "ask_sab", ![t].torrents = Active]
       \/ Fault /\ task' = [task EXCEPT ![t].at = "ask_sab", ![t].torrents = FALSE]
    /\ UNCHANGED <<set, mirror, manual, gate, sab, qb>>

Offline == [online |-> FALSE, paused |-> FALSE, limit |-> Unknown]
Reading == [online |-> TRUE, paused |-> SabPaused, limit |-> sab.limit]

Drifted(view) == set.limitOn /\ view.online /\ view.limit # set.limit

\* The command of a tick. The variant leaves SABnzbd paused when disabled.
Decision_LeavesPaused(task_t, view) ==
    IF manual # {} \/ ~view.online \/ ~task_t.enabled THEN "none"
    ELSE IF task_t.torrents THEN IF view.paused THEN "none" ELSE "pause"
    ELSE IF view.paused THEN "resume" ELSE "none"
Decision(task_t, view) ==
    IF manual # {} \/ ~view.online THEN "none"
    ELSE IF task_t.enabled /\ task_t.torrents THEN IF view.paused THEN "none" ELSE "pause"
    ELSE IF view.paused THEN "resume" ELSE "none"

\* Without a command the tick stores the switch it read and ends.
Store(t) == mirror' = task[t].enabled /\ Free(t)
Decide(t, view) ==
    LET cmd == Decision(task[t], view)
    IN  IF cmd = "none" THEN Store(t)
        ELSE /\ task' = [task EXCEPT ![t].at = "command", ![t].cmd = cmd]
             /\ UNCHANGED <<gate, mirror>>

SabAnswers(t) ==
    /\ task[t].at = "ask_sab"
    /\ \E view \in {Offline, Reading, [Reading EXCEPT !.limit = Unknown]} :
        /\ IF view = Reading THEN Fine ELSE Fault
        /\ IF Drifted(view)
           THEN /\ task' = [task EXCEPT ![t].at = "enforce", ![t].view = view, ![t].cmd = set.limit]
                /\ UNCHANGED <<gate, mirror>>
           ELSE Decide(t, view)
    /\ UNCHANGED <<set, manual, sab, qb>>

\* A command is carried out and answered, or refused, or carried out with
\* its answer lost.
Outcomes == [done : BOOLEAN, ok : BOOLEAN] \ {[done |-> FALSE, ok |-> TRUE]}
Answers(o) == IF o.ok THEN Fine ELSE Fault
Limited(n) == [sab EXCEPT !.limit = n]
Commanded(cmd, who) ==
    [sab EXCEPT !.pausedBy = IF cmd = "resume" THEN Nobody ELSE IF @ = Nobody THEN who ELSE @]

\* set_speed_limit of the tick: it goes on whatever the answer was.
LimitEnforced(t) ==
    /\ task[t].at = "enforce"
    /\ \E o \in Outcomes :
        /\ Answers(o)
        /\ sab' = IF o.done THEN Limited(task[t].cmd) ELSE sab
    /\ Decide(t, task[t].view)
    /\ UNCHANGED <<set, manual, qb>>

CommandAnswered(t) ==
    /\ task[t].at = "command"
    /\ \E o \in Outcomes :
        /\ Answers(o)
        /\ sab' = IF o.done THEN Commanded(task[t].cmd, "loop") ELSE sab
    /\ Store(t)
    /\ UNCHANGED <<set, manual, qb>>

------------------------------------------------------------------------------
(* apply_sab_limit_settings: store the limiter, then push it once.          *)

StartLimiter(t) ==
    /\ Begins(t, "limiter")
    /\ LET r == task[t].req IN
        /\ set' = [set EXCEPT !.limitOn = r.on, !.limit = r.limit]
        /\ IF r.on \/ set.limitOn
           THEN /\ task' = [task EXCEPT ![t].at = "push", ![t].cmd = IF r.on THEN r.limit ELSE NoLimit]
                /\ UNCHANGED gate
           ELSE Free(t)
    /\ UNCHANGED <<mirror, manual, sab, qb, moves>>

\* A failure is only logged.
LimitPushed(t) ==
    /\ task[t].at = "push"
    /\ \E o \in Outcomes :
        /\ Answers(o)
        /\ sab' = IF o.done THEN Limited(task[t].cmd) ELSE sab
    /\ Free(t)
    /\ UNCHANGED <<set, mirror, manual, qb>>

------------------------------------------------------------------------------
(* set_client_paused: command the client, note it, then tick inside the lock. *)

StartClient(t) ==
    /\ Begins(t, "client")
    /\ LET r == task[t].req IN
        IF (r.client \in manual) = r.paused THEN Free(t)
        ELSE Goto(t, "client") /\ UNCHANGED gate
    /\ UNCHANGED <<set, mirror, manual, sab, qb, moves>>

\* A refused command is a 502 and changes nothing.
Noted(r, o) == IF ~o.ok THEN manual
               ELSE IF r.paused THEN manual \cup {r.client} ELSE manual \ {r.client}

ClientAnswered(t) ==
    /\ task[t].at = "client"
    /\ LET r == task[t].req IN \E o \in Outcomes :
        /\ Answers(o)
        /\ sab' = IF o.done /\ r.client = "sabnzbd"
                  THEN Commanded(IF r.paused THEN "pause" ELSE "resume", "user") ELSE sab
        /\ qb' = IF o.done /\ r.client = "qbittorrent" THEN [qb EXCEPT !.stopped = r.paused] ELSE qb
        /\ manual' = Noted(r, o)
        /\ IF o.ok THEN ReadSwitch(t) /\ UNCHANGED gate ELSE Free(t)
    /\ UNCHANGED <<set, mirror>>

------------------------------------------------------------------------------
(* The surroundings: torrents come and finish; SABnzbd is paused, resumed   *)
(* or restarted without its limit by others; the application restarts.      *)

Outside ==
    /\ Move("outside")
    /\ \/ qb' = [torrents |-> ~qb.torrents, stopped |-> FALSE] /\ UNCHANGED sab
       \/ sab' = [sab EXCEPT !.pausedBy = IF SabPaused THEN Nobody ELSE "elsewhere"] /\ UNCHANGED qb
       \/ sab.limit # NoLimit /\ sab' = [sab EXCEPT !.limit = NoLimit] /\ UNCHANGED qb
    /\ UNCHANGED <<set, mirror, manual, gate, task>>

\* setup(): the switch is read back, what was paused by hand is forgotten.
Restart ==
    /\ Move("restart")
    /\ mirror' = set.enabled /\ manual' = {} /\ gate' = <<>>
    /\ task' = [t \in Tasks |-> Idle]
    /\ UNCHANGED <<set, sab, qb>>

Step(t) ==
    \/ StartTick(t) \/ QbAnswers(t) \/ SabAnswers(t) \/ LimitEnforced(t) \/ CommandAnswered(t)
    \/ StartLimiter(t) \/ LimitPushed(t) \/ StartClient(t) \/ ClientAnswered(t)
Next == \/ Fire \/ Outside \/ Restart
        \/ \E u \in Users, r \in Requests : Arrive(u, r)
        \/ \E t \in Tasks : Step(t)

Spec == Init /\ [][Next]_vars
\* The scheduler keeps firing; every call is answered or times out.
FairSpec == Spec /\ WF_vars(Fire) /\ \A t \in Tasks : WF_vars(Step(t))

------------------------------------------------------------------------------
(* Properties.                                                              *)

Paused(c) == IF c = "sabnzbd" THEN SabPaused ELSE qb.stopped
ByOthers  == moves'.outside # moves.outside
\* A request to pause or resume client c by hand is at its command.
ByHand(c) == \E t \in Tasks : task[t].at = "client" /\ task[t].req.client = c

\* A client paused by hand stays paused until it is resumed by hand: no tick,
\* whenever it started and whatever it decided, undoes it.
ManualPauseHolds ==
    [][\A c \in Clients : c \in manual /\ Paused(c) /\ ~Paused(c)' => ByOthers \/ ByHand(c)]_vars

\* What the application makes of SABnzbd's limit is what the settings say at
\* that moment, never what they said when a tick began.
LimitIsCurrent ==
    [][sab'.limit # sab.limit /\ ~ByOthers
         => sab'.limit = IF set.limitOn THEN set.limit ELSE NoLimit]_vars

\* Between operations the state the API shows is the switch that is stored,
\* although ticks that read the old one finish after it was changed.
MirrorTrue == (\A t \in Tasks : task[t].at = "idle") => mirror = set.enabled

\* The control converges: once nothing changes any more and nothing is paused by
\* hand, SABnzbd is paused while the control is on and torrents download, and no
\* pause of the control's own outlives that; an enabled limit is in force.  Of a
\* pause somebody else made it says nothing.
Settles ==
    <>[](/\ manual = {} => IF set.enabled /\ Active THEN SabPaused ELSE sab.pausedBy # "loop"
         /\ set.limitOn => sab.limit = set.limit)

\* README.md:126 and 1184: the control leaves alone what it did not pause
\* while it is disabled.
LeavesOthersPause ==
    [][~set.enabled /\ sab.pausedBy = "elsewhere" /\ ~SabPaused' => ByOthers \/ ByHand("sabnzbd")]_vars
=============================================================================
