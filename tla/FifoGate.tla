------------------------------ MODULE FifoGate ------------------------------
(***************************************************************************)
(* What core/context.py promises of a SyncGate: runs that go through one   *)
(* gate never overlap, and runs that had to wait are let in one at a time, *)
(* in the order in which they arrived.  SyncGate and ListSync implement    *)
(* this specification.                                                     *)
(***************************************************************************)
EXTENDS Naturals, Sequences, SequencesExt, SeqFilter

CONSTANTS Runs,     \* the runs that share the gate
          Nobody    \* "no run is inside", not a member of Runs

VARIABLES holder,   \* the run inside the gate, or Nobody
          queue     \* the runs that wait, the first one in front

vars == <<holder, queue>>

Outside(r) == holder # r /\ r \notin ToSet(queue)

Init == holder = Nobody /\ queue = <<>>

\* An arriving run walks straight in when nobody is inside and nobody waits.
Take(r) ==
    /\ Outside(r) /\ holder = Nobody /\ queue = <<>>
    /\ holder' = r
    /\ UNCHANGED queue

Enter(r) ==
    /\ Outside(r)
    /\ queue' = Append(queue, r)
    /\ UNCHANGED holder

\* The longest waiting run goes in, never one that arrived later.
Grant ==
    /\ holder = Nobody /\ queue # <<>>
    /\ holder' = Head(queue)
    /\ queue' = Tail(queue)

\* A waiting run is cancelled and leaves the queue.
Leave(r) ==
    /\ r \in ToSet(queue)
    /\ queue' = Among(queue, ToSet(queue) \ {r})
    /\ UNCHANGED holder

Release ==
    /\ holder # Nobody
    /\ holder' = Nobody
    /\ UNCHANGED queue

\* The gate lives in memory: a new process starts with an empty one.
Restart == holder' = Nobody /\ queue' = <<>>

Next == \/ \E r \in Runs : Take(r) \/ Enter(r) \/ Leave(r)
        \/ Grant
        \/ Release
        \/ Restart

Spec == Init /\ [][Next]_vars
=============================================================================
