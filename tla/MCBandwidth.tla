---------------------------- MODULE MCBandwidth -----------------------------
\* Instances of Bandwidth for TLC.
EXTENDS Bandwidth

SomeRequests ==
    [op : {"switch"}, on : BOOLEAN] \cup [op : {"limiter"}, on : BOOLEAN, limit : {2}]
    \cup [op : {"client"}, client : Clients, paused : BOOLEAN]
Few == [request |-> 2, fault |-> 1, outside |-> 1, restart |-> 1]
OneLimit == {1}
=============================================================================
