----------------------------- MODULE HostThreads -----------------------------
(* The host threads of a parallel machine: the one that drives the run      *)
(* loop, the pool's workers, and one more that holds handles of the machine *)
(* (a debugger, a front end).                                               *)
CONSTANTS Workers, Driver, Host
ASSUME ThreadsAssumption == Driver # Host /\ {Driver, Host} \cap Workers = {}
Threads == Workers \cup {Driver, Host}
=============================================================================
