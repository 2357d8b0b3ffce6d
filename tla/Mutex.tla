------------------------------- MODULE Mutex -------------------------------
(***************************************************************************)
(* What the refresh lock promises: at most one process at a time runs      *)
(* under it until a process crashes.  From then on a stale file may be     *)
(* taken over, and contenders that judge it stale together may all get in. *)
(***************************************************************************)
CONSTANT Procs

VARIABLES
  running,  \* the processes running a function under the lock
  crashed   \* a process has crashed

Init == running = {} /\ crashed = FALSE

Enter(p) ==
  /\ running = {} \/ crashed
  /\ running' = running \cup {p}
  /\ UNCHANGED crashed

Leave(p) == p \in running /\ running' = running \ {p} /\ UNCHANGED crashed

Crash(p) == running' = running \ {p} /\ crashed' = TRUE

Next == \E p \in Procs : Enter(p) \/ Leave(p) \/ Crash(p)

Spec == Init /\ [][Next]_<<running, crashed>>

=============================================================================
