------------------------- MODULE RefreshLock_proofs -------------------------
(***************************************************************************)
(* Proofs about RefreshLock for every set of processes.  While no process  *)
(* has crashed, no lock goes stale, so the takeover never runs and one     *)
(* process at a time is inside.  From the first crash on the abstract lock *)
(* lets several in, as this one may (the run refresh_lock_contended).      *)
(***************************************************************************)
EXTENDS RefreshLock, TLAPS

\* Every variable keeps its type, crashes included.
THEOREM Typing == Spec => []TypeOK
<1>1. Init => TypeOK
  BY CrashesAssumption DEF Init, TypeOK, Labels, Acquiring
<1>2. TypeOK /\ [Next]_vars => TypeOK'
  <2> SUFFICES ASSUME TypeOK, [Next]_vars PROVE TypeOK'
    OBVIOUS
  <2> USE DEF TypeOK, Labels, Acquiring, Holding, Ended, Goto
  <2>1. ASSUME NEW p \in Procs, Create(p) \/ CreateFails(p) \/ Write(p) PROVE TypeOK'
    BY <2>1 DEF Create, CreateFails, Write
  <2>2. ASSUME NEW p \in Procs, Stat(p) \/ ReadObserved(p) \/ Rename(p) PROVE TypeOK'
    BY <2>2 DEF Stat, ReadObserved, Content, Rename
  <2>3. ASSUME NEW p \in Procs, RemoveAside(p) \/ Differs(p) \/ PutBack(p) PROVE TypeOK'
    BY <2>3 DEF RemoveAside, Differs, PutBack
  <2>4. ASSUME NEW p \in Procs, Poll(p) \/ TimeOut(p) \/ Finish(p) PROVE TypeOK'
    BY <2>4 DEF Poll, TimeOut, Finish
  <2>5. ASSUME NEW p \in Procs, CheckOwn(p) \/ Unlink(p) PROVE TypeOK'
    BY <2>5 DEF CheckOwn, Unlink
  <2>6. ASSUME NEW p \in Procs, Crash(p) \/ GoStale(p) PROVE TypeOK'
    BY <2>6 DEF Crash, GoStale
  <2>7. CASE UNCHANGED vars
    BY <2>7 DEF vars
  <2>8. QED
    BY <2>1, <2>2, <2>3, <2>4, <2>5, <2>6, <2>7 DEF Next, Step
<1>3. QED
  BY <1>1, <1>2, PTL DEF Spec

-----------------------------------------------------------------------------
(* The inductive invariant: what holds until the first crash, as named parts. *)

\* A process holds the lock exactly while its own file is at the path.
OwnFileHeld ==
  /\ \A p \in Procs : pc[p] \in Holding <=> path = p
  /\ \A p \in Procs : pc[p] \in {"fn", "check", "unlink"} => p \in written

\* No file is stale, so nobody is inside the takeover.
NoTakeover ==
  /\ stale = {}
  /\ \A p \in Procs : pc[p] \notin {"read", "rename", "compare", "putBack"}
  /\ \A p \in Procs : aside[p] = NoFile

AliveInv == crashes = 0 => OwnFileHeld /\ NoTakeover

LEMMA AliveInductive == Spec => []AliveInv
<1>1. Init => AliveInv
  BY NamesAssumption
     DEF Init, AliveInv, OwnFileHeld, NoTakeover, Acquiring, Holding
<1>2. TypeOK /\ AliveInv /\ [Next]_vars => AliveInv'
  <2> SUFFICES ASSUME TypeOK, AliveInv, [Next]_vars PROVE AliveInv'
    OBVIOUS
  <2> USE NamesAssumption
      DEF AliveInv, OwnFileHeld, NoTakeover, TypeOK, Holding, Goto
  <2>1. ASSUME NEW p \in Procs, Create(p) PROVE AliveInv'
    BY <2>1 DEF Create
  <2>2. ASSUME NEW p \in Procs, CreateFails(p) \/ Poll(p) \/ TimeOut(p) PROVE AliveInv'
    BY <2>2 DEF CreateFails, Poll, TimeOut
  <2>3. ASSUME NEW p \in Procs, Write(p) \/ Finish(p) PROVE AliveInv'
    BY <2>3 DEF Write, Finish
  <2>4. ASSUME NEW p \in Procs, Stat(p) PROVE AliveInv'
    BY <2>4 DEF Stat
  <2>5. ASSUME NEW p \in Procs,
               ReadObserved(p) \/ Rename(p) \/ RemoveAside(p) \/ Differs(p) \/ PutBack(p)
        PROVE  AliveInv'
    BY <2>5 DEF ReadObserved, Rename, RemoveAside, Differs, PutBack
  <2>6. ASSUME NEW p \in Procs, CheckOwn(p) PROVE AliveInv'
    <3>1. crashes = 0 => pc[p] = "check" /\ path = p /\ Content(path) = p
      BY <2>6 DEF CheckOwn, Content
    <3>2. QED
      BY <2>6, <3>1 DEF CheckOwn
  <2>7. ASSUME NEW p \in Procs, Unlink(p) PROVE AliveInv'
    BY <2>7 DEF Unlink
  <2>8. ASSUME NEW p \in Procs, Crash(p) PROVE AliveInv'
    BY <2>8 DEF Crash
  <2>9. ASSUME NEW p \in Procs, GoStale(p) PROVE AliveInv'
    <3>1. crashes = 0 => path = p /\ pc[p] \in Holding
      BY <2>9 DEF GoStale
    <3>2. QED
      BY <2>9, <3>1 DEF GoStale, Beats, Ended
  <2>10. CASE UNCHANGED vars
    BY <2>10 DEF vars
  <2>11. QED
    BY <2>1, <2>2, <2>3, <2>4, <2>5, <2>6, <2>7, <2>8, <2>9, <2>10 DEF Next, Step
<1>3. QED
  BY <1>1, <1>2, Typing, PTL DEF Spec

-----------------------------------------------------------------------------
\* Until a process crashes at most one process refreshes, however many wait.
THEOREM OneAtATime == ASSUME MaxCrashes = 0 PROVE Spec => []MutualExclusion
<1>1. Init => crashes = 0
  BY DEF Init
<1>2. TypeOK /\ crashes = 0 /\ [Next]_vars => (crashes = 0)'
  BY DEF Next, Step, vars, Create, CreateFails, Write, Stat, ReadObserved, Rename,
     RemoveAside, Differs, PutBack, Poll, Finish, CheckOwn, Unlink, TimeOut, Crash, GoStale
<1>3. AliveInv /\ crashes = 0 => MutualExclusion
  BY DEF AliveInv, OwnFileHeld, MutualExclusion, Running, Holding
<1>4. QED
  BY <1>1, <1>2, <1>3, Typing, AliveInductive, PTL DEF Spec

\* And the system-call protocol implements the abstract lock, crashes included:
\* running a function begins with no one running, unless a process has crashed,
\* and ends with its process leaving or crashing.
THEOREM Implements == Spec => ImplementsMutex
<1>1. Init => Abstract!Init
  BY DEF Init, Abstract!Init, Running
<1>2. TypeOK /\ AliveInv /\ [Next]_vars => [Abstract!Next]_<<Running, crashes > 0>>
  <2> SUFFICES ASSUME TypeOK, AliveInv, [Next]_vars
               PROVE  Abstract!Next \/ UNCHANGED <<Running, crashes > 0>>
    BY Zenon
  <2> USE DEF TypeOK, Running, Goto
  <2>1. ASSUME NEW p \in Procs, Write(p) PROVE Abstract!Enter(p)
    <3>1. Running = {} \/ crashes > 0
      BY <2>1 DEF Write, AliveInv, OwnFileHeld, Holding
    <3>2. Running' = Running \cup {p} /\ UNCHANGED crashes
      BY <2>1 DEF Write
    <3>3. QED
      BY <3>1, <3>2 DEF Abstract!Enter
  <2>2. ASSUME NEW p \in Procs, Finish(p) PROVE Abstract!Leave(p)
    <3>1. p \in Running /\ Running' = Running \ {p} /\ UNCHANGED crashes
      BY <2>2 DEF Finish
    <3>2. QED
      BY <3>1 DEF Abstract!Leave
  <2>3. ASSUME NEW p \in Procs, Crash(p) PROVE Abstract!Crash(p)
    <3>1. Running' = Running \ {p} /\ crashes' > 0
      BY <2>3 DEF Crash
    <3>2. QED
      BY <3>1 DEF Abstract!Crash
  <2>4. ASSUME NEW p \in Procs, Create(p) \/ CreateFails(p) \/ Stat(p) \/ Poll(p) \/ TimeOut(p)
        PROVE  UNCHANGED <<Running, crashes>>
    BY <2>4 DEF Create, CreateFails, Stat, Poll, TimeOut
  <2>5. ASSUME NEW p \in Procs,
               ReadObserved(p) \/ Rename(p) \/ RemoveAside(p) \/ Differs(p) \/ PutBack(p)
        PROVE  UNCHANGED <<Running, crashes>>
    BY <2>5 DEF ReadObserved, Rename, RemoveAside, Differs, PutBack
  <2>6. ASSUME NEW p \in Procs, CheckOwn(p) \/ Unlink(p) \/ GoStale(p)
        PROVE  UNCHANGED <<Running, crashes>>
    BY <2>6 DEF CheckOwn, Unlink, GoStale
  <2>7. CASE UNCHANGED vars
    BY <2>7 DEF vars
  <2>8. QED
    BY <2>1, <2>2, <2>3, <2>4, <2>5, <2>6, <2>7 DEF Next, Step, Abstract!Next
<1>3. QED
  BY <1>1, <1>2, Typing, AliveInductive, PTL DEF Spec, ImplementsMutex, Abstract!Spec

=============================================================================
