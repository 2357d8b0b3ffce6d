---------------------------- MODULE RefreshLock ----------------------------
(***************************************************************************)
(* The CLI's cross-process lock around a session refresh, one system call  *)
(* per step: packages/cli/src/refresh-lock.ts.                             *)
(*                                                                         *)
(* A process is one call of run().  It creates one lock file and its token *)
(* is fresh, so the process names its file and its token alike.  `path` is *)
(* the file at the lock's path; a rename or a link moves the file, its     *)
(* content and its mtime together.                                         *)
(***************************************************************************)
EXTENDS Naturals

CONSTANTS
  Procs,       \* the calls of run()
  NoFile,      \* no file, or nothing read
  Empty,       \* the content of a file created and not yet written
  MaxCrashes   \* bound on the crashes

ASSUME NamesAssumption == NoFile \notin Procs /\ Empty \notin Procs /\ NoFile # Empty
ASSUME CrashesAssumption == MaxCrashes \in Nat

VARIABLES
  pc,        \* the next system call of each process: see Labels
  path,      \* the file at the lock's path, or NoFile
  written,   \* the files their token has been written to
  stale,     \* the files not touched for staleMs
  observed,  \* the content each process read from the lock it judges stale
  aside,     \* the file each process has renamed aside
  crashes    \* how many processes have crashed

vars == <<pc, path, written, stale, observed, aside, crashes>>

Acquiring == {"create", "stat", "read", "rename", "compare", "putBack", "recreate", "poll"}
Holding == {"write", "fn", "check", "unlink"}
Ended == {"done", "timedOut", "crashed"}
Labels == Acquiring \cup Holding \cup Ended

Content(file) ==
  IF file = NoFile THEN NoFile ELSE IF file \in written THEN file ELSE Empty

Goto(p, label) == pc' = [pc EXCEPT ![p] = label]

Init ==
  /\ pc = [p \in Procs |-> "create"]
  /\ path = NoFile
  /\ written = {} /\ stale = {}
  /\ observed = [p \in Procs |-> NoFile]
  /\ aside = [p \in Procs |-> NoFile]
  /\ crashes = 0

-----------------------------------------------------------------------------
(* tryCreate: an exclusive create, then the token is written. *)

Create(p) ==
  /\ pc[p] \in {"create", "recreate"}
  /\ path = NoFile
  /\ path' = p
  /\ Goto(p, "write")
  /\ UNCHANGED <<written, stale, observed, aside, crashes>>

CreateFails(p) ==
  /\ pc[p] \in {"create", "recreate"}
  /\ path # NoFile
  /\ Goto(p, IF pc[p] = "create" THEN "stat" ELSE "poll")
  /\ UNCHANGED <<path, written, stale, observed, aside, crashes>>

Write(p) ==
  /\ pc[p] = "write"
  /\ written' = written \cup {p}
  /\ Goto(p, "fn")
  /\ UNCHANGED <<path, stale, observed, aside, crashes>>

-----------------------------------------------------------------------------
(* takeOverIfStale *)

\* Mutant: a stale lock is not taken over.
StatIgnoresAge(p) ==
  /\ pc[p] = "stat"
  /\ Goto(p, "recreate")
  /\ UNCHANGED <<path, written, stale, observed, aside, crashes>>

Stat(p) ==
  /\ pc[p] = "stat"
  /\ Goto(p, IF path # NoFile /\ path \in stale THEN "read" ELSE "recreate")
  /\ UNCHANGED <<path, written, stale, observed, aside, crashes>>

ReadObserved(p) ==
  /\ pc[p] = "read"
  /\ observed' = [observed EXCEPT ![p] = Content(path)]
  /\ Goto(p, IF path = NoFile THEN "recreate" ELSE "rename")
  /\ UNCHANGED <<path, written, stale, aside, crashes>>

Rename(p) ==
  /\ pc[p] = "rename"
  /\ aside' = [aside EXCEPT ![p] = path]
  /\ path' = NoFile
  /\ Goto(p, IF path = NoFile THEN "recreate" ELSE "compare")
  /\ UNCHANGED <<written, stale, observed, crashes>>

\* The file renamed aside is the one whose content was read: it is removed.
RemoveAside(p) ==
  /\ pc[p] = "compare"
  /\ Content(aside[p]) = observed[p]
  /\ aside' = [aside EXCEPT ![p] = NoFile]
  /\ Goto(p, "recreate")
  /\ UNCHANGED <<path, written, stale, observed, crashes>>

Differs(p) ==
  /\ pc[p] = "compare"
  /\ Content(aside[p]) # observed[p]
  /\ Goto(p, "putBack")
  /\ UNCHANGED <<path, written, stale, observed, aside, crashes>>

\* The hard link fails when yet another lock exists; the aside name goes.
PutBack(p) ==
  /\ pc[p] = "putBack"
  /\ path' = IF path = NoFile THEN aside[p] ELSE path
  /\ aside' = [aside EXCEPT ![p] = NoFile]
  /\ Goto(p, "recreate")
  /\ UNCHANGED <<written, stale, observed, crashes>>

-----------------------------------------------------------------------------
(* run *)

\* The deadline has not passed: sleep, then try again.
Poll(p) ==
  /\ pc[p] = "poll"
  /\ Goto(p, "create")
  /\ UNCHANGED <<path, written, stale, observed, aside, crashes>>

\* Mutant: after the deadline the function runs without the lock.
TimeOutProceeds(p) ==
  /\ pc[p] = "poll"
  /\ Goto(p, "fn")
  /\ UNCHANGED <<path, written, stale, observed, aside, crashes>>

TimeOut(p) ==
  /\ pc[p] = "poll"
  /\ Goto(p, "timedOut")
  /\ UNCHANGED <<path, written, stale, observed, aside, crashes>>

\* fn returns or throws: the release begins.
Finish(p) ==
  /\ pc[p] = "fn"
  /\ Goto(p, "check")
  /\ UNCHANGED <<path, written, stale, observed, aside, crashes>>

CheckOwn(p) ==
  /\ pc[p] = "check"
  /\ Goto(p, IF Content(path) = p THEN "unlink" ELSE "done")
  /\ UNCHANGED <<path, written, stale, observed, aside, crashes>>

\* The unlink removes whatever is at the path by now.
Unlink(p) ==
  /\ pc[p] = "unlink"
  /\ path' = NoFile
  /\ Goto(p, "done")
  /\ UNCHANGED <<written, stale, observed, aside, crashes>>

-----------------------------------------------------------------------------
(* Crashes and time. *)

Crash(p) ==
  /\ crashes < MaxCrashes
  /\ pc[p] \notin Ended
  /\ crashes' = crashes + 1
  /\ Goto(p, "crashed")
  /\ UNCHANGED <<path, written, stale, observed, aside>>

\* Mutant: no heartbeat, so a running holder's lock goes stale as well.
NeverBeats(file) == FALSE

\* The heartbeat touches the file every staleMs / 4 while its process holds
\* the lock, so only the file of a process that no longer runs goes stale.
Beats(file) == pc[file] \notin Ended

GoStale(file) ==
  /\ file = path \/ \E p \in Procs : aside[p] = file
  /\ file \notin stale
  /\ ~Beats(file)
  /\ stale' = stale \cup {file}
  /\ UNCHANGED <<pc, path, written, observed, aside, crashes>>

Step(p) ==
  \/ Create(p) \/ CreateFails(p) \/ Write(p)
  \/ Stat(p) \/ ReadObserved(p) \/ Rename(p)
  \/ RemoveAside(p) \/ Differs(p) \/ PutBack(p)
  \/ Poll(p) \/ Finish(p) \/ CheckOwn(p) \/ Unlink(p)

Next == \E p \in Procs : Step(p) \/ TimeOut(p) \/ Crash(p) \/ GoStale(p)

Spec == Init /\ [][Next]_vars

\* Every process that has not crashed goes on, fn ends (the HTTP request has a
\* timeout) and a file nobody touches goes stale.
FairSpec == Spec /\ \A p \in Procs : WF_vars(Step(p)) /\ WF_vars(GoStale(p))

-----------------------------------------------------------------------------
\* Every variable has the type its code counterpart has.
TypeOK ==
  /\ pc \in [Procs -> Labels]
  /\ path \in Procs \cup {NoFile}
  /\ written \subseteq Procs /\ stale \subseteq Procs
  /\ observed \in [Procs -> Procs \cup {NoFile, Empty}]
  /\ aside \in [Procs -> Procs \cup {NoFile}]
  /\ crashes \in Nat

\* The processes running their function under the lock.
Running == {p \in Procs : pc[p] = "fn"}

\* Only one process refreshes at a time.
MutualExclusion == \A p, q \in Running : p = q

\* The lock implements the abstract one: exclusive while nobody has crashed,
\* and a process that ends, in whatever way, is no longer inside.
Abstract == INSTANCE Mutex WITH running <- Running, crashed <- crashes > 0
ImplementsMutex == Abstract!Spec

\* A lock left behind by a crash, or put back after its owner released it,
\* holds nobody up: each process that waits and does not time out gets to run.
EveryoneGetsThrough == \A p \in Procs : pc[p] \in Acquiring ~> pc[p] \notin Acquiring

=============================================================================
