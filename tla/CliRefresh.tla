----------------------------- MODULE CliRefresh -----------------------------
(***************************************************************************)
(* The CLI's silent session refresh: packages/cli/src/token-refresh.ts and *)
(* the session store it works on, with several rakomi processes, logins    *)
(* and logouts, failing stores, lost answers and crashes.                  *)
(*                                                                         *)
(* A process is one command whose request got a 401.  A session stands for *)
(* its access and refresh token, which rotate together: `login` names the  *)
(* sign-in that began it and `gen` counts its rotations.  The cross-process*)
(* lock is module Mutex, which RefreshLock implements: exclusive until a   *)
(* process has crashed, and from then on open to several contenders.       *)
(***************************************************************************)
EXTENDS Naturals

CONSTANTS
  Procs,      \* the commands that refresh
  MaxLogins,  \* bound on the sign-ins, the first one included
  Faults      \* what may go wrong: see AllFaults

AllFaults ==
  { "crash",       \* a process dies between two steps
    "writeFails",  \* the store refuses a write and keeps what it held
    "torn",        \* a failed or interrupted write leaves no readable session
    "readFails",   \* reading the store throws (a locked keychain)
    "keyFails",    \* the DPoP key can be neither read nor created
    "lostAnswer",  \* the server rotates, its answer is lost or an error
    "login", "logout" }

ASSUME FaultsAssumption == Faults \subseteq AllFaults
ASSUME LoginsAssumption == MaxLogins \in Nat \ {0}

VARIABLES
  store,    \* the stored session, or NoSession
  pc,       \* the next step of each process
  session,  \* the session each process works on
  outcome,  \* what each refresh came to
  answer,   \* the token endpoint's answer to each process
  holders,  \* the processes inside the refresh lock
  crashed,  \* a process has crashed: its lock may be taken over
  srvGen,   \* the generation the server accepts, per sign-in
  grace,    \* the sign-ins whose last rotation is still handed back
  revoked,  \* a reuse was detected: every session is revoked
  logins,   \* how many sign-ins there have been
  racing    \* two processes were about to mark one session together (history)

lock == <<holders, crashed>>
server == <<srvGen, grace, revoked>>
vars == <<store, pc, session, outcome, answer, lock, server, logins, racing>>

Lock == INSTANCE Mutex WITH running <- holders

NoSession == [login |-> 0, gen |-> 0, marked |-> FALSE]
Fresh(l) == [login |-> l, gen |-> 0, marked |-> FALSE]
Mark(s) == [s EXCEPT !.marked = TRUE]
Unmark(s) == [s EXCEPT !.marked = FALSE]

Critical == {"reread", "mark", "confirmMark", "send", "answered", "unmark",
             "persist", "confirmPersist", "release"}
Labels == {"start", "acquire", "done", "crashed"} \cup Critical
Outcomes == {"none", "notLoggedIn", "busy", "usedStored", "refreshed", "expired",
             "tryAgain", "notMarked", "noKey", "notPersisted"}
Answers == {"none", "ok", "malformed", "thrown", "transient", "rejected"}

Goto(p, label) == pc' = [pc EXCEPT ![p] = label]

\* fn returns or throws with this outcome; run() then releases the lock.
Conclude(p, result) ==
  Goto(p, "release") /\ outcome' = [outcome EXCEPT ![p] = result]

Init ==
  /\ store = Fresh(1)
  /\ pc = [p \in Procs |-> "start"]
  /\ session = [p \in Procs |-> NoSession]
  /\ outcome = [p \in Procs |-> "none"]
  /\ answer = [p \in Procs |-> "none"]
  /\ Lock!Init
  /\ srvGen = [l \in 1..MaxLogins |-> 0]
  /\ grace = {} /\ revoked = FALSE
  /\ logins = 1
  /\ racing = FALSE

-----------------------------------------------------------------------------
(* The store. *)

\* What a read returns; NoSession also stands for a caught exception.
Reads(s) == s = store \/ ("readFails" \in Faults /\ s = NoSession)

\* Outside the lock a read may also meet a file between truncation and write.
Writing == {"mark", "unmark", "persist"}
ReadsUnlocked(s) ==
  \/ Reads(s)
  \/ "torn" \in Faults /\ s = NoSession /\ \E q \in Procs : pc[q] \in Writing

WriteSucceeds(s) == store' = s
WriteFails ==
  \/ "writeFails" \in Faults /\ store' = store
  \/ "torn" \in Faults /\ store' = NoSession

-----------------------------------------------------------------------------
(* refreshSession *)

\* onUnauthorized reads the store before the lock is taken.
Start(p) ==
  /\ pc[p] = "start"
  /\ \E current \in {store, NoSession} :
       /\ ReadsUnlocked(current)
       /\ session' = [session EXCEPT ![p] = current]
       /\ IF current = NoSession
            THEN Goto(p, "done") /\ outcome' = [outcome EXCEPT ![p] = "notLoggedIn"]
            ELSE Goto(p, "acquire") /\ UNCHANGED outcome
  /\ UNCHANGED <<store, lock, answer, server, logins, racing>>

Acquire(p) ==
  /\ pc[p] = "acquire"
  /\ Lock!Enter(p)
  /\ Goto(p, "reread")
  /\ UNCHANGED <<store, session, outcome, answer, server, logins, racing>>

AcquireTimesOut(p) ==
  /\ pc[p] = "acquire"
  /\ holders # {} \/ crashed
  /\ Goto(p, "done")
  /\ outcome' = [outcome EXCEPT ![p] = "busy"]
  /\ UNCHANGED <<store, session, lock, answer, server, logins, racing>>

\* Another process rotated the session meanwhile: its session is used.
Rotated(p, current) ==
  /\ current # NoSession /\ ~current.marked
  /\ <<current.login, current.gen>> # <<session[p].login, session[p].gen>>

\* refreshUnlocked begins.  The history records when another process that a
\* takeover let in is about to mark the same session.
Work(p, s) ==
  /\ Goto(p, "mark")
  /\ racing' = (racing \/ \E q \in Procs \ {p} :
                            pc[q] = "mark" /\ session[q].login = s.login)
  /\ UNCHANGED outcome

\* Mutant: the session read before the lock was taken is refreshed.
RereadNothing(p) ==
  /\ pc[p] = "reread"
  /\ \/ session[p].marked /\ Conclude(p, "expired") /\ UNCHANGED racing
     \/ ~session[p].marked /\ Work(p, session[p])
  /\ UNCHANGED <<store, session, lock, answer, server, logins>>

\* Under the lock the store is read again; without a stored session the
\* refresh goes on with the one in memory.
Reread(p) ==
  /\ pc[p] = "reread"
  /\ \E current \in {store, NoSession} :
       /\ Reads(current)
       /\ LET work == IF current = NoSession THEN session[p] ELSE current
          IN  /\ session' = [session EXCEPT ![p] = work]
              /\ \/ /\ Rotated(p, current)
                    /\ Conclude(p, "usedStored") /\ UNCHANGED racing
                 \/ /\ ~Rotated(p, current) /\ work.marked
                    /\ Conclude(p, "expired") /\ UNCHANGED racing
                 \/ /\ ~Rotated(p, current) /\ ~work.marked
                    /\ Work(p, work)
  /\ UNCHANGED <<store, lock, answer, server, logins>>

(* refreshUnlocked *)

\* The marker is written before the refresh token is sent.
MarkSent(p) ==
  /\ pc[p] = "mark"
  /\ session' = [session EXCEPT ![p] = Mark(session[p])]
  /\ \/ WriteSucceeds(Mark(session[p])) /\ Goto(p, "confirmMark") /\ UNCHANGED outcome
     \/ WriteFails /\ Conclude(p, "notMarked")
  /\ UNCHANGED <<lock, answer, server, logins, racing>>

\* Read back, then the DPoP key is resolved: a failure there leaves the marker.
ConfirmMark(p) ==
  /\ pc[p] = "confirmMark"
  /\ \E back \in {store, NoSession} :
       /\ Reads(back)
       /\ \/ back # session[p] /\ Conclude(p, "notMarked")
          \/ back = session[p] /\ Goto(p, "send") /\ UNCHANGED outcome
          \/ back = session[p] /\ "keyFails" \in Faults /\ Conclude(p, "noKey")
  /\ UNCHANGED <<store, session, lock, answer, server, logins, racing>>

\* Mutant: a malformed 200 takes the marker off.
HandleAnswerUnmarks(p) ==
  /\ pc[p] = "answered"
  /\ \/ /\ answer[p] \in {"thrown", "transient", "rejected", "malformed"}
        /\ Goto(p, "unmark") /\ UNCHANGED outcome
     \/ answer[p] = "ok" /\ Goto(p, "persist") /\ UNCHANGED outcome
  /\ UNCHANGED <<store, session, lock, answer, server, logins, racing>>

\* The answer decides what becomes of the marker.
HandleAnswer(p) ==
  /\ pc[p] = "answered"
  /\ \/ /\ answer[p] \in {"thrown", "transient", "rejected"}
        /\ Goto(p, "unmark") /\ UNCHANGED outcome
     \/ answer[p] = "malformed" /\ Conclude(p, "expired")
     \/ answer[p] = "ok" /\ Goto(p, "persist") /\ UNCHANGED outcome
  /\ UNCHANGED <<store, session, lock, answer, server, logins, racing>>

\* unmark ignores a failed write.
UnmarkSent(p) ==
  /\ pc[p] = "unmark"
  /\ WriteSucceeds(Unmark(session[p])) \/ WriteFails
  /\ Conclude(p, IF answer[p] = "rejected" THEN "expired" ELSE "tryAgain")
  /\ UNCHANGED <<session, lock, answer, server, logins, racing>>

\* The answer carries the rotation of the token that was sent.
Updated(p) == [Unmark(session[p]) EXCEPT !.gen = session[p].gen + 1]

Persist(p) ==
  /\ pc[p] = "persist"
  /\ session' = [session EXCEPT ![p] = Updated(p)]
  /\ \/ WriteSucceeds(Updated(p)) /\ Goto(p, "confirmPersist") /\ UNCHANGED outcome
     \/ WriteFails /\ Conclude(p, "notPersisted")
  /\ UNCHANGED <<lock, answer, server, logins, racing>>

ConfirmPersist(p) ==
  /\ pc[p] = "confirmPersist"
  /\ \E back \in {store, NoSession} :
       /\ Reads(back)
       /\ Conclude(p, IF back = session[p] THEN "refreshed" ELSE "notPersisted")
  /\ UNCHANGED <<store, session, lock, answer, server, logins, racing>>

\* Mutant: the lock is released only after a refresh that succeeded.
ReleaseOnSuccess(p) ==
  /\ pc[p] = "release" /\ outcome[p] \in {"refreshed", "usedStored"}
  /\ Lock!Leave(p)
  /\ Goto(p, "done")
  /\ UNCHANGED <<store, session, outcome, answer, server, logins, racing>>

Release(p) ==
  /\ pc[p] = "release"
  /\ Lock!Leave(p)
  /\ Goto(p, "done")
  /\ UNCHANGED <<store, session, outcome, answer, server, logins, racing>>

-----------------------------------------------------------------------------
(* The token endpoint. *)

Reply(p, a) == Goto(p, "answered") /\ answer' = [answer EXCEPT ![p] = a]

\* It accepts the current generation, and the previous one for a while.
Accept(p) ==
  LET s == session[p]
  IN  /\ pc[p] = "send" /\ ~revoked
      /\ \/ s.gen = srvGen[s.login]
            /\ srvGen' = [srvGen EXCEPT ![s.login] = s.gen + 1]
            /\ grace' = grace \cup {s.login}
         \/ s.gen + 1 = srvGen[s.login] /\ s.login \in grace
            /\ UNCHANGED <<srvGen, grace>>
      /\ \/ Reply(p, "ok") \/ Reply(p, "malformed")
         \/ "lostAnswer" \in Faults /\ (Reply(p, "thrown") \/ Reply(p, "transient"))
      /\ UNCHANGED <<store, session, outcome, lock, revoked, logins, racing>>

\* It does not accept the token, or the request does not reach it.
Refuse(p) ==
  /\ pc[p] = "send"
  /\ Reply(p, "thrown") \/ Reply(p, "transient") \/ Reply(p, "rejected")
  /\ UNCHANGED <<store, session, outcome, lock, server, logins, racing>>

\* An older token is a reuse.
DetectReuse(p) ==
  LET s == session[p]
  IN  /\ pc[p] = "send" /\ ~revoked
      /\ s.gen < srvGen[s.login]
      /\ ~(s.gen + 1 = srvGen[s.login] /\ s.login \in grace)
      /\ revoked' = TRUE
      /\ Reply(p, "rejected")
      /\ UNCHANGED <<store, session, outcome, lock, srvGen, grace, logins, racing>>

CloseWindow ==
  \E l \in grace :
    /\ grace' = grace \ {l}
    /\ UNCHANGED <<store, pc, session, outcome, answer, lock, srvGen, revoked, logins, racing>>

-----------------------------------------------------------------------------
(* The user, and crashes. *)

\* rakomi login and rakomi logout do not take the refresh lock.
Login ==
  /\ "login" \in Faults /\ logins < MaxLogins
  /\ logins' = logins + 1
  /\ store' = Fresh(logins + 1)
  /\ UNCHANGED <<pc, session, outcome, lock, answer, server, racing>>

Logout ==
  /\ "logout" \in Faults /\ store # NoSession
  /\ store' = NoSession
  /\ UNCHANGED <<pc, session, outcome, lock, answer, server, logins, racing>>

Crash(p) ==
  /\ "crash" \in Faults
  /\ pc[p] \notin {"done", "crashed"}
  /\ Goto(p, "crashed")
  /\ Lock!Crash(p)
  /\ \/ store' = store
     \/ "torn" \in Faults /\ pc[p] \in Writing /\ store' = NoSession
  /\ UNCHANGED <<session, outcome, answer, server, logins, racing>>

Step(p) ==
  \/ Start(p) \/ Acquire(p) \/ Reread(p) \/ MarkSent(p) \/ ConfirmMark(p)
  \/ HandleAnswer(p) \/ UnmarkSent(p) \/ Persist(p) \/ ConfirmPersist(p) \/ Release(p)

Next ==
  \/ \E p \in Procs : \/ Step(p) \/ AcquireTimesOut(p) \/ Crash(p)
                      \/ Accept(p) \/ Refuse(p) \/ DetectReuse(p)
  \/ CloseWindow \/ Login \/ Logout

Spec == Init /\ [][Next]_vars

\* A running process goes on, and its request is answered or times out.
FairSpec == Spec /\ \A p \in Procs : WF_vars(Step(p)) /\ WF_vars(Refuse(p))

-----------------------------------------------------------------------------
Sessions == [login : 0..MaxLogins, gen : Nat, marked : BOOLEAN]

\* Every variable has the type its code counterpart has.
TypeOK ==
  /\ store \in Sessions
  /\ pc \in [Procs -> Labels]
  /\ session \in [Procs -> Sessions]
  /\ outcome \in [Procs -> Outcomes]
  /\ answer \in [Procs -> Answers]
  /\ holders \subseteq Procs /\ crashed \in BOOLEAN
  /\ srvGen \in [1..MaxLogins -> Nat]
  /\ grace \subseteq 0..MaxLogins
  /\ revoked \in BOOLEAN
  /\ logins \in 1..MaxLogins
  /\ racing \in BOOLEAN

\* A refresh never ends every session of the user: no refresh token is
\* presented after its rotation stopped being handed back - unless, after a
\* crash, the takeover let two processes in and the second read the session
\* before the first had marked it.  Once the marker is written it protects
\* against everybody the lock lets in.
NoReuse == revoked => crashed /\ racing

\* A stored session without the marker holds a token the server accepts, so
\* the next command can use it; one with it may be rotated out.  The exception
\* is that of NoReuse.
UnmarkedIsCurrent ==
  (store # NoSession /\ ~store.marked /\ ~racing) => store.gen = srvGen[store.login]

\* A refresh never writes an older rotation over a newer one, with the
\* exception of NoReuse.
NeverBack ==
  [][store.login = store'.login => store'.gen >= store.gen \/ racing]_vars

\* Every command's refresh ends, whatever fails: the lock is not left held.
EveryRefreshEnds == \A p \in Procs : pc[p] = "start" ~> pc[p] \in {"done", "crashed"}

=============================================================================
