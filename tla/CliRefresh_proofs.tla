-------------------------- MODULE CliRefresh_proofs --------------------------
(***************************************************************************)
(* Proofs about CliRefresh, for any number of processes and sign-ins.      *)
(* While the store stays readable and answers are not lost - processes may *)
(* crash and their lock be taken over by several at once, writes may fail  *)
(* whole, users may sign in at any moment - a refresh presents a rotated   *)
(* token only when two processes that a takeover let in together read the  *)
(* session before either had marked it.  (A torn write, a lost answer, a   *)
(* failing read or a logout lose the marker or the rotation: for those only*)
(* EveryRefreshEnds is claimed, by the run cli_faults.)                    *)
(***************************************************************************)
EXTENDS CliRefresh, TLAPS

GracefulFaults == Faults \subseteq {"crash", "writeFails", "keyFails", "login"}

\* The sessions the steps write are sessions.
LEMMA SessionShapes ==
  /\ NoSession \in Sessions
  /\ \A l \in 1..MaxLogins : Fresh(l) \in Sessions
  /\ \A s \in Sessions : Mark(s) \in Sessions /\ Unmark(s) \in Sessions
<1>1. NoSession \in Sessions /\ \A l \in 1..MaxLogins : Fresh(l) \in Sessions
  BY LoginsAssumption DEF Sessions, NoSession, Fresh
<1>2. ASSUME NEW s \in Sessions PROVE Mark(s) \in Sessions
  BY DEF Sessions, Mark
<1>3. ASSUME NEW s \in Sessions PROVE Unmark(s) \in Sessions
  BY DEF Sessions, Unmark
<1>4. QED
  BY <1>1, <1>2, <1>3

LEMMA UpdatedShape ==
  ASSUME NEW p \in Procs, session \in [Procs -> Sessions] PROVE Updated(p) \in Sessions
<1>1. session[p] \in Sessions /\ session[p].gen + 1 \in Nat
  BY DEF Sessions
<1>2. Unmark(session[p]) \in Sessions
  BY <1>1, SessionShapes
<1>3. QED
  BY <1>1, <1>2 DEF Updated, Sessions

\* Every variable keeps its type, whatever goes wrong.
THEOREM Typing == Spec => []TypeOK
<1>1. Init => TypeOK
  <2>1. Fresh(1) \in Sessions /\ NoSession \in Sessions /\ 1 \in 1..MaxLogins /\ 0 \in Nat
    BY SessionShapes, LoginsAssumption
  <2>2. QED
    BY <2>1 DEF Init, Lock!Init, TypeOK, Labels, Outcomes, Answers
<1>2. TypeOK /\ [Next]_vars => TypeOK'
  <2> SUFFICES ASSUME TypeOK, [Next]_vars PROVE TypeOK'
    OBVIOUS
  <2>0. NoSession \in Sessions
    BY SessionShapes
  <2> USE DEF TypeOK, Labels, Critical, Outcomes, Goto, Conclude
  <2>1. ASSUME NEW p \in Procs, Start(p) PROVE TypeOK'
    BY <2>0, <2>1 DEF Start, server, lock
  <2>2. ASSUME NEW p \in Procs, Acquire(p) \/ AcquireTimesOut(p) \/ Release(p) PROVE TypeOK'
    BY <2>2 DEF Acquire, AcquireTimesOut, Release, server, lock, Lock!Enter, Lock!Leave
  <2>3. ASSUME NEW p \in Procs, Reread(p) PROVE TypeOK'
    <3>1. PICK current \in {store, NoSession} :
            /\ session' = [session EXCEPT ![p] =
                             IF current = NoSession THEN session[p] ELSE current]
            /\ \/ Conclude(p, "usedStored") /\ UNCHANGED racing
               \/ Conclude(p, "expired") /\ UNCHANGED racing
               \/ Goto(p, "mark") /\ UNCHANGED outcome /\ racing' \in BOOLEAN
      BY <2>3 DEF Reread, Work
    <3>2. QED
      BY <2>0, <2>3, <3>1 DEF Reread, server, lock
  <2>4. ASSUME NEW p \in Procs, MarkSent(p) PROVE TypeOK'
    <3>1. Mark(session[p]) \in Sessions
      BY SessionShapes
    <3>2. QED
      BY <2>0, <2>4, <3>1 DEF MarkSent, WriteSucceeds, WriteFails, server, lock
  <2>5. ASSUME NEW p \in Procs, ConfirmMark(p) \/ HandleAnswer(p) \/ ConfirmPersist(p)
        PROVE  TypeOK'
    <3>1. CASE ConfirmMark(p)
      BY <3>1 DEF ConfirmMark, server, lock
    <3>2. CASE HandleAnswer(p)
      BY <3>2 DEF HandleAnswer, server, lock
    <3>3. CASE ConfirmPersist(p)
      BY <3>3 DEF ConfirmPersist, server, lock
    <3>4. QED BY <2>5, <3>1, <3>2, <3>3
  <2>6. ASSUME NEW p \in Procs, UnmarkSent(p) PROVE TypeOK'
    <3>1. Unmark(session[p]) \in Sessions
      BY SessionShapes
    <3>2. QED
      BY <2>0, <2>6, <3>1 DEF UnmarkSent, WriteSucceeds, WriteFails, server, lock
  <2>7. ASSUME NEW p \in Procs, Persist(p) PROVE TypeOK'
    <3>1. Updated(p) \in Sessions
      BY UpdatedShape
    <3>2. QED
      BY <2>0, <2>7, <3>1 DEF Persist, WriteSucceeds, WriteFails, server, lock
  <2>8. ASSUME NEW p \in Procs, Accept(p) PROVE TypeOK'
    <3>1. session[p].gen + 1 \in Nat /\ session[p].login \in 0..MaxLogins
      BY DEF Sessions
    <3>2. srvGen' \in [1..MaxLogins -> Nat] /\ grace' \subseteq 0..MaxLogins
      BY <2>8, <3>1 DEF Accept
    <3>3. pc' \in [Procs -> Labels] /\ answer' \in [Procs -> Answers]
      BY <2>8 DEF Accept, Reply, Answers
    <3>4. QED
      BY <2>8, <3>2, <3>3 DEF Accept, lock
  <2>9. ASSUME NEW p \in Procs, Refuse(p) \/ DetectReuse(p) PROVE TypeOK'
    BY <2>9 DEF Refuse, DetectReuse, Reply, Answers, server, lock
  <2>10. ASSUME NEW p \in Procs, Crash(p) PROVE TypeOK'
    BY <2>0, <2>10 DEF Crash, Lock!Crash, server
  <2>11. CASE CloseWindow
    BY <2>11 DEF CloseWindow, lock
  <2>12. CASE Login
    <3>1. logins + 1 \in 1..MaxLogins
      BY <2>12, LoginsAssumption DEF Login
    <3>2. Fresh(logins + 1) \in Sessions
      BY <3>1, SessionShapes
    <3>3. QED
      BY <2>12, <3>1, <3>2 DEF Login, server, lock
  <2>13. CASE Logout
    BY <2>0, <2>13 DEF Logout, server, lock
  <2>14. CASE UNCHANGED vars
    BY <2>14 DEF vars, lock, server
  <2>15. QED
    BY <2>1, <2>2, <2>3, <2>4, <2>5, <2>6, <2>7, <2>8, <2>9, <2>10, <2>11, <2>12, <2>13, <2>14
       DEF Next, Step
<1>3. QED
  BY <1>1, <1>2, PTL DEF Spec

-----------------------------------------------------------------------------
(* The inductive invariant under graceful faults, as named parts. *)

\* A process in its critical section is inside the lock; until a crash there is
\* one at most, and only then can two be about to mark the same session.
LockInv ==
  /\ \A p \in Procs : pc[p] \in Critical <=> p \in holders
  /\ ~crashed => \A p, q \in holders : p = q
  /\ racing => crashed

\* Sessions belong to sign-ins that happened; a process past its first read
\* has one, and the store is never empty.
Known(s) == s.login \in 1..logins
KnownSessions ==
  /\ Known(store)
  /\ \A p \in Procs : pc[p] \in {"acquire"} \cup Critical => Known(session[p])
  /\ \A l \in 1..MaxLogins : l > logins => srvGen[l] = 0

\* What is in flight for one session is in flight for one process, whoever else
\* the lock lets in: the others meet the marker.
Flying == {"mark", "confirmMark", "send", "answered", "unmark", "persist"}
OneFlight ==
  \A p, q \in Procs :
    pc[p] \in Flying /\ pc[q] \in Flying /\ session[p].login = session[q].login => p = q

\* The server is never behind a stored session.
StoreNotAhead == store.gen <= srvGen[store.login]

\* A process works on the generation the server accepts until the server has
\* accepted it, and from then on knows the next one.
Sent(p) == answer[p] \in {"ok", "malformed"}
WorksOnCurrent ==
  \A p \in Procs :
    /\ pc[p] \in {"mark", "confirmMark", "send", "unmark"} =>
         session[p].gen = srvGen[session[p].login]
    /\ pc[p] = "answered" /\ ~Sent(p) => session[p].gen = srvGen[session[p].login]
    /\ pc[p] = "answered" /\ Sent(p) => session[p].gen + 1 = srvGen[session[p].login]
    /\ pc[p] = "persist" => session[p].gen + 1 = srvGen[session[p].login]

\* While a token is out, the stored session it belongs to carries the marker.
MarkedWhileOut ==
  \A p \in Procs :
    pc[p] \in {"confirmMark", "send", "answered", "unmark", "persist"} =>
      /\ session[p].marked
      /\ store.login = session[p].login => store.marked

\* What holds while no two processes have been about to mark one session.
FlightInv ==
  /\ ~revoked /\ UnmarkedIsCurrent
  /\ OneFlight /\ StoreNotAhead /\ WorksOnCurrent /\ MarkedWhileOut

RefreshInv == LockInv /\ KnownSessions /\ (~racing => FlightInv)

\* Under graceful faults a read returns the store, and a failed write leaves it.
LEMMA GracefulStore ==
  ASSUME GracefulFaults
  PROVE  /\ \A s : Reads(s) => s = store
         /\ \A s : ReadsUnlocked(s) => s = store
         /\ WriteFails => store' = store
         /\ "lostAnswer" \notin Faults /\ "torn" \notin Faults /\ ~Logout
  BY DEF GracefulFaults, Reads, ReadsUnlocked, WriteFails, Logout

\* What any step may do to the lock and to the history.
LEMMA LockStep ==
  ASSUME TypeOK, LockInv, [Next]_vars
  PROVE  LockInv'
<1> USE DEF LockInv, TypeOK, Goto, Conclude, Critical
<1>1. ASSUME NEW p \in Procs, Start(p) \/ AcquireTimesOut(p) PROVE LockInv'
  BY <1>1 DEF Start, AcquireTimesOut, lock
<1>2. ASSUME NEW p \in Procs, Acquire(p) PROVE LockInv'
  BY <1>2 DEF Acquire, Lock!Enter
<1>3. ASSUME NEW p \in Procs, Release(p) PROVE LockInv'
  BY <1>3 DEF Release, Lock!Leave
<1>4. ASSUME NEW p \in Procs, Reread(p) PROVE LockInv'
  <2>1. pc[p] = "reread" /\ UNCHANGED <<holders, crashed>>
    BY <1>4 DEF Reread, lock
  <2>2. \/ pc' = [pc EXCEPT ![p] = "release"] /\ racing' = racing
        \/ /\ pc' = [pc EXCEPT ![p] = "mark"]
           /\ racing' => racing \/ \E q \in Procs \ {p} : pc[q] = "mark"
    BY <1>4 DEF Reread, Work
  <2>3. racing' => crashed
    BY <2>1, <2>2
  <2>4. QED
    BY <2>1, <2>2, <2>3
<1>5. ASSUME NEW p \in Procs, MarkSent(p) \/ UnmarkSent(p) \/ Persist(p) PROVE LockInv'
  BY <1>5 DEF MarkSent, UnmarkSent, Persist, lock
<1>6. ASSUME NEW p \in Procs, ConfirmMark(p) \/ HandleAnswer(p) \/ ConfirmPersist(p)
      PROVE  LockInv'
  BY <1>6 DEF ConfirmMark, HandleAnswer, ConfirmPersist, lock
<1>7. ASSUME NEW p \in Procs, Accept(p) \/ Refuse(p) \/ DetectReuse(p) PROVE LockInv'
  BY <1>7 DEF Accept, Refuse, DetectReuse, Reply, lock
<1>8. ASSUME NEW p \in Procs, Crash(p) PROVE LockInv'
  BY <1>8 DEF Crash, Lock!Crash
<1>9. CASE CloseWindow \/ Login \/ Logout \/ UNCHANGED vars
  BY <1>9 DEF CloseWindow, Login, Logout, vars, lock
<1>10. QED
  BY <1>1, <1>2, <1>3, <1>4, <1>5, <1>6, <1>7, <1>8, <1>9 DEF Next, Step

\* Steps that touch neither the store nor the server, and leave every session
\* that is being worked on as it is.
LEMMA OutsideStep ==
  ASSUME GracefulFaults, TypeOK, RefreshInv, NEW p \in Procs,
         Start(p) \/ Acquire(p) \/ AcquireTimesOut(p) \/ Release(p)
  PROVE  KnownSessions' /\ (~racing' => FlightInv')
<1> USE DEF RefreshInv, FlightInv, UnmarkedIsCurrent, KnownSessions, Known, OneFlight, Flying,
            StoreNotAhead, WorksOnCurrent, Sent, MarkedWhileOut, TypeOK, Goto, server
<1>1. CASE Start(p)
  BY <1>1, GracefulStore DEF Start, Critical, NoSession
<1>2. CASE Acquire(p)
  BY <1>2 DEF Acquire, Critical
<1>3. CASE AcquireTimesOut(p)
  BY <1>3 DEF AcquireTimesOut, Critical
<1>4. CASE Release(p)
  BY <1>4 DEF Release, Critical
<1>5. QED
  BY <1>1, <1>2, <1>3, <1>4

\* Under the lock the store is read again: what is worked on is current, and
\* nobody else works on it unless the history says so.
LEMMA RereadStep ==
  ASSUME GracefulFaults, TypeOK, RefreshInv, NEW p \in Procs, Reread(p)
  PROVE  KnownSessions' /\ (~racing' => FlightInv')
<1> USE DEF RefreshInv, FlightInv, UnmarkedIsCurrent, KnownSessions, Known, OneFlight, Flying,
            StoreNotAhead, WorksOnCurrent, Sent, MarkedWhileOut, TypeOK, Goto, Conclude, server
<1>1. pc[p] = "reread" /\ store # NoSession
  BY DEF Reread, NoSession
<1>2. /\ session' = [session EXCEPT ![p] = store]
      /\ \/ pc' = [pc EXCEPT ![p] = "release"] /\ racing' = racing
         \/ /\ pc' = [pc EXCEPT ![p] = "mark"] /\ ~store.marked
            /\ racing' = (racing \/ \E q \in Procs \ {p} :
                                      pc[q] = "mark" /\ session[q].login = store.login)
      /\ UNCHANGED <<store, answer, srvGen, grace, revoked, logins>>
  BY <1>1, GracefulStore DEF Reread, Work
<1>3. KnownSessions'
  BY <1>1, <1>2 DEF Critical
<1>4. ASSUME ~racing' PROVE FlightInv'
  <2>1. ~racing
    BY <1>2, <1>4
  <2>2. pc'[p] = "mark" => store.gen = srvGen[store.login] /\ ~store.marked
    BY <1>1, <1>2, <2>1
  <2>3. ASSUME NEW q \in Procs, q # p, pc[q] \in Flying, pc'[p] = "mark"
        PROVE  session[q].login # store.login
    <3>1. pc[q] = "mark" => session[q].login # store.login
      BY <1>2, <1>4, <2>3
    <3>2. pc[q] # "mark" => session[q].login # store.login
      BY <2>1, <2>2, <2>3
    <3>3. QED
      BY <3>1, <3>2
  <2>4. OneFlight'
    <3>1. \A q \in Procs : q # p => pc'[q] = pc[q] /\ session'[q] = session[q]
      BY <1>2
    <3>2. session'[p] = store /\ (pc'[p] \in Flying => pc'[p] = "mark")
      BY <1>2
    <3>3. QED
      BY <2>1, <2>3, <3>1, <3>2
  <2>5. UnmarkedIsCurrent' /\ StoreNotAhead' /\ ~revoked'
    BY <1>2, <2>1
  <2>6. WorksOnCurrent' /\ MarkedWhileOut'
    BY <1>1, <1>2, <2>1, <2>2
  <2>7. QED
    BY <2>4, <2>5, <2>6
<1>5. QED
  BY <1>3, <1>4

\* The steps that write the store, or read it back.
LEMMA WriteStep ==
  ASSUME GracefulFaults, TypeOK, RefreshInv, NEW p \in Procs,
         MarkSent(p) \/ UnmarkSent(p) \/ Persist(p)
  PROVE  KnownSessions' /\ (~racing' => FlightInv')
<1> USE DEF RefreshInv, FlightInv, UnmarkedIsCurrent, KnownSessions, Known, OneFlight, Flying,
            StoreNotAhead, WorksOnCurrent, Sent, MarkedWhileOut, TypeOK, Goto, Conclude, server
<1>1. pc[p] \in Critical /\ pc[p] \in Flying
  BY DEF MarkSent, UnmarkSent, Persist, Critical
<1>2. session[p] \in Sessions /\ session[p].login \in 1..logins
  BY <1>1
<1>3. ~racing => \A q \in Procs : q # p /\ pc[q] \in Flying => session[q].login # session[p].login
  BY <1>1
<1>4. CASE MarkSent(p)
  <2>1. /\ session' = [session EXCEPT ![p] = Mark(session[p])]
        /\ \/ store' = Mark(session[p]) /\ pc' = [pc EXCEPT ![p] = "confirmMark"]
           \/ store' = store /\ pc' = [pc EXCEPT ![p] = "release"]
        /\ UNCHANGED <<answer, srvGen, grace, revoked, logins, racing>>
    BY <1>4, GracefulStore DEF MarkSent, WriteSucceeds
  <2>2. /\ Mark(session[p]).login = session[p].login /\ Mark(session[p]).gen = session[p].gen
        /\ Mark(session[p]).marked
    BY <1>2 DEF Mark, Sessions
  <2>3. ~racing => session[p].gen = srvGen[session[p].login]
    BY <1>4 DEF MarkSent
  <2>4. QED
    BY <1>1, <1>2, <1>3, <2>1, <2>2, <2>3 DEF Critical, Sessions
<1>5. CASE UnmarkSent(p)
  <2>1. /\ store' \in {Unmark(session[p]), store}
        /\ pc' = [pc EXCEPT ![p] = "release"]
        /\ UNCHANGED <<session, answer, srvGen, grace, revoked, logins, racing>>
    BY <1>5, GracefulStore DEF UnmarkSent, WriteSucceeds
  <2>2. Unmark(session[p]).login = session[p].login /\ Unmark(session[p]).gen = session[p].gen
    BY <1>2 DEF Unmark, Sessions
  <2>3. ~racing => session[p].gen = srvGen[session[p].login]
    BY <1>5 DEF UnmarkSent
  <2>4. QED
    BY <1>1, <1>2, <1>3, <2>1, <2>2, <2>3 DEF Critical, Sessions
<1>6. CASE Persist(p)
  <2>1. /\ session' = [session EXCEPT ![p] = Updated(p)]
        /\ \/ store' = Updated(p) /\ pc' = [pc EXCEPT ![p] = "confirmPersist"]
           \/ store' = store /\ pc' = [pc EXCEPT ![p] = "release"]
        /\ UNCHANGED <<answer, srvGen, grace, revoked, logins, racing>>
    BY <1>6, GracefulStore DEF Persist, WriteSucceeds
  <2>2. Updated(p).login = session[p].login /\ Updated(p).gen = session[p].gen + 1
    BY <1>2 DEF Updated, Unmark, Sessions
  <2>3. ~racing => session[p].gen + 1 = srvGen[session[p].login]
    BY <1>6 DEF Persist
  <2>4. QED
    BY <1>1, <1>2, <1>3, <2>1, <2>2, <2>3 DEF Critical, Sessions
<1>7. QED
  BY <1>4, <1>5, <1>6

LEMMA ReadBackStep ==
  ASSUME TypeOK, RefreshInv, NEW p \in Procs,
         ConfirmMark(p) \/ HandleAnswer(p) \/ ConfirmPersist(p)
  PROVE  KnownSessions' /\ (~racing' => FlightInv')
<1> USE DEF RefreshInv, FlightInv, UnmarkedIsCurrent, KnownSessions, Known, OneFlight, Flying,
            StoreNotAhead, WorksOnCurrent, Sent, MarkedWhileOut, TypeOK, Goto, Conclude, server
<1>1. CASE ConfirmMark(p)
  BY <1>1 DEF ConfirmMark, Critical
<1>2. CASE HandleAnswer(p)
  BY <1>2 DEF HandleAnswer, Critical
<1>3. CASE ConfirmPersist(p)
  BY <1>3 DEF ConfirmPersist, Critical
<1>4. QED
  BY <1>1, <1>2, <1>3

\* The server rotates a token only while the stored session carries its mark,
\* and never meets one it has rotated out.
LEMMA ServerStep ==
  ASSUME GracefulFaults, TypeOK, RefreshInv, NEW p \in Procs,
         Accept(p) \/ Refuse(p) \/ DetectReuse(p)
  PROVE  KnownSessions' /\ (~racing' => FlightInv')
<1> USE DEF RefreshInv, FlightInv, UnmarkedIsCurrent, KnownSessions, Known, OneFlight, Flying,
            StoreNotAhead, WorksOnCurrent, Sent, MarkedWhileOut, TypeOK, Goto, server
<1>1. /\ pc[p] = "send" /\ pc[p] \in Critical /\ pc[p] \in Flying
      /\ UNCHANGED <<store, session, logins, racing>>
  BY DEF Accept, Refuse, DetectReuse, Critical
<1>2. session[p] \in Sessions /\ session[p].login \in 1..logins /\ session[p].gen \in Nat
  BY <1>1 DEF Sessions
<1>3. session[p].login \in 1..MaxLogins /\ session[p].login <= logins /\ logins \in 1..MaxLogins
  BY <1>2, LoginsAssumption
<1>4. KnownSessions'
  <2>1. \A q \in Procs : pc'[q] \in {"acquire"} \cup Critical => pc[q] \in {"acquire"} \cup Critical
    BY <1>1 DEF Accept, Refuse, DetectReuse, Reply, Critical
  <2>2. \A l \in 1..MaxLogins : l > logins => srvGen'[l] = srvGen[l]
    <3>1. /\ session[p].login \in Nat /\ logins \in Nat
          /\ \/ srvGen' = [srvGen EXCEPT ![session[p].login] = session[p].gen + 1]
             \/ srvGen' = srvGen
      BY <1>3 DEF Accept, Refuse, DetectReuse
    <3>2. \A l \in 1..MaxLogins : l > logins => l # session[p].login
      BY <1>3, <3>1, LoginsAssumption
    <3>3. srvGen \in [1..MaxLogins -> Nat]
      OBVIOUS
    <3>4. QED
      BY <3>1, <3>2, <3>3
  <2>3. QED
    BY <1>1, <2>1, <2>2
<1>5. ASSUME ~racing PROVE FlightInv'
  <2>0. /\ session[p].gen = srvGen[session[p].login] /\ session[p].marked
        /\ store.login = session[p].login => store.marked
        /\ \A q \in Procs : q # p /\ pc[q] \in Flying => session[q].login # session[p].login
    BY <1>1, <1>5
  <2>1. CASE Accept(p)
    <3>1. /\ srvGen' = [srvGen EXCEPT ![session[p].login] = session[p].gen + 1]
          /\ UNCHANGED revoked
      BY <1>2, <2>0, <2>1 DEF Accept
    <3>2. /\ pc' = [pc EXCEPT ![p] = "answered"]
          /\ \/ answer' = [answer EXCEPT ![p] = "ok"]
             \/ answer' = [answer EXCEPT ![p] = "malformed"]
      BY <2>1, GracefulStore DEF Accept, Reply
    <3>3. store.login \in 1..MaxLogins /\ store.gen \in Nat
      BY <1>3 DEF Sessions
    <3>4. srvGen'[session[p].login] = session[p].gen + 1
      BY <1>3, <3>1
    <3>5. \A l \in 1..MaxLogins : l # session[p].login => srvGen'[l] = srvGen[l]
      BY <3>1
    <3>6. UnmarkedIsCurrent' /\ StoreNotAhead' /\ ~revoked'
      <4>1. CASE store.login = session[p].login
        BY <1>1, <1>2, <1>5, <2>0, <3>1, <3>3, <3>4, <4>1
      <4>2. CASE store.login # session[p].login
        BY <1>1, <1>5, <3>1, <3>3, <3>5, <4>2
      <4>3. QED BY <4>1, <4>2
    <3>7. OneFlight'
      BY <1>1, <1>5, <3>2
    <3>8. MarkedWhileOut'
      BY <1>1, <1>5, <3>2
    <3>9. WorksOnCurrent'
      <4>1. \A q \in Procs : q # p => pc'[q] = pc[q] /\ answer'[q] = answer[q]
        BY <3>2
      <4>2. \A q \in Procs : q # p /\ pc[q] \in Flying =>
              srvGen'[session[q].login] = srvGen[session[q].login]
        <5>1. \A q \in Procs : pc[q] \in Flying => session[q].login \in 1..MaxLogins
          BY <1>3 DEF Critical, Sessions
        <5>2. QED
          BY <2>0, <3>5, <5>1
      <4>3. pc'[p] = "answered" /\ answer'[p] \in {"ok", "malformed"}
        BY <3>2
      <4>4. QED
        BY <1>1, <1>5, <3>4, <4>1, <4>2, <4>3
    <3>10. QED BY <3>6, <3>7, <3>8, <3>9
  <2>2. CASE Refuse(p)
    BY <1>1, <1>5, <2>2 DEF Refuse, Reply
  <2>3. CASE DetectReuse(p)
    BY <1>2, <2>0, <2>3 DEF DetectReuse
  <2>4. QED
    BY <2>1, <2>2, <2>3
<1>6. QED
  BY <1>1, <1>4, <1>5

LEMMA EnvironmentStep ==
  ASSUME GracefulFaults, TypeOK, RefreshInv,
         (\E p \in Procs : Crash(p)) \/ CloseWindow \/ Login
  PROVE  KnownSessions' /\ (~racing' => FlightInv')
<1> USE DEF RefreshInv, FlightInv, UnmarkedIsCurrent, KnownSessions, Known, OneFlight, Flying,
            StoreNotAhead, WorksOnCurrent, Sent, MarkedWhileOut, TypeOK, Goto, server
<1>1. ASSUME NEW p \in Procs, Crash(p) PROVE KnownSessions' /\ (~racing' => FlightInv')
  <2>1. /\ pc' = [pc EXCEPT ![p] = "crashed"] /\ store' = store
        /\ UNCHANGED <<session, answer, srvGen, grace, revoked, logins, racing>>
    BY <1>1, GracefulStore DEF Crash
  <2>2. QED
    BY <2>1 DEF Critical
<1>2. CASE CloseWindow
  BY <1>2 DEF CloseWindow
<1>3. CASE Login
  <2>1. /\ logins' = logins + 1 /\ logins' \in 1..MaxLogins
        /\ store' = Fresh(logins + 1) /\ store' # NoSession
        /\ UNCHANGED <<pc, session, answer, srvGen, grace, revoked, racing>>
    BY <1>3, LoginsAssumption DEF Login, Fresh, NoSession
  <2>2. store'.login = logins + 1 /\ store'.gen = 0 /\ srvGen[logins + 1] = 0
    BY <2>1 DEF Fresh
  <2>3. \A p \in Procs : pc[p] \in Critical => session[p].login # store'.login
    BY <2>2
  <2>4. ~racing => UnmarkedIsCurrent' /\ StoreNotAhead' /\ ~revoked'
    BY <2>1, <2>2
  <2>5. ~racing => OneFlight' /\ WorksOnCurrent'
    BY <2>1
  <2>6. KnownSessions'
    BY <2>1, <2>2
  <2>7. ~racing => MarkedWhileOut'
    BY <2>1, <2>3 DEF Critical
  <2>8. QED BY <2>1, <2>4, <2>5, <2>6, <2>7
<1>4. QED
  BY <1>1, <1>2, <1>3

LEMMA Inductive == ASSUME GracefulFaults PROVE Spec => []RefreshInv
<1>1. Init => RefreshInv
  <2> SUFFICES ASSUME Init PROVE RefreshInv
    OBVIOUS
  <2>1. store.login = 1 /\ store.gen = 0 /\ store.marked = FALSE /\ 1 \in 1..MaxLogins
    BY LoginsAssumption DEF Init, Fresh
  <2>2. LockInv
    BY DEF Init, Lock!Init, LockInv, Critical
  <2>3. KnownSessions
    BY <2>1 DEF Init, KnownSessions, Known, Critical
  <2>4. FlightInv
    BY <2>1 DEF Init, FlightInv, UnmarkedIsCurrent, OneFlight, Flying, StoreNotAhead,
         WorksOnCurrent, MarkedWhileOut
  <2>5. QED
    BY <2>2, <2>3, <2>4 DEF RefreshInv
<1>2. TypeOK /\ RefreshInv /\ [Next]_vars => RefreshInv'
  <2> SUFFICES ASSUME TypeOK, RefreshInv, [Next]_vars
               PROVE  KnownSessions' /\ (~racing' => FlightInv')
    BY LockStep DEF RefreshInv
  <2>1. ASSUME NEW p \in Procs, Step(p) \/ AcquireTimesOut(p)
        PROVE  KnownSessions' /\ (~racing' => FlightInv')
    BY <2>1, OutsideStep, RereadStep, WriteStep, ReadBackStep DEF Step
  <2>2. ASSUME NEW p \in Procs, Accept(p) \/ Refuse(p) \/ DetectReuse(p)
        PROVE  KnownSessions' /\ (~racing' => FlightInv')
    BY <2>2, ServerStep
  <2>3. CASE (\E p \in Procs : Crash(p)) \/ CloseWindow \/ Login
    BY <2>3, EnvironmentStep
  <2>4. ~Logout
    BY GracefulStore
  <2>5. CASE UNCHANGED vars
    BY <2>5 DEF vars, server, RefreshInv, FlightInv, UnmarkedIsCurrent, OneFlight, Flying,
         KnownSessions, Known, StoreNotAhead, WorksOnCurrent, Sent, MarkedWhileOut
  <2>6. QED
    BY <2>1, <2>2, <2>3, <2>4, <2>5 DEF Next
<1>3. QED
  BY <1>1, <1>2, Typing, PTL DEF Spec

-----------------------------------------------------------------------------
\* No refresh of any process presents a token whose rotation the server has
\* stopped handing back - it would end every session of the user - except after
\* a crash whose takeover let two processes in, when the second read the
\* session before the first had marked it.
THEOREM CliNeverReuses == ASSUME GracefulFaults PROVE Spec => []NoReuse
<1>1. RefreshInv => NoReuse
  BY DEF RefreshInv, LockInv, FlightInv, NoReuse
<1>2. QED
  BY <1>1, Inductive, PTL

\* Until a process crashes the exception does not occur: no refresh presents a
\* rotated token, whatever writes and keys fail and whoever signs in.
THEOREM NoReuseWithoutCrash ==
  ASSUME Faults \subseteq {"writeFails", "keyFails", "login"} PROVE Spec => []~revoked
<1>1. GracefulFaults
  BY DEF GracefulFaults
<1>2. Init => ~crashed
  BY DEF Init, Lock!Init
<1>3. TypeOK /\ ~crashed /\ [Next]_vars => ~crashed'
  BY DEF TypeOK, Next, Step, vars, lock, Start, Acquire, AcquireTimesOut, Reread, MarkSent,
     ConfirmMark, HandleAnswer, UnmarkSent, Persist, ConfirmPersist, Release, Accept, Refuse,
     DetectReuse, CloseWindow, Login, Logout, Crash, Lock!Enter, Lock!Leave
<1>4. NoReuse /\ ~crashed => ~revoked
  BY DEF NoReuse
<1>5. QED
  BY <1>1, <1>2, <1>3, <1>4, CliNeverReuses, Typing, PTL DEF Spec

\* A session stored without the marker is one the next command can refresh
\* (StoredSession.refresh_presented_at), with the exception of CliNeverReuses.
THEOREM UnmarkedSessionsAreCurrent == ASSUME GracefulFaults PROVE Spec => []UnmarkedIsCurrent
<1>1. RefreshInv => UnmarkedIsCurrent
  BY DEF RefreshInv, FlightInv, UnmarkedIsCurrent
<1>2. QED
  BY <1>1, Inductive, PTL

\* A refresh never writes an older rotation over a newer one, though another
\* process may have refreshed, signed in or died since it read the store: what
\* it writes is at the server's generation, and the store is not ahead of that.
\* The exception is that of CliNeverReuses.
THEOREM StoreNeverGoesBack == ASSUME GracefulFaults PROVE Spec => NeverBack
<1> DEFINE Forward == store.login = store'.login => store'.gen >= store.gen \/ racing
<1>1. TypeOK /\ RefreshInv /\ [Next]_vars => Forward
  <2> SUFFICES ASSUME TypeOK, RefreshInv, [Next]_vars, ~racing PROVE Forward
    OBVIOUS
  <2>0. store \in Sessions /\ store.gen \in Nat /\ store.login \in 1..MaxLogins
    BY LoginsAssumption DEF TypeOK, Sessions, RefreshInv, KnownSessions, Known
  <2>1. ASSUME NEW p \in Procs, MarkSent(p) \/ UnmarkSent(p) \/ Persist(p)
        PROVE  Forward
    <3>1. session[p] \in Sessions /\ session[p].gen \in Nat
      BY DEF TypeOK, Sessions
    <3>2. store.gen <= srvGen[store.login]
      BY DEF RefreshInv, FlightInv, StoreNotAhead
    <3>3. CASE MarkSent(p)
      <4>1. session[p].gen = srvGen[session[p].login]
        BY <3>3 DEF MarkSent, RefreshInv, FlightInv, WorksOnCurrent
      <4>2. /\ Mark(session[p]).login = session[p].login
            /\ Mark(session[p]).gen = session[p].gen
        BY <3>1 DEF Mark, Sessions
      <4>3. store' = store \/ store' = Mark(session[p])
        BY <3>3, GracefulStore DEF MarkSent, WriteSucceeds
      <4> QED
        BY <2>0, <3>1, <3>2, <4>1, <4>2, <4>3
    <3>4. CASE UnmarkSent(p)
      <4>1. session[p].gen = srvGen[session[p].login]
        BY <3>4 DEF UnmarkSent, RefreshInv, FlightInv, WorksOnCurrent
      <4>2. /\ Unmark(session[p]).login = session[p].login
            /\ Unmark(session[p]).gen = session[p].gen
        BY <3>1 DEF Unmark, Sessions
      <4>3. store' = store \/ store' = Unmark(session[p])
        BY <3>4, GracefulStore DEF UnmarkSent, WriteSucceeds
      <4> QED
        BY <2>0, <3>1, <3>2, <4>1, <4>2, <4>3
    <3>5. CASE Persist(p)
      <4>1. session[p].gen + 1 = srvGen[session[p].login]
        BY <3>5 DEF Persist, RefreshInv, FlightInv, WorksOnCurrent
      <4>2. /\ Updated(p).login = session[p].login
            /\ Updated(p).gen = session[p].gen + 1
        BY <3>1 DEF Updated, Unmark, Sessions
      <4>3. store' = store \/ store' = Updated(p)
        BY <3>5, GracefulStore DEF Persist, WriteSucceeds
      <4> QED
        BY <2>0, <3>1, <3>2, <4>1, <4>2, <4>3
    <3> QED
      BY <2>1, <3>3, <3>4, <3>5
  <2>2. ASSUME NEW p \in Procs,
               \/ Start(p) \/ Acquire(p) \/ Reread(p) \/ ConfirmMark(p)
               \/ HandleAnswer(p) \/ ConfirmPersist(p) \/ Release(p)
               \/ AcquireTimesOut(p) \/ Accept(p) \/ Refuse(p) \/ DetectReuse(p)
        PROVE  store' = store
    BY <2>2 DEF Start, Acquire, Reread, ConfirmMark, HandleAnswer, ConfirmPersist,
         Release, AcquireTimesOut, Accept, Refuse, DetectReuse
  <2>3. ASSUME NEW p \in Procs, Crash(p) PROVE store' = store
    BY <2>3, GracefulStore DEF Crash
  <2>4. CASE Login
    <3>1. store.login # logins + 1 /\ store'.login = logins + 1
      BY <2>4 DEF Login, Fresh, RefreshInv, KnownSessions, Known, TypeOK
    <3> QED
      BY <3>1
  <2>5. CASE CloseWindow \/ UNCHANGED vars
    BY <2>0, <2>5 DEF CloseWindow, vars
  <2>6. ~Logout
    BY GracefulStore
  <2> QED
    BY <2>0, <2>1, <2>2, <2>3, <2>4, <2>5, <2>6 DEF Next, Step
<1>2. TypeOK /\ RefreshInv /\ [Next]_vars => [Forward]_vars
  BY <1>1
<1> QED
  BY <1>2, Typing, Inductive, PTL DEF Spec, NeverBack

=============================================================================
