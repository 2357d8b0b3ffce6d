----------------------- MODULE WebTokenManager_proofs -----------------------
(* What is proved of the web token manager, for any number of tabs. *)
EXTENDS WebTokenManager, TLAPS

TabOK ==
  /\ access \in [Tabs -> Sessions]
  /\ snap \in [Tabs -> {"loading", "out", "in"}]
  /\ promise \in [Tabs -> Slots \cup {NoSlot}]
  /\ restore \in [Tabs -> Slots \cup {"off", "read"}]
  /\ act \in [Tabs -> [Acts -> Activities]]
  /\ watching \in [Tabs -> BOOLEAN]
StoreOK == store \in [Tabs -> Sessions]
InboxOK == inbox \in [Tabs -> Seq({"TOKEN_REFRESHED", "SIGNED_OUT"})]

\* An empty session, a foreign value and a new sign-in are sessions.
LEMMA SessionValues ==
  NoSession \in Sessions /\ Foreign \in Sessions
    /\ \A l \in 1..MaxLogins : Fresh(l) \in Sessions
BY SettingsAssumption DEF NoSession, Foreign, Fresh, Sessions

\* The records the steps give an activity, and the activities with one changed.
LEMMA ActivityValues ==
  /\ Idle \in Activities
  /\ \A label \in Labels, s \in Sessions : Doing(label, s) \in Activities
BY SessionValues DEF Idle, Doing, Activities, Labels

LEMMA ActivityChanged ==
  ASSUME act \in [Tabs -> [Acts -> Activities]],
         NEW t \in Tabs, NEW a \in Acts, NEW r \in Activities
  PROVE  [act EXCEPT ![t][a] = r] \in [Tabs -> [Acts -> Activities]]
OBVIOUS

LEMMA GotoType ==
  ASSUME TabOK, NEW t \in Tabs, NEW a \in Acts, NEW label \in Labels, Goto(t, a, label)
  PROVE  act' \in [Tabs -> [Acts -> Activities]]
BY SessionValues, ActivityValues, ActivityChanged DEF Goto, TabOK

\* A write stores a session, before or after the await.
LEMMA PutType ==
  ASSUME StoreOK, NEW t \in Tabs, NEW s \in Sessions,
         PutFirst(t, s) \/ PutLast(t, s)
  PROVE  StoreOK'
BY DEF PutFirst, PutLast, Put, StoreOK

\* A broadcast keeps the inboxes typed.
LEMMA BroadcastType ==
  ASSUME InboxOK, NEW t \in Tabs,
         NEW type \in {"TOKEN_REFRESHED", "SIGNED_OUT"}, Broadcast(t, type)
  PROVE  InboxOK'
BY DEF Broadcast, InboxOK

\* So does the end of an activity for the state of the tab.
LEMMA ResolveType ==
  ASSUME TabOK, NEW t \in Tabs, NEW a \in Acts, NEW ok,
         NEW s \in {"loading", "out", "in"}, Resolve(t, a, ok, s)
  PROVE  TabOK'
BY ActivityValues, ActivityChanged DEF Resolve, TabOK

LEMMA BeginClearType ==
  ASSUME TabOK, StoreOK, NEW t \in Tabs, NEW a \in Acts,
         NEW ok \in BOOLEAN, NEW tell \in BOOLEAN, BeginClear(t, a, ok, tell)
  PROVE  TabOK' /\ StoreOK' /\ inbox' = inbox
<1>1. StoreOK'
  BY SessionValues, PutType DEF BeginClear
<1> QED
  BY <1>1, SessionValues DEF BeginClear, TabOK, Activities, Labels

LEMMA BeginSetType ==
  ASSUME TabOK, StoreOK, NEW t \in Tabs, NEW a \in Acts,
         NEW s \in Sessions, BeginSet(t, a, s)
  PROVE  TabOK' /\ StoreOK' /\ inbox' = inbox
<1>1. CASE Mismatch(t, s)
  BY <1>1, BeginClearType DEF BeginSet
<1>2. CASE ~Mismatch(t, s)
  <2>1. /\ access' = [access EXCEPT ![t] = s]
        /\ act' = [act EXCEPT ![t][a] = Doing("storing", s)]
        /\ PutFirst(t, s)
        /\ UNCHANGED <<snap, promise, restore, watching, inbox>>
    BY <1>2, Zenon DEF BeginSet
  <2>2. Doing("storing", s) \in Activities
    BY ActivityValues DEF Labels
  <2>3. act' \in [Tabs -> [Acts -> Activities]]
    BY <2>1, <2>2, ActivityChanged DEF TabOK
  <2> QED
    BY <2>1, <2>3, PutType DEF TabOK
<1> QED
  BY <1>1, <1>2

LEMMA StartRefreshType ==
  ASSUME TabOK, NEW t \in Tabs, StartRefresh(t)
  PROVE  /\ FirstFree(t) \in Slots /\ At(t, FirstFree(t), "off")
         /\ promise' \in [Tabs -> Slots \cup {NoSlot}]
         /\ act' \in [Tabs -> [Acts -> Activities]]
<1>1. FirstFree(t) \in Slots /\ At(t, FirstFree(t), "off")
  BY DEF StartRefresh, HasFree, FirstFree
<1>2. FirstFree(t) \in Acts /\ Doing("read", NoSession) \in Activities
  BY <1>1, SessionValues, ActivityValues DEF Acts, Labels
<1> QED
  BY <1>1, <1>2, ActivityChanged DEF StartRefresh, TabOK

LEMMA AnswerType ==
  ASSUME TypeOK, NEW t \in Tabs, NEW a \in Acts, NEW label \in Labels,
         NEW s \in Sessions, Answer(t, a, label, s)
  PROVE  TabOK' /\ StoreOK' /\ InboxOK' /\ locked' = locked /\ logins' = logins
<1>1. act' \in [Tabs -> [Acts -> Activities]]
  BY ActivityValues, ActivityChanged DEF Answer, TypeOK
<1> QED
  BY <1>1 DEF Answer, TypeOK, TabOK, StoreOK, InboxOK

ServerOK ==
  /\ locked \subseteq Tabs \X Slots
  /\ srvGen \in [1..MaxLogins -> Nat]
  /\ grace \subseteq 1..MaxLogins
  /\ reused \in BOOLEAN /\ logins \in 1..MaxLogins

LEMMA Parts ==
  /\ TypeOK <=> TabOK /\ StoreOK /\ InboxOK /\ ServerOK
  /\ TypeOK' <=> TabOK' /\ StoreOK' /\ InboxOK' /\ ServerOK'
BY DEF TypeOK, TabOK, StoreOK, InboxOK, ServerOK

LEMMA InitType == Init => TypeOK
<1> SUFFICES ASSUME Init PROVE TypeOK
  OBVIOUS
<1>1. store \in [Tabs -> Sessions]
  BY SessionValues, SettingsAssumption DEF Init
<1>2. act \in [Tabs -> [Acts -> Activities]]
  BY ActivityValues DEF Init
<1>3. access \in [Tabs -> Sessions] /\ promise \in [Tabs -> Slots \cup {NoSlot}]
  BY SessionValues DEF Init
<1>4. snap \in [Tabs -> {"loading", "out", "in"}] /\ restore \in [Tabs -> Slots \cup {"off", "read"}]
  BY DEF Init
<1>5. inbox \in [Tabs -> Seq({"TOKEN_REFRESHED", "SIGNED_OUT"})] /\ watching \in [Tabs -> BOOLEAN]
  BY DEF Init
<1>6. srvGen \in [1..MaxLogins -> Nat] /\ logins \in 1..MaxLogins
  BY SettingsAssumption DEF Init
<1>7. locked = {} /\ grace = {} /\ reused = FALSE
  BY DEF Init
<1> QED
  BY <1>1, <1>2, <1>3, <1>4, <1>5, <1>6, <1>7 DEF TypeOK

\* What is sent to the server is a session of a sign-in.
WireIsReal ==
  \A t \in Tabs, a \in Slots : OnTheWire(t, a) => act[t][a].token.login \in 1..MaxLogins

\* Every step keeps the types.
LEMMA StepType == TypeOK /\ WireIsReal /\ [Next]_vars => TypeOK'
<1> SUFFICES ASSUME TypeOK, WireIsReal, [Next]_vars PROVE TypeOK'
  OBVIOUS
<1>0. TabOK /\ StoreOK /\ InboxOK /\ ServerOK
  BY Parts
<1> USE Parts, SessionValues, ActivityValues
<1>1. ASSUME NEW t \in Tabs, Trigger(t) PROVE TypeOK'
  BY <1>0, <1>1, StartRefreshType DEF Trigger, TabOK, StoreOK, InboxOK, ServerOK, server
<1>2. ASSUME NEW t \in Tabs, Visible(t) PROVE TypeOK'
  BY <1>0, <1>2 DEF Visible, TabOK, StoreOK, InboxOK, ServerOK, server
<1>3. ASSUME NEW t \in Tabs, RestoreReads(t) PROVE TypeOK'
  BY <1>0, <1>3, StartRefreshType
     DEF RestoreReads, TabOK, StoreOK, InboxOK, ServerOK, server
<1>4. ASSUME NEW t \in Tabs, OnTokenRefreshed(t) PROVE TypeOK'
  BY <1>0, <1>4, StartRefreshType
     DEF OnTokenRefreshed, TabOK, StoreOK, InboxOK, ServerOK, server
<1>5. ASSUME NEW t \in Tabs, OnSignedOut(t) PROVE TypeOK'
  <2>2. act' \in [Tabs -> [Acts -> Activities]]
    BY <1>0, <1>5, GotoType DEF OnSignedOut, Labels, Acts
  <2>3. StoreOK'
    BY <1>0, <1>5, PutType DEF OnSignedOut
  <2>4. TabOK'
    BY <1>0, <1>5, <2>2 DEF OnSignedOut, TabOK
  <2>5. InboxOK' /\ ServerOK'
    BY <1>0, <1>5 DEF OnSignedOut, InboxOK, ServerOK, server
  <2> QED
    BY <2>3, <2>4, <2>5
<1>6. ASSUME NEW t \in Tabs, SignIn(t) PROVE TypeOK'
  <2>1. logins + 1 \in 1..MaxLogins /\ "signIn" \in Acts
    BY <1>0, <1>6, SettingsAssumption DEF SignIn, ServerOK, Acts
  <2>2. TabOK' /\ StoreOK' /\ inbox' = inbox
    BY <1>0, <1>6, <2>1, BeginSetType DEF SignIn
  <2> QED
    BY <1>0, <1>6, <2>1, <2>2 DEF SignIn, InboxOK, ServerOK
<1>7. ASSUME NEW t \in Tabs, SignOut(t) PROVE TypeOK'
  <2>1. TabOK' /\ StoreOK' /\ inbox' = inbox
    BY <1>0, <1>7, BeginClearType DEF SignOut, Acts
  <2> QED
    BY <1>0, <1>7, <2>1 DEF SignOut, InboxOK, ServerOK, server
<1>8. ASSUME NEW t \in Tabs, SwitchOrganization(t) PROVE TypeOK'
  <2>1. Doing("switching", access[t]) \in Activities /\ "switch" \in Acts
    BY <1>0 DEF Labels, Acts, TabOK
  <2>2. act' \in [Tabs -> [Acts -> Activities]]
    BY <1>0, <1>8, <2>1, ActivityChanged DEF SwitchOrganization, TabOK
  <2> QED
    BY <1>0, <1>8, <2>2 DEF SwitchOrganization, TabOK, StoreOK, InboxOK, ServerOK, server
<1>9. ASSUME NEW t \in Tabs, SwitchAnswer(t) PROVE TypeOK'
  <2>1. "switch" \in Acts
    BY DEF Acts
  <2>2. act[t]["switch"].token \in Sessions
    BY <1>0, <2>1 DEF TabOK, Activities
  <2>3. ServerOK'
    BY <1>0, <1>9 DEF SwitchAnswer, ServerOK, server
  <2>4. CASE BeginClear(t, "switch", TRUE, TRUE)
    BY <1>0, <2>1, <2>3, <2>4, BeginClearType DEF InboxOK
  <2>5. CASE /\ access' = [access EXCEPT ![t] = act[t]["switch"].token]
             /\ snap' = [snap EXCEPT ![t] = "in"]
             /\ act' = [act EXCEPT ![t]["switch"] = Idle]
             /\ Broadcast(t, "TOKEN_REFRESHED")
             /\ UNCHANGED <<store, promise, restore, watching>>
    <3>1. act' \in [Tabs -> [Acts -> Activities]]
      BY <1>0, <2>1, <2>5, ActivityChanged DEF TabOK
    <3>2. InboxOK'
      BY <1>0, <2>5, BroadcastType
    <3> QED
      BY <1>0, <2>2, <2>3, <2>5, <3>1, <3>2 DEF TabOK, StoreOK
  <2>6. CASE /\ act' = [act EXCEPT ![t]["switch"] = Idle]
             /\ UNCHANGED <<store, access, snap, promise, restore, watching, inbox>>
    <3>1. act' \in [Tabs -> [Acts -> Activities]]
      BY <1>0, <2>1, <2>6, ActivityChanged DEF TabOK
    <3> QED
      BY <1>0, <2>3, <2>6, <3>1 DEF TabOK, StoreOK, InboxOK
  <2> QED
    BY <1>9, <2>4, <2>5, <2>6, Zenon DEF SwitchAnswer
<1>10. ASSUME NEW t \in Tabs, Reload(t) PROVE TypeOK'
  BY <1>0, <1>10 DEF Reload, TabOK, StoreOK, InboxOK, ServerOK, server
<1>11. ASSUME NEW t \in Tabs, NEW a \in Slots, ReadToken(t, a) PROVE TypeOK'
  <2>1. a \in Acts /\ InboxOK' /\ StoreOK' /\ ServerOK'
    BY <1>0, <1>11 DEF ReadToken, Acts, InboxOK, StoreOK, ServerOK, server
  <2>2. CASE Resolve(t, a, FALSE, "out")
    BY <1>0, <2>1, <2>2, ResolveType
  <2>3. CASE Goto(t, a, "lock") /\ UNCHANGED <<access, snap, promise, restore, watching>>
    <3>1. act' \in [Tabs -> [Acts -> Activities]]
      BY <1>0, <2>1, <2>3, GotoType DEF Labels
    <3> QED
      BY <1>0, <2>1, <2>3, <3>1 DEF TabOK
  <2> QED
    BY <1>11, <2>2, <2>3, Zenon DEF ReadToken
<1>12. ASSUME NEW t \in Tabs, NEW a \in Slots, Acquire(t, a) PROVE TypeOK'
  <2>1. act' \in [Tabs -> [Acts -> Activities]]
    BY <1>0, <1>12, GotoType DEF Acquire, Labels, Acts
  <2> QED
    BY <1>0, <1>12, <2>1 DEF Acquire, TabOK, InboxOK, StoreOK, ServerOK, server
<1>13. ASSUME NEW t \in Tabs, NEW a \in Slots, LockTimesOut(t, a) PROVE TypeOK'
  <2>1. snap[t] \in {"loading", "out", "in"} /\ a \in Acts
    BY <1>0 DEF TabOK, Acts
  <2>2. TabOK'
    BY <1>0, <1>13, <2>1, ResolveType DEF LockTimesOut
  <2> QED
    BY <1>0, <1>13, <2>2 DEF LockTimesOut, InboxOK, StoreOK, ServerOK, server
<1>14. ASSUME NEW t \in Tabs, NEW a \in Slots, Reread(t, a) PROVE TypeOK'
  <2>1. snap[t] \in {"loading", "out", "in"} /\ store[t] \in Sessions /\ a \in Acts
    BY <1>0 DEF TabOK, StoreOK, Acts
  <2>2. CASE Release(t, a) /\ Resolve(t, a, FALSE, snap[t]) /\ UNCHANGED <<store, inbox>>
    <3>1. TabOK'
      BY <1>0, <2>1, <2>2, ResolveType
    <3> QED
      BY <1>0, <1>14, <2>2, <3>1 DEF Reread, Release, StoreOK, InboxOK, ServerOK, server
  <2>3. CASE Release(t, a) /\ BeginClear(t, a, FALSE, TRUE)
    <3>1. TabOK' /\ StoreOK' /\ inbox' = inbox
      BY <1>0, <2>1, <2>3, BeginClearType
    <3> QED
      BY <1>0, <1>14, <2>3, <3>1 DEF Reread, Release, InboxOK, ServerOK, server
  <2>4. CASE /\ act' = [act EXCEPT ![t][a] = Doing("sent", store[t])]
             /\ UNCHANGED <<store, access, snap, promise, restore, watching, inbox, locked>>
    <3>1. act' \in [Tabs -> [Acts -> Activities]]
      BY <1>0, <2>1, <2>4, ActivityChanged DEF TabOK, Labels
    <3> QED
      BY <1>0, <1>14, <2>4, <3>1 DEF Reread, TabOK, StoreOK, InboxOK, ServerOK, server
  <2> QED
    BY <1>14, <2>2, <2>3, <2>4, Zenon DEF Reread
<1>15. ASSUME NEW t \in Tabs, NEW a \in Slots, HandleAnswer(t, a) PROVE TypeOK'
  <2>1. snap[t] \in {"loading", "out", "in"} /\ act[t][a].token \in Sessions /\ a \in Acts
    BY <1>0 DEF TabOK, Activities, Acts
  <2>2. ServerOK'
    BY <1>0, <1>15 DEF HandleAnswer, Release, ServerOK, server
  <2>3. CASE BeginSet(t, a, act[t][a].token)
    BY <1>0, <2>1, <2>2, <2>3, BeginSetType DEF InboxOK
  <2>4. CASE BeginClear(t, a, FALSE, TRUE)
    BY <1>0, <2>1, <2>2, <2>4, BeginClearType DEF InboxOK
  <2>5. CASE Resolve(t, a, FALSE, snap[t]) /\ UNCHANGED <<store, inbox>>
    BY <1>0, <2>1, <2>2, <2>5, ResolveType DEF StoreOK, InboxOK
  <2> QED
    BY <1>15, <2>3, <2>4, <2>5, Zenon DEF HandleAnswer
<1>16. ASSUME NEW t \in Tabs, NEW a \in Slots, Accept(t, a) PROVE TypeOK'
  <2> DEFINE s == act[t][a].token
             next == [login |-> s.login, gen |-> s.gen + 1]
  <2>0. s \in Sessions /\ a \in Acts /\ s.login \in 1..MaxLogins
    BY <1>0, <1>16 DEF TabOK, Activities, Acts, Accept, WireIsReal, OnTheWire
  <2>1. next \in Sessions /\ s.gen + 1 \in Nat
    BY <2>0, SettingsAssumption DEF Sessions, NoSession, Foreign
  <2>2. TabOK' /\ StoreOK' /\ InboxOK' /\ locked' = locked /\ logins' = logins
    <3>1. Answer(t, a, "ok", next) \/ Answer(t, a, "revoked", s)
      BY <1>16, Zenon DEF Accept
    <3> QED
      BY <2>0, <2>1, <3>1, AnswerType DEF Labels
  <2>3. \/ srvGen' = [srvGen EXCEPT ![s.login] = next.gen] /\ grace' = grace \cup {s.login}
             /\ s.gen = srvGen[s.login]
        \/ UNCHANGED <<srvGen, grace>>
    BY <1>16, Zenon DEF Accept
  <2> QED
    BY <1>0, <1>16, <2>0, <2>1, <2>2, <2>3 DEF Accept, ServerOK
<1>17. ASSUME NEW t \in Tabs, NEW a \in Slots, Refuse(t, a) PROVE TypeOK'
  <2>1. act[t][a].token \in Sessions /\ a \in Acts
    BY <1>0 DEF TabOK, Activities, Acts
  <2>2. TabOK' /\ StoreOK' /\ InboxOK' /\ locked' = locked /\ logins' = logins
    BY <1>17, <2>1, AnswerType DEF Refuse, Labels
  <2> QED
    BY <1>0, <1>17, <2>2 DEF Refuse, ServerOK
<1>18. ASSUME NEW t \in Tabs, NEW a \in Slots, DetectReuse(t, a) PROVE TypeOK'
  <2>1. act[t][a].token \in Sessions /\ a \in Acts
    BY <1>0 DEF TabOK, Activities, Acts
  <2>2. TabOK' /\ StoreOK' /\ InboxOK' /\ locked' = locked /\ logins' = logins
    BY <1>18, <2>1, AnswerType DEF DetectReuse, Labels
  <2> QED
    BY <1>0, <1>18, <2>2 DEF DetectReuse, ServerOK
<1>19. ASSUME NEW t \in Tabs, NEW a \in Acts, EndClear(t, a) PROVE TypeOK'
  <2>1. StoreOK'
    BY <1>0, <1>19, PutType DEF EndClear
  <2>2. InboxOK'
    BY <1>0, <1>19, BroadcastType DEF EndClear, InboxOK
  <2>3. TabOK'
    BY <1>0, <1>19, ResolveType DEF EndClear
  <2> QED
    BY <1>0, <1>19, <2>1, <2>2, <2>3 DEF EndClear, ServerOK, server
<1>20. ASSUME NEW t \in Tabs, NEW a \in Acts, EndSet(t, a) PROVE TypeOK'
  <2>1. StoreOK'
    BY <1>0, <1>20, PutType DEF EndSet, TabOK, Activities
  <2>2. InboxOK'
    BY <1>0, <1>20, BroadcastType DEF EndSet
  <2>3. TabOK'
    BY <1>0, <1>20, ResolveType DEF EndSet
  <2> QED
    BY <1>0, <1>20, <2>1, <2>2, <2>3 DEF EndSet, ServerOK, server
<1>21. CASE CloseWindow
  BY <1>0, <1>21 DEF CloseWindow, TabOK, StoreOK, InboxOK, ServerOK, tab
<1>22. CASE UNCHANGED vars
  BY <1>0, <1>22 DEF vars, tab, server, TabOK, StoreOK, InboxOK, ServerOK
<1> QED
  BY <1>1, <1>2, <1>3, <1>4, <1>5, <1>6, <1>7, <1>8, <1>9, <1>10, <1>11, <1>12, <1>13,
     <1>14, <1>15, <1>16, <1>17, <1>18, <1>19, <1>20, <1>21, <1>22, Zenon
     DEF Next, RefreshStep

-----------------------------------------------------------------------------
(* What a step does to the activities, the lock, the storage and the server.  *)
(* Nothing is said of the writes to a storage that answers later.             *)

Kept == UNCHANGED <<store, srvGen, reused, logins>>
Writes(t, s) == Async \/ Put(t, s)

Inside == {"reread", "sent", "ok", "revoked", "transient"}

\* No activity but a of tab t moves.
Only(t, a) ==
  \A u \in Tabs, b \in Acts : (u # t \/ b # a) => act'[u][b] = act[u][b]

StaysOutside(t, a) ==
  /\ Only(t, a) /\ act[t][a].pc \notin Inside /\ act'[t][a].pc \notin Inside
  /\ UNCHANGED <<locked, srvGen, reused>>
  /\ \/ logins' = logins /\ (Async \/ store' = store \/ Writes(t, NoSession))
     \/ logins' = logins + 1 /\ (Writes(t, NoSession) \/ Writes(t, Fresh(logins + 1)))
Enters(t, a) ==
  /\ Only(t, a) /\ At(t, a, "lock") /\ act'[t][a].pc = "reread"
  /\ locked = {} /\ locked' = {<<t, a>>} /\ Kept
Sends(t, a) ==
  /\ Only(t, a) /\ At(t, a, "reread") /\ act'[t][a].pc = "sent"
  /\ act'[t][a].token = store[t] /\ store[t].login \in 1..MaxLogins
  /\ locked' = locked /\ Kept
Answers(t, a) ==
  /\ Only(t, a) /\ At(t, a, "sent") /\ act'[t][a].pc \in {"ok", "revoked", "transient"}
  /\ act'[t][a].token.login = act[t][a].token.login
  /\ act'[t][a].pc # "ok" => act'[t][a].token = act[t][a].token
  /\ UNCHANGED <<store, locked, logins>>
  /\ LET s == act[t][a].token
     IN  \/ UNCHANGED <<srvGen, reused>> /\ act'[t][a].pc \in {"revoked", "transient"}
         \/ s.gen + 1 = srvGen[s.login] /\ UNCHANGED <<srvGen, reused>>
         \/ /\ s.gen = srvGen[s.login] /\ reused' = reused
            /\ srvGen' = [srvGen EXCEPT ![s.login] = s.gen + 1]
            /\ act'[t][a].pc = "ok" => act'[t][a].token.gen = s.gen + 1
            /\ act'[t][a].pc # "transient"
         \/ s.gen < srvGen[s.login]
Leaves(t, a) ==
  /\ Only(t, a) /\ act[t][a].pc \in Inside /\ act'[t][a].pc \notin Inside
  /\ locked' = locked \ {<<t, a>>} /\ UNCHANGED <<srvGen, reused, logins>>
  /\ \/ Writes(t, NoSession)
     \/ act[t][a].pc \in {"reread", "transient"} /\ store' = store
     \/ At(t, a, "ok") /\ Writes(t, act[t][a].token)
Restarts(t) ==
  /\ \A u \in Tabs, a \in Acts : u # t => act'[u][a] = act[u][a]
  /\ "reload" \in Events
  /\ \A a \in Acts : act'[t][a] = Idle
  /\ locked' = {h \in locked : h[1] # t}
Moves ==
  \/ \E t \in Tabs, a \in Acts : StaysOutside(t, a)
  \/ \E t \in Tabs, a \in Slots :
       Enters(t, a) \/ Sends(t, a) \/ Answers(t, a) \/ Leaves(t, a)
  \/ \E t \in Tabs : Restarts(t)
  \/ act' = act /\ locked' = locked /\ Kept

LEMMA OneMoves ==
  ASSUME TabOK, NEW t \in Tabs, NEW a \in Acts, NEW r, act' = [act EXCEPT ![t][a] = r]
  PROVE  Only(t, a) /\ act'[t][a] = r
BY DEF TabOK, Only

LEMMA OneDoes ==
  ASSUME TabOK, NEW t \in Tabs, NEW a \in Acts, NEW label, NEW s,
         act' = [act EXCEPT ![t][a] = Doing(label, s)]
  PROVE  Only(t, a) /\ act'[t][a].pc = label /\ act'[t][a].token = s
<1>1. Only(t, a) /\ act'[t][a] = Doing(label, s)
  BY OneMoves, Zenon
<1>2. Doing(label, s).pc = label /\ Doing(label, s).token = s
  BY DEF Doing
<1> QED
  BY <1>1, <1>2

\* Every way out of an activity and every start of one, outside the lock.
LEMMA EndsOutside ==
  ASSUME TabOK, NEW t \in Tabs, NEW a \in Acts, NEW ok, NEW s,
         \/ Resolve(t, a, ok, s)
         \/ act' = [act EXCEPT ![t][a] = Idle]
  PROVE  Only(t, a) /\ act'[t][a].pc \notin Inside
BY OneDoes DEF Resolve, Inside, Idle

LEMMA ClearsOutside ==
  ASSUME TabOK, NEW t \in Tabs, NEW a \in Acts, NEW ok, NEW tell, BeginClear(t, a, ok, tell)
  PROVE  Only(t, a) /\ act'[t][a].pc \notin Inside /\ Writes(t, NoSession)
<1> DEFINE r == [pc |-> "erasing", token |-> NoSession, ok |-> ok,
               tell |-> tell /\ (access[t] # NoSession \/ snap[t] = "in")]
<1>1. act' = [act EXCEPT ![t][a] = r]
  BY Zenon DEF BeginClear
<1>2. r.pc = "erasing"
  OBVIOUS
<1> HIDE DEF r
<1>3. Only(t, a) /\ act'[t][a] = r
  BY <1>1, OneMoves, Zenon
<1>4. Writes(t, NoSession)
  BY DEF BeginClear, PutFirst, Writes
<1> QED
  BY <1>2, <1>3, <1>4 DEF Inside

LEMMA SetsOutside ==
  ASSUME TabOK, NEW t \in Tabs, NEW a \in Acts, NEW s, BeginSet(t, a, s)
  PROVE  /\ Only(t, a) /\ act'[t][a].pc \notin Inside
         /\ Writes(t, NoSession) \/ Writes(t, s)
<1>1. CASE BeginClear(t, a, TRUE, TRUE)
  BY <1>1, ClearsOutside
<1>2. CASE act' = [act EXCEPT ![t][a] = Doing("storing", s)] /\ PutFirst(t, s)
  <2>1. Only(t, a) /\ act'[t][a].pc = "storing"
    BY <1>2, OneDoes, Zenon
  <2> QED
    BY <1>2, <2>1 DEF Inside, PutFirst, Writes
<1> QED
  BY <1>1, <1>2, Zenon DEF BeginSet

LEMMA StepMoves == TypeOK /\ WireIsReal /\ [Next]_vars => Moves
<1> SUFFICES ASSUME TypeOK, WireIsReal, [Next]_vars PROVE Moves
  OBVIOUS
<1>0. TabOK /\ StoreOK
  BY Parts
<1>1. ASSUME NEW t \in Tabs, StartRefresh(t), locked' = locked, Kept PROVE Moves
  <2>1. FirstFree(t) \in Acts /\ At(t, FirstFree(t), "off")
    BY <1>0, <1>1, StartRefreshType DEF Acts
  <2>2. Only(t, FirstFree(t)) /\ act'[t][FirstFree(t)].pc = "read"
    BY <1>0, <1>1, <2>1, OneDoes DEF StartRefresh
  <2> QED
    BY <1>1, <2>1, <2>2 DEF Moves, StaysOutside, Kept, At, Inside
<1>2. ASSUME NEW t \in Tabs, Trigger(t) \/ Visible(t) \/ RestoreReads(t) \/ OnTokenRefreshed(t)
      PROVE  Moves
  <2>1. locked' = locked /\ Kept /\ (act' = act \/ StartRefresh(t))
    BY <1>2 DEF Trigger, Visible, RestoreReads, OnTokenRefreshed, Kept, server
  <2> QED
    BY <1>1, <2>1 DEF Moves
<1>3. ASSUME NEW t \in Tabs, OnSignedOut(t) PROVE Moves
  <2>1. Only(t, "message") /\ act'[t]["message"].pc = "erasing"
    BY <1>0, <1>3, OneDoes DEF OnSignedOut, Goto, Acts
  <2> QED
    BY <1>3, <2>1 DEF Moves, StaysOutside, Writes, PutFirst, OnSignedOut, server, At, Inside, Acts
<1>4. ASSUME NEW t \in Tabs, SignIn(t) PROVE Moves
  <2>1. /\ Only(t, "signIn") /\ act'[t]["signIn"].pc \notin Inside
        /\ Writes(t, NoSession) \/ Writes(t, Fresh(logins + 1))
    BY <1>0, <1>4, SetsOutside DEF SignIn, Acts
  <2> QED
    BY <1>4, <2>1 DEF Moves, StaysOutside, SignIn, At, Inside, Acts
<1>5. ASSUME NEW t \in Tabs, SignOut(t) PROVE Moves
  <2>1. Only(t, "signOut") /\ act'[t]["signOut"].pc \notin Inside /\ Writes(t, NoSession)
    BY <1>0, <1>5, ClearsOutside DEF SignOut, Acts
  <2> QED
    BY <1>5, <2>1 DEF Moves, StaysOutside, SignOut, server, At, Inside, Acts
<1>6. ASSUME NEW t \in Tabs, SwitchOrganization(t) PROVE Moves
  <2>1. Only(t, "switch") /\ act'[t]["switch"].pc = "switching"
    <3>1. act' = [act EXCEPT ![t]["switch"] = Doing("switching", access[t])] /\ "switch" \in Acts
      BY <1>6 DEF SwitchOrganization, Acts
    <3> QED
      BY <1>0, <3>1, OneDoes, Zenon
  <2> QED
    BY <1>6, <2>1 DEF Moves, StaysOutside, SwitchOrganization, server, At, Inside, Acts
<1>7. ASSUME NEW t \in Tabs, SwitchAnswer(t) PROVE Moves
  <2>1. /\ At(t, "switch", "switching") /\ "switch" \in Acts
        /\ UNCHANGED <<locked, srvGen, reused, logins>>
    BY <1>7 DEF SwitchAnswer, server, Acts
  <2>2. \/ act' = [act EXCEPT ![t]["switch"] = Idle] /\ UNCHANGED store
        \/ BeginClear(t, "switch", TRUE, TRUE)
    BY <1>7, Zenon DEF SwitchAnswer
  <2>3. /\ Only(t, "switch") /\ act'[t]["switch"].pc \notin Inside
        /\ store' = store \/ Writes(t, NoSession)
    BY <1>0, <2>1, <2>2, EndsOutside, ClearsOutside
  <2> QED
    BY <2>1, <2>3 DEF Moves, StaysOutside, At, Inside
<1>8. ASSUME NEW t \in Tabs, Reload(t) PROVE Moves
  BY <1>0, <1>8 DEF Reload, TabOK, Moves, Restarts
<1>9. ASSUME NEW t \in Tabs, NEW a \in Slots, ReadToken(t, a) PROVE Moves
  <2>1. At(t, a, "read") /\ locked' = locked /\ Kept /\ a \in Acts
    BY <1>9 DEF ReadToken, Kept, server, Acts
  <2>2. CASE Resolve(t, a, FALSE, "out")
    BY <1>0, <2>1, <2>2, EndsOutside DEF Moves, StaysOutside, Kept, At, Inside
  <2>3. CASE Goto(t, a, "lock")
    <3>1. Only(t, a) /\ act'[t][a].pc = "lock"
      BY <1>0, <2>1, <2>3, OneDoes, Zenon DEF Goto
    <3> QED
      BY <2>1, <3>1 DEF Moves, StaysOutside, Kept, At, Inside
  <2> QED
    BY <1>9, <2>2, <2>3, Zenon DEF ReadToken
<1>10. ASSUME NEW t \in Tabs, NEW a \in Slots, Acquire(t, a) PROVE Moves
  <2>1. Only(t, a) /\ act'[t][a].pc = "reread"
    BY <1>0, <1>10, OneDoes DEF Acquire, Goto, Acts
  <2> QED
    BY <1>10, <2>1 DEF Moves, Enters, Acquire, Kept, server
<1>11. ASSUME NEW t \in Tabs, NEW a \in Slots, LockTimesOut(t, a) PROVE Moves
  <2>1. Only(t, a) /\ act'[t][a].pc \notin Inside /\ a \in Acts
    BY <1>0, <1>11, EndsOutside DEF LockTimesOut, Acts
  <2> QED
    BY <1>11, <2>1 DEF Moves, StaysOutside, LockTimesOut, server, At, Inside
<1>12. ASSUME NEW t \in Tabs, NEW a \in Slots, Reread(t, a) PROVE Moves
  <2>1. /\ At(t, a, "reread") /\ a \in Acts /\ store[t] \in Sessions
        /\ UNCHANGED <<srvGen, reused, logins>>
    BY <1>0, <1>12 DEF Reread, Acts, StoreOK, server
  <2>2. CASE /\ Release(t, a)
             /\ \/ Resolve(t, a, FALSE, snap[t]) /\ UNCHANGED store
                \/ BeginClear(t, a, FALSE, TRUE)
    <3>1. /\ Only(t, a) /\ act'[t][a].pc \notin Inside
          /\ store' = store \/ Writes(t, NoSession)
      BY <1>0, <2>1, <2>2, EndsOutside, ClearsOutside
    <3> QED
      BY <2>1, <2>2, <3>1 DEF Moves, Leaves, Release, At, Inside
  <2>3. CASE /\ store[t] \notin {NoSession, Foreign} /\ UNCHANGED <<store, locked>>
             /\ act' = [act EXCEPT ![t][a] = Doing("sent", store[t])]
    <3>1. Only(t, a) /\ act'[t][a].pc = "sent" /\ act'[t][a].token = store[t]
      <4>1. TabOK /\ act' = [act EXCEPT ![t][a] = Doing("sent", store[t])] /\ a \in Acts
        BY <1>0, <2>1, <2>3
      <4>2. Only(t, a)
        BY <4>1, OneMoves, Zenon
      <4>3. act'[t][a] = Doing("sent", store[t])
        BY <4>1, OneMoves, Zenon
      <4> QED
        BY <4>2, <4>3 DEF Doing
    <3>2. store[t].login \in 1..MaxLogins
      BY <2>1, <2>3 DEF Sessions
    <3> QED
      BY <2>1, <2>3, <3>1, <3>2 DEF Moves, Sends, Kept
  <2> QED
    BY <1>12, <2>2, <2>3, Zenon DEF Reread
<1>13. ASSUME NEW t \in Tabs, NEW a \in Slots, HandleAnswer(t, a) PROVE Moves
  <2>1. act[t][a].pc \in Inside /\ a \in Acts /\ Release(t, a) /\ UNCHANGED <<srvGen, reused, logins>>
    BY <1>13 DEF HandleAnswer, Acts, At, Inside, server
  <2>2. \/ At(t, a, "ok") /\ BeginSet(t, a, act[t][a].token)
        \/ BeginClear(t, a, FALSE, TRUE)
        \/ At(t, a, "transient") /\ Resolve(t, a, FALSE, snap[t]) /\ UNCHANGED store
    BY <1>13, Zenon DEF HandleAnswer
  <2>3. /\ Only(t, a) /\ act'[t][a].pc \notin Inside
        /\ \/ Writes(t, NoSession)
           \/ At(t, a, "transient") /\ store' = store
           \/ At(t, a, "ok") /\ Writes(t, act[t][a].token)
    BY <1>0, <2>1, <2>2, EndsOutside, ClearsOutside, SetsOutside
  <2> QED
    BY <2>1, <2>3 DEF Moves, Leaves, Release, At
<1>14. ASSUME NEW t \in Tabs, NEW a \in Slots, Accept(t, a) \/ Refuse(t, a) \/ DetectReuse(t, a)
       PROVE  Moves
  <2> DEFINE s == act[t][a].token
             next == [login |-> s.login, gen |-> s.gen + 1]
  <2>1. \/ Answer(t, a, "ok", next) \/ Answer(t, a, "revoked", s)
        \/ Answer(t, a, "transient", s) /\ Refuse(t, a)
    BY <1>14, Zenon DEF Accept, Refuse, DetectReuse
  <2>2. /\ UNCHANGED <<store, locked, logins>> /\ a \in Acts /\ At(t, a, "sent")
        /\ \/ act' = [act EXCEPT ![t][a] = Doing("ok", next)]
           \/ act' = [act EXCEPT ![t][a] = Doing("revoked", s)]
           \/ act' = [act EXCEPT ![t][a] = Doing("transient", s)] /\ Refuse(t, a)
    BY <1>14, <2>1 DEF Answer, Acts, Accept, Refuse, DetectReuse
  <2>3. /\ Only(t, a)
        /\ \/ act'[t][a] = Doing("ok", next)
           \/ act'[t][a] = Doing("revoked", s)
           \/ act'[t][a] = Doing("transient", s) /\ Refuse(t, a)
    <3> HIDE DEF s, next
    <3> QED
      BY <1>0, <2>2, OneMoves, Zenon
  <2>4. /\ act'[t][a].pc \in {"ok", "revoked", "transient"}
        /\ act'[t][a].pc = "transient" => Refuse(t, a)
        /\ act'[t][a].token.login = s.login
        /\ act'[t][a].pc # "ok" => act'[t][a].token = s
        /\ act'[t][a].pc = "ok" => act'[t][a].token.gen = s.gen + 1
    BY <2>3 DEF Doing
  <2>5. CASE Refuse(t, a)
    <3>1. Answer(t, a, "revoked", s) \/ Answer(t, a, "transient", s)
      BY <2>5, Zenon DEF Refuse
    <3>2. \/ act' = [act EXCEPT ![t][a] = Doing("revoked", s)]
          \/ act' = [act EXCEPT ![t][a] = Doing("transient", s)]
      BY <3>1 DEF Answer
    <3>3. act'[t][a] = Doing("revoked", s) \/ act'[t][a] = Doing("transient", s)
      <4> HIDE DEF s, next
      <4> QED
        BY <1>0, <2>2, <3>2, OneMoves, Zenon
    <3>4. act'[t][a].pc \in {"revoked", "transient"}
      BY <3>3 DEF Doing
    <3>5. UNCHANGED <<srvGen, reused>>
      BY <2>5 DEF Refuse
    <3> QED
      BY <2>2, <2>3, <2>4, <3>4, <3>5, Zenon DEF Moves, Answers
  <2>6. CASE DetectReuse(t, a)
    <3>1. s.gen < srvGen[s.login]
      BY <2>6 DEF DetectReuse
    <3> QED
      BY <2>2, <2>3, <2>4, <3>1, Zenon DEF Moves, Answers
  <2>7. CASE Accept(t, a) /\ ~Refuse(t, a)
    <3>1. /\ reused' = reused
          /\ \/ s.gen = srvGen[s.login] /\ srvGen' = [srvGen EXCEPT ![s.login] = s.gen + 1]
             \/ s.gen + 1 = srvGen[s.login] /\ srvGen' = srvGen
      BY <2>7 DEF Accept
    <3>2. act'[t][a].pc # "transient"
      BY <2>4, <2>7
    <3> QED
      BY <2>2, <2>3, <2>4, <3>1, <3>2, Zenon DEF Moves, Answers
  <2> QED
    BY <1>14, <2>5, <2>6, <2>7
<1>15. ASSUME NEW t \in Tabs, NEW a \in Acts, EndClear(t, a) \/ EndSet(t, a) PROVE Moves
  <2>1. /\ At(t, a, "erasing") \/ At(t, a, "storing")
        /\ \E ok, s : Resolve(t, a, ok, s)
        /\ UNCHANGED <<locked, srvGen, reused, logins>> /\ (Async \/ store' = store)
    BY <1>15 DEF EndClear, EndSet, PutLast, server
  <2>2. Only(t, a) /\ act'[t][a].pc \notin Inside
    BY <1>0, <2>1, EndsOutside
  <2> QED
    BY <2>1, <2>2 DEF Moves, StaysOutside, At, Inside
<1>16. CASE CloseWindow \/ UNCHANGED vars
  BY <1>16 DEF CloseWindow, vars, tab, server, Kept, Moves
<1> QED
  BY <1>2, <1>3, <1>4, <1>5, <1>6, <1>7, <1>8, <1>9, <1>10, <1>11, <1>12, <1>13, <1>14,
     <1>15, <1>16, Zenon DEF Next, RefreshStep

-----------------------------------------------------------------------------
LEMMA StepWire == TypeOK /\ WireIsReal /\ Moves => WireIsReal'
<1> SUFFICES ASSUME TypeOK, WireIsReal, Moves PROVE WireIsReal'
  OBVIOUS
<1> DEFINE Wire(u, b) == act[u][b].pc \in {"sent", "ok", "revoked", "transient"}
           Real(u, b) == Wire(u, b) => act[u][b].token.login \in 1..MaxLogins
<1>1. /\ WireIsReal <=> \A u \in Tabs, b \in Slots : Real(u, b)
      /\ WireIsReal' <=> \A u \in Tabs, b \in Slots : Real(u, b)'
  BY DEF WireIsReal, OnTheWire, At
<1>2. SUFFICES ASSUME NEW u \in Tabs, NEW b \in Slots PROVE Real(u, b)'
  BY <1>1
<1>3. Real(u, b) /\ b \in Acts
  BY <1>1 DEF Acts
<1>4. ASSUME NEW t \in Tabs, NEW a \in Acts, StaysOutside(t, a) PROVE Real(u, b)'
  BY <1>3, <1>4 DEF StaysOutside, Only, Inside
<1>5. ASSUME NEW t \in Tabs, NEW a \in Slots,
             Enters(t, a) \/ Sends(t, a) \/ Answers(t, a) \/ Leaves(t, a)
      PROVE  Real(u, b)'
  <2>1. Real(t, a)
    BY <1>1
  <2>2. CASE u = t /\ b = a
    BY <1>5, <2>1, <2>2 DEF Enters, Sends, Answers, Leaves, At, Inside
  <2>3. CASE u # t \/ b # a
    BY <1>3, <1>5, <2>3 DEF Enters, Sends, Answers, Leaves, Only
  <2> QED
    BY <2>2, <2>3
<1>6. ASSUME NEW t \in Tabs, Restarts(t) PROVE Real(u, b)'
  <2>1. ~(Idle.pc \in {"sent", "ok", "revoked", "transient"})
    BY DEF Idle, Doing
  <2> QED
    BY <1>3, <1>6, <2>1 DEF Restarts
<1>7. CASE act' = act
  BY <1>3, <1>7
<1> QED
  BY <1>4, <1>5, <1>6, <1>7, Zenon DEF Moves

LEMMA StepLock == TypeOK /\ LockIsHeldInside /\ Moves => LockIsHeldInside'
<1> SUFFICES ASSUME TypeOK, LockIsHeldInside, Moves PROVE LockIsHeldInside'
  OBVIOUS
<1> DEFINE Held(u, b) == <<u, b>> \in locked <=> act[u][b].pc \in Inside
<1>1. /\ LockIsHeldInside <=> \A u \in Tabs, b \in Slots : Held(u, b)
      /\ LockIsHeldInside' <=> \A u \in Tabs, b \in Slots : Held(u, b)'
  BY DEF LockIsHeldInside, OnTheWire, At, Inside
<1>2. SUFFICES ASSUME NEW u \in Tabs, NEW b \in Slots PROVE Held(u, b)'
  BY <1>1
<1>3. Held(u, b) /\ b \in Acts
  BY <1>1 DEF Acts
<1>4. ASSUME NEW t \in Tabs, NEW a \in Acts, StaysOutside(t, a) PROVE Held(u, b)'
  <2>1. CASE u = t /\ b = a
    BY <1>3, <1>4, <2>1 DEF StaysOutside
  <2>2. CASE u # t \/ b # a
    BY <1>3, <1>4, <2>2 DEF StaysOutside, Only
  <2> QED
    BY <2>1, <2>2
<1>5. ASSUME NEW t \in Tabs, NEW a \in Slots,
             Enters(t, a) \/ Sends(t, a) \/ Answers(t, a) \/ Leaves(t, a)
      PROVE  Held(u, b)'
  <2>1. CASE u = t /\ b = a
    BY <1>3, <1>5, <2>1 DEF Enters, Sends, Answers, Leaves, At, Inside
  <2>2. CASE u # t \/ b # a
    BY <1>3, <1>5, <2>2 DEF Enters, Sends, Answers, Leaves, Only, Inside
  <2> QED
    BY <2>1, <2>2
<1>6. ASSUME NEW t \in Tabs, Restarts(t) PROVE Held(u, b)'
  <2>1. Idle.pc \notin Inside
    BY DEF Idle, Doing, Inside
  <2>2. CASE u = t
    BY <1>3, <1>6, <2>1, <2>2 DEF Restarts
  <2>3. CASE u # t
    BY <1>3, <1>6, <2>3 DEF Restarts
  <2> QED
    BY <2>2, <2>3
<1>7. CASE act' = act /\ locked' = locked
  BY <1>3, <1>7
<1> QED
  BY <1>4, <1>5, <1>6, <1>7, Zenon DEF Moves

\* The type invariant.
THEOREM Typing == Spec => []TypeOK
<1>1. Init => TypeOK /\ WireIsReal
  BY InitType DEF Init, WireIsReal, OnTheWire, At, Idle, Doing, Acts
<1>2. TypeOK /\ WireIsReal /\ [Next]_vars => TypeOK' /\ WireIsReal'
  BY StepType, StepMoves, StepWire
<1> QED
  BY <1>1, <1>2, PTL DEF Spec

\* Whatever happens in the tabs, the Web Lock is held by the refresh between
\* its acquisition and its answer and by no other (acquireRefreshLock and its
\* uses in doRefresh): no request goes out without it and nothing keeps it.
THEOREM LockHeldInside == Spec => []LockIsHeldInside
<1>1. Init => TypeOK /\ WireIsReal /\ LockIsHeldInside
  <2> SUFFICES ASSUME Init PROVE TypeOK /\ WireIsReal /\ LockIsHeldInside
    OBVIOUS
  <2>1. \A t \in Tabs, a \in Slots : act[t][a] = Idle
    BY DEF Init, Acts
  <2>2. Idle.pc = "off"
    BY DEF Idle, Doing
  <2> QED
    BY <2>1, <2>2, InitType DEF Init, WireIsReal, LockIsHeldInside, OnTheWire, At
<1>2. TypeOK /\ WireIsReal /\ LockIsHeldInside /\ [Next]_vars =>
        TypeOK' /\ WireIsReal' /\ LockIsHeldInside'
  BY StepType, StepMoves, StepWire, StepLock
<1> QED
  BY <1>1, <1>2, PTL DEF Spec

-----------------------------------------------------------------------------
(* Tabs that share a synchronous storage and are not reloaded. *)

OneHolder == \A g, h \in locked : g = h

\* Sign-ins that have not happened have no rotation.
Unrotated == \A l \in 1..MaxLogins : l > logins => srvGen[l] = 0

Current(s) == s.gen = srvGen[s.login]

\* Of what is on the wire all but a rejected token is current.
WireTokens ==
  \A t \in Tabs, a \in Slots :
    OnTheWire(t, a) =>
      act[t][a].token.login \in 1..logins
        /\ (At(t, a, "revoked") \/ Current(act[t][a].token))

\* The storage is one, and what it holds is current unless an answer is about
\* to replace it.
StoreIsCurrent ==
  \A t \in Tabs :
    /\ \A u \in Tabs : store[u] = store[t]
    /\ store[t].login \in 0..logins
    /\ \/ store[t].login = 0 \/ Current(store[t])
       \/ \E u \in Tabs, a \in Slots : At(u, a, "ok") \/ At(u, a, "revoked")

Strong ==
  /\ TypeOK /\ WireIsReal /\ LockIsHeldInside
  /\ OneHolder /\ Unrotated /\ WireTokens /\ StoreIsCurrent /\ ~reused

Setting == Shared /\ ~Async /\ "reload" \notin Events

\* Two refreshes are never inside the lock.
LEMMA Alone ==
  ASSUME LockIsHeldInside, OneHolder,
         NEW t \in Tabs, NEW a \in Slots, act[t][a].pc \in Inside,
         NEW u \in Tabs, NEW b \in Slots, act[u][b].pc \in Inside
  PROVE  u = t /\ b = a
<1>1. <<t, a>> \in locked /\ <<u, b>> \in locked
  BY DEF LockIsHeldInside, OnTheWire, At, Inside
<1> QED
  BY <1>1 DEF OneHolder

LEMMA StepStrong == Setting /\ Strong /\ [Next]_vars => Strong'
<1> SUFFICES ASSUME Setting, Strong, [Next]_vars PROVE Strong'
  OBVIOUS
<1>0. /\ TypeOK /\ WireIsReal /\ LockIsHeldInside /\ OneHolder /\ Unrotated
      /\ WireTokens /\ StoreIsCurrent /\ ~reused /\ Moves
  BY StepMoves DEF Strong
<1>1. TypeOK' /\ WireIsReal' /\ LockIsHeldInside'
  BY <1>0, StepType, StepWire, StepLock
<1>2. SUFFICES OneHolder' /\ Unrotated' /\ WireTokens' /\ StoreIsCurrent' /\ ~reused'
  BY <1>1 DEF Strong
<1> DEFINE Wire(u, b) == act[u][b].pc \in {"sent", "ok", "revoked", "transient"}
           Good(u, b) == Wire(u, b) =>
             /\ act[u][b].token.login \in 1..logins
             /\ act[u][b].pc = "revoked" \/ Current(act[u][b].token)
           Answered == \E u \in Tabs, b \in Slots : act[u][b].pc \in {"ok", "revoked"}
           Fine(u) == /\ store[u].login \in 0..logins
                      /\ store[u].login = 0 \/ Current(store[u]) \/ Answered
           One == \A u, v \in Tabs : store[u] = store[v]
<1>3. /\ srvGen \in [1..MaxLogins -> Nat] /\ logins \in 1..MaxLogins
      /\ srvGen' \in [1..MaxLogins -> Nat] /\ logins' \in 1..MaxLogins
  BY <1>0, <1>1 DEF TypeOK
<1>4. /\ WireTokens <=> \A u \in Tabs, b \in Slots : Good(u, b)
      /\ WireTokens' <=> \A u \in Tabs, b \in Slots : Good(u, b)'
      /\ StoreIsCurrent <=> One /\ \A u \in Tabs : Fine(u)
      /\ StoreIsCurrent' <=> One' /\ \A u \in Tabs : Fine(u)'
  BY DEF WireTokens, StoreIsCurrent, OnTheWire, At
<1>5. /\ \A u \in Tabs, b \in Slots : Good(u, b) /\ b \in Acts
      /\ \A u \in Tabs : Fine(u)
  BY <1>0, <1>4 DEF Acts
<1>6. One
  BY <1>0, <1>4
<1>7. ASSUME NEW t \in Tabs, NEW s, Writes(t, s)
      PROVE  One' /\ \A u \in Tabs : store'[u] = s
  BY <1>7 DEF Setting, Writes, Put
<1>8. ASSUME store' = store PROVE One'
  BY <1>6, <1>8
<1>18. ASSUME store' = store, srvGen' = srvGen, Answered' <=> Answered,
              logins' = logins \/ logins' = logins + 1
       PROVE  \A u \in Tabs : Fine(u)'
  <2> HIDE DEF Answered
  <2>1. SUFFICES ASSUME NEW u \in Tabs PROVE Fine(u)'
    OBVIOUS
  <2>2. store[u].login \in 0..logins'
    BY <1>3, <1>5, <1>18
  <2>3. store[u].login = 0 \/ Current(store[u]) \/ Answered
    BY <1>5
  <2>4. Current(store[u])' <=> Current(store[u])
    BY <1>18 DEF Current
  <2> QED
    BY <1>18, <2>2, <2>3, <2>4
<1> HIDE DEF One, Fine, Good, Answered
<1>9. SUFFICES /\ OneHolder' /\ Unrotated' /\ ~reused'
               /\ One' /\ \A u \in Tabs : Fine(u)'
               /\ \A u \in Tabs, b \in Slots : Good(u, b)'
  BY <1>4
<1>10. ASSUME NEW t \in Tabs, NEW a \in Acts, StaysOutside(t, a)
       PROVE  /\ OneHolder' /\ Unrotated' /\ ~reused'
              /\ One' /\ \A u \in Tabs : Fine(u)'
              /\ \A u \in Tabs, b \in Slots : Good(u, b)'
  <2>1. \A u \in Tabs, b \in Slots :
          act[u][b].pc \in Inside \/ act'[u][b].pc \in Inside => act'[u][b] = act[u][b]
    BY <1>5, <1>10 DEF StaysOutside, Only
  <2>2. /\ UNCHANGED <<locked, srvGen, reused>>
        /\ logins' = logins \/ logins' = logins + 1
    BY <1>10 DEF StaysOutside
  <2>3. OneHolder' /\ Unrotated' /\ ~reused'
    BY <1>0, <1>3, <2>2 DEF OneHolder, Unrotated
  <2>4. Answered' <=> Answered
    BY <2>1 DEF Answered, Inside
  <2>5. \A u \in Tabs, b \in Slots : Good(u, b)'
    BY <1>3, <1>5, <2>1, <2>2 DEF Good, Current, Inside
  <2>6. CASE store' = store
    <3>1. \A u \in Tabs : Fine(u)'
      BY <1>18, <2>2, <2>4, <2>6
    <3> QED
      BY <1>8, <2>3, <2>5, <2>6, <3>1
  <2>7. CASE Writes(t, NoSession)
    <3>1. One' /\ \A u \in Tabs : store'[u] = NoSession
      BY <1>7, <2>7
    <3> QED
      BY <1>3, <2>3, <2>5, <3>1 DEF Fine, NoSession
  <2>8. CASE logins' = logins + 1 /\ Writes(t, Fresh(logins + 1))
    <3>1. One' /\ \A u \in Tabs : store'[u] = Fresh(logins + 1)
      BY <1>7, <2>8
    <3>2. srvGen'[logins + 1] = 0
      BY <1>0, <1>3, <2>2, <2>8 DEF Unrotated
    <3> QED
      BY <1>3, <2>3, <2>5, <2>8, <3>1, <3>2 DEF Fine, Fresh, Current
  <2> QED
    BY <1>10, <2>6, <2>7, <2>8 DEF StaysOutside, Setting
<1>12. ASSUME NEW t \in Tabs, NEW a \in Slots, Enters(t, a)
       PROVE  /\ OneHolder' /\ Unrotated' /\ ~reused'
              /\ One' /\ \A u \in Tabs : Fine(u)'
              /\ \A u \in Tabs, b \in Slots : Good(u, b)'
  <2>1. OneHolder'
    BY <1>12 DEF Enters, OneHolder
  <2>2. Unrotated' /\ ~reused' /\ store' = store /\ srvGen' = srvGen /\ logins' = logins
    BY <1>0, <1>12 DEF Enters, Unrotated, Kept
  <2>3. \A u \in Tabs, b \in Slots :
          act'[u][b] = act[u][b] \/ (act[u][b].pc = "lock" /\ act'[u][b].pc = "reread")
    BY <1>5, <1>12 DEF Enters, Only, At
  <2>4. Answered' <=> Answered
    BY <2>3 DEF Answered
  <2>5. \A u \in Tabs, b \in Slots : Good(u, b)'
    BY <1>3, <1>5, <2>2, <2>3 DEF Good, Current
  <2> QED
    BY <1>3, <1>5, <1>8, <2>1, <2>2, <2>4, <2>5 DEF Fine, Current
<1>13. ASSUME NEW t \in Tabs, NEW a \in Slots,
              Sends(t, a) \/ Answers(t, a) \/ Leaves(t, a)
       PROVE  /\ a \in Acts /\ act[t][a].pc \in Inside /\ Only(t, a) /\ OneHolder'
              /\ \A u \in Tabs, b \in Slots :
                   (u # t \/ b # a) => act[u][b].pc \notin Inside /\ act'[u][b].pc \notin Inside
              /\ Answered <=> act[t][a].pc \in {"ok", "revoked"}
              /\ Answered' <=> act'[t][a].pc \in {"ok", "revoked"}
              /\ Good(t, a)' => \A u \in Tabs, b \in Slots : Good(u, b)'
  <2>1. /\ a \in Acts /\ act[t][a].pc \in Inside /\ Only(t, a)
        /\ locked' = locked \/ locked' = locked \ {<<t, a>>}
    BY <1>5, <1>13 DEF Sends, Answers, Leaves, At, Inside
  <2>2. OneHolder'
    BY <1>0, <2>1 DEF OneHolder
  <2>3. ASSUME NEW u \in Tabs, NEW b \in Slots, u # t \/ b # a
        PROVE  act[u][b].pc \notin Inside /\ act'[u][b].pc \notin Inside
    BY <1>0, <1>5, <2>1, <2>3, Alone DEF Only
  <2> QED
    BY <2>1, <2>2, <2>3 DEF Answered, Good, Inside
<1>14. ASSUME NEW t \in Tabs, NEW a \in Slots, Sends(t, a)
       PROVE  /\ OneHolder' /\ Unrotated' /\ ~reused'
              /\ One' /\ \A u \in Tabs : Fine(u)'
              /\ \A u \in Tabs, b \in Slots : Good(u, b)'
  <2>1. /\ OneHolder' /\ ~Answered
        /\ Good(t, a)' => \A u \in Tabs, b \in Slots : Good(u, b)'
    BY <1>13, <1>14 DEF Sends, At
  <2>2. Unrotated' /\ ~reused' /\ store' = store /\ srvGen' = srvGen /\ logins' = logins
    BY <1>0, <1>14 DEF Sends, Unrotated, Kept
  <2>3. \A u \in Tabs : Fine(u)'
    BY <1>3, <1>5, <2>1, <2>2 DEF Fine, Current
  <2>4. Good(t, a)'
    BY <1>3, <1>5, <1>14, <2>1, <2>2 DEF Good, Fine, Sends, Current
  <2> QED
    BY <1>8, <2>1, <2>2, <2>3, <2>4
<1>15. ASSUME NEW t \in Tabs, NEW a \in Slots, Answers(t, a)
       PROVE  /\ OneHolder' /\ Unrotated' /\ ~reused'
              /\ One' /\ \A u \in Tabs : Fine(u)'
              /\ \A u \in Tabs, b \in Slots : Good(u, b)'
  <2> DEFINE s == act[t][a].token
  <2>1. /\ OneHolder' /\ ~Answered
        /\ Answered' <=> act'[t][a].pc \in {"ok", "revoked"}
        /\ Good(t, a)' => \A u \in Tabs, b \in Slots : Good(u, b)'
    BY <1>13, <1>15 DEF Answers, At
  <2>2. s.login \in 1..logins /\ s.gen = srvGen[s.login] /\ srvGen[s.login] \in Nat
    <3>1. Good(t, a) /\ act[t][a].pc = "sent"
      BY <1>5, <1>15 DEF Answers, At
    <3>2. s.login \in 1..logins /\ Current(s)
      BY <3>1 DEF Good
    <3>3. s.gen = srvGen[s.login]
      BY <3>2 DEF Current
    <3> HIDE DEF s
    <3>4. s.login \in 1..MaxLogins
      BY <1>3, <3>2, SettingsAssumption
    <3> QED
      BY <1>3, <3>2, <3>3, <3>4
  <2>3. store' = store /\ logins' = logins /\ act'[t][a].token.login = s.login
        /\ act'[t][a].pc \in {"ok", "revoked", "transient"}
    BY <1>15 DEF Answers
  <2>4. CASE UNCHANGED <<srvGen, reused>> /\ act'[t][a].pc \in {"revoked", "transient"}
    <3>1. Unrotated' /\ ~reused' /\ One'
      BY <1>0, <1>8, <2>3, <2>4 DEF Unrotated
    <3>2. Good(t, a)'
      <4>1. act'[t][a].pc = "revoked" \/ act'[t][a].pc = "transient"
        BY <2>4
      <4>2. act'[t][a].token = s
        BY <1>15, <4>1 DEF Answers
      <4>3. act'[t][a].token.login \in 1..logins'
        BY <2>2, <2>3
      <4>4. Current(act[t][a].token)'
        BY <2>2, <2>4, <4>2 DEF Current
      <4> QED
        BY <4>3, <4>4 DEF Good
    <3>3. \A u \in Tabs : Fine(u)'
      BY <1>3, <1>5, <2>1, <2>3, <2>4 DEF Fine, Current
    <3> QED
      BY <2>1, <3>1, <3>2, <3>3
  <2>5. CASE s.gen + 1 = srvGen[s.login] \/ s.gen < srvGen[s.login]
    <3> HIDE DEF s
    <3> QED
      BY <2>2, <2>5
  <2>6. CASE /\ reused' = reused
             /\ srvGen' = [srvGen EXCEPT ![s.login] = s.gen + 1]
             /\ act'[t][a].pc = "ok" => act'[t][a].token.gen = s.gen + 1
             /\ act'[t][a].pc # "transient"
    <3>1. Unrotated' /\ ~reused' /\ One'
      BY <1>0, <1>3, <1>8, <2>2, <2>3, <2>6 DEF Unrotated
    <3>2. Answered' /\ Good(t, a)'
      BY <1>3, <2>1, <2>2, <2>3, <2>6 DEF Good, Current
    <3>3. \A u \in Tabs : Fine(u)'
      BY <1>3, <1>5, <2>3, <3>2 DEF Fine
    <3> QED
      BY <2>1, <3>1, <3>2, <3>3
  <2> QED
    BY <1>15, <2>4, <2>5, <2>6 DEF Answers
<1>16. ASSUME NEW t \in Tabs, NEW a \in Slots, Leaves(t, a)
       PROVE  /\ OneHolder' /\ Unrotated' /\ ~reused'
              /\ One' /\ \A u \in Tabs : Fine(u)'
              /\ \A u \in Tabs, b \in Slots : Good(u, b)'
  <2>1. /\ OneHolder' /\ (Answered <=> act[t][a].pc \in {"ok", "revoked"})
        /\ Good(t, a)' => \A u \in Tabs, b \in Slots : Good(u, b)'
    BY <1>13, <1>16
  <2>2. Unrotated' /\ ~reused' /\ srvGen' = srvGen /\ logins' = logins
    BY <1>0, <1>16 DEF Leaves, Unrotated
  <2>3. Good(t, a)'
    BY <1>16 DEF Leaves, Good, Inside
  <2>4. CASE Writes(t, NoSession)
    <3>1. One' /\ \A u \in Tabs : store'[u] = NoSession
      BY <1>7, <2>4
    <3> QED
      BY <1>3, <2>1, <2>2, <2>3, <3>1 DEF Fine, NoSession
  <2>5. CASE act[t][a].pc \in {"reread", "transient"} /\ store' = store
    <3>1. \A u \in Tabs : Fine(u)'
      BY <1>3, <1>5, <2>1, <2>2, <2>5 DEF Fine, Current
    <3> QED
      BY <1>8, <2>1, <2>2, <2>3, <2>5, <3>1
  <2>6. CASE At(t, a, "ok") /\ Writes(t, act[t][a].token)
    <3>1. One' /\ \A u \in Tabs : store'[u] = act[t][a].token
      BY <1>7, <2>6
    <3>2. \A u \in Tabs : Fine(u)'
      BY <1>3, <1>5, <2>2, <2>6, <3>1 DEF Good, Fine, Current, At
    <3> QED
      BY <2>1, <2>2, <2>3, <3>1, <3>2
  <2> QED
    BY <1>16, <2>4, <2>5, <2>6 DEF Leaves
<1>17. CASE act' = act /\ locked' = locked /\ Kept
  <2>1. \A u \in Tabs, b \in Slots : Good(u, b)'
    BY <1>5, <1>17 DEF Good, Kept, Current
  <2>2. \A u \in Tabs : Fine(u)'
    <3>1. Answered' <=> Answered
      BY <1>17 DEF Answered
    <3> QED
      BY <1>17, <1>18, <3>1 DEF Kept
  <2> QED
    BY <1>0, <1>8, <1>17, <2>1, <2>2 DEF Kept, OneHolder, Unrotated
<1> QED
  BY <1>0, <1>10, <1>12, <1>14, <1>15, <1>16, <1>17, Zenon DEF Moves, Setting, Restarts

LEMMA InitStrong == Init => Strong
<1> SUFFICES ASSUME Init PROVE Strong
  OBVIOUS
<1>1. \A t \in Tabs, a \in Slots : act[t][a] = Idle
  BY DEF Init, Acts
<1>2. Idle.pc = "off"
  BY DEF Idle, Doing
<1>3. WireIsReal /\ LockIsHeldInside /\ WireTokens
  BY <1>1, <1>2 DEF Init, WireIsReal, LockIsHeldInside, WireTokens, OnTheWire, At
<1>4. OneHolder /\ Unrotated /\ ~reused /\ logins = 1
  BY DEF Init, OneHolder, Unrotated
<1>5. StoreIsCurrent
  <2>1. PICK s \in {NoSession, Foreign, Fresh(1)} : store = [t \in Tabs |-> s]
    BY DEF Init
  <2>2. s.login \in 0..1 /\ (s.login = 0 \/ Current(s))
    BY <2>1, SettingsAssumption DEF Init, NoSession, Foreign, Fresh, Current
  <2> QED
    BY <1>4, <2>1, <2>2 DEF StoreIsCurrent
<1> QED
  BY <1>3, <1>4, <1>5, InitType DEF Strong

LEMMA Strengthened == Setting => (Spec => []Strong)
<1> SUFFICES ASSUME Setting PROVE Spec => []Strong
  OBVIOUS
<1>1. Strong /\ [Next]_vars => Strong'
  BY StepStrong
<1> QED
  BY <1>1, InitStrong, PTL DEF Spec

\* Tabs that share a synchronous storage and are not reloaded never present a
\* token the server has rotated out, however many they are and whatever else
\* happens in them: the Web Lock and the second read under it are what "prevents
\* nuclear revocation from concurrent refreshes" (tab-sync.ts).
THEOREM NeverReused == Setting => (Spec => []NoReuse)
<1>1. Strong => NoReuse
  BY DEF Strong, NoReuse
<1> QED
  BY <1>1, Strengthened, PTL

\* In the same setting the stored token is, with no refresh on the wire, the
\* one the server accepts, after any sign-ins, sign-outs and switches.
THEOREM StoredStaysCurrent == Setting => (Spec => []StoredIsCurrent)
<1>1. Strong => StoredIsCurrent
  BY DEF Strong, StoreIsCurrent, StoredIsCurrent, OnTheWire, Current
<1> QED
  BY <1>1, Strengthened, PTL

-----------------------------------------------------------------------------
(* Users do not mix.  Of what a step may do to an access token, only two ways *)
(* put one there, and both compare the users first.                           *)

\* What a step may do to the access tokens: nothing, drop the one of a tab, or
\* put a session there that does not mismatch.
Drops == \E t \in Tabs : access' = [access EXCEPT ![t] = NoSession]
Replaces ==
  \E t \in Tabs : \E s : ~Mismatch(t, s) /\ access' = [access EXCEPT ![t] = s]
Careful == access' = access \/ Drops \/ Replaces

\* setTokens begins by comparing the users.
LEMMA SetsCarefully ==
  ASSUME NEW t \in Tabs, NEW a, NEW s, BeginSet(t, a, s)
  PROVE  Drops \/ Replaces
<1>1. CASE Mismatch(t, s)
  BY <1>1, Zenon DEF BeginSet, BeginClear, Drops
<1>2. CASE ~Mismatch(t, s)
  BY <1>2, Zenon DEF BeginSet, Replaces
<1> QED
  BY <1>1, <1>2

LEMMA StepCareful == Next => Careful
<1> SUFFICES ASSUME Next PROVE Careful
  OBVIOUS
<1>1. ASSUME NEW t \in Tabs,
             Trigger(t) \/ Visible(t) \/ RestoreReads(t) \/ OnTokenRefreshed(t)
               \/ SwitchOrganization(t)
      PROVE  access' = access
  BY <1>1 DEF Trigger, Visible, RestoreReads, OnTokenRefreshed, SwitchOrganization
<1>2. ASSUME NEW t \in Tabs, OnSignedOut(t) \/ Reload(t)
      PROVE  Drops
  BY <1>2, Zenon DEF OnSignedOut, Reload, Drops
<1>3. ASSUME NEW t \in Tabs, SignIn(t)
      PROVE  Drops \/ Replaces
  BY <1>3, SetsCarefully DEF SignIn
<1>4. ASSUME NEW t \in Tabs, SignOut(t)
      PROVE  Drops
  BY <1>4, Zenon DEF SignOut, BeginClear, Drops
<1>5. ASSUME NEW t \in Tabs, SwitchAnswer(t)
      PROVE  Careful
  BY <1>5, Zenon DEF SwitchAnswer, BeginClear, Careful, Drops, Replaces
<1>6. ASSUME NEW t \in Tabs, NEW a \in Slots, RefreshStep(t, a)
      PROVE  Careful
  <2>1. ReadToken(t, a) \/ Acquire(t, a) \/ LockTimesOut(t, a) => access' = access
    BY DEF ReadToken, Acquire, LockTimesOut, Resolve
  <2>2. Reread(t, a) => access' = access \/ Drops
    BY Zenon DEF Reread, Resolve, BeginClear, Drops
  <2>3. HandleAnswer(t, a) => Careful
    <3> SUFFICES ASSUME HandleAnswer(t, a) PROVE Careful
      OBVIOUS
    <3>1. CASE BeginSet(t, a, act[t][a].token)
      BY <3>1, SetsCarefully DEF Careful
    <3>2. CASE BeginClear(t, a, FALSE, TRUE)
      BY <3>2, Zenon DEF BeginClear, Careful, Drops
    <3>3. CASE Resolve(t, a, FALSE, snap[t])
      BY <3>3 DEF Resolve, Careful
    <3> QED
      BY <3>1, <3>2, <3>3 DEF HandleAnswer
  <2> QED
    BY <1>6, <2>1, <2>2, <2>3 DEF RefreshStep, Careful
<1>7. ASSUME NEW t \in Tabs, NEW a \in Slots,
             Accept(t, a) \/ Refuse(t, a) \/ DetectReuse(t, a)
      PROVE  access' = access
  BY <1>7 DEF Accept, Refuse, DetectReuse, Answer
<1>8. ASSUME NEW t \in Tabs, NEW a \in Acts, EndClear(t, a) \/ EndSet(t, a)
      PROVE  access' = access
  BY <1>8 DEF EndClear, EndSet, Resolve
<1>9. CloseWindow => access' = access
  BY DEF CloseWindow, tab
<1> QED
  BY <1>1, <1>2, <1>3, <1>4, <1>5, <1>6, <1>7, <1>8, <1>9 DEF Next, Careful

\* The access token of a tab passes from one user to another only through a
\* sign-out: of all the ways setTokens is reached (refresh, sign-in,
\* organization switch), none skips the comparison that would let a token of
\* another user in.
THEOREM UsersStayApart == Spec => UsersNeverMix
<1> DEFINE Apart ==
      \A t \in Tabs : (access[t] # NoSession /\ access'[t] # NoSession) =>
         User(access[t]) = User(access'[t])
<1>1. TypeOK /\ [Next]_vars => Apart
  <2> SUFFICES ASSUME TypeOK, [Next]_vars PROVE Apart
    OBVIOUS
  <2>1. Careful
    BY StepCareful DEF vars, tab, Careful
  <2>2. access \in [Tabs -> Sessions]
    BY DEF TypeOK
  <2>3. CASE access' = access
    BY <2>3
  <2>4. CASE Drops
    BY <2>2, <2>4 DEF Drops
  <2>5. CASE Replaces
    BY <2>2, <2>5 DEF Replaces, Mismatch
  <2> QED
    BY <2>1, <2>3, <2>4, <2>5 DEF Careful
<1>2. TypeOK /\ [Next]_vars => [Apart]_vars
  BY <1>1
<1> QED
  BY <1>2, Typing, PTL DEF Spec, UsersNeverMix

=============================================================================
