-------------------------- MODULE WebTokenManager --------------------------
(***************************************************************************)
(* The web SDK's token manager in several tabs of one origin:              *)
(* packages/react/src/token-manager.ts, tab-sync.ts and storage.ts.        *)
(*                                                                         *)
(* Each tab runs activities that interleave at their awaits: refreshes (a  *)
(* slot each), a sign-in, a sign-out, an organization switch and the       *)
(* handling of a SIGNED_OUT message.  A session is a sign-in (`login`) and *)
(* the number of its rotations (`gen`); it stands for the access and the   *)
(* refresh token.  A refresh's immediate retry is inside its request: its  *)
(* result is "ok", "revoked" (rejected, unreadable or unknown outcome) or  *)
(* "transient" (not accepted), as module RefreshExchange shows.            *)
(***************************************************************************)
EXTENDS Naturals, Sequences

CONSTANTS
  Tabs, Slots,  \* the tabs, and bound on the refreshes under way in one tab
  NoSlot,       \* no refresh
  Shared,       \* the tabs share the storage (localStorage), or have one each
  Async,        \* the storage answers later (a custom TokenStorage)
  MaxLogins,    \* bound on the sign-ins
  MaxGen,       \* bound on the rotations of one sign-in
  OtherUser,    \* the sign-ins by a second user
  Events        \* what else happens: see AllEvents

AllEvents == {"signIn", "signOut", "switch", "reload"}

ASSUME SettingsAssumption ==
  /\ Shared \in BOOLEAN /\ Async \in BOOLEAN
  /\ MaxLogins \in Nat \ {0} /\ MaxGen \in Nat
  /\ OtherUser \subseteq 1..MaxLogins /\ Events \subseteq AllEvents

VARIABLES
  store,     \* the stored refresh token, as each tab's storage has it
  access,    \* accessToken
  snap,      \* cachedSnapshot: "loading", "out" or "in"
  promise,   \* refreshPromise: the slot of the refresh it belongs to
  restore,   \* restore(): "off", "read", or the refresh it awaits
  act,       \* the activities of each tab
  watching,  \* sessionCheckInterval is set
  inbox,     \* messages on their way to each tab
  locked,    \* the refreshes holding the Web Lock
  srvGen,    \* the generation the server accepts, per sign-in
  grace,     \* the sign-ins whose last rotation is still handed back
  reused,    \* a reuse was detected: every session is revoked
  logins     \* how many sign-ins there have been

tab == <<access, snap, promise, restore, act, watching>>
server == <<srvGen, grace, reused, logins>>
vars == <<store, tab, inbox, locked, server>>

NoSession == [login |-> 0, gen |-> 0]
Foreign == [login |-> 0, gen |-> 1]   \* a stored value without the v1: prefix
Fresh(l) == [login |-> l, gen |-> 0]
User(s) == s.login \in OtherUser

Acts == Slots \cup {"signIn", "signOut", "switch", "message"}
Doing(label, s) == [pc |-> label, token |-> s, tell |-> FALSE, ok |-> FALSE]
Idle == Doing("off", NoSession)
At(t, a, label) == act[t][a].pc = label
Goto(t, a, label) == act' = [act EXCEPT ![t][a] = Doing(label, NoSession)]

FirstFree(t) == CHOOSE a \in Slots : At(t, a, "off")
HasFree(t) == \E a \in Slots : At(t, a, "off")

\* A tab that has just loaded: the provider mounts and calls restore().
Init ==
  /\ \E s \in {NoSession, Foreign, Fresh(1)} : store = [t \in Tabs |-> s]
  /\ access = [t \in Tabs |-> NoSession]
  /\ snap = [t \in Tabs |-> "loading"]
  /\ promise = [t \in Tabs |-> NoSlot]
  /\ restore = [t \in Tabs |-> "read"]
  /\ act = [t \in Tabs |-> [a \in Acts |-> Idle]]
  /\ watching = [t \in Tabs |-> TRUE]
  /\ inbox = [t \in Tabs |-> <<>>]
  /\ locked = {}
  /\ srvGen = [l \in 1..MaxLogins |-> 0]
  /\ grace = {} /\ reused = FALSE /\ logins = 1

-----------------------------------------------------------------------------
(* The storage, the channel, and the end of an activity. *)

Put(t, s) == store' = [u \in Tabs |-> IF Shared \/ u = t THEN s ELSE store[u]]

\* A synchronous storage is written as an activity begins its await, an
\* asynchronous one by the time the await ends.
PutFirst(t, s) == IF Async THEN UNCHANGED store ELSE Put(t, s)
PutLast(t, s) == IF Async THEN Put(t, s) ELSE UNCHANGED store

\* A second TOKEN_REFRESHED behind a first one does no more than Trigger may.
Repeats(u, type) ==
  /\ type = "TOKEN_REFRESHED" /\ inbox[u] # <<>>
  /\ inbox[u][Len(inbox[u])] = type

Broadcast(t, type) ==
  inbox' = [u \in Tabs |-> IF u = t \/ Repeats(u, type) THEN inbox[u]
                            ELSE Append(inbox[u], type)]

\* Mutant: a restore that fails leaves the snapshot to the refresh.
ResolveSilent(t, a, ok, s) ==
  /\ act' = [act EXCEPT ![t][a] = Idle]
  /\ promise' = IF a \in Slots THEN [promise EXCEPT ![t] = NoSlot] ELSE promise
  /\ restore' = IF restore[t] = a THEN [restore EXCEPT ![t] = "off"] ELSE restore
  /\ snap' = [snap EXCEPT ![t] = s]
  /\ UNCHANGED <<access, watching>>

\* Activity a ends with this result and leaves snapshot s; a refresh ends
\* refreshPromise, whichever refresh that is, and a restore awaiting a goes on.
Resolve(t, a, ok, s) ==
  /\ act' = [act EXCEPT ![t][a] = Idle]
  /\ promise' = IF a \in Slots THEN [promise EXCEPT ![t] = NoSlot] ELSE promise
  /\ restore' = IF restore[t] = a THEN [restore EXCEPT ![t] = "off"] ELSE restore
  /\ snap' = [snap EXCEPT ![t] = IF restore[t] = a /\ ~ok THEN "out" ELSE s]
  /\ UNCHANGED <<access, watching>>

Release(t, a) == locked' = locked \ {<<t, a>>}

(* clearInternal, up to its await and after it. *)

BeginClear(t, a, ok, broadcast) ==
  /\ access' = [access EXCEPT ![t] = NoSession]
  /\ promise' = [promise EXCEPT ![t] = NoSlot]
  /\ watching' = [watching EXCEPT ![t] = FALSE]
  /\ act' = [act EXCEPT ![t][a] =
       [pc |-> "erasing", token |-> NoSession, ok |-> ok,
        tell |-> broadcast /\ (access[t] # NoSession \/ snap[t] = "in")]]
  /\ PutFirst(t, NoSession)
  /\ UNCHANGED <<snap, restore, inbox>>

EndClear(t, a) ==
  /\ At(t, a, "erasing")
  /\ PutLast(t, NoSession)
  /\ IF act[t][a].tell THEN Broadcast(t, "SIGNED_OUT") ELSE UNCHANGED inbox
  /\ Resolve(t, a, act[t][a].ok, "out")
  /\ UNCHANGED <<locked, server>>

(* setTokens, up to its await and after it. *)

\* Mutant: the user is not compared.
MismatchIgnored(t, s) == FALSE

Mismatch(t, s) == access[t] # NoSession /\ User(access[t]) # User(s)

BeginSet(t, a, s) ==
  \/ Mismatch(t, s) /\ BeginClear(t, a, TRUE, TRUE)
  \/ /\ ~Mismatch(t, s)
     /\ access' = [access EXCEPT ![t] = s]
     /\ act' = [act EXCEPT ![t][a] = Doing("storing", s)]
     /\ PutFirst(t, s)
     /\ UNCHANGED <<snap, promise, restore, watching, inbox>>

\* The snapshot is made from the access token there is by now.
EndSet(t, a) ==
  /\ At(t, a, "storing")
  /\ PutLast(t, act[t][a].token)
  /\ Broadcast(t, "TOKEN_REFRESHED")
  /\ Resolve(t, a, TRUE, IF access[t] = NoSession THEN "out" ELSE "in")
  /\ UNCHANGED <<locked, server>>

-----------------------------------------------------------------------------
(* performRefresh and doRefresh *)

StartRefresh(t) ==
  /\ promise[t] = NoSlot /\ HasFree(t)
  /\ promise' = [promise EXCEPT ![t] = FirstFree(t)]
  /\ act' = [act EXCEPT ![t][FirstFree(t)] = Doing("read", NoSession)]

\* A timer, getToken(), the tab becoming visible or the page coming online.
Trigger(t) ==
  /\ StartRefresh(t)
  /\ UNCHANGED <<store, access, snap, restore, watching, inbox, locked, server>>

ReadToken(t, a) ==
  /\ At(t, a, "read")
  /\ IF store[t] = NoSession
       THEN Resolve(t, a, FALSE, "out")
       ELSE Goto(t, a, "lock") /\ UNCHANGED <<access, snap, promise, restore, watching>>
  /\ UNCHANGED <<store, inbox, locked, server>>

\* Mutant: the lock is not exclusive.
AcquireAnyway(t, a) ==
  /\ At(t, a, "lock")
  /\ locked' = locked \cup {<<t, a>>}
  /\ Goto(t, a, "reread")
  /\ UNCHANGED <<store, access, snap, promise, restore, watching, inbox, server>>

Acquire(t, a) ==
  /\ At(t, a, "lock") /\ locked = {}
  /\ locked' = {<<t, a>>}
  /\ Goto(t, a, "reread")
  /\ UNCHANGED <<store, access, snap, promise, restore, watching, inbox, server>>

\* After five seconds the refresh is given up.
LockTimesOut(t, a) ==
  /\ At(t, a, "lock") /\ locked # {}
  /\ Resolve(t, a, FALSE, snap[t])
  /\ UNCHANGED <<store, inbox, locked, server>>

\* Mutant: a refresh that finds no token under the lock keeps the lock.
RereadKeepsLock(t, a) ==
  /\ At(t, a, "reread")
  /\ \/ store[t] = NoSession /\ Resolve(t, a, FALSE, snap[t])
        /\ UNCHANGED <<store, inbox, locked>>
     \/ store[t] = Foreign /\ Release(t, a) /\ BeginClear(t, a, FALSE, TRUE)
     \/ /\ store[t] \notin {NoSession, Foreign}
        /\ act' = [act EXCEPT ![t][a] = Doing("sent", store[t])]
        /\ UNCHANGED <<store, access, snap, promise, restore, watching, inbox, locked>>
  /\ UNCHANGED server

\* Under the lock the token is read again, and sent.
Reread(t, a) ==
  /\ At(t, a, "reread")
  /\ \/ store[t] = NoSession /\ Release(t, a) /\ Resolve(t, a, FALSE, snap[t])
        /\ UNCHANGED <<store, inbox>>
     \/ store[t] = Foreign /\ Release(t, a) /\ BeginClear(t, a, FALSE, TRUE)
     \/ /\ store[t] \notin {NoSession, Foreign}
        /\ act' = [act EXCEPT ![t][a] = Doing("sent", store[t])]
        /\ UNCHANGED <<store, access, snap, promise, restore, watching, inbox, locked>>
  /\ UNCHANGED server

\* Mutant: a refresh whose outcome is unknown keeps the session.
HandleAnswerKeeps(t, a) ==
  /\ Release(t, a)
  /\ \/ At(t, a, "ok") /\ BeginSet(t, a, act[t][a].token)
     \/ /\ At(t, a, "revoked") \/ At(t, a, "transient")
        /\ Resolve(t, a, FALSE, snap[t]) /\ UNCHANGED <<store, inbox>>
  /\ UNCHANGED server

\* The lock is released before the tokens are stored.
HandleAnswer(t, a) ==
  /\ Release(t, a)
  /\ \/ At(t, a, "ok") /\ BeginSet(t, a, act[t][a].token)
     \/ At(t, a, "revoked") /\ BeginClear(t, a, FALSE, TRUE)
     \/ At(t, a, "transient") /\ Resolve(t, a, FALSE, snap[t]) /\ UNCHANGED <<store, inbox>>
  /\ UNCHANGED server

-----------------------------------------------------------------------------
(* restore, and the messages of other tabs *)

\* The tab becomes visible without an access token.
Visible(t) ==
  /\ access[t] = NoSession /\ restore[t] = "off"
  /\ restore' = [restore EXCEPT ![t] = "read"]
  /\ UNCHANGED <<store, access, snap, promise, act, watching, inbox, locked, server>>

RestoreReads(t) ==
  /\ restore[t] = "read"
  /\ \/ /\ store[t] = NoSession
        /\ restore' = [restore EXCEPT ![t] = "off"]
        /\ snap' = [snap EXCEPT ![t] = "out"]
        /\ UNCHANGED <<promise, act>>
     \/ /\ store[t] # NoSession /\ promise[t] # NoSlot
        /\ restore' = [restore EXCEPT ![t] = promise[t]]
        /\ UNCHANGED <<snap, promise, act>>
     \/ /\ store[t] # NoSession
        /\ StartRefresh(t)
        /\ restore' = [restore EXCEPT ![t] = FirstFree(t)]
        /\ UNCHANGED snap
  /\ UNCHANGED <<store, access, watching, inbox, locked, server>>

\* A TOKEN_REFRESHED message: refresh, unless the access token is valid (one
\* that is there may have expired) or a refresh is under way.
OnTokenRefreshed(t) ==
  /\ inbox[t] # <<>> /\ Head(inbox[t]) = "TOKEN_REFRESHED"
  /\ inbox' = [inbox EXCEPT ![t] = Tail(@)]
  /\ \/ StartRefresh(t)
     \/ (access[t] # NoSession \/ promise[t] # NoSlot) /\ UNCHANGED <<promise, act>>
  /\ UNCHANGED <<store, access, snap, restore, watching, locked, server>>

\* A SIGNED_OUT message: cleared without a broadcast.
OnSignedOut(t) ==
  /\ inbox[t] # <<>> /\ Head(inbox[t]) = "SIGNED_OUT"
  /\ At(t, "message", "off")
  /\ access' = [access EXCEPT ![t] = NoSession]
  /\ promise' = [promise EXCEPT ![t] = NoSlot]
  /\ watching' = [watching EXCEPT ![t] = FALSE]
  /\ Goto(t, "message", "erasing")
  /\ inbox' = [inbox EXCEPT ![t] = Tail(@)]
  /\ PutFirst(t, NoSession)
  /\ UNCHANGED <<snap, restore, locked, server>>

-----------------------------------------------------------------------------
(* The user *)

\* The tokens of a sign-in arrive (code exchange or completeSignIn).
SignIn(t) ==
  /\ "signIn" \in Events /\ logins < MaxLogins
  /\ At(t, "signIn", "off")
  /\ logins' = logins + 1
  /\ BeginSet(t, "signIn", Fresh(logins + 1))
  /\ UNCHANGED <<locked, srvGen, grace, reused>>

\* signOut(), by the user or for inactivity.
SignOut(t) ==
  /\ "signOut" \in Events
  /\ At(t, "signOut", "off")
  /\ BeginClear(t, "signOut", TRUE, TRUE)
  /\ UNCHANGED <<locked, server>>

SwitchOrganization(t) ==
  /\ "switch" \in Events
  /\ access[t] # NoSession /\ At(t, "switch", "off")
  /\ act' = [act EXCEPT ![t]["switch"] = Doing("switching", access[t])]
  /\ UNCHANGED <<store, access, snap, promise, restore, watching, inbox, locked, server>>

\* Its answer has an access token and no refresh token: nothing is stored, and
\* setTokens runs without an await.
SwitchAnswer(t) ==
  LET s == act[t]["switch"].token
  IN  /\ At(t, "switch", "switching")
      /\ \/ /\ ~Mismatch(t, s)
            /\ access' = [access EXCEPT ![t] = s]
            /\ snap' = [snap EXCEPT ![t] = "in"]
            /\ act' = [act EXCEPT ![t]["switch"] = Idle]
            /\ Broadcast(t, "TOKEN_REFRESHED")
            /\ UNCHANGED <<store, promise, restore, watching>>
         \/ Mismatch(t, s) /\ BeginClear(t, "switch", TRUE, TRUE)
         \/ /\ act' = [act EXCEPT ![t]["switch"] = Idle]
            /\ UNCHANGED <<store, access, snap, promise, restore, watching, inbox>>
      /\ UNCHANGED <<locked, server>>

\* The page is reloaded: what was under way is gone, the storage stays.
Reload(t) ==
  /\ "reload" \in Events
  /\ access' = [access EXCEPT ![t] = NoSession]
  /\ snap' = [snap EXCEPT ![t] = "loading"]
  /\ promise' = [promise EXCEPT ![t] = NoSlot]
  /\ restore' = [restore EXCEPT ![t] = "read"]
  /\ act' = [act EXCEPT ![t] = [a \in Acts |-> Idle]]
  /\ watching' = [watching EXCEPT ![t] = TRUE]
  /\ inbox' = [inbox EXCEPT ![t] = <<>>]
  /\ locked' = {h \in locked : h[1] # t}
  /\ UNCHANGED <<store, server>>

-----------------------------------------------------------------------------
(* The token endpoint *)

Answer(t, a, result, s) ==
  /\ act' = [act EXCEPT ![t][a] = Doing(result, s)]
  /\ UNCHANGED <<store, access, snap, promise, restore, watching, inbox, locked, logins>>

\* It accepts the current generation, and the previous one for a while.
Accept(t, a) ==
  LET s == act[t][a].token
      next == [login |-> s.login, gen |-> s.gen + 1]
  IN  /\ At(t, a, "sent") /\ ~reused
      /\ \/ s.gen = srvGen[s.login] /\ s.gen < MaxGen
            /\ srvGen' = [srvGen EXCEPT ![s.login] = next.gen]
            /\ grace' = grace \cup {s.login}
         \/ next.gen = srvGen[s.login] /\ s.login \in grace
            /\ UNCHANGED <<srvGen, grace>>
      /\ Answer(t, a, "ok", next) \/ Answer(t, a, "revoked", s)
      /\ UNCHANGED reused

Refuse(t, a) ==
  /\ At(t, a, "sent")
  /\ \E result \in {"revoked", "transient"} : Answer(t, a, result, act[t][a].token)
  /\ UNCHANGED <<srvGen, grace, reused>>

DetectReuse(t, a) ==
  LET s == act[t][a].token
  IN  /\ At(t, a, "sent") /\ ~reused
      /\ s.gen < srvGen[s.login]
      /\ ~(s.gen + 1 = srvGen[s.login] /\ s.login \in grace)
      /\ reused' = TRUE
      /\ Answer(t, a, "revoked", s)
      /\ UNCHANGED <<srvGen, grace>>

CloseWindow ==
  \E l \in grace :
    grace' = grace \ {l} /\ UNCHANGED <<store, tab, inbox, locked, srvGen, reused, logins>>

-----------------------------------------------------------------------------
RefreshStep(t, a) ==
  \/ ReadToken(t, a) \/ Acquire(t, a) \/ LockTimesOut(t, a)
  \/ Reread(t, a) \/ HandleAnswer(t, a)

Next ==
  \/ \E t \in Tabs :
       \/ Trigger(t) \/ Visible(t) \/ RestoreReads(t)
       \/ OnTokenRefreshed(t) \/ OnSignedOut(t)
       \/ SignIn(t) \/ SignOut(t) \/ SwitchOrganization(t) \/ SwitchAnswer(t) \/ Reload(t)
       \/ \E a \in Slots : RefreshStep(t, a) \/ Accept(t, a) \/ Refuse(t, a) \/ DetectReuse(t, a)
       \/ \E a \in Acts : EndClear(t, a) \/ EndSet(t, a)
  \/ CloseWindow

Spec == Init /\ [][Next]_vars

\* Promises settle, and a request is answered or times out.
FairSpec ==
  /\ Spec
  /\ \A t \in Tabs :
       /\ WF_vars(RestoreReads(t))
       /\ \A a \in Slots : WF_vars(RefreshStep(t, a)) /\ WF_vars(Refuse(t, a))
       /\ \A a \in Acts : WF_vars(EndClear(t, a)) /\ WF_vars(EndSet(t, a))

-----------------------------------------------------------------------------
Sessions == {NoSession, Foreign} \cup [login : 1..MaxLogins, gen : Nat]
Labels == {"off", "read", "lock", "reread", "sent", "ok", "revoked", "transient",
           "storing", "erasing", "switching"}
Activities == [pc : Labels, token : Sessions, tell : BOOLEAN, ok : BOOLEAN]

\* Every variable has the type its code counterpart has.
TypeOK ==
  /\ store \in [Tabs -> Sessions] /\ access \in [Tabs -> Sessions]
  /\ snap \in [Tabs -> {"loading", "out", "in"}]
  /\ promise \in [Tabs -> Slots \cup {NoSlot}]
  /\ restore \in [Tabs -> Slots \cup {"off", "read"}]
  /\ act \in [Tabs -> [Acts -> Activities]]
  /\ watching \in [Tabs -> BOOLEAN]
  /\ inbox \in [Tabs -> Seq({"TOKEN_REFRESHED", "SIGNED_OUT"})]
  /\ locked \subseteq Tabs \X Slots
  /\ srvGen \in [1..MaxLogins -> Nat]
  /\ grace \subseteq 1..MaxLogins
  /\ reused \in BOOLEAN /\ logins \in 1..MaxLogins

\* No tab presents a token the server has rotated out: refreshes of two tabs
\* never end every session ("prevents nuclear revocation from concurrent
\* refreshes").
NoReuse == ~reused

\* While no refresh is on the wire, a stored token is the one the server
\* accepts, whatever was answered and whoever signed in or out meanwhile.
OnTheWire(t, a) == \E label \in {"sent", "ok", "revoked", "transient"} : At(t, a, label)
StoredIsCurrent ==
  \A t \in Tabs :
    (store[t].login # 0 /\ ~\E u \in Tabs, a \in Slots : OnTheWire(u, a)) =>
      store[t].gen = srvGen[store[t].login]

\* One user's session never replaces another's under an open page: the access
\* token of a tab passes from one user to another only through a sign-out.
UsersNeverMix ==
  [][\A t \in Tabs : (access[t] # NoSession /\ access'[t] # NoSession) =>
       User(access[t]) = User(access'[t])]_vars

\* The Web Lock is held by the refresh between its acquisition and its answer
\* and by no other: none is on the wire without it, and no way out of a
\* refresh, an erasure or a reload leaves it held.
LockIsHeldInside ==
  \A t \in Tabs, a \in Slots :
    <<t, a>> \in locked <=> At(t, a, "reread") \/ OnTheWire(t, a)

\* restore() ends in a loaded state, whether the lock and the answer come or not,
\* unless the page is reloaded again and again: it does not hang.
RestoreLoads ==
  <>[][\A t \in Tabs : ~ Reload(t)]_vars =>
    \A t \in Tabs : snap[t] = "loading" ~> snap[t] # "loading"

\* "clear() erases ALL state": only a sign-in puts a token into an empty storage.
OnlySignInStores ==
  [][\A t \in Tabs : (store[t] = NoSession /\ store'[t] # NoSession) => logins' # logins]_vars

\* With a sessionTimeout, a signed-in tab watches for inactivity: "minutes of
\* inactivity before auto-signOut".
InactivityWatched ==
  \A t \in Tabs : (snap[t] = "in" /\ access[t] # NoSession) => watching[t]

=============================================================================
