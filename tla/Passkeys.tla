------------------------------ MODULE Passkeys ------------------------------
(***************************************************************************)
(* Passkey ceremonies: the flows of packages/sdk-core/src/passkeys, run by *)
(* the usePasskeys hooks of the browser (packages/react) and of the device *)
(* (packages/react-native) over the adapter that opens the sheet.          *)
(*                                                                         *)
(* The sheet is one for the page or the device.  On the device a lock of   *)
(* the provider keeps ceremonies apart; in the browser each hook only      *)
(* knows of its own.  A call is one use of a hook's function; its `step`   *)
(* is what it waits for.  Errors go by their code without PASSKEY_.        *)
(***************************************************************************)
EXTENDS Naturals

CONSTANTS
  Hooks,       \* the mounted components that use the hook
  MaxCalls,    \* bound on the calls
  Platforms    \* the platforms looked at, with the calls made on each

ASSUME PasskeysAssumption == MaxCalls \in Nat \ {0} /\ Hooks # {}

VARIABLES
  platform,  \* native or not, whether a sheet can be cancelled, which calls are
             \* made and what the server answers
  call,      \* every call of the hooks
  sheet,     \* the call whose sheet the user sees
  ticket,    \* inFlight: the ceremony the adapter started last
  loading,   \* calls whose adapter is still loading its library
  lock,      \* passkeyCeremonyLock is held
  mounted,   \* the hooks still mounted
  live,      \* whose sign-in the live session is
  taken      \* ghost: sheets closed on a call that still waited

passkeyVars == <<platform, call, sheet, ticket, loading, lock, mounted, live, taken>>

PasskeyCalls == 1..MaxCalls
NoCall == 0                   \* no sheet is up, no ticket is out, no session is live
Elsewhere == MaxCalls + 1     \* the session is not one these calls began
Ceremonies == {"signIn", "register", "stepUp"}
Kinds == Ceremonies \cup {"list", "rename", "delete"}
Steps == {"idle", "prepare", "begin", "ceremony", "finish", "store", "confirm", "storing", "over"}

Active(c) == call[c].step \notin {"idle", "over"}
Waiting(c) == call[c].step = "ceremony"

BusyKey(kind) == IF kind \in {"rename", "delete"} THEN "mutate" ELSE kind
Surface(kind) ==
  IF kind = "signIn" THEN "assert" ELSE IF kind = "stepUp" THEN "step-up"
  ELSE IF kind = "register" THEN "register" ELSE "management"

PasskeyInit ==
  /\ platform \in Platforms
  /\ call = [c \in PasskeyCalls |-> [hook |-> CHOOSE h \in Hooks : TRUE, kind |-> "list",
               step |-> "idle", aborted |-> FALSE, result |-> ""]]
  /\ sheet = NoCall /\ ticket = NoCall /\ loading = {} /\ lock = FALSE
  /\ mounted = Hooks /\ live = NoCall /\ taken = {}

-----------------------------------------------------------------------------
(* Requests *)

Ok == [status |-> 200, code |-> "ok"]
Malformed == [status |-> 200, code |-> "malformed"]
NextStep == [status |-> 200, code |-> "next_step"]
Network == [status |-> 0, code |-> "network"]
HttpErrors ==
  { [status |-> 429, code |-> "other"], [status |-> 401, code |-> "unknown_credential"],
    [status |-> 401, code |-> "step_up_required"], [status |-> 401, code |-> "passkey"],
    [status |-> 401, code |-> "expired"], [status |-> 403, code |-> "other"],
    [status |-> 404, code |-> "not_found"], [status |-> 404, code |-> "other"],
    [status |-> 409, code |-> "last_method"], [status |-> 409, code |-> "other"],
    [status |-> 400, code |-> "other"], [status |-> 500, code |-> "other"] }
Answers == HttpErrors \cup {Ok, Malformed, NextStep, Network}

ASSUME PlatformsAssumption ==
  Platforms \subseteq [native : BOOLEAN, cancels : BOOLEAN,
                      kinds : SUBSET Kinds, answers : SUBSET Answers]

\* The code in the body, not the status, tells one 401 from another.
MapPasskeyHttpError(a, surface) ==
  IF a.status = 429 THEN "RATE_LIMITED"
  ELSE IF a.status = 401 THEN
    IF a.code = "unknown_credential" THEN "CREDENTIAL_UNUSABLE"
    ELSE IF a.code = "step_up_required" THEN "STEP_UP_REQUIRED"
    ELSE IF surface = "assert" \/ a.code = "passkey" THEN "SIGN_IN_FAILED"
    ELSE "SESSION_EXPIRED"
  ELSE IF a.status = 403 THEN "BLOCKED"
  ELSE IF a.status = 404 THEN IF a.code = "not_found" THEN "NOT_FOUND" ELSE "DISABLED"
  ELSE IF a.status = 409 THEN
    IF a.code = "last_method" THEN "LAST_METHOD" ELSE "ALREADY_REGISTERED"
  ELSE IF a.status = 400 /\ surface = "step-up" THEN "NOT_FOUND"
  ELSE IF surface = "assert" THEN "SIGN_IN_FAILED" ELSE "REQUEST_FAILED"

\* What a request that did not do comes to.
PasskeyRequest(a, surface) ==
  IF a = Network THEN "NETWORK_ERROR"
  ELSE IF a.status = 200 THEN "REQUEST_FAILED" ELSE MapPasskeyHttpError(a, surface)

-----------------------------------------------------------------------------
(* Calls, and how they end *)

\* The browser's hook looks at its own calls.
FreeInHook(h, k) ==
  \A c \in PasskeyCalls : Active(c) /\ call[c].hook = h =>
    /\ BusyKey(call[c].kind) # BusyKey(k)
    /\ ~(k \in Ceremonies /\ call[c].kind \in Ceremonies)

\* The device's hook looks at its own calls of the same key, then at the lock.
FreeOnDevice(h, k) ==
  /\ \A c \in PasskeyCalls :
       Active(c) /\ call[c].hook = h => BusyKey(call[c].kind) # BusyKey(k)
  /\ k \in Ceremonies => ~lock

\* A call the hook does not take changes nothing.
StartCall(c, h, k) ==
  /\ call[c].step = "idle" /\ \A d \in 1..(c - 1) : call[d].step # "idle"
  /\ h \in mounted /\ k \in platform.kinds
  /\ IF platform.native THEN FreeOnDevice(h, k) ELSE FreeInHook(h, k)
  /\ call' = [call EXCEPT ![c].hook = h, ![c].kind = k, ![c].step = "prepare"]
  /\ lock' = (lock \/ (platform.native /\ k \in Ceremonies))
  /\ UNCHANGED <<platform, sheet, ticket, loading, mounted, live, taken>>

Over(cs, code) ==
  [d \in PasskeyCalls |->
     IF d \in cs THEN [call[d] EXCEPT !.step = "over", !.result = code] ELSE call[d]]

\* Mutant: only a call that did what it was for gives the lock back.
ReleasedOnSuccess(cs, code) ==
  lock /\ ~(code = "OK" /\ \E c \in cs : call[c].kind \in Ceremonies)

\* The finally of runAction: whoever ends releases.
Released(cs, code) == lock /\ ~\E c \in cs : call[c].kind \in Ceremonies

Ends(c, code) == call' = Over({c}, code) /\ lock' = Released({c}, code)
Goes(c, step) == call' = [call EXCEPT ![c].step = step] /\ UNCHANGED lock

\* Before the first request: the nickname, the session, the adapter and its
\* support.  NOT_STARTED stands for the codes of what is missing.
Prepare(c) ==
  /\ call[c].step = "prepare"
  /\ \/ Goes(c, "begin")
     \/ Ends(c, "NOT_STARTED")
  /\ UNCHANGED <<platform, sheet, ticket, loading, mounted, live, taken>>

-----------------------------------------------------------------------------
(* The sheet *)

\* The sheet opens for c.  The one of a call that still waits goes: in the
\* browser and on iOS that call is told it was cancelled.
OpenSheet(c) ==
  LET robbed == {d \in {sheet} \ {NoCall} : Waiting(d)}
      opened == [Over(robbed, "CEREMONY_CANCELLED") EXCEPT ![c].step = "ceremony"]
  IN  /\ sheet' = c /\ ticket' = c
      /\ call' = opened
      /\ lock' = Released(robbed, "CEREMONY_CANCELLED")
      /\ taken' = taken \cup {[of |-> d, by |-> c, how |-> "opened"] : d \in robbed}

\* Android refuses a second sheet: this ceremony fails, the other goes on.
RefuseSheet(c) ==
  /\ platform.native /\ sheet # NoCall
  /\ ticket' = NoCall
  /\ Ends(c, "CEREMONY_FAILED")
  /\ UNCHANGED <<sheet, taken>>

\* The ceremony's options have come: the hub invokes the adapter.
Invoke(c) ==
  IF call[c].aborted
    THEN Ends(c, "CEREMONY_CANCELLED") /\ UNCHANGED <<sheet, ticket, loading, taken>>
  ELSE IF platform.native
    THEN (OpenSheet(c) \/ RefuseSheet(c)) /\ UNCHANGED loading
  ELSE Goes(c, "ceremony") /\ loading' = loading \cup {c} /\ UNCHANGED <<sheet, ticket, taken>>

\* Mutant: the signal is not looked at again once the library is there.
LoadedAnyway(c) ==
  /\ c \in loading /\ loading' = loading \ {c}
  /\ IF Waiting(c) THEN OpenSheet(c)
     ELSE sheet' = c /\ ticket' = c /\ UNCHANGED <<call, lock, taken>>
  /\ UNCHANGED <<platform, mounted, live>>

\* The browser's adapter has loaded its library; nobody may wait any more.
Loaded(c) ==
  /\ c \in loading /\ loading' = loading \ {c}
  /\ \/ ~call[c].aborted /\ OpenSheet(c)
     \/ ~call[c].aborted /\ Ends(c, "CEREMONY_FAILED") /\ UNCHANGED <<sheet, ticket, taken>>
     \/ call[c].aborted /\ UNCHANGED <<call, lock, sheet, ticket, taken>>
  /\ UNCHANGED <<platform, mounted, live>>

\* Mutant: an abort cancels whatever sheet is up.
CancelAnySheet(cs) ==
  /\ UNCHANGED ticket
  /\ IF platform.cancels /\ cs # {} THEN sheet' = NoCall ELSE UNCHANGED sheet
  /\ taken' = taken \cup {[of |-> d, by |-> d, how |-> "cancelled"] :
                            d \in {d \in {sheet} \ {NoCall} : cs # {} /\ d \notin cs /\ Waiting(d)}}

\* Ceremonies that are given up: their sheet is cancelled if it is the last
\* one the adapter started, and if it can be.
CancelSheet(cs) ==
  /\ UNCHANGED taken
  /\ IF platform.cancels /\ ticket \in cs
       THEN sheet' = NoCall /\ ticket' = NoCall ELSE UNCHANGED <<sheet, ticket>>

\* The budget of a ceremony ends.
TimeOut(c) ==
  /\ Waiting(c)
  /\ call' = [Over({c}, "CEREMONY_TIMED_OUT") EXCEPT ![c].aborted = TRUE]
  /\ lock' = Released({c}, "CEREMONY_TIMED_OUT")
  /\ CancelSheet({c})
  /\ UNCHANGED <<platform, loading, mounted, live>>

\* A hook unmounts: all its calls are aborted, and what waits for the sheet
\* ends at once.
UnmountHook(h) ==
  LET its == {c \in PasskeyCalls : Active(c) /\ call[c].hook = h}
      waiting == {c \in its : Waiting(c)}
  IN  /\ h \in mounted /\ mounted' = mounted \ {h}
      /\ call' = [c \in PasskeyCalls |->
                    [Over(waiting, "CEREMONY_CANCELLED")[c] EXCEPT !.aborted = @ \/ c \in its]]
      /\ lock' = Released(waiting, "CEREMONY_CANCELLED")
      /\ CancelSheet(waiting)
      /\ UNCHANGED <<platform, loading, live>>

\* What a rejection of the adapter, or a credential of no use, comes to.
Rejections == {"CEREMONY_CANCELLED", "CEREMONY_FAILED"}

\* The user finishes with the sheet, or the authenticator refuses.
Authenticator ==
  /\ sheet # NoCall
  /\ sheet' = NoCall /\ ticket' = IF ticket = sheet THEN NoCall ELSE ticket
  /\ \/ Waiting(sheet) /\ Goes(sheet, "finish")
     \/ Waiting(sheet) /\ \E code \in Rejections : Ends(sheet, code)
     \/ ~Waiting(sheet) /\ UNCHANGED <<call, lock>>
  /\ UNCHANGED <<platform, loading, mounted, live, taken>>

-----------------------------------------------------------------------------
(* What the server answers *)

\* The first answer: the ceremony's options, or the end of a call without one.
BeginAnswered(c) ==
  /\ call[c].step = "begin"
  /\ \/ call[c].kind \in Ceremonies /\ Invoke(c)
     \/ /\ \E a \in platform.answers \ (IF call[c].kind \in Ceremonies THEN {Ok, NextStep} ELSE {NextStep}) :
             call' = Over({c}, IF a = Ok THEN "OK" ELSE PasskeyRequest(a, Surface(call[c].kind)))
        /\ lock' = Released({c}, "BEGIN")
        /\ UNCHANGED <<sheet, ticket, loading, taken>>
  /\ UNCHANGED <<platform, mounted, live>>

RegisterResult(a) ==
  LET code == PasskeyRequest(a, "register")
  IN  IF a.status = 200 THEN code
      ELSE IF code \in {"ALREADY_REGISTERED", "STEP_UP_REQUIRED"} THEN code ELSE "FINISH_FAILED"
AssertResult(a) ==
  IF a = NextStep THEN "ADDITIONAL_STEP_REQUIRED" ELSE PasskeyRequest(a, "assert")
StepUpResult(a) == PasskeyRequest(a, "step-up")

Refused(kind, a) ==
  IF kind = "register" THEN RegisterResult(a)
  ELSE IF kind = "signIn" THEN AssertResult(a) ELSE StepUpResult(a)

\* The answer to the credential.
FinishAnswered(c) ==
  /\ call[c].step = "finish"
  /\ \E a \in platform.answers :
       LET kind == call[c].kind
           code == IF a = Ok THEN "OK" ELSE Refused(kind, a)
       IN  /\ a = NextStep => kind = "signIn"
           /\ IF a = Ok /\ kind = "signIn" THEN Goes(c, "store")
              ELSE Ends(c, code)
  /\ UNCHANGED <<platform, sheet, ticket, loading, mounted, live, taken>>

-----------------------------------------------------------------------------
(* The session of a sign-in *)

\* Mutant: a submission that did not throw has established the session.
StoreUnconfirmed(c) ==
  /\ call[c].step = "store" /\ platform.native
  /\ Ends(c, "OK") /\ live' \in {c, live}
  /\ UNCHANGED <<platform, sheet, ticket, loading, mounted, taken>>

\* The device: a nonce is taken and the tokens submitted under it.  A
\* submission that is refused throws nothing, nor does one for another user,
\* which clears the session; a store that refuses throws after the session
\* has been replaced in memory.
StoreOnDevice(c) ==
  /\ call[c].step = "store" /\ platform.native
  /\ Goes(c, "confirm") \/ Ends(c, "REQUEST_FAILED")
  /\ live' \in {c, live, NoCall}
  /\ UNCHANGED <<platform, sheet, ticket, loading, mounted, taken>>

\* It reads the session back, and compares whose it is.
Confirm(c) ==
  /\ call[c].step = "confirm"
  /\ \/ live = c /\ Ends(c, "OK")
     \/ Ends(c, "REQUEST_FAILED")
  /\ UNCHANGED <<platform, sheet, ticket, loading, mounted, live, taken>>

\* The browser: completeSignIn returns at once when the provider is gone.
\* Else it waits for the storage.
StoreInBrowser(c) ==
  /\ call[c].step = "store" /\ ~platform.native
  /\ Ends(c, "OK") \/ Goes(c, "storing")
  /\ UNCHANGED <<platform, sheet, ticket, loading, mounted, live, taken>>

\* The storage answers, and the hook does not look at what has become of the
\* session: tokens of another user than the live session's, or without the
\* claims of a session, leave nobody signed in and throw nothing.
StoredInBrowser(c) ==
  /\ call[c].step = "storing" /\ ~platform.native
  /\ \/ Ends(c, "OK") /\ live' \in {c, NoCall}
     \/ Ends(c, "REQUEST_FAILED") /\ UNCHANGED live
  /\ UNCHANGED <<platform, sheet, ticket, loading, mounted, taken>>

\* The user signs in otherwise, or out.
OtherSession ==
  /\ "signIn" \in platform.kinds
  /\ live' \in {Elsewhere, NoCall}
  /\ UNCHANGED <<platform, call, sheet, ticket, loading, lock, mounted, taken>>

CallStep(c) ==
  \/ Prepare(c) \/ BeginAnswered(c) \/ FinishAnswered(c) \/ StoreOnDevice(c)
  \/ Confirm(c) \/ StoreInBrowser(c) \/ StoredInBrowser(c)

PasskeyNext ==
  \/ \E c \in PasskeyCalls :
       \/ \E h \in Hooks, k \in Kinds : StartCall(c, h, k)
       \/ CallStep(c) \/ Loaded(c) \/ TimeOut(c)
  \/ \E h \in Hooks : UnmountHook(h)
  \/ Authenticator \/ OtherSession

\* Requests are answered or fail, and a ceremony's budget ends.  Nothing is
\* asked of the user, nor of the authenticator.
PasskeyFairness ==
  \A c \in PasskeyCalls : WF_passkeyVars(CallStep(c)) /\ WF_passkeyVars(TimeOut(c))
PasskeySpec == PasskeyInit /\ [][PasskeyNext]_passkeyVars /\ PasskeyFairness

-----------------------------------------------------------------------------
Results ==
  {"", "OK", "RATE_LIMITED", "CREDENTIAL_UNUSABLE", "STEP_UP_REQUIRED", "SIGN_IN_FAILED",
   "SESSION_EXPIRED", "BLOCKED", "NOT_FOUND", "DISABLED", "LAST_METHOD", "ALREADY_REGISTERED",
   "REQUEST_FAILED", "NETWORK_ERROR", "FINISH_FAILED", "ADDITIONAL_STEP_REQUIRED",
   "NOT_STARTED", "CEREMONY_CANCELLED", "CEREMONY_FAILED", "CEREMONY_TIMED_OUT"}

\* Every variable has the type its code counterpart has; on the device the
\* lock is held exactly while a ceremony is under way.
PasskeyTypeOK ==
  /\ call \in [PasskeyCalls -> [hook : Hooks, kind : Kinds, step : Steps, aborted : BOOLEAN,
                 result : Results]]
  /\ {sheet, ticket} \subseteq PasskeyCalls \cup {NoCall}
  /\ loading \subseteq PasskeyCalls /\ mounted \subseteq Hooks
  /\ live \in PasskeyCalls \cup {Elsewhere, NoCall}
  /\ lock = (platform.native /\ \E c \in PasskeyCalls : Active(c) /\ call[c].kind \in Ceremonies)

\* A call that waits for its sheet loses it to nobody: on the device never,
\* in the browser only to a ceremony of another hook that opens its own.
SheetIsOwn ==
  \A t \in taken : /\ ~platform.native /\ t.how = "opened"
                   /\ call[t.of].hook # call[t.by].hook

\* No sheet opens for a call that was over, or had been given up, before.
NoSheetForNobody ==
  [][sheet' # sheet /\ sheet' # NoCall =>
       /\ Active(sheet') /\ ~call[sheet'].aborted
       /\ call'[sheet'].step = "ceremony"]_passkeyVars

\* On the device a sign-in reported as done has made the live session.  The
\* browser's hook does not look: there a report says only that the server
\* took the passkey.
SignInIsLive ==
  [][\A c \in PasskeyCalls :
       platform.native /\ call[c].kind = "signIn" /\ call[c].result = "" /\ call'[c].result = "OK" =>
         live' = c]_passkeyVars

\* Every call ends and the lock comes back, whatever the user and the
\* authenticator do.
CallsEnd == (\A c \in PasskeyCalls : Active(c) ~> ~Active(c)) /\ (lock ~> ~lock)

=============================================================================
