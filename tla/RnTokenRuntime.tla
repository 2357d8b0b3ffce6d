--------------------------- MODULE RnTokenRuntime ---------------------------
(* The token runtime of the React Native SDK and the provider that drives it: *)
(* refreshes that suspend at the biometric prompt, the secure store and the   *)
(* network, sign-ins, sign-outs, the restore at mount and the retry timer,    *)
(* with the auth machine they dispatch to and a server that rotates tokens.   *)
(*                                                                            *)
(* A refresh flight is the whole of one doRefresh; its last microtasks (the   *)
(* finally that clears refreshInFlight, restore()'s own dispatch) are one     *)
(* step.  One exchange is one answer: its retry is RefreshExchange's subject. *)
(* The secure store performs its operations in the order they are issued, so  *)
(* its effect is the one it has when issued, and its caller resumes later.    *)
EXTENDS Integers, Sequences, AuthMachine

CONSTANTS Slots,       \* refresh flights that may exist at a time (bound)
          NoSlot,      \* no flight
          NoToken,     \* nothing stored
          Users,
          MaxLogins,   \* sign-ins the server accepts (bound)
          MaxGen,      \* rotations of one login's token (bound)
          MaxAttempts, \* retries of one budget: REFRESH_RETRY_BASE_DELAYS_MS
          Scenarios    \* sets of the names below: what may happen in a behaviour

(* biometric: reads are gated; dpop: the session is bound to a key; early...: *)
(* a call before restore() or the store has answered; switch: a sign-in as    *)
(* another user; ...Fails: store faults; undecodable: the server's access      *)
(* token may lack the claims of a user or a session.                          *)
CallNames == {"getToken", "earlyGetToken", "foreground", "connectivity", "submit", "earlySubmit",
              "switch", "badNonce", "signOut", "unmount", "readFails", "writeFails", "undecodable",
              "biometric", "dpop"}

ASSUME SettingsAssumption ==
    /\ MaxLogins \in Nat \ {0} /\ MaxGen \in Nat /\ MaxAttempts \in Nat \ {0}
    /\ Scenarios \subseteq SUBSET CallNames
    /\ NoSlot \notin Slots /\ NoUser \notin Users /\ NoToken \notin [login : Nat, gen : Nat]
    /\ Slots \cap {"new", "done", "job"} = {}

VARIABLES calls,    \* the scenario
          rt,       \* the fields of TokenRuntime
          flights,  \* each slot's doRefresh
          job,      \* the setTokens of a sign-in, or the clear of a sign-out
          restore,  \* restore(): "new", "done", or the flight it awaits
          stored,   \* the secure store's refresh token
          queue,    \* the store's operations that have not answered, in order
          machine,  \* the reducer's snapshot
          owner,    \* the server: whose login each accepted sign-in is
          gen,      \* the server: the rotation of each login it now accepts
          reused    \* the server was shown a token it had rotated

vars == <<calls, rt, flights, job, restore, stored, queue, machine, owner, gen, reused>>
world == <<calls, owner, gen, reused>>
store == <<stored, queue>>

Logins == 1..MaxLogins
Token(l, g) == [login |-> l, gen |-> g]
Tokens == {Token(l, g) : l \in Logins, g \in 0..MaxGen}
Flight(pc, restoring, tok, resumed) ==
    [pc |-> pc, restoring |-> restoring, tok |-> tok, resumed |-> resumed]
Idle == Flight("idle", FALSE, NoToken, FALSE)
Job(pc, tok) == [pc |-> pc, tok |-> tok]
NoJob == Job("idle", NoToken)

TypeOK ==
    /\ calls \in Scenarios
    /\ rt \in [access : {"none", "fresh", "stale"}, user : Users \cup {NoUser},
               inFlight : Slots \cup {NoSlot}, attempts : 0..MaxAttempts,
               timer : BOOLEAN, restorePending : BOOLEAN, destroyed : BOOLEAN]
    /\ flights \in [Slots -> [pc : {"idle", "bio", "read", "send", "store", "failed", "clear", "mismatch"},
                              restoring : BOOLEAN, tok : Tokens \cup {NoToken}, resumed : BOOLEAN]]
    /\ job \in [pc : {"idle", "store", "failed", "mismatch", "clear"}, tok : Tokens \cup {NoToken}]
    /\ restore \in {"new", "done"} \cup Slots
    /\ stored \in Tokens \cup {NoToken}
    /\ queue \in Seq(Slots \cup {"job"})
    /\ machine \in [state : MachineStates, user : Users \cup {NoUser}, session : Users \cup {NoUser}]
    /\ owner \in [Logins -> Users \cup {NoUser}]
    /\ gen \in [Logins -> 0..MaxGen]
    /\ reused \in BOOLEAN

(* A device that was signed in before, or never. *)
Init ==
    /\ calls \in Scenarios
    /\ rt = [access |-> "none", user |-> NoUser, inFlight |-> NoSlot, attempts |-> 0,
             timer |-> FALSE, restorePending |-> FALSE, destroyed |-> FALSE]
    /\ flights = [s \in Slots |-> Idle]
    /\ job = NoJob
    /\ restore = "new"
    /\ machine = InitialSnapshot
    /\ \E u \in Users, known \in BOOLEAN :
         /\ owner = [l \in Logins |-> IF l = 1 /\ known THEN u ELSE NoUser]
         /\ stored = IF known THEN Token(1, 0) ELSE NoToken
    /\ gen = [l \in Logins |-> 0]
    /\ reused = FALSE
    /\ queue = <<>>

(***************************************************************************)
(* The synchronous pieces of the runtime.                                  *)
(***************************************************************************)
(* clear() up to its first await. *)
ClearedKeepsUser(r) == [r EXCEPT !.access = "none", !.inFlight = NoSlot, !.attempts = 0,
                                 !.restorePending = FALSE, !.timer = FALSE]
Cleared(r) == [r EXCEPT !.access = "none", !.user = NoUser, !.inFlight = NoSlot,
                        !.attempts = 0, !.restorePending = FALSE, !.timer = FALSE]

(* setTokens() up to its first await. *)
Accepted(r, u) == [r EXCEPT !.access = "fresh", !.user = u, !.attempts = 0]
IsMismatch(r, u) == r.user # NoUser /\ r.user # u

(* The secure store takes an operation, and answers the oldest one. *)
Issue(who) == queue' = Append(queue, who)
Answered(who) == queue # <<>> /\ Head(queue) = who /\ queue' = Tail(queue)

(* performRefresh: a caller joins the flight under way, or starts one. *)
FreeSlots == {s \in Slots : flights[s].pc = "idle"}
PerformRefreshAlways(r, restoring, machineNext) ==
    IF r.destroyed
      THEN rt' = r /\ machine' = machineNext /\ UNCHANGED <<flights, queue>>
      ELSE \E s \in FreeSlots :
             /\ flights' = [flights EXCEPT ![s] =
                              IF "biometric" \in calls THEN Flight("bio", restoring, NoToken, FALSE)
                                           ELSE Flight("read", restoring, stored, FALSE)]
             /\ IF "biometric" \in calls THEN UNCHANGED queue ELSE Issue(s)
             /\ rt' = [r EXCEPT !.inFlight = s]
             /\ machine' = machineNext
PerformRefresh(r, restoring, machineNext) ==
    IF r.inFlight # NoSlot \/ r.destroyed
      THEN rt' = r /\ machine' = machineNext /\ UNCHANGED <<flights, queue>>
      ELSE \E s \in FreeSlots :
             /\ flights' = [flights EXCEPT ![s] =
                              IF "biometric" \in calls THEN Flight("bio", restoring, NoToken, FALSE)
                                           ELSE Flight("read", restoring, stored, FALSE)]
             /\ IF "biometric" \in calls THEN UNCHANGED queue ELSE Issue(s)
             /\ rt' = [r EXCEPT !.inFlight = s]
             /\ machine' = machineNext

(* The end of a flight: refreshInFlight is cleared, whatever flight it names *)
(* now, and restore(), when it awaits this one, reports what it finds.       *)
End(s, r, m, success) ==
    /\ flights' = [flights EXCEPT ![s] = Idle]
    /\ rt' = [r EXCEPT !.inFlight = NoSlot]
    /\ IF restore = s
         THEN /\ restore' = "done"
              /\ machine' = IF success /\ r.user # NoUser
                              THEN Reduce(m, "RESTORE_SUCCESS", r.user)
                              ELSE Reduce(m, "RESTORE_FAILED", NoUser)
         ELSE machine' = m /\ UNCHANGED restore

GoTo(s, pc) == flights' = [flights EXCEPT ![s].pc = pc]

(* clear(error) inside a flight: the dispatch comes after the removal. *)
ClearIn(s) ==
    /\ rt' = Cleared(rt) /\ stored' = NoToken /\ Issue(s) /\ GoTo(s, "clear")
    /\ UNCHANGED <<job, restore, machine>>

(* The write of an accepted token, which the store may refuse. *)
Write(pc, tok) ==
    \/ pc = "store" /\ stored' = tok
    \/ pc = "failed" /\ "writeFails" \in calls /\ UNCHANGED stored
    \/ pc = "mismatch" /\ stored' = NoToken

(***************************************************************************)
(* doRefresh                                                               *)
(***************************************************************************)
BiometricGate(s) ==
    /\ flights[s].pc = "bio"
    /\ \/ /\ flights' = [flights EXCEPT ![s].pc = "read", ![s].tok = stored]
          /\ Issue(s)
          /\ UNCHANGED <<rt, job, restore, stored, machine, world>>
       \/ /\ ~flights[s].restoring      \* unavailable, locked out or not enrolled
          /\ ClearIn(s) /\ UNCHANGED world
       \/ /\ End(s, rt, machine, FALSE) \* cancelled, or any failure of a restore
          /\ UNCHANGED <<job, store, world>>

ReadToken(s) ==
    /\ flights[s].pc = "read" /\ Answered(s)
    /\ \/ /\ flights[s].tok # NoToken
          /\ GoTo(s, "send")
          /\ UNCHANGED <<rt, job, restore, stored, machine, world>>
       \/ /\ flights[s].tok = NoToken \/ "readFails" \in calls
          /\ End(s, rt, machine, FALSE)
          /\ UNCHANGED <<job, stored, world>>

(* scheduleRetry: the new runtime fields and the machine it dispatches to. *)
RetryStateOffByOne(r, m, restoring) ==
    LET pending == r.restorePending \/ restoring
    IN [rt |-> [r EXCEPT !.restorePending = pending, !.attempts = r.attempts + 1, !.timer = TRUE],
        machine |-> IF pending THEN m ELSE Reduce(m, "REFRESH_NETWORK_ERROR", NoUser)]
RetryStateSilent(r, m, restoring) ==
    LET pending == r.restorePending \/ restoring
        spent   == r.attempts >= MaxAttempts
    IN [rt |-> [r EXCEPT !.restorePending = pending,
                         !.attempts = IF spent THEN 0 ELSE r.attempts + 1,
                         !.timer = IF spent THEN r.timer ELSE TRUE],
        machine |-> m]
RetryState(r, m, restoring) ==
    LET pending == r.restorePending \/ restoring
        spent   == r.attempts >= MaxAttempts
        failed  == Reduce(m, "REFRESH_NETWORK_ERROR", NoUser)
    IN [rt |-> [r EXCEPT !.restorePending = pending,
                         !.attempts = IF spent THEN 0 ELSE r.attempts + 1,
                         !.timer = IF spent THEN r.timer ELSE TRUE],
        machine |-> IF pending THEN m
                    ELSE IF spent THEN Reduce(failed, "OFFLINE_STALE", NoUser) ELSE failed]

IsCurrent(tok) == tok.gen = gen[tok.login]

(* completeRefresh and setTokens up to the write of the new token. *)
CompleteRefreshForgets(s, tok) ==
    LET u == owner[tok.login]
        r == [rt EXCEPT !.restorePending = FALSE, !.attempts = 0]
    IN \E pc \in IF IsMismatch(r, u) THEN {"mismatch"} ELSE {"store", "failed"} :
         /\ Write(pc, tok) /\ Issue(s)
         /\ flights' = [flights EXCEPT ![s] = Flight(pc, flights[s].restoring, tok, FALSE)]
         /\ rt' = IF pc = "mismatch" THEN Cleared(r) ELSE Accepted(r, u)
         /\ UNCHANGED <<job, restore, machine>>
CompleteRefresh(s, tok) ==
    LET u == owner[tok.login]
        r == [rt EXCEPT !.restorePending = FALSE, !.attempts = 0]
    IN \E pc \in IF IsMismatch(r, u) THEN {"mismatch"} ELSE {"store", "failed"} :
         /\ Write(pc, tok) /\ Issue(s)
         /\ flights' = [flights EXCEPT ![s] =
                          Flight(pc, flights[s].restoring, tok, rt.restorePending)]
         /\ rt' = IF pc = "mismatch" THEN Cleared(r) ELSE Accepted(r, u)
         /\ UNCHANGED <<job, restore, machine>>

(* completeRefresh when setTokens cannot decode the answer: nothing is stored, *)
(* and the flight succeeds all the same.                                      *)
UndecodedRefresh(s) ==
    LET m == Reduce(machine, "SIGN_IN_FAILED", NoUser)
        resumed == rt.restorePending /\ rt.user # NoUser
    IN /\ "undecodable" \in calls
       /\ End(s, [rt EXCEPT !.restorePending = FALSE, !.attempts = 0],
              IF resumed THEN Reduce(m, "RESTORE_SUCCESS", rt.user) ELSE m, TRUE)
       /\ UNCHANGED <<job, store>>

Answer(s) ==
    /\ flights[s].pc = "send"
    /\ LET l == flights[s].tok.login
           Rotated == gen[l] < MaxGen /\ gen' = [gen EXCEPT ![l] = @ + 1]
       IN \/ /\ IsCurrent(flights[s].tok) /\ Rotated
             /\ CompleteRefresh(s, Token(l, gen[l] + 1)) \/ UndecodedRefresh(s)
             /\ UNCHANGED <<calls, owner, reused>>
          \/ /\ ~IsCurrent(flights[s].tok)  \* refused as reused
             /\ reused' = TRUE
             /\ ClearIn(s) /\ UNCHANGED <<calls, owner, gen>>
          \/ /\ UNCHANGED gen \/ Rotated    \* revoked, or the outcome is unknown
             /\ ClearIn(s) /\ UNCHANGED <<calls, owner, reused>>
          \/ LET n == RetryState(rt, machine, flights[s].restoring)
             IN /\ End(s, n.rt, n.machine, FALSE)
                /\ UNCHANGED <<job, store, world>>

(* The key of a bound session cannot sign: no request, no error, no retry. *)
ProverUnavailable(s) ==
    /\ "dpop" \in calls /\ flights[s].pc = "send"
    /\ End(s, rt, machine, FALSE)
    /\ UNCHANGED <<job, store, world>>

TokenStored(s) ==
    LET f == flights[s]
        m == IF f.restoring \/ f.resumed THEN machine
             ELSE Reduce(machine, "REFRESH_SUCCESS", rt.user)
    IN /\ f.pc = "store" /\ Answered(s)
       /\ End(s, rt, IF f.resumed /\ rt.user # NoUser
                       THEN Reduce(m, "RESTORE_SUCCESS", rt.user) ELSE m, TRUE)
       /\ UNCHANGED <<job, stored, world>>

(* A store that refuses the write: doRefresh rejects, and so does restore(). *)
StoreFails(s) ==
    /\ flights[s].pc = "failed" /\ Answered(s)
    /\ flights' = [flights EXCEPT ![s] = Idle]
    /\ rt' = [rt EXCEPT !.inFlight = NoSlot]
    /\ restore' = IF restore = s THEN "done" ELSE restore
    /\ UNCHANGED <<job, stored, machine, world>>

(* A mismatched answer still counts as a success of the refresh. *)
TokenRemoved(s) ==
    LET f == flights[s]
        m == Reduce(machine, "REFRESH_REVOKED", NoUser)
    IN /\ f.pc \in {"clear", "mismatch"} /\ Answered(s)
       /\ End(s, rt, IF f.pc = "mismatch" /\ f.resumed /\ rt.user # NoUser
                       THEN Reduce(m, "RESTORE_SUCCESS", rt.user) ELSE m, f.pc = "mismatch")
       /\ UNCHANGED <<job, stored, world>>

(***************************************************************************)
(* The provider and the application                                        *)
(***************************************************************************)
Restore ==
    /\ restore = "new"
    /\ PerformRefresh(rt, TRUE, machine)
    /\ restore' = rt'.inFlight
    /\ UNCHANGED <<job, stored, world>>

(* getToken() when no access token is fresh. A child's effect may run before *)
(* the provider's own, and so before restore().                              *)
GetToken ==
    /\ "getToken" \in calls /\ rt.access # "fresh" /\ rt.inFlight = NoSlot
    /\ restore # "new" \/ "earlyGetToken" \in calls
    /\ PerformRefresh(rt, FALSE, machine)
    /\ UNCHANGED <<job, restore, stored, world>>

RefreshOnForeground(m) ==
    IF rt.inFlight # NoSlot THEN machine' = m /\ UNCHANGED <<rt, flights, queue>>
    ELSE IF rt.restorePending THEN PerformRefresh(rt, TRUE, m)
    ELSE IF rt.user = NoUser THEN machine' = m /\ UNCHANGED <<rt, flights, queue>>
    ELSE PerformRefresh(rt, FALSE, Reduce(m, "REFRESH_START", NoUser))

Foreground ==
    /\ "foreground" \in calls
    /\ RefreshOnForeground(machine)
    /\ UNCHANGED <<job, restore, stored, world>>

Connectivity ==
    /\ "connectivity" \in calls
    /\ \/ RefreshOnForeground(Reduce(machine, "BACK_ONLINE", NoUser))
       \/ machine' = Reduce(machine, "OFFLINE_STALE", NoUser) /\ UNCHANGED <<rt, flights, queue>>
    /\ UNCHANGED <<job, restore, stored, world>>

RetryTimer ==
    /\ rt.timer
    /\ PerformRefresh([rt EXCEPT !.timer = FALSE], rt.restorePending, machine)
    /\ UNCHANGED <<job, restore, stored, world>>

Expire ==
    /\ rt.access = "fresh"
    /\ rt' = [rt EXCEPT !.access = "stale"]
    /\ UNCHANGED <<flights, job, restore, store, machine, world>>

(* submitOAuthTokens with a good nonce: setTokens(tokens, 'sign_in'). *)
Submit(u) ==
    /\ "submit" \in calls /\ job = NoJob
    /\ (restore = "done" /\ queue = <<>>) \/ "earlySubmit" \in calls
    /\ "switch" \in calls \/ \A l \in Logins : owner[l] \in {NoUser, u}
    /\ \E l \in Logins :
         /\ owner[l] = NoUser /\ \A k \in 1..(l - 1) : owner[k] # NoUser
         /\ owner' = [owner EXCEPT ![l] = u]
         /\ \/ \E pc \in IF IsMismatch(rt, u) THEN {"mismatch"} ELSE {"store", "failed"} :
                 /\ Write(pc, Token(l, 0)) /\ Issue("job") /\ job' = Job(pc, Token(l, 0))
                 /\ rt' = IF pc = "mismatch" THEN Cleared(rt) ELSE Accepted(rt, u)
                 /\ UNCHANGED machine
            \/ /\ "undecodable" \in calls
               /\ machine' = Reduce(machine, "SIGN_IN_FAILED", NoUser)
               /\ UNCHANGED <<rt, job, store>>
    /\ UNCHANGED <<flights, restore, calls, gen, reused>>

(* submitOAuthTokens with an unknown or expired nonce. *)
SubmitRefused ==
    /\ "badNonce" \in calls
    /\ machine' = Reduce(machine, "SIGN_IN_FAILED", NoUser)
    /\ UNCHANGED <<rt, flights, job, restore, store, world>>

SignOut ==
    /\ "signOut" \in calls /\ job = NoJob
    /\ rt' = Cleared(rt) /\ stored' = NoToken /\ Issue("job") /\ job' = Job("clear", NoToken)
    /\ UNCHANGED <<flights, restore, machine, world>>

(* The store has answered a sign-in or a sign-out; a refused write dispatches nothing. *)
JobDone ==
    /\ job # NoJob /\ Answered("job")
    /\ machine' = CASE job.pc = "store" -> Reduce(machine, "SIGN_IN_SUCCESS", owner[job.tok.login])
                    [] job.pc = "clear" -> Reduce(machine, "SIGN_OUT", NoUser)
                    [] job.pc = "mismatch" -> Reduce(machine, "REFRESH_REVOKED", NoUser)
                    [] OTHER -> machine
    /\ job' = NoJob
    /\ UNCHANGED <<rt, flights, restore, stored, world>>

Unmount ==
    /\ "unmount" \in calls /\ ~rt.destroyed /\ restore # "new"
    /\ rt' = [rt EXCEPT !.destroyed = TRUE, !.timer = FALSE, !.inFlight = NoSlot]
    /\ UNCHANGED <<flights, job, restore, store, machine, world>>

FlightStep(s) ==
    \/ BiometricGate(s) \/ ReadToken(s) \/ Answer(s) \/ ProverUnavailable(s)
    \/ TokenStored(s) \/ StoreFails(s) \/ TokenRemoved(s)

Next ==
    \/ \E s \in Slots : FlightStep(s)
    \/ Restore \/ GetToken \/ Foreground \/ Connectivity \/ RetryTimer \/ Expire
    \/ \E u \in Users : Submit(u)
    \/ SubmitRefused \/ SignOut \/ JobDone \/ Unmount

Spec == Init /\ [][Next]_vars

(* What was begun on the device answers; the server's answers and the user do not have to. *)
RuntimeFairness ==
    /\ \A s \in Slots : WF_vars(FlightStep(s))
    /\ WF_vars(JobDone) /\ WF_vars(RetryTimer)

FairSpec == Spec /\ RuntimeFairness

Quiet == job = NoJob /\ restore = "done" /\ \A s \in Slots : flights[s].pc = "idle"
Usual == {"getToken", "foreground", "connectivity", "submit"}

(* Hazard: completeRefresh chooses between REFRESH_SUCCESS, which keeps the   *)
(* machine's user, and RESTORE_SUCCESS, which sets it, from a flag that other *)
(* flights set and clear.  When everything is settled, a machine that counts  *)
(* as signed in has a user (completeRefresh's own comment).                   *)
SignedInHasUser == Quiet /\ IsSignedIn(machine) => machine.user # NoUser

(* completeRefresh's comment: a refresh that succeeds after a restore gave up *)
(* does not leave the machine authenticated with no user.                     *)
RestoredHasUser == rt.access = "fresh" => SignedInHasUser

(* The same as the run of the usual calls checks it. *)
UsuallyHasUser == calls \subseteq Usual \cup {"unmount"} => SignedInHasUser

(* Hazard: callers of getToken, the foreground and the timer read the same    *)
(* stored token across awaits, also when reads fail, a proof cannot be made,  *)
(* a nonce is refused or the provider unmounts: as long as nobody signs out   *)
(* or switches user, and what the server answers can be stored and decoded,   *)
(* the server never sees a token it has rotated.                              *)
NoReuse ==
    calls \subseteq Usual \cup {"earlyGetToken", "unmount", "readFails", "dpop", "badNonce"}
      => ~reused

(* Hazard: a transient failure, a resumed restore, a sign-out or a sign-in    *)
(* that overlaps a refresh must not lose the session: when everything is      *)
(* settled and the runtime has a user, the store holds a token of that user   *)
(* that the server accepts, provided the store took every write and the       *)
(* server's answers could be decoded: one that cannot is dropped with the     *)
(* token it carries, and the spent one stays stored.                          *)
StoredIsCurrent ==
    Quiet /\ rt.user # NoUser /\ {"writeFails", "undecodable"} \cap calls = {} =>
        /\ stored # NoToken
        /\ IsCurrent(stored)
        /\ owner[stored.login] = rt.user

(* Hazard: REFRESH_START is dispatched before a refresh that may end without   *)
(* dispatching anything.  Unless the store, the key or the biometric prompt   *)
(* refuses, the machine does not stay 'refreshing' for ever.                  *)
RefreshingEnds ==
    (calls \subseteq Usual \cup {"earlyGetToken", "badNonce", "undecodable"} /\ machine.state = "refreshing")
      ~> (machine.state # "refreshing")
=============================================================================
