-------------------------- MODULE RefreshExchange --------------------------
(***************************************************************************)
(* One runtime refreshing one session against the token endpoint, with a   *)
(* clock: refreshWithOneImmediateRetry and the backoff retries of the web  *)
(* and React Native runtimes (packages/sdk-core/src/oauth).                *)
(*                                                                         *)
(* The token endpoint is not in the repository.  It is modelled from what  *)
(* refresh-retry.ts relies on: a refresh rotates the token, a rotation     *)
(* whose answer was lost is handed back to an identical retry for Window,  *)
(* and an old token presented later is a reuse that revokes every session. *)
(*                                                                         *)
(* Refresh tokens are generations: the server accepts `current`, the       *)
(* client holds `held`.                                                    *)
(***************************************************************************)
EXTENDS TokenEndpoint

CONSTANTS
  Deadline,     \* REFRESH_RETRY_ONCE_DEADLINE_MS: how late a first failure may be retried
  Window,       \* how long the server hands a lost rotation back
  Trip,         \* the longest a request travels before the server handles it
  Statuses,     \* the HTTP statuses the endpoint, or a proxy, answers with
  OAuthErrors,  \* the error codes an answer may carry
  MaxTime,      \* bound on the clock
  MaxRotations  \* bound on the rotations of the refresh token

ASSUME TimesAssumption ==
  /\ Deadline \in Nat /\ Window \in Nat /\ Trip \in Nat
  /\ MaxTime \in Nat /\ MaxRotations \in Nat

\* The margin refresh-retry.ts leaves for "the retry's own trip".
WindowCoversRetry == Deadline + Trip <= Window

ASSUME StatusesAssumption == Statuses \subseteq 200..599

VARIABLES
  now,        \* the clock
  pc,         \* where the client is: see Phases
  held,       \* the refresh token the client holds
  startedAt,  \* when the first request of the refresh under way was sent
  attempts,   \* refreshAttempts: backoff retries used of this budget
  wire,       \* requests the server has not handled, late ones included
  answer,     \* the answer on its way to the client, or None
  current,    \* the refresh token the server accepts
  rotatedAt,  \* when the server last rotated
  revoked     \* "no", "ended" (session ended on the server) or "reuse"

client == <<pc, held, startedAt, attempts>>
server == <<current, rotatedAt, revoked>>
vars == <<now, client, wire, answer, server>>

Phases == {"idle", "first", "second", "backoff", "signedOut"}
InFlight == pc \in {"first", "second"}

None == [kind |-> "none"]
Answer(status, error, readable, token) ==
  [kind |-> "answer", status |-> status, error |-> error,
   readable |-> readable, token |-> token]
Request(phase, token) == [phase |-> phase, token |-> token, at |-> now]

\* The status tells that the server accepted the token, or may have.
MayHaveRotated(status) == status \in 200..299 \/ IsRefreshRetryOnceStatus(status)

Init ==
  /\ now = 0 /\ startedAt = 0 /\ rotatedAt = 0
  /\ pc = "idle" /\ attempts = 0
  /\ held = 0 /\ current = 0 /\ revoked = "no"
  /\ wire = {} /\ answer = None

-----------------------------------------------------------------------------
(* The client. *)

\* A refresh begins: its first request is sent.  Between two refreshes an
\* abandoned request has reached the server or is lost (refreshes are minutes
\* apart, or a backoff delay apart).
Send ==
  /\ pc \in {"idle", "backoff"}
  /\ wire = {} /\ held < MaxRotations
  /\ pc' = "first"
  /\ startedAt' = now
  /\ wire' = {Request("first", held)}
  /\ UNCHANGED <<now, held, attempts, answer, server>>

\* The refresh has failed for now: the session is kept and the refresh is
\* retried while the budget lasts; afterwards the next trigger has a new budget.
KeepSession ==
  /\ IF HasRetryLeft(attempts)
       THEN pc' = "backoff" /\ attempts' = attempts + 1
       ELSE pc' = "idle" /\ attempts' = 0
  /\ UNCHANGED <<held, startedAt>>

EndSession == pc' = "signedOut" /\ UNCHANGED <<held, startedAt, attempts>>

\* What the runtime does with a result no second request is sent for.
Finish(class, token) ==
  \/ /\ class = "ok"
     /\ pc' = "idle" /\ held' = token /\ attempts' = 0
     /\ UNCHANGED startedAt
  \/ class = "revoked" /\ EndSession
  \/ class \in {"network", "other"} /\ KeepSession

\* Mutant: the retry has no deadline.
RetryAnytime ==
  /\ pc' = "second"
  /\ wire' = wire \cup {Request("second", held)}
  /\ UNCHANGED <<held, startedAt, attempts>>

\* The one immediate retry, and its deadline.
RetryNow ==
  /\ now - startedAt <= Deadline
  /\ pc' = "second"
  /\ wire' = wire \cup {Request("second", held)}
  /\ UNCHANGED <<held, startedAt, attempts>>

TooLateToRetry ==
  /\ now - startedAt > Deadline
  /\ EndSession
  /\ UNCHANGED wire

\* The result of the first request: final, sent once more, or too late to.
AfterFirst(status, class, token) ==
  \/ ~RetryOnceTrigger(status, class) /\ Finish(class, token) /\ UNCHANGED wire
  \/ RetryOnceTrigger(status, class) /\ (RetryNow \/ TooLateToRetry)

\* Mutant: an unsettled second request is sent again, without end.
AfterSecondResend(class, token) ==
  \/ IsSettledRefreshResult(class) /\ Finish(class, token) /\ UNCHANGED wire
  \/ /\ ~IsSettledRefreshResult(class)
     /\ wire' = wire \cup {Request("second", held)}
     /\ UNCHANGED <<pc, held, startedAt, attempts>>

\* The result of the second request: settled, or the outcome is unknown.
AfterSecond(class, token) ==
  /\ \/ IsSettledRefreshResult(class) /\ Finish(class, token)
     \/ ~IsSettledRefreshResult(class) /\ EndSession
  /\ UNCHANGED wire

Receive ==
  /\ answer # None
  /\ answer' = None
  /\ LET class == RefreshResult(answer.status, answer.error, answer.readable)
     IN  \/ pc = "first" /\ AfterFirst(answer.status, class, answer.token)
         \/ pc = "second" /\ AfterSecond(class, answer.token)
  /\ UNCHANGED <<now, server>>

\* No response arrives (lost answer, reset connection, timeout).  The request
\* itself may be lost or still on its way to the server.
TransportFailure ==
  /\ InFlight
  /\ answer' = None
  /\ LET class == RefreshResult(NoResponse, "none", FALSE)
     IN  \/ pc = "first" /\ AfterFirst(NoResponse, class, held)
         \/ pc = "second" /\ AfterSecond(class, held)
  /\ UNCHANGED <<now, server>>

-----------------------------------------------------------------------------
(* The network and the server. *)

\* The answer reaches the client only while it awaits that request.
Reply(r, status, error, readable, token) ==
  answer' = IF pc = r.phase
              THEN Answer(status, error, readable, token)
              ELSE answer

\* The server accepts the current token and rotates it.
Rotate(r) ==
  /\ revoked = "no" /\ r.token = current
  /\ current' = current + 1 /\ rotatedAt' = now
  /\ \E status \in Statuses, readable \in BOOLEAN :
       /\ MayHaveRotated(status)
       /\ Reply(r, status, "none", readable, current + 1)
  /\ UNCHANGED revoked

\* It hands a lost rotation back to a retry within the window.
HandBack(r) ==
  /\ revoked = "no" /\ r.token = current - 1 /\ now - rotatedAt <= Window
  /\ \E status \in Statuses, readable \in BOOLEAN :
       /\ MayHaveRotated(status)
       /\ Reply(r, status, "none", readable, current)
  /\ UNCHANGED server

\* It, or a proxy in front of it, answers without accepting the token.
Refuse(r) ==
  /\ \E status \in Statuses, error \in OAuthErrors :
       /\ status \notin 200..299
       /\ Reply(r, status, error, TRUE, r.token)
  /\ UNCHANGED server

\* Any other token is a reuse: every session of the user is revoked.
DetectReuse(r) ==
  /\ revoked = "no"
  /\ r.token # current
  /\ ~(r.token = current - 1 /\ now - rotatedAt <= Window)
  /\ revoked' = "reuse"
  /\ Reply(r, 400, "invalid_grant", TRUE, r.token)
  /\ UNCHANGED <<current, rotatedAt>>

Serve ==
  \E r \in wire :
    /\ wire' = wire \ {r}
    /\ Rotate(r) \/ HandBack(r) \/ Refuse(r) \/ DetectReuse(r)
    /\ UNCHANGED <<now, client>>

LoseRequest ==
  \E r \in wire : wire' = wire \ {r} /\ UNCHANGED <<now, client, answer, server>>

\* The session ends on the server (sign-out elsewhere, an administrator).
EndOnServer ==
  /\ revoked = "no" /\ revoked' = "ended"
  /\ UNCHANGED <<now, client, wire, answer, current, rotatedAt>>

Tick ==
  /\ now < MaxTime
  /\ \A r \in wire : now < r.at + Trip
  /\ now' = now + 1
  /\ UNCHANGED <<client, wire, answer, server>>

Next ==
  \/ Send \/ Receive \/ TransportFailure
  \/ Serve \/ LoseRequest \/ EndOnServer \/ Tick

Spec == Init /\ [][Next]_vars

\* fetch has a timeout, so a request without an answer fails in the end.
FairSpec == Spec /\ WF_vars(TransportFailure)

-----------------------------------------------------------------------------
Requests == [phase : {"first", "second"}, token : Nat, at : Nat]
Answers == [kind : {"answer"}, status : Nat, error : OAuthErrors \cup {"none", "invalid_grant"},
            readable : BOOLEAN, token : Nat]

\* Every variable has the type its code counterpart has.
TypeOK ==
  /\ now \in Nat /\ startedAt \in Nat /\ rotatedAt \in Nat
  /\ pc \in Phases
  /\ held \in Nat /\ current \in Nat
  /\ attempts \in 0..RetryBudget
  /\ wire \subseteq Requests
  /\ answer = None \/ answer \in Answers
  /\ revoked \in {"no", "ended", "reuse"}

\* The client never presents a rotated token once the server no longer hands
\* it back, so no refresh ends every session of the user (refresh-retry.ts:
\* "The token is never presented later").
NoReuse == revoked # "reuse"

\* Whatever was answered or lost, a session that is kept holds the token the
\* server accepts: a kept session can always be refreshed again.
KeptTokenIsCurrent == pc \in {"idle", "backoff"} => held = current

\* Every refresh settles: it is not left in flight for ever.
RefreshSettles == InFlight ~> ~InFlight

=============================================================================
