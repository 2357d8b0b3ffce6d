--------------------------- MODULE WebParts_proofs ---------------------------
(***************************************************************************)
(* What is proved of the parts of the web SDK that MCWebParts runs side by *)
(* side.  RefreshExchange, for every deadline, window, clock bound and set *)
(* of statuses: a refresh token is never presented once the server has     *)
(* stopped handing its rotation back, and a kept session holds the token   *)
(* the server accepts.  RedirectSignIn, for any number of attempts, codes  *)
(* and page loads: a code is exchanged once, with its own verifier.        *)
(* SignInCard: a complete card has a session.                              *)
(***************************************************************************)
EXTENDS MCWebParts, TLAPS

(***************************************************************************)
(* RefreshExchange                                                         *)
(***************************************************************************)

(* The inductive invariant, as named parts. *)

\* A request on the wire belongs to the refresh that began at startedAt and
\* was sent before its deadline; time has not overtaken it.
WireTimes ==
  /\ startedAt <= now
  /\ \A r \in wire : /\ startedAt <= r.at /\ r.at <= startedAt + Deadline
                     /\ r.at <= now /\ now <= r.at + Trip

\* It carries the current token, or the one this refresh rotated.
WireTokens ==
  /\ \A r \in wire : \/ r.token = current
                     \/ r.token = current - 1 /\ startedAt <= rotatedAt
  /\ \A r1, r2 \in wire : r1.token = r2.token

\* In flight, the client holds one of these two, and so do its requests.
HeldInFlight ==
  InFlight => /\ held = current \/ (held = current - 1 /\ startedAt <= rotatedAt)
              /\ \A r \in wire : r.token = held

\* At rest, late requests carry the token before the one the client holds.
HeldAtRest ==
  pc \in {"idle", "backoff"} => /\ held = current
                                /\ \A r \in wire : r.token = current - 1

\* While the first request is unanswered nothing else is on the wire.
FirstAlone ==
  pc = "first" =>
    /\ \A r1, r2 \in wire : r1 = r2
    /\ wire # {} => answer = None /\ held = current

\* What an answer on its way says about the server.
AnswerMeans ==
  /\ answer # None => InFlight
  /\ answer # None /\ answer.status \in 200..299 =>
       answer.token = current /\ held = current - 1
  /\ pc = "first" /\ answer # None /\ ~MayHaveRotated(answer.status) => held = current

\* The inductive invariant, beside the types.
Exchange ==
  /\ NoReuse
  /\ WireTimes /\ WireTokens
  /\ HeldInFlight /\ HeldAtRest
  /\ FirstAlone /\ AnswerMeans

-----------------------------------------------------------------------------
(* The classification of answers, for every status and error code. *)

\* No status both ends the session and is retried, with or without delay:
\* isDefinitiveRefreshRejection and isTransientStatus exclude each other.
LEMMA DefinitiveIsNotTransient ==
  \A status \in Int, error \in STRING :
    IsDefinitiveRefreshRejection(status, error) =>
      ~IsTransientStatus(status) /\ ~IsRefreshRetryOnceStatus(status)
  BY DEF IsDefinitiveRefreshRejection, IsTransientStatus, IsRefreshRetryOnceStatus

\* An answer after which the server may have rotated the token never sends
\* the refresh into backoff: it settles or triggers the immediate retry.
LEMMA RotationNeverBacksOff ==
  \A status \in Statuses, error, readable \in BOOLEAN :
    MayHaveRotated(status) =>
      \/ IsSettledRefreshResult(RefreshResult(status, error, readable))
      \/ RetryOnceTrigger(status, RefreshResult(status, error, readable))
  BY StatusesAssumption
     DEF MayHaveRotated, IsSettledRefreshResult, RefreshResult, RetryOnceTrigger,
         IsRefreshRetryOnceStatus, IsTransientStatus, NoResponse

\* A missing response is a network failure that triggers the retry.
LEMMA MissingIsNetwork ==
  /\ RefreshResult(NoResponse, "none", FALSE) = "network"
  /\ RetryOnceTrigger(NoResponse, "network")
<1>1. \A e : ~IsDefinitiveRefreshRejection(NoResponse, e)
  BY DEF IsDefinitiveRefreshRejection, NoResponse
<1>2. ~IsTransientStatus(NoResponse) /\ NoResponse \notin 200..299
  BY DEF IsTransientStatus, NoResponse
<1>3. QED
  BY <1>1, <1>2 DEF RefreshResult, RetryOnceTrigger

LEMMA NoneIsNoAnswer == \A a \in Answers : a # None
  BY DEF Answers, None

-----------------------------------------------------------------------------
\* Every variable keeps its type.
THEOREM Typing == Spec => []TypeOK
<1>1. Init => TypeOK
  BY DEF Init, TypeOK, Phases, RetryBudget
<1>2. TypeOK /\ [Next]_vars => TypeOK'
  <2> SUFFICES ASSUME TypeOK, [Next]_vars PROVE TypeOK'
    OBVIOUS
  <2> USE TimesAssumption DEF Requests
  <2>1. CASE Send
    BY <2>1 DEF Send, TypeOK, Phases, Request, server
  <2>2. CASE Receive
    BY <2>2, NoneIsNoAnswer
       DEF Receive, AfterFirst, RetryNow, TooLateToRetry, AfterSecond, Finish,
           KeepSession, EndSession, TypeOK, Phases, Request, server, Answers, HasRetryLeft, RetryBudget
  <2>3. CASE TransportFailure
    <3>1. CASE pc = "first"
      <4>1. RetryNow \/ TooLateToRetry
        BY <2>3, <3>1, MissingIsNetwork DEF TransportFailure, AfterFirst
      <4>2. QED
        BY <2>3, <4>1 DEF TransportFailure, RetryNow, TooLateToRetry, EndSession, TypeOK,
             Phases, Request, server
    <3>2. CASE pc = "second"
      BY <2>3, <3>2, MissingIsNetwork
         DEF TransportFailure, AfterSecond, IsSettledRefreshResult, EndSession, TypeOK,
             Phases, server
    <3>3. QED BY <2>3, <3>1, <3>2 DEF TransportFailure
  <2>4. CASE Serve
    <3>1. PICK r \in wire :
            /\ wire' = wire \ {r}
            /\ Rotate(r) \/ HandBack(r) \/ Refuse(r) \/ DetectReuse(r)
            /\ UNCHANGED <<now, client>>
      BY <2>4 DEF Serve
    <3>2. r \in Requests
      BY DEF TypeOK
    <3>3. CASE Rotate(r)
      BY <3>1, <3>2, <3>3, StatusesAssumption
         DEF Rotate, Reply, Answer, Answers, TypeOK, client
    <3>4. CASE HandBack(r)
      BY <3>1, <3>2, <3>4, StatusesAssumption
         DEF HandBack, Reply, Answer, Answers, TypeOK, client, server
    <3>5. CASE Refuse(r)
      BY <3>1, <3>2, <3>5, StatusesAssumption
         DEF Refuse, Reply, Answer, Answers, TypeOK, client, server
    <3>6. CASE DetectReuse(r)
      BY <3>1, <3>2, <3>6 DEF DetectReuse, Reply, Answer, Answers, TypeOK, client
    <3>7. QED BY <3>1, <3>3, <3>4, <3>5, <3>6
  <2>5. CASE LoseRequest
    BY <2>5 DEF LoseRequest, TypeOK, client, server
  <2>6. CASE EndOnServer
    BY <2>6 DEF EndOnServer, TypeOK, client
  <2>7. CASE Tick
    BY <2>7 DEF Tick, TypeOK, client, server
  <2>8. CASE UNCHANGED vars
    BY <2>8 DEF vars, client, server, TypeOK
  <2>9. QED
    BY <2>1, <2>2, <2>3, <2>4, <2>5, <2>6, <2>7, <2>8 DEF Next
<1>3. QED
  BY <1>1, <1>2, PTL DEF Spec

-----------------------------------------------------------------------------
(* The inductive step, one lemma per action. *)

LEMMA SendStep == TypeOK /\ Exchange /\ Send => Exchange'
  BY TimesAssumption
     DEF Exchange, NoReuse, WireTimes, WireTokens, HeldInFlight, HeldAtRest, FirstAlone,
         AnswerMeans, TypeOK, Send, Request, InFlight, server

\* The retry, or giving it up, keeps the invariant: the second request is sent
\* by the deadline.
LEMMA RetryStep ==
  ASSUME TypeOK, Exchange, pc = "first",
         answer' = None, UNCHANGED <<now, current, rotatedAt, revoked>>,
         RetryNow \/ TooLateToRetry
  PROVE  Exchange'
<1>1. CASE RetryNow
  <2>1. /\ wire' = wire \cup {Request("second", held)}
        /\ pc' = "second" /\ UNCHANGED <<held, startedAt>>
        /\ startedAt <= now /\ now <= startedAt + Deadline
    BY <1>1, TimesAssumption DEF RetryNow, TypeOK, Exchange, WireTimes
  <2>2. WireTimes'
    BY <2>1, TimesAssumption DEF Request, Exchange, WireTimes, TypeOK
  <2>3. WireTokens' /\ HeldInFlight'
    BY <2>1 DEF Request, Exchange, WireTokens, HeldInFlight, InFlight
  <2>4. QED
    BY <2>1, <2>2, <2>3 DEF Exchange, NoReuse, HeldAtRest, FirstAlone, AnswerMeans
<1>2. CASE TooLateToRetry
  BY <1>2 DEF TooLateToRetry, EndSession, Exchange, NoReuse, WireTimes, WireTokens,
       HeldInFlight, HeldAtRest, FirstAlone, AnswerMeans, InFlight
<1>3. QED
  BY <1>1, <1>2

LEMMA ReceiveStep == TypeOK /\ Exchange /\ Receive => Exchange'
<1> SUFFICES ASSUME TypeOK, Exchange, Receive PROVE Exchange'
  OBVIOUS
<1> DEFINE class == RefreshResult(answer.status, answer.error, answer.readable)
<1>1. /\ answer \in Answers /\ answer # None /\ answer' = None
      /\ UNCHANGED <<now, current, rotatedAt, revoked>>
  BY DEF Receive, server, TypeOK
<1>2. class = "ok" => answer.token = current /\ held = current - 1
  BY <1>1 DEF RefreshResult, AnswerMeans, Exchange, NoResponse
<1>3. CASE pc = "first"
  <2>1. wire = {} /\ AfterFirst(answer.status, class, answer.token)
    BY <1>1, <1>3 DEF Receive, Exchange, FirstAlone
  <2>2. CASE RetryOnceTrigger(answer.status, class)
    BY <1>1, <1>3, <2>1, <2>2, RetryStep DEF AfterFirst
  <2>3. CASE ~RetryOnceTrigger(answer.status, class)
    <3>1. Finish(class, answer.token) /\ wire' = {}
      BY <2>1, <2>3 DEF AfterFirst
    <3>2. class \in {"network", "other"} => held = current
      <4>1. class \in {"network", "other"} => ~MayHaveRotated(answer.status)
        BY <1>1, <2>3 DEF RefreshResult, RetryOnceTrigger, MayHaveRotated, NoResponse,
             IsRefreshRetryOnceStatus, IsTransientStatus, Answers
      <4>2. QED BY <1>1, <1>3, <4>1 DEF Exchange, AnswerMeans
    <3>3. QED
      BY <1>1, <1>2, <1>3, <3>1, <3>2
         DEF Finish, KeepSession, EndSession, Exchange, NoReuse, WireTimes, WireTokens,
             HeldInFlight, HeldAtRest, FirstAlone, AnswerMeans, InFlight, TypeOK
  <2>4. QED BY <2>2, <2>3
<1>4. CASE pc = "second"
  <2>1. AfterSecond(class, answer.token)
    BY <1>4 DEF Receive
  <2>2. class = "ok" => \A r \in wire : r.token = current - 1
    BY <1>2, <1>4 DEF Exchange, HeldInFlight, InFlight
  <2>3. QED
    BY <1>1, <1>2, <1>4, <2>1, <2>2
       DEF AfterSecond, IsSettledRefreshResult, Finish, EndSession, KeepSession, Exchange,
           NoReuse, WireTimes, WireTokens, HeldInFlight, HeldAtRest, FirstAlone,
           AnswerMeans, InFlight, TypeOK
<1>5. QED
  BY <1>3, <1>4 DEF Receive

LEMMA TransportFailureStep == TypeOK /\ Exchange /\ TransportFailure => Exchange'
<1> SUFFICES ASSUME TypeOK, Exchange, TransportFailure PROVE Exchange'
  OBVIOUS
<1>1. /\ answer' = None
      /\ UNCHANGED <<now, current, rotatedAt, revoked>>
  BY DEF TransportFailure, server
<1>2. RefreshResult(NoResponse, "none", FALSE) = "network"
  BY MissingIsNetwork
<1>3. CASE pc = "first"
  BY <1>1, <1>2, <1>3, MissingIsNetwork, RetryStep DEF TransportFailure, AfterFirst
<1>4. CASE pc = "second"
  BY <1>1, <1>2, <1>4
     DEF TransportFailure, AfterSecond, IsSettledRefreshResult, EndSession, Exchange,
         NoReuse, WireTimes, WireTokens, HeldInFlight, HeldAtRest, FirstAlone, AnswerMeans,
         InFlight, TypeOK
<1>5. QED
  BY <1>3, <1>4 DEF TransportFailure, InFlight

\* The step where reuse could happen: a request is served within Trip of being
\* sent, so within Window of the rotation its refresh caused.
LEMMA ServeStep ==
  ASSUME WindowCoversRetry PROVE TypeOK /\ Exchange /\ Serve => Exchange'
<1> SUFFICES ASSUME TypeOK, Exchange, Serve PROVE Exchange'
  OBVIOUS
<1>1. PICK r \in wire :
        /\ wire' = wire \ {r}
        /\ Rotate(r) \/ HandBack(r) \/ Refuse(r) \/ DetectReuse(r)
        /\ UNCHANGED <<now, pc, held, startedAt, attempts>>
  BY DEF Serve, client
<1>2. r \in Requests
  BY DEF TypeOK
<1>3. r.token = current \/ (r.token = current - 1 /\ now - rotatedAt <= Window)
  BY <1>2, TimesAssumption
     DEF Exchange, WireTimes, WireTokens, WindowCoversRetry, Requests, TypeOK
<1>4. ~DetectReuse(r)
  BY <1>3 DEF DetectReuse
<1>5. NoReuse' /\ WireTimes'
  BY <1>1, <1>4 DEF Exchange, NoReuse, WireTimes, Rotate, HandBack, Refuse, server
<1>6. answer' # answer => pc = r.phase /\ InFlight
  BY <1>1, <1>2 DEF Rotate, HandBack, Refuse, DetectReuse, Reply, Requests, InFlight
<1>7. CASE Rotate(r)
  <2>1. ~(pc \in {"idle", "backoff"})
    BY <1>2, <1>7 DEF Rotate, Exchange, HeldAtRest, TypeOK, Requests
  <2>2. InFlight => held = current /\ \A q \in wire : q.token = current
    BY <1>2, <1>7 DEF Rotate, Exchange, HeldInFlight, TypeOK, Requests
  <2>3. startedAt <= now /\ current' = current + 1 /\ rotatedAt' = now
    BY <1>7 DEF Rotate, Exchange, WireTimes
  <2>4. WireTokens' /\ HeldInFlight' /\ HeldAtRest'
    <3>1. \A q \in wire' : q.token = current
      BY <1>1, <1>7 DEF Rotate, Exchange, WireTokens
    <3>2. QED
      BY <1>1, <2>1, <2>2, <2>3, <3>1
         DEF WireTokens, HeldInFlight, HeldAtRest, InFlight, TypeOK
  <2>5. FirstAlone' /\ AnswerMeans'
    BY <1>1, <1>2, <1>7, <2>2, <2>3
       DEF Exchange, Rotate, Reply, Answer, None, FirstAlone, AnswerMeans, InFlight,
           TypeOK, Requests
  <2>6. QED BY <1>5, <2>4, <2>5 DEF Exchange
<1>8. CASE HandBack(r) \/ Refuse(r)
  <2>1. UNCHANGED <<current, rotatedAt>>
    BY <1>8 DEF HandBack, Refuse, server
  <2>2. WireTokens' /\ HeldInFlight' /\ HeldAtRest'
    BY <1>1, <2>1 DEF Exchange, WireTokens, HeldInFlight, HeldAtRest, InFlight
  <2>3. FirstAlone' /\ AnswerMeans'
    <3>1. CASE HandBack(r)
      BY <1>1, <1>2, <2>1, <3>1
         DEF HandBack, Reply, Answer, None, Exchange, HeldInFlight, FirstAlone,
             AnswerMeans, InFlight, TypeOK, Requests
    <3>2. CASE Refuse(r)
      BY <1>1, <1>2, <2>1, <3>2
         DEF Refuse, Reply, Answer, None, Exchange, HeldInFlight, FirstAlone,
             AnswerMeans, InFlight, TypeOK, Requests
    <3>3. QED BY <1>8, <3>1, <3>2
  <2>4. QED BY <1>5, <2>2, <2>3 DEF Exchange
<1>9. QED
  BY <1>1, <1>4, <1>7, <1>8

LEMMA EnvironmentStep ==
  TypeOK /\ Exchange /\ (LoseRequest \/ EndOnServer \/ Tick) => Exchange'
<1> SUFFICES ASSUME TypeOK, Exchange PROVE LoseRequest \/ EndOnServer \/ Tick => Exchange'
  OBVIOUS
<1>1. LoseRequest => Exchange'
  BY DEF LoseRequest, client, server, Exchange, NoReuse, WireTimes, WireTokens,
         HeldInFlight, HeldAtRest, FirstAlone, AnswerMeans, InFlight
<1>2. EndOnServer => Exchange'
  BY DEF EndOnServer, client, Exchange, NoReuse, WireTimes, WireTokens,
         HeldInFlight, HeldAtRest, FirstAlone, AnswerMeans, InFlight
<1>3. Tick => Exchange'
  <2> SUFFICES ASSUME Tick PROVE Exchange'
    OBVIOUS
  <2>1. WireTimes'
    BY TimesAssumption DEF Tick, client, Exchange, WireTimes, TypeOK, Requests
  <2>2. QED
    BY <2>1 DEF Tick, client, server, Exchange, NoReuse, WireTokens,
           HeldInFlight, HeldAtRest, FirstAlone, AnswerMeans, InFlight
<1>4. QED BY <1>1, <1>2, <1>3

-----------------------------------------------------------------------------
LEMMA Inductive == ASSUME WindowCoversRetry PROVE Spec => []Exchange
<1>1. Init => Exchange
  BY TimesAssumption
     DEF Init, Exchange, NoReuse, WireTimes, WireTokens, HeldInFlight, HeldAtRest,
         FirstAlone, AnswerMeans, InFlight, None
<1>2. TypeOK /\ Exchange /\ [Next]_vars => Exchange'
  <2>1. TypeOK /\ Exchange /\ UNCHANGED vars => Exchange'
    BY DEF vars, client, server, Exchange, NoReuse, WireTimes, WireTokens, HeldInFlight,
           HeldAtRest, FirstAlone, AnswerMeans, InFlight
  <2>2. QED
    BY <2>1, SendStep, ReceiveStep, TransportFailureStep, ServeStep, EnvironmentStep DEF Next
<1>3. QED
  BY <1>1, <1>2, Typing, PTL DEF Spec

\* While the retry reaches the server within its window, no refresh presents a
\* rotated token after it, whatever is answered, lost or late: no refresh
\* revokes every session of the user (refreshWithOneImmediateRetry).
THEOREM NeverReuses == ASSUME WindowCoversRetry PROVE Spec => []NoReuse
<1>1. Exchange => NoReuse
  BY DEF Exchange
<1>2. QED
  BY <1>1, Inductive, PTL

\* A session the runtime keeps, idle or waiting to retry, holds the token the
\* server accepts (scheduleRetry re-presents a token that is still valid).
THEOREM KeptSessionsAreCurrent == ASSUME WindowCoversRetry PROVE Spec => []KeptTokenIsCurrent
<1>1. Exchange => KeptTokenIsCurrent
  BY DEF Exchange, HeldAtRest, KeptTokenIsCurrent
<1>2. QED
  BY <1>1, Inductive, PTL

(***************************************************************************)
(* SignInCard                                                              *)
(***************************************************************************)
Cards == [step : CardSteps, loading : BOOLEAN, attempts : 0..MaxWrong,
          told : SUBSET {"forgot", "reset"}]

\* A second factor is sent only by a form that is not locked.
MfaIsCounted == request = "mfa" => card.attempts < MaxWrong

CardInv == CardTypeOK /\ MfaIsCounted /\ CompleteHasSession

\* What the steps make of a card is a card.
LEMMA CardShapes ==
  ASSUME NEW c \in Cards
  PROVE  /\ Done(c) \in Cards /\ Challenged(c) \in Cards /\ ResetCard \in Cards
         /\ \A s \in CardSteps : [c EXCEPT !.step = s] \in Cards
         /\ [c EXCEPT !.attempts = 0] \in Cards
         /\ \A r \in {"forgot", "reset"} : [Done(c) EXCEPT !.told = @ \cup {r}] \in Cards
         /\ \A s \in CardSteps : [Done(c) EXCEPT !.step = s] \in Cards
<1>1. Done(c) \in Cards /\ Challenged(c) \in Cards /\ ResetCard \in Cards
  <2>1. Done(c) \in Cards
    BY DEF Cards, Done
  <2>2. Challenged(c) \in Cards
    <3>1. "mfa" \in CardSteps /\ 0 \in 0..MaxWrong
      BY CardAssumption DEF CardSteps
    <3> QED
      BY <3>1 DEF Cards, Challenged
  <2>3. ResetCard \in Cards
    BY CardAssumption DEF Cards, ResetCard, CardSteps
  <2> QED
    BY <2>1, <2>2, <2>3
<1>2. \A d \in Cards : \A s \in CardSteps : [d EXCEPT !.step = s] \in Cards
  BY DEF Cards
<1>3. [c EXCEPT !.attempts = 0] \in Cards
  BY CardAssumption DEF Cards
<1>4. \A d \in Cards : \A r \in {"forgot", "reset"} : [d EXCEPT !.told = @ \cup {r}] \in Cards
  BY DEF Cards
<1> QED
  BY <1>1, <1>2, <1>3, <1>4

\* The steps of the card change.
LEMMA CardParts ==
  ASSUME NEW c \in Cards
  PROVE  /\ Done(c).step = c.step /\ Done(c).attempts = c.attempts
         /\ Challenged(c).step = "mfa" /\ Challenged(c).attempts = 0
         /\ ResetCard.step = "idle" /\ ResetCard.attempts = 0
         /\ \A s \in CardSteps : [c EXCEPT !.step = s].step = s
                              /\ [c EXCEPT !.step = s].attempts = c.attempts
BY DEF Cards, Done, Challenged, ResetCard

\* The effect on the session leaves no complete card signed out, and counts no
\* wrong code.
LEMMA OnSessionShapes ==
  ASSUME NEW c \in Cards, NEW after \in {"out", "in"}
  PROVE  /\ OnSession(c, after) \in Cards
         /\ OnSession(c, after).attempts <= c.attempts
         /\ after = "out" /\ isSignedIn # "out" => OnSession(c, after).step # "complete"
         /\ after = "out" /\ isSignedIn = "out" => OnSession(c, after) = c
<1>1. "complete" \in CardSteps /\ c.attempts \in Nat
  BY DEF CardSteps, Cards
<1>2. OnSession(c, after) \in {ResetCard, [c EXCEPT !.step = "complete"], c}
  BY DEF OnSession
<1>3. OnSession(c, after) \in Cards /\ OnSession(c, after).attempts <= c.attempts
  <2>1. CASE OnSession(c, after) = ResetCard
    <3>1. ResetCard \in Cards /\ ResetCard.attempts = 0
      BY CardShapes, CardParts
    <3>2. 0 <= c.attempts
      BY <1>1
    <3> QED
      BY <2>1, <3>1, <3>2
  <2>2. CASE OnSession(c, after) = [c EXCEPT !.step = "complete"]
    <3>1. [c EXCEPT !.step = "complete"] \in Cards
      BY <1>1, CardShapes
    <3>2. [c EXCEPT !.step = "complete"].attempts = c.attempts
      BY <1>1, CardParts
    <3> QED
      BY <1>1, <2>2, <3>1, <3>2
  <2>3. CASE OnSession(c, after) = c
    BY <1>1, <2>3
  <2> QED
    BY <1>2, <2>1, <2>2, <2>3
<1>4. ASSUME after = "out", isSignedIn # "out" PROVE OnSession(c, after).step # "complete"
  BY <1>4, CardParts DEF OnSession
<1>5. ASSUME after = "out", isSignedIn = "out" PROVE OnSession(c, after) = c
  BY <1>5 DEF OnSession
<1> QED
  BY <1>3, <1>4, <1>5

\* The provider's new token changes nothing the card shows.
LEMMA TokensKeepCard ==
  ASSUME NEW pending, SetTokens(pending)
  PROVE  holding' \in BOOLEAN /\ UNCHANGED <<card, isSignedIn, ended>>
BY DEF SetTokens

\* completeSignIn leaves a card that is complete without a session only where
\* the sign-in made none, and counts no wrong code.
LEMMA CompletedShapes ==
  ASSUME CardTypeOK, NEW pending \in Pending, SignInCompleted(pending)
  PROVE  /\ card' \in Cards /\ card'.attempts <= card.attempts
         /\ holding' = holding
         /\ \/ UNCHANGED provider /\ card'.step = card.step
            \/ /\ isSignedIn' \in {"out", "in"} /\ ended' \in {"session"} \cup NoSession
               /\ isSignedIn' = "out" => ended' \in NoSession
<1>1. card \in Cards /\ "complete" \in CardSteps /\ card.attempts \in Nat
  BY DEF CardTypeOK, Cards, CardSteps
<1>2. ASSUME NEW after \in {"out", "in"},
             card' = Done([OnSession(card, after) EXCEPT !.step = "complete"])
      PROVE  card' \in Cards /\ card'.attempts <= card.attempts
  <2>1. OnSession(card, after) \in Cards /\ OnSession(card, after).attempts <= card.attempts
    BY <1>1, OnSessionShapes
  <2>2. /\ [OnSession(card, after) EXCEPT !.step = "complete"] \in Cards
        /\ [OnSession(card, after) EXCEPT !.step = "complete"].attempts
             = OnSession(card, after).attempts
    BY <1>1, <2>1, CardShapes, CardParts
  <2> QED
    BY <1>2, <2>1, <2>2, CardShapes, CardParts
<1>3. CASE card' = Done(card) /\ UNCHANGED provider
  <2>1. Done(card) \in Cards /\ Done(card).attempts = card.attempts /\ Done(card).step = card.step
    BY <1>1, CardShapes, CardParts
  <2> QED
    BY <1>1, <1>3, <2>1 DEF provider
<1>4. ASSUME NEW how \in Outcomes(pending), ended' = how,
             isSignedIn' = (IF how = "session" THEN "in" ELSE "out"),
             card' = Done([OnSession(card, isSignedIn') EXCEPT !.step = "complete"]),
             UNCHANGED holding
      PROVE  /\ card' \in Cards /\ card'.attempts <= card.attempts
             /\ isSignedIn' \in {"out", "in"} /\ ended' \in {"session"} \cup NoSession
             /\ isSignedIn' = "out" => ended' \in NoSession
  <2>1. how \in {"session"} \cup NoSession
    BY <1>4 DEF Outcomes, NoSession
  <2>2. isSignedIn' \in {"out", "in"} /\ (isSignedIn' = "out" => how # "session")
    BY <1>4
  <2> QED
    BY <1>2, <1>4, <2>1, <2>2
<1> QED
  BY <1>3, <1>4 DEF SignInCompleted

\* What the user does, and the timers.
LEMMA UserKeepsCard ==
  ASSUME CardInv,
         \/ \E r \in FormRequests : SubmitForm(r)
         \/ Back \/ ForgotPassword \/ SocialClick \/ ConfigLoads \/ ChallengeExpires \/ LockoutEnds
  PROVE  CardInv'
<1> USE DEF CardInv, MfaIsCounted, CompleteHasSession, provider
<1>0. card \in Cards /\ {"complete", "forgot", "social", "interstitial", "idle"} \subseteq CardSteps
  BY DEF CardTypeOK, Cards, CardSteps
<1>9. 0 < MaxWrong
  BY CardAssumption
<1>1. ASSUME NEW r \in FormRequests, SubmitForm(r) PROVE CardInv'
  <2>1. card' = [card EXCEPT !.loading = card.loading \/ r # "resend"]
    BY <1>1 DEF SubmitForm
  <2>2. card' \in Cards /\ card'.step = card.step /\ card'.attempts = card.attempts
    BY <1>0, <2>1 DEF Cards
  <2> QED
    BY <1>1, <2>2 DEF SubmitForm, CardTypeOK, Cards
<1>2. ASSUME card' = ResetCard, UNCHANGED <<config, request, link, lockout, provider>>,
             failed' \in BOOLEAN
      PROVE  CardInv'
  <2>1. card' \in Cards /\ card'.step = "idle" /\ card'.attempts = 0
    BY <1>0, <1>2, CardShapes, CardParts
  <2> QED
    BY <1>2, <2>1, <1>9 DEF CardTypeOK, Cards
<1>3. ASSUME NEW s \in {"forgot", "social", "interstitial"}, card' = [card EXCEPT !.step = s],
             config' \in BOOLEAN, UNCHANGED <<request, link, failed, lockout, provider>>
      PROVE  CardInv'
  <2>1. s \in CardSteps
    BY <1>0
  <2>2. card' \in Cards /\ card'.step = s /\ card'.attempts = card.attempts
    BY <1>0, <1>3, <2>1, CardShapes, CardParts
  <2> QED
    BY <1>3, <2>2 DEF CardTypeOK, Cards
<1>4. ASSUME Back PROVE CardInv'
  BY <1>2, <1>4 DEF Back, CardTypeOK
<1>5. ASSUME ForgotPassword \/ SocialClick PROVE CardInv'
  BY <1>3, <1>5 DEF ForgotPassword, SocialClick, CardTypeOK
<1>6. ASSUME ConfigLoads PROVE CardInv'
  BY <1>3, <1>6 DEF ConfigLoads, CardTypeOK
<1>7. ASSUME ChallengeExpires PROVE CardInv'
  BY <1>2, <1>7 DEF ChallengeExpires, CardTypeOK
<1>8. ASSUME LockoutEnds PROVE CardInv'
  <2>1. card' = [card EXCEPT !.attempts = 0]
    BY <1>8 DEF LockoutEnds
  <2>2. card' \in Cards /\ card'.step = card.step /\ card'.attempts = 0
    BY <1>0, <2>1, CardShapes DEF Cards
  <2> QED
    BY <1>8, <2>2, <1>9 DEF LockoutEnds, CardTypeOK, Cards
<1> QED
  BY <1>1, <1>4, <1>5, <1>6, <1>7, <1>8

\* The provider's token alone shows nothing.
LEMMA TokenKeepsCard == ASSUME CardInv, TokenChanges PROVE CardInv'
BY DEF CardInv, CardTypeOK, MfaIsCounted, CompleteHasSession, TokenChanges

\* The session, as others change it.
LEMMA SessionKeepsCard ==
  ASSUME CardInv, NEW after \in {"out", "in"}, SessionChanges(after)
  PROVE  CardInv'
<1>1. /\ card \in Cards /\ card' = OnSession(card, after)
      /\ UNCHANGED <<config, request, link, failed, lockout, ended>>
      /\ isSignedIn' = after /\ after # isSignedIn /\ holding' \in BOOLEAN
  BY DEF CardInv, CardTypeOK, Cards, SessionChanges
<1>2. card' \in Cards /\ card'.attempts <= card.attempts
  BY <1>1, OnSessionShapes
<1>3. after = "out" => card'.step # "complete"
  BY <1>1, OnSessionShapes
<1>4. CardTypeOK'
  BY <1>1, <1>2 DEF CardInv, CardTypeOK, Cards
<1>5. card.attempts \in Nat /\ card'.attempts \in Nat /\ MaxWrong \in Nat
  BY <1>1, <1>2, CardAssumption DEF Cards
<1>6. MfaIsCounted'
  BY <1>1, <1>2, <1>5 DEF CardInv, MfaIsCounted
<1> QED
  BY <1>1, <1>3, <1>4, <1>6 DEF CardInv, CompleteHasSession

\* The answers: each ends its request, so that what it counts locks nothing
\* that is still under way.
LEMMA AnswerKeepsCard ==
  ASSUME CardInv, FormAnswered \/ LinkAnswered \/ LinkAborted
  PROVE  CardInv'
<1>0. /\ card \in Cards /\ card.attempts \in Nat /\ MaxWrong \in Nat /\ 0 < MaxWrong
      /\ {"link_sent", "otp_sent", "complete", "mfa"} \subseteq CardSteps
  BY CardAssumption DEF CardInv, CardTypeOK, Cards, CardSteps
<1> DEFINE Typed(c) == /\ c \in Cards /\ request' \in FormRequests \cup Pending \cup {"none"}
                       /\ link' \in {"none", "verifying", "aborted", "done"} \cup Pending
                       /\ {config', failed', lockout'} \subseteq BOOLEAN
           Counted == request' = "mfa" => request = "mfa" /\ card'.attempts <= card.attempts
\* A sign-in that is complete, the tokens of one that are set, and a card that
\* is not completed by this step.
<1>1. ASSUME NEW pending \in Pending, SignInCompleted(pending), Typed(card),
             request' = "mfa" => request = "mfa"
      PROVE  CardInv'
  <2>1. /\ card' \in Cards /\ card'.attempts <= card.attempts /\ holding' = holding
        /\ \/ UNCHANGED provider /\ card'.step = card.step
           \/ /\ isSignedIn' \in {"out", "in"} /\ ended' \in {"session"} \cup NoSession
              /\ isSignedIn' = "out" => ended' \in NoSession
    BY <1>1, CompletedShapes DEF CardInv
  <2>2. card'.attempts \in Nat
    BY <2>1 DEF Cards
  <2>3. CardTypeOK'
    BY <1>1, <2>1 DEF CardInv, CardTypeOK, Cards, provider
  <2>4. MfaIsCounted'
    BY <1>0, <1>1, <2>1, <2>2 DEF CardInv, MfaIsCounted
  <2>5. CompleteHasSession'
    BY <2>1 DEF CardInv, CompleteHasSession, provider
  <2> QED
    BY <2>3, <2>4, <2>5 DEF CardInv
<1>9. ASSUME NEW pending, SetTokens(pending), Typed(card), request' = "mfa" => request = "mfa"
      PROVE  CardInv'
  BY <1>9, TokensKeepCard DEF CardInv, CardTypeOK, Cards, MfaIsCounted, CompleteHasSession
<1>2. ASSUME Typed(card'), Counted, card'.step = "complete" => card.step = "complete",
             UNCHANGED provider
      PROVE  CardInv'
  <2>1. card'.attempts \in Nat
    BY <1>2 DEF Cards
  <2> QED
    BY <1>0, <1>2, <2>1 DEF CardInv, CardTypeOK, Cards, MfaIsCounted, CompleteHasSession, provider
<1>3. ASSUME NEW c, c \in {Challenged(card), Done(card), card}
      PROVE  c \in Cards /\ c.attempts <= card.attempts
               /\ (c.step = "complete" => card.step = "complete")
  <2>1. c \in Cards
    BY <1>0, <1>3, CardShapes
  <2>2. CASE c = Challenged(card)
    <3>1. c.attempts = 0 /\ c.step = "mfa"
      BY <1>0, <2>2, CardParts
    <3> QED
      BY <1>0, <2>1, <3>1
  <2>3. CASE c = Done(card)
    <3>1. c.attempts = card.attempts /\ c.step = card.step
      BY <1>0, <2>3, CardParts
    <3> QED
      BY <1>0, <2>1, <3>1
  <2> QED
    BY <1>0, <1>3, <2>1, <2>2, <2>3
<1>4. ASSUME PasswordAnswered PROVE CardInv'
  <2>0. UNCHANGED <<config, link, lockout>>
    BY <1>4 DEF PasswordAnswered
  <2>1. CASE request' \in Pending /\ SetTokens(request') /\ UNCHANGED failed
    BY <1>0, <1>9, <2>0, <2>1 DEF CardInv, CardTypeOK, Pending
  <2>2. CASE /\ request' = "none" /\ card' \in {Challenged(card), Done(card)}
             /\ UNCHANGED <<failed, provider>>
    BY <1>2, <1>3, <2>0, <2>2 DEF CardInv, CardTypeOK
  <2>3. CASE /\ request' = "none"
             /\ card' = Done([card EXCEPT !.step = "complete"]) /\ ended' = "setup"
             /\ UNCHANGED <<failed, isSignedIn, holding>>
    <3>1. [card EXCEPT !.step = "complete"] \in Cards
      BY <1>0, CardShapes
    <3>2. card' \in Cards
      BY <2>3, <3>1, CardShapes
    <3> QED
      BY <2>0, <2>3, <3>2
         DEF CardInv, CardTypeOK, Cards, MfaIsCounted, CompleteHasSession, NoSession
  <2>4. CASE /\ request' = "none" /\ isSignedIn' = "out" /\ card' = Done(OnSession(card, "out"))
             /\ failed' = TRUE /\ UNCHANGED <<holding, ended>>
    <3>1. OnSession(card, "out") \in Cards
      BY <1>0, OnSessionShapes
    <3>2. card' \in Cards /\ card'.step = OnSession(card, "out").step
      BY <2>4, <3>1, CardShapes, CardParts
    <3>3. card'.step = "complete" => isSignedIn = "out" /\ card.step = "complete"
      BY <1>0, <3>2, OnSessionShapes
    <3> QED
      BY <2>0, <2>4, <3>2, <3>3 DEF CardInv, CardTypeOK, Cards, MfaIsCounted, CompleteHasSession
  <2> QED
    BY <1>4, <2>1, <2>2, <2>3, <2>4 DEF PasswordAnswered
<1>5. ASSUME MfaAnswered PROVE CardInv'
  <2>0. request = "mfa" /\ UNCHANGED <<config, link, failed>>
    BY <1>5 DEF MfaAnswered
  <2>1. CASE request' \in Pending /\ SetTokens(request') /\ UNCHANGED lockout
    BY <1>0, <1>9, <2>0, <2>1 DEF CardInv, CardTypeOK
  <2>2. CASE /\ request' = "none" /\ card' \in {Done(card), Done([card EXCEPT !.attempts = @ + 1])}
             /\ Locking(card') /\ UNCHANGED provider
    <3>1. lockout' \in BOOLEAN
      BY <2>2 DEF Locking, CardInv, CardTypeOK
    <3>2. card.attempts < MaxWrong
      BY <2>0 DEF CardInv, MfaIsCounted
    <3>3. [card EXCEPT !.attempts = @ + 1] \in Cards /\ [card EXCEPT !.attempts = @ + 1].step = card.step
      BY <1>0, <3>2 DEF Cards
    <3>4. card' \in Cards /\ card'.step = card.step
      <4>1. \A c \in Cards : Done(c) \in Cards /\ Done(c).step = c.step
        BY CardShapes, CardParts
      <4>2. PICK c \in {card, [card EXCEPT !.attempts = @ + 1]} : card' = Done(c)
        BY <2>2
      <4>3. c \in Cards /\ c.step = card.step
        BY <1>0, <3>3, <4>2
      <4> QED
        BY <4>1, <4>2, <4>3
    <3> QED
      BY <1>2, <2>0, <2>2, <3>1, <3>4 DEF CardInv, CardTypeOK
  <2> QED
    BY <1>5, <2>1, <2>2 DEF MfaAnswered
<1>6. ASSUME OtpAnswered \/ FormStored \/ LinkAnswered PROVE CardInv'
  <2>0. /\ request' # "mfa" \/ request' = request
        /\ request' \in FormRequests \cup Pending \cup {"none"}
        /\ link' \in {"none", "verifying", "aborted", "done"} \cup Pending
        /\ UNCHANGED <<config, failed, lockout>>
    BY <1>6 DEF OtpAnswered, FormStored, LinkAnswered, CardInv, CardTypeOK, Pending
  <2>1. ASSUME NEW pending \in Pending, SignInCompleted(pending) PROVE CardInv'
    BY <1>0, <1>1, <2>0, <2>1 DEF CardInv, CardTypeOK
  <2>2. CASE card' \in {Challenged(card), Done(card)} /\ UNCHANGED provider
    BY <1>2, <1>3, <2>0, <2>2 DEF CardInv, CardTypeOK
  <2>3. ASSUME NEW pending \in Pending, SetTokens(pending) PROVE CardInv'
    BY <1>0, <1>9, <2>0, <2>3 DEF CardInv, CardTypeOK
  <2> QED
    BY <1>6, <2>1, <2>2, <2>3 DEF OtpAnswered, FormStored, LinkAnswered
<1>7. ASSUME SendAnswered PROVE CardInv'
  <2>1. card' \in Cards /\ (card'.step = "complete" => card.step = "complete")
    <3>1. CASE card' = Done(card)
      BY <1>3, <3>1
    <3>2. CASE request \in {"forgot", "reset"} /\ card' = [Done(card) EXCEPT !.told = @ \cup {request}]
      <4>1. card' \in Cards
        BY <1>0, <3>2, CardShapes
      <4>2. card'.step = Done(card).step
        BY <1>0, <3>2, CardShapes DEF Cards
      <4> QED
        BY <1>0, <4>1, <4>2, CardParts
    <3>3. ASSUME NEW t \in {"link_sent", "otp_sent"}, card' = [Done(card) EXCEPT !.step = t]
          PROVE  card' \in Cards /\ card'.step = t
      <4>1. Done(card) \in Cards /\ t \in CardSteps
        BY <1>0, CardShapes
      <4> QED
        BY <3>3, <4>1, CardShapes, CardParts
    <3> QED
      BY <1>7, <3>1, <3>2, <3>3 DEF SendAnswered
  <2> QED
    BY <1>2, <1>7, <2>1 DEF SendAnswered, CardInv, CardTypeOK
<1>8. ASSUME ResendAnswered \/ LinkAborted PROVE CardInv'
  BY <1>2, <1>3, <1>8 DEF ResendAnswered, LinkAborted, CardInv, CardTypeOK
<1> QED
  BY <1>4, <1>5, <1>6, <1>7, <1>8 DEF FormAnswered

LEMMA CardStep == CardInv /\ [CardNext]_cardVars => CardInv'
<1>1. CardInv /\ CardNext => CardInv'
  BY UserKeepsCard, TokenKeepsCard, SessionKeepsCard, AnswerKeepsCard DEF CardNext
<1>2. CardInv /\ UNCHANGED cardVars => CardInv'
  BY DEF CardInv, CardTypeOK, MfaIsCounted, CompleteHasSession, cardVars
<1> QED
  BY <1>1, <1>2

LEMMA CardStarts == CardInit => CardInv
<1> SUFFICES ASSUME CardInit PROVE CardInv
  OBVIOUS
<1>1. PICK opened \in {"plain", "link", "reset"}, twice \in BOOLEAN :
        /\ link = IF opened # "link" THEN "none" ELSE IF twice THEN "aborted" ELSE "verifying"
        /\ card = [step |-> IF opened = "reset" THEN "reset" ELSE "idle",
                   loading |-> opened = "link", attempts |-> 0, told |-> {}]
        /\ isSignedIn \in {"loading", "out"} /\ holding = FALSE /\ config = FALSE
        /\ request = "none" /\ failed = FALSE /\ lockout = FALSE /\ ended = "not"
  BY DEF CardInit
<1>2. card.step \in {"reset", "idle"}
  BY <1>1
<1>3. card \in Cards
  <2>1. 0 \in 0..MaxWrong /\ {"reset", "idle"} \subseteq CardSteps /\ (opened = "link") \in BOOLEAN
    BY CardAssumption DEF CardSteps
  <2> QED
    BY <1>1, <2>1 DEF Cards
<1> QED
  BY <1>1, <1>2, <1>3 DEF CardInv, CardTypeOK, Cards, MfaIsCounted, CompleteHasSession

LEMMA CardStays == CardSpec => []CardInv
BY CardStarts, CardStep, PTL DEF CardSpec

\* A complete card, which shows nothing, has a session, in every order of answers,
\* timers and sign-outs of other tabs and for any number of wrong codes before the
\* form locks, unless its sign-in ended without one: with a second factor to set
\* up, with another user's token, with a token that lacks the claims of a session,
\* or with a token that went while the storage had not answered.
THEOREM CompleteCardsHaveSessions == CardSpec => []CompleteHasSession
<1>1. CardInv => CompleteHasSession
  BY DEF CardInv
<1> QED
  BY <1>1, CardStays, PTL

(***************************************************************************)
(* RedirectSignIn                                                          *)
(***************************************************************************)
Addresses == [kind : {"plain", "code", "error", "long"}, code : 0..MaxCodes, state : 0..MaxTries]
Presentations == [code : Nat, verifier : Nat]

Exchanges == [step : ExchangeSteps, code : Nat, verifier : Nat]
TabTyped == RedirectTypeOK /\ exchange \in Exchanges

RedirectTyped ==
  /\ TabTyped
  /\ codes \in Seq(Tries) /\ Len(codes) <= MaxCodes
  /\ presented \in Seq(Presentations)

\* A state is kept with the verifier of its attempt, and dropped before it or
\* with it.
StateHasVerifier == session.state # Nothing => session.verifier = session.state

\* The callback the page's address holds was not handled yet: its code is known,
\* goes by the state of the attempt it was given for and was never sent.
Unsent(c) == \A i \in 1..Len(presented) : presented[i].code # c
AddressIsNew ==
  address.kind = "code" =>
    /\ address.code \in 1..Len(codes) /\ codes[address.code] = address.state
    /\ address.state \in Tries /\ Unsent(address.code)

\* What was sent are codes the server gave.
SentAreKnown == \A i \in 1..Len(presented) : presented[i].code \in 1..Len(codes)

RedirectInv ==
  /\ RedirectTyped /\ StateHasVerifier /\ AddressIsNew /\ SentAreKnown
  /\ CodesAreExchangedOnce

\* Steps that give no code, send none and leave the callback of the page.
Quietly == UNCHANGED <<codes, presented>>
LEMMA QuietStep ==
  ASSUME RedirectInv, TabTyped', StateHasVerifier', Quietly,
         address' = address \/ (address' \in Addresses /\ address'.kind # "code")
  PROVE  RedirectInv'
BY DEF RedirectInv, RedirectTyped, Quietly, AddressIsNew, Unsent, SentAreKnown,
     CodesAreExchangedOnce

LEMMA PlainIsAnAddress ==
  /\ Plain \in Addresses /\ Plain.kind = "plain"
  /\ \A k \in {"error", "long"} :
       [Plain EXCEPT !.kind = k] \in Addresses /\ [Plain EXCEPT !.kind = k].kind = k
BY RedirectAssumption DEF Plain, Addresses, Nothing

\* The attempts that are under way are gone, the others are idle.
LEMMA AttemptsGone ==
  [t \in Tries |-> IF attempt[t] = "idle" THEN "idle" ELSE "gone"] \in [Tries -> AttemptSteps]
BY DEF AttemptSteps

LEMMA PageLoadsType ==
  ASSUME TabTyped, NEW parameters \in Addresses, PageLoads(parameters)
  PROVE  TabTyped' /\ address' = parameters /\ session' = session
<1>1. attempt' \in [Tries -> AttemptSteps]
  BY AttemptsGone DEF PageLoads
<1>2. effect' \in 0..2 /\ 0 \in 0..MaxTries
  BY RedirectAssumption DEF PageLoads
<1> QED
  BY <1>1, <1>2
     DEF PageLoads, TabTyped, RedirectTypeOK, Exchanges, Addresses, ExchangeSteps, Nothing

\* The attempts, and what takes the page elsewhere.
LEMMA AttemptKeepsRedirect ==
  ASSUME RedirectInv,
         \/ \E t \in Tries : \/ StartAttempt(t) \/ LeaveForEndpoint(t)
                             \/ \E social \in BOOLEAN : KeepVerifier(t, social)
         \/ Leave \/ VisitAgain \/ SignedOutElsewhere
  PROVE  RedirectInv'
<1> USE DEF Nothing
<1>0. /\ TabTyped /\ StateHasVerifier /\ Tries \subseteq 0..MaxTries /\ 0 \in 0..MaxTries
      /\ 0 \notin Tries /\ {"pkce", "endpoint", "gone"} \subseteq AttemptSteps
      /\ "none" \in ExchangeSteps /\ 0 \in 0..2
  BY RedirectAssumption DEF RedirectInv, RedirectTyped, Tries, AttemptSteps, ExchangeSteps
<1>1. ASSUME NEW t \in Tries, StartAttempt(t) PROVE RedirectInv'
  <2>1. TabTyped' /\ StateHasVerifier'
    BY <1>0, <1>1 DEF StartAttempt, Browsing, TabTyped, RedirectTypeOK, Exchanges, StateHasVerifier
  <2> QED
    BY <1>1, <2>1, QuietStep DEF StartAttempt, Browsing, Quietly
<1>2. ASSUME NEW t \in Tries, NEW social \in BOOLEAN, KeepVerifier(t, social) PROVE RedirectInv'
  <2>1. session' \in [verifier : 0..MaxTries, state : 0..MaxTries] /\ StateHasVerifier'
    BY <1>0, <1>2 DEF KeepVerifier, StateHasVerifier
  <2>2. TabTyped'
    BY <1>0, <1>2, <2>1 DEF KeepVerifier, Browsing, TabTyped, RedirectTypeOK, Exchanges
  <2> QED
    BY <1>2, <2>1, <2>2, QuietStep DEF KeepVerifier, Browsing, Quietly
<1>3. ASSUME NEW t \in Tries, LeaveForEndpoint(t) PROVE RedirectInv'
  <2>1. TabTyped' /\ StateHasVerifier'
    BY <1>0, <1>3
       DEF LeaveForEndpoint, Browsing, TabTyped, RedirectTypeOK, Exchanges, StateHasVerifier
  <2> QED
    BY <1>3, <2>1, QuietStep DEF LeaveForEndpoint, Browsing, Quietly
<1>4. ASSUME Leave PROVE RedirectInv'
  <2>1. going \in Tries
    BY <1>0, <1>4 DEF Leave, TabTyped, RedirectTypeOK, Exchanges, Tries
  <2>2. TabTyped' /\ StateHasVerifier'
    BY <1>0, <1>4, <2>1, AttemptsGone
       DEF Leave, TabTyped, RedirectTypeOK, Exchanges, StateHasVerifier
  <2> QED
    BY <1>4, <2>2, QuietStep DEF Leave, Quietly
<1>5. ASSUME VisitAgain PROVE RedirectInv'
  <2>1. TabTyped' /\ StateHasVerifier'
    BY <1>0, <1>5, AttemptsGone
       DEF VisitAgain, TabTyped, RedirectTypeOK, Exchanges, StateHasVerifier
  <2> QED
    BY <1>5, <2>1, QuietStep DEF VisitAgain, Quietly
<1>6. ASSUME SignedOutElsewhere PROVE RedirectInv'
  <2>1. session' \in [verifier : 0..MaxTries, state : 0..MaxTries] /\ StateHasVerifier'
    BY <1>0, <1>6 DEF SignedOutElsewhere, TabTyped, RedirectTypeOK, Exchanges, StateHasVerifier
  <2>2. TabTyped'
    BY <1>0, <1>6, <2>1 DEF SignedOutElsewhere, Browsing, TabTyped, RedirectTypeOK, Exchanges
  <2> QED
    BY <1>6, <2>1, <2>2, QuietStep DEF SignedOutElsewhere, Browsing, Quietly
<1> QED
  BY <1>1, <1>2, <1>3, <1>4, <1>5, <1>6

\* The pages the browser loads; one of them has the callback with a new code.
LEMMA LoadingKeepsRedirect ==
  ASSUME RedirectInv, Authorize \/ Decline \/ AnswerAtLength \/ GoBack \/ ReloadPage
  PROVE  RedirectInv'
<1>0. TabTyped /\ StateHasVerifier /\ address \in Addresses
  BY DEF RedirectInv, RedirectTyped, TabTyped, RedirectTypeOK, Exchanges, Addresses
<1>1. ASSUME NEW parameters \in Addresses, PageLoads(parameters), Quietly,
             parameters.kind # "code" \/ parameters = address
      PROVE  RedirectInv'
  <2>1. TabTyped' /\ address' = parameters /\ session' = session
    BY <1>0, <1>1, PageLoadsType
  <2> QED
    BY <1>0, <1>1, <2>1, QuietStep DEF StateHasVerifier
<1>2. ASSUME Authorize PROVE RedirectInv'
  <2> DEFINE callback == [kind |-> "code", code |-> Len(codes) + 1, state |-> shown]
  <2>1. /\ shown \in Tries /\ Len(codes) < MaxCodes /\ codes' = Append(codes, shown)
        /\ PageLoads(callback) /\ presented' = presented
    BY <1>2 DEF Authorize
  <2>2. codes \in Seq(Tries) /\ Len(codes) \in Nat /\ MaxCodes \in Nat
    BY RedirectAssumption DEF RedirectInv, RedirectTyped
  <2>3. /\ codes' \in Seq(Tries) /\ Len(codes') = Len(codes) + 1
        /\ \A i \in 1..Len(codes) : codes'[i] = codes[i]
        /\ codes'[Len(codes) + 1] = shown
    BY <2>1, <2>2
  <2>4. callback \in Addresses
    BY <2>1, <2>2, RedirectAssumption DEF Addresses, Tries
  <2>5. TabTyped' /\ address' = callback /\ session' = session
    BY <1>0, <2>1, <2>4, PageLoadsType
  <2>6. \A i \in 1..Len(presented) : presented[i].code \in 1..Len(codes)
    BY DEF RedirectInv, SentAreKnown
  <2>7. RedirectTyped' /\ StateHasVerifier'
    BY <1>0, <2>1, <2>2, <2>3, <2>5 DEF RedirectInv, RedirectTyped, StateHasVerifier
  <2>8. AddressIsNew' /\ SentAreKnown'
    BY <2>1, <2>2, <2>3, <2>5, <2>6 DEF AddressIsNew, Unsent, SentAreKnown
  <2>9. CodesAreExchangedOnce'
    BY <2>1, <2>2, <2>3, <2>6 DEF RedirectInv, CodesAreExchangedOnce
  <2> QED
    BY <2>7, <2>8, <2>9 DEF RedirectInv
<1>3. ASSUME Decline \/ AnswerAtLength \/ GoBack \/ ReloadPage PROVE RedirectInv'
  BY <1>0, <1>1, <1>3, PlainIsAnAddress DEF Decline, AnswerAtLength, GoBack, ReloadPage, Quietly
<1> QED
  BY <1>2, <1>3

\* The mount effect: of its ways only the callback's sends a code, and the page
\* forgets that code, its state and its verifier in the same step.
LEMMA MountKeepsRedirect ==
  ASSUME RedirectInv, MountEffect
  PROVE  RedirectInv'
<1> USE DEF Nothing
<1>0. /\ TabTyped /\ StateHasVerifier /\ Tries \subseteq 0..MaxTries /\ 0 \in 0..MaxTries
      /\ 0 \notin Tries /\ {"ignored", "sent", "done"} \subseteq ExchangeSteps
      /\ address \in Addresses
  BY RedirectAssumption
     DEF RedirectInv, RedirectTyped, TabTyped, RedirectTypeOK, Exchanges, Tries, ExchangeSteps, Addresses
<1>1. effect' \in 0..2 /\ UNCHANGED <<browser, attempt, going, visited, shown, pages, codes>>
  BY <1>0 DEF MountEffect, Outside, TabTyped, RedirectTypeOK, Exchanges
<1>2. CASE MountPlain
  <2>1. TabTyped' /\ StateHasVerifier'
    BY <1>0, <1>1, <1>2 DEF MountPlain, TabTyped, RedirectTypeOK, Exchanges, StateHasVerifier
  <2> QED
    BY <1>1, <1>2, <2>1, QuietStep DEF MountPlain, Quietly
<1>3. CASE MountLong \/ MountError \/ MountMismatch
  <2>1. /\ address' = Plain /\ presented' = presented
        /\ session' = session \/ session' = [session EXCEPT !.state = 0]
    BY <1>0, <1>3 DEF MountLong, MountError, MountMismatch
  <2>2. exchange' \in Exchanges
    <3>1. MountLong => exchange' = [exchange EXCEPT !.step = "ignored"]
      BY DEF MountLong
    <3>2. MountMismatch => exchange' = [exchange EXCEPT !.step = "done"]
      BY DEF MountMismatch
    <3>3. MountError => exchange' = exchange
      BY DEF MountError
    <3> QED
      BY <1>0, <1>3, <3>1, <3>2, <3>3 DEF TabTyped, RedirectTypeOK, Exchanges
  <2>3. session' \in [verifier : 0..MaxTries, state : 0..MaxTries] /\ StateHasVerifier'
    BY <1>0, <2>1 DEF TabTyped, RedirectTypeOK, Exchanges, StateHasVerifier
  <2>4. auth' \in {"loading", "out", "in"} /\ {restoring', token'} \subseteq BOOLEAN
    BY <1>0, <1>3 DEF MountLong, MountError, MountMismatch, TabTyped, RedirectTypeOK, Exchanges
  <2>5. TabTyped'
    BY <1>0, <1>1, <2>1, <2>2, <2>3, <2>4, PlainIsAnAddress
       DEF TabTyped, RedirectTypeOK, Exchanges, Addresses
  <2> QED
    BY <1>1, <2>1, <2>3, <2>5, QuietStep, PlainIsAnAddress DEF Quietly
<1>4. CASE MountCallback
  <2>1. /\ address.kind = "code" /\ session.state = address.state
        /\ address' = Plain /\ session' = [verifier |-> 0, state |-> 0]
        /\ UNCHANGED <<restoring, token>>
    BY <1>4 DEF MountCallback
  <2>2. /\ address.code \in 1..Len(codes) /\ codes[address.code] = address.state
        /\ address.state \in Tries /\ Unsent(address.code)
    BY <2>1 DEF RedirectInv, AddressIsNew
  <2>3. session.verifier = address.state
    BY <1>0, <2>1, <2>2 DEF StateHasVerifier
  <2> DEFINE sent == [code |-> address.code, verifier |-> session.verifier]
  <2>4. /\ exchange' = [step |-> "sent", code |-> address.code, verifier |-> session.verifier]
        /\ presented' = Append(presented, sent) /\ auth' = auth
    BY <1>0, <1>4, <2>2, <2>3 DEF MountCallback
  <2>5. TabTyped' /\ StateHasVerifier'
    BY <1>0, <1>1, <2>1, <2>4, PlainIsAnAddress
       DEF TabTyped, RedirectTypeOK, Exchanges, StateHasVerifier, Addresses
  <2>6. /\ presented \in Seq(Presentations) /\ Len(presented) \in Nat /\ codes \in Seq(Tries)
        /\ Len(codes) \in Nat
    BY DEF RedirectInv, RedirectTyped
  <2>7. sent \in Presentations
    BY <1>0, <2>2, <2>3, <2>6 DEF Presentations, Tries
  <2>8. /\ presented' \in Seq(Presentations) /\ Len(presented') = Len(presented) + 1
        /\ \A i \in 1..Len(presented) : presented'[i] = presented[i]
        /\ presented'[Len(presented) + 1] = sent
    BY <2>4, <2>6, <2>7
  <2>9. RedirectTyped'
    BY <1>1, <2>5, <2>8 DEF RedirectInv, RedirectTyped
  <2>10. AddressIsNew'
    BY <2>1, PlainIsAnAddress DEF AddressIsNew
  <2>11. SentAreKnown'
    BY <1>1, <2>2, <2>6, <2>8 DEF RedirectInv, SentAreKnown
  <2>12. CodesAreExchangedOnce'
    <3> SUFFICES ASSUME NEW i \in 1..(Len(presented) + 1)
                 PROVE  /\ codes[presented'[i].code] = presented'[i].verifier
                        /\ \A j \in 1..(i - 1) : presented'[j].code # presented'[i].code
      BY <1>1, <2>8 DEF CodesAreExchangedOnce
    <3>1. CASE i \in 1..Len(presented)
      <4>1. /\ codes[presented[i].code] = presented[i].verifier
            /\ \A j \in 1..(i - 1) : presented[j].code # presented[i].code
        BY <3>1 DEF RedirectInv, CodesAreExchangedOnce
      <4>2. \A j \in 1..(i - 1) : j \in 1..Len(presented)
        BY <2>6, <3>1
      <4> QED
        BY <2>8, <3>1, <4>1, <4>2
    <3>2. CASE i = Len(presented) + 1
      BY <2>2, <2>3, <2>6, <2>8, <3>2 DEF Unsent
    <3> QED
      BY <2>6, <3>1, <3>2
  <2> QED
    BY <2>5, <2>9, <2>10, <2>11, <2>12 DEF RedirectInv
<1> QED
  BY <1>2, <1>3, <1>4 DEF MountEffect

LEMMA AnswerKeepsRedirect ==
  ASSUME RedirectInv, ExchangeAnswered \/ RestoreAnswered
  PROVE  RedirectInv'
<1>0. TabTyped /\ StateHasVerifier /\ "done" \in ExchangeSteps
  BY DEF RedirectInv, RedirectTyped, ExchangeSteps
<1>1. ASSUME ExchangeAnswered PROVE RedirectInv'
  <2>1. exchange' = [exchange EXCEPT !.step = "done"] /\ exchange.step = "sent"
    BY <1>1 DEF ExchangeAnswered
  <2>2. exchange' \in Exchanges
    BY <1>0, <2>1 DEF TabTyped, RedirectTypeOK, Exchanges, ExchangeSteps
  <2>3. token' \in BOOLEAN /\ auth' \in {"out", "in"}
    BY <1>0, <1>1 DEF ExchangeAnswered, SessionTaken, TabTyped, RedirectTypeOK, Exchanges
  <2>4. TabTyped' /\ StateHasVerifier'
    BY <1>0, <1>1, <2>2, <2>3
       DEF ExchangeAnswered, Browsing, TabTyped, RedirectTypeOK, Exchanges, StateHasVerifier
  <2> QED
    BY <1>1, <2>4, QuietStep DEF ExchangeAnswered, Browsing, Quietly
<1>2. ASSUME RestoreAnswered PROVE RedirectInv'
  <2>1. token' \in BOOLEAN /\ auth' \in {"out", "in"}
    BY <1>0, <1>2 DEF RestoreAnswered, SessionTaken, TabTyped, RedirectTypeOK, Exchanges
  <2>2. TabTyped' /\ StateHasVerifier'
    BY <1>0, <1>2, <2>1
       DEF RestoreAnswered, Browsing, TabTyped, RedirectTypeOK, Exchanges, StateHasVerifier
  <2> QED
    BY <1>2, <2>2, QuietStep DEF RestoreAnswered, Browsing, Quietly
<1> QED
  BY <1>1, <1>2

LEMMA RedirectStep == RedirectInv /\ [RedirectNext]_redirectVars => RedirectInv'
<1>1. RedirectInv /\ RedirectNext => RedirectInv'
  BY AttemptKeepsRedirect, LoadingKeepsRedirect, MountKeepsRedirect, AnswerKeepsRedirect
     DEF RedirectNext
<1>2. RedirectInv /\ UNCHANGED redirectVars => RedirectInv'
  <2> SUFFICES ASSUME RedirectInv, UNCHANGED redirectVars PROVE RedirectInv'
    OBVIOUS
  <2>1. TabTyped' /\ StateHasVerifier'
    BY
       DEF redirectVars, tabVars, RedirectInv, RedirectTyped, TabTyped, RedirectTypeOK,
           Exchanges, StateHasVerifier
  <2> QED
    BY <2>1, QuietStep DEF redirectVars, tabVars, Quietly
<1> QED
  BY <1>1, <1>2

LEMMA RedirectStarts == RedirectInit => RedirectInv
<1> SUFFICES ASSUME RedirectInit PROVE RedirectInv
  OBVIOUS
<1> USE DEF Nothing
<1>1. 0 \in 0..MaxTries /\ attempt \in [Tries -> AttemptSteps] /\ effect \in 0..2
  BY RedirectAssumption DEF RedirectInit, AttemptSteps
<1>2. TabTyped
  BY <1>1, PlainIsAnAddress
     DEF RedirectInit, TabTyped, RedirectTypeOK, Exchanges, Addresses, ExchangeSteps
<1>3. Len(codes) = 0 /\ Len(presented) = 0 /\ codes \in Seq(Tries) /\ presented \in Seq(Presentations)
  BY DEF RedirectInit
<1> QED
  BY <1>1, <1>2, <1>3, RedirectAssumption, PlainIsAnAddress
     DEF RedirectInit, RedirectInv, RedirectTyped, StateHasVerifier, AddressIsNew, SentAreKnown,
         CodesAreExchangedOnce

LEMMA RedirectStays == RedirectSpec => []RedirectInv
BY RedirectStarts, RedirectStep, PTL DEF RedirectSpec

\* No code is exchanged twice, nor with the verifier of another attempt, for any
\* number of attempts under way, codes and page loads: the mount effect, which
\* React may run twice, takes state and verifier and drops the callback from
\* the address before it sends the code.
THEOREM CodesGoOnce == RedirectSpec => []CodesAreExchangedOnce
<1>1. RedirectInv => CodesAreExchangedOnce
  BY DEF RedirectInv
<1> QED
  BY <1>1, RedirectStays, PTL

(***************************************************************************)
(* The parts side by side                                                  *)
(***************************************************************************)
\* A step of one part is a step or a stutter of each.
LEMMA PartsTakeTurns ==
  [WebNext]_webVars =>
    [Next]_vars /\ [RedirectNext]_redirectVars /\ [CardNext]_cardVars
BY Zenon DEF WebNext, RefreshPart, RedirectPart, CardPart, webVars

LEMMA WebHasParts ==
  WebSpec => /\ Spec
             /\ RedirectInit /\ [][RedirectNext]_redirectVars
             /\ CardInit /\ [][CardNext]_cardVars
<1>1. WebInit => Init /\ RedirectInit /\ CardInit
  BY DEF WebInit
<1> QED
  BY <1>1, PartsTakeTurns, PTL DEF WebSpec, Spec

\* Whatever part runs, every variable of the three keeps its type; that of the
\* card says more: a form that locks counts no code after it has locked.
THEOREM WebTyping == WebSpec => []WebTypeOK
<1>1. TypeOK /\ RedirectInv /\ CardInv => WebTypeOK
  BY DEF WebTypeOK, RedirectInv, RedirectTyped, TabTyped, CardInv
<1>2. WebSpec => []TypeOK
  BY WebHasParts, Typing
<1>3. WebSpec => []RedirectInv
  BY WebHasParts, RedirectStarts, RedirectStep, PTL
<1>4. WebSpec => []CardInv
  BY WebHasParts, CardStarts, CardStep, PTL
<1> QED
  BY <1>1, <1>2, <1>3, <1>4, PTL

=============================================================================

