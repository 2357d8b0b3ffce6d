---------------------------- MODULE DevicePolling ----------------------------
(* A client waits for somebody to approve its request on another device: the   *)
(* SDK's device flow (sdk/src/device.ts), the CLI's (cli/src/oauth-device.ts)  *)
(* and CIBA (sdk/src/ciba.ts).  All three poll the token endpoint, slow down   *)
(* when told to, and differ in what they do about lost and failed answers, in  *)
(* who gives up and when, and in whether the caller can cancel.  Time counts   *)
(* in steps of slow_down's five seconds.                                       *)
EXTENDS Integers

CONSTANTS
  Polls,           \* the flows explored: records [flow, interval, expires]
  MaxInterval,     \* MAX_POLL_INTERVAL_MS and CIBA's maxInterval
  MaxTransient,    \* MAX_CONSECUTIVE_TRANSIENT_POLLS
  MaxIterations,   \* AWAIT_MAX_ITERATIONS
  MaxClock         \* bound on the clock

PollingAssumption ==
  /\ MaxInterval \in Nat \ {0} /\ MaxTransient \in Nat /\ MaxIterations \in Nat
  /\ MaxClock \in Nat
  /\ \A poll \in Polls :
       /\ poll.flow \in {"sdk", "cli", "ciba"}
       /\ poll.interval \in Nat \ {0} /\ poll.expires \in 1 .. MaxClock
ASSUME PollingAssumption

VARIABLES
  poll,       \* the flow
  clock,
  stage,      \* where the client is
  interval,   \* intervalMs / interval
  failures,   \* transientFailures
  iteration,  \* i of awaitDeviceTokens
  wait,       \* transientWaitMs ?? intervalMs: how long to sleep next
  wakeAt,     \* when the sleep ends
  answer,     \* what the endpoint answered the poll that is under way
  grant,      \* the request at the server
  aborted,    \* the caller's AbortSignal
  asked       \* history: the interval the server has asked for so far

pollingVars == <<poll, clock, stage, interval, failures, iteration, wait, wakeAt, answer,
                 grant, aborted, asked>>

AtMost(n, bound) == IF n <= bound THEN n ELSE bound
AtLeast(n, bound) == IF n >= bound THEN n ELSE bound

PollingTypeOK ==
  /\ poll \in Polls /\ clock \in 0 .. MaxClock
  /\ stage \in {"start", "next", "sleep", "poll", "tokens", "failed"}
  /\ interval \in Nat \ {0}
  /\ failures \in 0 .. MaxTransient /\ iteration \in 0 .. MaxIterations
  /\ wait \in Nat /\ wakeAt \in 0 .. MaxClock
  /\ answer \in {"none", "pending", "slow_down", "tokens", "refused"}
  /\ grant \in {"pending", "approved", "denied", "expired", "spent"}
  /\ (stage = "tokens") => grant = "spent"
  /\ aborted \in BOOLEAN /\ asked \in Nat

-------------------------------------------------------------------------------
(* The server and the person *)

Decide ==
  /\ grant = "pending" /\ stage \notin {"start", "tokens", "failed"}
  /\ grant' \in {"approved", "denied"}
  /\ UNCHANGED <<poll, clock, stage, interval, failures, iteration, wait, wakeAt, answer,
                 aborted, asked>>

Tick ==
  /\ stage # "start" /\ clock < MaxClock
  /\ clock' = clock + 1
  /\ grant' = IF grant \in {"pending", "approved"} /\ clock' >= poll.expires
              THEN "expired" ELSE grant
  /\ UNCHANGED <<poll, stage, interval, failures, iteration, wait, wakeAt, answer, aborted,
                 asked>>

(* The token endpoint handles a poll: tokens are minted once.                  *)
ServePoll ==
  /\ stage = "poll" /\ answer = "none"
  /\ CASE grant = "pending" -> answer' \in {"pending", "slow_down"} /\ grant' = grant
       [] grant = "approved" -> answer' = "tokens" /\ grant' = "spent"
       [] OTHER -> answer' = "refused" /\ grant' = grant
  /\ UNCHANGED <<poll, clock, stage, interval, failures, iteration, wait, wakeAt, aborted,
                 asked>>

-------------------------------------------------------------------------------
(* The client *)

Ends(result) ==
  /\ stage' = result
  /\ UNCHANGED <<interval, failures, iteration, wait, wakeAt, asked>>

(* The device code is asked for; the SDK then runs the application's onCode,   *)
(* which may throw.  CIBA polls at once, the device flows wait first.          *)
Start ==
  /\ stage = "start"
  /\ stage' \in {IF poll.flow = "ciba" THEN "poll" ELSE "next", "failed"}
  /\ UNCHANGED <<poll, clock, interval, failures, iteration, wait, wakeAt, answer,
                 grant, aborted, asked>>

Abort ==
  /\ poll.flow # "cli" /\ ~ aborted
  /\ aborted' = TRUE
  /\ UNCHANGED <<poll, clock, stage, interval, failures, iteration, wait, wakeAt,
                 answer, grant, asked>>

(* The top of the device flows' loops: cancelled, out of time or out of        *)
(* iterations, or another sleep.  CIBA sleeps, and has neither limit.          *)
OutOfTime ==
  \/ poll.flow # "ciba" /\ clock >= poll.expires
  \/ poll.flow = "sdk" /\ (aborted \/ iteration = MaxIterations)

NextRound ==
  /\ stage = "next"
  /\ \/ OutOfTime /\ Ends("failed")
     \/ /\ ~ OutOfTime
        /\ stage' = "sleep"
        /\ wakeAt' = AtMost(clock + wait, MaxClock)
        /\ iteration' = IF poll.flow = "sdk" THEN iteration + 1 ELSE iteration
        /\ UNCHANGED <<interval, failures, wait, asked>>
  /\ UNCHANGED <<poll, clock, answer, grant, aborted>>

(* The sleep ends by itself or because the caller cancels.                     *)
Wake ==
  /\ stage = "sleep" /\ (clock >= wakeAt \/ aborted)
  /\ Ends(IF aborted THEN "failed" ELSE "poll")
  /\ UNCHANGED <<poll, clock, answer, grant, aborted>>

(* Retry-After taken as it is.                                                 *)
BackoffAsTold(retryAfter) ==
  AtMost(IF retryAfter > 0 THEN retryAfter ELSE interval * 2 ^ (failures + 1), MaxInterval)

(* A failed or lost answer: the CLI and CIBA give up, the SDK waits twice as   *)
(* long as last time, or the server's Retry-After if that is longer.           *)
Backoff(retryAfter) ==
  AtMost(AtLeast(interval * 2 ^ (failures + 1), retryAfter), MaxInterval)

\* The count compared before it is raised.
TransientOneMore ==
  IF poll.flow # "sdk" \/ failures > MaxTransient \/ aborted THEN Ends("failed")
  ELSE /\ failures' = failures + 1
       /\ \E retryAfter \in {0, 1} : wait' = Backoff(retryAfter)
       /\ stage' = "next"
       /\ UNCHANGED <<interval, iteration, wakeAt, asked>>

Transient ==
  IF poll.flow # "sdk" \/ failures = MaxTransient \/ aborted THEN Ends("failed")
  ELSE /\ failures' = failures + 1
       /\ \E retryAfter \in {0, 1} : wait' = Backoff(retryAfter)
       /\ stage' = "next"
       /\ UNCHANGED <<interval, iteration, wakeAt, asked>>

(* pending keeps the interval, slow_down adds five seconds to it: up to the    *)
(* SDK's maximum, without one in the CLI.                                      *)
Slowed == IF poll.flow = "cli" THEN interval + 1 ELSE AtMost(interval + 1, MaxInterval)

NotYet ==
  LET next == IF answer = "slow_down" THEN Slowed ELSE interval
  IN /\ stage' = "next"
     /\ interval' = next /\ wait' = next
     /\ failures' = 0
     /\ asked' = IF answer = "slow_down" THEN AtMost(asked + 1, MaxInterval) ELSE asked
     /\ UNCHANGED <<iteration, wakeAt>>

(* Denied, expired, spent or an error the client does not know: the end.       *)
RefusedIsPending == NotYet
Refused == Ends("failed")

Receive ==
  /\ stage = "poll"
  /\ \/ answer = "tokens" /\ Ends("tokens")
     \/ answer = "refused" /\ Refused
     \/ answer \in {"pending", "slow_down"} /\ NotYet
     \/ Transient
  /\ answer' = "none"
  /\ UNCHANGED <<poll, clock, grant, aborted>>

-------------------------------------------------------------------------------
PollingInit ==
  /\ poll \in Polls /\ clock = 0 /\ stage = "start"
  /\ interval = poll.interval /\ wait = interval /\ asked = interval
  /\ failures = 0 /\ iteration = 0 /\ wakeAt = 0 /\ answer = "none"
  /\ grant = "pending" /\ aborted = FALSE

PollingNext ==
  \/ Decide \/ Tick \/ ServePoll \/ Start \/ Abort \/ NextRound \/ Wake \/ Receive

(* Time passes, the server answers or the request fails (the SDK's fetch has   *)
(* no timeout of its own, the CLI's has one), and the client's loop goes on.   *)
PollingFairness ==
  /\ WF_pollingVars(Tick) /\ WF_pollingVars(Receive)
  /\ WF_pollingVars(NextRound \/ Wake)

PollingSpec == PollingInit /\ [][PollingNext]_pollingVars /\ PollingFairness

-------------------------------------------------------------------------------
(* A client never sleeps for less than the interval the server has asked for   *)
(* by then (the issued one and five seconds for each slow_down, up to the      *)
(* SDK's maximum), whatever failed in between.                                 *)
NeverFasterThanAsked ==
  [][stage = "next" /\ stage' = "sleep" =>
       \/ wakeAt' - clock >= asked \/ wakeAt' = MaxClock]_pollingVars

(* A flow that has begun ends with tokens or a failure, also when nobody ever *)
(* decides and whatever the answers are: the device flows because of their     *)
(* deadline, CIBA because the server ends the request.                         *)
PollingEnds ==
  (stage \notin {"start", "tokens", "failed"}) ~> (stage \in {"tokens", "failed"})
=============================================================================
