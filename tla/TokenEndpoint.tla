--------------------------- MODULE TokenEndpoint ---------------------------
(***************************************************************************)
(* How the SDKs read the answer to a refresh request (POST /oauth/token    *)
(* with grant_type=refresh_token): packages/sdk-core/src/oauth.            *)
(*                                                                         *)
(* An answer is an HTTP status, an OAuth error code and whether a 2xx body *)
(* can be read.  The body's other contents are abstracted.                 *)
(***************************************************************************)
EXTENDS Integers

\* The "status" of a request no response arrived for.
NoResponse == 0

\* An error code outside the definitive ones stands for every other code, and
\* "none" for a body without an error.
DefinitiveOAuthErrors ==
  {"invalid_grant", "invalid_client", "invalid_token",
   "unauthorized_client", "access_denied"}

IsTransientStatus(status) == status >= 500 \/ status \in {408, 429}

IsDefinitiveRefreshRejection(status, oauthError) ==
  /\ status \in 400..499
  /\ ~IsTransientStatus(status)
  /\ oauthError \in DefinitiveOAuthErrors \/ status = 401

IsRefreshRetryOnceStatus(status) ==
  status \in 500..599 /\ status \notin {503} \cup 521..523

\* The classes of a refresh result: "ok" carries tokens, "revoked" and
\* "network" are REFRESH_FAILED with that reason, "other" is any other error.
ResultClasses == {"ok", "revoked", "network", "other"}

\* Mutant: an unreadable 2xx is taken for a network failure.
RefreshResultUnreadableKept(status, oauthError, readable) ==
  CASE status = NoResponse -> "network"
    [] status \in 200..299 -> IF readable THEN "ok" ELSE "network"
    [] status \notin 200..299 /\ IsTransientStatus(status) -> "network"
    [] IsDefinitiveRefreshRejection(status, oauthError) -> "revoked"
    [] OTHER -> "other"

\* refreshAccessToken: the class of an answer.  A 2xx the SDK cannot read is
\* terminal, because the server has rotated the token it was sent.
RefreshResult(status, oauthError, readable) ==
  CASE status = NoResponse -> "network"
    [] status \in 200..299 -> IF readable THEN "ok" ELSE "revoked"
    [] status \notin 200..299 /\ IsTransientStatus(status) -> "network"
    [] IsDefinitiveRefreshRejection(status, oauthError) -> "revoked"
    [] OTHER -> "other"

\* refreshRetryOnceTriggerOf: a failure after which the server may have
\* rotated the token, so that the refresh is sent once more at once.
RetryOnceTrigger(status, class) ==
  /\ class = "network"
  /\ status = NoResponse \/ IsRefreshRetryOnceStatus(status)

IsSettledRefreshResult(class) == class \in {"ok", "revoked"}

\* refreshRetryDelayMs has one entry per retry; the delays themselves are
\* abstracted (a retry happens at some later time).
RetryBudget == 3
HasRetryLeft(attempt) == attempt < RetryBudget

=============================================================================
