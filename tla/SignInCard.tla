----------------------------- MODULE SignInCard -----------------------------
(***************************************************************************)
(* The <SignIn/> component of packages/react: what the card shows, the one *)
(* request its forms may have under way, the verification of a magic link  *)
(* the page was opened with, and the session of the provider, which other  *)
(* tabs and the restoring change while the card waits.                     *)
(*                                                                         *)
(* React runs the effect on the session before any other event, so it is   *)
(* part of the step that changes the session.  Names, addresses, codes and *)
(* messages are left out, and of the countdowns only that they end.        *)
(***************************************************************************)
EXTENDS Naturals

CONSTANT MaxWrong  \* wrong codes before the form of the second factor locks

ASSUME CardAssumption == MaxWrong \in Nat \ {0}

VARIABLES
  card,      \* the reducer's state: step, loading, attempts, told (of its requests)
  config,    \* the tenant's configuration has arrived
  request,   \* what the form has under way ("none": submitting is false); with
             \* the tokens it waits for the provider's storage
  link,      \* the verification of the page's magic link
  failed,    \* a password was refused: the way to a new one is shown
  lockout,   \* the timer that forgets the wrong codes runs
  isSignedIn, \* the provider shows: "loading", "out" or "in"
  holding,   \* the provider holds an access token
  ended      \* how the sign-in ended that the card last completed

cardVars == <<card, config, request, link, failed, lockout, isSignedIn, holding, ended>>
provider == <<isSignedIn, holding, ended>>

CardSteps ==
  {"idle", "mfa", "link_sent", "otp_sent", "forgot", "reset", "interstitial", "social", "complete"}
FormRequests == {"password", "send_link", "send_otp", "mfa", "otp", "forgot", "reset", "resend"}
\* completeSignIn waits for the storage to take the new tokens, or to drop them.
Pending == {"storing", "clearing"}
\* The form each step shows.
FormOf == [s \in CardSteps |->
  IF s = "idle" THEN {"password", "send_link", "send_otp"}
  ELSE IF s = "link_sent" THEN {"resend"} ELSE IF s = "otp_sent" THEN {"otp"}
  ELSE {s} \cap {"mfa", "forgot", "reset"}]

\* A page opened plainly, with a magic link or with a link for a new password;
\* React may run the effect twice, and the first run's clean-up aborts.
CardInit ==
  \E opened \in {"plain", "link", "reset"}, twice \in BOOLEAN :
    /\ link = IF opened # "link" THEN "none" ELSE IF twice THEN "aborted" ELSE "verifying"
    /\ card = [step |-> IF opened = "reset" THEN "reset" ELSE "idle",
               loading |-> opened = "link", attempts |-> 0, told |-> {}]
    /\ isSignedIn \in {"loading", "out"} /\ holding = FALSE /\ config = FALSE
    /\ request = "none" /\ failed = FALSE /\ lockout = FALSE /\ ended = "not"

ResetCard == [step |-> "idle", loading |-> FALSE, attempts |-> 0, told |-> {}]
\* Mutant: a request that fails leaves the card loading.
StillLoading(c) == c
Done(c) == [c EXCEPT !.loading = FALSE]
Challenged(c) == [c EXCEPT !.step = "mfa", !.loading = FALSE, !.attempts = 0]

\* Mutant: a completed card is left alone.
OnSessionOfOpen(c, now) ==
  IF now = "out" /\ isSignedIn # "out" /\ c.step \notin {"idle", "complete"} THEN ResetCard
  ELSE IF now = "in" /\ isSignedIn # "in" /\ c.step \notin {"idle", "complete"} /\ ~c.loading
  THEN [c EXCEPT !.step = "complete"]
  ELSE c
\* The effect on the session, for a session that becomes now.
OnSession(c, now) ==
  IF now = "out" /\ isSignedIn # "out" /\ c.step # "idle" THEN ResetCard
  ELSE IF now = "in" /\ isSignedIn # "in" /\ c.step \notin {"idle", "complete"} /\ ~c.loading
  THEN [c EXCEPT !.step = "complete"]
  ELSE c

Locking(c) == lockout' = (lockout \/ (c.attempts >= MaxWrong /\ card.attempts < MaxWrong))

-----------------------------------------------------------------------------
(* What the user does with a card that is shown. *)

Shown == isSignedIn = "out" /\ config

\* Mutant: the form of the second factor does not lock.
SubmitUnlocked(r) ==
  /\ Shown /\ request = "none" /\ r \in FormOf[card.step]
  /\ r # "resend" => ~card.loading
  /\ r \notin card.told
  /\ request' = r
  /\ card' = [card EXCEPT !.loading = card.loading \/ r # "resend"]
  /\ UNCHANGED <<config, link, failed, lockout, provider>>
SubmitForm(r) ==
  /\ Shown /\ request = "none" /\ r \in FormOf[card.step]
  /\ r # "resend" => ~card.loading
  /\ r = "mfa" => card.attempts < MaxWrong
  /\ r \notin card.told
  /\ request' = r
  /\ card' = [card EXCEPT !.loading = card.loading \/ r # "resend"]
  /\ UNCHANGED <<config, link, failed, lockout, provider>>
Back ==
  /\ Shown /\ card.step \in {"mfa", "link_sent", "otp_sent", "forgot", "reset", "interstitial"}
  /\ card' = ResetCard
  /\ failed' = (failed /\ card.step = "interstitial")
  /\ UNCHANGED <<config, request, link, lockout, provider>>
ForgotPassword ==
  /\ Shown /\ card.step = "idle" /\ failed
  /\ card' = [card EXCEPT !.step = "forgot"]
  /\ UNCHANGED <<config, request, link, failed, lockout, provider>>
\* The interstitial clicks by itself when its countdown ends, shown or not.
SocialClick ==
  /\ card.step = "interstitial" \/ (Shown /\ card.step = "idle" /\ ~card.loading)
  /\ card' = [card EXCEPT !.step = "social"]
  /\ UNCHANGED <<config, request, link, failed, lockout, provider>>

-----------------------------------------------------------------------------
(* Timers, and the configuration. *)

\* A method to begin with puts its interstitial over whatever is shown.
ConfigLoads ==
  /\ ~config /\ config' = TRUE
  /\ card' \in {card, [card EXCEPT !.step = "interstitial"]}
  /\ UNCHANGED <<request, link, failed, lockout, provider>>

ChallengeExpires ==
  /\ card.step = "mfa" /\ card' = ResetCard
  /\ UNCHANGED <<config, request, link, failed, lockout, provider>>
LockoutEnds ==
  /\ lockout /\ lockout' = FALSE /\ card' = [card EXCEPT !.attempts = 0]
  /\ UNCHANGED <<config, request, link, failed, provider>>

-----------------------------------------------------------------------------
(* The session, as other tabs, the restoring and the timers leave it. *)

SessionChanges(now) ==
  /\ now # isSignedIn /\ isSignedIn' = now /\ card' = OnSession(card, now)
  /\ holding' \in IF now = "in" THEN {TRUE} ELSE {FALSE, holding}
  /\ UNCHANGED <<config, request, link, failed, lockout, ended>>

\* The provider's token comes or goes before its storage has answered; the
\* session follows then.
TokenChanges ==
  /\ holding' = ~holding
  /\ UNCHANGED <<card, config, request, link, failed, lockout, isSignedIn, ended>>

\* completeSignIn: the provider has the new token at once; one of another user
\* than its own makes it drop both.
SetTokens(pending) ==
  /\ \/ pending = "storing" /\ holding' = TRUE
     \/ pending = "clearing" /\ holding /\ holding' = FALSE
  /\ UNCHANGED <<card, isSignedIn, ended>>

\* What becomes of the sign-in: a token without the claims of a session makes
\* none, and one that went meanwhile makes none either.
Outcomes(pending) ==
  IF pending = "clearing" THEN {"other"}
  ELSE IF holding THEN {"session", "unclaimed"} ELSE {"signedOut"}

\* The storage has answered, and the session follows.  The card is complete
\* whatever it has become, unless the storage refused.
SignInCompleted(pending) ==
  \/ \E how \in Outcomes(pending) :
       /\ ended' = how /\ isSignedIn' = (IF how = "session" THEN "in" ELSE "out")
       /\ card' = Done([OnSession(card, isSignedIn') EXCEPT !.step = "complete"])
       /\ UNCHANGED holding
  \/ card' = Done(card) /\ UNCHANGED provider
-----------------------------------------------------------------------------
(* Answers: at once, late, or none within the time-out of the request. *)

PasswordAnswered ==
  /\ request = "password"
  /\ \/ request' \in Pending /\ SetTokens(request') /\ UNCHANGED failed
     \/ /\ request' = "none" /\ card' \in {Challenged(card), Done(card)}
        /\ UNCHANGED <<failed, provider>>
     \* A second factor has to be set up: complete, without a session.
     \/ /\ request' = "none" /\ card' = Done([card EXCEPT !.step = "complete"]) /\ ended' = "setup"
        /\ UNCHANGED <<failed, isSignedIn, holding>>
     \* The error is the provider's too: nobody is signed in.
     \/ /\ request' = "none" /\ isSignedIn' = "out" /\ card' = Done(OnSession(card, "out"))
        /\ failed' = TRUE /\ UNCHANGED <<holding, ended>>
  /\ UNCHANGED <<config, link, lockout>>

MfaAnswered ==
  /\ request = "mfa"
  /\ \/ request' \in Pending /\ SetTokens(request') /\ UNCHANGED lockout
     \/ /\ request' = "none" /\ card' \in {Done(card), Done([card EXCEPT !.attempts = @ + 1])}
        /\ Locking(card') /\ UNCHANGED provider
  /\ UNCHANGED <<config, link, failed>>

OtpAnswered ==
  /\ request = "otp"
  /\ \/ request' \in Pending /\ SetTokens(request')
     \/ request' = "none" /\ card' \in {Challenged(card), Done(card)} /\ UNCHANGED provider
  /\ UNCHANGED <<config, link, failed, lockout>>

\* The tokens of a form are in the storage, or are not taken.
FormStored ==
  /\ request \in Pending /\ request' = "none" /\ SignInCompleted(request)
  /\ UNCHANGED <<config, link, failed, lockout>>

\* What was asked for is on its way, or not.
SendAnswered ==
  /\ request \in {"send_link", "send_otp", "forgot", "reset"} /\ request' = "none"
  /\ \/ card' = Done(card)
     \/ request \in {"forgot", "reset"} /\ card' = [Done(card) EXCEPT !.told = @ \cup {request}]
     \/ request = "send_link" /\ card' = [Done(card) EXCEPT !.step = "link_sent"]
     \/ request = "send_otp" /\ card' = [Done(card) EXCEPT !.step = "otp_sent"]
  /\ UNCHANGED <<config, link, failed, lockout, provider>>
ResendAnswered ==
  /\ request = "resend" /\ request' = "none" /\ card' \in {card, Done(card)}
  /\ UNCHANGED <<config, link, failed, lockout, provider>>

FormAnswered ==
  \/ PasswordAnswered \/ MfaAnswered \/ OtpAnswered \/ SendAnswered \/ ResendAnswered
  \/ FormStored

LinkAnswered ==
  /\ \/ link = "verifying" /\ link' \in Pending /\ SetTokens(link')
     \/ /\ link = "verifying" /\ link' = "done"
        /\ card' \in {Challenged(card), Done(card)} /\ UNCHANGED provider
     \/ link \in Pending /\ link' = "done" /\ SignInCompleted(link)
  /\ UNCHANGED <<config, request, failed, lockout>>
\* Ten seconds have passed: nothing is told to the card.
LinkAborted ==
  /\ link = "verifying" /\ link' = "aborted"
  /\ UNCHANGED <<config, card, request, failed, lockout, provider>>

CardNext ==
  \/ \E r \in FormRequests : SubmitForm(r)
  \/ \E now \in {"out", "in"} : SessionChanges(now)
  \/ TokenChanges \/ Back \/ ConfigLoads \/ ForgotPassword \/ SocialClick \/ ChallengeExpires \/ LockoutEnds
  \/ FormAnswered \/ LinkAnswered \/ LinkAborted

\* A request is answered or times out, and so is the storage; nothing is
\* assumed of the user.
CardFairness == WF_cardVars(FormAnswered) /\ WF_cardVars(LinkAnswered \/ LinkAborted)

CardSpec == CardInit /\ [][CardNext]_cardVars /\ CardFairness

-----------------------------------------------------------------------------
\* The ends of a sign-in that leave no session.
NoSession == {"setup", "other", "unclaimed", "signedOut"}

\* Every variable has the type its code counterpart has.
CardTypeOK ==
  /\ card \in [step : CardSteps, loading : BOOLEAN, attempts : 0..MaxWrong,
              told : SUBSET {"forgot", "reset"}]
  /\ request \in FormRequests \cup Pending \cup {"none"}
  /\ link \in {"none", "verifying", "aborted", "done"} \cup Pending
  /\ {config, failed, lockout, holding} \subseteq BOOLEAN
  /\ isSignedIn \in {"loading", "out", "in"}
  /\ ended \in {"not", "session"} \cup NoSession

\* A card that is complete shows nothing, so it is complete only with a
\* session: whatever tab signs out before the answer, after it or after the
\* card was completed, in every order.  The exceptions are the sign-ins that
\* complete the card without one: a second factor is still to be set up, the
\* provider had another user, the token has not the claims of a session, or
\* the token went while the storage had not answered.
CompleteHasSession ==
  card.step = "complete" /\ isSignedIn = "out" => ended \in NoSession

\* The card does not show "loading" for ever, with the user going back and
\* forth, a challenge that expires and a session that comes and goes, unless
\* the page's magic link was given up on.
CardIsNeverStuck == card.loading ~> (~card.loading \/ link = "aborted")
=============================================================================
