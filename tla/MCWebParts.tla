----------------------------- MODULE MCWebParts -----------------------------
(***************************************************************************)
(* Three parts of the web SDK, one per behaviour: a runtime's refresh with *)
(* its retries, the sign-in by redirect, and the <SignIn/> card.  A part   *)
(* sees of the others only that a session comes or goes.  The parts that a *)
(* behaviour does not run stay in their initial state.                     *)
(***************************************************************************)
EXTENDS RefreshExchange, RedirectSignIn, SignInCard

VARIABLE part  \* the part that runs

MCBrowsers == [twice : BOOLEAN, shared : BOOLEAN]

WebTypeOK == TypeOK /\ RedirectTypeOK /\ CardTypeOK

WebInit ==
  /\ part \in {"refresh", "redirect", "card"}
  /\ Init /\ RedirectInit /\ CardInit
  /\ part # "redirect" => ~token /\ browser = CHOOSE b \in Browsers : TRUE
  /\ part # "card" => link = "none" /\ card.step = "idle" /\ isSignedIn = "out"

RefreshPart == part = "refresh" /\ UNCHANGED <<redirectVars, cardVars, part>>
RedirectPart == part = "redirect" /\ UNCHANGED <<vars, cardVars, part>>
CardPart == part = "card" /\ UNCHANGED <<vars, redirectVars, part>>

WebNext ==
  \/ RefreshPart /\ Next
  \/ RedirectPart /\ RedirectNext
  \/ CardPart /\ CardNext

webVars == <<vars, redirectVars, cardVars, part>>

\* The fairness of each module, for the part that runs: one that does not run
\* stays where its first step is enabled for ever.
WebSpec ==
  /\ WebInit /\ [][WebNext]_webVars
  /\ WF_webVars(RefreshPart /\ TransportFailure)
  /\ WF_webVars(RedirectPart /\ MountEffect)
  /\ WF_webVars(RedirectPart /\ ExchangeAnswered)
  /\ WF_webVars(RedirectPart /\ RestoreAnswered)
  /\ WF_webVars(CardPart /\ FormAnswered)
  /\ WF_webVars(CardPart /\ (LinkAnswered \/ LinkAborted))

-----------------------------------------------------------------------------
\* What loads ends, whatever the user and the session do meanwhile: a provider
\* shows a user or none when a callback, a refusal or a plain address opened
\* its page, and the card's forms are enabled again.
ScreensSettle ==
  /\ part = "redirect" => ProviderLoads
  /\ part = "card" => CardIsNeverStuck
=============================================================================
