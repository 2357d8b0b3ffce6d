--------------------------- MODULE RedirectSignIn ---------------------------
(***************************************************************************)
(* The sign-in of packages/react that leaves the page, in one tab: signIn  *)
(* in redirect mode and the social buttons of <SignIn/>, which keep a PKCE *)
(* verifier and a state in sessionStorage and go to the authorization      *)
(* server, and the mount effect of RakomiProvider, which reads the         *)
(* callback from the page's address, exchanges its code or restores.       *)
(*                                                                         *)
(* A verifier, a state and an authorization request go by the attempt they *)
(* are of.  The server gives a new code each time it is visited.  The      *)
(* redirect address is configured; where the user wanted to return to is   *)
(* left out, and a page the browser thaws counts as one it loads.          *)
(***************************************************************************)
EXTENDS Naturals, Sequences

CONSTANTS
  MaxTries,  \* bound on the attempts
  MaxCodes,  \* bound on the codes the server gives
  MaxPages,  \* bound on the loads of the page
  Browsers   \* [twice, shared]: React runs an effect twice; others use the storage

ASSUME RedirectAssumption == MaxTries \in Nat \ {0} /\ MaxCodes \in Nat /\ MaxPages \in Nat

VARIABLES
  browser,    \* the browser looked at
  attempt,    \* every attempt's step on this page
  session,    \* sessionStorage: whose verifier and whose state
  going,      \* the attempt whose address the page is leaving for
  visited,    \* the attempts whose address is in the tab's history
  shown,      \* Nothing: the page; or the attempt whose request the server shows
  address,    \* the callback parameters of the page's address
  pages,      \* the page loads so far
  effect,     \* the runs of the mount effect still to come
  exchange,   \* the callback this page handles
  restoring,  \* restore() is under way
  auth,       \* what the provider shows
  token,      \* a session is held or stored
  codes,      \* the server: the attempt each code was given for
  presented   \* every code exchange: its code and verifier

tabVars == <<attempt, session, going, exchange, restoring, auth, token>>
redirectVars == <<browser, tabVars, visited, shown, address, pages, effect, codes, presented>>

Tries == 1..MaxTries
Nothing == 0
Plain == [kind |-> "plain", code |-> Nothing, state |-> Nothing]
AttemptSteps == {"idle", "pkce", "endpoint", "gone"}
ExchangeSteps == {"none", "ignored", "sent", "done"}

RedirectInit ==
  /\ browser \in Browsers
  /\ attempt = [t \in Tries |-> "idle"]
  /\ session = [verifier |-> Nothing, state |-> Nothing]
  /\ going = Nothing /\ visited = {} /\ shown = Nothing /\ address = Plain
  /\ pages = 1 /\ effect = IF browser.twice THEN 2 ELSE 1
  /\ exchange = [step |-> "none", code |-> Nothing, verifier |-> Nothing]
  /\ restoring = FALSE /\ auth = "loading" /\ token \in BOOLEAN
  /\ codes = <<>> /\ presented = <<>>

\* The page is loaded: whatever ran on the one before is gone.
PageLoads(parameters) ==
  /\ pages < MaxPages /\ pages' = pages + 1
  /\ shown' = Nothing /\ address' = parameters
  /\ effect' = IF browser.twice THEN 2 ELSE 1
  /\ attempt' = [t \in Tries |-> IF attempt[t] = "idle" THEN "idle" ELSE "gone"]
  /\ exchange' = [step |-> "none", code |-> Nothing, verifier |-> Nothing]
  /\ going' = Nothing /\ restoring' = FALSE /\ auth' = "loading"
  /\ UNCHANGED <<browser, session, visited, token>>

-----------------------------------------------------------------------------
(* The attempts: signIn({mode: "redirect"}) and handleSocialClick. *)

Browsing == UNCHANGED <<browser, visited, shown, address, pages, effect, codes, presented>>

\* The PKCE pair is computed, then verifier and state are kept together.
StartAttempt(t) ==
  /\ shown = Nothing /\ effect = 0
  /\ attempt[t] = "idle" /\ \A u \in 1..(t - 1) : attempt[u] # "idle"
  /\ attempt' = [attempt EXCEPT ![t] = "pkce"]
  /\ UNCHANGED <<session, going, exchange, restoring, auth, token>> /\ Browsing

\* The social button leaves at once; signIn looks the endpoint up first.
KeepVerifier(t, social) ==
  /\ shown = Nothing /\ attempt[t] = "pkce"
  /\ session' = [verifier |-> t, state |-> t]
  /\ attempt' = [attempt EXCEPT ![t] = IF social THEN "gone" ELSE "endpoint"]
  /\ going' = IF social THEN t ELSE going
  /\ UNCHANGED <<exchange, restoring, auth, token>> /\ Browsing

\* Mutant: the state is kept when the page leaves, the verifier before.
StateKeptLate(t) ==
  /\ shown = Nothing /\ attempt[t] = "endpoint"
  /\ attempt' = [attempt EXCEPT ![t] = "gone"]
  /\ going' = t /\ session' = [session EXCEPT !.state = t]
  /\ UNCHANGED <<exchange, restoring, auth, token>> /\ Browsing

\* The last address that was set is where the page goes.
LeaveForEndpoint(t) ==
  /\ shown = Nothing /\ attempt[t] = "endpoint"
  /\ attempt' = [attempt EXCEPT ![t] = "gone"]
  /\ \/ going' = t /\ auth' = auth
     \/ going' = going /\ auth' = "out"
  /\ UNCHANGED <<session, exchange, restoring, token>> /\ Browsing

\* The browser follows the address; until then the page goes on.
Leave ==
  /\ shown = Nothing /\ going # Nothing
  /\ shown' = going /\ visited' = visited \cup {going} /\ going' = Nothing
  /\ attempt' = [t \in Tries |-> IF attempt[t] = "idle" THEN "idle" ELSE "gone"]
  /\ exchange' = [step |-> "none", code |-> Nothing, verifier |-> Nothing] /\ restoring' = FALSE
  /\ effect' = 0
  /\ UNCHANGED <<browser, session, address, pages, auth, token, codes, presented>>

-----------------------------------------------------------------------------
(* The server, and the user with the browser. *)

Authorize ==
  /\ shown \in Tries /\ Len(codes) < MaxCodes
  /\ codes' = Append(codes, shown)
  /\ PageLoads([kind |-> "code", code |-> Len(codes) + 1, state |-> shown])
  /\ UNCHANGED presented
Decline ==
  /\ shown \in Tries
  /\ PageLoads([Plain EXCEPT !.kind = "error"]) /\ UNCHANGED <<codes, presented>>
\* Parameters longer than the provider reads.
AnswerAtLength ==
  /\ shown \in Tries
  /\ PageLoads([Plain EXCEPT !.kind = "long"]) /\ UNCHANGED <<codes, presented>>
GoBack ==
  /\ shown \in Tries /\ PageLoads(Plain) /\ UNCHANGED <<codes, presented>>
ReloadPage ==
  /\ shown = Nothing /\ PageLoads(address) /\ UNCHANGED <<codes, presented>>
\* Back, from the page to the server's.
VisitAgain ==
  /\ shown = Nothing /\ \E t \in visited : shown' = t
  /\ effect' = 0 /\ going' = Nothing /\ restoring' = FALSE
  /\ exchange' = [step |-> "none", code |-> Nothing, verifier |-> Nothing]
  /\ attempt' = [t \in Tries |-> IF attempt[t] = "idle" THEN "idle" ELSE "gone"]
  /\ UNCHANGED <<browser, session, visited, address, pages, auth, token, codes, presented>>
\* Another tab or the inactivity timer signs out: clear() drops the state.
SignedOutElsewhere ==
  /\ shown = Nothing /\ effect = 0 /\ browser.shared
  /\ session' = [session EXCEPT !.state = Nothing] /\ token' = FALSE /\ auth' = "out"
  /\ UNCHANGED <<attempt, going, exchange, restoring>> /\ Browsing

-----------------------------------------------------------------------------
(* The mount effect of RakomiProvider. *)

Outside == UNCHANGED <<browser, attempt, going, visited, shown, pages, codes>>

\* No callback: restore().
MountPlain ==
  /\ address.kind = "plain"
  /\ restoring' = TRUE
  /\ UNCHANGED <<session, address, exchange, auth, token, presented>>
\* The parameters are dropped, and nothing else happens.
MountLong ==
  /\ address.kind = "long"
  /\ address' = Plain /\ exchange' = [exchange EXCEPT !.step = "ignored"]
  /\ UNCHANGED <<session, restoring, auth, token, presented>>
\* clear(authError).
MountError ==
  /\ address.kind = "error"
  /\ address' = Plain /\ session' = [session EXCEPT !.state = Nothing]
  /\ auth' = "out" /\ token' = FALSE
  /\ UNCHANGED <<exchange, restoring, presented>>
\* Mutant: nobody is told that the state did not match.
MismatchUntold ==
  /\ address.kind = "code" /\ exchange.step = "none" /\ session.state # address.state
  /\ address' = Plain /\ session' = [session EXCEPT !.state = Nothing]
  /\ exchange' = [exchange EXCEPT !.step = "done"]
  /\ UNCHANGED <<restoring, auth, token, presented>>
\* A state that is missing, or another's.
MountMismatch ==
  /\ address.kind = "code" /\ exchange.step = "none" /\ session.state # address.state
  /\ address' = Plain /\ session' = [session EXCEPT !.state = Nothing]
  /\ exchange' = [exchange EXCEPT !.step = "done"] /\ auth' = "out"
  /\ UNCHANGED <<restoring, token, presented>>
\* State and verifier are used up and the parameters dropped, then the code
\* is sent.
MountCallback ==
  /\ address.kind = "code" /\ exchange.step = "none" /\ session.state = address.state
  /\ address' = Plain /\ session' = [verifier |-> Nothing, state |-> Nothing]
  /\ IF session.verifier = Nothing
     THEN /\ auth' = "out" /\ exchange' = [exchange EXCEPT !.step = "done"]
          /\ UNCHANGED presented
     ELSE /\ exchange' = [step |-> "sent", code |-> address.code, verifier |-> session.verifier]
          /\ presented' = Append(presented, [code |-> address.code, verifier |-> session.verifier])
          /\ UNCHANGED auth
  /\ UNCHANGED <<restoring, token>>

MountEffect ==
  /\ shown = Nothing /\ effect > 0 /\ effect' = effect - 1
  /\ MountPlain \/ MountLong \/ MountError \/ MountMismatch \/ MountCallback
  /\ Outside

\* setTokens: a session of another user is in the way, and both are dropped.
SessionTaken ==
  \/ token' = TRUE /\ auth' = "in"
  \/ auth = "in" /\ token' = FALSE /\ auth' = "out"

\* The answer to the exchange, or none within the time-out.
ExchangeAnswered ==
  /\ shown = Nothing /\ effect = 0 /\ exchange.step = "sent"
  /\ exchange' = [exchange EXCEPT !.step = "done"]
  /\ \/ codes[exchange.code] = exchange.verifier /\ SessionTaken
     \/ auth' = "out" /\ UNCHANGED token
  /\ UNCHANGED <<attempt, session, going, restoring>> /\ Browsing

RestoreAnswered ==
  /\ shown = Nothing /\ effect = 0 /\ restoring /\ restoring' = FALSE
  /\ \/ token /\ SessionTaken
     \/ auth' = "out" /\ token' \in {token, FALSE}
  /\ UNCHANGED <<attempt, session, going, exchange>> /\ Browsing

RedirectNext ==
  \/ \E t \in Tries : \/ StartAttempt(t) \/ LeaveForEndpoint(t)
                      \/ \E social \in BOOLEAN : KeepVerifier(t, social)
  \/ Leave \/ Authorize \/ Decline \/ AnswerAtLength \/ GoBack \/ ReloadPage \/ VisitAgain
  \/ SignedOutElsewhere \/ MountEffect \/ ExchangeAnswered \/ RestoreAnswered

\* React runs the effect; a request is answered or times out.
RedirectFairness ==
  /\ WF_redirectVars(MountEffect)
  /\ WF_redirectVars(ExchangeAnswered) /\ WF_redirectVars(RestoreAnswered)

RedirectSpec == RedirectInit /\ [][RedirectNext]_redirectVars /\ RedirectFairness

-----------------------------------------------------------------------------
\* Every variable has the type its code counterpart has.
RedirectTypeOK ==
  /\ attempt \in [Tries -> AttemptSteps]
  /\ session \in [verifier : 0..MaxTries, state : 0..MaxTries]
  /\ going \in 0..MaxTries /\ visited \subseteq Tries /\ shown \in 0..MaxTries
  /\ address \in [kind : {"plain", "code", "error", "long"}, code : 0..MaxCodes, state : 0..MaxTries]
  /\ exchange.step \in ExchangeSteps /\ auth \in {"loading", "out", "in"}
  /\ {restoring, token} \subseteq BOOLEAN /\ effect \in 0..2

\* A code is exchanged once, and with the verifier of the attempt it was given
\* for: whatever the user reloads or goes back to, with two attempts under way,
\* and with effects that run twice.
CodesAreExchangedOnce ==
  \A i \in 1..Len(presented) :
    /\ codes[presented[i].code] = presented[i].verifier
    /\ \A j \in 1..(i - 1) : presented[j].code # presented[i].code

\* A page does not show "loading" for ever, unless it was opened with
\* parameters that are too long: the provider then neither restores nor says so.
ProviderLoads ==
  (shown = Nothing /\ auth = "loading") ~>
    (auth # "loading" \/ exchange.step = "ignored" \/ shown # Nothing)
=============================================================================
