---------------------------- MODULE SignInFlows -----------------------------
(***************************************************************************)
(* The sign-in flows of packages/react-native: a social sign-in through    *)
(* the system browser (oauth/social-auth.ts), started by the SignIn        *)
(* component or by the app, and the direct ones (magic link, email code,   *)
(* TOTP).  Tokens reach the session only under a submit nonce.             *)
(*                                                                         *)
(* The PKCE verifier has one fixed key in the device's storage, the state  *)
(* of each flow a key of its own; both survive the app, the nonces do not. *)
(* A verifier, a state, a code and a session go by the flow they are of.   *)
(***************************************************************************)
EXTENDS SubmitNonces

CONSTANTS
  MaxFlows,  \* bound on the flows
  Apps       \* the apps looked at: which flows, one after another or not

ASSUME FlowsAssumption == MaxFlows \in Nat \ {0}

VARIABLES
  app,         \* the app: [kinds, serial, dpop]
  flow,        \* every flow
  pkceKey,     \* the flow whose verifier is stored under PKCE_STORAGE_KEY
  stateKeys,   \* the flows whose state is stored
  signedIn     \* whose session is live

flowVars == <<app, flow, pkceKey, stateKeys, signedIn>>
signInVars == <<flowVars, nonceVars>>

Flows == 1..MaxFlows
Nothing == 0
SocialKinds == {"component", "social"}
FlowKinds == SocialKinds \cup {"direct"}
FlowSteps == {"idle", "endpoint", "issueState", "storePkce", "browser", "dropPkce", "consumeState",
              "recoverPkce", "takePkce", "proof", "exchange", "verify", "mfa", "begin",
              "submit", "ok", "failed"}

Underway(f) == flow[f].step \notin {"idle", "ok", "failed"}

FlowInit ==
  /\ app \in Apps
  /\ flow = [f \in Flows |-> [kind |-> "direct", step |-> "idle", code |-> Nothing,
                              verifier |-> Nothing, nonce |-> Nothing]]
  /\ pkceKey = Nothing /\ stateKeys = {} /\ signedIn = Nothing
  /\ NonceInit

FlowGoes(f, step) == flow' = [flow EXCEPT ![f].step = step]
StorageKept == UNCHANGED <<pkceKey, stateKeys>>
Rest == UNCHANGED <<app, signedIn, nonceVars>>

\* The SignIn component takes one press at a time; an app may or may not.
StartFlow(f, kind) ==
  /\ flow[f].step = "idle" /\ \A g \in 1..(f - 1) : flow[g].step # "idle"
  /\ kind \in app.kinds
  /\ app.serial => \A g \in Flows : ~Underway(g)
  /\ flow' = [flow EXCEPT ![f].kind = kind, ![f].step =
                IF kind = "component" THEN "endpoint"
                ELSE IF kind = "social" THEN "issueState" ELSE "verify"]
  /\ StorageKept /\ Rest

ResolveEndpoint(f) ==
  /\ flow[f].step = "endpoint"
  /\ FlowGoes(f, "issueState") \/ FlowGoes(f, "failed")
  /\ StorageKept /\ Rest

IssueState(f) ==
  /\ flow[f].step = "issueState"
  /\ stateKeys' = stateKeys \cup {f} /\ FlowGoes(f, "storePkce")
  /\ UNCHANGED pkceKey /\ Rest

StorePkce(f) ==
  /\ flow[f].step = "storePkce"
  /\ pkceKey' = f /\ FlowGoes(f, "browser")
  /\ UNCHANGED stateKeys /\ Rest

\* The browser comes back without a callback, or with one that is refused at
\* sight, or with a code: of this flow or of an older one.
BrowserReturns(f) ==
  /\ flow[f].step = "browser"
  /\ \/ FlowGoes(f, "dropPkce")
     \/ \E g \in 1..f : /\ flow[g].kind \in SocialKinds
                        /\ flow' = [flow EXCEPT ![f].step = "consumeState", ![f].code = g]
  /\ StorageKept /\ Rest

DropPkce(f) ==
  /\ flow[f].step = "dropPkce"
  /\ pkceKey' = Nothing /\ FlowGoes(f, "failed")
  /\ UNCHANGED stateKeys /\ Rest

\* Mutant: any state that is stored will do.
ConsumeAnyState(f) ==
  /\ flow[f].step = "consumeState"
  /\ stateKeys' = stateKeys \ {f}
  /\ FlowGoes(f, IF f \in stateKeys THEN "recoverPkce" ELSE "dropPkce")
  /\ UNCHANGED pkceKey /\ Rest

\* The state of this flow is taken out; it may be a minute old, and it must
\* be the one the callback carries.
ConsumeState(f) ==
  /\ flow[f].step = "consumeState"
  /\ stateKeys' = stateKeys \ {f}
  /\ \/ f \in stateKeys /\ flow[f].code = f /\ FlowGoes(f, "recoverPkce")
     \/ FlowGoes(f, "dropPkce")
  /\ UNCHANGED pkceKey /\ Rest

\* The verifier is read, and then removed.
RecoverPkce(f) ==
  /\ flow[f].step = "recoverPkce"
  /\ flow' = [flow EXCEPT ![f].step = "takePkce", ![f].verifier = pkceKey]
  /\ StorageKept /\ Rest
TakePkce(f) ==
  /\ flow[f].step = "takePkce"
  /\ pkceKey' = Nothing
  /\ FlowGoes(f, IF flow[f].verifier = Nothing THEN "failed"
                 ELSE IF app.dpop THEN "proof" ELSE "exchange")
  /\ UNCHANGED stateKeys /\ Rest

ResolveProof(f) ==
  /\ flow[f].step = "proof"
  /\ FlowGoes(f, "exchange") \/ FlowGoes(f, "failed")
  /\ StorageKept /\ Rest

\* The server gives tokens for a code and its verifier.  The component is
\* done with that; the app goes on to submit them.
ExchangeAuthCode(f) ==
  /\ flow[f].step = "exchange"
  /\ \/ flow[f].verifier = flow[f].code
        /\ FlowGoes(f, IF flow[f].kind = "component" THEN "ok" ELSE "begin")
     \/ FlowGoes(f, "failed")
  /\ StorageKept /\ Rest

\* A link or code is verified: tokens, a code for the caller to exchange, or
\* a challenge that a TOTP code answers.
VerifyDirect(f) ==
  /\ flow[f].step = "verify"
  /\ \E step \in {"begin", "mfa", "failed"} : FlowGoes(f, step)
  /\ StorageKept /\ Rest
VerifyTotp(f) ==
  /\ flow[f].step = "mfa"
  /\ \E step \in {"begin", "mfa", "failed"} : FlowGoes(f, step)
  /\ StorageKept /\ Rest

\* useSubmitOAuthTokens and the direct flows: a nonce, then the submission.
TakeNonce(f) ==
  /\ flow[f].step = "begin"
  /\ BeginAuthFlow
  /\ flow' = [flow EXCEPT ![f].step = "submit", ![f].nonce = issued + 1]
  /\ StorageKept /\ UNCHANGED <<app, signedIn>>

\* submitOAuthTokens: a nonce that is not accepted throws nothing.
SubmitTokens(f) ==
  /\ flow[f].step = "submit"
  /\ ConsumeNonce(flow[f].nonce)
  /\ signedIn' = IF IsAccepted(flow[f].nonce) THEN f ELSE signedIn
  /\ FlowGoes(f, "ok")
  /\ StorageKept /\ UNCHANGED app

\* Somebody submits again under a nonce that was used.
SubmitAgain(f) ==
  /\ flow[f].step = "ok" /\ flow[f].nonce # Nothing
  /\ ConsumeNonce(flow[f].nonce)
  /\ signedIn' = IF IsAccepted(flow[f].nonce) THEN f ELSE signedIn
  /\ UNCHANGED flow /\ StorageKept /\ UNCHANGED app

NonceTick == Tick /\ UNCHANGED flowVars

\* The app is killed, mostly while the browser is in front: the storage stays.
Kill ==
  /\ "kill" \in app.kinds /\ \E f \in Flows : Underway(f)
  /\ flow' = [f \in Flows |-> IF Underway(f) THEN [flow[f] EXCEPT !.step = "failed"] ELSE flow[f]]
  /\ submitNonces' = {}
  /\ StorageKept /\ UNCHANGED <<app, signedIn, expiresAt, issued, now, accepted>>

FlowStep(f) ==
  \/ ResolveEndpoint(f) \/ IssueState(f) \/ StorePkce(f) \/ DropPkce(f)
  \/ ConsumeState(f) \/ RecoverPkce(f) \/ TakePkce(f) \/ ResolveProof(f)
  \/ ExchangeAuthCode(f) \/ VerifyDirect(f) \/ TakeNonce(f) \/ SubmitTokens(f)

SignInNext ==
  \/ \E f \in Flows : \/ \E kind \in FlowKinds : StartFlow(f, kind)
                      \/ FlowStep(f) \/ BrowserReturns(f) \/ VerifyTotp(f) \/ SubmitAgain(f)
  \/ NonceTick \/ Kill

SignInSpec == FlowInit /\ [][SignInNext]_signInVars

-----------------------------------------------------------------------------
\* Every variable has the type its code counterpart has.
SignInTypeOK ==
  /\ flow \in [Flows -> [kind : FlowKinds, step : FlowSteps, code : 0..MaxFlows,
                         verifier : 0..MaxFlows, nonce : 0..MaxNonces]]
  /\ {pkceKey, signedIn} \subseteq 0..MaxFlows /\ stateKeys \subseteq Flows
  /\ submitNonces \subseteq Nonces /\ issued \in 0..MaxNonces /\ now \in 0..MaxTime

\* A flow exchanges its own code, also when an older callback comes back; and,
\* if the app runs one flow at a time, with its own verifier, also when one
\* was left in the storage by a flow that was killed.
ExchangeIsOwn ==
  \A f \in Flows : flow[f].step = "exchange" =>
    flow[f].code = f /\ (app.serial => flow[f].verifier = f)
=============================================================================
