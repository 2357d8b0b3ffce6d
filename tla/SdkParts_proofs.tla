--------------------------- MODULE SdkParts_proofs ---------------------------
(***************************************************************************)
(* What is proved of the parts that MCSdkParts runs one at a time, beside  *)
(* the React Native token runtime, which has a module of its own: the      *)
(* sign-in flows and the submit nonces, for any number of flows, nonces,   *)
(* pending nonces and ticks; the passkey ceremonies, for any hooks, calls  *)
(* and platforms.                                                          *)
(***************************************************************************)
EXTENDS MCSdkParts, RnTokenRuntime_proofs


\* The nonces: those issued are 1 to issued, the pending ones are among them
\* and unused, and none was accepted before it was issued.
NonceInv ==
  /\ issued \in 0..MaxNonces
  /\ accepted \in [Nonces -> Nat]
  /\ submitNonces \subseteq 1..issued
  /\ \A n \in submitNonces : accepted[n] = 0
  /\ \A n \in Nonces : n > issued => accepted[n] = 0
  /\ AcceptedOnce

LEMMA PendingAreNonces ==
  ASSUME NonceInv
  PROVE  GcExpired(submitNonces) \subseteq submitNonces /\ submitNonces \subseteq Nonces
BY NonceAssumption DEF NonceInv, GcExpired, Nonces

LEMMA IssuingKeepsNonces ==
  ASSUME NonceInv, BeginAuthFlow
  PROVE  NonceInv'
<1>1. issued + 1 \in Nonces /\ issued' = issued + 1 /\ accepted' = accepted
  BY NonceAssumption DEF NonceInv, BeginAuthFlow, Nonces
<1>2. submitNonces' \subseteq submitNonces \cup {issued + 1}
  BY PendingAreNonces DEF BeginAuthFlow, Newest
<1>3. \A n \in submitNonces' : n \in 1..issued' /\ accepted[n] = 0
  BY <1>1, <1>2, NonceAssumption DEF NonceInv, Nonces
<1> QED
  BY <1>1, <1>3, NonceAssumption DEF NonceInv, AcceptedOnce, Nonces

\* Whatever is submitted, also something that is no nonce.
LEMMA ConsumingKeepsNonces ==
  ASSUME NonceInv, NEW n, ConsumeNonce(n)
  PROVE  NonceInv'
<1>1. issued' = issued /\ submitNonces' \subseteq submitNonces
  BY PendingAreNonces DEF ConsumeNonce
<1>2. CASE n \in GcExpired(submitNonces)
  <2>1. n \in Nonces /\ n \in 1..issued /\ accepted[n] = 0
    BY <1>2, PendingAreNonces DEF NonceInv
  <2>2. accepted' = [accepted EXCEPT ![n] = 1] /\ n \notin submitNonces'
    BY <1>2, <2>1 DEF ConsumeNonce, NonceInv
  <2> QED
    BY <1>1, <2>1, <2>2, NonceAssumption DEF NonceInv, AcceptedOnce, Nonces
<1>3. CASE n \notin GcExpired(submitNonces)
  <2>1. accepted' = accepted
    BY <1>3 DEF ConsumeNonce
  <2> QED
    BY <1>1, <2>1 DEF NonceInv, AcceptedOnce
<1> QED
  BY <1>2, <1>3

LEMMA NoncesHold == SignInSpec => []NonceInv
<1>1. FlowInit => NonceInv
  BY NonceAssumption DEF FlowInit, NonceInit, NonceInv, AcceptedOnce, Nonces
<1>2. NonceInv /\ [SignInNext]_signInVars => NonceInv'
  <2> SUFFICES ASSUME NonceInv, [SignInNext]_signInVars PROVE NonceInv'
    OBVIOUS
  <2>1. CASE UNCHANGED nonceVars
    BY <2>1 DEF nonceVars, NonceInv, AcceptedOnce
  <2>2. ASSUME NEW f \in Flows, TakeNonce(f) PROVE NonceInv'
    BY <2>2, IssuingKeepsNonces DEF TakeNonce
  <2>3. ASSUME NEW f \in Flows, SubmitTokens(f) \/ SubmitAgain(f) PROVE NonceInv'
    BY <2>3, ConsumingKeepsNonces DEF SubmitTokens, SubmitAgain
  <2>4. CASE NonceTick
    BY <2>4 DEF NonceTick, Tick, NonceInv, AcceptedOnce
  <2>5. CASE Kill
    BY <2>5 DEF Kill, NonceInv, AcceptedOnce
  <2>6. ASSUME NEW f \in Flows, FlowStep(f), ~TakeNonce(f), ~SubmitTokens(f)
        PROVE UNCHANGED nonceVars
    BY <2>6 DEF FlowStep, ResolveEndpoint, IssueState, StorePkce, DropPkce, ConsumeState,
                RecoverPkce, TakePkce, ResolveProof, ExchangeAuthCode, VerifyDirect, Rest
  <2>7. ASSUME NEW f \in Flows,
               (\E kind \in FlowKinds : StartFlow(f, kind)) \/ BrowserReturns(f) \/ VerifyTotp(f)
        PROVE UNCHANGED nonceVars
    BY <2>7 DEF StartFlow, BrowserReturns, VerifyTotp, Rest
  <2> QED
    BY <2>1, <2>2, <2>3, <2>4, <2>5, <2>6, <2>7 DEF SignInNext, signInVars
<1> QED
  BY <1>1, <1>2, PTL DEF SignInSpec

\* A nonce lets tokens in at most once: beginAuthFlow, validateSubmitNonce.
THEOREM NoncesAreAcceptedOnce == SignInSpec => []AcceptedOnce
<1>1. NonceInv => AcceptedOnce
  BY DEF NonceInv
<1> QED  BY <1>1, NoncesHold, PTL

-----------------------------------------------------------------------------
HasCode == {"recoverPkce", "takePkce", "proof", "exchange"}
HasStored == {"browser", "consumeState", "recoverPkce"}
HasVerifier == {"takePkce", "proof", "exchange"}
FlowRecords == [kind : FlowKinds, step : FlowSteps, code : 0..MaxFlows,
                verifier : 0..MaxFlows, nonce : 0..MaxNonces]

\* What a flow carries is its own once its state has been consumed; with one
\* flow at a time the stored verifier is that of the flow in the browser.
CodeIsOwn == \A f \in Flows : flow[f].step \in HasCode => flow[f].code = f
OneFlow == \A f, g \in Flows : Underway(f) /\ Underway(g) => f = g
PkceIsOwn == \A f \in Flows : flow[f].step \in HasStored => pkceKey = f
VerifierIsOwn == \A f \in Flows : flow[f].step \in HasVerifier => flow[f].verifier = f

FlowInv ==
  /\ flow \in [Flows -> FlowRecords] /\ pkceKey \in 0..MaxFlows /\ issued \in 0..MaxNonces
  /\ CodeIsOwn
  /\ app.serial => OneFlow /\ PkceIsOwn /\ VerifierIsOwn

\* The steps that carry something are those of a flow underway.
LEMMA CarryingIsUnderway ==
  ASSUME NEW f \in Flows, flow[f].step \in HasCode \cup HasStored \cup HasVerifier
  PROVE  Underway(f)
BY DEF Underway, HasCode, HasStored, HasVerifier

\* A step of one flow that is underway: it is enough to look at that flow.
LEMMA OneFlowGoesOn ==
  ASSUME FlowInv, NEW f \in Flows, Underway(f), NEW r \in FlowRecords,
         flow' = [flow EXCEPT ![f] = r], app' = app,
         pkceKey' \in 0..MaxFlows, issued' \in 0..MaxNonces,
         r.step \in HasCode => r.code = f,
         app.serial => /\ r.step \in HasStored => pkceKey' = f
                       /\ r.step \in HasVerifier => r.verifier = f
  PROVE  FlowInv'
<1>1. flow' \in [Flows -> FlowRecords] /\ flow'[f] = r /\ \A g \in Flows \ {f} : flow'[g] = flow[g]
  BY DEF FlowInv
<1>2. CodeIsOwn'
  BY <1>1 DEF FlowInv, CodeIsOwn
<1>3. ASSUME app.serial PROVE OneFlow' /\ PkceIsOwn' /\ VerifierIsOwn'
  <2>1. \A g \in Flows \ {f} : ~Underway(g)
    BY <1>3 DEF FlowInv, OneFlow
  <2>2. \A g \in Flows \ {f} : flow[g].step \notin HasCode \cup HasStored \cup HasVerifier
    BY <2>1, CarryingIsUnderway
  <2>3. OneFlow'
    BY <1>1, <2>1 DEF OneFlow, Underway
  <2>4. PkceIsOwn'
    BY <1>1, <1>3, <2>2 DEF PkceIsOwn
  <2>5. VerifierIsOwn'
    BY <1>1, <1>3, <2>2 DEF VerifierIsOwn
  <2> QED
    BY <2>3, <2>4, <2>5
<1> QED
  BY <1>1, <1>2, <1>3 DEF FlowInv


LEMMA StartingKeepsFlows ==
  ASSUME FlowInv, NEW f \in Flows, NEW kind \in FlowKinds, StartFlow(f, kind)
  PROVE  FlowInv'
<1> DEFINE step == IF kind = "component" THEN "endpoint"
                   ELSE IF kind = "social" THEN "issueState" ELSE "verify"
<1>1. step \in FlowSteps /\ step \notin HasCode \cup HasStored \cup HasVerifier
  BY DEF FlowSteps, HasCode, HasStored, HasVerifier
<1>2. flow' = [flow EXCEPT ![f].kind = kind, ![f].step = step]
      /\ app' = app /\ pkceKey' = pkceKey /\ issued' = issued
  BY DEF StartFlow, StorageKept, Rest, nonceVars
<1> HIDE DEF step
<1>3. flow' \in [Flows -> FlowRecords] /\ flow'[f].step = step
      /\ \A g \in Flows \ {f} : flow'[g] = flow[g]
  BY <1>1, <1>2 DEF FlowInv, FlowRecords
<1>4. CodeIsOwn'
  BY <1>1, <1>3 DEF FlowInv, CodeIsOwn
<1>5. ASSUME app.serial PROVE OneFlow' /\ PkceIsOwn' /\ VerifierIsOwn'
  <2>1. \A g \in Flows : ~Underway(g)
    BY <1>5 DEF StartFlow
  <2>2. OneFlow'
    BY <1>3, <2>1 DEF OneFlow, Underway
  <2>3. PkceIsOwn' /\ VerifierIsOwn'
    BY <1>1, <1>2, <1>3, <1>5 DEF FlowInv, PkceIsOwn, VerifierIsOwn
  <2> QED
    BY <2>2, <2>3
<1> QED
  BY <1>2, <1>3, <1>4, <1>5 DEF FlowInv

\* A step that only moves a flow on, to one where it carries nothing new.
LEMMA PlainStepKeepsFlows ==
  ASSUME FlowInv, NEW f \in Flows, Underway(f), NEW step \in FlowSteps, FlowGoes(f, step),
         app' = app, pkceKey' \in 0..MaxFlows, issued' \in 0..MaxNonces,
         step \in HasCode => flow[f].code = f,
         app.serial => /\ step \in HasStored => pkceKey' = f
                       /\ step \in HasVerifier => flow[f].verifier = f
  PROVE  FlowInv'
<1> DEFINE r == [flow[f] EXCEPT !.step = step]
<1>1. r \in FlowRecords /\ r.step = step /\ r.code = flow[f].code /\ r.verifier = flow[f].verifier
  BY DEF FlowInv, FlowRecords
<1>2. flow' = [flow EXCEPT ![f] = r]
  BY DEF FlowGoes
<1> HIDE DEF r
<1> QED
  BY <1>1, <1>2, OneFlowGoesOn

LEMMA StepKeepsFlows ==
  ASSUME FlowInv, NEW f \in Flows, FlowStep(f) \/ BrowserReturns(f) \/ VerifyTotp(f)
  PROVE  FlowInv'
<1> USE DEF FlowSteps, HasCode, HasStored, HasVerifier
<1>1. Underway(f)
  BY DEF FlowStep, BrowserReturns, VerifyTotp, Underway, ResolveEndpoint, IssueState, StorePkce,
         DropPkce, ConsumeState, RecoverPkce, TakePkce, ResolveProof, ExchangeAuthCode,
         VerifyDirect, TakeNonce, SubmitTokens
<1>2. /\ pkceKey \in 0..MaxFlows /\ f \in 0..MaxFlows /\ Nothing \in 0..MaxFlows
      /\ issued \in 0..MaxNonces
  BY FlowsAssumption DEF FlowInv, Flows, Nothing
<1>3. CASE ResolveEndpoint(f)
  BY <1>1, <1>2, <1>3, PlainStepKeepsFlows DEF ResolveEndpoint, StorageKept, Rest, nonceVars
<1>4. CASE IssueState(f)
  BY <1>1, <1>2, <1>4, PlainStepKeepsFlows DEF IssueState, Rest, nonceVars
<1>5. CASE StorePkce(f)
  BY <1>1, <1>2, <1>5, PlainStepKeepsFlows DEF StorePkce, Rest, nonceVars
<1>6. CASE DropPkce(f)
  BY <1>1, <1>2, <1>6, PlainStepKeepsFlows DEF DropPkce, Rest, nonceVars
<1>7. CASE ConsumeState(f)
  <2>1. flow[f].step = "consumeState" /\ (app.serial => pkceKey = f)
    BY <1>7 DEF ConsumeState, FlowInv, PkceIsOwn
  <2>2. CASE flow[f].code = f /\ FlowGoes(f, "recoverPkce")
    BY <1>1, <1>2, <1>7, <2>1, <2>2, PlainStepKeepsFlows DEF ConsumeState, Rest, nonceVars
  <2>3. CASE FlowGoes(f, "dropPkce")
    BY <1>1, <1>2, <1>7, <2>3, PlainStepKeepsFlows DEF ConsumeState, Rest, nonceVars
  <2> QED
    BY <1>7, <2>2, <2>3 DEF ConsumeState
<1>8. CASE RecoverPkce(f)
  <2> DEFINE r == [flow[f] EXCEPT !.step = "takePkce", !.verifier = pkceKey]
  <2>1. /\ flow[f].code = f /\ (app.serial => pkceKey = f)
    BY <1>8 DEF RecoverPkce, FlowInv, CodeIsOwn, PkceIsOwn
  <2>2. r \in FlowRecords /\ r.step = "takePkce" /\ r.code = f /\ r.verifier = pkceKey
    BY <2>1 DEF FlowInv, FlowRecords
  <2>3. flow' = [flow EXCEPT ![f] = r] /\ app' = app /\ pkceKey' = pkceKey /\ issued' = issued
    BY <1>8 DEF RecoverPkce, StorageKept, Rest, nonceVars
  <2> HIDE DEF r
  <2> QED
    BY <1>1, <1>2, <2>1, <2>2, <2>3, OneFlowGoesOn
<1>9. CASE TakePkce(f)
  <2>1. flow[f].code = f /\ (app.serial => flow[f].verifier = f)
    BY <1>9 DEF TakePkce, FlowInv, CodeIsOwn, VerifierIsOwn
  <2>2. PICK step \in {"failed", "proof", "exchange"} : FlowGoes(f, step)
    BY <1>9 DEF TakePkce
  <2> QED
    BY <1>1, <1>2, <1>9, <2>1, <2>2, PlainStepKeepsFlows DEF TakePkce, Rest, nonceVars
<1>10. CASE ResolveProof(f)
  <2>1. flow[f].code = f /\ (app.serial => flow[f].verifier = f)
    BY <1>10 DEF ResolveProof, FlowInv, CodeIsOwn, VerifierIsOwn
  <2> QED
    BY <1>1, <1>2, <1>10, <2>1, PlainStepKeepsFlows DEF ResolveProof, StorageKept, Rest, nonceVars
<1>11. CASE ExchangeAuthCode(f)
  <2>1. PICK step \in {"ok", "begin", "failed"} : FlowGoes(f, step)
    BY <1>11 DEF ExchangeAuthCode
  <2> QED
    BY <1>1, <1>2, <1>11, <2>1, PlainStepKeepsFlows DEF ExchangeAuthCode, StorageKept, Rest, nonceVars
<1>12. CASE VerifyDirect(f) \/ VerifyTotp(f)
  <2>1. PICK step \in {"begin", "mfa", "failed"} : FlowGoes(f, step)
    BY <1>12 DEF VerifyDirect, VerifyTotp
  <2> QED
    BY <1>1, <1>2, <1>12, <2>1, PlainStepKeepsFlows
       DEF VerifyDirect, VerifyTotp, StorageKept, Rest, nonceVars
<1>13. CASE TakeNonce(f)
  <2> DEFINE r == [flow[f] EXCEPT !.step = "submit", !.nonce = issued + 1]
  <2>1. issued + 1 \in 0..MaxNonces /\ issued' = issued + 1
    BY <1>2, <1>13, NonceAssumption DEF TakeNonce, BeginAuthFlow
  <2>2. r \in FlowRecords /\ r.step = "submit"
    BY <2>1 DEF FlowInv, FlowRecords
  <2>3. flow' = [flow EXCEPT ![f] = r] /\ app' = app /\ pkceKey' = pkceKey
    BY <1>13 DEF TakeNonce, StorageKept
  <2> HIDE DEF r
  <2> QED
    BY <1>1, <1>2, <2>1, <2>2, <2>3, OneFlowGoesOn
<1>14. CASE SubmitTokens(f)
  BY <1>1, <1>2, <1>14, PlainStepKeepsFlows DEF SubmitTokens, ConsumeNonce, StorageKept
<1>15. CASE BrowserReturns(f)
  <2>1. flow[f].step = "browser" /\ (app.serial => pkceKey = f)
    BY <1>15 DEF BrowserReturns, FlowInv, PkceIsOwn
  <2>2. app' = app /\ pkceKey' = pkceKey /\ issued' = issued
    BY <1>15 DEF BrowserReturns, StorageKept, Rest, nonceVars
  <2>3. CASE FlowGoes(f, "dropPkce")
    BY <1>1, <1>2, <2>2, <2>3, PlainStepKeepsFlows
  <2>4. ASSUME NEW g \in 1..f,
               flow' = [flow EXCEPT ![f].step = "consumeState", ![f].code = g]
        PROVE  FlowInv'
    <3> DEFINE r == [flow[f] EXCEPT !.step = "consumeState", !.code = g]
    <3>1. g \in 0..MaxFlows
      BY <1>2, FlowsAssumption DEF Flows
    <3>2. r \in FlowRecords /\ r.step = "consumeState"
      BY <3>1 DEF FlowInv, FlowRecords
    <3>3. flow' = [flow EXCEPT ![f] = r]
      BY <2>4
    <3> HIDE DEF r
    <3> QED
      BY <1>1, <1>2, <2>1, <2>2, <3>2, <3>3, OneFlowGoesOn
  <2> QED
    BY <1>15, <2>3, <2>4 DEF BrowserReturns
<1> QED
  BY <1>3, <1>4, <1>5, <1>6, <1>7, <1>8, <1>9, <1>10, <1>11, <1>12, <1>13, <1>14, <1>15
     DEF FlowStep

LEMMA KillingKeepsFlows ==
  ASSUME FlowInv, Kill
  PROVE  FlowInv'
<1>1. flow' = [f \in Flows |-> IF Underway(f) THEN [flow[f] EXCEPT !.step = "failed"] ELSE flow[f]]
      /\ app' = app /\ pkceKey' = pkceKey /\ issued' = issued
  BY DEF Kill, StorageKept
<1>2. \A f \in Flows : flow[f] \in FlowRecords
  BY DEF FlowInv
<1>3. \A f \in Flows : flow'[f] \in FlowRecords /\ ~Underway(f)'
  BY <1>1, <1>2 DEF Underway, FlowRecords, FlowSteps
<1>4. flow' \in [Flows -> FlowRecords]
  BY <1>1, <1>3
<1>5. \A f \in Flows : flow'[f].step \notin HasCode \cup HasStored \cup HasVerifier
  BY <1>3 DEF Underway, HasCode, HasStored, HasVerifier
<1>6. CodeIsOwn' /\ OneFlow' /\ PkceIsOwn' /\ VerifierIsOwn'
  BY <1>3, <1>5 DEF CodeIsOwn, OneFlow, PkceIsOwn, VerifierIsOwn
<1> QED
  BY <1>1, <1>4, <1>6 DEF FlowInv

LEMMA FlowsHold == SignInSpec => []FlowInv
<1>1. FlowInit => FlowInv
  <2> SUFFICES ASSUME FlowInit PROVE FlowInv
    OBVIOUS
  <2>1. \A f \in Flows : flow[f].step = "idle"
    BY DEF FlowInit
  <2>2. flow \in [Flows -> FlowRecords] /\ pkceKey \in 0..MaxFlows /\ issued \in 0..MaxNonces
    BY FlowsAssumption, NonceAssumption
       DEF FlowInit, NonceInit, FlowRecords, FlowKinds, FlowSteps, Nothing
  <2> QED
    BY <2>1, <2>2 DEF FlowInv, CodeIsOwn, OneFlow, PkceIsOwn, VerifierIsOwn, Underway,
                      HasCode, HasStored, HasVerifier
<1>2. FlowInv /\ [SignInNext]_signInVars => FlowInv'
  <2> SUFFICES ASSUME FlowInv, [SignInNext]_signInVars PROVE FlowInv'
    OBVIOUS
  <2>1. CASE UNCHANGED <<app, flow, pkceKey, issued>>
    BY <2>1 DEF FlowInv, CodeIsOwn, OneFlow, PkceIsOwn, VerifierIsOwn, Underway
  <2>2. ASSUME NEW f \in Flows, SubmitAgain(f) \/ NonceTick
        PROVE UNCHANGED <<app, flow, pkceKey, issued>>
    BY <2>2 DEF SubmitAgain, StorageKept, ConsumeNonce, NonceTick, Tick, flowVars
  <2>3. 1 \in Flows
    BY FlowsAssumption DEF Flows
  <2> QED
    BY <2>1, <2>2, <2>3, StartingKeepsFlows, StepKeepsFlows, KillingKeepsFlows
       DEF SignInNext, signInVars, flowVars, nonceVars
<1> QED
  BY <1>1, <1>2, PTL DEF SignInSpec

\* A flow exchanges its own code, and in an app that runs one flow at a time
\* with its own verifier: exchangeAuthCode's callers in social-auth.ts.
THEOREM CodesAreExchangedByTheirFlow == SignInSpec => []ExchangeIsOwn
<1>1. FlowInv => ExchangeIsOwn
  BY DEF FlowInv, ExchangeIsOwn, CodeIsOwn, VerifierIsOwn, HasCode, HasVerifier
<1> QED  BY <1>1, FlowsHold, PTL

\* What FlowInv and NonceInv leave out of the types.
StoreTyped == signedIn \in 0..MaxFlows /\ stateKeys \subseteq Flows /\ now \in 0..MaxTime

LEMMA StoresAreTyped == SignInSpec => []StoreTyped
<1>1. FlowInit => StoreTyped
  BY FlowsAssumption, NonceAssumption DEF FlowInit, NonceInit, StoreTyped, Nothing
<1>2. StoreTyped /\ [SignInNext]_signInVars => StoreTyped'
  <2> SUFFICES ASSUME StoreTyped, [SignInNext]_signInVars PROVE StoreTyped'
    OBVIOUS
  <2> DEFINE Frame(f) == signedIn' \in {signedIn, f} /\ now' = now
                         /\ stateKeys' \subseteq stateKeys \cup {f}
  <2>1. ASSUME NEW f \in Flows, FlowStep(f) \/ BrowserReturns(f) \/ VerifyTotp(f) \/ SubmitAgain(f)
        PROVE  Frame(f)
    BY <2>1 DEF FlowStep, BrowserReturns, VerifyTotp, SubmitAgain, ResolveEndpoint, IssueState,
                StorePkce, DropPkce, ConsumeState, RecoverPkce, TakePkce, ResolveProof,
                ExchangeAuthCode, VerifyDirect, TakeNonce, SubmitTokens, StorageKept, Rest,
                nonceVars, BeginAuthFlow, ConsumeNonce
  <2>2. ASSUME NEW f \in Flows, NEW kind \in FlowKinds, StartFlow(f, kind) PROVE Frame(f)
    BY <2>2 DEF StartFlow, StorageKept, Rest, nonceVars
  <2>3. ASSUME NEW f \in Flows, Frame(f) PROVE StoreTyped'
    BY <2>3, FlowsAssumption DEF StoreTyped, Flows
  <2>4. CASE NonceTick
    BY <2>4, NonceAssumption DEF NonceTick, Tick, StoreTyped, flowVars
  <2>5. CASE Kill \/ UNCHANGED signInVars
    BY <2>5 DEF Kill, StorageKept, StoreTyped, signInVars, flowVars, nonceVars
  <2> QED
    BY <2>1, <2>2, <2>3, <2>4, <2>5, Zenon DEF SignInNext
<1> QED
  BY <1>1, <1>2, PTL DEF SignInSpec

LEMMA FlowsAreTyped == FlowInv /\ NonceInv /\ StoreTyped => SignInTypeOK
<1> SUFFICES ASSUME FlowInv, NonceInv, StoreTyped PROVE SignInTypeOK
  OBVIOUS
<1>1. submitNonces \subseteq Nonces
  BY PendingAreNonces
<1> QED  BY <1>1 DEF FlowInv, FlowRecords, NonceInv, StoreTyped, SignInTypeOK

-----------------------------------------------------------------------------
(***************************************************************************)
(* Passkeys.  One ceremony is under way on the device, and one per hook in *)
(* the browser; the call whose sheet is up has left its beginning, so a    *)
(* call whose library is still loading is not the one that has the sheet.  *)
(***************************************************************************)
CallRecords == [hook : Hooks, kind : Kinds, step : Steps, aborted : BOOLEAN, result : Results]
Ceremonial(c) == Active(c) /\ call[c].kind \in Ceremonies
LockIsHeld == lock = (platform.native /\ \E c \in PasskeyCalls : Ceremonial(c))

CallTyped ==
  /\ platform \in Platforms /\ call \in [PasskeyCalls -> CallRecords]
  /\ lock \in BOOLEAN
OneCeremony ==
  /\ \A c \in PasskeyCalls : call[c].step \in {"ceremony", "finish", "store", "confirm", "storing"} =>
       call[c].kind \in Ceremonies
  /\ platform.native => \A c, d \in PasskeyCalls : Ceremonial(c) /\ Ceremonial(d) => c = d
  /\ ~platform.native => \A c, d \in PasskeyCalls :
       Ceremonial(c) /\ Ceremonial(d) /\ call[c].hook = call[d].hook => c = d
CallInv == CallTyped /\ LockIsHeld /\ OneCeremony

Early == {"idle", "prepare", "begin"}
SheetInv ==
  /\ {sheet, ticket} \subseteq PasskeyCalls \cup {NoCall}
  /\ loading \subseteq PasskeyCalls /\ mounted \subseteq Hooks
  /\ live \in PasskeyCalls \cup {Elsewhere, NoCall}
  /\ platform.native => loading = {}
  /\ \A c \in loading : c # sheet /\ (Waiting(c) \/ call[c].aborted)
  /\ sheet # NoCall => call[sheet].step \notin Early

TakenInv ==
  \A t \in taken :
    /\ ~platform.native /\ t.how = "opened"
    /\ t.of \in PasskeyCalls /\ t.by \in PasskeyCalls
    /\ call[t.of].step # "idle" /\ call[t.by].step # "idle"
    /\ call[t.of].hook # call[t.by].hook

PasskeyInv == CallInv /\ SheetInv /\ TakenInv

LEMMA PlatformIs ==
  ASSUME CallTyped
  PROVE  platform.native \in BOOLEAN /\ platform.kinds \subseteq Kinds /\ platform.answers \subseteq Answers
BY PlatformsAssumption DEF CallTyped

LEMMA CallsAre == NoCall \notin PasskeyCalls /\ PasskeyCalls \subseteq Nat
BY DEF NoCall, PasskeyCalls

\* What the mapping of errors gives.
Codes == Results \ {"", "OK"}
LEMMA RequestCodes ==
  ASSUME NEW a, NEW surface
  PROVE  PasskeyRequest(a, surface) \in Codes
BY DEF PasskeyRequest, MapPasskeyHttpError, Codes, Results

LEMMA RefusedCodes ==
  ASSUME NEW kind, NEW a
  PROVE  Refused(kind, a) \in Codes
<1>1. \A surface : PasskeyRequest(a, surface) \in Codes
  BY RequestCodes
<1>2. {"FINISH_FAILED", "ADDITIONAL_STEP_REQUIRED"} \subseteq Codes
  BY DEF Codes, Results
<1> QED  BY <1>1, <1>2 DEF Refused, RegisterResult, AssertResult, StepUpResult

\* A step that starts no call: some calls end, others go on.
LEMMA MovingKeepsCalls ==
  ASSUME CallInv, platform' = platform, call' \in [PasskeyCalls -> CallRecords],
         NEW cs \in SUBSET PasskeyCalls, NEW code, lock' = Released(cs, code),
         \A d \in PasskeyCalls :
           /\ call'[d].hook = call[d].hook /\ call'[d].kind = call[d].kind
           /\ Active(d)' => Active(d) /\ d \notin cs
           /\ platform.native => (d \in cs => Active(d)) /\ (Active(d) /\ d \notin cs => Active(d)')
           /\ call'[d].step \in {"ceremony", "finish", "store", "confirm", "storing"} => call[d].kind \in Ceremonies
  PROVE  CallInv'
<1> USE DEF CallInv
<1>1. \A d \in PasskeyCalls : Ceremonial(d)' => Ceremonial(d) /\ d \notin cs
  BY DEF Ceremonial
<1>2. OneCeremony'
  BY <1>1 DEF OneCeremony
<1>3. lock' \in BOOLEAN /\ (lock' <=> lock /\ ~\E c \in cs : call[c].kind \in Ceremonies)
  BY DEF Released
<1>4. lock <=> platform.native /\ \E c \in PasskeyCalls : Ceremonial(c)
  BY DEF LockIsHeld
<1>5. platform.native /\ (\E c \in cs : call[c].kind \in Ceremonies) =>
        ~\E d \in PasskeyCalls : Ceremonial(d)'
  BY <1>1 DEF OneCeremony, Ceremonial
<1>6. platform.native /\ (~\E c \in cs : call[c].kind \in Ceremonies) =>
        \A d \in PasskeyCalls : Ceremonial(d) => Ceremonial(d)'
  BY DEF Ceremonial
<1>7. LockIsHeld'
  <2>1. lock' <=> platform.native /\ \E d \in PasskeyCalls : Ceremonial(d)'
    BY <1>1, <1>3, <1>4, <1>5, <1>6, Zenon
  <2> QED  BY <1>3, <2>1, PlatformIs DEF LockIsHeld, CallTyped
<1> QED  BY <1>2, <1>3, <1>7 DEF CallTyped

LEMMA OverIs ==
  ASSUME CallInv, NEW cs \in SUBSET PasskeyCalls, NEW code \in Results
  PROVE  /\ Over(cs, code) \in [PasskeyCalls -> CallRecords]
         /\ \A d \in PasskeyCalls :
              /\ Over(cs, code)[d].hook = call[d].hook /\ Over(cs, code)[d].kind = call[d].kind
              /\ Over(cs, code)[d].aborted = call[d].aborted
              /\ d \in cs => Over(cs, code)[d].step = "over" /\ Over(cs, code)[d].result = code
              /\ d \notin cs => Over(cs, code)[d] = call[d]
BY DEF CallInv, CallTyped, CallRecords, Over, Steps

\* One call ends, or goes on.
LEMMA EndsKeeps ==
  ASSUME CallInv, NEW c \in PasskeyCalls, Active(c), NEW code \in Results, Ends(c, code),
         platform' = platform
  PROVE  /\ CallInv' /\ call' \in [PasskeyCalls -> CallRecords]
         /\ call'[c].step = "over" /\ call'[c].result = code
         /\ call'[c].aborted = call[c].aborted /\ call'[c].hook = call[c].hook
         /\ \A d \in PasskeyCalls : d # c => call'[d] = call[d]
<1> DEFINE cs == {c}
<1>1. call' = Over(cs, code) /\ lock' = Released(cs, code) /\ cs \in SUBSET PasskeyCalls
  BY DEF Ends
<1>2. \A d : d \in cs <=> d = c
  OBVIOUS
<1> HIDE DEF cs
<1>3. /\ call' \in [PasskeyCalls -> CallRecords]
      /\ \A d \in PasskeyCalls :
           /\ call'[d].hook = call[d].hook /\ call'[d].kind = call[d].kind
           /\ call'[d].aborted = call[d].aborted
           /\ d \in cs => call'[d].step = "over" /\ call'[d].result = code
           /\ d \notin cs => call'[d] = call[d]
  BY <1>1, OverIs
<1>4. \A d \in PasskeyCalls : Active(d)' <=> Active(d) /\ d \notin cs
  BY <1>3 DEF Active
<1>5. \A d \in PasskeyCalls : call'[d].step \in {"ceremony", "finish", "store", "confirm", "storing"} =>
        call[d].kind \in Ceremonies
  BY <1>3 DEF CallInv, OneCeremony
<1>6. CallInv'
  BY <1>1, <1>2, <1>3, <1>4, <1>5, MovingKeepsCalls
<1> QED  BY <1>2, <1>3, <1>6

LEMMA GoesKeeps ==
  ASSUME CallInv, NEW c \in PasskeyCalls, Active(c), NEW step \in Steps, Goes(c, step),
         step \notin {"idle", "over"}, platform' = platform,
         step \in {"ceremony", "finish", "store", "confirm", "storing"} => call[c].kind \in Ceremonies
  PROVE  /\ CallInv' /\ call' \in [PasskeyCalls -> CallRecords]
         /\ call'[c].step = step /\ call'[c].result = call[c].result
         /\ call'[c].aborted = call[c].aborted /\ call'[c].hook = call[c].hook
         /\ \A d \in PasskeyCalls : d # c => call'[d] = call[d]
<1>1. /\ call' = [call EXCEPT ![c].step = step] /\ lock' = lock
      /\ call \in [PasskeyCalls -> CallRecords] /\ lock \in BOOLEAN
  BY DEF Goes, CallInv, CallTyped
<1>2. /\ call' \in [PasskeyCalls -> CallRecords]
      /\ call'[c].step = step /\ call'[c].result = call[c].result /\ call'[c].kind = call[c].kind
      /\ call'[c].aborted = call[c].aborted /\ call'[c].hook = call[c].hook
      /\ \A d \in PasskeyCalls : d # c => call'[d] = call[d]
  BY <1>1 DEF CallRecords
<1>3. \A d \in PasskeyCalls : Active(d)' <=> Active(d)
  BY <1>2 DEF Active
<1>4. lock' = Released({}, "OK")
  BY <1>1 DEF Released
<1>5. CallInv'
  BY <1>2, <1>3, <1>4, MovingKeepsCalls DEF CallInv, OneCeremony
<1> QED  BY <1>2, <1>5

\* A call that ends or goes on, not from its sheet, leaves the sheets alone.
LEMMA OneCallMoves ==
  ASSUME PasskeyInv, NEW c \in PasskeyCalls, ~Waiting(c), platform' = platform,
         call[c].step # "idle", call'[c].step # "idle",
         call'[c].step \in Early => call[c].step \in Early,
         call'[c].hook = call[c].hook, call'[c].aborted = call[c].aborted,
         \A d \in PasskeyCalls : d # c => call'[d] = call[d],
         UNCHANGED <<sheet, loading, mounted, taken>>,
         ticket' \in PasskeyCalls \cup {NoCall}, live' \in PasskeyCalls \cup {Elsewhere, NoCall}
  PROVE  SheetInv' /\ TakenInv'
<1> USE DEF PasskeyInv
<1>1. SheetInv'
  BY DEF SheetInv, Waiting, NoCall
<1>2. TakenInv'
  BY DEF TakenInv
<1> QED  BY <1>1, <1>2

LEMMA StartKeeps ==
  ASSUME PasskeyInv, NEW c \in PasskeyCalls, NEW h \in Hooks, NEW k \in Kinds, StartCall(c, h, k)
  PROVE  PasskeyInv'
<1> USE DEF PasskeyInv, CallInv
<1>1. /\ call[c].step = "idle" /\ UNCHANGED <<platform, sheet, ticket, loading, mounted, live, taken>>
      /\ call' = [call EXCEPT ![c].hook = h, ![c].kind = k, ![c].step = "prepare"]
      /\ lock' = (lock \/ (platform.native /\ k \in Ceremonies))
      /\ IF platform.native THEN FreeOnDevice(h, k) ELSE FreeInHook(h, k)
  BY DEF StartCall
<1>2. /\ call' \in [PasskeyCalls -> CallRecords]
      /\ call'[c].hook = h /\ call'[c].kind = k /\ call'[c].step = "prepare"
      /\ call'[c].aborted = call[c].aborted
      /\ \A d \in PasskeyCalls : d # c => call'[d] = call[d]
  BY <1>1 DEF CallTyped, CallRecords, Steps
<1>3. \A d \in PasskeyCalls : /\ d # c => (Ceremonial(d)' <=> Ceremonial(d))
                              /\ d = c => (Ceremonial(d)' <=> k \in Ceremonies)
                              /\ d = c => ~Ceremonial(d)
  BY <1>1, <1>2 DEF Ceremonial, Active
<1>4. platform.native /\ k \in Ceremonies => \A d \in PasskeyCalls : ~Ceremonial(d)
  BY <1>1 DEF FreeOnDevice, LockIsHeld
<1>5. ~platform.native /\ k \in Ceremonies =>
        \A d \in PasskeyCalls : Ceremonial(d) => call[d].hook # h
  BY <1>1 DEF FreeInHook, Ceremonial
<1>6. OneCeremony'
  BY <1>1, <1>2, <1>3, <1>4, <1>5 DEF OneCeremony
<1>7. lock' \in BOOLEAN /\ LockIsHeld'
  <2>1. lock <=> platform.native /\ \E d \in PasskeyCalls : Ceremonial(d)
    BY DEF LockIsHeld
  <2>2. lock' <=> platform.native /\ \E d \in PasskeyCalls : Ceremonial(d)'
    BY <1>1, <1>3, <2>1, Zenon
  <2>3. lock' \in BOOLEAN /\ platform.native \in BOOLEAN
    BY <1>1, PlatformIs DEF CallTyped
  <2> QED  BY <1>1, <2>2, <2>3 DEF LockIsHeld
<1>8. SheetInv'
  BY <1>1, <1>2 DEF SheetInv, Waiting, Early, NoCall
<1>9. TakenInv'
  BY <1>1, <1>2 DEF TakenInv
<1> QED  BY <1>1, <1>2, <1>6, <1>7, <1>8, <1>9 DEF CallTyped

\* The sheet opens for a ceremony that is under way: on the device it is the only one,
\* in the browser the call that loses its sheet is another hook's.
LEMMA OpeningKeeps ==
  ASSUME PasskeyInv, NEW c \in PasskeyCalls, OpenSheet(c), Ceremonial(c), c # sheet,
         loading' = loading \ {c}, UNCHANGED <<platform, mounted, live>>
  PROVE  PasskeyInv'
<1> USE DEF PasskeyInv
<1> DEFINE robbed == {d \in {sheet} \ {NoCall} : Waiting(d)}
<1>1. /\ sheet' = c /\ ticket' = c
      /\ call' = [Over(robbed, "CEREMONY_CANCELLED") EXCEPT ![c].step = "ceremony"]
      /\ lock' = Released(robbed, "CEREMONY_CANCELLED")
      /\ taken' = taken \cup {[of |-> d, by |-> c, how |-> "opened"] : d \in robbed}
  BY DEF OpenSheet
<1>2. /\ robbed \in SUBSET PasskeyCalls /\ c \notin robbed
      /\ \A d \in robbed : d = sheet /\ Waiting(d) /\ Ceremonial(d)
  BY DEF SheetInv, Ceremonial, Active, Waiting, CallInv, OneCeremony
<1>3. /\ \A d \in robbed : ~platform.native /\ call[d].hook # call[c].hook
  BY <1>2 DEF CallInv, OneCeremony
<1> HIDE DEF robbed
<1>4. "CEREMONY_CANCELLED" \in Results /\ "ceremony" \in Steps
  BY DEF Results, Steps
<1>5. /\ call' \in [PasskeyCalls -> CallRecords]
      /\ call'[c].step = "ceremony"
      /\ \A d \in PasskeyCalls :
           /\ call'[d].hook = call[d].hook /\ call'[d].kind = call[d].kind
           /\ call'[d].aborted = call[d].aborted
           /\ d \in robbed => call'[d].step = "over"
           /\ d # c /\ d \notin robbed => call'[d] = call[d]
  <2> DEFINE over == Over(robbed, "CEREMONY_CANCELLED")
  <2>1. /\ over \in [PasskeyCalls -> CallRecords]
        /\ \A d \in PasskeyCalls :
             /\ over[d].hook = call[d].hook /\ over[d].kind = call[d].kind
             /\ over[d].aborted = call[d].aborted
             /\ d \in robbed => over[d].step = "over"
             /\ d \notin robbed => over[d] = call[d]
    BY <1>2, <1>4, OverIs
  <2>2. call' = [over EXCEPT ![c].step = "ceremony"]
    BY <1>1
  <2> HIDE DEF over
  <2> QED  BY <1>2, <1>4, <2>1, <2>2 DEF CallRecords
<1>6. CallInv'
  <2>1. \A d \in PasskeyCalls : Active(d)' <=> Active(d) /\ d \notin robbed
    BY <1>2, <1>5 DEF Active, Ceremonial
  <2>2. \A d \in PasskeyCalls :
          call'[d].step \in {"ceremony", "finish", "store", "confirm", "storing"} => call[d].kind \in Ceremonies
    BY <1>5 DEF Ceremonial, CallInv, OneCeremony
  <2> QED  BY <1>1, <1>2, <1>3, <1>5, <2>1, <2>2, MovingKeepsCalls
<1>7. SheetInv'
  BY <1>1, <1>2, <1>3, <1>5 DEF SheetInv, Waiting, Early
<1>8. TakenInv'
  <2>1. \A d \in PasskeyCalls : call[d].step # "idle" => call'[d].step # "idle"
    BY <1>5
  <2>2. \A t \in taken' : t \in taken \/ (t.of \in robbed /\ t.by = c /\ t.how = "opened")
    BY <1>1
  <2> QED  BY <1>2, <1>3, <1>5, <2>1, <2>2 DEF TakenInv
<1> QED  BY <1>6, <1>7, <1>8

\* The adapter's library is there.
LEMMA LoadedKeeps ==
  ASSUME PasskeyInv, NEW c \in PasskeyCalls, Loaded(c)
  PROVE  PasskeyInv'
<1> USE DEF PasskeyInv
<1>1. /\ c \in loading /\ loading' = loading \ {c} /\ UNCHANGED <<platform, mounted, live>>
      /\ c # sheet /\ (~call[c].aborted => Waiting(c))
  BY DEF Loaded, SheetInv
<1>2. Waiting(c) => Ceremonial(c)
  BY DEF Waiting, Ceremonial, Active, CallInv, OneCeremony
<1>3. CASE ~call[c].aborted /\ OpenSheet(c)
  BY <1>1, <1>2, <1>3, OpeningKeeps
<1>4. CASE ~call[c].aborted /\ Ends(c, "CEREMONY_FAILED") /\ UNCHANGED <<sheet, ticket, taken>>
  <2>1. Active(c) /\ "CEREMONY_FAILED" \in Results
    BY <1>1, <1>2, <1>4 DEF Ceremonial, Results
  <2>2. /\ CallInv' /\ call'[c].step = "over" /\ call'[c].hook = call[c].hook
        /\ \A d \in PasskeyCalls : d # c => call'[d] = call[d]
    BY <1>1, <1>4, <2>1, EndsKeeps
  <2>3. SheetInv'
    BY <1>1, <1>4, <2>2 DEF SheetInv, Waiting, NoCall
  <2>4. TakenInv'
    BY <1>1, <1>4, <2>2 DEF TakenInv
  <2> QED  BY <2>2, <2>3, <2>4
<1>5. CASE UNCHANGED <<call, lock, sheet, ticket, taken>>
  <2>1. CallInv'
    BY <1>1, <1>5 DEF CallInv, CallTyped, LockIsHeld, OneCeremony, Ceremonial, Active
  <2> QED  BY <1>1, <1>5, <2>1 DEF SheetInv, TakenInv, Waiting, Early
<1> QED  BY <1>3, <1>4, <1>5 DEF Loaded

\* What a ceremony that is given up leaves of the calls.
GaveUp(cs) ==
  /\ call' \in [PasskeyCalls -> CallRecords]
  /\ \A d \in PasskeyCalls :
       /\ call'[d].hook = call[d].hook /\ call'[d].kind = call[d].kind
       /\ call[d].aborted => call'[d].aborted
       /\ d \in cs => call'[d].step = "over" /\ call'[d].aborted
       /\ d \notin cs => call'[d].step = call[d].step

LEMMA GivingUpIs ==
  ASSUME CallInv, NEW cs \in SUBSET PasskeyCalls, NEW its, cs \subseteq its, NEW code \in Results,
         call' = [c \in PasskeyCalls |-> [Over(cs, code)[c] EXCEPT !.aborted = @ \/ c \in its]]
  PROVE  GaveUp(cs)
<1> DEFINE over == Over(cs, code)
<1>1. /\ over \in [PasskeyCalls -> CallRecords]
      /\ \A d \in PasskeyCalls :
           /\ over[d].hook = call[d].hook /\ over[d].kind = call[d].kind
           /\ over[d].aborted = call[d].aborted
           /\ d \in cs => over[d].step = "over"
           /\ d \notin cs => over[d] = call[d]
  BY OverIs
<1> HIDE DEF over
<1>2. call' = [c \in PasskeyCalls |-> [over[c] EXCEPT !.aborted = @ \/ c \in its]]
  BY DEF over
<1>3. ASSUME NEW d \in PasskeyCalls
      PROVE  /\ call'[d] \in CallRecords
             /\ call'[d].hook = over[d].hook /\ call'[d].kind = over[d].kind
             /\ call'[d].step = over[d].step
             /\ over[d].aborted \/ d \in its => call'[d].aborted
  <2> DEFINE b == over[d].aborted \/ d \in its
  <2>1. b \in BOOLEAN /\ (over[d].aborted \/ d \in its => b)
    OBVIOUS
  <2>2. call'[d] = [over[d] EXCEPT !.aborted = b]
    BY <1>2
  <2> HIDE DEF b
  <2>3. over[d] \in CallRecords
    BY <1>1
  <2> QED  BY <2>1, <2>2, <2>3 DEF CallRecords
<1>4. call' \in [PasskeyCalls -> CallRecords]
  BY <1>2, <1>3
<1> QED  BY <1>1, <1>3, <1>4 DEF GaveUp

\* Ceremonies that are given up: they end, with their abort, and the sheet may go.
LEMMA GivingUpKeeps ==
  ASSUME PasskeyInv, NEW cs \in SUBSET PasskeyCalls, \A c \in cs : Waiting(c), NEW code,
         GaveUp(cs), lock' = Released(cs, code), CancelSheet(cs), mounted' \subseteq mounted,
         UNCHANGED <<platform, loading, live>>
  PROVE  PasskeyInv'
<1> USE DEF PasskeyInv
<1>1. /\ call' \in [PasskeyCalls -> CallRecords]
      /\ \A d \in PasskeyCalls :
           /\ call'[d].hook = call[d].hook /\ call'[d].kind = call[d].kind
           /\ call[d].aborted => call'[d].aborted
           /\ d \in cs => call'[d].step = "over" /\ call'[d].aborted
           /\ d \notin cs => call'[d].step = call[d].step
  BY DEF GaveUp
<1>2. CallInv'
  <2>1. \A d \in PasskeyCalls : Active(d)' <=> Active(d) /\ d \notin cs
    BY <1>1 DEF Active
  <2>2. \A d \in cs : Active(d)
    BY DEF Active, Waiting
  <2>3. \A d \in PasskeyCalls :
          call'[d].step \in {"ceremony", "finish", "store", "confirm", "storing"} => call[d].kind \in Ceremonies
    BY <1>1 DEF CallInv, OneCeremony
  <2> QED  BY <1>1, <2>1, <2>2, <2>3, MovingKeepsCalls
<1>3. SheetInv'
  <2>1. sheet' \in {sheet, NoCall} /\ ticket' \in {ticket, NoCall}
    BY DEF CancelSheet
  <2>2. \A c \in loading : (Waiting(c) \/ call[c].aborted)'
    <3>1. \A c \in loading : c \in PasskeyCalls /\ (Waiting(c) \/ call[c].aborted)
      BY DEF SheetInv
    <3> SUFFICES ASSUME NEW c \in loading PROVE (Waiting(c) \/ call[c].aborted)'
      OBVIOUS
    <3>2. CASE c \in cs
      BY <1>1, <3>2
    <3>3. CASE c \notin cs /\ Waiting(c)
      BY <1>1, <3>1, <3>3 DEF Waiting
    <3>4. CASE call[c].aborted
      BY <1>1, <3>1, <3>4
    <3> QED  BY <3>1, <3>2, <3>3, <3>4
  <2>3. sheet' # NoCall => sheet' = sheet /\ call'[sheet].step \notin Early
    <3>1. sheet # NoCall => sheet \in PasskeyCalls /\ call[sheet].step \notin Early
      BY DEF SheetInv
    <3> QED  BY <1>1, <2>1, <3>1 DEF Early
  <2> QED  BY <2>1, <2>2, <2>3, CallsAre DEF SheetInv
<1>4. TakenInv'
  <2>1. taken' = taken
    BY DEF CancelSheet
  <2>2. \A d \in PasskeyCalls : call'[d].hook = call[d].hook
          /\ (call[d].step # "idle" => call'[d].step # "idle")
    BY <1>1
  <2> QED  BY <2>1, <2>2 DEF TakenInv
<1> QED  BY <1>2, <1>3, <1>4

LEMMA CallStepKeeps ==
  ASSUME PasskeyInv, NEW c \in PasskeyCalls, CallStep(c)
  PROVE  PasskeyInv'
<1> USE DEF PasskeyInv
<1>1. {"NOT_STARTED", "CEREMONY_CANCELLED", "CEREMONY_FAILED", "OK", "REQUEST_FAILED"} \subseteq Results
      /\ Codes \subseteq Results
  BY DEF Results, Codes
\* A call that ends.
<1>2. ASSUME Active(c), ~Waiting(c), NEW code \in Results, Ends(c, code),
             UNCHANGED <<platform, sheet, loading, mounted, taken>>,
             ticket' \in PasskeyCalls \cup {NoCall}, live' \in PasskeyCalls \cup {Elsewhere, NoCall}
      PROVE  PasskeyInv'
  <2>1. /\ CallInv' /\ call'[c].step = "over" /\ call'[c].hook = call[c].hook
        /\ call'[c].aborted = call[c].aborted
        /\ \A d \in PasskeyCalls : d # c => call'[d] = call[d]
    BY <1>2, EndsKeeps
  <2>2. SheetInv' /\ TakenInv'
    BY <1>2, <2>1, OneCallMoves DEF Active, Early
  <2> QED  BY <2>1, <2>2
\* A call that goes on, not to its sheet.
<1>3. ASSUME Active(c), ~Waiting(c), NEW step \in {"begin", "store", "confirm", "storing"}, Goes(c, step),
             step = "begin" => call[c].step = "prepare", step # "begin" => call[c].kind \in Ceremonies,
             UNCHANGED <<platform, sheet, ticket, loading, mounted, taken>>,
             live' \in PasskeyCalls \cup {Elsewhere, NoCall}
      PROVE  PasskeyInv'
  <2>1. step \in Steps /\ step \notin {"idle", "over"}
    BY DEF Steps
  <2>2. /\ CallInv' /\ call'[c].step = step /\ call'[c].hook = call[c].hook
        /\ call'[c].aborted = call[c].aborted
        /\ \A d \in PasskeyCalls : d # c => call'[d] = call[d]
    BY <1>3, <2>1, GoesKeeps
  <2>3. SheetInv' /\ TakenInv'
    BY <1>3, <2>2, OneCallMoves DEF Active, Early, SheetInv
  <2> QED  BY <2>2, <2>3
<1>4. live \in PasskeyCalls \cup {Elsewhere, NoCall} /\ ticket \in PasskeyCalls \cup {NoCall}
      /\ NoCall \in PasskeyCalls \cup {NoCall} /\ c # NoCall
  BY CallsAre DEF SheetInv
<1>5. CASE Prepare(c)
  <2>1. Active(c) /\ ~Waiting(c)
    BY <1>5 DEF Prepare, Active, Waiting
  <2> QED  BY <1>1, <1>2, <1>3, <1>4, <1>5, <2>1 DEF Prepare
<1>6. CASE BeginAnswered(c)
  <2>1. Active(c) /\ ~Waiting(c) /\ UNCHANGED <<platform, mounted, live>> /\ call[c].step = "begin"
    BY <1>6 DEF BeginAnswered, Active, Waiting
  <2>2. CASE call[c].kind \in Ceremonies /\ Invoke(c)
    <3>1. Ceremonial(c) /\ c # sheet
      BY <2>1, <2>2, <1>4 DEF Ceremonial, SheetInv, Early
    <3>2. CASE Ends(c, "CEREMONY_CANCELLED") /\ UNCHANGED <<sheet, ticket, loading, taken>>
      BY <1>1, <1>2, <1>4, <2>1, <3>2
    <3>3. CASE platform.native /\ OpenSheet(c) /\ UNCHANGED loading
      <4>1. loading' = loading \ {c}
        BY <3>3 DEF SheetInv
      <4> QED  BY <2>1, <3>1, <3>3, <4>1, OpeningKeeps
    <3>4. CASE RefuseSheet(c) /\ UNCHANGED loading
      BY <1>1, <1>2, <1>4, <2>1, <3>4 DEF RefuseSheet
    <3>5. CASE /\ ~platform.native /\ Goes(c, "ceremony") /\ loading' = loading \cup {c}
               /\ UNCHANGED <<sheet, ticket, taken>>
      <4>1. "ceremony" \in Steps
        BY DEF Steps
      <4>2. /\ CallInv' /\ call'[c].step = "ceremony" /\ call'[c].hook = call[c].hook
            /\ call'[c].aborted = call[c].aborted
            /\ \A d \in PasskeyCalls : d # c => call'[d] = call[d]
        BY <2>1, <2>2, <3>5, <4>1, GoesKeeps
      <4>3. SheetInv'
        BY <2>1, <3>1, <3>5, <4>2 DEF SheetInv, Waiting, Early, NoCall
      <4>4. TakenInv'
        BY <2>1, <3>5, <4>2 DEF TakenInv
      <4> QED  BY <4>2, <4>3, <4>4
    <3> QED  BY <2>2, <3>2, <3>3, <3>4, <3>5 DEF Invoke
  <2>3. ASSUME NEW a, call' = Over({c}, IF a = Ok THEN "OK" ELSE PasskeyRequest(a, Surface(call[c].kind))),
               lock' = Released({c}, "BEGIN"), UNCHANGED <<sheet, ticket, loading, taken>>
        PROVE  PasskeyInv'
    <3> DEFINE code == IF a = Ok THEN "OK" ELSE PasskeyRequest(a, Surface(call[c].kind))
    <3>1. code \in Results
      BY <1>1, RequestCodes
    <3>2. Released({c}, "BEGIN") = Released({c}, code)
      BY DEF Released
    <3> HIDE DEF code
    <3>3. Ends(c, code)
      BY <2>3, <3>2 DEF Ends, code
    <3> QED  BY <1>2, <1>4, <2>1, <2>3, <3>1, <3>3
  <2> QED  BY <1>6, <2>2, <2>3 DEF BeginAnswered
<1>7. CASE FinishAnswered(c)
  <2>1. Active(c) /\ ~Waiting(c) /\ UNCHANGED <<platform, sheet, ticket, loading, mounted, live, taken>>
    BY <1>7 DEF FinishAnswered, Active, Waiting
  <2>2. CASE call[c].kind = "signIn" /\ Goes(c, "store")
    BY <1>3, <1>4, <2>1, <2>2 DEF Ceremonies
  <2>3. ASSUME NEW a, Ends(c, IF a = Ok THEN "OK" ELSE Refused(call[c].kind, a)) PROVE PasskeyInv'
    <3> DEFINE code == IF a = Ok THEN "OK" ELSE Refused(call[c].kind, a)
    <3>1. code \in Results
      BY <1>1, RefusedCodes
    <3> HIDE DEF code
    <3> QED  BY <1>2, <1>4, <2>1, <2>3, <3>1 DEF code
  <2> QED  BY <1>7, <2>2, <2>3 DEF FinishAnswered
<1>8. CASE StoreOnDevice(c)
  <2>1. /\ Active(c) /\ ~Waiting(c) /\ call[c].kind \in Ceremonies
        /\ UNCHANGED <<platform, sheet, ticket, loading, mounted, taken>>
    BY <1>8 DEF StoreOnDevice, Active, Waiting, CallInv, OneCeremony
  <2> QED  BY <1>1, <1>2, <1>3, <1>4, <1>8, <2>1 DEF StoreOnDevice
<1>9. CASE Confirm(c) \/ StoreInBrowser(c) \/ StoredInBrowser(c)
  <2>1. Active(c) /\ ~Waiting(c) /\ UNCHANGED <<platform, sheet, ticket, loading, mounted, taken>>
    BY <1>9 DEF Confirm, StoreInBrowser, StoredInBrowser, Active, Waiting
  <2>2. call[c].step = "store" => call[c].kind \in Ceremonies
    BY DEF CallInv, OneCeremony
  <2> QED
    BY <1>1, <1>2, <1>3, <1>4, <1>9, <2>1, <2>2 DEF Confirm, StoreInBrowser, StoredInBrowser
<1> QED  BY <1>5, <1>6, <1>7, <1>8, <1>9 DEF CallStep

LEMMA AuthenticatorKeeps ==
  ASSUME PasskeyInv, Authenticator
  PROVE  PasskeyInv'
<1> USE DEF PasskeyInv
<1> DEFINE c == sheet
<1>1. /\ c \in PasskeyCalls /\ sheet' = NoCall /\ ticket' \in {NoCall, ticket} /\ c \notin loading
      /\ UNCHANGED <<platform, loading, mounted, live, taken>>
  BY DEF Authenticator, SheetInv
<1>2. ASSUME CallInv', call'[c].step \in {"finish", "over"}, call'[c].hook = call[c].hook,
             \A d \in PasskeyCalls : d # c => call'[d] = call[d]
      PROVE  PasskeyInv'
  <2>1. SheetInv'
    BY <1>1, <1>2, CallsAre DEF SheetInv, Waiting
  <2>2. TakenInv'
    BY <1>1, <1>2 DEF TakenInv
  <2> QED  BY <1>2, <2>1, <2>2
<1>3. Waiting(c) => Active(c) /\ call[c].kind \in Ceremonies
  BY <1>1 DEF Waiting, Active, CallInv, OneCeremony
<1>4. CASE Waiting(c) /\ Goes(c, "finish")
  <2>1. "finish" \in Steps
    BY DEF Steps
  <2> QED  BY <1>1, <1>2, <1>3, <1>4, <2>1, GoesKeeps
<1>5. ASSUME Waiting(c), NEW code \in Rejections, Ends(c, code) PROVE PasskeyInv'
  <2>1. code \in Results
    BY DEF Rejections, Results
  <2> QED  BY <1>1, <1>2, <1>3, <1>5, <2>1, EndsKeeps
<1>6. CASE UNCHANGED <<call, lock>>
  <2>1. CallInv'
    BY <1>1, <1>6 DEF CallInv, CallTyped, LockIsHeld, OneCeremony, Ceremonial, Active
  <2> QED  BY <1>1, <1>6, <2>1, CallsAre DEF SheetInv, TakenInv, Waiting, Early
<1> QED  BY <1>4, <1>5, <1>6 DEF Authenticator

LEMMA TimeOutKeeps ==
  ASSUME PasskeyInv, NEW c \in PasskeyCalls, TimeOut(c)
  PROVE  PasskeyInv'
<1> DEFINE code == "CEREMONY_TIMED_OUT"
           over == Over({c}, code)
<1>1. /\ Waiting(c) /\ call' = [over EXCEPT ![c].aborted = TRUE] /\ lock' = Released({c}, code)
      /\ CancelSheet({c}) /\ UNCHANGED <<platform, loading, mounted, live>>
  BY DEF TimeOut
<1>2. code \in Results
  BY DEF Results
<1> HIDE DEF code
<1>3. {c} \in SUBSET PasskeyCalls /\ CallInv
  BY DEF PasskeyInv
<1>4. /\ over \in [PasskeyCalls -> CallRecords]
      /\ \A d \in PasskeyCalls :
           /\ over[d].hook = call[d].hook /\ over[d].kind = call[d].kind
           /\ over[d].aborted = call[d].aborted
           /\ d \in {c} => over[d].step = "over" /\ over[d].result = code
           /\ d \notin {c} => over[d] = call[d]
  BY <1>2, <1>3, OverIs
<1> HIDE DEF over
<1>5. GaveUp({c})
  BY <1>1, <1>4 DEF GaveUp, CallRecords
<1> QED  BY <1>1, <1>3, <1>5, GivingUpKeeps

LEMMA UnmountKeeps ==
  ASSUME PasskeyInv, NEW h \in Hooks, UnmountHook(h)
  PROVE  PasskeyInv'
<1> DEFINE its == {c \in PasskeyCalls : Active(c) /\ call[c].hook = h}
           cs == {c \in its : Waiting(c)}
           code == "CEREMONY_CANCELLED"
<1>1. /\ call' = [c \in PasskeyCalls |-> [Over(cs, code)[c] EXCEPT !.aborted = @ \/ c \in its]]
      /\ lock' = Released(cs, code) /\ CancelSheet(cs) /\ mounted' = mounted \ {h}
      /\ UNCHANGED <<platform, loading, live>>
  BY DEF UnmountHook
<1>2. code \in Results /\ cs \in SUBSET PasskeyCalls /\ cs \subseteq its /\ \A c \in cs : Waiting(c)
  BY DEF Results
<1> HIDE DEF its, cs, code
<1>3. GaveUp(cs)
  BY <1>1, <1>2, GivingUpIs DEF PasskeyInv
<1> QED  BY <1>1, <1>2, <1>3, GivingUpKeeps

LEMMA PasskeysStart == PasskeyInit => PasskeyInv
<1> SUFFICES ASSUME PasskeyInit PROVE PasskeyInv
  OBVIOUS
<1>1. (CHOOSE h \in Hooks : TRUE) \in Hooks
  BY PasskeysAssumption
<1>2. /\ call \in [PasskeyCalls -> CallRecords] /\ platform \in Platforms /\ lock = FALSE
      /\ \A c \in PasskeyCalls : call[c].step = "idle"
  BY <1>1 DEF PasskeyInit, CallRecords, Kinds, Steps, Results
<1>3. \A c \in PasskeyCalls : ~Active(c)
  BY <1>2 DEF Active
<1>4. CallInv
  BY <1>2, <1>3 DEF CallInv, CallTyped, LockIsHeld, OneCeremony, Ceremonial
<1>5. SheetInv /\ TakenInv
  BY DEF PasskeyInit, SheetInv, TakenInv
<1> QED  BY <1>4, <1>5 DEF PasskeyInv

LEMMA PasskeysStep == PasskeyInv /\ [PasskeyNext]_passkeyVars => PasskeyInv'
<1> SUFFICES ASSUME PasskeyInv, [PasskeyNext]_passkeyVars PROVE PasskeyInv'
  OBVIOUS
<1>1. CASE OtherSession \/ UNCHANGED passkeyVars
  <2>1. /\ UNCHANGED <<platform, call, sheet, ticket, loading, lock, mounted, taken>>
        /\ live' \in PasskeyCalls \cup {Elsewhere, NoCall}
    BY <1>1 DEF OtherSession, passkeyVars, PasskeyInv, SheetInv
  <2>2. CallInv'
    BY <2>1 DEF PasskeyInv, CallInv, CallTyped, LockIsHeld, OneCeremony, Ceremonial, Active
  <2> QED  BY <2>1, <2>2 DEF PasskeyInv, SheetInv, TakenInv, Waiting, Early
<1> QED
  BY <1>1, StartKeeps, CallStepKeeps, LoadedKeeps, TimeOutKeeps, UnmountKeeps, AuthenticatorKeeps
     DEF PasskeyNext

LEMMA PasskeysHold == PasskeySpec => []PasskeyInv
BY PasskeysStart, PasskeysStep, PTL DEF PasskeySpec

LEMMA PasskeyInvIsTyped == PasskeyInv => PasskeyTypeOK
BY DEF PasskeyInv, CallInv, CallTyped, LockIsHeld, Ceremonial, CallRecords, SheetInv, PasskeyTypeOK

\* A call that waits for its sheet loses it to nobody on the device, and in the browser only
\* to a ceremony of another hook: passkeyCeremonyLock, and the hooks' own busy sets.
THEOREM SheetsAreKept == PasskeySpec => []SheetIsOwn
<1>1. PasskeyInv => SheetIsOwn
  BY DEF PasskeyInv, TakenInv, SheetIsOwn
<1> QED  BY <1>1, PasskeysHold, PTL

\* What the steps leave of the results.
LEMMA OverResults ==
  ASSUME CallInv, NEW cs, NEW code, NEW d \in PasskeyCalls
  PROVE  /\ d \in cs => Over(cs, code)[d].result = code
         /\ d \notin cs => Over(cs, code)[d].result = call[d].result
<1>1. call[d] \in CallRecords
  BY DEF CallInv, CallTyped
<1>2. [call[d] EXCEPT !.step = "over", !.result = code].result = code
  BY <1>1 DEF CallRecords
<1> QED  BY <1>2 DEF Over

LEMMA ResultsAre ==
  ASSUME CallInv, NEW c \in PasskeyCalls
  PROVE  /\ \A code : Ends(c, code) => call'[c].result = code
                        /\ \A d \in PasskeyCalls : d # c => call'[d].result = call[d].result
         /\ \A step : Goes(c, step) => \A d \in PasskeyCalls : call'[d].result = call[d].result
         /\ OpenSheet(c) =>
              /\ \A d \in PasskeyCalls : call'[d].result \in {call[d].result, "CEREMONY_CANCELLED"}
              /\ sheet' = c /\ call'[c].step = "ceremony"
<1>1. call \in [PasskeyCalls -> CallRecords]
  BY DEF CallInv, CallTyped
<1>2. ASSUME NEW code, Ends(c, code)
      PROVE  call'[c].result = code /\ \A d \in PasskeyCalls : d # c => call'[d].result = call[d].result
  BY <1>2, OverResults DEF Ends
<1>3. ASSUME NEW step, Goes(c, step)
      PROVE  \A d \in PasskeyCalls : call'[d].result = call[d].result
  BY <1>1, <1>3 DEF Goes, CallRecords
<1>4. ASSUME OpenSheet(c)
      PROVE  /\ \A d \in PasskeyCalls : call'[d].result \in {call[d].result, "CEREMONY_CANCELLED"}
             /\ sheet' = c /\ call'[c].step = "ceremony"
  <2> DEFINE robbed == {d \in {sheet} \ {NoCall} : Waiting(d)}
             ended == Over(robbed, "CEREMONY_CANCELLED")
  <2>1. call' = [ended EXCEPT ![c].step = "ceremony"] /\ sheet' = c
    BY <1>4 DEF OpenSheet
  <2>2. ended \in [PasskeyCalls -> CallRecords]
    BY <1>1 DEF Over, CallRecords, Steps, Results
  <2>3. \A d \in PasskeyCalls : ended[d].result \in {call[d].result, "CEREMONY_CANCELLED"}
    BY OverResults
  <2> HIDE DEF ended
  <2> QED  BY <2>1, <2>2, <2>3 DEF CallRecords
<1> QED  BY <1>2, <1>3, <1>4

LEMMA NotLoading ==
  ASSUME PasskeyInv, NEW c \in PasskeyCalls, c \in loading
  PROVE  Waiting(c) \/ call[c].aborted
BY DEF PasskeyInv, SheetInv

\* No sheet opens for a call that was over, or had been given up, before: the signal is
\* looked at again once the library is there.
THEOREM SheetsAreForSomebody == PasskeySpec => NoSheetForNobody
<1> DEFINE ForSomebody ==
      sheet' # sheet /\ sheet' # NoCall =>
        /\ Active(sheet') /\ ~call[sheet'].aborted
        /\ call'[sheet'].step = "ceremony"
<1>1. ASSUME PasskeyInv, [PasskeyNext]_passkeyVars PROVE ForSomebody
  <2> USE <1>1 DEF PasskeyInv
  <2>1. ASSUME NEW c \in PasskeyCalls, OpenSheet(c), Active(c), ~call[c].aborted PROVE ForSomebody
    <3>1. sheet' = c /\ call'[c].step = "ceremony"
      BY <2>1, ResultsAre
    <3> QED  BY <2>1, <3>1
  <2>2. ASSUME NEW c \in PasskeyCalls, Loaded(c) PROVE ForSomebody
    <3>1. ~call[c].aborted => Active(c)
      BY <2>2, NotLoading DEF Loaded, Waiting, Active
    <3> QED  BY <2>1, <2>2, <3>1 DEF Loaded
  <2>3. ASSUME NEW c \in PasskeyCalls, BeginAnswered(c) PROVE ForSomebody
    <3>1. Active(c)
      BY <2>3 DEF BeginAnswered, Active
    <3> QED  BY <2>1, <2>3, <3>1 DEF BeginAnswered, Invoke, RefuseSheet
  <2>4. ASSUME NEW c \in PasskeyCalls, TimeOut(c) PROVE ForSomebody
    BY <2>4 DEF TimeOut, CancelSheet
  <2>5. ASSUME NEW h \in Hooks, UnmountHook(h) PROVE ForSomebody
    BY <2>5 DEF UnmountHook, CancelSheet
  <2>6. CASE Authenticator
    BY <2>6 DEF Authenticator
  <2>7. CASE UNCHANGED sheet
    BY <2>7
  <2>8. ASSUME NEW c \in PasskeyCalls, NEW h, NEW k,
               \/ StartCall(c, h, k) \/ Prepare(c) \/ FinishAnswered(c) \/ StoreOnDevice(c)
               \/ Confirm(c) \/ StoreInBrowser(c) \/ StoredInBrowser(c)
        PROVE  UNCHANGED sheet
    BY <2>8 DEF StartCall, Prepare, FinishAnswered, StoreOnDevice, Confirm, StoreInBrowser, StoredInBrowser
  <2> QED
    BY <2>2, <2>3, <2>4, <2>5, <2>6, <2>7, <2>8
       DEF PasskeyNext, CallStep, OtherSession, passkeyVars
<1> QED  BY <1>1, PasskeysHold, PTL DEF PasskeySpec, NoSheetForNobody

\* On the device a sign-in reported as done has made the live session: it is read back.
THEOREM SignedInIsLive == PasskeySpec => SignInIsLive
<1> DEFINE Live(c) ==
      platform.native /\ call[c].kind = "signIn" /\ call[c].result = "" /\ call'[c].result = "OK" =>
        live' = c
<1>1. ASSUME PasskeyInv, [PasskeyNext]_passkeyVars PROVE \A c \in PasskeyCalls : Live(c)
  <2> USE <1>1 DEF PasskeyInv
  <2>1. ASSUME NEW c \in PasskeyCalls, NEW code, Ends(c, code),
               platform.native /\ code = "OK" /\ call[c].kind = "signIn" => live' = c
        PROVE  \A d \in PasskeyCalls : Live(d)
    BY <2>1, ResultsAre
  <2>2. ASSUME NEW c \in PasskeyCalls, NEW step, Goes(c, step) PROVE \A d \in PasskeyCalls : Live(d)
    BY <2>2, ResultsAre
  <2>3. ASSUME NEW c \in PasskeyCalls, OpenSheet(c) PROVE \A d \in PasskeyCalls : Live(d)
    BY <2>3, ResultsAre
  <2>4. ASSUME \A d \in PasskeyCalls : call'[d].result \in {call[d].result, "CEREMONY_CANCELLED",
                                                            "CEREMONY_TIMED_OUT"}
        PROVE  \A d \in PasskeyCalls : Live(d)
    BY <2>4
  <2>5. ASSUME NEW c \in PasskeyCalls, Prepare(c) PROVE \A d \in PasskeyCalls : Live(d)
    BY <2>1, <2>2, <2>5 DEF Prepare
  <2>6. ASSUME NEW c \in PasskeyCalls, BeginAnswered(c) PROVE \A d \in PasskeyCalls : Live(d)
    <3>1. CASE Invoke(c)
      <4>1. CASE call[c].aborted
        BY <2>1, <3>1, <4>1 DEF Invoke
      <4>2. CASE RefuseSheet(c)
        BY <2>1, <4>2 DEF RefuseSheet
      <4> QED  BY <2>2, <2>3, <3>1, <4>1, <4>2 DEF Invoke
    <3>2. ASSUME NEW a, call[c].kind \in Ceremonies => a # Ok,
                 call' = Over({c}, IF a = Ok THEN "OK" ELSE PasskeyRequest(a, Surface(call[c].kind)))
          PROVE  \A d \in PasskeyCalls : Live(d)
      <4> DEFINE code == IF a = Ok THEN "OK" ELSE PasskeyRequest(a, Surface(call[c].kind))
      <4>1. call[c].kind = "signIn" => code # "OK"
        BY <3>2, RequestCodes DEF Ceremonies, Codes
      <4> HIDE DEF code
      <4>2. call' = Over({c}, code)
        BY <3>2 DEF code
      <4>3. call'[c].result = code /\ \A d \in PasskeyCalls : d # c => call'[d].result = call[d].result
        BY <4>2 DEF Over, CallInv, CallTyped, CallRecords
      <4> QED  BY <4>1, <4>3
    <3> QED  BY <2>6, <3>1, <3>2 DEF BeginAnswered
  <2>7. ASSUME NEW c \in PasskeyCalls, FinishAnswered(c) PROVE \A d \in PasskeyCalls : Live(d)
    <3>1. ASSUME NEW a, call[c].kind = "signIn" => a # Ok,
                 Ends(c, IF a = Ok THEN "OK" ELSE Refused(call[c].kind, a))
          PROVE  \A d \in PasskeyCalls : Live(d)
      <4> DEFINE code == IF a = Ok THEN "OK" ELSE Refused(call[c].kind, a)
      <4>1. call[c].kind = "signIn" => code # "OK"
        BY <3>1, RefusedCodes DEF Codes
      <4> HIDE DEF code
      <4> QED  BY <2>1, <3>1, <4>1 DEF code
    <3> QED  BY <2>2, <2>7, <3>1 DEF FinishAnswered
  <2>8. ASSUME NEW c \in PasskeyCalls,
               StoreOnDevice(c) \/ Confirm(c) \/ StoreInBrowser(c) \/ StoredInBrowser(c)
        PROVE  \A d \in PasskeyCalls : Live(d)
    BY <2>1, <2>2, <2>8 DEF StoreOnDevice, Confirm, StoreInBrowser, StoredInBrowser
  <2>9. ASSUME NEW c \in PasskeyCalls, Loaded(c) PROVE \A d \in PasskeyCalls : Live(d)
    BY <2>1, <2>3, <2>4, <2>9 DEF Loaded
  <2>10. ASSUME NEW c \in PasskeyCalls, NEW h, NEW k, StartCall(c, h, k) PROVE \A d \in PasskeyCalls : Live(d)
    <3>1. \A d \in PasskeyCalls : call'[d].result = call[d].result
      BY <2>10 DEF StartCall, CallInv, CallTyped, CallRecords
    <3> QED  BY <2>4, <3>1
  <2>11. ASSUME NEW c \in PasskeyCalls, TimeOut(c) PROVE \A d \in PasskeyCalls : Live(d)
    <3>1. \A d \in PasskeyCalls : call'[d].result \in {call[d].result, "CEREMONY_TIMED_OUT"}
      BY <2>11 DEF TimeOut, Over, CallInv, CallTyped, CallRecords
    <3> QED  BY <2>4, <3>1
  <2>12. ASSUME NEW h \in Hooks, UnmountHook(h) PROVE \A d \in PasskeyCalls : Live(d)
    <3>1. \A d \in PasskeyCalls : call'[d].result \in {call[d].result, "CEREMONY_CANCELLED"}
      BY <2>12 DEF UnmountHook, Over, CallInv, CallTyped, CallRecords
    <3> QED  BY <2>4, <3>1
  <2>13. CASE Authenticator
    <3>1. sheet \in PasskeyCalls
      BY <2>13 DEF Authenticator, SheetInv
    <3>2. \A code \in Rejections : code # "OK"
      BY DEF Rejections
    <3> QED  BY <2>1, <2>2, <2>4, <2>13, <3>1, <3>2 DEF Authenticator
  <2>14. CASE UNCHANGED call
    BY <2>4, <2>14
  <2> QED
    BY <2>5, <2>6, <2>7, <2>8, <2>9, <2>10, <2>11, <2>12, <2>13, <2>14
       DEF PasskeyNext, CallStep, OtherSession, passkeyVars
<1> QED  BY <1>1, PasskeysHold, PTL DEF PasskeySpec, SignInIsLive

-----------------------------------------------------------------------------
(* The parts side by side. *)

\* A step of one part is a step or a stutter of each.
LEMMA PartsTakeTurns ==
  [SdkNext]_<<vars, passkeyVars, signInVars, part>> =>
    [Next]_vars /\ [PasskeyNext]_passkeyVars /\ [SignInNext]_signInVars
BY Zenon DEF SdkNext, RuntimeStep, PasskeyStep, FlowsStep

LEMMA SdkHasParts == SdkSpec => Spec /\ PasskeySpec /\ SignInSpec
<1>1. SdkInit => Init /\ PasskeyInit /\ FlowInit
  BY DEF SdkInit
<1> QED
  BY <1>1, PartsTakeTurns, PTL DEF SdkSpec, Spec, PasskeySpec, SignInSpec

\* Whatever part runs, every variable of the three keeps its type; that of the passkeys
\* says more: the device's lock is held exactly while a ceremony is under way.
THEOREM SdkTyping == SdkSpec => []SdkTypeOK
<1>1. TypeOK /\ PasskeyTypeOK /\ SignInTypeOK => SdkTypeOK
  BY DEF SdkTypeOK
<1> QED
  BY <1>1, SdkHasParts, Typing, PasskeysHold, PasskeyInvIsTyped, FlowsHold, NoncesHold,
     StoresAreTyped, FlowsAreTyped, PTL
=============================================================================
