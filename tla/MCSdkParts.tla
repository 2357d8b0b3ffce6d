----------------------------- MODULE MCSdkParts -----------------------------
(***************************************************************************)
(* Three parts of the browser and React Native packages that share no      *)
(* state, one per behaviour: the React Native token runtime, the passkey   *)
(* ceremonies of both packages, and React Native's sign-in flows with the  *)
(* submit nonces.  The parts that a behaviour does not run stay in their   *)
(* initial state, so the instance has the states of each part, not the     *)
(* product of them.                                                        *)
(***************************************************************************)
EXTENDS RnTokenRuntime, Passkeys, SignInFlows

VARIABLE part  \* the part that runs

On(native, cancels, kinds, answers) ==
  [native |-> native, cancels |-> cancels, kinds |-> kinds, answers |-> answers]
Few == {Ok, NextStep, Network}
MCPlatforms == {
  On(TRUE, TRUE, {"signIn"}, Few),
  On(TRUE, FALSE, {"register", "stepUp"}, Few),
  On(TRUE, TRUE, {"list", "rename"}, Few),
  On(FALSE, TRUE, {"signIn"}, Few),
  On(FALSE, TRUE, {"delete", "register"}, Answers)}

MCApps == {
  [kinds |-> {"component", "direct", "kill"}, serial |-> TRUE, dpop |-> FALSE],
  [kinds |-> {"social", "direct"}, serial |-> FALSE, dpop |-> TRUE],
  [kinds |-> {"social", "kill"}, serial |-> TRUE, dpop |-> TRUE]}

SdkTypeOK == TypeOK /\ PasskeyTypeOK /\ SignInTypeOK

SdkInit ==
  /\ part \in {"runtime", "passkeys", "flows"}
  /\ Init /\ PasskeyInit /\ FlowInit
  /\ part # "runtime" => calls = {} /\ stored = NoToken
  /\ part # "passkeys" => platform = CHOOSE p \in Platforms : TRUE
  /\ part # "flows" => app = CHOOSE a \in Apps : TRUE

RuntimeStep == part = "runtime" /\ Next /\ UNCHANGED <<passkeyVars, signInVars, part>>
PasskeyStep == part = "passkeys" /\ PasskeyNext /\ UNCHANGED <<vars, signInVars, part>>
FlowsStep == part = "flows" /\ SignInNext /\ UNCHANGED <<vars, passkeyVars, part>>

SdkNext == RuntimeStep \/ PasskeyStep \/ FlowsStep

SdkSpec ==
  /\ SdkInit /\ [][SdkNext]_<<vars, passkeyVars, signInVars, part>>
  /\ RuntimeFairness /\ PasskeyFairness
=============================================================================
