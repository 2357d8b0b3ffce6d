----------------------------- MODULE MCToolParts -----------------------------
(***************************************************************************)
(* Four parts of the Node SDK and the CLI that share no state, one per     *)
(* behaviour: a resource server's token verification, the device flows,    *)
(* the CLI's logins and key, and DPoP sessions.  The parts that a          *)
(* behaviour does not run stay in their initial state, so the instance has *)
(* the states of each part, not the product of them.                       *)
(***************************************************************************)
EXTENDS TokenVerification, DevicePolling, CliLogin, NodeDpopSession

VARIABLE part  \* the part that runs

Token(kid, iat, isBound, flaw) == [kid |-> kid, iat |-> iat, bound |-> isBound, flaw |-> flaw]
Proof(jti, flaw) == [jti |-> jti, flaw |-> flaw]
NoProof == Proof(0, "none")
Shown(scheme, token, proof) == [scheme |-> scheme, token |-> token, proof |-> proof]

MCDocuments == <<
  [keys |-> {1}, epoch |-> 0, maxAge |-> 2],
  [keys |-> {1, 2}, epoch |-> 1, maxAge |-> 2],
  [keys |-> {2}, epoch |-> 2, maxAge |-> 2]>>

\* Unbound tokens and the address of the key set; bound ones, without and with
\* the onJti hook; tokens the middleware refuses, with discovery.
MCScenarios == {
  [source |-> "url", typ |-> FALSE, onJti |-> FALSE, presented |-> {
     Shown("bearer", Token(1, 0, FALSE, "none"), NoProof),
     Shown("bearer", Token(2, 2, FALSE, "environment"), NoProof),
     Shown("bearer", Token(9, 0, FALSE, "none"), NoProof)}],
  [source |-> "issuer", typ |-> FALSE, onJti |-> TRUE, presented |-> {
     Shown("bearer", Token(1, 0, TRUE, "none"), NoProof),
     Shown("dpop", Token(1, 2, TRUE, "none"), Proof(1, "none")),
     Shown("dpop", Token(1, 2, TRUE, "none"), Proof(1, "htu_mismatch"))}],
  [source |-> "url", typ |-> FALSE, onJti |-> FALSE, presented |-> {
     Shown("dpop", Token(1, 2, TRUE, "none"), Proof(1, "none"))}],
  [source |-> "issuer", typ |-> TRUE, onJti |-> TRUE, presented |-> {
     Shown("none", Token(1, 0, FALSE, "none"), NoProof),
     Shown("bearer", Token(1, 0, FALSE, "typ"), NoProof),
     Shown("dpop", Token(1, 2, FALSE, "none"), Proof(2, "none"))}]}

MCPolls == {
  [flow |-> "sdk", interval |-> 2, expires |-> 8],
  [flow |-> "sdk", interval |-> 1, expires |-> 5],
  [flow |-> "cli", interval |-> 1, expires |-> 5],
  [flow |-> "ciba", interval |-> 1, expires |-> 5]}

ToolsTypeOK == VerificationTypeOK /\ PollingTypeOK /\ CliLoginTypeOK /\ NodeTypeOK

ToolsInit ==
  /\ part \in {"verification", "polling", "cli", "node"}
  /\ VerificationInit /\ PollingInit /\ CliLoginInit /\ NodeInit
  /\ part # "verification" => scenario = CHOOSE s \in Scenarios : TRUE
  /\ part # "polling" => poll = CHOOSE p \in Polls : TRUE

VerificationStep ==
  part = "verification" /\ VerificationNext /\ UNCHANGED <<pollingVars, cliLoginVars, nodeVars, part>>
PollingStep ==
  part = "polling" /\ PollingNext /\ UNCHANGED <<verificationVars, cliLoginVars, nodeVars, part>>
CliStep ==
  part = "cli" /\ CliLoginNext /\ UNCHANGED <<verificationVars, pollingVars, nodeVars, part>>
NodeStep ==
  part = "node" /\ NodeNext /\ UNCHANGED <<verificationVars, pollingVars, cliLoginVars, part>>

ToolsNext == VerificationStep \/ PollingStep \/ CliStep \/ NodeStep

ToolsSpec ==
  /\ ToolsInit
  /\ [][ToolsNext]_<<verificationVars, pollingVars, cliLoginVars, nodeVars, part>>
  /\ PollingFairness /\ CliLoginFairness
=============================================================================
