--------------------------- MODULE NodeDpopSession ---------------------------
(* A server application keeps one DPoP session of the Node SDK (sdk/src/       *)
(* dpop-session.ts) and calls refreshToken and rotateRefreshKey (oauth.ts)     *)
(* with the refresh token it holds, several at a time.  Both spend the token,  *)
(* so both pass the gate withRefreshTokenGate; a rotation also replaces the    *)
(* session's key.  The token endpoint is external: it spends a token once,     *)
(* hands a lost answer back to an identical retry, and takes any other second  *)
(* use for a reuse.  Its timing against the retry's deadline is RefreshExchange.*)
EXTENDS Integers

CONSTANTS
  Calls,        \* callers of the SDK
  MaxSpent,     \* bound on the refreshes the server makes
  MaxKeys       \* bound on the keys generated

NodeAssumption == MaxSpent \in Nat /\ MaxKeys \in Nat \ {0}
ASSUME NodeAssumption

VARIABLES
  prover,      \* DpopSession.prover, by the id of its key
  bound,       \* _bound
  boundJkt,    \* _boundJkt; 0 is undefined
  gate,        \* inflightByToken: set of [token, kind]
  call,        \* per caller: [kind, at, token, key, incoming, nonce, tries, got]
  held,        \* the refresh token the application holds
  signedIn,    \* the application's view of its session: "no", "yes", "over"
  keysMade,
  serverToken, \* the refresh token the server accepts
  serverKey,   \* the key it is bound to; 0: a Bearer session
  lastSpend,   \* how the last token was spent: [key, incoming]
  reused,      \* the server has detected a reuse
  lost         \* history: a spend the application has not been told of

nodeVars == <<prover, bound, boundJkt, gate, call, held, signedIn, keysMade, serverToken,
              serverKey, lastSpend, reused, lost>>
sessionVars == <<prover, bound, boundJkt>>
serverVars == <<serverToken, serverKey, lastSpend, reused>>

OperationKinds == {"refresh", "rotation"}
Nothing == [class |-> "none", token |-> 0, jkt |-> 0]
Idle == [kind |-> "none", at |-> "idle", token |-> 0, key |-> 0, incoming |-> 0,
         nonce |-> FALSE, tries |-> 1, got |-> Nothing]

NodeTypeOK ==
  /\ prover \in 1 .. MaxKeys /\ bound \in BOOLEAN /\ boundJkt \in 0 .. MaxKeys
  /\ gate \subseteq [token : 0 .. MaxSpent, kind : OperationKinds]
  /\ \A c \in Calls : call[c].at \in {"idle", "joined", "request", "answered"}
  /\ \A c \in Calls : (call[c].at \in {"request", "answered"}) =>
       [token |-> call[c].token, kind |-> call[c].kind] \in gate
  /\ held \in 0 .. MaxSpent /\ signedIn \in {"no", "yes", "over"}
  /\ keysMade \in 1 .. MaxKeys
  /\ serverToken \in 0 .. MaxSpent /\ serverKey \in 0 .. MaxKeys
  /\ reused \in BOOLEAN /\ lost \in BOOLEAN

-------------------------------------------------------------------------------
(* Signing in: exchangeCode with the session's proof.  The server binds the    *)
(* token to the key, or answers Bearer (observeTokenType).                     *)
Exchange ==
  /\ signedIn = "no"
  /\ signedIn' = "yes"
  /\ \E dpop \in BOOLEAN :
       /\ bound' = dpop
       /\ boundJkt' = IF dpop THEN prover ELSE 0
       /\ serverKey' = IF dpop THEN prover ELSE 0
  /\ UNCHANGED <<prover, gate, call, held, keysMade, serverToken, lastSpend, reused, lost>>

-------------------------------------------------------------------------------
(* The gate *)

InGate(token) == {op \in gate : op.token = token}

(* The request of a call that has entered the gate.  The proof is made with    *)
(* the prover of this moment, if the session is bound.                         *)
Enter(c, kind) ==
  /\ gate' = gate \cup {[token |-> held, kind |-> kind]}
  /\ keysMade' = IF kind = "rotation" THEN keysMade + 1 ELSE keysMade
  /\ call' = [call EXCEPT ![c] =
       [Idle EXCEPT !.kind = kind, !.at = "request", !.token = held,
                    !.key = IF bound THEN prover ELSE 0,
                    !.incoming = IF kind = "rotation" THEN keysMade' ELSE 0]]

(* Mutant: the gate only knows operations of the same kind.                    *)
CallSdkPerKind(c, kind) ==
  /\ signedIn = "yes" /\ call[c].at = "idle"
  /\ kind = "rotation" => bound /\ keysMade < MaxKeys
  /\ \/ /\ [token |-> held, kind |-> kind] \in gate
        /\ call' = [call EXCEPT ![c] = [Idle EXCEPT !.kind = kind, !.at = "joined",
                                                    !.token = held]]
        /\ UNCHANGED <<gate, keysMade>>
     \/ [token |-> held, kind |-> kind] \notin gate /\ Enter(c, kind)
  /\ UNCHANGED <<sessionVars, held, signedIn, serverVars, lost>>

(* refreshToken and rotateRefreshKey: an operation of the same kind on the same*)
(* token is joined; one of the other kind fails without sending anything, and  *)
(* is not a step of its own; a rotation needs a bound session.                 *)
CallSdk(c, kind) ==
  /\ signedIn = "yes" /\ call[c].at = "idle"
  /\ kind = "rotation" => bound /\ keysMade < MaxKeys
  /\ \/ /\ [token |-> held, kind |-> kind] \in InGate(held)
        /\ call' = [call EXCEPT ![c] = [Idle EXCEPT !.kind = kind, !.at = "joined",
                                                    !.token = held]]
        /\ UNCHANGED <<gate, keysMade>>
     \/ InGate(held) = {} /\ Enter(c, kind)
  /\ UNCHANGED <<sessionVars, held, signedIn, serverVars, lost>>

(* The operation ends: everybody who joined it gets its result.                *)
Leave(c) ==
  LET op == [token |-> call[c].token, kind |-> call[c].kind]
  IN /\ gate' = gate \ {op}
     /\ call' = [d \in Calls |->
          IF d = c \/ (call[d].at = "joined" /\ call[d].kind = op.kind
                       /\ call[d].token = op.token)
          THEN Idle ELSE call[d]]

(* The signer throws: nothing is sent (AUTH_DPOP_PROVER_UNAVAILABLE).          *)
ProverFails(c) ==
  /\ call[c].at = "request" /\ call[c].key # 0
  /\ Leave(c)
  /\ IF call[c].tries = 2 THEN signedIn' = "over" /\ lost' = TRUE ELSE UNCHANGED <<signedIn, lost>>
  /\ UNCHANGED <<sessionVars, held, keysMade, serverVars>>

-------------------------------------------------------------------------------
(* The token endpoint *)

SdkAnswered(c, answer) == call' = [call EXCEPT ![c].at = "answered", ![c].got = answer]
Is(class) == [Nothing EXCEPT !.class = class]

(* The token is spent: it is replaced, and with a rotation that the server     *)
(* takes, its key; a server that has switched DPoP off answers Bearer.  The    *)
(* answer arrives, is lost, or is a 5xx or a body nobody can read.             *)
Spend(c) ==
  LET op == call[c]
  IN /\ op.at = "request" /\ serverToken < MaxSpent /\ ~reused
     /\ op.token = serverToken /\ (serverKey # 0 => op.key = serverKey)
     /\ serverToken' = serverToken + 1
     /\ lastSpend' = [key |-> op.key, incoming |-> op.incoming]
     /\ serverKey' \in (IF serverKey = 0 THEN {0}
                        ELSE {0, serverKey} \cup ({op.incoming} \ {0}))
     /\ \/ SdkAnswered(c, [class |-> "ok", token |-> serverToken', jkt |-> serverKey'])
        \/ \E class \in {"network", "unreadable"} : SdkAnswered(c, Is(class))
     /\ UNCHANGED reused

HandBack(c) ==
  LET op == call[c]
  IN /\ op.at = "request" /\ op.tries = 2 /\ ~reused
     /\ op.token = serverToken - 1
     /\ lastSpend = [key |-> op.key, incoming |-> op.incoming]
     /\ \/ SdkAnswered(c, [class |-> "ok", token |-> serverToken, jkt |-> serverKey])
        \/ SdkAnswered(c, Is("network"))
     /\ UNCHANGED serverVars

DetectReuse(c) ==
  LET op == call[c]
  IN /\ op.at = "request" /\ op.token < serverToken
     /\ ~(op.tries = 2 /\ op.token = serverToken - 1
          /\ lastSpend = [key |-> op.key, incoming |-> op.incoming])
     /\ reused' = TRUE
     /\ SdkAnswered(c, Is("invalidToken"))
     /\ UNCHANGED <<serverToken, serverKey, lastSpend>>

(* Refusals that spend nothing: a nonce challenge, a proof of another key, a   *)
(* request that never reached the server, an overloaded or a strict one.       *)
Refuse(c) ==
  LET op == call[c]
  IN /\ op.at = "request"
     /\ \/ op.key # 0 /\ SdkAnswered(c, Is("nonce"))
        \/ serverKey # 0 /\ op.key # serverKey /\ SdkAnswered(c, Is("invalidProof"))
        \/ reused /\ SdkAnswered(c, Is("invalidToken"))
        \/ \E class \in {"network", "unavailable"} : SdkAnswered(c, Is(class))
     /\ UNCHANGED serverVars

Serve(c) ==
  /\ Spend(c) \/ HandBack(c) \/ DetectReuse(c) \/ Refuse(c)
  /\ UNCHANGED <<sessionVars, gate, held, signedIn, keysMade, lost>>

-------------------------------------------------------------------------------
(* Reading the answer *)

(* One nonce challenge is answered with fresh proofs of the same keys.         *)
AnswerNonce(c) ==
  /\ call[c].at = "answered" /\ call[c].got.class = "nonce" /\ ~call[c].nonce
  /\ call' = [call EXCEPT ![c].at = "request", ![c].nonce = TRUE, ![c].got = Nothing]
  /\ UNCHANGED <<sessionVars, gate, held, signedIn, keysMade, serverVars, lost>>

(* executeRefresh: a refresh no answer came to is sent once more, while the    *)
(* deadline lasts, with a proof of the prover of that moment.                  *)
RetryRefresh(c) ==
  /\ call[c].at = "answered" /\ call[c].kind = "refresh"
  /\ call[c].got.class = "network" /\ call[c].tries = 1
  /\ call' = [call EXCEPT ![c].at = "request", ![c].tries = 2, ![c].nonce = FALSE,
                          ![c].key = IF bound THEN prover ELSE 0, ![c].got = Nothing]
  /\ UNCHANGED <<sessionVars, gate, held, signedIn, keysMade, serverVars, lost>>

(* observeTokenType *)
Observe(jkt) ==
  /\ bound' = (jkt # 0)
  /\ boundJkt' = IF jkt # 0 /\ boundJkt = 0 THEN prover ELSE boundJkt
  /\ UNCHANGED prover

(* commitRotation: the incoming key becomes the session's.                     *)
Commit(incoming) ==
  /\ boundJkt = 0 \/ boundJkt = prover
  /\ prover' = incoming /\ bound' = TRUE /\ boundJkt' = incoming

(* Mutant: every 200 is taken for a rotation.                                  *)
FinalizeAlways(op) == Commit(op.incoming)

(* finalizeRotation: only a token bound to the incoming key makes it the       *)
(* session's; any other success keeps the old key.                             *)
Finalize(op) ==
  \/ op.got.jkt = op.incoming /\ Commit(op.incoming)
  \/ op.got.jkt # op.incoming /\ Observe(op.got.jkt)

(* A success: the application stores the token it was given.                   *)
Succeed(c) ==
  /\ call[c].at = "answered" /\ call[c].got.class = "ok"
  /\ held' = call[c].got.token
  /\ IF call[c].kind = "rotation" THEN Finalize(call[c]) ELSE Observe(call[c].got.jkt)
  /\ Leave(c)
  /\ UNCHANGED <<signedIn, keysMade, serverVars, lost>>

(* Every other answer.  A refresh whose outcome is unknown, and a refused      *)
(* token, end the session; the application keeps its token otherwise, also     *)
(* when the server has spent it (an unreadable 200, a rotation's lost answer). *)
CallEnds(op) ==
  \/ op.got.class = "invalidToken"
  \/ /\ op.kind = "refresh"
     /\ \/ op.got.class = "network"
        \/ op.tries = 2 /\ op.got.class \notin {"ok", "invalidProof"}

Fail(c) ==
  LET op == call[c]
  IN /\ op.at = "answered"
     /\ op.got.class \in {"network", "unreadable", "invalidToken", "invalidProof",
                          "unavailable"} \cup (IF op.nonce THEN {"nonce"} ELSE {})
     /\ signedIn' = IF CallEnds(op) THEN "over" ELSE signedIn
     /\ lost' = (lost \/ op.token # serverToken)
     /\ Leave(c)
     /\ UNCHANGED <<sessionVars, held, keysMade, serverVars>>

-------------------------------------------------------------------------------
NodeInit ==
  /\ prover = 1 /\ bound = FALSE /\ boundJkt = 0 /\ keysMade = 1
  /\ gate = {} /\ call = [c \in Calls |-> Idle]
  /\ held = 0 /\ signedIn = "no"
  /\ serverToken = 0 /\ serverKey = 0 /\ lastSpend = [key |-> 0, incoming |-> 0]
  /\ reused = FALSE /\ lost = FALSE

NodeNext ==
  \/ Exchange
  \/ \E c \in Calls :
       \/ \E kind \in OperationKinds : CallSdk(c, kind)
       \/ ProverFails(c) \/ Serve(c) \/ AnswerNonce(c) \/ RetryRefresh(c)
       \/ Succeed(c) \/ Fail(c)

NodeSpec == NodeInit /\ [][NodeNext]_nodeVars

-------------------------------------------------------------------------------
(* However refreshes and rotations overlap, the server sees a spent token      *)
(* again only after a spend the application was never told of: the gate's      *)
(* INVARIANT comment in oauth.ts.                                              *)
SpentOnce == reused => lost

(* "Never a half-swap" (rotateRefreshKey): once nothing is under way, a bound  *)
(* session signs with the key the server has bound its token to, unless an     *)
(* answer was lost.                                                            *)
RotationIsWhole ==
  signedIn = "yes" /\ gate = {} /\ ~lost /\ bound => serverKey = prover /\ boundJkt = prover
===============================================================================
