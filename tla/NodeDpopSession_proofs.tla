------------------------ MODULE NodeDpopSession_proofs ------------------------
(* What is proved of the Node SDK's DPoP session, for any number of callers,    *)
(* refreshes and keys.                                                          *)
EXTENDS NodeDpopSession, TLAPS

Classes == {"none", "ok", "network", "unreadable", "invalidToken", "invalidProof",
            "nonce", "unavailable"}
Answers == [class : Classes, token : Nat, jkt : Nat]
CallRecords ==
  [kind : OperationKinds \cup {"none"}, at : {"idle", "joined", "request", "answered"},
   token : Nat, key : Nat, incoming : Nat, nonce : BOOLEAN, tries : {1, 2}, got : Answers]

Typed ==
  /\ prover \in Nat /\ bound \in BOOLEAN /\ keysMade \in Nat /\ held \in Nat
  /\ call \in [Calls -> CallRecords]
  /\ serverToken \in Nat /\ serverKey \in Nat
  /\ lastSpend \in [key : Nat, incoming : Nat]
  /\ reused \in BOOLEAN /\ lost \in BOOLEAN /\ signedIn \in {"no", "yes", "over"}

Active(c) == call[c].at \in {"request", "answered"}
SigningKey == IF bound THEN prover ELSE 0

(* The gate lets one operation through at a time: it spends the token that is   *)
(* held, with the key the session signs with.                                   *)
OneOperation ==
  /\ \A c \in Calls : Active(c) =>
       /\ [token |-> call[c].token, kind |-> call[c].kind] \in gate
       /\ call[c].token = held /\ call[c].key = SigningKey
       /\ signedIn # "no"
  /\ \A c, d \in Calls : Active(c) /\ Active(d) => c = d

(* A call is in step with the server: its token is unspent, or spent by this    *)
(* very request, which is then only sent again identically.                     *)
InStep(op) ==
  \/ serverToken = held
  \/ /\ serverToken = held + 1
     /\ lastSpend = [key |-> op.key, incoming |-> op.incoming]
     /\ \/ op.tries = 2
        \/ op.at = "answered" /\ op.got.class \in {"ok", "network", "unreadable"}

(* Until an answer is lost for good.                                            *)
SpendInv ==
  /\ \A c \in Calls : call[c].at = "answered" /\ call[c].got.class = "ok" =>
       call[c].got.token = serverToken
  /\ ~lost => /\ ~reused
              /\ (\A c \in Calls : ~Active(c)) => held = serverToken
              /\ \A c \in Calls : Active(c) => InStep(call[c])

NodeInv == Typed /\ OneOperation /\ SpendInv

-------------------------------------------------------------------------------
(* An operation under way goes on.                                              *)
LEMMA OperationGoesOn ==
  ASSUME NodeInv, NEW c \in Calls, Active(c), NEW r \in CallRecords,
         call' = [call EXCEPT ![c] = r], r.at \in {"request", "answered"},
         r.token = call[c].token, r.kind = call[c].kind, r.key = SigningKey,
         UNCHANGED <<sessionVars, gate, held, signedIn, keysMade, lost>>,
         serverToken' \in Nat, serverKey' \in Nat, reused' \in BOOLEAN,
         lastSpend' \in [key : Nat, incoming : Nat],
         r.at = "answered" /\ r.got.class = "ok" => r.got.token = serverToken',
         ~lost => ~reused' /\ (\/ serverToken' = held
                               \/ /\ serverToken' = held + 1
                                  /\ lastSpend' = [key |-> r.key, incoming |-> r.incoming]
                                  /\ \/ r.tries = 2
                                     \/ r.at = "answered"
                                        /\ r.got.class \in {"ok", "network", "unreadable"})
  PROVE  NodeInv'
<1>1. call'[c] = r /\ (\A d \in Calls \ {c} : call'[d] = call[d]) /\ call' \in [Calls -> CallRecords]
  BY DEF NodeInv, Typed
<1>2. \A d \in Calls \ {c} : ~Active(d)
  BY DEF NodeInv, OneOperation
<1>3. Typed'
  BY <1>1 DEF NodeInv, Typed, sessionVars
<1>4. \A d \in Calls : Active(d)' => d = c
  BY <1>1, <1>2 DEF Active
<1>5. Active(c)'
  BY <1>1 DEF Active
<1>6. SigningKey' = SigningKey
  BY DEF SigningKey, sessionVars
<1>7. OneOperation'
  BY <1>1, <1>4, <1>6 DEF NodeInv, OneOperation
<1>8. \A d \in Calls \ {c} : call'[d].at # "answered"
  BY <1>1, <1>2 DEF Active
<1>9. SpendInv'
  BY <1>1, <1>4, <1>5, <1>8 DEF NodeInv, SpendInv, InStep
<1> QED
  BY <1>3, <1>7, <1>9 DEF NodeInv

(* An operation ends, and with it all that is under way.                        *)
LEMMA OperationEnds ==
  ASSUME NodeInv, NEW c \in Calls, Active(c), Leave(c), UNCHANGED <<keysMade, serverVars>>,
         prover' \in Nat, bound' \in BOOLEAN, held' \in Nat,
         signedIn' \in {"yes", "over"}, lost' \in BOOLEAN,
         ~lost' => ~reused /\ held' = serverToken
  PROVE  NodeInv'
<1> DEFINE op == [token |-> call[c].token, kind |-> call[c].kind]
           leaves(d) == d = c \/ (call[d].at = "joined" /\ call[d].kind = op.kind
                                  /\ call[d].token = op.token)
<1>1. call' = [d \in Calls |-> IF leaves(d) THEN Idle ELSE call[d]]
  BY DEF Leave
<1>2. leaves(c) /\ Idle \in CallRecords /\ Idle.at = "idle"
  BY DEF Idle, CallRecords, Nothing, Answers, Classes
<1> HIDE DEF leaves
<1>3. call' \in [Calls -> CallRecords]
  BY <1>1, <1>2 DEF NodeInv, Typed
<1>4. \A d \in Calls : call'[d].at \notin {"request", "answered"}
  BY <1>1, <1>2 DEF NodeInv, OneOperation, Active
<1>5. \A d \in Calls : ~Active(d)'
  BY <1>4 DEF Active
<1>6. Typed'
  BY <1>3 DEF NodeInv, Typed, serverVars
<1>7. OneOperation' /\ SpendInv'
  BY <1>4, <1>5 DEF OneOperation, SpendInv, serverVars
<1> QED
  BY <1>6, <1>7 DEF NodeInv

(* Calling the SDK: nobody else is under way when the gate is free.             *)
LEMMA CallingKeepsInv ==
  ASSUME NodeInv, NEW c \in Calls, NEW kind \in OperationKinds, CallSdk(c, kind)
  PROVE  NodeInv'
<1>1. UNCHANGED <<sessionVars, held, signedIn, serverVars, lost>> /\ signedIn = "yes"
      /\ call[c].at = "idle"
  BY DEF CallSdk
<1>2. SigningKey \in Nat /\ SigningKey' = SigningKey
  BY <1>1 DEF SigningKey, sessionVars, NodeInv, Typed
<1>3. CASE [token |-> held, kind |-> kind] \in InGate(held)
           /\ call' = [call EXCEPT ![c] = [Idle EXCEPT !.kind = kind, !.at = "joined",
                                                       !.token = held]]
           /\ UNCHANGED <<gate, keysMade>>
  <2> DEFINE r == [Idle EXCEPT !.kind = kind, !.at = "joined", !.token = held]
  <2>1. r \in CallRecords /\ r.at = "joined"
    BY DEF Idle, CallRecords, Nothing, Answers, Classes, NodeInv, Typed
  <2> HIDE DEF r
  <2>2. call' = [call EXCEPT ![c] = r]
    BY <1>3 DEF r
  <2>3. /\ call' \in [Calls -> CallRecords] /\ call'[c].at = "joined"
        /\ \A d \in Calls \ {c} : call'[d] = call[d]
    BY <2>1, <2>2 DEF NodeInv, Typed
  <2>4. ~Active(c)' /\ ~Active(c) /\ \A d \in Calls \ {c} : Active(d)' <=> Active(d)
    BY <1>1, <2>3 DEF Active
  <2>5. Typed'
    BY <1>1, <1>3, <2>3 DEF NodeInv, Typed, sessionVars, serverVars
  <2>6. OneOperation'
    BY <1>1, <1>2, <1>3, <2>3, <2>4 DEF NodeInv, OneOperation
  <2>7. SpendInv'
    BY <1>1, <2>3, <2>4 DEF NodeInv, SpendInv, InStep, serverVars
  <2> QED
    BY <2>5, <2>6, <2>7 DEF NodeInv
<1>4. CASE InGate(held) = {} /\ Enter(c, kind)
  <2> DEFINE r == [Idle EXCEPT !.kind = kind, !.at = "request", !.token = held,
                               !.key = SigningKey,
                               !.incoming = IF kind = "rotation" THEN keysMade' ELSE 0]
  <2>1. \A d \in Calls : ~Active(d)
    <3> SUFFICES ASSUME NEW d \in Calls, Active(d) PROVE FALSE
      OBVIOUS
    <3> DEFINE op == [token |-> call[d].token, kind |-> call[d].kind]
    <3>1. op \in gate /\ op.token = held
      BY DEF NodeInv, OneOperation
    <3> HIDE DEF op
    <3> QED
      BY <1>4, <3>1 DEF InGate
  <2>2. keysMade' \in Nat /\ gate' = gate \cup {[token |-> held, kind |-> kind]}
    BY <1>4 DEF Enter, NodeInv, Typed
  <2>3. r \in CallRecords /\ r.at = "request" /\ r.token = held /\ r.kind = kind
        /\ r.key = SigningKey
    BY <1>2, <2>2 DEF Idle, CallRecords, Nothing, Answers, Classes, NodeInv, Typed
  <2>4. call' = [call EXCEPT ![c] = r]
    BY <1>4 DEF Enter, SigningKey
  <2> HIDE DEF r
  <2>5. call' \in [Calls -> CallRecords] /\ call'[c] = r
        /\ \A d \in Calls \ {c} : call'[d] = call[d]
    BY <2>3, <2>4 DEF NodeInv, Typed
  <2>6. Active(c)' /\ \A d \in Calls \ {c} : ~Active(d)' /\ call'[d].at # "answered"
    BY <2>1, <2>3, <2>5 DEF Active
  <2>7. Typed'
    BY <1>1, <2>2, <2>5 DEF NodeInv, Typed, sessionVars, serverVars
  <2>8. OneOperation'
    BY <1>1, <1>2, <2>2, <2>3, <2>5, <2>6 DEF OneOperation
  <2>9. SpendInv'
    BY <1>1, <2>1, <2>3, <2>5, <2>6 DEF NodeInv, SpendInv, InStep, serverVars
  <2> QED
    BY <2>7, <2>8, <2>9 DEF NodeInv
<1> QED
  BY <1>3, <1>4 DEF CallSdk
-------------------------------------------------------------------------------
(* The server answers a request: the call is in step with it afterwards.        *)
LEMMA ServingKeepsInv ==
  ASSUME NodeInv, NEW c \in Calls, Serve(c)
  PROVE  NodeInv'
<1> DEFINE op == call[c]
<1>1. op \in CallRecords /\ op.at = "request" /\ Active(c) /\ op.token = held
      /\ op.key = SigningKey
  BY DEF NodeInv, Typed, OneOperation, Active, Serve, Spend, HandBack, DetectReuse, Refuse
<1>2. UNCHANGED <<sessionVars, gate, held, signedIn, keysMade, lost>>
  BY DEF Serve
<1>3. /\ serverToken \in Nat /\ serverKey \in Nat /\ reused \in BOOLEAN /\ held \in Nat
      /\ lastSpend \in [key : Nat, incoming : Nat]
      /\ op.key \in Nat /\ op.incoming \in Nat /\ op.tries \in {1, 2}
  BY <1>1 DEF NodeInv, Typed, CallRecords
<1>4. ~lost => /\ ~reused
               /\ \/ serverToken = held
                  \/ /\ serverToken = held + 1 /\ op.tries = 2
                     /\ lastSpend = [key |-> op.key, incoming |-> op.incoming]
  BY <1>1 DEF NodeInv, SpendInv, InStep
<1>5. ASSUME NEW answer \in Answers, SdkAnswered(c, answer),
             serverToken' \in Nat, serverKey' \in Nat, reused' \in BOOLEAN,
             lastSpend' \in [key : Nat, incoming : Nat],
             answer.class = "ok" => answer.token = serverToken',
             ~lost => ~reused' /\ (\/ serverToken' = held
                                   \/ /\ serverToken' = held + 1
                                      /\ lastSpend' = [key |-> op.key, incoming |-> op.incoming]
                                      /\ \/ op.tries = 2
                                         \/ answer.class \in {"ok", "network", "unreadable"})
      PROVE  NodeInv'
  <2> DEFINE r == [call[c] EXCEPT !.at = "answered", !.got = answer]
  <2>1. r \in CallRecords /\ r.at = "answered" /\ r.got = answer /\ r.token = op.token
        /\ r.kind = op.kind /\ r.key = op.key /\ r.incoming = op.incoming /\ r.tries = op.tries
    BY <1>1, <1>5 DEF CallRecords
  <2>2. call' = [call EXCEPT ![c] = r]
    BY <1>5 DEF SdkAnswered
  <2> HIDE DEF r
  <2> QED
    BY <1>1, <1>2, <1>5, <2>1, <2>2, OperationGoesOn
<1> HIDE DEF op
<1>6. \A class \in Classes : Is(class) \in Answers /\ Is(class).class = class
  BY DEF Is, Nothing, Answers, Classes
<1>7. CASE Spend(c)
  <2>1. /\ serverToken' = serverToken + 1 /\ ~reused /\ reused' = reused /\ serverKey' \in Nat
        /\ lastSpend' = [key |-> op.key, incoming |-> op.incoming] /\ op.token = serverToken
    BY <1>3, <1>7 DEF Spend, op
  <2>2. lastSpend' \in [key : Nat, incoming : Nat] /\ serverToken' \in Nat
    BY <1>3, <2>1
  <2>3. CASE SdkAnswered(c, [class |-> "ok", token |-> serverToken', jkt |-> serverKey'])
    <3> DEFINE answer == [class |-> "ok", token |-> serverToken', jkt |-> serverKey']
    <3>1. answer \in Answers /\ answer.class = "ok" /\ answer.token = serverToken'
      BY <2>1, <2>2 DEF Answers, Classes
    <3>2. SdkAnswered(c, answer)
      BY <2>3
    <3> HIDE DEF answer
    <3> QED
      BY <1>1, <1>3, <1>5, <2>1, <2>2, <3>1, <3>2
  <2>4. ASSUME NEW class \in {"network", "unreadable"}, SdkAnswered(c, Is(class)) PROVE NodeInv'
    <3>1. Is(class) \in Answers /\ Is(class).class = class
      BY <1>6 DEF Classes
    <3> QED
      BY <1>1, <1>3, <1>5, <2>1, <2>2, <2>4, <3>1
  <2> QED
    BY <1>7, <2>3, <2>4 DEF Spend
<1>8. CASE HandBack(c)
  <2>1. /\ UNCHANGED serverVars /\ ~reused /\ op.tries = 2 /\ op.token = serverToken - 1
        /\ lastSpend = [key |-> op.key, incoming |-> op.incoming]
    BY <1>8 DEF HandBack, op
  <2>2. serverToken = held + 1
    BY <1>1, <1>3, <2>1 DEF op
  <2>3. CASE SdkAnswered(c, [class |-> "ok", token |-> serverToken, jkt |-> serverKey])
    <3> DEFINE answer == [class |-> "ok", token |-> serverToken, jkt |-> serverKey]
    <3>1. answer \in Answers /\ answer.class = "ok" /\ answer.token = serverToken
      BY <1>3 DEF Answers, Classes
    <3>2. SdkAnswered(c, answer)
      BY <2>3
    <3> HIDE DEF answer
    <3> QED
      BY <1>3, <1>5, <2>1, <2>2, <3>1, <3>2 DEF serverVars
  <2>4. CASE SdkAnswered(c, Is("network"))
    <3>1. Is("network") \in Answers /\ Is("network").class = "network"
      BY <1>6 DEF Classes
    <3> QED
      BY <1>3, <1>5, <2>1, <2>2, <2>4, <3>1 DEF serverVars
  <2> QED
    BY <1>8, <2>3, <2>4 DEF HandBack
<1>9. CASE DetectReuse(c)
  <2>1. lost
    <3>1. op.token < serverToken
          /\ ~(op.tries = 2 /\ op.token = serverToken - 1
               /\ lastSpend = [key |-> op.key, incoming |-> op.incoming])
      BY <1>9 DEF DetectReuse, op
    <3> QED
      BY <1>1, <1>3, <1>4, <3>1 DEF op
  <2>2. Is("invalidToken") \in Answers /\ Is("invalidToken").class = "invalidToken"
    BY <1>6 DEF Classes
  <2> QED
    BY <1>3, <1>5, <1>9, <2>1, <2>2 DEF DetectReuse
<1>10. CASE Refuse(c)
  <2>1. PICK class \in {"nonce", "invalidProof", "invalidToken", "network", "unavailable"} :
          SdkAnswered(c, Is(class))
    BY <1>10 DEF Refuse
  <2>2. Is(class) \in Answers /\ Is(class).class = class
    BY <1>6 DEF Classes
  <2>3. UNCHANGED serverVars
    BY <1>10 DEF Refuse
  <2> QED
    BY <1>3, <1>4, <1>5, <2>1, <2>2, <2>3 DEF serverVars
<1> QED
  BY <1>7, <1>8, <1>9, <1>10 DEF Serve

(* The request is sent again: unchanged, but for fresh proofs of its keys.      *)
LEMMA SendingAgainKeepsInv ==
  ASSUME NodeInv, NEW c \in Calls, AnswerNonce(c) \/ RetryRefresh(c)
  PROVE  NodeInv'
<1>1. call[c] \in CallRecords /\ Active(c) /\ call[c].key = SigningKey
      /\ call[c].at = "answered" /\ SigningKey \in Nat /\ Nothing \in Answers
      /\ UNCHANGED <<sessionVars, gate, held, signedIn, keysMade, serverVars, lost>>
  BY DEF NodeInv, Typed, OneOperation, Active, AnswerNonce, RetryRefresh, SigningKey, Nothing,
         Answers, Classes
<1>2. ~lost => ~reused /\ InStep(call[c])
  BY <1>1 DEF NodeInv, SpendInv
<1>3. /\ serverToken' \in Nat /\ serverKey' \in Nat /\ reused' \in BOOLEAN
      /\ lastSpend' \in [key : Nat, incoming : Nat]
  BY <1>1 DEF NodeInv, Typed, serverVars
<1>4. CASE AnswerNonce(c)
  <2> DEFINE r == [call[c] EXCEPT !.at = "request", !.nonce = TRUE, !.got = Nothing]
  <2>1. /\ r \in CallRecords /\ r.at = "request" /\ r.token = call[c].token
        /\ r.kind = call[c].kind /\ r.key = SigningKey /\ r.tries = call[c].tries
        /\ r.incoming = call[c].incoming
    BY <1>1 DEF CallRecords
  <2>2. call' = [call EXCEPT ![c] = r] /\ call[c].got.class = "nonce"
    BY <1>4 DEF AnswerNonce
  <2> HIDE DEF r
  <2> QED
    BY <1>1, <1>2, <1>3, <2>1, <2>2, OperationGoesOn DEF InStep, serverVars
<1>5. CASE RetryRefresh(c)
  <2> DEFINE r == [call[c] EXCEPT !.at = "request", !.tries = 2, !.nonce = FALSE,
                                  !.key = SigningKey, !.got = Nothing]
  <2>1. /\ r \in CallRecords /\ r.at = "request" /\ r.token = call[c].token
        /\ r.kind = call[c].kind /\ r.key = SigningKey /\ r.tries = 2
        /\ r.incoming = call[c].incoming
    BY <1>1 DEF CallRecords
  <2>2. call' = [call EXCEPT ![c] = r]
    BY <1>5 DEF RetryRefresh, SigningKey
  <2> HIDE DEF r
  <2> QED
    BY <1>1, <1>2, <1>3, <2>1, <2>2, OperationGoesOn DEF InStep, serverVars
<1> QED
  BY <1>4, <1>5

(* The operation ends.                                                          *)
LEMMA EndingKeepsInv ==
  ASSUME NodeInv, NEW c \in Calls, ProverFails(c) \/ Succeed(c) \/ Fail(c)
  PROVE  NodeInv'
<1>1. call[c] \in CallRecords /\ Active(c) /\ call[c].token = held /\ Leave(c)
      /\ UNCHANGED <<keysMade, serverVars>> /\ signedIn \in {"yes", "over"}
  BY DEF NodeInv, Typed, OneOperation, Active, ProverFails, Succeed, Fail
<1>2. prover \in Nat /\ bound \in BOOLEAN /\ held \in Nat /\ lost \in BOOLEAN
      /\ serverToken \in Nat /\ call[c].incoming \in Nat /\ call[c].got.jkt \in Nat
      /\ call[c].got.token \in Nat /\ call[c].tries \in {1, 2}
  BY <1>1 DEF NodeInv, Typed, CallRecords, Answers
<1>3. ~lost => ~reused /\ InStep(call[c])
  BY <1>1 DEF NodeInv, SpendInv
<1>4. CASE ProverFails(c)
  <2>1. call[c].at = "request" /\ UNCHANGED <<sessionVars, held>>
        /\ (IF call[c].tries = 2 THEN signedIn' = "over" /\ lost' = TRUE
            ELSE UNCHANGED <<signedIn, lost>>)
    BY <1>4 DEF ProverFails
  <2>2. ~lost' => ~reused /\ held = serverToken
    BY <1>2, <1>3, <2>1 DEF InStep
  <2> QED
    BY <1>1, <1>2, <2>1, <2>2, OperationEnds DEF sessionVars
<1>5. CASE Succeed(c)
  <2>1. /\ call[c].got.token = serverToken /\ held' = serverToken
        /\ UNCHANGED <<signedIn, lost>>
    BY <1>5 DEF Succeed, NodeInv, SpendInv
  <2>2. prover' \in Nat /\ bound' \in BOOLEAN
    BY <1>2, <1>5 DEF Succeed, Finalize, Commit, Observe
  <2> QED
    BY <1>1, <1>2, <1>3, <2>1, <2>2, OperationEnds
<1>6. CASE Fail(c)
  <2>1. UNCHANGED <<sessionVars, held>> /\ lost' = (lost \/ call[c].token # serverToken)
        /\ signedIn' = IF CallEnds(call[c]) THEN "over" ELSE signedIn
    BY <1>6 DEF Fail
  <2>2. lost' \in BOOLEAN /\ signedIn' \in {"yes", "over"}
    BY <1>1, <1>2, <2>1
  <2>3. ~lost' => ~reused /\ held = serverToken
    BY <1>1, <1>3, <2>1
  <2> QED
    BY <1>1, <1>2, <2>1, <2>2, <2>3, OperationEnds DEF sessionVars
<1> QED
  BY <1>4, <1>5, <1>6

LEMMA ExchangeKeepsInv ==
  ASSUME NodeInv, Exchange
  PROVE  NodeInv'
<1>1. signedIn = "no" /\ signedIn' = "yes"
      /\ UNCHANGED <<prover, gate, call, held, keysMade, serverToken, lastSpend, reused, lost>>
  BY DEF Exchange
<1>2. bound' \in BOOLEAN /\ serverKey' \in Nat
  BY DEF Exchange, NodeInv, Typed
<1>3. \A c \in Calls : ~Active(c)
  BY <1>1 DEF NodeInv, OneOperation
<1>4. \A c \in Calls : ~Active(c)'
  BY <1>1, <1>3 DEF Active
<1>5. Typed'
  BY <1>1, <1>2 DEF NodeInv, Typed
<1>6. OneOperation' /\ SpendInv'
  BY <1>1, <1>3, <1>4 DEF NodeInv, OneOperation, SpendInv
<1> QED
  BY <1>5, <1>6 DEF NodeInv

LEMMA InvStarts ==
  ASSUME NodeInit
  PROVE  NodeInv
<1>1. Idle \in CallRecords /\ Idle.at = "idle"
  BY DEF Idle, CallRecords, Nothing, Answers, Classes
<1>2. \A c \in Calls : call[c].at = "idle"
  BY <1>1 DEF NodeInit
<1>3. Typed
  BY <1>1 DEF NodeInit, Typed
<1> QED
  BY <1>2, <1>3 DEF NodeInit, NodeInv, OneOperation, SpendInv, Active

LEMMA StepKeepsInv ==
  ASSUME NodeInv, [NodeNext]_nodeVars
  PROVE  NodeInv'
<1>1. CASE UNCHANGED nodeVars
  BY <1>1 DEF nodeVars, NodeInv, Typed, OneOperation, SpendInv, Active, InStep, SigningKey
<1> QED
  BY <1>1, ExchangeKeepsInv, CallingKeepsInv, ServingKeepsInv, SendingAgainKeepsInv,
     EndingKeepsInv DEF NodeNext

(* The gate's INVARIANT comment in oauth.ts: a spent token is only presented    *)
(* again after a spend the application was never told of.                       *)
THEOREM TokensAreSpentOnce == NodeSpec => []SpentOnce
<1>1. NodeInit => NodeInv
  BY InvStarts
<1>2. NodeInv /\ [NodeNext]_nodeVars => NodeInv'
  BY StepKeepsInv
<1>3. NodeInv => SpentOnce
  BY DEF NodeInv, Typed, SpendInv, SpentOnce
<1> QED
  BY <1>1, <1>2, <1>3, PTL DEF NodeSpec

-------------------------------------------------------------------------------
(* Rotations are whole                                                          *)

(* The session and the server agree on the key, as long as no answer was lost   *)
(* for good; while the answer to a spend is on its way, the server has the key  *)
(* of the session, the incoming one, or none.                                   *)
KeysAgree ==
  /\ bound => boundJkt = prover
  /\ serverToken = held => serverKey = SigningKey
  /\ \A c \in Calls : Active(c) => serverKey \in {0, SigningKey, call[c].incoming}

KeyInv ==
  /\ prover # 0 /\ keysMade \in Nat
  /\ \A c \in Calls : Active(c) =>
       IF call[c].kind = "rotation" THEN bound /\ call[c].incoming # 0 ELSE call[c].incoming = 0
  /\ \A c \in Calls : call[c].at = "answered" /\ call[c].got.class = "ok" =>
       call[c].got.jkt = serverKey
  /\ ~lost => KeysAgree

LEMMA OperationKeepsKeys ==
  ASSUME NodeInv, KeyInv, NEW c \in Calls, Active(c), NEW r,
         call' = [call EXCEPT ![c] = r],
         r.kind = call[c].kind, r.incoming = call[c].incoming,
         UNCHANGED <<sessionVars, held, keysMade, lost>>,
         r.at = "answered" /\ r.got.class = "ok" => r.got.jkt = serverKey',
         ~lost => /\ serverToken' = held => serverKey' = SigningKey
                  /\ serverKey' \in {0, SigningKey, r.incoming}
  PROVE  KeyInv'
<1>1. call'[c] = r /\ \A d \in Calls \ {c} : call'[d] = call[d] /\ ~Active(d)
  BY DEF NodeInv, Typed, OneOperation
<1>2. \A d \in Calls \ {c} : ~Active(d)' /\ call'[d].at # "answered"
  BY <1>1 DEF Active
<1>3. SigningKey' = SigningKey
  BY DEF SigningKey, sessionVars
<1> QED
  BY <1>1, <1>2, <1>3 DEF KeyInv, KeysAgree, sessionVars

LEMMA ServingKeepsKeys ==
  ASSUME NodeInv, KeyInv, NEW c \in Calls, Serve(c)
  PROVE  KeyInv'
<1> DEFINE op == call[c]
<1>1. op \in CallRecords /\ op.at = "request" /\ Active(c) /\ op.token = held
      /\ op.key = SigningKey
  BY DEF NodeInv, Typed, OneOperation, Active, Serve, Spend, HandBack, DetectReuse, Refuse
<1>2. UNCHANGED <<sessionVars, held, keysMade, lost>> /\ serverToken \in Nat /\ held \in Nat
  BY DEF Serve, NodeInv, Typed
<1>3. ~lost => /\ serverToken = held => serverKey = SigningKey
               /\ serverKey \in {0, SigningKey, op.incoming}
  BY <1>1 DEF KeyInv, KeysAgree
<1>4. ASSUME NEW answer, SdkAnswered(c, answer), answer.class = "ok" => answer.jkt = serverKey',
             ~lost => /\ serverToken' = held => serverKey' = SigningKey
                      /\ serverKey' \in {0, SigningKey, op.incoming}
      PROVE  KeyInv'
  <2> DEFINE r == [call[c] EXCEPT !.at = "answered", !.got = answer]
  <2>1. r.at = "answered" /\ r.got = answer /\ r.kind = op.kind /\ r.incoming = op.incoming
    BY <1>1 DEF CallRecords
  <2>2. call' = [call EXCEPT ![c] = r]
    BY <1>4 DEF SdkAnswered
  <2> HIDE DEF r
  <2> QED
    BY <1>1, <1>2, <1>4, <2>1, <2>2, OperationKeepsKeys
<1> HIDE DEF op
<1>5. \A class \in Classes : Is(class).class = class
  BY DEF Is, Nothing
<1>6. CASE Spend(c)
  <2>1. /\ serverToken' = serverToken + 1 /\ op.token = serverToken
        /\ serverKey' \in (IF serverKey = 0 THEN {0}
                           ELSE {0, serverKey} \cup ({op.incoming} \ {0}))
    BY <1>6 DEF Spend, op
  <2>2. ~lost => /\ serverToken' = held => serverKey' = SigningKey
                 /\ serverKey' \in {0, SigningKey, op.incoming}
    BY <1>1, <1>2, <1>3, <2>1 DEF op
  <2>3. CASE SdkAnswered(c, [class |-> "ok", token |-> serverToken', jkt |-> serverKey'])
    BY <1>4, <2>2, <2>3
  <2>4. ASSUME NEW class \in {"network", "unreadable"}, SdkAnswered(c, Is(class)) PROVE KeyInv'
    BY <1>4, <1>5, <2>2, <2>4 DEF Classes
  <2> QED
    BY <1>6, <2>3, <2>4 DEF Spend
<1>7. CASE HandBack(c)
  <2>1. UNCHANGED serverVars
    BY <1>7 DEF HandBack
  <2>2. CASE SdkAnswered(c, [class |-> "ok", token |-> serverToken, jkt |-> serverKey])
    BY <1>3, <1>4, <2>1, <2>2 DEF serverVars
  <2>3. CASE SdkAnswered(c, Is("network"))
    BY <1>3, <1>4, <1>5, <2>1, <2>3 DEF serverVars, Classes
  <2> QED
    BY <1>7, <2>2, <2>3 DEF HandBack
<1>8. CASE DetectReuse(c) \/ Refuse(c)
  <2>1. PICK class \in Classes \ {"ok"} : SdkAnswered(c, Is(class))
    BY <1>8 DEF DetectReuse, Refuse, Classes
  <2>2. UNCHANGED <<serverToken, serverKey>>
    BY <1>8 DEF DetectReuse, Refuse, serverVars
  <2> QED
    BY <1>3, <1>4, <1>5, <2>1, <2>2
<1> QED
  BY <1>6, <1>7, <1>8 DEF Serve

LEMMA SendingAgainKeepsKeys ==
  ASSUME NodeInv, KeyInv, NEW c \in Calls, AnswerNonce(c) \/ RetryRefresh(c)
  PROVE  KeyInv'
<1>1. call[c] \in CallRecords /\ Active(c)
      /\ UNCHANGED <<sessionVars, held, keysMade, serverVars, lost>>
  BY DEF NodeInv, Typed, Active, AnswerNonce, RetryRefresh
<1>2. PICK r : /\ call' = [call EXCEPT ![c] = r] /\ r.at = "request"
               /\ r.kind = call[c].kind /\ r.incoming = call[c].incoming
  <2>1. CASE AnswerNonce(c)
    <3> DEFINE r == [call[c] EXCEPT !.at = "request", !.nonce = TRUE, !.got = Nothing]
    <3>1. r.at = "request" /\ r.kind = call[c].kind /\ r.incoming = call[c].incoming
      BY <1>1 DEF CallRecords
    <3>2. call' = [call EXCEPT ![c] = r]
      BY <2>1 DEF AnswerNonce
    <3> HIDE DEF r
    <3> QED
      BY <3>1, <3>2
  <2>2. CASE RetryRefresh(c)
    <3> DEFINE r == [call[c] EXCEPT !.at = "request", !.tries = 2, !.nonce = FALSE,
                                    !.key = SigningKey, !.got = Nothing]
    <3>1. r.at = "request" /\ r.kind = call[c].kind /\ r.incoming = call[c].incoming
      BY <1>1 DEF CallRecords
    <3>2. call' = [call EXCEPT ![c] = r]
      BY <2>2 DEF RetryRefresh, SigningKey
    <3> HIDE DEF r
    <3> QED
      BY <3>1, <3>2
  <2> QED
    BY <2>1, <2>2
<1>3. ~lost => /\ serverToken = held => serverKey = SigningKey
               /\ serverKey \in {0, SigningKey, call[c].incoming}
  BY <1>1 DEF KeyInv, KeysAgree
<1> QED
  BY <1>1, <1>2, <1>3, OperationKeepsKeys DEF serverVars

(* No operation is under way afterwards.                                        *)
LEMMA EndedKeepsKeys ==
  ASSUME NodeInv, KeyInv, NEW c \in Calls, Active(c), Leave(c), UNCHANGED <<keysMade, serverVars>>,
         prover' # 0, ~lost' => (bound' => boundJkt' = prover') /\ serverKey = SigningKey'
  PROVE  KeyInv'
<1> DEFINE op == [token |-> call[c].token, kind |-> call[c].kind]
           leaves(d) == d = c \/ (call[d].at = "joined" /\ call[d].kind = op.kind
                                  /\ call[d].token = op.token)
<1>1. call' = [d \in Calls |-> IF leaves(d) THEN Idle ELSE call[d]]
  BY DEF Leave
<1>2. leaves(c) /\ Idle.at = "idle"
  BY DEF Idle
<1> HIDE DEF leaves
<1>3. \A d \in Calls : call'[d].at \notin {"request", "answered"}
  BY <1>1, <1>2 DEF NodeInv, OneOperation, Active
<1>4. \A d \in Calls : ~Active(d)'
  BY <1>3 DEF Active
<1> QED
  BY <1>3, <1>4 DEF KeyInv, KeysAgree, serverVars

LEMMA EndingKeepsKeys ==
  ASSUME NodeInv, KeyInv, NEW c \in Calls, ProverFails(c) \/ Succeed(c) \/ Fail(c)
  PROVE  KeyInv'
<1>1. call[c] \in CallRecords /\ Active(c) /\ call[c].token = held /\ Leave(c)
      /\ UNCHANGED <<keysMade, serverVars>> /\ prover # 0
  BY DEF NodeInv, Typed, OneOperation, KeyInv, Active, ProverFails, Succeed, Fail
<1>2. ~lost => InStep(call[c]) /\ KeysAgree
  BY <1>1 DEF NodeInv, SpendInv, KeyInv
<1>3. ASSUME UNCHANGED <<sessionVars, held>>, ~lost' => ~lost /\ serverToken = held
      PROVE  KeyInv'
  <2>1. SigningKey' = SigningKey /\ prover' = prover /\ bound' = bound /\ boundJkt' = boundJkt
    BY <1>3 DEF SigningKey, sessionVars
  <2> QED
    BY <1>1, <1>2, <1>3, <2>1, EndedKeepsKeys DEF KeysAgree
<1>4. CASE ProverFails(c)
  <2>1. call[c].at = "request" /\ UNCHANGED <<sessionVars, held>>
        /\ (IF call[c].tries = 2 THEN lost' = TRUE ELSE lost' = lost)
    BY <1>4 DEF ProverFails
  <2>2. ~lost' => ~lost /\ serverToken = held
    BY <1>2, <2>1 DEF InStep
  <2> QED
    BY <1>3, <2>1, <2>2
<1>5. CASE Fail(c)
  <2>1. UNCHANGED <<sessionVars, held>> /\ lost' = (lost \/ call[c].token # serverToken)
    BY <1>5 DEF Fail
  <2> QED
    BY <1>1, <1>3, <2>1
<1>6. CASE Succeed(c)
  <2> DEFINE op == call[c]
  <2>1. op.got.jkt = serverKey /\ lost' = lost
        /\ IF op.kind = "rotation" THEN bound /\ op.incoming # 0 ELSE op.incoming = 0
    BY <1>1, <1>6 DEF Succeed, KeyInv
  <2>2. ~lost => (bound => boundJkt = prover) /\ serverKey \in {0, SigningKey, op.incoming}
    BY <1>1, <1>2 DEF KeysAgree
  <2> HIDE DEF op
  <2>3. CASE op.kind = "rotation" /\ op.got.jkt = op.incoming
    <3>1. Commit(op.incoming) \/ (op.got.jkt # op.incoming /\ Observe(op.got.jkt))
      BY <1>6, <2>3 DEF Succeed, Finalize, op
    <3>2. prover' = op.incoming /\ bound' = TRUE /\ boundJkt' = op.incoming
      BY <2>3, <3>1 DEF Commit
    <3> QED
      BY <1>1, <2>1, <2>3, <3>2, EndedKeepsKeys DEF SigningKey
  <2>4. CASE ~(op.kind = "rotation" /\ op.got.jkt = op.incoming)
    <3>1. Observe(op.got.jkt)
      BY <1>6, <2>4 DEF Succeed, Finalize, op
    <3>2. prover' = prover /\ bound' = (serverKey # 0)
          /\ boundJkt' = IF serverKey # 0 /\ boundJkt = 0 THEN prover ELSE boundJkt
      BY <2>1, <3>1 DEF Observe
    <3>3. ~lost => serverKey \in {0, SigningKey}
      BY <2>1, <2>2, <2>4
    <3>4. ~lost => (bound' => boundJkt' = prover') /\ serverKey = SigningKey'
      BY <1>1, <2>2, <3>2, <3>3 DEF SigningKey
    <3> QED
      BY <1>1, <2>1, <3>2, <3>4, EndedKeepsKeys
  <2> QED
    BY <2>3, <2>4
<1> QED
  BY <1>4, <1>5, <1>6

LEMMA CallingKeepsKeys ==
  ASSUME NodeInv, KeyInv, NEW c \in Calls, NEW kind \in OperationKinds, CallSdk(c, kind)
  PROVE  KeyInv'
<1>1. UNCHANGED <<sessionVars, held, signedIn, serverVars, lost>> /\ ~Active(c)
      /\ (kind = "rotation" => bound)
  BY DEF CallSdk, Active
<1>2. SigningKey' = SigningKey
  BY <1>1 DEF SigningKey, sessionVars
<1>3. CASE call' = [call EXCEPT ![c] = [Idle EXCEPT !.kind = kind, !.at = "joined",
                                                    !.token = held]]
           /\ UNCHANGED <<gate, keysMade>>
  <2> DEFINE r == [Idle EXCEPT !.kind = kind, !.at = "joined", !.token = held]
  <2>1. r.at = "joined"
    BY DEF Idle
  <2> HIDE DEF r
  <2>2. call' = [call EXCEPT ![c] = r]
    BY <1>3 DEF r
  <2>3. call'[c].at = "joined" /\ \A d \in Calls \ {c} : call'[d] = call[d]
    BY <2>1, <2>2 DEF NodeInv, Typed
  <2>4. ~Active(c)' /\ \A d \in Calls \ {c} : Active(d)' <=> Active(d)
    BY <2>3 DEF Active
  <2> QED
    BY <1>1, <1>2, <1>3, <2>3, <2>4 DEF KeyInv, KeysAgree, sessionVars, serverVars
<1>4. CASE InGate(held) = {} /\ Enter(c, kind)
  <2> DEFINE r == [Idle EXCEPT !.kind = kind, !.at = "request", !.token = held,
                               !.key = SigningKey,
                               !.incoming = IF kind = "rotation" THEN keysMade' ELSE 0]
  <2>1. \A d \in Calls : ~Active(d)
    <3> SUFFICES ASSUME NEW d \in Calls, Active(d) PROVE FALSE
      OBVIOUS
    <3> DEFINE op == [token |-> call[d].token, kind |-> call[d].kind]
    <3>1. op \in gate /\ op.token = held
      BY DEF NodeInv, OneOperation
    <3> HIDE DEF op
    <3> QED
      BY <1>4, <3>1 DEF InGate
  <2>2. keysMade' \in Nat /\ (kind = "rotation" => keysMade' # 0)
    BY <1>4 DEF Enter, KeyInv
  <2>3. r.at = "request" /\ r.kind = kind
        /\ r.incoming = (IF kind = "rotation" THEN keysMade' ELSE 0)
    BY DEF Idle
  <2>4. call' = [call EXCEPT ![c] = r]
    BY <1>4 DEF Enter, SigningKey
  <2> HIDE DEF r
  <2>5. call'[c] = r /\ \A d \in Calls \ {c} : call'[d] = call[d]
    BY <2>4 DEF NodeInv, Typed
  <2>6. Active(c)' /\ \A d \in Calls \ {c} : ~Active(d)' /\ call'[d].at # "answered"
    BY <2>1, <2>3, <2>5 DEF Active
  <2>7. ~lost => serverKey = SigningKey
    BY <2>1 DEF KeyInv, KeysAgree, NodeInv, SpendInv
  <2> QED
    BY <1>1, <1>2, <2>2, <2>3, <2>5, <2>6, <2>7 DEF KeyInv, KeysAgree, sessionVars, serverVars
<1> QED
  BY <1>3, <1>4 DEF CallSdk

LEMMA ExchangeKeepsKeys ==
  ASSUME NodeInv, KeyInv, Exchange
  PROVE  KeyInv'
<1>1. signedIn = "no" /\ UNCHANGED <<prover, gate, call, held, keysMade, serverToken, lost>>
  BY DEF Exchange
<1>2. \A c \in Calls : ~Active(c)
  BY <1>1 DEF NodeInv, OneOperation
<1>3. \A c \in Calls : ~Active(c)' /\ call'[c].at # "answered"
  BY <1>1, <1>2 DEF Active
<1>4. (bound' => boundJkt' = prover') /\ serverKey' = SigningKey'
  BY <1>1 DEF Exchange, SigningKey
<1> QED
  BY <1>1, <1>3, <1>4 DEF KeyInv, KeysAgree

LEMMA NodeStarts ==
  ASSUME NodeInit
  PROVE  NodeInv /\ KeyInv
<1>1. \A c \in Calls : call[c].at = "idle"
  BY DEF NodeInit, Idle
<1>2. KeyInv
  BY <1>1 DEF NodeInit, KeyInv, KeysAgree, Active, SigningKey
<1> QED
  BY <1>2, InvStarts

LEMMA StepKeepsNode ==
  ASSUME NodeInv, KeyInv, [NodeNext]_nodeVars
  PROVE  NodeInv' /\ KeyInv'
<1>1. NodeInv'
  BY StepKeepsInv
<1>2. CASE UNCHANGED nodeVars
  <2>1. KeyInv'
    BY <1>2 DEF nodeVars, KeyInv, KeysAgree, Active, SigningKey
  <2> QED
    BY <1>1, <2>1
<1> QED
  BY <1>1, <1>2, ExchangeKeepsKeys, CallingKeepsKeys, ServingKeepsKeys, SendingAgainKeepsKeys,
     EndingKeepsKeys DEF NodeNext

(* "Never a half-swap": with nothing under way, a bound session signs with the  *)
(* key the server has bound its token to, unless an answer was lost.            *)
THEOREM RotationsAreWhole == NodeSpec => []RotationIsWhole
<1>1. NodeInit => NodeInv /\ KeyInv
  BY NodeStarts
<1>2. NodeInv /\ KeyInv /\ [NodeNext]_nodeVars => NodeInv' /\ KeyInv'
  BY StepKeepsNode
<1>3. NodeInv /\ KeyInv => RotationIsWhole
  <2> SUFFICES ASSUME NodeInv, KeyInv, gate = {}, ~lost, bound
               PROVE  serverKey = prover /\ boundJkt = prover
    BY DEF RotationIsWhole
  <2>1. \A c \in Calls : ~Active(c)
    BY DEF NodeInv, OneOperation
  <2>2. held = serverToken
    BY <2>1 DEF NodeInv, SpendInv
  <2> QED
    BY <2>2 DEF KeyInv, KeysAgree, SigningKey
<1> QED
  BY <1>1, <1>2, <1>3, PTL DEF NodeSpec

-------------------------------------------------------------------------------
(* The bounds of the type invariant                                             *)

(* Keys are the ones generated, tokens the ones issued.                         *)
RangeInv ==
  /\ prover \in 1 .. MaxKeys /\ keysMade \in 1 .. MaxKeys
  /\ boundJkt \in 0 .. MaxKeys /\ serverKey \in 0 .. MaxKeys
  /\ held \in 0 .. MaxSpent /\ serverToken \in 0 .. MaxSpent
  /\ gate \subseteq [token : 0 .. MaxSpent, kind : OperationKinds]
  /\ \A c \in Calls : call[c].incoming \in 0 .. MaxKeys

(* A step of the server, or a request sent again, keeps the call's incoming key.*)
LEMMA ServingKeepsRange ==
  ASSUME NodeInv, RangeInv, NEW c \in Calls, Serve(c) \/ AnswerNonce(c) \/ RetryRefresh(c)
  PROVE  RangeInv'
<1>1. UNCHANGED <<sessionVars, gate, held, keysMade>>
  BY DEF Serve, AnswerNonce, RetryRefresh
<1>2. /\ serverToken' \in 0 .. MaxSpent
      /\ serverKey' \in {0, serverKey, call[c].incoming}
  BY NodeAssumption DEF NodeAssumption, NodeInv, Typed, RangeInv, Serve, Spend, HandBack, DetectReuse, Refuse,
     serverVars, AnswerNonce, RetryRefresh
<1>3. /\ call[c] \in CallRecords
      /\ \E r : call' = [call EXCEPT ![c] = r] /\ r.incoming = call[c].incoming
  <2>1. call \in [Calls -> CallRecords]
    BY DEF NodeInv, Typed
  <2>2. ASSUME NEW answer, SdkAnswered(c, answer)
        PROVE  \E r : call' = [call EXCEPT ![c] = r] /\ r.incoming = call[c].incoming
    <3> DEFINE r == [call[c] EXCEPT !.at = "answered", !.got = answer]
    <3>1. r.incoming = call[c].incoming
      BY <2>1 DEF CallRecords
    <3>2. call' = [call EXCEPT ![c] = r]
      BY <2>2 DEF SdkAnswered
    <3> HIDE DEF r
    <3> QED
      BY <3>1, <3>2
  <2>3. CASE Serve(c)
    BY <2>1, <2>2, <2>3 DEF Serve, Spend, HandBack, DetectReuse, Refuse
  <2>4. CASE AnswerNonce(c)
    <3> DEFINE r == [call[c] EXCEPT !.at = "request", !.nonce = TRUE, !.got = Nothing]
    <3>1. r.incoming = call[c].incoming
      BY <2>1 DEF CallRecords
    <3>2. call' = [call EXCEPT ![c] = r]
      BY <2>4 DEF AnswerNonce
    <3> HIDE DEF r
    <3> QED
      BY <2>1, <3>1, <3>2
  <2>5. CASE RetryRefresh(c)
    <3> DEFINE r == [call[c] EXCEPT !.at = "request", !.tries = 2, !.nonce = FALSE,
                                    !.key = SigningKey, !.got = Nothing]
    <3>1. r.incoming = call[c].incoming
      BY <2>1 DEF CallRecords
    <3>2. call' = [call EXCEPT ![c] = r]
      BY <2>5 DEF RetryRefresh, SigningKey
    <3> HIDE DEF r
    <3> QED
      BY <2>1, <3>1, <3>2
  <2> QED
    BY <2>3, <2>4, <2>5
<1>4. \A d \in Calls : call'[d].incoming = call[d].incoming
  BY <1>3 DEF NodeInv, Typed
<1> QED
  BY <1>1, <1>2, <1>4, NodeAssumption DEF NodeAssumption, RangeInv, sessionVars

(* A call that enters the gate brings one key more, if any; a joined one none.  *)
LEMMA CallingKeepsRange ==
  ASSUME NodeInv, RangeInv, NEW c \in Calls, NEW kind \in OperationKinds, CallSdk(c, kind)
  PROVE  RangeInv'
<1>1. /\ UNCHANGED <<sessionVars, held, serverVars>>
      /\ kind = "rotation" => keysMade < MaxKeys
  BY DEF CallSdk
<1>2. CASE call' = [call EXCEPT ![c] = [Idle EXCEPT !.kind = kind, !.at = "joined",
                                                    !.token = held]]
           /\ UNCHANGED <<gate, keysMade>>
  <2> DEFINE r == [Idle EXCEPT !.kind = kind, !.at = "joined", !.token = held]
  <2>1. r.incoming = 0
    BY DEF Idle
  <2> HIDE DEF r
  <2>2. call' = [call EXCEPT ![c] = r]
    BY <1>2 DEF r
  <2>3. \A d \in Calls : call'[d].incoming \in 0 .. MaxKeys
    BY <2>1, <2>2, NodeAssumption DEF NodeAssumption, NodeInv, Typed, RangeInv
  <2> QED
    BY <1>1, <1>2, <2>3 DEF RangeInv, sessionVars, serverVars
<1>3. CASE Enter(c, kind)
  <2> DEFINE r == [Idle EXCEPT !.kind = kind, !.at = "request", !.token = held,
                               !.key = SigningKey,
                               !.incoming = IF kind = "rotation" THEN keysMade' ELSE 0]
  <2>1. keysMade' \in 1 .. MaxKeys
    BY <1>1, <1>3, NodeAssumption DEF NodeAssumption, Enter, RangeInv
  <2>2. r.incoming \in 0 .. MaxKeys
    BY <2>1, NodeAssumption DEF NodeAssumption, Idle
  <2>3. call' = [call EXCEPT ![c] = r]
    BY <1>3 DEF Enter, SigningKey
  <2> HIDE DEF r
  <2>4. \A d \in Calls : call'[d].incoming \in 0 .. MaxKeys
    BY <2>2, <2>3 DEF NodeInv, Typed, RangeInv
  <2>5. gate' \subseteq [token : 0 .. MaxSpent, kind : OperationKinds]
    BY <1>3 DEF Enter, RangeInv
  <2> QED
    BY <1>1, <2>1, <2>4, <2>5 DEF RangeInv, sessionVars, serverVars
<1> QED
  BY <1>2, <1>3 DEF CallSdk

(* An operation that ends leaves the session an old key or its incoming one.    *)
LEMMA EndingKeepsRange ==
  ASSUME NodeInv, KeyInv, RangeInv, NEW c \in Calls, ProverFails(c) \/ Succeed(c) \/ Fail(c)
  PROVE  RangeInv'
<1>1. Leave(c) /\ UNCHANGED <<keysMade, serverVars>> /\ Active(c)
  BY DEF ProverFails, Succeed, Fail, Active
<1>2. \A d \in Calls : call'[d].incoming \in 0 .. MaxKeys
  BY <1>1, NodeAssumption DEF NodeAssumption, Leave, Idle, RangeInv
<1>3. gate' \subseteq gate
  BY <1>1 DEF Leave
<1>4. held' \in 0 .. MaxSpent
  BY DEF ProverFails, Succeed, Fail, NodeInv, SpendInv, RangeInv
<1>5. prover' \in 1 .. MaxKeys /\ boundJkt' \in 0 .. MaxKeys
  <2>1. CASE UNCHANGED sessionVars
    BY <2>1 DEF RangeInv, sessionVars
  <2>2. ASSUME NEW jkt, Observe(jkt) PROVE prover' \in 1 .. MaxKeys /\ boundJkt' \in 0 .. MaxKeys
    BY <2>2, NodeAssumption DEF NodeAssumption, Observe, RangeInv
  <2>3. CASE call[c].kind = "rotation" /\ Commit(call[c].incoming)
    <3>1. call[c].incoming # 0
      BY <1>1, <2>3 DEF KeyInv
    <3> QED
      BY <2>3, <3>1, NodeAssumption DEF NodeAssumption, Commit, RangeInv
  <2> QED
    BY <2>1, <2>2, <2>3 DEF ProverFails, Succeed, Fail, Finalize
<1> QED
  BY <1>1, <1>2, <1>3, <1>4, <1>5 DEF RangeInv, serverVars

LEMMA NodeStays == NodeSpec => [](NodeInv /\ KeyInv /\ RangeInv)
<1>1. NodeInit => NodeInv /\ KeyInv /\ RangeInv
  <2> SUFFICES ASSUME NodeInit PROVE NodeInv /\ KeyInv /\ RangeInv
    OBVIOUS
  <2>1. \A c \in Calls : call[c].incoming = 0
    BY DEF NodeInit, Idle
  <2>2. RangeInv
    BY <2>1, NodeAssumption DEF NodeAssumption, NodeInit, RangeInv
  <2> QED
    BY <2>2, NodeStarts
<1>2. NodeInv /\ KeyInv /\ RangeInv /\ [NodeNext]_nodeVars => NodeInv' /\ KeyInv' /\ RangeInv'
  <2> SUFFICES ASSUME NodeInv, KeyInv, RangeInv, [NodeNext]_nodeVars
               PROVE  NodeInv' /\ KeyInv' /\ RangeInv'
    OBVIOUS
  <2>1. NodeInv' /\ KeyInv'
    BY StepKeepsNode
  <2>2. CASE UNCHANGED nodeVars
    <3>1. RangeInv'
      BY <2>2 DEF nodeVars, RangeInv
    <3> QED
      BY <2>1, <3>1
  <2>3. CASE Exchange
    <3>1. RangeInv'
      BY <2>3, NodeAssumption DEF NodeAssumption, Exchange, RangeInv
    <3> QED
      BY <2>1, <3>1
  <2> QED
    BY <2>1, <2>2, <2>3, CallingKeepsRange, ServingKeepsRange, EndingKeepsRange DEF NodeNext
<1> QED
  BY <1>1, <1>2, PTL DEF NodeSpec

LEMMA NodeIsTyped == NodeInv /\ RangeInv => NodeTypeOK
BY DEF NodeInv, Typed, CallRecords, OneOperation, Active, RangeInv, NodeTypeOK

===============================================================================
