---------------------------- MODULE ToolParts_proofs ---------------------------
(* What is proved of the parts that MCToolParts runs one at a time, beside the  *)
(* Node SDK's DPoP session, which has a module of its own: the resource server, *)
(* for any number of concurrent requests, any key documents and any cooldown;   *)
(* the CLI's sign-ins and stored items, for any number of processes and         *)
(* commands; the device flows, for any polls and bounds; and the parts side by  *)
(* side.                                                                        *)
EXTENDS MCToolParts, NodeDpopSession_proofs, FiniteSetTheorems

(* THE RESOURCE SERVER *)

(* Refreshes are throttled                                                      *)

(* Refreshes begun over a fresh cache lie a cooldown apart, and the last lies   *)
(* at lastAttempt; a cache that has a document was refreshed before.            *)
ThrottleInv ==
  /\ now \in Nat /\ forced \in Nat /\ lastAttempt \in Int
  /\ lastAttempt # Never => lastAttempt \in 0 .. now /\ forced * Cooldown <= lastAttempt
  /\ lastAttempt = Never => forced = 0 /\ cache.document = 0 /\ fetch = NoFetch

(* The steps that leave the throttle alone. *)
ThrottleKept == UNCHANGED <<forced, lastAttempt>> /\ now' \in Nat /\ now <= now'

LEMMA KeptThrottle ==
  ASSUME ThrottleInv, ThrottleKept, lastAttempt = Never => cache' = cache /\ fetch' = fetch
  PROVE  ThrottleInv'
<1>1. CASE lastAttempt = Never
  BY <1>1 DEF ThrottleInv, ThrottleKept, Never
<1>2. CASE lastAttempt # Never
  BY <1>2, VerificationAssumption DEF ThrottleInv, ThrottleKept, VerificationAssumption, Never
<1> QED
  BY <1>1, <1>2

LEMMA BegunRefreshIsThrottled ==
  ASSUME ThrottleInv, NEW r \in Requests, NEW handled, GetKey(r, handled), UNCHANGED <<now, cache>>
  PROVE  ThrottleInv'
<1>1. Cooldown \in Nat \ {0}
  BY VerificationAssumption DEF VerificationAssumption
<1>2. CASE UNCHANGED <<lastAttempt, fetch, forced>>
  BY <1>2, KeptThrottle DEF ThrottleKept, ThrottleInv
<1>3. CASE ~ UNCHANGED <<lastAttempt, fetch, forced>>
  <2>1. ~ (Fresh /\ Cooling) /\ lastAttempt' = now
        /\ forced' = IF Fresh THEN forced + 1 ELSE forced
    BY <1>3 DEF GetKey, Refresh
  <2>2. now \in Nat /\ forced \in Nat /\ lastAttempt \in Int
    BY DEF ThrottleInv
  <2>3. forced * Cooldown <= now
    BY <1>1, <2>2 DEF ThrottleInv
  <2>4. Fresh => (forced + 1) * Cooldown <= now
    <3> SUFFICES ASSUME Fresh PROVE (forced + 1) * Cooldown <= now
      OBVIOUS
    <3>1. lastAttempt # Never
      BY DEF ThrottleInv, Fresh
    <3>2. now - lastAttempt >= Cooldown
      BY <1>1, <2>1, <2>2, <3>1 DEF Cooling
    <3>3. forced * Cooldown <= lastAttempt
      BY <3>1 DEF ThrottleInv
    <3> QED
      BY <1>1, <2>2, <3>2, <3>3
  <2>5. now # Never
    BY <2>2 DEF Never
  <2>6. forced' \in Nat /\ forced' * Cooldown <= now
    BY <2>1, <2>2, <2>3, <2>4
  <2> QED
    BY <2>1, <2>2, <2>5, <2>6 DEF ThrottleInv
<1> QED
  BY <1>2, <1>3

LEMMA ThrottleStays == VerificationSpec => []ThrottleInv
<1>1. VerificationInit => ThrottleInv
  BY DEF VerificationInit, ThrottleInv, Never, NoCache, NoFetch
<1>2. ThrottleInv /\ [VerificationNext]_verificationVars => ThrottleInv'
  <2> SUFFICES ASSUME ThrottleInv, [VerificationNext]_verificationVars PROVE ThrottleInv'
    OBVIOUS
  <2>1. CASE UNCHANGED verificationVars
    BY <2>1 DEF verificationVars, ThrottleInv
  <2>2. CASE Rotate \/ SecondPasses
    BY <2>2, KeptThrottle DEF Rotate, SecondPasses, ThrottleKept, ThrottleInv
  <2>3. CASE Discovery \/ ServeKeys \/ KeysArrive
    <3>1. fetch # NoFetch
      BY <2>3 DEF Discovery, ServeKeys, KeysArrive, NoFetch
    <3>2. lastAttempt # Never
      BY <3>1 DEF ThrottleInv
    <3> QED
      BY <2>3, <3>2, KeptThrottle DEF Discovery, ServeKeys, KeysArrive, ThrottleKept, ThrottleInv
  <2>4. ASSUME NEW r \in Requests, Arrive(r) PROVE ThrottleInv'
    <3>1. UNCHANGED <<now, cache>>
      BY <2>4 DEF Arrive
    <3>2. CASE UNCHANGED <<lastAttempt, fetch, forced>>
      BY <3>1, <3>2, KeptThrottle DEF ThrottleKept, ThrottleInv
    <3>3. CASE \E shown : GetKey(r, [request[r] EXCEPT !.shown = shown])
      BY <3>1, <3>3, BegunRefreshIsThrottled
    <3> QED
      BY <2>4, <3>2, <3>3 DEF Arrive
  <2>5. ASSUME NEW r \in Requests, SignatureChecked(r) \/ ProofChecked(r) PROVE ThrottleInv'
    BY <2>5, KeptThrottle DEF SignatureChecked, ProofChecked, ThrottleKept, ThrottleInv
  <2> QED
    BY <2>1, <2>2, <2>3, <2>4, <2>5 DEF VerificationNext
<1> QED
  BY <1>1, <1>2, PTL DEF VerificationSpec

(* Unknown keys do not make the server flood the issuer: JwksCache.getKey.      *)
THEOREM RefreshesAreThrottled == VerificationSpec => []UnknownKeysAreThrottled
<1>1. ThrottleInv => UnknownKeysAreThrottled
  BY VerificationAssumption DEF ThrottleInv, UnknownKeysAreThrottled, VerificationAssumption
<1> QED
  BY <1>1, ThrottleStays, PTL

-------------------------------------------------------------------------------
(* Requests and proofs                                                          *)

Verdicts ==
  TokenFlaws \cup ProofFlaws \cup
  {"ok", "token/missing", "token/invalid_algorithm", "token/malformed", "token/revoked",
   "jwks/no_matching_key", "jwks/unavailable", "scheme_downgrade", "scheme_mismatch",
   "jti_replay", "replay_check_unavailable"}
Stages == {"new", "key", "signature", "proof", "done"}
Handled == [stage : Stages, shown : Presentations \cup {NotShown}, key : Nat, verdict : Verdicts]

(* A request that asked for a key has shown a scheme and a presentation.        *)
TrafficInv ==
  /\ scenario \in Scenarios
  /\ now \in Nat
  /\ published \in DOMAIN Documents
  /\ cache \in [document : 0 .. published, fetchedAt : Nat]
  /\ fetch \in [stage : {"none", "oauth", "oidc", "jwks"}, document : 0 .. published]
  /\ request \in [Requests -> Handled]
  /\ \A r \in Requests :
       /\ request[r].stage # "new" => request[r].shown \in Presentations
       /\ request[r].stage # "done" => request[r].verdict = "none"
       /\ request[r].stage \in {"key", "signature", "proof"} => request[r].shown.scheme # "none"
       /\ request[r].stage = "proof" => request[r].shown.token.bound
       /\ request[r].verdict = "ok" /\ request[r].shown.token.bound =>
            request[r].shown.scheme = "dpop" /\ request[r].shown.proof.flaw = "none"

(* What a step makes of one request is one of these.                            *)
GoodRequest(h) ==
  /\ h \in Handled
  /\ h.stage # "new" => h.shown \in Presentations
  /\ h.stage # "done" => h.verdict = "none"
  /\ h.stage \in {"key", "signature", "proof"} => h.shown.scheme # "none"
  /\ h.stage = "proof" => h.shown.token.bound
  /\ h.verdict = "ok" /\ h.shown.token.bound =>
       h.shown.scheme = "dpop" /\ h.shown.proof.flaw = "none"

LEMMA RequestsAreGood ==
  TrafficInv <=> /\ scenario \in Scenarios /\ now \in Nat
                 /\ published \in DOMAIN Documents
                 /\ cache \in [document : 0 .. published, fetchedAt : Nat]
                 /\ fetch \in [stage : {"none", "oauth", "oidc", "jwks"}, document : 0 .. published]
                 /\ request = [r \in Requests |-> request[r]]
                 /\ \A r \in Requests : GoodRequest(request[r])
BY DEF TrafficInv, GoodRequest

LEMMA DecidedIsGood ==
  ASSUME NEW h \in Handled, h.shown \in Presentations, NEW v \in Verdicts,
         v = "ok" /\ h.shown.token.bound => h.shown.scheme = "dpop" /\ h.shown.proof.flaw = "none"
  PROVE  GoodRequest(Decided(h, v)) /\ Decided(h, v).shown = h.shown
         /\ Decided(h, v).stage = "done" /\ Decided(h, v).verdict = v
BY DEF Decided, GoodRequest, Handled, Stages

LEMMA LookedUpIsGood ==
  ASSUME NEW h \in Handled, h.shown \in Presentations, h.shown.scheme # "none",
         h.verdict = "none", NEW document \in Nat
  PROVE  GoodRequest(LookedUp(h, document)) /\ LookedUp(h, document).verdict # "ok"
<1>1. CASE Has(document, h.shown.token.kid)
  <2>1. LookedUp(h, document) = [h EXCEPT !.stage = "signature", !.key = document]
    BY <1>1 DEF LookedUp
  <2> QED
    BY <2>1 DEF GoodRequest, Handled, Stages
<1>2. CASE ~ Has(document, h.shown.token.kid)
  <2>1. LookedUp(h, document) = Decided(h, "jwks/no_matching_key")
    BY <1>2 DEF LookedUp
  <2>2. "jwks/no_matching_key" \in Verdicts /\ "jwks/no_matching_key" # "ok"
    BY DEF Verdicts
  <2> QED
    BY <2>1, <2>2, DecidedIsGood
<1> QED
  BY <1>1, <1>2

LEMMA DocumentsAreNumbered ==
  \A d \in DOMAIN Documents : d \in Nat \ {0} /\ Documents[d].epoch \in Nat
                               /\ 0 .. d \subseteq {0} \cup DOMAIN Documents
<1> DEFINE D == [keys : SUBSET Nat, epoch : Nat, maxAge : Nat \ {0}]
<1>1. Documents \in Seq(D)
  BY VerificationAssumption DEF VerificationAssumption
<1>2. DOMAIN Documents = 1 .. Len(Documents) /\ Len(Documents) \in Nat
      /\ \A d \in 1 .. Len(Documents) : Documents[d] \in D
  <2> HIDE DEF D
  <2> QED
    BY <1>1
<1> QED
  BY <1>2

(* The steps of one request, and those of none.                                 *)
LEMMA OneRequestMoves ==
  ASSUME TrafficInv, NEW r \in Requests, NEW h, GoodRequest(h),
         request' = [request EXCEPT ![r] = h], UNCHANGED <<scenario, now, published, cache>>,
         fetch' \in [stage : {"none", "oauth", "oidc", "jwks"}, document : 0 .. published]
  PROVE  TrafficInv' /\ request'[r] = h /\ \A q \in Requests \ {r} : request'[q] = request[q]
<1>1. request'[r] = h /\ \A q \in Requests \ {r} : request'[q] = request[q]
  BY DEF TrafficInv
<1>2. request' \in [Requests -> Handled]
  BY DEF TrafficInv, GoodRequest
<1> QED
  BY <1>1, <1>2 DEF TrafficInv, GoodRequest

LEMMA NoRequestMoves ==
  ASSUME TrafficInv, UNCHANGED <<scenario, request>>, now' \in Nat, now <= now',
         published' \in DOMAIN Documents, published <= published',
         cache' = cache,
         fetch' \in [stage : {"none", "oauth", "oidc", "jwks"}, document : 0 .. published]
  PROVE  TrafficInv'
<1>1. published \in Nat /\ published' \in Nat
  BY DocumentsAreNumbered DEF TrafficInv
<1>2. cache' \in [document : 0 .. published', fetchedAt : Nat]
      /\ fetch' \in [stage : {"none", "oauth", "oidc", "jwks"}, document : 0 .. published']
  BY <1>1 DEF TrafficInv
<1> QED
  BY <1>2 DEF TrafficInv

LEMMA AnsweredKeepsTraffic ==
  ASSUME TrafficInv, NEW document \in 0 .. published, NEW failure \in {"none", "fetch", "body"},
         Answered(document, failure), UNCHANGED <<scenario, now, published>>
  PROVE  /\ TrafficInv'
         /\ \A r \in Requests : \/ request'[r] = request[r]
                                \/ request[r].stage = "key" /\ request'[r].verdict # "ok"
<1> DEFINE used == IF failure = "none" THEN document
                   ELSE IF failure = "body" THEN 0 ELSE cache.document
           next(r) == IF request[r].stage # "key" THEN request[r]
                      ELSE IF used = 0 THEN Decided(request[r], "jwks/unavailable")
                      ELSE LookedUp(request[r], used)
<1>1. published \in Nat /\ used \in 0 .. published
  BY DocumentsAreNumbered DEF TrafficInv
<1>2. request' = [r \in Requests |-> next(r)]
  BY DEF Answered
<1>3. cache' \in [document : 0 .. published, fetchedAt : Nat]
      /\ fetch' \in [stage : {"none", "oauth", "oidc", "jwks"}, document : 0 .. published]
  BY <1>1 DEF Answered, TrafficInv, NoFetch
<1>4. "jwks/unavailable" \in Verdicts /\ "jwks/unavailable" # "ok"
  BY DEF Verdicts
<1>5. ASSUME NEW r \in Requests
      PROVE  GoodRequest(next(r)) /\ (\/ next(r) = request[r]
                                      \/ request[r].stage = "key" /\ next(r).verdict # "ok")
  <2>1. GoodRequest(request[r])
    BY RequestsAreGood
  <2>2. CASE request[r].stage # "key"
    BY <2>1, <2>2
  <2>3. CASE request[r].stage = "key"
    <3>1. request[r] \in Handled /\ request[r].shown \in Presentations
          /\ request[r].shown.scheme # "none" /\ request[r].verdict = "none"
      BY <2>1, <2>3 DEF GoodRequest
    <3>2. CASE used = 0
      <4>1. next(r) = Decided(request[r], "jwks/unavailable")
        BY <2>3, <3>2
      <4> HIDE DEF next
      <4> QED
        BY <1>4, <2>3, <3>1, <4>1, DecidedIsGood
    <3>3. CASE used # 0
      <4>1. next(r) = LookedUp(request[r], used) /\ used \in Nat
        BY <1>1, <2>3, <3>3
      <4> HIDE DEF next, used
      <4> QED
        BY <2>3, <3>1, <4>1, LookedUpIsGood
    <3> QED
      BY <3>2, <3>3
  <2> QED
    BY <2>2, <2>3
<1> HIDE DEF next, used
<1>6. \A r \in Requests : request'[r] = next(r)
  BY <1>2
<1>7. request' \in [Requests -> Handled]
  BY <1>2, <1>5 DEF GoodRequest
<1> QED
  BY <1>3, <1>5, <1>6, <1>7 DEF TrafficInv, GoodRequest

(* Nobody is accepted with a bound token in the step.                           *)
NobodyBoundAccepted ==
  \A q \in Requests : \/ request'[q] = request[q]
                      \/ request'[q].verdict # "ok"
                      \/ ~ request'[q].shown.token.bound

LEMMA ArriveKeepsTraffic ==
  ASSUME TrafficInv, NEW r \in Requests, Arrive(r)
  PROVE  TrafficInv' /\ NobodyBoundAccepted /\ UNCHANGED burned
         /\ \A q \in Requests : request[q].stage # "new" => request'[q] = request[q]
<1>1. PICK shown \in scenario.presented :
        LET handled == [request[r] EXCEPT !.shown = shown]
            flaw == IF shown.scheme = "none" THEN "token/missing" ELSE HeaderFlaw(shown.token)
        IN \/ /\ flaw # "none"
              /\ request' = [request EXCEPT ![r] = Decided(handled, flaw)]
              /\ UNCHANGED <<lastAttempt, fetch, forced>>
           \/ flaw = "none" /\ GetKey(r, handled)
  BY DEF Arrive
<1> DEFINE handled == [request[r] EXCEPT !.shown = shown]
           flaw == IF shown.scheme = "none" THEN "token/missing" ELSE HeaderFlaw(shown.token)
<1>2. shown \in Presentations
  BY <1>1, TrafficAssumption DEF TrafficInv, TrafficAssumption
<1>3. UNCHANGED <<scenario, now, published, cache, burned>> /\ request[r].stage = "new"
  BY DEF Arrive
<1>4. handled \in Handled /\ handled.shown = shown /\ handled.verdict = "none"
  BY <1>2, <1>3 DEF TrafficInv, Handled
<1>5. flaw \in Verdicts /\ flaw # "ok" /\ (flaw = "none" => shown.scheme # "none")
  BY DEF HeaderFlaw, Verdicts, TokenFlaws
<1> HIDE DEF handled, flaw
<1>6. published \in Nat /\ cache.document \in Nat
      /\ fetch \in [stage : {"none", "oauth", "oidc", "jwks"}, document : 0 .. published]
  BY DocumentsAreNumbered DEF TrafficInv
<1>7. (flaw # "none" /\ request' = [request EXCEPT ![r] = Decided(handled, flaw)] /\ fetch' = fetch)
      \/ (flaw = "none" /\ GetKey(r, handled))
  BY <1>1 DEF handled, flaw
<1>8. PICK h : /\ GoodRequest(h) /\ h.verdict # "ok" /\ request' = [request EXCEPT ![r] = h]
               /\ fetch' \in [stage : {"none", "oauth", "oidc", "jwks"}, document : 0 .. published]
  <2>1. CASE flaw # "none"
    BY <1>2, <1>4, <1>5, <1>6, <1>7, <2>1, DecidedIsGood
  <2>2. CASE flaw = "none" /\ request' = [request EXCEPT ![r] = LookedUp(handled, cache.document)]
             /\ fetch' = fetch
    BY <1>2, <1>4, <1>5, <1>6, <2>2, LookedUpIsGood
  <2>3. CASE flaw = "none" /\ request' = [request EXCEPT ![r] = [handled EXCEPT !.stage = "key"]]
             /\ Refresh
    <3> DEFINE waiting == [handled EXCEPT !.stage = "key"]
    <3>1. GoodRequest(waiting) /\ waiting.verdict # "ok"
      BY <1>2, <1>4, <1>5, <2>3 DEF GoodRequest, Handled, Stages
    <3>2. fetch' \in [stage : {"none", "oauth", "oidc", "jwks"}, document : 0 .. published]
      BY <1>6, <2>3 DEF Refresh
    <3> HIDE DEF waiting
    <3>3. request' = [request EXCEPT ![r] = waiting]
      BY <2>3 DEF waiting
    <3> QED
      BY <3>1, <3>2, <3>3
  <2> QED
    BY <1>7, <2>1, <2>2, <2>3 DEF GetKey
<1>9. TrafficInv' /\ request'[r] = h /\ \A q \in Requests \ {r} : request'[q] = request[q]
  BY <1>3, <1>8, OneRequestMoves
<1> QED
  BY <1>3, <1>8, <1>9 DEF NobodyBoundAccepted

LEMMA SignatureKeepsTraffic ==
  ASSUME TrafficInv, NEW r \in Requests, SignatureChecked(r)
  PROVE  /\ TrafficInv' /\ NobodyBoundAccepted /\ UNCHANGED burned
         /\ \A q \in Requests \ {r} : request'[q] = request[q]
         /\ LET flaw == ClaimFlaw(request[r].shown.token, request[r].key)
            IN flaw # "none" => request'[r].verdict = flaw
<1> DEFINE shown == request[r].shown
           flaw == ClaimFlaw(shown.token, request[r].key)
           verdict == IF flaw # "none" THEN flaw
                      ELSE IF shown.scheme = "dpop" THEN "scheme_mismatch" ELSE "ok"
           h == IF flaw = "none" /\ shown.token.bound THEN [request[r] EXCEPT !.stage = "proof"]
                ELSE Decided(request[r], verdict)
<1>1. request[r].stage = "signature" /\ request[r] \in Handled /\ shown \in Presentations
      /\ shown.scheme # "none" /\ request[r].verdict = "none"
  BY DEF SignatureChecked, TrafficInv
<1>2. request' = [request EXCEPT ![r] = h]
      /\ UNCHANGED <<scenario, now, published, cache, fetch, burned>>
  BY DEF SignatureChecked, TrafficInv
<1>3. flaw \in Verdicts /\ flaw # "ok" /\ verdict \in Verdicts /\ (flaw # "none" => verdict = flaw)
  BY DEF ClaimFlaw, Verdicts, TokenFlaws
<1>4. /\ GoodRequest(h) /\ (h.verdict # "ok" \/ ~ h.shown.token.bound)
      /\ flaw # "none" => h.verdict = flaw
  <2>1. CASE flaw = "none" /\ shown.token.bound
    <3>1. h = [request[r] EXCEPT !.stage = "proof"]
      BY <2>1
    <3> HIDE DEF h, flaw, verdict
    <3> QED
      BY <1>1, <2>1, <3>1 DEF GoodRequest, Handled, Stages
  <2>2. CASE ~ (flaw = "none" /\ shown.token.bound)
    <3>1. h = Decided(request[r], verdict)
      BY <2>2
    <3>2. verdict = "ok" => ~ shown.token.bound
      BY <1>3, <2>2
    <3> HIDE DEF h, flaw, verdict
    <3> QED
      BY <1>1, <1>3, <2>2, <3>1, <3>2, DecidedIsGood
  <2> QED
    BY <2>1, <2>2
<1> HIDE DEF h, verdict
<1>5. fetch' \in [stage : {"none", "oauth", "oidc", "jwks"}, document : 0 .. published]
  BY <1>2 DEF TrafficInv
<1>6. TrafficInv' /\ request'[r] = h /\ \A q \in Requests \ {r} : request'[q] = request[q]
  BY <1>2, <1>4, <1>5, OneRequestMoves
<1> QED
  BY <1>2, <1>4, <1>6 DEF NobodyBoundAccepted

(* With an onJti hook a proof is accepted under a jti that was not burned and   *)
(* is burned now.                                                               *)
LEMMA ProofKeepsTraffic ==
  ASSUME TrafficInv, NEW r \in Requests, ProofChecked(r)
  PROVE  /\ TrafficInv' /\ burned \subseteq burned'
         /\ \A q \in Requests \ {r} : request'[q] = request[q]
         /\ request'[r].shown = request[r].shown /\ request[r].verdict # "ok"
         /\ request'[r].verdict = "ok" /\ scenario.onJti =>
              LET jti == request[r].shown.proof.jti IN jti \notin burned /\ jti \in burned'
<1>1. request[r].stage = "proof" /\ request[r] \in Handled /\ request[r].shown \in Presentations
      /\ request[r].shown.scheme \in {"bearer", "dpop"} /\ request[r].shown.token.bound
      /\ request[r].verdict = "none"
  BY DEF ProofChecked, TrafficInv, Presentations
<1>2. UNCHANGED <<scenario, now, published, cache, fetch>>
  BY DEF ProofChecked
<1>3. PICK v \in Verdicts :
        /\ request' = [request EXCEPT ![r] = Decided(request[r], v)] /\ burned \subseteq burned'
        /\ v = "ok" => request[r].shown.scheme = "dpop" /\ request[r].shown.proof.flaw = "none"
        /\ v = "ok" /\ scenario.onJti => /\ request[r].shown.proof.jti \notin burned
                                         /\ request[r].shown.proof.jti \in burned'
  <2> DEFINE shown == request[r].shown
  <2>0. "ok" \in Verdicts /\ "jti_replay" \in Verdicts /\ "replay_check_unavailable" \in Verdicts
        /\ ProofFlaw(shown) \in Verdicts /\ ProofFlaw(shown) # "ok"
    BY <1>1 DEF ProofFlaw, Verdicts, Presentations, ProofFlaws
  <2>1. CASE ProofFlaw(shown) # "none"
    BY <2>0, <2>1 DEF ProofChecked, TrafficInv
  <2>2. CASE ProofFlaw(shown) = "none"
    <3>1. shown.scheme = "dpop" /\ shown.proof.flaw = "none"
      BY <1>1, <2>2 DEF ProofFlaw
    <3>2. CASE ~scenario.onJti
      BY <2>0, <2>2, <3>1, <3>2 DEF ProofChecked, TrafficInv
    <3>3. CASE scenario.onJti
      <4>1. BurnJti(r, shown.proof.jti)
        BY <2>2, <3>3 DEF ProofChecked
      <4> QED
        BY <2>0, <3>1, <4>1 DEF BurnJti, TrafficInv
    <3> QED
      BY <3>2, <3>3
  <2> QED
    BY <2>1, <2>2
<1> DEFINE h == Decided(request[r], v)
<1>4. GoodRequest(h) /\ h.shown = request[r].shown /\ h.verdict = v
  BY <1>1, <1>3, DecidedIsGood
<1> HIDE DEF h
<1>5. fetch' \in [stage : {"none", "oauth", "oidc", "jwks"}, document : 0 .. published]
      /\ request' = [request EXCEPT ![r] = h]
  BY <1>2, <1>3 DEF TrafficInv, h
<1>6. TrafficInv' /\ request'[r] = h /\ \A q \in Requests \ {r} : request'[q] = request[q]
  BY <1>2, <1>4, <1>5, OneRequestMoves
<1> QED
  BY <1>1, <1>3, <1>4, <1>6

LEMMA TrafficStarts == VerificationInit => TrafficInv
<1> SUFFICES ASSUME VerificationInit PROVE TrafficInv
  OBVIOUS
<1>1. 1 \in DOMAIN Documents
  BY VerificationAssumption DEF VerificationAssumption
<1>2. published = 1 /\ cache = [document |-> 0, fetchedAt |-> 0]
      /\ fetch = [stage |-> "none", document |-> 0]
  BY DEF VerificationInit, NoCache, NoFetch
<1>3. request \in [Requests -> Handled] /\ \A r \in Requests : request[r].stage = "new"
                                                                /\ request[r].verdict = "none"
  BY DEF VerificationInit, Handled, Stages, Verdicts, TokenFlaws
<1> QED
  BY <1>1, <1>2, <1>3 DEF VerificationInit, TrafficInv

(* The issuer, the clock and the network: an answer accepts nobody, and only    *)
(* touches requests that wait for a key.                                        *)
LEMMA NetworkKeepsTraffic ==
  ASSUME TrafficInv, Rotate \/ SecondPasses \/ Discovery \/ ServeKeys \/ KeysArrive
  PROVE  /\ TrafficInv' /\ NobodyBoundAccepted /\ UNCHANGED burned
         /\ \A q \in Requests : request'[q] = request[q] \/ request[q].stage = "key"
<1>1. published \in Nat /\ 0 \in 0 .. published
      /\ fetch \in [stage : {"none", "oauth", "oidc", "jwks"}, document : 0 .. published]
  BY DocumentsAreNumbered DEF TrafficInv
<1>2. CASE Rotate
  <2>1. published' \in DOMAIN Documents
    BY <1>1, <1>2, VerificationAssumption DEF Rotate, VerificationAssumption
  <2> QED
    BY <1>1, <1>2, <2>1, NoRequestMoves DEF Rotate, NobodyBoundAccepted, TrafficInv
<1>3. CASE SecondPasses
  BY <1>1, <1>3, NoRequestMoves DEF SecondPasses, NobodyBoundAccepted, TrafficInv
<1>4. ASSUME UNCHANGED <<scenario, now, published, cache, burned, request>>,
             fetch' \in [stage : {"none", "oauth", "oidc", "jwks"}, document : 0 .. published]
      PROVE  TrafficInv' /\ NobodyBoundAccepted
             /\ \A q \in Requests : request'[q] = request[q] \/ request[q].stage = "key"
  BY <1>1, <1>4, NoRequestMoves DEF NobodyBoundAccepted, TrafficInv
<1>5. ASSUME NEW document \in 0 .. published, NEW failure \in {"none", "fetch", "body"},
             Answered(document, failure), UNCHANGED <<scenario, now, published, burned>>
      PROVE  TrafficInv' /\ NobodyBoundAccepted
             /\ \A q \in Requests : request'[q] = request[q] \/ request[q].stage = "key"
  BY <1>5, AnsweredKeepsTraffic DEF NobodyBoundAccepted
<1>6. CASE Discovery
  <2>1. UNCHANGED <<scenario, now, published, burned>>
    BY <1>6 DEF Discovery
  <2>2. CASE Answered(0, "fetch")
    BY <1>1, <1>5, <2>1, <2>2
  <2>3. CASE \/ fetch' = [fetch EXCEPT !.stage = "jwks"] /\ UNCHANGED <<cache, request>>
             \/ fetch' = [fetch EXCEPT !.stage = "oidc"] /\ UNCHANGED <<cache, request>>
    BY <1>1, <1>4, <2>1, <2>3
  <2> QED
    BY <1>6, <2>1, <2>2, <2>3 DEF Discovery
<1>7. CASE ServeKeys
  BY <1>1, <1>4, <1>7 DEF ServeKeys
<1>8. CASE KeysArrive
  <2>1. UNCHANGED <<scenario, now, published, burned>> /\ fetch.document \in 0 .. published
    BY <1>1, <1>8 DEF KeysArrive
  <2>2. CASE Answered(fetch.document, "none")
    BY <1>5, <2>1, <2>2
  <2>3. ASSUME NEW failure \in {"fetch", "body"}, Answered(0, failure)
        PROVE  TrafficInv' /\ NobodyBoundAccepted
               /\ \A q \in Requests : request'[q] = request[q] \/ request[q].stage = "key"
    BY <1>1, <1>5, <2>1, <2>3
  <2> QED
    BY <1>8, <2>1, <2>2, <2>3 DEF KeysArrive
<1> QED
  BY <1>2, <1>3, <1>6, <1>7, <1>8 DEF Rotate, SecondPasses

LEMMA TrafficStays == VerificationSpec => []TrafficInv
<1>1. VerificationInit => TrafficInv
  BY TrafficStarts
<1>2. TrafficInv /\ [VerificationNext]_verificationVars => TrafficInv'
  <2> SUFFICES ASSUME TrafficInv, [VerificationNext]_verificationVars PROVE TrafficInv'
    OBVIOUS
  <2>1. CASE UNCHANGED verificationVars
    BY <2>1 DEF verificationVars, TrafficInv
  <2> QED
    BY <2>1, NetworkKeepsTraffic, ArriveKeepsTraffic, SignatureKeepsTraffic, ProofKeepsTraffic
       DEF VerificationNext
<1> QED
  BY <1>1, <1>2, PTL DEF VerificationSpec

-------------------------------------------------------------------------------
(* Proofs are accepted once                                                     *)

BoundAccepted(r) == request[r].verdict = "ok" /\ request[r].shown.token.bound

BurnInv ==
  scenario.onJti =>
    /\ \A r \in Requests : BoundAccepted(r) => request[r].shown.proof.jti \in burned
    /\ \A r, q \in Requests :
         BoundAccepted(r) /\ BoundAccepted(q)
         /\ request[r].shown.proof.jti = request[q].shown.proof.jti => r = q

LEMMA NobodyAcceptedKeepsBurned ==
  ASSUME BurnInv, NobodyBoundAccepted, burned' = burned, scenario' = scenario
  PROVE  BurnInv'
BY DEF BurnInv, NobodyBoundAccepted, BoundAccepted

LEMMA ProofKeepsBurned ==
  ASSUME TrafficInv, BurnInv, NEW r \in Requests, ProofChecked(r)
  PROVE  BurnInv'
<1> DEFINE jti == request[r].shown.proof.jti
<1>1. burned \subseteq burned' /\ request'[r].shown = request[r].shown
      /\ \A q \in Requests \ {r} : request'[q] = request[q]
  BY ProofKeepsTraffic
<1>2. request'[r].verdict = "ok" /\ scenario.onJti => jti \notin burned /\ jti \in burned'
  BY ProofKeepsTraffic
<1>3. scenario' = scenario
  BY DEF ProofChecked
<1> QED
  BY <1>1, <1>2, <1>3 DEF BurnInv, BoundAccepted

LEMMA StepKeepsBurned ==
  ASSUME TrafficInv, BurnInv, [VerificationNext]_verificationVars
  PROVE  TrafficInv' /\ BurnInv'
<1>0. scenario' = scenario
  BY DEF VerificationNext, verificationVars, Rotate, SecondPasses, Discovery, ServeKeys,
         KeysArrive, Arrive, SignatureChecked, ProofChecked
<1>1. CASE UNCHANGED verificationVars
  BY <1>1 DEF verificationVars, TrafficInv, BurnInv, BoundAccepted
<1>2. CASE Rotate \/ SecondPasses \/ Discovery \/ ServeKeys \/ KeysArrive
  BY <1>0, <1>2, NetworkKeepsTraffic, NobodyAcceptedKeepsBurned
<1>3. ASSUME NEW r \in Requests, Arrive(r) PROVE TrafficInv' /\ BurnInv'
  BY <1>0, <1>3, ArriveKeepsTraffic, NobodyAcceptedKeepsBurned
<1>4. ASSUME NEW r \in Requests, SignatureChecked(r) PROVE TrafficInv' /\ BurnInv'
  BY <1>0, <1>4, SignatureKeepsTraffic, NobodyAcceptedKeepsBurned
<1>5. ASSUME NEW r \in Requests, ProofChecked(r) PROVE TrafficInv' /\ BurnInv'
  BY <1>5, ProofKeepsTraffic, ProofKeepsBurned
<1> QED
  BY <1>1, <1>2, <1>3, <1>4, <1>5 DEF VerificationNext

LEMMA BurnedStarts == VerificationInit => BurnInv
BY DEF VerificationInit, BurnInv, BoundAccepted

(* An accepted bound token came with a sound proof, and with an onJti hook no   *)
(* two accepted requests carry the same one, also when the application's store  *)
(* is unavailable: checkProof's last step.  Without the hook replay is not      *)
(* prevented, and the theorem does not say so.                                  *)
THEOREM ProofsAreBurned == VerificationSpec => []ProofsAreAcceptedOnce
<1>1. VerificationInit => TrafficInv /\ BurnInv
  BY TrafficStarts, BurnedStarts
<1>2. TrafficInv /\ BurnInv /\ [VerificationNext]_verificationVars => TrafficInv' /\ BurnInv'
  BY StepKeepsBurned
<1>3. TrafficInv /\ BurnInv => ProofsAreAcceptedOnce
  BY DEF TrafficInv, BurnInv, BoundAccepted, ProofsAreAcceptedOnce
<1> QED
  BY <1>1, <1>2, <1>3, PTL DEF VerificationSpec

-------------------------------------------------------------------------------
(* Revocation is followed                                                       *)

(* What the cache's document revokes contains what an older one revoked, once   *)
(* its epoch has come: epochs only grow.                                        *)
LEMMA RevocationGrows ==
  ASSUME TrafficInv, NEW token, token.iat \in Nat, NEW document \in Nat,
         document <= cache.document, Revoked(token, document), EpochHasCome(cache.document)
  PROVE  Revoked(token, cache.document)
<1>1. published \in DOMAIN Documents /\ published \in Nat /\ now \in Nat
      /\ cache.document \in 0 .. published
  BY DocumentsAreNumbered DEF TrafficInv
<1>2. document \in DOMAIN Documents /\ cache.document \in DOMAIN Documents
      /\ document # 0 /\ cache.document # 0
  BY <1>1, DocumentsAreNumbered DEF Revoked
<1>3. \A i, j \in DOMAIN Documents : i < j => Documents[i].epoch <= Documents[j].epoch
  BY VerificationAssumption DEF VerificationAssumption
<1>4. \A i \in DOMAIN Documents : i \in Nat /\ Documents[i].epoch \in Nat
  BY DocumentsAreNumbered
<1>5. Documents[document].epoch \in 1 .. now /\ token.iat < Documents[document].epoch
  BY DEF Revoked
<1>6. CASE cache.document = document
  BY <1>6
<1>7. CASE cache.document # document
  <2>1. document < cache.document
    BY <1>1, <1>2, <1>7
  <2>2. Documents[document].epoch <= Documents[cache.document].epoch
    BY <1>2, <1>3, <2>1
  <2>3. Documents[cache.document].epoch <= now
    BY <1>2 DEF EpochHasCome
  <2>4. Documents[cache.document].epoch \in 1 .. now
        /\ token.iat < Documents[cache.document].epoch
    BY <1>1, <1>2, <1>4, <1>5, <2>2, <2>3
  <2> QED
    BY <1>2, <2>4 DEF Revoked
<1> QED
  BY <1>6, <1>7

RevocationStep ==
  \A r \in Requests :
    request[r].stage = "signature" /\ request'[r].stage # "signature"
    /\ EpochHasCome(cache.document)
    /\ (\E document \in request[r].key .. cache.document :
          Revoked(request[r].shown.token, document))
    => request'[r].verdict \notin {"none", "ok"}

LEMMA StepFollowsRevocation ==
  ASSUME TrafficInv, [VerificationNext]_verificationVars
  PROVE  RevocationStep
<1> SUFFICES ASSUME NEW r \in Requests, request[r].stage = "signature",
                    request'[r].stage # "signature", EpochHasCome(cache.document),
                    NEW document \in request[r].key .. cache.document,
                    Revoked(request[r].shown.token, document)
             PROVE  request'[r].verdict \notin {"none", "ok"}
  BY DEF RevocationStep
<1>1. request'[r] # request[r] /\ request[r].stage \notin {"new", "key", "proof", "done"}
  OBVIOUS
<1>2. SignatureChecked(r)
  <2>1. ~ UNCHANGED verificationVars
    BY <1>1 DEF verificationVars
  <2>2. ~ (Rotate \/ SecondPasses \/ Discovery \/ ServeKeys \/ KeysArrive)
    BY <1>1, NetworkKeepsTraffic
  <2>3. ASSUME NEW q \in Requests PROVE ~ Arrive(q)
    BY <1>1, <2>3, ArriveKeepsTraffic
  <2>4. ASSUME NEW q \in Requests PROVE ~ ProofChecked(q)
    <3>1. CASE q = r
      BY <1>1, <3>1 DEF ProofChecked
    <3>2. CASE q # r
      BY <1>1, <3>2, <2>4, ProofKeepsTraffic
    <3> QED
      BY <3>1, <3>2
  <2>5. ASSUME NEW q \in Requests \ {r} PROVE ~ SignatureChecked(q)
    BY <1>1, <2>5, SignatureKeepsTraffic
  <2> QED
    BY <2>1, <2>2, <2>3, <2>4, <2>5 DEF VerificationNext
<1>3. request[r].shown \in Presentations /\ request[r].key \in Nat
      /\ cache.document \in Nat
  BY DocumentsAreNumbered DEF TrafficInv, Handled
<1>4. Revoked(request[r].shown.token, cache.document)
  BY <1>3, RevocationGrows DEF Presentations
<1>5. ClaimFlaw(request[r].shown.token, request[r].key) \notin {"none", "ok"}
  BY <1>4 DEF ClaimFlaw
<1> QED
  BY <1>2, <1>5, SignatureKeepsTraffic

(* A token that the document of its key, or one the cache took meanwhile, has   *)
(* revoked is refused: verifyToken's epoch check after the signature.  Except   *)
(* while the cached epoch is still to come by the server's clock: the code      *)
(* ignores it, and the older ones it replaced with it.                          *)
THEOREM RevokedTokensAreRefused == VerificationSpec => RevocationIsFollowed
<1>1. TrafficInv /\ [VerificationNext]_verificationVars => [RevocationStep]_verificationVars
  BY StepFollowsRevocation
<1>2. VerificationSpec => [][RevocationStep]_verificationVars
  BY <1>1, TrafficStays, PTL DEF VerificationSpec
<1> QED
  BY <1>2 DEF RevocationIsFollowed, RevocationStep

-------------------------------------------------------------------------------
(* Nobody waits for a refresh that is not under way                             *)

(* What a request holds of the documents; a request that is over has a verdict. *)
Sound(h) == h.key \in 0 .. published /\ (h.stage = "done" => h.verdict # "none")

WaitInv ==
  /\ now <= MaxNow /\ cache.fetchedAt <= now
  /\ (fetch.stage = "none") <=> ~ \E r \in Requests : request[r].stage = "key"
  /\ \A r \in Requests : Sound(request[r])

LEMMA OneRequestWaits ==
  ASSUME TrafficInv, WaitInv, NEW r \in Requests, NEW h, request' = [request EXCEPT ![r] = h],
         UNCHANGED <<now, published, cache>>, Sound(h), request[r].stage # "key",
         h.stage = "key" => fetch'.stage # "none", h.stage # "key" => fetch' = fetch
  PROVE  WaitInv'
<1>1. request'[r] = h /\ \A q \in Requests \ {r} : request'[q] = request[q]
  BY DEF TrafficInv
<1>2. (fetch'.stage = "none") <=> ~ \E q \in Requests : request'[q].stage = "key"
  <2>1. CASE h.stage = "key"
    BY <1>1, <2>1
  <2>2. CASE h.stage # "key"
    BY <1>1, <2>2 DEF WaitInv
  <2> QED  BY <2>1, <2>2
<1>3. \A q \in Requests : Sound(request[q])'
  BY <1>1 DEF WaitInv, Sound
<1> QED  BY <1>2, <1>3 DEF WaitInv

LEMMA LookedUpIsSound ==
  ASSUME TrafficInv, NEW h \in Handled, Sound(h), NEW document \in 0 .. published
  PROVE  Sound(LookedUp(h, document)) /\ LookedUp(h, document).stage # "key"
BY DEF Sound, LookedUp, Decided, Handled, Stages

LEMMA AnsweredSettlesWaiting ==
  ASSUME TrafficInv, WaitInv, NEW document \in 0 .. published,
         NEW failure \in {"none", "fetch", "body"}, Answered(document, failure),
         UNCHANGED <<now, published>>
  PROVE  WaitInv'
<1> DEFINE used == IF failure = "none" THEN document
                   ELSE IF failure = "body" THEN 0 ELSE cache.document
           next(r) == IF request[r].stage # "key" THEN request[r]
                      ELSE IF used = 0 THEN Decided(request[r], "jwks/unavailable")
                      ELSE LookedUp(request[r], used)
<1>1. used \in 0 .. published
  BY DocumentsAreNumbered DEF TrafficInv
<1>2. request' = [r \in Requests |-> next(r)] /\ fetch' = NoFetch
      /\ cache' \in {cache, [document |-> document, fetchedAt |-> now]}
  BY DEF Answered
<1>3. ASSUME NEW r \in Requests PROVE Sound(next(r)) /\ next(r).stage # "key"
  <2>1. request[r] \in Handled /\ Sound(request[r])
    BY DEF TrafficInv, WaitInv
  <2>2. Sound(Decided(request[r], "jwks/unavailable"))
        /\ Decided(request[r], "jwks/unavailable").stage # "key"
    BY <2>1 DEF Sound, Decided, Handled
  <2> HIDE DEF used
  <2> QED  BY <1>1, <2>1, <2>2, LookedUpIsSound
<1> HIDE DEF next, used
<1>4. \A r \in Requests : Sound(request[r])' /\ request'[r].stage # "key"
  BY <1>2, <1>3 DEF Sound
<1>5. cache'.fetchedAt <= now
  BY <1>2 DEF WaitInv, TrafficInv
<1> QED  BY <1>2, <1>4, <1>5 DEF WaitInv, NoFetch

LEMMA ArrivingWaits ==
  ASSUME TrafficInv, WaitInv, NEW r \in Requests, Arrive(r)
  PROVE  WaitInv'
<1>1. PICK shown \in scenario.presented :
        LET handled == [request[r] EXCEPT !.shown = shown]
            flaw == IF shown.scheme = "none" THEN "token/missing" ELSE HeaderFlaw(shown.token)
        IN \/ /\ flaw # "none"
              /\ request' = [request EXCEPT ![r] = Decided(handled, flaw)]
              /\ UNCHANGED <<lastAttempt, fetch, forced>>
           \/ flaw = "none" /\ GetKey(r, handled)
  BY DEF Arrive
<1> DEFINE handled == [request[r] EXCEPT !.shown = shown]
           flaw == IF shown.scheme = "none" THEN "token/missing" ELSE HeaderFlaw(shown.token)
<1>2. UNCHANGED <<now, published, cache>> /\ request[r].stage = "new"
  BY DEF Arrive
<1>3. shown \in Presentations
  BY <1>1, TrafficAssumption DEF TrafficInv, TrafficAssumption
<1>4. handled \in Handled /\ handled.stage = "new" /\ Sound(handled)
  BY <1>2, <1>3 DEF TrafficInv, WaitInv, Handled, Sound
<1> HIDE DEF handled, flaw
<1>5. cache.document \in 0 .. published
  BY DEF TrafficInv
<1>6. CASE flaw # "none" /\ request' = [request EXCEPT ![r] = Decided(handled, flaw)] /\ fetch' = fetch
  <2>1. Sound(Decided(handled, flaw)) /\ Decided(handled, flaw).stage = "done"
    BY <1>4, <1>6 DEF Sound, Decided, Handled
  <2> QED  BY <1>2, <1>6, <2>1, OneRequestWaits
<1>7. CASE request' = [request EXCEPT ![r] = LookedUp(handled, cache.document)] /\ fetch' = fetch
  BY <1>2, <1>4, <1>5, <1>7, LookedUpIsSound, OneRequestWaits
<1>8. CASE request' = [request EXCEPT ![r] = [handled EXCEPT !.stage = "key"]] /\ Refresh
  <2>1. fetch'.stage # "none"
    BY <1>8 DEF Refresh
  <2>2. Sound([handled EXCEPT !.stage = "key"]) /\ [handled EXCEPT !.stage = "key"].stage = "key"
    BY <1>4 DEF Sound, Handled
  <2> QED  BY <1>2, <1>8, <2>1, <2>2, OneRequestWaits
<1>9. \/ flaw # "none" /\ request' = [request EXCEPT ![r] = Decided(handled, flaw)] /\ fetch' = fetch
      \/ GetKey(r, handled)
  BY <1>1 DEF handled, flaw
<1> QED  BY <1>6, <1>7, <1>8, <1>9 DEF GetKey

LEMMA CheckingWaits ==
  ASSUME TrafficInv, WaitInv, NEW r \in Requests, SignatureChecked(r) \/ ProofChecked(r)
  PROVE  WaitInv'
<1>1. UNCHANGED <<now, published, cache, fetch>> /\ request[r].stage \in {"signature", "proof"}
  BY DEF SignatureChecked, ProofChecked
<1>2. request[r] \in Handled /\ Sound(request[r])
  BY DEF TrafficInv, WaitInv
<1>3. ASSUME NEW v, v # "none", request' = [request EXCEPT ![r] = Decided(request[r], v)]
      PROVE  WaitInv'
  <2>1. Sound(Decided(request[r], v)) /\ Decided(request[r], v).stage = "done"
    BY <1>2, <1>3 DEF Sound, Decided, Handled
  <2> QED  BY <1>1, <1>3, <2>1, OneRequestWaits
<1>4. CASE request' = [request EXCEPT ![r] = [request[r] EXCEPT !.stage = "proof"]]
  <2>1. Sound([request[r] EXCEPT !.stage = "proof"])
        /\ [request[r] EXCEPT !.stage = "proof"].stage = "proof"
    BY <1>2 DEF Sound, Handled
  <2> QED  BY <1>1, <1>4, <2>1, OneRequestWaits
<1>5. CASE SignatureChecked(r)
  <2> DEFINE shown == request[r].shown
             flaw == ClaimFlaw(shown.token, request[r].key)
             verdict == IF flaw # "none" THEN flaw
                        ELSE IF shown.scheme = "dpop" THEN "scheme_mismatch" ELSE "ok"
  <2>1. verdict # "none"
    OBVIOUS
  <2>2. \/ request' = [request EXCEPT ![r] = [request[r] EXCEPT !.stage = "proof"]]
        \/ request' = [request EXCEPT ![r] = Decided(request[r], verdict)]
    BY <1>5 DEF SignatureChecked, TrafficInv
  <2> HIDE DEF verdict
  <2> QED  BY <1>3, <1>4, <2>1, <2>2
<1>6. CASE ProofChecked(r)
  <2>1. PICK v \in {ProofFlaw(request[r].shown), "ok", "jti_replay", "replay_check_unavailable"} :
          v # "none" /\ request' = [request EXCEPT ![r] = Decided(request[r], v)]
    BY <1>6 DEF ProofChecked, BurnJti, TrafficInv
  <2> QED  BY <1>3, <2>1
<1> QED  BY <1>5, <1>6

LEMMA StepKeepsWaiting ==
  ASSUME TrafficInv, WaitInv, [VerificationNext]_verificationVars
  PROVE  WaitInv'
<1>1. ASSUME UNCHANGED <<request, cache>>, (fetch'.stage = "none") <=> (fetch.stage = "none"),
             now' \in Nat, now <= now', now' <= MaxNow, published' \in Nat, published <= published'
      PROVE  WaitInv'
  <2>1. now \in Nat /\ MaxNow \in Nat /\ published \in Nat /\ cache.fetchedAt \in Nat
    BY VerificationAssumption, DocumentsAreNumbered DEF TrafficInv, VerificationAssumption
  <2>2. \A r \in Requests : Sound(request[r])'
    BY <1>1, <2>1 DEF WaitInv, Sound
  <2> QED  BY <1>1, <2>1, <2>2 DEF WaitInv
<1>2. now \in Nat /\ now <= MaxNow /\ published \in Nat /\ 0 \in 0 .. published
      /\ fetch \in [stage : {"none", "oauth", "oidc", "jwks"}, document : 0 .. published]
      /\ MaxNow \in Nat
  BY VerificationAssumption, DocumentsAreNumbered DEF TrafficInv, WaitInv, VerificationAssumption
<1>3. CASE Rotate \/ SecondPasses
  BY <1>1, <1>2, <1>3 DEF Rotate, SecondPasses
<1>4. CASE Discovery
  <2>1. CASE Answered(0, "fetch")
    BY <1>2, <1>4, <2>1, AnsweredSettlesWaiting DEF Discovery
  <2>2. CASE \E next \in {"jwks", "oidc"} : fetch' = [fetch EXCEPT !.stage = next]
             /\ UNCHANGED <<cache, request>>
    BY <1>1, <1>2, <1>4, <2>2 DEF Discovery
  <2> QED  BY <1>4, <2>1, <2>2 DEF Discovery
<1>5. CASE ServeKeys
  BY <1>1, <1>2, <1>5 DEF ServeKeys
<1>6. CASE KeysArrive
  BY <1>2, <1>6, AnsweredSettlesWaiting DEF KeysArrive
<1>7. CASE UNCHANGED verificationVars
  BY <1>1, <1>2, <1>7 DEF verificationVars
<1> QED
  BY <1>3, <1>4, <1>5, <1>6, <1>7, ArrivingWaits, CheckingWaits DEF VerificationNext

LEMMA VerificationStays == VerificationSpec => [](ThrottleInv /\ TrafficInv /\ WaitInv)
<1>1. VerificationInit => WaitInv
  BY VerificationAssumption
     DEF VerificationInit, VerificationAssumption, WaitInv, Sound, NoCache, NoFetch
<1>2. TrafficInv /\ WaitInv /\ [VerificationNext]_verificationVars => WaitInv'
  BY StepKeepsWaiting
<1> QED
  BY <1>1, <1>2, ThrottleStays, TrafficStays, PTL DEF VerificationSpec

LEMMA VerificationIsTyped == ThrottleInv /\ TrafficInv /\ WaitInv => VerificationTypeOK
<1> SUFFICES ASSUME ThrottleInv, TrafficInv, WaitInv PROVE VerificationTypeOK
  OBVIOUS
<1>1. now \in 0 .. MaxNow /\ lastAttempt \in Never .. now
  BY VerificationAssumption DEF ThrottleInv, WaitInv, VerificationAssumption, Never
<1>2. cache \in [document : 0 .. published, fetchedAt : 0 .. now]
  BY DEF TrafficInv, WaitInv
<1>3. \A r \in Requests : request[r] \in Handled /\ (request[r].stage # "done" => request[r].verdict = "none")
  BY DEF TrafficInv
<1> QED
  BY <1>1, <1>2, <1>3 DEF VerificationTypeOK, ThrottleInv, TrafficInv, WaitInv, Sound, Handled, Stages

-------------------------------------------------------------------------------
(* THE COMMAND LINE *)

KeyRecords == [client : Clients, id : Nat \ {0}, confirmed : BOOLEAN]
SessionRecords == [client : Clients, key : Nat]
Steps == Ended \cup {"platform", "prepare", "open", "callback", "exchange", "store", "kept",
                     "bind", "request", "retried"}
CommandRecords ==
  [kind : AllKinds \cup {"none"}, at : Steps, key : KeyRecords \cup {NoKey},
   token : SessionRecords \cup {NoSession}, found : BOOLEAN]

(* A key that is marked confirmed is the one that is trusted.                   *)
GoodKey(key, trust) ==
  key # NoKey => key \in KeyRecords /\ (key.confirmed => trust[key.client] = key.id)

(* A browser login has its key from the moment it opens the browser.            *)
WithKey == {"open", "callback", "exchange", "store", "bind"}
GoodCommand(r, trust) ==
  /\ r \in CommandRecords /\ GoodKey(r.key, trust)
  /\ r.kind = "login" /\ r.at \in WithKey => r.key # NoKey
  /\ r.at = "bind" => r.kind = "login"

KeysInv ==
  /\ trusted \in [Clients -> Nat] /\ generated \in Nat
  /\ GoodKey(slot, trusted)
  /\ stored \in SessionRecords \cup {NoSession}
  /\ command = [c \in Commands |-> command[c]]
  /\ \A c \in Commands : GoodCommand(command[c], trusted)

(* The server's trust is never moved to another key.                            *)
TrustKept == \A client \in Clients : trusted[client] # 0 => trusted'[client] = trusted[client]

LEMMA GoodKeysStayGood ==
  ASSUME TrustKept, NEW key, GoodKey(key, trusted)
  PROVE  GoodKey(key, trusted')
BY DEF TrustKept, GoodKey, KeyRecords

LEMMA CommandMoves ==
  ASSUME KeysInv, NEW c \in Commands, NEW r, command' = [command EXCEPT ![c] = r],
         trusted' \in [Clients -> Nat], TrustKept, generated' \in Nat,
         GoodCommand(r, trusted'), GoodKey(slot', trusted'),
         stored' \in SessionRecords \cup {NoSession}
  PROVE  KeysInv'
<1>1. command'[c] = r /\ (\A d \in Commands \ {c} : command'[d] = command[d])
      /\ command' = [d \in Commands |-> command'[d]]
  BY DEF KeysInv
<1>2. \A d \in Commands : GoodCommand(command'[d], trusted')
  BY <1>1, GoodKeysStayGood DEF KeysInv, GoodCommand
<1> QED
  BY <1>1, <1>2 DEF KeysInv

(* Most steps only move a command on.                                           *)
LEMMA PlainStepKeepsKeys ==
  ASSUME KeysInv, NEW c \in Commands, NEW step \in Steps, Goto(c, step),
         UNCHANGED <<slot, trusted, generated>>, stored' \in SessionRecords \cup {NoSession},
         command[c].kind = "login" /\ step \in WithKey => command[c].key # NoKey,
         step = "bind" => command[c].kind = "login"
  PROVE  KeysInv'
<1> DEFINE r == [command[c] EXCEPT !.at = step]
<1>1. command[c] \in CommandRecords /\ GoodKey(command[c].key, trusted)
  BY DEF KeysInv, GoodCommand
<1>2. r \in CommandRecords /\ r.at = step /\ r.kind = command[c].kind /\ r.key = command[c].key
  BY <1>1 DEF CommandRecords
<1>3. command' = [command EXCEPT ![c] = r]
  BY DEF Goto
<1> HIDE DEF r
<1>4. GoodCommand(r, trusted')
  BY <1>1, <1>2 DEF GoodCommand
<1> QED
  BY <1>3, <1>4, CommandMoves DEF KeysInv, TrustKept

LEMMA NewKeyIsGood ==
  ASSUME KeysInv, NEW client \in Clients
  PROVE  /\ NewKey(client) \in KeyRecords /\ GoodKey(NewKey(client), trusted)
         /\ InSlot(client) => slot \in KeyRecords /\ GoodKey(slot, trusted)
         /\ generated + 1 \in Nat
BY DEF KeysInv, NewKey, KeyRecords, GoodKey, InSlot

LEMMA GetOrCreateKeepsKeys ==
  ASSUME KeysInv, NEW c \in Commands, NEW client \in Clients,
         NEW session \in SessionRecords \cup {NoSession}, NEW step \in Steps,
         GetOrCreate(c, client, session, step), UNCHANGED <<stored, trusted>>, step # "bind"
  PROVE  KeysInv'
<1> DEFINE key == IF InSlot(client) THEN slot ELSE NewKey(client)
           r == [command[c] EXCEPT !.at = step, !.key = key, !.token = session]
<1> SUFFICES ASSUME ~(Goto(c, "failed") /\ KeyRefused) PROVE KeysInv'
  <2> SUFFICES ASSUME Goto(c, "failed"), KeyRefused PROVE KeysInv'
    OBVIOUS
  <2> DEFINE ended == [command[c] EXCEPT !.at = "failed"]
  <2>1. command[c] \in CommandRecords /\ GoodKey(command[c].key, trusted)
    BY DEF KeysInv, GoodCommand
  <2>2. ended \in CommandRecords /\ ended.at = "failed" /\ ended.key = command[c].key
    BY <2>1 DEF CommandRecords, Steps, Ended
  <2>3. command' = [command EXCEPT ![c] = ended]
    BY DEF Goto
  <2>4. generated' \in Nat
    BY DEF GetOrCreate, KeysInv
  <2> HIDE DEF ended
  <2>5. GoodCommand(ended, trusted) /\ GoodKey(slot', trusted)
    BY <2>1, <2>2 DEF GoodCommand, WithKey, KeyRefused, GoodKey, KeysInv
  <2> QED
    BY <2>3, <2>4, <2>5, CommandMoves DEF KeysInv, TrustKept
<1>0. NoKey \notin KeyRecords
  BY CliLoginAssumption DEF CliLoginAssumption, KeyRecords
<1>1. key \in KeyRecords /\ GoodKey(key, trusted) /\ key # NoKey
  BY <1>0, NewKeyIsGood
<1>2. slot' = key /\ generated' \in Nat
  BY NewKeyIsGood DEF GetOrCreate, KeysInv
<1>3. command[c] \in CommandRecords
  BY DEF KeysInv, GoodCommand
<1> HIDE DEF key
<1>4. r \in CommandRecords /\ r.at = step /\ r.key = key
  BY <1>1, <1>3 DEF CommandRecords
<1>5. command' = [command EXCEPT ![c] = r]
  BY DEF GetOrCreate, key
<1> HIDE DEF r
<1>6. GoodCommand(r, trusted)
  BY <1>1, <1>4 DEF GoodCommand
<1> QED
  BY <1>1, <1>2, <1>5, <1>6, CommandMoves DEF KeysInv, TrustKept

LEMMA StartingKeepsKeys ==
  ASSUME KeysInv, NEW c \in Commands, NEW kind \in Kinds, Begin(c, kind)
  PROVE  KeysInv'
<1> DEFINE r == [kind |-> kind, key |-> NoKey, token |-> NoSession, found |-> FALSE,
                 at |-> IF kind = "login" THEN "platform"
                        ELSE IF kind = "device" THEN "exchange" ELSE "prepare"]
<1>1. kind \in AllKinds
  BY CliLoginAssumption DEF CliLoginAssumption
<1>2. r \in CommandRecords /\ r.key = NoKey /\ r.at # "bind"
      /\ (r.kind = "login" => r.at \notin WithKey)
  BY <1>1 DEF CommandRecords, Steps, WithKey
<1>3. command' = [command EXCEPT ![c] = r] /\ UNCHANGED <<slot, stored, trusted, generated>>
  BY DEF Begin
<1> HIDE DEF r
<1>4. GoodCommand(r, trusted)
  BY <1>2 DEF GoodCommand, GoodKey
<1> QED
  BY <1>3, <1>4, CommandMoves DEF KeysInv, TrustKept

LEMMA PreparingKeepsKeys ==
  ASSUME KeysInv, NEW c \in Commands, PrepareLogin(c) \/ PrepareCi(c) \/ PrepareCall(c)
  PROVE  KeysInv'
<1> USE DEF Steps, Ended, WithKey
<1>1. stored \in SessionRecords \cup {NoSession} /\ command[c] \in CommandRecords
      /\ GoodKey(command[c].key, trusted)
  BY DEF KeysInv, GoodCommand
<1>2. \A kind : ClientOf(kind) \in Clients
  BY DEF ClientOf, Clients
<1>3. CASE PrepareLogin(c)
  <2>1. UNCHANGED <<stored, trusted>> /\ (command[c].kind = "custom" => Goto(c, "open"))
    BY <1>3 DEF PrepareLogin
  <2>2. CASE command[c].kind = "custom"
    BY <1>1, <1>3, <2>1, <2>2, PlainStepKeepsKeys DEF PrepareLogin
  <2>3. ASSUME NEW step \in {"open", "failed"},
               GetOrCreate(c, ClientOf(command[c].kind), NoSession, step)
        PROVE  KeysInv'
    BY <1>2, <2>1, <2>3, GetOrCreateKeepsKeys
  <2> QED
    BY <1>3, <2>2, <2>3 DEF PrepareLogin
<1>4. CASE PrepareCi(c)
  <2>1. UNCHANGED <<slot, stored, trusted>> /\ command[c].kind = "ci"
    BY <1>4 DEF PrepareCi, At
  <2>2. CASE Goto(c, "failed") /\ UNCHANGED generated
    BY <1>1, <2>1, <2>2, PlainStepKeepsKeys
  <2>3. CASE ~(Goto(c, "failed") /\ UNCHANGED generated)
    <3> DEFINE key == IF InSlot("ci") THEN slot ELSE NewKey("ci")
               r == [command[c] EXCEPT !.at = "exchange", !.found = InSlot("ci"), !.key = key]
    <3>1. "ci" \in Clients /\ InSlot("ci") \in BOOLEAN
      BY DEF Clients, InSlot
    <3>2. key \in KeyRecords /\ GoodKey(key, trusted) /\ generated' \in Nat
      BY <1>4, <2>3, <3>1, NewKeyIsGood DEF PrepareCi, KeysInv
    <3>3. command' = [command EXCEPT ![c] = r]
      BY <1>4, <2>3 DEF PrepareCi
    <3> HIDE DEF key
    <3>4. r \in CommandRecords /\ r.kind = "ci" /\ r.at = "exchange" /\ r.key = key
      BY <1>1, <2>1, <3>1, <3>2 DEF CommandRecords
    <3> HIDE DEF r
    <3>5. GoodCommand(r, trusted)
      BY <3>2, <3>4 DEF GoodCommand
    <3> QED
      BY <1>1, <2>1, <3>2, <3>3, <3>5, CommandMoves DEF KeysInv, TrustKept
  <2> QED
    BY <2>2, <2>3
<1>5. CASE PrepareCall(c)
  <2>1. UNCHANGED <<stored, trusted>> /\ command[c].kind = "call"
    BY <1>5 DEF PrepareCall, At
  <2>2. CASE Goto(c, "failed") /\ UNCHANGED <<slot, generated>>
    BY <1>1, <2>1, <2>2, PlainStepKeepsKeys
  <2>3. CASE stored # NoSession /\ UNCHANGED <<slot, generated>>
             /\ command' = [command EXCEPT ![c].at = "request", ![c].token = stored]
    <3> DEFINE r == [command[c] EXCEPT !.at = "request", !.token = stored]
    <3>1. r \in CommandRecords /\ r.kind = "call" /\ r.at = "request" /\ r.key = command[c].key
      BY <1>1, <2>1 DEF CommandRecords
    <3>2. command' = [command EXCEPT ![c] = r]
      BY <2>3
    <3> HIDE DEF r
    <3>3. GoodCommand(r, trusted)
      BY <1>1, <3>1 DEF GoodCommand
    <3> QED
      BY <1>1, <2>1, <2>3, <3>2, <3>3, CommandMoves DEF KeysInv, TrustKept
  <2>4. CASE stored # NoSession /\ GetOrCreate(c, stored.client, stored, "request")
    <3>1. stored.client \in Clients
      BY <1>1, <2>4 DEF SessionRecords
    <3> QED
      BY <1>1, <2>1, <2>4, <3>1, GetOrCreateKeepsKeys
  <2> QED
    BY <1>5, <2>2, <2>3, <2>4 DEF PrepareCall
<1> QED
  BY <1>3, <1>4, <1>5

LEMMA AnsweringKeepsKeys ==
  ASSUME KeysInv, NEW c \in Commands, ExchangeAnswered(c) \/ CallAnswered(c)
  PROVE  KeysInv'
<1> USE DEF Steps, Ended, WithKey
<1>1. command[c] \in CommandRecords /\ GoodKey(command[c].key, trusted)
      /\ stored \in SessionRecords \cup {NoSession}
      /\ (command[c].kind = "login" /\ command[c].at \in WithKey => command[c].key # NoKey)
  BY DEF KeysInv, GoodCommand
<1>2. UNCHANGED <<slot, stored, trusted, generated>>
  BY DEF ExchangeAnswered, CallAnswered
<1>3. ASSUME NEW step \in {"store", "retried"}, NEW session \in SessionRecords,
             command' = [command EXCEPT ![c].at = step, ![c].token = session],
             step = "retried" => command[c].kind = "call",
             step = "store" => command[c].at = "exchange"
      PROVE  KeysInv'
  <2> DEFINE r == [command[c] EXCEPT !.at = step, !.token = session]
  <2>1. r \in CommandRecords /\ r.kind = command[c].kind /\ r.at = step /\ r.key = command[c].key
    BY <1>1, <1>3 DEF CommandRecords
  <2>2. command' = [command EXCEPT ![c] = r]
    BY <1>3
  <2> HIDE DEF r
  <2>3. GoodCommand(r, trusted)
    BY <1>1, <1>3, <2>1 DEF GoodCommand
  <2> QED
    BY <1>1, <1>2, <2>2, <2>3, CommandMoves DEF KeysInv, TrustKept
<1>4. ASSUME NEW step \in {"failed", "done"}, Goto(c, step) PROVE KeysInv'
  BY <1>1, <1>2, <1>4, PlainStepKeepsKeys
<1>5. CASE ExchangeAnswered(c)
  <2>1. command[c].at = "exchange"
    BY <1>5 DEF ExchangeAnswered
  <2>2. CASE Goto(c, "failed")
    BY <1>4, <2>2
  <2>3. CASE ~Goto(c, "failed")
    <3>1. PICK boundTo \in {0, KeyId(command[c].key)} :
            command' = [command EXCEPT ![c].at = "store",
                          ![c].token = [client |-> ClientOf(command[c].kind), key |-> boundTo]]
      BY <1>5, <2>3 DEF ExchangeAnswered
    <3> DEFINE session == [client |-> ClientOf(command[c].kind), key |-> boundTo]
    <3>2. boundTo \in Nat /\ ClientOf(command[c].kind) \in Clients
      BY <1>1 DEF KeyId, GoodKey, KeyRecords, ClientOf, Clients
    <3>3. session \in SessionRecords
      BY <3>2 DEF SessionRecords
    <3>4. command' = [command EXCEPT ![c].at = "store", ![c].token = session]
      BY <3>1
    <3> HIDE DEF session
    <3> QED
      BY <1>3, <2>1, <3>3, <3>4
  <2> QED
    BY <2>2, <2>3
<1>6. CASE CallAnswered(c)
  <2>1. CASE Goto(c, "failed") \/ Goto(c, "done")
    BY <1>4, <2>1
  <2>2. CASE stored # NoSession
             /\ command' = [command EXCEPT ![c].at = "retried", ![c].token = stored]
    BY <1>1, <1>3, <1>6, <2>2 DEF CallAnswered
  <2> QED
    BY <1>6, <2>1, <2>2 DEF CallAnswered
<1> QED
  BY <1>5, <1>6

(* The server trusts the first key it is shown, and its answer confirms that    *)
(* one or takes the mark back.                                                  *)
LEMMA BindingKeepsKeys ==
  ASSUME KeysInv, NEW c \in Commands, BindAnswered(c)
  PROVE  KeysInv'
<1> DEFINE key == command[c].key
<1>1. command[c] \in CommandRecords /\ GoodKey(key, trusted) /\ command[c].at = "bind"
      /\ key # NoKey
  BY DEF KeysInv, GoodCommand, BindAnswered, WithKey
<1>2. key \in KeyRecords /\ (key.confirmed => trusted[key.client] = key.id)
      /\ key.client \in Clients /\ key.id \in Nat \ {0} /\ key.confirmed \in BOOLEAN
  BY <1>1 DEF GoodKey, KeyRecords
<1>3. trusted' = [trusted EXCEPT ![key.client] = IF @ = 0 THEN key.id ELSE @] \/ trusted' = trusted
  BY DEF BindAnswered
<1>4. trusted' \in [Clients -> Nat] /\ TrustKept
  BY <1>2, <1>3 DEF KeysInv, TrustKept
<1>5. GoodKey(slot', trusted')
  <2>1. CASE slot' = slot
    BY <1>4, <2>1, GoodKeysStayGood DEF KeysInv
  <2>1a. CASE slot' = NoKey
    BY <2>1a DEF GoodKey
  <2>2. CASE slot' \notin {slot, NoKey}
    <3>1. slot' = [key EXCEPT !.confirmed = (trusted'[key.client] = key.id)]
      BY <1>1, <2>2 DEF BindAnswered, KeyRefused
    <3> DEFINE agreed == (trusted'[key.client] = key.id)
    <3>2. agreed \in BOOLEAN
      OBVIOUS
    <3> HIDE DEF key, agreed
    <3>3. slot' \in KeyRecords /\ slot'.client = key.client /\ slot'.id = key.id
          /\ slot'.confirmed = agreed
      BY <1>2, <3>1, <3>2 DEF KeyRecords, agreed
    <3> QED
      BY <3>3 DEF GoodKey, agreed
  <2> QED
    BY <2>1, <2>1a, <2>2
<1>6. Goto(c, "done") /\ UNCHANGED <<stored, generated>>
  BY DEF BindAnswered
<1> DEFINE r == [command[c] EXCEPT !.at = "done"]
<1>7. r \in CommandRecords /\ r.at = "done" /\ r.key = key
  BY <1>1 DEF CommandRecords, Steps, Ended
<1>8. GoodCommand(r, trusted')
  <2>1. GoodKey(key, trusted')
    BY <1>1, <1>4, GoodKeysStayGood
  <2> HIDE DEF r, key
  <2> QED
    BY <1>7, <2>1 DEF GoodCommand, WithKey
<1>9. command' = [command EXCEPT ![c] = r]
  BY <1>6 DEF Goto
<1> HIDE DEF r, key
<1> QED
  BY <1>4, <1>5, <1>6, <1>8, <1>9, CommandMoves DEF KeysInv

LEMMA StepKeepsKeys ==
  ASSUME KeysInv, [CliLoginNext]_cliLoginVars
  PROVE  KeysInv'
<1> USE DEF Steps, Ended, WithKey
<1>1. CASE UNCHANGED cliLoginVars
  BY <1>1 DEF cliLoginVars, KeysInv, GoodCommand, GoodKey
<1>2. ASSUME NEW c \in Commands, NEW kind \in Kinds, Begin(c, kind) PROVE KeysInv'
  BY <1>2, StartingKeepsKeys
<1>3. ASSUME NEW c \in Commands, Progress(c) \/ Opened(c) \/ Callback(c) \/ Kill(c) PROVE KeysInv'
  <2>1. command[c] \in CommandRecords /\ stored \in SessionRecords \cup {NoSession}
        /\ NoSession \in SessionRecords \cup {NoSession}
        /\ (command[c].kind = "login" /\ command[c].at \in WithKey => command[c].key # NoKey)
        /\ command[c].token \in SessionRecords \cup {NoSession}
    BY DEF KeysInv, GoodCommand, CommandRecords
  <2>2. CASE PlatformAnswered(c)
    BY <2>1, <2>2, PlainStepKeepsKeys DEF PlatformAnswered, At
  <2>3. CASE PrepareLogin(c) \/ PrepareCi(c) \/ PrepareCall(c)
    BY <2>3, PreparingKeepsKeys
  <2>4. CASE CallbackTimeout(c) \/ Opened(c)
    BY <2>1, <2>4, PlainStepKeepsKeys DEF CallbackTimeout, Opened
  <2>5. CASE Callback(c)
    <3>1. UNCHANGED <<slot, stored, trusted, generated>> /\ command[c].at \in {"open", "callback"}
      BY <2>5 DEF Callback
    <3>2. CASE UNCHANGED command
      BY <3>1, <3>2 DEF KeysInv
    <3>3. CASE Goto(c, "failed") \/ Goto(c, "exchange")
      BY <2>1, <3>1, <3>3, PlainStepKeepsKeys
    <3> QED
      BY <2>5, <3>2, <3>3 DEF Callback
  <2>6. CASE ExchangeAnswered(c) \/ CallAnswered(c)
    BY <2>6, AnsweringKeepsKeys
  <2>7. CASE PersistCiKey(c)
    <3>0. PICK step \in {"kept", "failed"} : Goto(c, step)
      BY <2>7 DEF PersistCiKey
    <3> DEFINE r == [command[c] EXCEPT !.at = step]
    <3>1. r \in CommandRecords /\ r.at \in {"kept", "failed"} /\ r.key = command[c].key
      BY <2>1 DEF CommandRecords
    <3>2. GoodKey(command[c].key, trusted) /\ GoodKey(slot, trusted)
      BY DEF KeysInv, GoodCommand
    <3>3. command' = [command EXCEPT ![c] = r] /\ UNCHANGED <<stored, trusted, generated>>
          /\ slot' \in {slot, command[c].key, NoKey}
      BY <2>7, <3>0 DEF PersistCiKey, KeyRefused, Goto
    <3> HIDE DEF r
    <3>4. GoodCommand(r, trusted) /\ GoodKey(slot', trusted)
      BY <3>1, <3>2, <3>3 DEF GoodCommand, GoodKey
    <3> QED
      BY <2>1, <3>3, <3>4, CommandMoves DEF KeysInv, TrustKept
  <2>8. CASE StoreCiSession(c)
    BY <2>1, <2>8, PlainStepKeepsKeys DEF StoreCiSession, WriteSession, SessionRefused
  <2>9. CASE StoreSession(c)
    <3>1. PICK step \in {"kept", "bind", "done", "failed"} :
            Goto(c, step) /\ (step = "bind" => command[c].kind = "login")
      BY <2>9 DEF StoreSession
    <3>2. command[c].at = "store" /\ stored' \in {command[c].token, stored, NoSession}
          /\ UNCHANGED <<slot, trusted, generated>>
      BY <2>9 DEF StoreSession, WriteSession, SessionRefused, At
    <3> QED
      BY <2>1, <3>1, <3>2, PlainStepKeepsKeys
  <2>10. CASE KeepOrClear(c)
    <3>1. stored' \in {stored, NoSession} /\ (Goto(c, "failed") \/ Goto(c, "done"))
          /\ UNCHANGED <<slot, trusted, generated>>
      BY <2>10 DEF KeepOrClear
    <3> QED
      BY <2>1, <3>1, PlainStepKeepsKeys
  <2>11. CASE BindAnswered(c)
    BY <2>11, BindingKeepsKeys
  <2>12. CASE Logout(c)
    BY <2>1, <2>12, PlainStepKeepsKeys DEF Logout
  <2>13. CASE Kill(c)
    BY <2>1, <2>13, PlainStepKeepsKeys DEF Kill
  <2> QED
    BY <1>3, <2>2, <2>3, <2>4, <2>5, <2>6, <2>7, <2>8, <2>9, <2>10, <2>11, <2>12, <2>13
       DEF Progress
<1> QED
  BY <1>1, <1>2, <1>3 DEF CliLoginNext

LEMMA KeysStart ==
  ASSUME CliLoginInit
  PROVE  KeysInv
<1> DEFINE r == [kind |-> "none", at |-> "idle", key |-> NoKey, token |-> NoSession, found |-> FALSE]
<1>1. r \in CommandRecords /\ r.at = "idle" /\ r.key = NoKey /\ r.kind = "none"
  BY DEF CommandRecords, Steps, Ended
<1>2. command = [c \in Commands |-> r] /\ slot = NoKey /\ stored = NoSession
      /\ trusted = [client \in Clients |-> 0] /\ generated = 0
  BY DEF CliLoginInit
<1> HIDE DEF r
<1>3. GoodCommand(r, trusted)
  BY <1>1 DEF GoodCommand, GoodKey
<1> QED
  BY <1>2, <1>3 DEF KeysInv, GoodKey

(* A key marked confirmed is the one the server trusts, whatever commands run   *)
(* at once, are killed or lose an answer: bindInstallKey.                       *)
THEOREM ConfirmedKeysAreTrusted == CliLoginSpec => []ConfirmedIsTrusted
<1>1. CliLoginInit => KeysInv
  BY KeysStart
<1>2. KeysInv /\ [CliLoginNext]_cliLoginVars => KeysInv'
  BY StepKeepsKeys
<1>3. KeysInv => ConfirmedIsTrusted
  BY DEF KeysInv, GoodKey, ConfirmedIsTrusted
<1> QED
  BY <1>1, <1>2, <1>3, PTL DEF CliLoginSpec

-------------------------------------------------------------------------------
(* What a failed CI login has stored                                            *)

CiSteps == {"prepare", "exchange", "store", "kept", "done", "failed", "killed"}

(* A CI login stores its key when it has its token, and its session last.       *)
CiGood(r, written) ==
  /\ r.at \in CiSteps
  /\ r.at \in {"prepare", "exchange", "store"} => written = {}
  /\ r.at \in {"store", "kept"} => r.token # NoSession
  /\ r.at \in {"kept", "failed"} => written \subseteq {"key"}
  /\ r.at = "failed" /\ written # {} => r.token # NoSession

CiInv ==
  /\ wrote = [c \in Commands |-> wrote[c]]
  /\ \A c \in Commands : command[c].kind = "ci" => CiGood(command[c], wrote[c])

(* A step of one command leaves the others alone.                               *)
Others(c) ==
  /\ \A d \in Commands \ {c} : command'[d] = command[d] /\ wrote'[d] = wrote[d]
  /\ wrote' = [d \in Commands |-> wrote'[d]]

LEMMA CommandsAreApart ==
  ASSUME KeysInv, CiInv, NEW c \in Commands,
         Progress(c) \/ Opened(c) \/ Callback(c) \/ Kill(c)
  PROVE  Others(c) /\ command'[c].kind = command[c].kind
<1>1. command = [d \in Commands |-> command[d]] /\ wrote = [d \in Commands |-> wrote[d]]
      /\ command[c] \in CommandRecords
  BY DEF KeysInv, CiInv, GoodCommand
<1>2. ASSUME NEW step, Goto(c, step)
      PROVE  command'[c].kind = command[c].kind /\ \A d \in Commands \ {c} : command'[d] = command[d]
  BY <1>1, <1>2 DEF Goto, CommandRecords
<1>3. ASSUME NEW what, wrote' = [wrote EXCEPT ![c] = what]
      PROVE  wrote' = [d \in Commands |-> wrote'[d]]
             /\ \A d \in Commands \ {c} : wrote'[d] = wrote[d]
  BY <1>1, <1>3
<1>4. \/ UNCHANGED wrote
      \/ wrote' = [wrote EXCEPT ![c] = wrote[c] \cup {"key"}]
      \/ wrote' = [wrote EXCEPT ![c] = wrote[c] \cup {"session"}]
  BY <1>1 DEF Progress, PlatformAnswered, PrepareLogin, PrepareCi, PrepareCall, GetOrCreate,
     CallbackTimeout, ExchangeAnswered, PersistCiKey, StoreCiSession, StoreSession, WriteSession,
     KeepOrClear, BindAnswered, CallAnswered, Logout, Opened, Callback, Kill
<1>5. wrote' = [d \in Commands |-> wrote'[d]] /\ \A d \in Commands \ {c} : wrote'[d] = wrote[d]
  BY <1>1, <1>3, <1>4
<1>6. command'[c].kind = command[c].kind /\ \A d \in Commands \ {c} : command'[d] = command[d]
  <2>1. CASE PrepareLogin(c) \/ PrepareCi(c) \/ PrepareCall(c) \/ ExchangeAnswered(c) \/ CallAnswered(c)
    <3>1. CASE \E step : Goto(c, step)
      BY <1>2, <3>1
    <3>2. CASE ~ \E step : Goto(c, step)
      BY <1>1, <2>1, <3>2 DEF PrepareLogin, PrepareCi, PrepareCall, GetOrCreate, ExchangeAnswered,
         CallAnswered, CommandRecords
    <3> QED
      BY <3>1, <3>2
  <2>2. CASE ~(PrepareLogin(c) \/ PrepareCi(c) \/ PrepareCall(c) \/ ExchangeAnswered(c)
               \/ CallAnswered(c))
    <3>1. UNCHANGED command \/ \E step : Goto(c, step)
      BY <2>2 DEF Progress, PlatformAnswered, CallbackTimeout, PersistCiKey, StoreCiSession,
         StoreSession, KeepOrClear, BindAnswered, Logout, Opened, Callback, Kill
    <3> QED
      BY <1>2, <3>1
  <2> QED
    BY <2>1, <2>2
<1> QED
  BY <1>5, <1>6 DEF Others

LEMMA StepKeepsCi ==
  ASSUME KeysInv, CiInv, [CliLoginNext]_cliLoginVars
  PROVE  CiInv'
<1>1. CASE UNCHANGED cliLoginVars
  BY <1>1 DEF cliLoginVars, CiInv
<1>2. ASSUME NEW c \in Commands, NEW kind \in Kinds, Begin(c, kind) PROVE CiInv'
  <2> DEFINE r == [kind |-> kind, key |-> NoKey, token |-> NoSession, found |-> FALSE,
                   at |-> IF kind = "login" THEN "platform"
                          ELSE IF kind = "device" THEN "exchange" ELSE "prepare"]
  <2>1. r.kind = kind /\ (kind = "ci" => r.at = "prepare")
    OBVIOUS
  <2>2. command' = [command EXCEPT ![c] = r] /\ wrote' = [wrote EXCEPT ![c] = {}]
    BY <1>2 DEF Begin
  <2> HIDE DEF r
  <2>3. command'[c] = r /\ wrote'[c] = {} /\ wrote' = [d \in Commands |-> wrote'[d]]
        /\ \A d \in Commands \ {c} : command'[d] = command[d] /\ wrote'[d] = wrote[d]
    BY <2>2 DEF KeysInv, CiInv
  <2> QED
    BY <2>1, <2>3 DEF CiInv, CiGood, CiSteps
<1>3. ASSUME NEW c \in Commands, Progress(c) \/ Opened(c) \/ Callback(c) \/ Kill(c) PROVE CiInv'
  <2>1. Others(c) /\ command'[c].kind = command[c].kind
    BY <1>3, CommandsAreApart
  <2>2. command[c] \in CommandRecords /\ command = [d \in Commands |-> command[d]]
        /\ wrote = [d \in Commands |-> wrote[d]]
    BY DEF KeysInv, GoodCommand, CiInv
  <2>3. ASSUME NEW step, Goto(c, step)
        PROVE  command'[c].at = step /\ command'[c].token = command[c].token
    BY <2>2, <2>3 DEF Goto, CommandRecords
  <2>4. SUFFICES ASSUME command[c].kind = "ci" PROVE CiGood(command'[c], wrote'[c])
    BY <2>1 DEF CiInv, Others
  <2>5. CiGood(command[c], wrote[c])
    BY <2>4 DEF CiInv
  <2>6. CASE PrepareCi(c)
    <3>1. wrote'[c] = {} /\ command[c].at = "prepare"
      BY <2>5, <2>6 DEF PrepareCi, At, CiGood
    <3>2. command'[c].at \in {"failed", "exchange"}
      BY <2>2, <2>6 DEF PrepareCi, Goto, CommandRecords
    <3> QED
      BY <3>1, <3>2 DEF CiGood, CiSteps
  <2>7. CASE ExchangeAnswered(c)
    <3>1. wrote'[c] = {} /\ command[c].at = "exchange"
      BY <2>5, <2>7 DEF ExchangeAnswered, CiGood
    <3>2. CASE Goto(c, "failed")
      BY <2>3, <3>1, <3>2 DEF CiGood, CiSteps
    <3>3. CASE ~Goto(c, "failed")
      <4>1. PICK boundTo \in {0, KeyId(command[c].key)} :
              command' = [command EXCEPT ![c].at = "store",
                            ![c].token = [client |-> ClientOf(command[c].kind), key |-> boundTo]]
        BY <2>7, <3>3 DEF ExchangeAnswered
      <4>2. GoodKey(command[c].key, trusted)
        BY DEF KeysInv, GoodCommand
      <4>3. boundTo \in Nat /\ ClientOf(command[c].kind) \in Clients
        BY <4>2 DEF KeyId, GoodKey, KeyRecords, ClientOf, Clients
      <4>4. [client |-> ClientOf(command[c].kind), key |-> boundTo] # NoSession
        BY <4>3, CliLoginAssumption DEF CliLoginAssumption
      <4>5. command'[c].at = "store" /\ command'[c].token # NoSession
        BY <2>2, <4>1, <4>4 DEF CommandRecords
      <4> QED
        BY <3>1, <4>5 DEF CiGood, CiSteps
    <3> QED
      BY <3>2, <3>3
  <2>8. CASE PersistCiKey(c)
    <3>1. /\ command[c].at = "store" /\ (Goto(c, "kept") \/ Goto(c, "failed"))
          /\ wrote'[c] \subseteq wrote[c] \cup {"key"} /\ (Goto(c, "failed") => wrote'[c] = wrote[c])
      BY <2>2, <2>3, <2>8 DEF PersistCiKey, At
    <3> QED
      BY <2>3, <2>5, <3>1 DEF CiGood, CiSteps
  <2>9. CASE StoreCiSession(c)
    <3>1. command[c].at = "kept"
      BY <2>9 DEF StoreCiSession, At
    <3>2. CASE Goto(c, "done")
      BY <2>3, <3>2 DEF CiGood, CiSteps
    <3>3. CASE Goto(c, "failed") /\ wrote' = wrote
      BY <2>3, <2>5, <3>1, <3>3 DEF CiGood, CiSteps
    <3> QED
      BY <2>9, <3>2, <3>3 DEF StoreCiSession
  <2>10. CASE Kill(c)
    BY <2>3, <2>10 DEF Kill, CiGood, CiSteps
  <2>11. ~(PlatformAnswered(c) \/ PrepareLogin(c) \/ PrepareCall(c) \/ CallbackTimeout(c)
           \/ StoreSession(c) \/ KeepOrClear(c) \/ BindAnswered(c) \/ CallAnswered(c)
           \/ Logout(c) \/ Opened(c) \/ Callback(c))
    BY <2>4, <2>5 DEF PlatformAnswered, PrepareLogin, PrepareCall, CallbackTimeout, StoreSession,
       KeepOrClear, BindAnswered, CallAnswered, Logout, Opened, Callback, At, LoopbackKinds, CiGood,
       CiSteps
  <2> QED
    BY <1>3, <2>6, <2>7, <2>8, <2>9, <2>10, <2>11 DEF Progress
<1> QED
  BY <1>1, <1>2, <1>3 DEF CliLoginNext

LEMMA CiStarts ==
  ASSUME CliLoginInit
  PROVE  CiInv
BY DEF CliLoginInit, CiInv

(* "Nothing is written to the config dir on failure": runLoginCi.  The theorem  *)
(* names what is true of it: no session is, and a key only when the token had   *)
(* been obtained and a later write was refused.                                 *)
THEOREM FailedCiIsClean == CliLoginSpec => []FailedCiLeavesNothing
<1>1. CliLoginInit => KeysInv /\ CiInv
  BY KeysStart, CiStarts
<1>2. KeysInv /\ CiInv /\ [CliLoginNext]_cliLoginVars => KeysInv' /\ CiInv'
  BY StepKeepsKeys, StepKeepsCi
<1>3. CiInv => FailedCiLeavesNothing
  BY DEF CiInv, CiGood, FailedCiLeavesNothing, At
<1> QED
  BY <1>1, <1>2, <1>3, PTL DEF CliLoginSpec

-------------------------------------------------------------------------------
(* A command makes at most one key                                              *)

KeysUpTo(n) == [client : Clients, id : 1 .. n, confirmed : BOOLEAN] \cup {NoKey}
SessionsUpTo(n) == [client : Clients, key : 0 .. n] \cup {NoSession}
BoundedCommand(r, n) ==
  r.kind \in Kinds \cup {"none"} /\ r.key \in KeysUpTo(n) /\ r.token \in SessionsUpTo(n)

(* Every key that is stored, trusted, in use or named by a session was made.    *)
MadeInv ==
  /\ slot \in KeysUpTo(generated) /\ stored \in SessionsUpTo(generated)
  /\ \A client \in Clients : trusted[client] \in 0 .. generated
  /\ \A c \in Commands : BoundedCommand(command[c], generated)
  /\ listener \in [Commands -> [settled : BOOLEAN, waiting : BOOLEAN]]
  /\ wrote \in [Commands -> SUBSET {"key", "session"}]

(* The commands that may still make a key.                                      *)
EarlySteps == {"platform", "prepare"}
Unprepared == {c \in Commands : command[c].at \in EarlySteps}

CountInv ==
  runs \in 0 .. MaxRuns /\ IsFiniteSet(Unprepared) /\ generated + Cardinality(Unprepared) <= runs

(* What a step of c does to the counts, and to what is kept.                    *)
MovesOn(c) ==
  /\ \/ generated' = generated
     \/ generated' = generated + 1 /\ command[c].at = "prepare"
        /\ command'[c].at \notin EarlySteps
  /\ command'[c].at \in EarlySteps => command[c].at \in EarlySteps
  /\ BoundedCommand(command'[c], generated')
  /\ slot' \in KeysUpTo(generated') /\ stored' \in SessionsUpTo(generated')
  /\ \A client \in Clients : trusted'[client] \in 0 .. generated'
  /\ listener' \in [Commands -> [settled : BOOLEAN, waiting : BOOLEAN]]
  /\ wrote' \in [Commands -> SUBSET {"key", "session"}]

LEMMA MoreIsAllowed ==
  ASSUME NEW n \in Nat
  PROVE  KeysUpTo(n) \subseteq KeysUpTo(n + 1) /\ SessionsUpTo(n) \subseteq SessionsUpTo(n + 1)
         /\ 0 .. n \subseteq 0 .. n + 1
BY DEF KeysUpTo, SessionsUpTo

LEMMA MovingOnKeepsCounts ==
  ASSUME KeysInv, MadeInv, CountInv, NEW c \in Commands, MovesOn(c), Others(c), runs' = runs
  PROVE  MadeInv' /\ CountInv'
<1>1. generated \in Nat /\ runs \in Nat
  BY CliLoginAssumption DEF KeysInv, CountInv, CliLoginAssumption
<1>2. MadeInv'
  <2>1. \A d \in Commands \ {c} : BoundedCommand(command'[d], generated')
    BY <1>1, MoreIsAllowed DEF MadeInv, MovesOn, Others, BoundedCommand
  <2> QED  BY <2>1 DEF MadeInv, MovesOn
<1>3. IsFiniteSet(Unprepared) /\ Cardinality(Unprepared) \in Nat
  BY FS_CardinalityType DEF CountInv
<1>4. CASE command'[c].at \in EarlySteps
  <2>1. Unprepared' = Unprepared /\ generated' = generated
    BY <1>4 DEF Unprepared, MovesOn, Others
  <2> QED  BY <1>2, <2>1 DEF CountInv
<1>5. CASE command'[c].at \notin EarlySteps
  <2>1. Unprepared' = Unprepared \ {c}
    BY <1>5 DEF Unprepared, Others
  <2>2. IsFiniteSet(Unprepared') /\ Cardinality(Unprepared')
          = IF c \in Unprepared THEN Cardinality(Unprepared) - 1 ELSE Cardinality(Unprepared)
    BY <1>3, <2>1, FS_RemoveElement
  <2>3. generated' = generated \/ (generated' = generated + 1 /\ c \in Unprepared)
    BY DEF MovesOn, Unprepared, EarlySteps
  <2>4. generated' + Cardinality(Unprepared') <= runs
    BY <1>1, <1>3, <2>2, <2>3 DEF CountInv
  <2> QED  BY <1>2, <2>2, <2>4 DEF CountInv
<1> QED  BY <1>4, <1>5

LEMMA BeginningKeepsCounts ==
  ASSUME KeysInv, MadeInv, CountInv, NEW c \in Commands, NEW kind \in Kinds, Begin(c, kind)
  PROVE  MadeInv' /\ CountInv'
<1> DEFINE r == [kind |-> kind, key |-> NoKey, token |-> NoSession, found |-> FALSE,
                 at |-> IF kind = "login" THEN "platform"
                        ELSE IF kind = "device" THEN "exchange" ELSE "prepare"]
<1>1. generated \in Nat /\ runs \in Nat /\ command = [d \in Commands |-> command[d]]
  BY CliLoginAssumption DEF KeysInv, CountInv, CliLoginAssumption
<1>2. /\ command' = [command EXCEPT ![c] = r] /\ listener' = [listener EXCEPT ![c] = Closed]
      /\ wrote' = [wrote EXCEPT ![c] = {}] /\ runs' = runs + 1 /\ runs < MaxRuns
      /\ command[c].at \in Ended /\ UNCHANGED <<slot, stored, trusted, generated>>
  BY DEF Begin
<1>3. BoundedCommand(r, generated)
  BY DEF BoundedCommand, KeysUpTo, SessionsUpTo
<1> HIDE DEF r
<1>4. command'[c] = r /\ \A d \in Commands \ {c} : command'[d] = command[d]
  BY <1>1, <1>2
<1>5. MadeInv'
  BY <1>2, <1>3, <1>4 DEF MadeInv, Closed
<1>6. IsFiniteSet(Unprepared) /\ Cardinality(Unprepared) \in Nat /\ c \notin Unprepared
  BY <1>2, FS_CardinalityType DEF CountInv, Unprepared, EarlySteps, Ended
<1>7. Unprepared' = Unprepared \/ Unprepared' = Unprepared \cup {c}
  BY <1>4, <1>6 DEF Unprepared
<1>8. IsFiniteSet(Unprepared') /\ Cardinality(Unprepared') \in Nat
      /\ Cardinality(Unprepared') <= Cardinality(Unprepared) + 1
  <2>1. IsFiniteSet(Unprepared \cup {c})
        /\ Cardinality(Unprepared \cup {c}) = Cardinality(Unprepared) + 1
    BY <1>6, FS_AddElement
  <2> QED  BY <1>6, <1>7, <2>1
<1> QED
  BY <1>1, <1>2, <1>5, <1>6, <1>8, CliLoginAssumption DEF CountInv, CliLoginAssumption

LEMMA GotoIs ==
  ASSUME KeysInv, NEW c \in Commands, NEW step, Goto(c, step)
  PROVE  /\ command'[c].at = step /\ command'[c].kind = command[c].kind
         /\ command'[c].key = command[c].key /\ command'[c].token = command[c].token
<1>1. command[c] \in CommandRecords /\ command = [d \in Commands |-> command[d]]
  BY DEF KeysInv, GoodCommand
<1> QED  BY <1>1 DEF Goto, CommandRecords

LEMMA GettingAKeyMovesOn ==
  ASSUME KeysInv, MadeInv, NEW c \in Commands, NEW client \in Clients,
         NEW session \in SessionsUpTo(generated), NEW step, step \notin EarlySteps,
         GetOrCreate(c, client, session, step), command[c].at = "prepare",
         UNCHANGED <<stored, trusted, listener>>
  PROVE  MovesOn(c)
<1> SUFFICES ASSUME ~(Goto(c, "failed") /\ KeyRefused /\ UNCHANGED wrote) PROVE MovesOn(c)
  <2> SUFFICES ASSUME Goto(c, "failed"), KeyRefused, UNCHANGED wrote PROVE MovesOn(c)
    OBVIOUS
  <2>1. generated \in Nat /\ generated' \in {generated, generated + 1}
    BY DEF KeysInv, GetOrCreate
  <2>2. KeysUpTo(generated) \subseteq KeysUpTo(generated')
        /\ SessionsUpTo(generated) \subseteq SessionsUpTo(generated')
        /\ 0 .. generated \subseteq 0 .. generated'
    BY <2>1, MoreIsAllowed
  <2>3. BoundedCommand(command'[c], generated') /\ command'[c].at \notin EarlySteps
    BY <2>2, GotoIs DEF BoundedCommand, MadeInv, EarlySteps
  <2> QED
    BY <2>1, <2>2, <2>3 DEF MovesOn, MadeInv, KeyRefused, KeysUpTo
<1> DEFINE key == IF InSlot(client) THEN slot ELSE NewKey(client)
<1>1. generated \in Nat /\ generated' = IF InSlot(client) THEN generated ELSE generated + 1
  BY DEF KeysInv, GetOrCreate
<1>2. key \in KeysUpTo(generated')
  BY <1>1 DEF MadeInv, KeysUpTo, NewKey
<1>3. KeysUpTo(generated) \subseteq KeysUpTo(generated')
      /\ SessionsUpTo(generated) \subseteq SessionsUpTo(generated')
      /\ 0 .. generated \subseteq 0 .. generated'
  BY <1>1, MoreIsAllowed
<1>4. slot' = key /\ command' = [command EXCEPT ![c].at = step, ![c].key = key, ![c].token = session]
      /\ wrote' = IF InSlot(client) THEN wrote ELSE [wrote EXCEPT ![c] = @ \cup {"key"}]
  BY DEF GetOrCreate
<1> HIDE DEF key
<1>5. /\ command'[c].at = step /\ command'[c].kind = command[c].kind
      /\ command'[c].key = key /\ command'[c].token = session
  <2>1. command[c] \in CommandRecords /\ command = [d \in Commands |-> command[d]]
    BY DEF KeysInv, GoodCommand
  <2> QED  BY <1>4, <2>1 DEF CommandRecords
<1>6. BoundedCommand(command'[c], generated')
  BY <1>2, <1>3, <1>5 DEF BoundedCommand, MadeInv
<1>7. wrote' \in [Commands -> SUBSET {"key", "session"}]
  BY <1>4 DEF MadeInv
<1> QED
  BY <1>1, <1>2, <1>3, <1>4, <1>5, <1>6, <1>7 DEF MovesOn, MadeInv, EarlySteps

LEMMA StepMovesOn ==
  ASSUME KeysInv, MadeInv, NEW c \in Commands, Progress(c) \/ Opened(c) \/ Callback(c) \/ Kill(c)
  PROVE  MovesOn(c)
<1>1. /\ generated \in Nat /\ command[c] \in CommandRecords
      /\ command = [d \in Commands |-> command[d]]
      /\ BoundedCommand(command[c], generated) /\ NoSession \in SessionsUpTo(generated)
  BY DEF KeysInv, GoodCommand, MadeInv, SessionsUpTo
<1>2. ASSUME NEW step, Goto(c, step), step \in EarlySteps => command[c].at \in EarlySteps,
             slot' \in KeysUpTo(generated), stored' \in SessionsUpTo(generated),
             generated' = generated, \A client \in Clients : trusted'[client] \in 0 .. generated,
             listener' \in [Commands -> [settled : BOOLEAN, waiting : BOOLEAN]],
             wrote' \in [Commands -> SUBSET {"key", "session"}]
      PROVE  MovesOn(c)
  BY <1>1, <1>2, GotoIs DEF MovesOn, BoundedCommand
<1>3. ASSUME NEW step, Goto(c, step), step \in EarlySteps => command[c].at \in EarlySteps,
             UNCHANGED <<slot, stored, trusted, generated, wrote>>,
             listener' \in [Commands -> [settled : BOOLEAN, waiting : BOOLEAN]]
      PROVE  MovesOn(c)
  BY <1>2, <1>3 DEF MadeInv
<1>4. CASE PlatformAnswered(c)
  BY <1>3, <1>4 DEF PlatformAnswered, At, EarlySteps, MadeInv
<1>5. CASE PrepareLogin(c)
  <2>1. ClientOf(command[c].kind) \in Clients /\ command[c].at = "prepare"
        /\ UNCHANGED <<stored, trusted, listener>>
    BY <1>5 DEF ClientOf, Clients, PrepareLogin, At
  <2>2. CASE Goto(c, "open") /\ UNCHANGED <<slot, generated, wrote>>
    BY <1>3, <2>1, <2>2 DEF EarlySteps, MadeInv
  <2>3. ASSUME NEW step \in {"open", "failed"},
               GetOrCreate(c, ClientOf(command[c].kind), NoSession, step)
        PROVE  MovesOn(c)
    BY <1>1, <2>1, <2>3, GettingAKeyMovesOn DEF EarlySteps
  <2> QED  BY <1>5, <2>2, <2>3 DEF PrepareLogin
<1>6. CASE PrepareCi(c)
  <2>1. UNCHANGED <<slot, stored, trusted, listener, wrote>> /\ command[c].at = "prepare"
    BY <1>6 DEF PrepareCi, At
  <2>2. CASE Goto(c, "failed") /\ UNCHANGED generated
    BY <1>3, <2>1, <2>2 DEF EarlySteps, MadeInv
  <2>3. CASE /\ command' = [command EXCEPT ![c].at = "exchange", ![c].found = InSlot("ci"),
                              ![c].key = IF InSlot("ci") THEN slot ELSE NewKey("ci")]
             /\ generated' = IF InSlot("ci") THEN generated ELSE generated + 1
    <3> DEFINE key == IF InSlot("ci") THEN slot ELSE NewKey("ci")
    <3>1. key \in KeysUpTo(generated')
      BY <1>1, <2>3 DEF MadeInv, KeysUpTo, NewKey, Clients
    <3> HIDE DEF key
    <3>2. command' = [command EXCEPT ![c].at = "exchange", ![c].found = InSlot("ci"), ![c].key = key]
      BY <2>3 DEF key
    <3>3. /\ command'[c].at = "exchange" /\ command'[c].kind = command[c].kind
          /\ command'[c].key = key /\ command'[c].token = command[c].token
      BY <1>1, <3>2 DEF CommandRecords
    <3>4. /\ KeysUpTo(generated) \subseteq KeysUpTo(generated')
          /\ SessionsUpTo(generated) \subseteq SessionsUpTo(generated')
          /\ 0 .. generated \subseteq 0 .. generated'
      BY <1>1, <2>3, MoreIsAllowed
    <3>5. BoundedCommand(command'[c], generated')
      BY <1>1, <3>1, <3>3, <3>4 DEF BoundedCommand
    <3>6. generated' \in {generated, generated + 1}
      BY <2>3
    <3> QED
      BY <2>1, <3>3, <3>4, <3>5, <3>6 DEF MovesOn, MadeInv, EarlySteps
  <2> QED  BY <1>6, <2>2, <2>3 DEF PrepareCi
<1>7. CASE PrepareCall(c)
  <2>1. command[c].at = "prepare" /\ UNCHANGED <<stored, trusted, listener>>
        /\ stored \in SessionsUpTo(generated)
    BY <1>7 DEF PrepareCall, At, MadeInv
  <2>2. CASE Goto(c, "failed") /\ UNCHANGED <<slot, generated, wrote>>
    BY <1>3, <2>1, <2>2 DEF EarlySteps, MadeInv
  <2>3. CASE command' = [command EXCEPT ![c].at = "request", ![c].token = stored]
             /\ UNCHANGED <<slot, generated, wrote>>
    <3>1. /\ command'[c].at = "request" /\ command'[c].kind = command[c].kind
          /\ command'[c].key = command[c].key /\ command'[c].token = stored
      BY <1>1, <2>3 DEF CommandRecords
    <3> QED
      BY <1>1, <2>1, <2>3, <3>1 DEF MovesOn, BoundedCommand, MadeInv, EarlySteps
  <2>4. CASE stored # NoSession /\ GetOrCreate(c, stored.client, stored, "request")
    <3>1. stored.client \in Clients
      BY <2>1, <2>4 DEF SessionsUpTo
    <3> QED  BY <2>1, <2>4, <3>1, GettingAKeyMovesOn DEF EarlySteps
  <2> QED  BY <1>7, <2>2, <2>3, <2>4 DEF PrepareCall
<1>8. ASSUME NEW session \in SessionsUpTo(generated), NEW step \in {"store", "retried"},
             command' = [command EXCEPT ![c].at = step, ![c].token = session],
             UNCHANGED <<slot, stored, trusted, generated, listener, wrote>>
      PROVE  MovesOn(c)
  <2>1. /\ command'[c].at = step /\ command'[c].kind = command[c].kind
        /\ command'[c].key = command[c].key /\ command'[c].token = session
    BY <1>1, <1>8 DEF CommandRecords
  <2> QED
    BY <1>1, <1>8, <2>1 DEF MovesOn, BoundedCommand, MadeInv, EarlySteps
<1>9. CASE ExchangeAnswered(c)
  <2>1. UNCHANGED <<slot, stored, trusted, generated, listener, wrote>>
    BY <1>9 DEF ExchangeAnswered
  <2>2. CASE Goto(c, "failed")
    BY <1>3, <2>1, <2>2 DEF EarlySteps, MadeInv
  <2>3. CASE ~Goto(c, "failed")
    <3>1. PICK used \in {0, KeyId(command[c].key)} :
            command' = [command EXCEPT ![c].at = "store",
                          ![c].token = [client |-> ClientOf(command[c].kind), key |-> used]]
      BY <1>9, <2>3 DEF ExchangeAnswered
    <3>2. used \in 0 .. generated /\ ClientOf(command[c].kind) \in Clients
      BY <1>1 DEF KeyId, BoundedCommand, KeysUpTo, ClientOf, Clients
    <3> DEFINE session == [client |-> ClientOf(command[c].kind), key |-> used]
    <3>3. session \in SessionsUpTo(generated)
      BY <3>2 DEF SessionsUpTo
    <3>4. command' = [command EXCEPT ![c].at = "store", ![c].token = session]
      BY <3>1
    <3> HIDE DEF session
    <3> QED  BY <1>8, <2>1, <3>3, <3>4
  <2> QED  BY <2>2, <2>3
<1>10. CASE CallAnswered(c)
  <2>1. UNCHANGED <<slot, stored, trusted, generated, listener, wrote>>
        /\ stored \in SessionsUpTo(generated)
    BY <1>10 DEF CallAnswered, MadeInv
  <2>2. CASE Goto(c, "failed") \/ Goto(c, "done")
    BY <1>3, <2>1, <2>2 DEF EarlySteps, MadeInv
  <2>3. CASE command' = [command EXCEPT ![c].at = "retried", ![c].token = stored]
    BY <1>8, <2>1, <2>3
  <2> QED  BY <1>10, <2>2, <2>3 DEF CallAnswered
<1>11. CASE CallbackTimeout(c) \/ Opened(c) \/ Kill(c)
  BY <1>3, <1>11 DEF CallbackTimeout, Opened, Kill, EarlySteps, MadeInv
<1>12. CASE Callback(c)
  <2>1. /\ UNCHANGED <<slot, stored, trusted, generated, wrote>>
        /\ listener' \in [Commands -> [settled : BOOLEAN, waiting : BOOLEAN]]
    BY <1>12 DEF Callback, MadeInv
  <2>2. CASE Goto(c, "failed") \/ Goto(c, "exchange")
    BY <1>3, <2>1, <2>2 DEF EarlySteps
  <2>3. CASE UNCHANGED command
    BY <1>1, <2>1, <2>3 DEF MovesOn, MadeInv
  <2> QED  BY <1>12, <2>2, <2>3 DEF Callback
<1>12a. CASE /\ Goto(c, "failed") /\ UNCHANGED <<trusted, generated, listener, wrote>>
             /\ slot' \in {slot, NoKey} /\ stored' \in {stored, NoSession}
  BY <1>1, <1>2, <1>12a DEF EarlySteps, MadeInv, KeysUpTo
<1>13. CASE PersistCiKey(c)
  <2>1. command[c].key \in KeysUpTo(generated)
    BY <1>1 DEF BoundedCommand
  <2>2. UNCHANGED <<trusted, generated, listener>>
    BY <1>13 DEF PersistCiKey
  <2>3. CASE /\ Goto(c, "kept") /\ UNCHANGED stored /\ slot' \in {slot, command[c].key}
             /\ wrote' \in {wrote, [wrote EXCEPT ![c] = wrote[c] \cup {"key"}]}
    BY <1>2, <2>1, <2>2, <2>3 DEF EarlySteps, MadeInv
  <2> QED
    BY <1>12a, <1>13, <2>2, <2>3 DEF PersistCiKey, KeyRefused
<1>14. CASE StoreCiSession(c) \/ StoreSession(c)
  <2>1. command[c].token \in SessionsUpTo(generated)
    BY <1>1 DEF BoundedCommand
  <2>2. UNCHANGED <<trusted, generated, listener>>
    BY <1>14 DEF StoreCiSession, StoreSession
  <2>3. ASSUME NEW step \in {"kept", "bind", "done"}, Goto(c, step), UNCHANGED slot,
               WriteSession(c, command[c].token)
        PROVE  MovesOn(c)
    BY <1>2, <2>1, <2>2, <2>3 DEF WriteSession, EarlySteps, MadeInv
  <2> QED
    BY <1>12a, <1>14, <2>2, <2>3 DEF StoreCiSession, StoreSession, SessionRefused
<1>15. CASE KeepOrClear(c) \/ Logout(c)
  <2>1. PICK step \in {"failed", "done"} : Goto(c, step)
    BY <1>15 DEF KeepOrClear, Logout
  <2> QED
    BY <1>1, <1>2, <1>15, <2>1 DEF KeepOrClear, Logout, EarlySteps, MadeInv
<1>16. CASE BindAnswered(c)
  <2> DEFINE key == command[c].key
  <2>1. command[c].at = "bind" /\ Goto(c, "done") /\ UNCHANGED <<stored, generated, listener, wrote>>
    BY <1>16 DEF BindAnswered
  <2>2. key \in KeyRecords /\ key.id \in 1 .. generated
    <3>1. key # NoKey /\ key \in KeysUpTo(generated) /\ (key # NoKey => key \in KeyRecords)
      BY <1>1, <2>1 DEF KeysInv, GoodCommand, WithKey, GoodKey, BoundedCommand
    <3> QED  BY <3>1 DEF KeysUpTo
  <2>3. trusted' = [trusted EXCEPT ![key.client] = IF @ = 0 THEN key.id ELSE @] \/ trusted' = trusted
    BY <1>16 DEF BindAnswered
  <2>4. slot' \in {slot, NoKey} \/ \E b \in BOOLEAN : slot' = [key EXCEPT !.confirmed = b]
    BY <1>16 DEF BindAnswered, KeyRefused
  <2> HIDE DEF key
  <2>5. \A client \in Clients : trusted'[client] \in 0 .. generated
    BY <1>1, <2>2, <2>3 DEF MadeInv, KeysInv
  <2>6. slot' \in KeysUpTo(generated)
    BY <2>2, <2>4 DEF MadeInv, KeysUpTo, KeyRecords
  <2> QED
    BY <1>2, <2>1, <2>5, <2>6 DEF EarlySteps, MadeInv
<1> QED
  BY <1>4, <1>5, <1>6, <1>7, <1>9, <1>10, <1>11, <1>12, <1>13, <1>14, <1>15, <1>16
     DEF Progress

LEMMA CliStays == CliLoginSpec => [](KeysInv /\ CiInv /\ MadeInv /\ CountInv)
<1>1. CliLoginInit => MadeInv /\ CountInv
  <2> SUFFICES ASSUME CliLoginInit PROVE MadeInv /\ CountInv
    OBVIOUS
  <2>1. Unprepared = {} /\ generated = 0 /\ runs = 0
    BY DEF CliLoginInit, Unprepared, EarlySteps
  <2>2. CountInv
    BY <2>1, FS_EmptySet, CliLoginAssumption DEF CountInv, CliLoginAssumption
  <2>3. MadeInv
    BY <2>1 DEF CliLoginInit, MadeInv, BoundedCommand, KeysUpTo, SessionsUpTo, Closed
  <2> QED  BY <2>2, <2>3
<1>2. KeysInv /\ CiInv /\ MadeInv /\ CountInv /\ [CliLoginNext]_cliLoginVars
        => KeysInv' /\ CiInv' /\ MadeInv' /\ CountInv'
  <2> SUFFICES ASSUME KeysInv, CiInv, MadeInv, CountInv, [CliLoginNext]_cliLoginVars
               PROVE  MadeInv' /\ CountInv'
    BY StepKeepsKeys, StepKeepsCi
  <2>1. CASE UNCHANGED cliLoginVars
    BY <2>1 DEF cliLoginVars, MadeInv, CountInv, BoundedCommand, Unprepared
  <2>2. ASSUME NEW c \in Commands, Progress(c) \/ Opened(c) \/ Callback(c) \/ Kill(c)
        PROVE  MadeInv' /\ CountInv'
    <3>1. runs' = runs
      BY <2>2 DEF Progress, PlatformAnswered, PrepareLogin, PrepareCi, PrepareCall,
         CallbackTimeout, ExchangeAnswered, PersistCiKey, StoreCiSession, StoreSession,
         KeepOrClear, BindAnswered, CallAnswered, Logout, Opened, Callback, Kill
    <3> QED  BY <2>2, <3>1, StepMovesOn, CommandsAreApart, MovingOnKeepsCounts
  <2> QED
    BY <2>1, <2>2, BeginningKeepsCounts DEF CliLoginNext
<1>3. CliLoginInit => KeysInv /\ CiInv
  BY KeysStart, CiStarts
<1> QED
  BY <1>1, <1>2, <1>3, PTL DEF CliLoginSpec

LEMMA CliIsTyped == KeysInv /\ MadeInv /\ CountInv => CliLoginTypeOK
<1> SUFFICES ASSUME KeysInv, MadeInv, CountInv PROVE CliLoginTypeOK
  OBVIOUS
<1>1. generated \in Nat /\ runs \in 0 .. MaxRuns /\ MaxRuns \in Nat
      /\ Cardinality(Unprepared) \in Nat
  BY FS_CardinalityType, CliLoginAssumption DEF KeysInv, CountInv, CliLoginAssumption
<1>2. generated \in 0 .. MaxRuns
  BY <1>1 DEF CountInv
<1>3. KeysUpTo(generated) \subseteq Keys /\ SessionsUpTo(generated) \subseteq Sessions \cup {NoSession}
      /\ 0 .. generated \subseteq 0 .. MaxRuns
  BY <1>1, <1>2 DEF KeysUpTo, SessionsUpTo, Keys, Sessions
<1>4. trusted \in [Clients -> 0 .. MaxRuns]
  BY <1>3 DEF KeysInv, MadeInv
<1>5. \A c \in Commands : command[c] \in CommandRecords /\ BoundedCommand(command[c], generated)
  BY DEF KeysInv, GoodCommand, MadeInv
<1> QED
  BY <1>1, <1>2, <1>3, <1>4, <1>5
     DEF CliLoginTypeOK, MadeInv, BoundedCommand, CommandRecords, Steps

-------------------------------------------------------------------------------
(* The device flows *)

(* A power of two is a size: that of the sets of numbers below its exponent.    *)
LEMMA PowersOfTwo ==
  ASSUME NEW n \in Nat
  PROVE  2 ^ n \in Nat \ {0}
<1> DEFINE S == 1 .. n
<1>1. IsFiniteSet(S) /\ Cardinality(S) = n
  <2>1. IsFiniteSet(S) /\ Cardinality(S) = IF 1 > n THEN 0 ELSE n - 1 + 1
    BY FS_Interval
  <2> QED  BY <2>1
<1>2. IsFiniteSet(SUBSET S) /\ Cardinality(SUBSET S) = 2 ^ n
  BY <1>1, FS_CardinalityType, FS_SUBSET
<1>3. SUBSET S # {}
  OBVIOUS
<1> QED
  BY <1>2, <1>3, FS_CardinalityType, FS_EmptySet

PollingInv ==
  /\ poll \in Polls /\ clock \in 0 .. MaxClock
  /\ stage \in {"start", "next", "sleep", "poll", "tokens", "failed"}
  /\ interval \in Nat \ {0}
  /\ failures \in 0 .. MaxTransient /\ iteration \in 0 .. MaxIterations
  /\ wait \in Nat /\ wakeAt \in 0 .. MaxClock
  /\ answer \in {"none", "pending", "slow_down", "tokens", "refused"}
  /\ grant \in {"pending", "approved", "denied", "expired", "spent"}
  /\ stage = "tokens" \/ answer = "tokens" => grant = "spent"
  /\ aborted \in BOOLEAN /\ asked \in Nat

(* What the next sleep lasts, and what the server has asked for: it asks for no *)
(* more than the interval the client keeps, and the client never waits less.    *)
AskedInv ==
  asked <= interval /\ asked <= wait /\ (poll.flow = "sdk" => asked <= MaxInterval)

(* The server issues the SDK's device flow no interval beyond its maximum.      *)
(* Without it a failed poll, or a slow_down, takes the wait down to that        *)
(* maximum (device.ts:258, 265).                                                *)
IntervalsFit == \A p \in Polls : p.flow = "sdk" => p.interval <= MaxInterval

LEMMA BackoffIsLong ==
  ASSUME PollingInv, NEW retryAfter \in {0, 1}
  PROVE  /\ Backoff(retryAfter) \in Nat
         /\ AskedInv /\ poll.flow = "sdk" => asked <= Backoff(retryAfter)
<1> DEFINE doubled == interval * 2 ^ (failures + 1)
<1>1. 2 ^ (failures + 1) \in Nat \ {0}
  <2>1. failures + 1 \in Nat
    BY PollingAssumption DEF PollingInv, PollingAssumption
  <2> QED  BY <2>1, PowersOfTwo
<1>2. doubled \in Nat /\ interval <= doubled
  <2>1. \A m, k \in Nat \ {0} : m * k \in Nat /\ m <= m * k
    OBVIOUS
  <2> QED  BY <1>1, <2>1 DEF PollingInv
<1>3. Backoff(retryAfter) = AtMost(AtLeast(doubled, retryAfter), MaxInterval)
  BY DEF Backoff
<1> HIDE DEF doubled
<1> QED
  BY <1>2, <1>3, PollingAssumption
     DEF PollingInv, AskedInv, PollingAssumption, AtMost, AtLeast

LEMMA ReceivingKeepsPolling ==
  ASSUME PollingInv, Receive
  PROVE  PollingInv' /\ (AskedInv => AskedInv')
<1> USE PollingAssumption DEF PollingAssumption
<1>1. UNCHANGED <<poll, clock, grant, aborted>> /\ answer' = "none" /\ stage = "poll"
  BY DEF Receive
<1>2. ASSUME NEW result \in {"tokens", "failed"}, Ends(result), result = "tokens" => answer = "tokens"
      PROVE  PollingInv' /\ (AskedInv => AskedInv')
  BY <1>1, <1>2 DEF Ends, PollingInv, AskedInv
<1>3. CASE NotYet
  <2> DEFINE slower == AtMost(asked + 1, MaxInterval)
  <2>1. /\ wait' = interval' /\ failures' = 0 /\ stage' = "next" /\ UNCHANGED <<iteration, wakeAt>>
        /\ answer = "slow_down" => asked' = slower /\ interval' = Slowed
        /\ answer # "slow_down" => asked' = asked /\ interval' = interval
    BY <1>3, Zenon DEF NotYet
  <2>2. /\ Slowed \in Nat \ {0} /\ slower \in Nat
        /\ AskedInv => slower <= MaxInterval /\ slower <= Slowed
    BY DEF Slowed, AtMost, PollingInv, AskedInv
  <2> HIDE DEF slower
  <2>3. interval' \in Nat \ {0} /\ asked' \in Nat /\ (AskedInv => AskedInv')
    BY <1>1, <2>1, <2>2 DEF PollingInv, AskedInv
  <2>4. PollingInv'
    BY <1>1, <2>1, <2>3 DEF PollingInv
  <2> QED  BY <2>3, <2>4
<1>4. CASE Transient
  <2>1. CASE Ends("failed")
    BY <1>2, <2>1
  <2>2. CASE ~Ends("failed")
    <3>1. /\ poll.flow = "sdk" /\ failures # MaxTransient
          /\ failures' = failures + 1 /\ stage' = "next"
          /\ \E retryAfter \in {0, 1} : wait' = Backoff(retryAfter)
          /\ UNCHANGED <<interval, iteration, wakeAt, asked>>
      BY <1>4, <2>2 DEF Transient
    <3>2. PICK retryAfter \in {0, 1} : wait' = Backoff(retryAfter)
      BY <3>1
    <3>3. wait' \in Nat /\ (AskedInv => asked <= wait')
      BY <3>1, <3>2, BackoffIsLong
    <3>4. failures' \in 0 .. MaxTransient
      BY <3>1 DEF PollingInv
    <3> QED  BY <1>1, <3>1, <3>3, <3>4 DEF PollingInv, AskedInv
  <2> QED  BY <2>1, <2>2
<1> QED
  BY <1>2, <1>3, <1>4 DEF Receive, Refused

LEMMA StepKeepsPolling ==
  ASSUME PollingInv, [PollingNext]_pollingVars
  PROVE  PollingInv' /\ (AskedInv => AskedInv')
<1> USE PollingAssumption DEF PollingAssumption, PollingInv, AskedInv
<1>1. CASE Decide
  BY <1>1 DEF Decide
<1>2. CASE Tick
  BY <1>2 DEF Tick
<1>3. CASE ServePoll
  BY <1>3 DEF ServePoll
<1>4. CASE Start \/ Abort
  BY <1>4 DEF Start, Abort
<1>5. CASE NextRound
  BY <1>5 DEF NextRound, OutOfTime, Ends, AtMost
<1>6. CASE Wake
  BY <1>6 DEF Wake, Ends
<1>7. CASE Receive
  BY <1>7, ReceivingKeepsPolling
<1>8. CASE UNCHANGED pollingVars
  BY <1>8 DEF pollingVars
<1> QED
  BY <1>1, <1>2, <1>3, <1>4, <1>5, <1>6, <1>7, <1>8 DEF PollingNext

LEMMA PollingStarts ==
  ASSUME PollingInit
  PROVE  PollingInv /\ (IntervalsFit => AskedInv)
<1>1. poll.interval \in Nat \ {0}
      /\ (IntervalsFit /\ poll.flow = "sdk" => poll.interval <= MaxInterval)
  BY PollingAssumption DEF PollingAssumption, PollingInit, IntervalsFit
<1>2. interval = poll.interval /\ wait = poll.interval /\ asked = poll.interval
  BY DEF PollingInit
<1>3. interval \in Nat \ {0} /\ wait \in Nat /\ asked \in Nat /\ (IntervalsFit => AskedInv)
  BY <1>1, <1>2 DEF AskedInv
<1>4. failures \in 0 .. MaxTransient /\ iteration \in 0 .. MaxIterations
      /\ clock \in 0 .. MaxClock /\ wakeAt \in 0 .. MaxClock
  <2>1. {MaxTransient, MaxIterations, MaxClock} \subseteq Nat
    BY PollingAssumption DEF PollingAssumption
  <2> QED  BY <2>1 DEF PollingInit
<1>5. PollingInv
  BY <1>3, <1>4 DEF PollingInit, PollingInv
<1> QED
  BY <1>3, <1>5

LEMMA PollingStays == PollingSpec => []PollingInv
BY PollingStarts, StepKeepsPolling, PTL DEF PollingSpec

(* A client never sleeps for less than the interval the server has asked for    *)
(* by then, whatever failed in between: awaitDeviceTokens, awaitDecision and    *)
(* runDeviceFlow, for any number of failures, whose doubling never falls short. *)
THEOREM ClientsNeverHurry ==
  ASSUME IntervalsFit
  PROVE  PollingSpec => NeverFasterThanAsked
<1>1. PollingInit => PollingInv /\ AskedInv
  BY IntervalsFit, PollingStarts
<1>2. PollingInv /\ AskedInv /\ [PollingNext]_pollingVars => PollingInv' /\ AskedInv'
  BY StepKeepsPolling
<1>3. ASSUME PollingInv, AskedInv, [PollingNext]_pollingVars
      PROVE  stage = "next" /\ stage' = "sleep" =>
               wakeAt' - clock >= asked \/ wakeAt' = MaxClock
  <2> SUFFICES ASSUME stage = "next", stage' = "sleep"
               PROVE  wakeAt' - clock >= asked \/ wakeAt' = MaxClock
    OBVIOUS
  <2>1. NextRound
    BY <1>3 DEF PollingNext, Decide, Tick, ServePoll, Start, Abort, Wake, Receive, pollingVars
  <2>2. wakeAt' = AtMost(clock + wait, MaxClock)
    BY <2>1 DEF NextRound, Ends
  <2> QED
    BY <1>3, <2>2, PollingAssumption DEF PollingInv, AskedInv, PollingAssumption, AtMost
<1> QED
  BY <1>1, <1>2, <1>3, PTL DEF PollingSpec, NeverFasterThanAsked

-----------------------------------------------------------------------------
(* The parts side by side. *)

\* A step of one part is a step or a stutter of each.
LEMMA PartsTakeTurns ==
  [ToolsNext]_<<verificationVars, pollingVars, cliLoginVars, nodeVars, part>> =>
    /\ [VerificationNext]_verificationVars /\ [PollingNext]_pollingVars
    /\ [CliLoginNext]_cliLoginVars /\ [NodeNext]_nodeVars
BY Zenon DEF ToolsNext, VerificationStep, PollingStep, CliStep, NodeStep

LEMMA ToolsHaveParts ==
  ToolsSpec => VerificationSpec /\ PollingSpec /\ CliLoginSpec /\ NodeSpec
<1>1. ToolsInit => VerificationInit /\ PollingInit /\ CliLoginInit /\ NodeInit
  BY DEF ToolsInit
<1> QED
  BY <1>1, PartsTakeTurns, PTL DEF ToolsSpec, VerificationSpec, PollingSpec, CliLoginSpec, NodeSpec

LEMMA PollingIsTyped == PollingInv => PollingTypeOK
BY PollingAssumption DEF PollingAssumption, PollingInv, PollingTypeOK

\* Whatever part runs, every variable of the four keeps its type; that of the DPoP
\* sessions says more: an operation under way holds its place in the gate.
THEOREM ToolsTyping == ToolsSpec => []ToolsTypeOK
<1>1. VerificationTypeOK /\ PollingTypeOK /\ CliLoginTypeOK /\ NodeTypeOK => ToolsTypeOK
  BY DEF ToolsTypeOK
<1> QED
  BY <1>1, ToolsHaveParts, VerificationStays, VerificationIsTyped, PollingStays, PollingIsTyped,
     CliStays, CliIsTyped, NodeStays, NodeIsTyped, PTL
=============================================================================
