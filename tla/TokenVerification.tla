-------------------------- MODULE TokenVerification --------------------------
(* A resource server that verifies access tokens with @rakomi/node.  Requests  *)
(* are handled concurrently: each passes the middleware's scheme check, finds  *)
(* its key in the one JwksCache of the process (which several requests may be  *)
(* refreshing), checks the token once the signature is verified, and then the  *)
(* DPoP proof of a bound token, whose jti the application's own store burns.   *)
(* The issuer rotates its keys and raises its revocation epoch meanwhile, and  *)
(* its discovery and key endpoints may fail.                                   *)
EXTENDS Integers, Sequences, FiniteSets

CONSTANTS
  MaxRequests,    \* bound on the requests the server handles
  Scenarios,      \* which deployments and which traffic are explored
  Documents,      \* the key documents the issuer publishes, in order
  NotShown,       \* a request that has not arrived
  Cooldown,       \* UNKNOWN_KID_REFRESH_COOLDOWN_MS, in ticks
  MaxNow          \* bound on the clock

(* A document lists the keys, the revocation epoch (0: none) and its max-age.  *)
(* A scenario is [source, typ, onJti, presented]: the keys come from a "url"   *)
(* or from the "issuer" discovery names, "typ" is requireAccessTokenTyp, onJti *)
(* whether the application gives the hook, and presented the set of            *)
(* [scheme, token, proof] a request may carry; a token is [kid, iat, bound,    *)
(* flaw], a proof [jti, flaw], and a flaw is "none" or the check that finds it.*)
VerificationAssumption ==
  /\ MaxRequests \in Nat
  /\ Cooldown \in Nat \ {0} /\ MaxNow \in Nat
  /\ Documents \in Seq([keys : SUBSET Nat, epoch : Nat, maxAge : Nat \ {0}])
  /\ Documents # << >>
  /\ \A i, j \in DOMAIN Documents : i < j => Documents[i].epoch <= Documents[j].epoch
ASSUME VerificationAssumption

(* What a request may show.  A flaw of a proof is the rejection reason that     *)
(* names it (DpopProofRejectionReason).                                         *)
TokenFlaws == {"none", "alg", "header", "typ", "signature", "claims", "environment"}
ProofFlaws ==
  {"none", "proof_required", "request_context_missing", "unsupported_confirmation",
   "malformed", "multi_header", "typ_rejected", "kid_forbidden", "crit_rejected",
   "alg_rejected", "private_jwk_params", "signature_invalid", "htm_mismatch",
   "htu_mismatch", "iat_window", "jti_invalid", "ath_missing", "ath_mismatch",
   "jkt_mismatch"}
Presentations ==
  [scheme : {"none", "bearer", "dpop"},
   token : [kid : Nat, iat : Nat, bound : BOOLEAN, flaw : TokenFlaws],
   proof : [jti : Nat, flaw : ProofFlaws]]

TrafficAssumption ==
  Scenarios \subseteq [source : {"url", "issuer"}, typ : BOOLEAN, onJti : BOOLEAN,
                         presented : SUBSET Presentations]
ASSUME TrafficAssumption

VARIABLES
  scenario,
  now,
  published,    \* the issuer's current document
  cache,        \* JwksCache.cache: [document, fetchedAt], document 0 for null
  lastAttempt,  \* lastRefreshAttemptAt
  fetch,        \* refreshPromise: [stage, document]
  burned,       \* the jti the application has seen (its onJti store)
  request,      \* per request: [stage, shown, key, verdict]
  forced        \* history: refreshes begun while the cache was fresh

verificationVars ==
  <<scenario, now, published, cache, lastAttempt, fetch, burned, request, forced>>

Requests == 1 .. MaxRequests   \* in the order they arrive
NoFetch == [stage |-> "none", document |-> 0]
NoCache == [document |-> 0, fetchedAt |-> 0]
Never == -1

VerificationTypeOK ==
  /\ scenario \in Scenarios /\ now \in 0 .. MaxNow
  /\ published \in DOMAIN Documents
  /\ cache \in [document : 0 .. published, fetchedAt : 0 .. now]
  /\ lastAttempt \in Never .. now
  /\ fetch \in [stage : {"none", "oauth", "oidc", "jwks"}, document : 0 .. published]
  /\ (fetch.stage = "none") <=> ~ \E r \in Requests : request[r].stage = "key"
  /\ forced \in Nat
  /\ \A r \in Requests :
       /\ request[r].stage \in {"new", "key", "signature", "proof", "done"}
       /\ (request[r].stage = "done") <=> (request[r].verdict # "none")
       /\ request[r].key \in 0 .. published

-------------------------------------------------------------------------------
(* The verdicts.  A flaw is named for the check that finds it.                 *)

(* What the header shows before any key is asked for.                          *)
HeaderFlaw(token) ==
  IF token.flaw = "alg" THEN "token/invalid_algorithm"
  ELSE IF token.flaw = "header" \/ (token.flaw = "typ" /\ scenario.typ)
       THEN "token/malformed" ELSE "none"

(* Issued before the document's epoch, if that epoch has come by the server's  *)
(* clock; one that is still to come is ignored.                                *)
Revoked(token, document) ==
  document # 0 /\ LET epoch == Documents[document].epoch
                  IN epoch \in 1 .. now /\ token.iat < epoch

(* The epoch of the document the key came from, read before the await.         *)
FlawWhenLookedUp(token, key) ==
  IF token.flaw \in {"signature", "claims"} THEN token.flaw
  ELSE IF Revoked(token, key) THEN "token/revoked"
  ELSE IF token.flaw = "environment" THEN token.flaw ELSE "none"

(* jwtVerify's own verdict (signature, time, issuer, audience) and the claims  *)
(* it does not know come first, then the revocation epoch, then rkm_env.       *)
ClaimFlaw(token, key) ==
  IF token.flaw \in {"signature", "claims"} THEN token.flaw
  ELSE IF Revoked(token, cache.document) THEN "token/revoked"
  ELSE IF token.flaw = "environment" THEN token.flaw ELSE "none"

(* A proof is only looked at when the token is bound: without the DPoP scheme  *)
(* the token is downgraded, and a flaw of the proof rejects it before its jti  *)
(* is shown to the application.                                                *)
ProofFlaw(shown) ==
  IF shown.scheme = "bearer" THEN "scheme_downgrade" ELSE shown.proof.flaw

-------------------------------------------------------------------------------
(* The key set *)

Fresh == cache.document # 0 /\ now - cache.fetchedAt < Documents[cache.document].maxAge

Has(document, kid) == document # 0 /\ kid \in Documents[document].keys

(* The cooldown measured from the last document instead of the last attempt.   *)
CoolingSinceDocument == Fresh /\ now - cache.fetchedAt < Cooldown

(* An unknown key does not refresh a fresh cache again within the cooldown.    *)
Cooling == Fresh /\ lastAttempt # Never /\ now - lastAttempt < Cooldown

Decided(handled, verdict) == [handled EXCEPT !.stage = "done", !.verdict = verdict]

(* What a request does with the key set it looks up: found, its signature is   *)
(* verified next; not found, the token is refused.                             *)
LookedUp(handled, document) ==
  IF Has(document, handled.shown.token.kid)
    THEN [handled EXCEPT !.stage = "signature", !.key = document]
    ELSE Decided(handled, "jwks/no_matching_key")

(* refresh(): the caller joins the refresh under way or starts one.            *)
Refresh ==
  \/ fetch.stage # "none" /\ UNCHANGED <<lastAttempt, fetch, forced>>
  \/ /\ fetch.stage = "none"
     /\ lastAttempt' = now
     /\ forced' = IF Fresh THEN forced + 1 ELSE forced
     /\ fetch' = [stage |-> IF scenario.source = "url" THEN "jwks" ELSE "oauth",
                  document |-> 0]

(* getKey: a fresh cache answers at once, also that it has no such key while   *)
(* the cooldown lasts; anything else waits for a refresh.                      *)
GetKey(r, handled) ==
  LET answered == Fresh /\ (Has(cache.document, handled.shown.token.kid) \/ Cooling)
  IN \/ /\ answered
        /\ request' = [request EXCEPT ![r] = LookedUp(handled, cache.document)]
        /\ UNCHANGED <<lastAttempt, fetch, forced>>
     \/ /\ ~ answered
        /\ request' = [request EXCEPT ![r] = [handled EXCEPT !.stage = "key"]]
        /\ Refresh

(* doRefresh ends: a document replaces the cache; a failed request keeps the   *)
(* cache the process has, and fails the callers when it has none; a body that  *)
(* is not a key set fails them either way.                                     *)
Answered(document, failure) ==
  LET used == IF failure = "none" THEN document
              ELSE IF failure = "body" THEN 0 ELSE cache.document
  IN /\ cache' = IF failure = "none" THEN [document |-> document, fetchedAt |-> now]
                 ELSE cache
     /\ fetch' = NoFetch
     /\ request' = [r \in Requests |->
                      IF request[r].stage # "key" THEN request[r]
                      ELSE IF used = 0 THEN Decided(request[r], "jwks/unavailable")
                      ELSE LookedUp(request[r], used)]

-------------------------------------------------------------------------------
(* The issuer and the network *)

(* The issuer dates an epoch with its own clock, which may run ahead of the    *)
(* server's.                                                                   *)
Rotate ==
  /\ published < Len(Documents)
  /\ published' = published + 1
  /\ UNCHANGED <<scenario, now, cache, lastAttempt, fetch, burned, request, forced>>

SecondPasses ==
  /\ now < MaxNow
  /\ now' = now + 1
  /\ UNCHANGED <<scenario, published, cache, lastAttempt, fetch, burned, request, forced>>

(* resolveIssuerJwksUri: a missing document or a failed request moves on to    *)
(* the second form; a document of another issuer or without a usable jwks_uri  *)
(* ends the refresh, and so does having no form left.                          *)
Discovery ==
  /\ fetch.stage \in {"oauth", "oidc"}
  /\ \/ /\ fetch' = [fetch EXCEPT !.stage = "jwks"]
        /\ UNCHANGED <<cache, request>>
     \/ /\ fetch.stage = "oauth"
        /\ fetch' = [fetch EXCEPT !.stage = "oidc"]
        /\ UNCHANGED <<cache, request>>
     \/ Answered(0, "fetch")
  /\ UNCHANGED <<scenario, now, published, lastAttempt, burned, forced>>

(* The key endpoint answers the request with the document it publishes now.    *)
ServeKeys ==
  /\ fetch.stage = "jwks" /\ fetch.document = 0
  /\ fetch' = [fetch EXCEPT !.document = published]
  /\ UNCHANGED <<scenario, now, published, cache, lastAttempt, burned, request, forced>>

(* The answer arrives, or is lost, times out, carries an error or no key set.  *)
KeysArrive ==
  /\ fetch.stage = "jwks"
  /\ \/ fetch.document # 0 /\ Answered(fetch.document, "none")
     \/ \E failure \in {"fetch", "body"} : Answered(0, failure)
  /\ UNCHANGED <<scenario, now, published, lastAttempt, burned, forced>>

-------------------------------------------------------------------------------
(* A request *)

(* The middleware checks the scheme, the verifier the token's header, and then *)
(* asks for the key: all in the turn the request arrives in.                   *)
Arrive(r) ==
  /\ request[r].stage = "new" /\ \A q \in 1 .. (r - 1) : request[q].stage # "new"
  /\ \E shown \in scenario.presented :
       LET handled == [request[r] EXCEPT !.shown = shown]
           flaw == IF shown.scheme = "none" THEN "token/missing"
                   ELSE HeaderFlaw(shown.token)
       IN \/ /\ flaw # "none"
             /\ request' = [request EXCEPT ![r] = Decided(handled, flaw)]
             /\ UNCHANGED <<lastAttempt, fetch, forced>>
          \/ flaw = "none" /\ GetKey(r, handled)
  /\ UNCHANGED <<scenario, now, published, cache, burned>>

(* jwtVerify returns: the claims are judged, and an unbound token that came    *)
(* with the DPoP scheme is refused by the middleware after all.                *)
SignatureChecked(r) ==
  /\ request[r].stage = "signature"
  /\ LET shown == request[r].shown
         flaw == ClaimFlaw(shown.token, request[r].key)
         verdict == IF flaw # "none" THEN flaw
                    ELSE IF shown.scheme = "dpop" THEN "scheme_mismatch" ELSE "ok"
     IN request' = [request EXCEPT ![r] =
                      IF flaw = "none" /\ shown.token.bound
                        THEN [@ EXCEPT !.stage = "proof"]
                        ELSE Decided(@, verdict)]
  /\ UNCHANGED <<scenario, now, published, cache, lastAttempt, fetch, burned, forced>>

(* An unavailable store taken for one that has not seen the jti.               *)
BurnWhenAvailable(r, jti) ==
  \/ /\ jti \notin burned
     /\ burned' = burned \union {jti}
     /\ request' = [request EXCEPT ![r] = Decided(@, "ok")]
  \/ /\ jti \in burned
     /\ request' = [request EXCEPT ![r] = Decided(@, "jti_replay")]
     /\ UNCHANGED burned
  \/ /\ request' = [request EXCEPT ![r] = Decided(@, "ok")]
     /\ UNCHANGED burned

(* checkProof, with an onJti hook: the application burns the jti of a proof    *)
(* that passed every other check, and refuses one it has seen; its store may   *)
(* also be unavailable.                                                        *)
BurnJti(r, jti) ==
  \/ /\ jti \notin burned
     /\ burned' = burned \union {jti}
     /\ request' = [request EXCEPT ![r] = Decided(@, "ok")]
  \/ /\ jti \in burned
     /\ request' = [request EXCEPT ![r] = Decided(@, "jti_replay")]
     /\ UNCHANGED burned
  \/ /\ request' = [request EXCEPT ![r] = Decided(@, "replay_check_unavailable")]
     /\ burned' \in {burned, burned \union {jti}}

ProofChecked(r) ==
  /\ request[r].stage = "proof"
  /\ LET shown == request[r].shown
     IN \/ /\ ProofFlaw(shown) # "none"
           /\ request' = [request EXCEPT ![r] = Decided(@, ProofFlaw(shown))]
           /\ UNCHANGED burned
        \/ /\ ProofFlaw(shown) = "none" /\ ~scenario.onJti
           /\ request' = [request EXCEPT ![r] = Decided(@, "ok")]
           /\ UNCHANGED burned
        \/ ProofFlaw(shown) = "none" /\ scenario.onJti /\ BurnJti(r, shown.proof.jti)
  /\ UNCHANGED <<scenario, now, published, cache, lastAttempt, fetch, forced>>

-------------------------------------------------------------------------------
VerificationInit ==
  /\ scenario \in Scenarios /\ now = 0 /\ published = 1
  /\ cache = NoCache /\ lastAttempt = Never /\ fetch = NoFetch
  /\ burned = {} /\ forced = 0
  /\ request = [r \in Requests |->
                  [stage |-> "new", shown |-> NotShown, key |-> 0, verdict |-> "none"]]

VerificationNext ==
  \/ Rotate \/ SecondPasses \/ Discovery \/ ServeKeys \/ KeysArrive
  \/ \E r \in Requests : Arrive(r) \/ SignatureChecked(r) \/ ProofChecked(r)

VerificationSpec == VerificationInit /\ [][VerificationNext]_verificationVars

-------------------------------------------------------------------------------
(* Unknown keys do not turn the server into a client that floods the issuer:   *)
(* while its cache is fresh, refreshes begin at most once per cooldown,        *)
(* whatever the requests carry and whether or not the refreshes succeed.       *)
UnknownKeysAreThrottled == forced * Cooldown <= now

(* An accepted token is never one that the key document of its own key, or any *)
(* document the cache took before the signature was verified, had revoked -    *)
(* unless the cache by then holds an epoch that is still to come by the        *)
(* server's clock, which hides the epochs before it (verifyToken ignores it).  *)
EpochHasCome(document) == document # 0 => Documents[document].epoch <= now

RevocationIsFollowed ==
  [][\A r \in Requests :
       request[r].stage = "signature" /\ request'[r].stage # "signature"
       /\ EpochHasCome(cache.document)
       /\ (\E document \in request[r].key .. cache.document :
             Revoked(request[r].shown.token, document))
       => request'[r].verdict \notin {"none", "ok"}]_verificationVars

(* An accepted bound token came with the DPoP scheme and a sound proof, and    *)
(* where the application gives an onJti hook no two accepted requests carried  *)
(* the same proof.  Without one the SDK does not prevent replay (types.ts).    *)
ProofsAreAcceptedOnce ==
  LET accepted == {r \in Requests : request[r].verdict = "ok"
                                     /\ request[r].shown.token.bound}
  IN /\ \A r \in accepted : /\ request[r].shown.scheme = "dpop"
                            /\ request[r].shown.proof.flaw = "none"
     /\ scenario.onJti =>
          \A r, q \in accepted :
            request[r].shown.proof.jti = request[q].shown.proof.jti => r = q

=============================================================================
