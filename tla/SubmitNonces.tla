---------------------------- MODULE SubmitNonces ----------------------------
(* The one-time nonces under which the React Native provider lets tokens be   *)
(* submitted: internal/token-runtime.ts, submitNonces.  Nonces are numbered   *)
(* in the order they are issued, which is the order of the Map.               *)
EXTENDS Naturals, FiniteSets

CONSTANTS
  MaxNonces,   \* bound on the nonces issued
  MaxTime,     \* bound on the clock
  NonceTtl,    \* NONCE_TTL_MS, in ticks
  MaxPending   \* MAX_PENDING_NONCES

ASSUME NonceAssumption ==
  /\ {MaxNonces, MaxTime, NonceTtl} \subseteq Nat
  /\ MaxPending \in Nat \ {0}

VARIABLES
  submitNonces,  \* the pending nonces
  expiresAt,     \* when each nonce expires
  issued,        \* how many were issued
  now,           \* the clock
  accepted       \* ghost: how often each nonce was accepted, and in time

nonceVars == <<submitNonces, expiresAt, issued, now, accepted>>

Nonces == 1..MaxNonces

NonceInit ==
  /\ submitNonces = {} /\ expiresAt = [n \in Nonces |-> 0]
  /\ issued = 0 /\ now = 0 /\ accepted = [n \in Nonces |-> 0]

GcExpired(pending) == {n \in pending : ~(expiresAt[n] < now)}

\* The newest MaxPending of the nonces.
Newest(pending) == {n \in pending : Cardinality({m \in pending : m > n}) < MaxPending}

BeginAuthFlow ==
  /\ issued < MaxNonces /\ issued' = issued + 1
  /\ expiresAt' = [expiresAt EXCEPT ![issued + 1] = now + NonceTtl]
  /\ submitNonces' = Newest(GcExpired(submitNonces) \cup {issued + 1})
  /\ UNCHANGED <<now, accepted>>

\* Mutant: the nonce is looked up and left.
ConsumeKept(n) ==
  /\ submitNonces' = GcExpired(submitNonces)
  /\ accepted' = IF n \in GcExpired(submitNonces)
                   THEN [accepted EXCEPT ![n] = accepted[n] + 1] ELSE accepted
  /\ UNCHANGED <<expiresAt, issued, now>>

\* A nonce is accepted if it is pending, and is pending no more.
ConsumeNonce(n) ==
  /\ submitNonces' = GcExpired(submitNonces) \ {n}
  /\ accepted' = IF n \in GcExpired(submitNonces)
                   THEN [accepted EXCEPT ![n] = accepted[n] + 1] ELSE accepted
  /\ UNCHANGED <<expiresAt, issued, now>>

IsAccepted(n) == n \in GcExpired(submitNonces)

Tick == now < MaxTime /\ now' = now + 1 /\ UNCHANGED <<submitNonces, expiresAt, issued, accepted>>

NonceNext == BeginAuthFlow \/ (\E n \in Nonces : ConsumeNonce(n)) \/ Tick
NonceSpec == NonceInit /\ [][NonceNext]_nonceVars

\* A nonce lets tokens in at most once, whatever is issued, submitted and
\* waited for in between.
AcceptedOnce == \A n \in Nonces : accepted[n] <= 1

\* The pending nonces are among those issued, and none was accepted.
PendingUnused == submitNonces \subseteq 1..issued /\ \A n \in submitNonces : accepted[n] = 0
=============================================================================
