----------------------- MODULE RnTokenRuntime_proofs -----------------------
(* What is proved of the React Native token runtime, for any number of       *)
(* flights, sign-ins, rotations and retries, and any scenarios.               *)
EXTENDS RnTokenRuntime, TLAPS

Runtimes ==
    [access : {"none", "fresh", "stale"}, user : Users \cup {NoUser},
     inFlight : Slots \cup {NoSlot}, attempts : 0..MaxAttempts,
     timer : BOOLEAN, restorePending : BOOLEAN, destroyed : BOOLEAN]
FlightSteps == {"idle", "bio", "read", "send", "store", "failed", "clear", "mismatch"}
FlightRecords ==
    [pc : FlightSteps, restoring : BOOLEAN, tok : Tokens \cup {NoToken}, resumed : BOOLEAN]
Machines == [state : MachineStates, user : Users \cup {NoUser}, session : Users \cup {NoUser}]
Jobs == [pc : {"idle", "store", "failed", "mismatch", "clear"}, tok : Tokens \cup {NoToken}]

(***************************************************************************)
(* What the pieces of the steps return.                                    *)
(***************************************************************************)
\* The machine after each action the runtime dispatches.
LEMMA ReduceIs ==
  ASSUME NEW m, NEW u
  PROVE  /\ Reduce(m, "RESTORE_SUCCESS", u) = Snapshot("authenticated", u, u)
         /\ Reduce(m, "SIGN_IN_SUCCESS", u) = Snapshot("authenticated", u, u)
         /\ Reduce(m, "RESTORE_FAILED", u) = InitialSnapshot
         /\ Reduce(m, "REFRESH_REVOKED", u) = InitialSnapshot
         /\ Reduce(m, "SIGN_OUT", u) = InitialSnapshot
         /\ Reduce(m, "SIGN_IN_FAILED", u) = Snapshot("error", NoUser, NoUser)
         /\ Reduce(m, "REFRESH_START", u) \in {[m EXCEPT !.state = "refreshing"], m}
         /\ Reduce(m, "REFRESH_START", u) # m => m.state \in {"authenticated", "offline_stale"}
         /\ Reduce(m, "REFRESH_SUCCESS", u) = [m EXCEPT !.state = "authenticated", !.session = u]
         /\ Reduce(m, "REFRESH_NETWORK_ERROR", u) = [m EXCEPT !.state = "authenticated"]
         /\ Reduce(m, "OFFLINE_STALE", u) \in {[m EXCEPT !.state = "offline_stale"], m}
         /\ Reduce(m, "OFFLINE_STALE", u) # m => m.state \in {"authenticated", "refreshing"}
         /\ Reduce(m, "BACK_ONLINE", u) \in {[m EXCEPT !.state = "authenticated"], m}
         /\ Reduce(m, "BACK_ONLINE", u) # m => m.state = "offline_stale"
BY Zenon DEF Reduce

\* The machine a dispatch leaves has the machine's type, whatever the action.
Dispatched ==
    {"RESTORE_SUCCESS", "RESTORE_FAILED", "SIGN_IN_SUCCESS", "SIGN_IN_FAILED", "SIGN_OUT",
     "REFRESH_START", "REFRESH_SUCCESS", "REFRESH_REVOKED", "REFRESH_NETWORK_ERROR",
     "OFFLINE_STALE", "BACK_ONLINE"}
LEMMA ReduceTyped ==
  ASSUME NEW m \in Machines, NEW action \in Dispatched, NEW u \in Users \cup {NoUser}
  PROVE  Reduce(m, action, u) \in Machines
<1>1. /\ Snapshot("authenticated", u, u) \in Machines /\ InitialSnapshot \in Machines
      /\ Snapshot("error", NoUser, NoUser) \in Machines
      /\ [m EXCEPT !.state = "authenticated"] \in Machines
      /\ [m EXCEPT !.state = "refreshing"] \in Machines
      /\ [m EXCEPT !.state = "offline_stale"] \in Machines
      /\ [m EXCEPT !.state = "authenticated", !.session = u] \in Machines
  BY DEF Snapshot, InitialSnapshot, Machines, MachineStates
<1>2. Reduce(m, action, u) \in Machines
  <2>1. CASE action = "RESTORE_SUCCESS"
    BY <2>1, <1>1, ReduceIs
  <2>2. CASE action = "RESTORE_FAILED"
    BY <2>2, <1>1, ReduceIs
  <2>3. CASE action = "SIGN_IN_SUCCESS"
    BY <2>3, <1>1, ReduceIs
  <2>4. CASE action = "SIGN_IN_FAILED"
    BY <2>4, <1>1, ReduceIs
  <2>5. CASE action = "SIGN_OUT"
    BY <2>5, <1>1, ReduceIs
  <2>6. CASE action = "REFRESH_REVOKED"
    BY <2>6, <1>1, ReduceIs
  <2>7. CASE action = "REFRESH_START"
    BY <2>7, <1>1, ReduceIs
  <2>8. CASE action = "REFRESH_SUCCESS"
    BY <2>8, <1>1, ReduceIs
  <2>9. CASE action = "REFRESH_NETWORK_ERROR"
    BY <2>9, <1>1, ReduceIs
  <2>10. CASE action = "OFFLINE_STALE"
    BY <2>10, <1>1, ReduceIs
  <2>11. CASE action = "BACK_ONLINE"
    BY <2>11, <1>1, ReduceIs
  <2> QED  BY <2>1, <2>2, <2>3, <2>4, <2>5, <2>6, <2>7, <2>8, <2>9, <2>10, <2>11 DEF Dispatched
<1> QED  BY <1>2

\* performRefresh joins or refuses, or it starts a flight in an idle slot.
Kept(r) == rt' = r /\ flights' = flights /\ queue' = queue
Started(r, restoring, s) ==
    /\ flights[s].pc = "idle" /\ r.inFlight = NoSlot /\ ~r.destroyed
    /\ rt' = [r EXCEPT !.inFlight = s]
    /\ IF "biometric" \in calls
         THEN flights' = [flights EXCEPT ![s] = Flight("bio", restoring, NoToken, FALSE)]
              /\ queue' = queue
         ELSE flights' = [flights EXCEPT ![s] = Flight("read", restoring, stored, FALSE)]
              /\ queue' = Append(queue, s)
Performs(r, restoring) ==
    \/ Kept(r) /\ (r.inFlight # NoSlot \/ r.destroyed)
    \/ \E s \in Slots : Started(r, restoring, s)

LEMMA PerformIs ==
  ASSUME NEW r, NEW restoring, NEW m, PerformRefresh(r, restoring, m)
  PROVE  machine' = m /\ Performs(r, restoring)
BY DEF PerformRefresh, Performs, Kept, Started, FreeSlots, Issue

\* What the end of a flight changes.
Ended(s, r) ==
    /\ flights' = [flights EXCEPT ![s] = Idle]
    /\ rt' = [r EXCEPT !.inFlight = NoSlot]
    /\ restore' = IF restore = s THEN "done" ELSE restore

LEMMA EndIs ==
  ASSUME NEW s, NEW r, NEW m \in Machines, NEW success, End(s, r, m, success),
         r.user \in Users \cup {NoUser}
  PROVE  Ended(s, r) /\ machine' \in Machines
<1>1. /\ Reduce(m, "RESTORE_SUCCESS", r.user) \in Machines
      /\ Reduce(m, "RESTORE_FAILED", NoUser) \in Machines
  BY ReduceTyped DEF Dispatched
<1> QED  BY <1>1 DEF End, Ended

(***************************************************************************)
(* The invariant of every scenario: the types; a token is one of a sign-in *)
(* the server accepted; a flight that waits for the store is in its queue; *)
(* the store holds the current token of the runtime's user.                *)
(***************************************************************************)
AwaitsStore == {"read", "store", "failed", "clear", "mismatch"}
InQueue(x) == \E i \in 1..Len(queue) : queue[i] = x
Owned(tok) == tok # NoToken => owner[tok.login] # NoUser
Ownership ==
    /\ Owned(stored) /\ Owned(job.tok) /\ \A s \in Slots : Owned(flights[s].tok)
    /\ \A l \in Logins : owner[l] = NoUser => gen[l] = 0
Labelled ==
    /\ restore = "new" => ~rt.destroyed
    /\ \A s \in Slots : flights[s].pc \in {"send", "store"} => flights[s].tok # NoToken
    /\ \A s \in Slots : flights[s].pc \in AwaitsStore => InQueue(s)
    /\ \A s \in Slots : flights[s].pc = "failed" => "writeFails" \in calls
    /\ job.pc = "store" => job.tok # NoToken
StoredIsOwn ==
    {"writeFails", "undecodable"} \cap calls = {} =>
      /\ stored # NoToken => IsCurrent(stored)
      /\ rt.user # NoUser => stored # NoToken /\ owner[stored.login] = rt.user
Typed ==
    /\ calls \in Scenarios /\ rt \in Runtimes /\ flights \in [Slots -> FlightRecords]
    /\ job \in Jobs /\ restore \in {"new", "done"} \cup Slots
    /\ stored \in Tokens \cup {NoToken} /\ queue \in Seq(Slots \cup {"job"})
    /\ machine \in Machines /\ owner \in [Logins -> Users \cup {NoUser}]
    /\ gen \in [Logins -> 0..MaxGen] /\ reused \in BOOLEAN
Base == Typed /\ Ownership /\ Labelled /\ StoredIsOwn

LEMMA TypedIsTypeOK == Typed <=> TypeOK
BY DEF Typed, TypeOK, Runtimes, FlightRecords, FlightSteps, Jobs, Machines

LEMMA TokensAre ==
  /\ NoToken \notin Tokens
  /\ \A l \in Logins, g \in 0..MaxGen : Token(l, g) \in Tokens
       /\ Token(l, g).login = l /\ Token(l, g).gen = g
  /\ \A tok \in Tokens : tok.login \in Logins /\ tok.gen \in 0..MaxGen
       /\ tok = Token(tok.login, tok.gen)
BY SettingsAssumption DEF Tokens, Token, Logins

\* An operation joins the queue at its end; an answer takes the oldest one out.
LEMMA QueueGrows ==
  ASSUME queue \in Seq(Slots \cup {"job"}), NEW x \in Slots \cup {"job"}, queue' = Append(queue, x)
  PROVE  /\ queue' \in Seq(Slots \cup {"job"}) /\ InQueue(x)'
         /\ \A y : InQueue(y) => InQueue(y)'
<1>1. /\ queue' \in Seq(Slots \cup {"job"}) /\ Len(queue') = Len(queue) + 1
      /\ queue'[Len(queue) + 1] = x
      /\ \A i \in 1..Len(queue) : queue'[i] = queue[i]
      /\ Len(queue) \in Nat
  OBVIOUS
<1>2. InQueue(x)'
  BY <1>1 DEF InQueue
<1>3. \A y : InQueue(y) => InQueue(y)'
  BY <1>1 DEF InQueue
<1> QED  BY <1>1, <1>2, <1>3

LEMMA QueueShrinks ==
  ASSUME queue \in Seq(Slots \cup {"job"}), NEW x, Answered(x)
  PROVE  /\ queue' \in Seq(Slots \cup {"job"})
         /\ \A y : y # x /\ InQueue(y) => InQueue(y)'
<1>1. /\ queue' \in Seq(Slots \cup {"job"}) /\ Len(queue') = Len(queue) - 1
      /\ queue[1] = x /\ Len(queue) \in Nat
      /\ \A i \in 1..Len(queue') : queue'[i] = queue[i + 1]
  BY DEF Answered
<1>2. ASSUME NEW y, y # x, InQueue(y) PROVE InQueue(y)'
  <2>1. PICK i \in 1..Len(queue) : queue[i] = y
    BY <1>2 DEF InQueue
  <2>2. i - 1 \in 1..Len(queue') /\ queue'[i - 1] = y
    BY <1>1, <1>2, <2>1
  <2> QED  BY <2>2 DEF InQueue
<1> QED  BY <1>1, <1>2

LEMMA FlightIs ==
  /\ Idle \in FlightRecords /\ Idle.pc = "idle" /\ Idle.tok = NoToken
  /\ \A pc \in FlightSteps, restoring \in BOOLEAN, tok \in Tokens \cup {NoToken}, resumed \in BOOLEAN :
       /\ Flight(pc, restoring, tok, resumed) \in FlightRecords
       /\ Flight(pc, restoring, tok, resumed).pc = pc
       /\ Flight(pc, restoring, tok, resumed).tok = tok
       /\ Flight(pc, restoring, tok, resumed).restoring = restoring
       /\ Flight(pc, restoring, tok, resumed).resumed = resumed
BY DEF Idle, Flight, FlightRecords, FlightSteps

\* The start of a flight, or a caller that joins one.
LEMMA StartKeepsBase ==
  ASSUME Base, NEW r \in {rt, [rt EXCEPT !.timer = FALSE]}, NEW restoring \in BOOLEAN,
         Performs(r, restoring), machine' \in Machines,
         restore' \in {"new", "done"} \cup Slots, restore' = "new" => restore = "new",
         UNCHANGED <<job, stored, world>>
  PROVE  Base'
<1> USE DEF Base, world
<1>1. CASE Kept(r)
  <2>1. rt' \in Runtimes /\ rt'.user = rt.user /\ rt'.destroyed = rt.destroyed
        /\ flights' = flights /\ queue' = queue
    BY <1>1 DEF Kept, Typed, Runtimes
  <2>2. Typed'
    BY <2>1 DEF Typed
  <2>3. Ownership' /\ Labelled' /\ StoredIsOwn'
    BY <2>1 DEF Ownership, Owned, Labelled, InQueue, StoredIsOwn, IsCurrent
  <2> QED  BY <2>2, <2>3
<1>2. ASSUME NEW s \in Slots, Started(r, restoring, s) PROVE Base'
  <2>1. rt' \in Runtimes /\ rt'.user = rt.user /\ rt'.destroyed = rt.destroyed
    BY <1>2 DEF Started, Typed, Runtimes
  <2>2. PICK f \in FlightRecords :
          /\ flights' = [flights EXCEPT ![s] = f]
          /\ \/ f.pc = "bio" /\ f.tok = NoToken /\ queue' = queue
             \/ f.pc = "read" /\ f.tok = stored /\ queue' = Append(queue, s)
    <3>1. Flight("bio", restoring, NoToken, FALSE) \in FlightRecords
          /\ Flight("read", restoring, stored, FALSE) \in FlightRecords
      BY DEF Flight, FlightRecords, FlightSteps, Typed
    <3> QED  BY <3>1, <1>2 DEF Started, Flight
  <2>3. /\ queue' \in Seq(Slots \cup {"job"}) /\ \A y : InQueue(y) => InQueue(y)'
        /\ f.pc = "read" => InQueue(s)'
    BY <2>2, QueueGrows DEF Typed, InQueue
  <2>4. Typed'
    BY <2>1, <2>2, <2>3 DEF Typed
  <2>5. Ownership' /\ StoredIsOwn'
    BY <2>1, <2>2 DEF Ownership, Owned, StoredIsOwn, IsCurrent, Typed
  <2>6. Labelled'
    BY <2>1, <2>2, <2>3 DEF Labelled, Typed, AwaitsStore
  <2> QED  BY <2>4, <2>5, <2>6
<1> QED  BY <1>1, <1>2 DEF Performs

\* The end of a flight: the runtime keeps its user.
LEMMA EndKeepsBase ==
  ASSUME Base, NEW s \in Slots, NEW r \in Runtimes, r.user = rt.user, r.destroyed = rt.destroyed,
         Ended(s, r), machine' \in Machines, queue' = queue \/ Answered(s),
         UNCHANGED <<job, stored, world>>
  PROVE  Base'
<1> USE DEF Base, world
<1>1. rt' \in Runtimes /\ rt'.user = rt.user /\ rt'.destroyed = rt.destroyed
  BY DEF Ended, Runtimes
<1>2. /\ queue' \in Seq(Slots \cup {"job"})
      /\ \A y : y # s /\ InQueue(y) => InQueue(y)'
  BY QueueShrinks DEF Typed, InQueue
<1>3. restore' \in {"new", "done"} \cup Slots /\ (restore' = "new" => restore = "new")
  BY DEF Ended, Typed
<1>4. Typed'
  BY <1>1, <1>2, <1>3, FlightIs DEF Typed, Ended
<1>5. Ownership' /\ StoredIsOwn'
  BY <1>1, FlightIs DEF Ownership, Owned, StoredIsOwn, IsCurrent, Typed, Ended
<1>6. Labelled'
  BY <1>1, <1>2, <1>3, FlightIs DEF Labelled, Typed, AwaitsStore, Ended
<1> QED  BY <1>4, <1>5, <1>6

LEMMA NoAttempts == 0 \in 0..MaxAttempts
BY SettingsAssumption

\* The end of a flight whose answer could not be decoded: the server has rotated its token.
LEMMA UndecodedKeepsBase ==
  ASSUME Base, NEW s \in Slots, UndecodedRefresh(s), UNCHANGED <<calls, owner, reused>>,
         NEW l \in Logins, owner[l] # NoUser, gen[l] < MaxGen, gen' = [gen EXCEPT ![l] = @ + 1]
  PROVE  Base'
<1> USE DEF Base
<1> DEFINE r == [rt EXCEPT !.restorePending = FALSE, !.attempts = 0]
           m == Reduce(machine, "SIGN_IN_FAILED", NoUser)
           n == IF rt.restorePending /\ rt.user # NoUser
                  THEN Reduce(m, "RESTORE_SUCCESS", rt.user) ELSE m
<1>1. r \in Runtimes /\ r.user = rt.user /\ r.destroyed = rt.destroyed
  <2>1. rt \in Runtimes
    BY DEF Typed
  <2> QED  BY <2>1, NoAttempts DEF Runtimes
<1>2. n \in Machines
  <2>1. m \in Machines
    BY ReduceTyped DEF Typed, Dispatched
  <2> HIDE DEF m
  <2>2. rt.user \in Users \cup {NoUser}
    BY DEF Typed, Runtimes
  <2> QED  BY <2>1, <2>2, ReduceTyped DEF Dispatched
<1>3. End(s, r, n, TRUE) /\ "undecodable" \in calls /\ UNCHANGED <<job, stored, queue>>
  BY DEF UndecodedRefresh, store
<1> HIDE DEF r, n
<1>4. Ended(s, r) /\ machine' \in Machines
  BY <1>1, <1>2, <1>3, EndIs DEF Typed, Runtimes
<1>5. /\ rt' \in Runtimes /\ rt'.destroyed = rt.destroyed
      /\ restore' \in {"new", "done"} \cup Slots /\ (restore' = "new" => restore = "new")
  BY <1>1, <1>4 DEF Ended, Runtimes, Typed
<1>6. gen' \in [Logins -> 0..MaxGen] /\ \A k \in Logins : owner[k] = NoUser => gen'[k] = 0
  BY SettingsAssumption DEF Typed, Ownership
<1>7. Typed'
  BY <1>3, <1>4, <1>5, <1>6, FlightIs DEF Typed, Ended
<1>8. Ownership' /\ StoredIsOwn'
  BY <1>3, <1>4, <1>6, FlightIs DEF Ownership, Owned, StoredIsOwn, Typed, Ended
<1>9. Labelled'
  BY <1>3, <1>4, <1>5, FlightIs DEF Labelled, InQueue, Typed, AwaitsStore, Ended
<1> QED  BY <1>7, <1>8, <1>9

\* setTokens and clear: the fields of the runtime they set.
LEMMA ClearedIs ==
  ASSUME NEW r \in Runtimes
  PROVE  /\ Cleared(r) \in Runtimes /\ Cleared(r).user = NoUser
         /\ Cleared(r).destroyed = r.destroyed /\ Cleared(r).inFlight = NoSlot
         /\ Cleared(r).restorePending = FALSE
BY NoAttempts DEF Runtimes, Cleared

LEMMA AcceptedIs ==
  ASSUME NEW r \in Runtimes, NEW u \in Users
  PROVE  /\ Accepted(r, u) \in Runtimes /\ Accepted(r, u).user = u
         /\ Accepted(r, u).destroyed = r.destroyed /\ Accepted(r, u).inFlight = r.inFlight
         /\ Accepted(r, u).restorePending = r.restorePending
BY NoAttempts DEF Runtimes, Accepted

\* clear() inside a flight, also when the server has rotated its token.
LEMMA ClearKeepsBase ==
  ASSUME Base, NEW s \in Slots, ClearIn(s), UNCHANGED <<calls, owner>>, reused' \in BOOLEAN,
         \/ gen' = gen
         \/ \E l \in Logins : owner[l] # NoUser /\ gen[l] < MaxGen /\ gen' = [gen EXCEPT ![l] = @ + 1]
  PROVE  Base'
<1> USE DEF Base
<1>1. rt' \in Runtimes /\ rt'.user = NoUser /\ rt'.destroyed = rt.destroyed
  BY ClearedIs DEF ClearIn, Typed
<1>2. /\ queue' \in Seq(Slots \cup {"job"})
      /\ InQueue(s)' /\ \A y : InQueue(y) => InQueue(y)'
  BY QueueGrows DEF Typed, ClearIn, Issue
<1>3. gen' \in [Logins -> 0..MaxGen] /\ \A l \in Logins : owner[l] = NoUser => gen'[l] = 0
  BY SettingsAssumption DEF Typed, Ownership
<1>4. /\ flights' = [flights EXCEPT ![s].pc = "clear"]
      /\ flights'[s].pc = "clear" /\ flights'[s].tok = flights[s].tok
      /\ flights' \in [Slots -> FlightRecords]
      /\ UNCHANGED <<job, restore, machine>> /\ stored' = NoToken
  BY DEF Typed, ClearIn, GoTo, FlightRecords, FlightSteps
<1>5. Typed'
  BY <1>1, <1>2, <1>3, <1>4 DEF Typed
<1>6. Ownership' /\ StoredIsOwn'
  BY <1>1, <1>3, <1>4 DEF Ownership, Owned, StoredIsOwn, Typed
<1>7. Labelled'
  BY <1>1, <1>2, <1>4 DEF Labelled, Typed, AwaitsStore
<1> QED  BY <1>5, <1>6, <1>7

\* What completeRefresh changes: a rotated token, of a sign-in the server accepted.
Completed(s, tok, pc) ==
    /\ pc \in {"store", "failed", "mismatch"}
    /\ Write(pc, tok) /\ queue' = Append(queue, s)
    /\ flights' = [flights EXCEPT ![s] = Flight(pc, flights[s].restoring, tok, rt.restorePending)]
    /\ rt' \in Runtimes
    /\ rt'.destroyed = rt.destroyed /\ rt'.restorePending = FALSE
    /\ rt'.inFlight = IF pc = "mismatch" THEN NoSlot ELSE rt.inFlight
    /\ rt'.user = IF pc = "mismatch" THEN NoUser ELSE owner[tok.login]
    /\ IF pc = "mismatch" THEN rt.user # NoUser /\ rt.user # owner[tok.login]
                          ELSE rt.user \in {NoUser, owner[tok.login]}
    /\ UNCHANGED <<job, restore, machine>>

LEMMA CompleteIs ==
  ASSUME Typed, NEW s \in Slots, NEW tok \in Tokens, owner[tok.login] # NoUser,
         CompleteRefresh(s, tok)
  PROVE  \E pc : Completed(s, tok, pc)
<1> DEFINE u == owner[tok.login]
           r == [rt EXCEPT !.restorePending = FALSE, !.attempts = 0]
<1>1. u \in Users
  BY TokensAre DEF Typed
<1>2. /\ r \in Runtimes /\ r.user = rt.user /\ r.destroyed = rt.destroyed
      /\ r.inFlight = rt.inFlight /\ r.restorePending = FALSE
  BY NoAttempts DEF Typed, Runtimes
<1>3. PICK pc \in IF IsMismatch(r, u) THEN {"mismatch"} ELSE {"store", "failed"} :
         /\ Write(pc, tok) /\ Issue(s)
         /\ flights' = [flights EXCEPT ![s] =
                          Flight(pc, flights[s].restoring, tok, rt.restorePending)]
         /\ rt' = IF pc = "mismatch" THEN Cleared(r) ELSE Accepted(r, u)
         /\ UNCHANGED <<job, restore, machine>>
  BY DEF CompleteRefresh
<1> HIDE DEF r, u
<1>4. /\ Cleared(r) \in Runtimes /\ Cleared(r).user = NoUser
      /\ Cleared(r).destroyed = r.destroyed /\ Cleared(r).inFlight = NoSlot
      /\ Cleared(r).restorePending = FALSE
      /\ Accepted(r, u) \in Runtimes /\ Accepted(r, u).user = u
      /\ Accepted(r, u).destroyed = r.destroyed /\ Accepted(r, u).inFlight = r.inFlight
      /\ Accepted(r, u).restorePending = r.restorePending
  BY <1>1, <1>2, ClearedIs, AcceptedIs
<1>5. /\ pc \in {"store", "failed", "mismatch"}
      /\ pc = "mismatch" <=> IsMismatch(r, u)
  BY <1>3
<1>6. Completed(s, tok, pc)
  BY <1>2, <1>3, <1>4, <1>5 DEF Completed, IsMismatch, Issue, u
<1> QED  BY <1>6

\* An answered refresh writes the token the server now accepts, or removes the stored one.
LEMMA CompleteKeepsBase ==
  ASSUME Base, NEW s \in Slots, NEW l \in Logins, owner[l] # NoUser, gen[l] < MaxGen,
         gen' = [gen EXCEPT ![l] = @ + 1], NEW pc, Completed(s, Token(l, gen[l] + 1), pc),
         UNCHANGED <<calls, owner, reused>>
  PROVE  Base'
<1> DEFINE tok == Token(l, gen[l] + 1)
<1> USE DEF Base
<1>1. /\ gen' \in [Logins -> 0..MaxGen] /\ gen'[l] = gen[l] + 1
      /\ \A k \in Logins : owner[k] = NoUser => gen'[k] = 0
      /\ gen[l] + 1 \in 0..MaxGen
  BY SettingsAssumption DEF Typed, Ownership
<1>2. tok \in Tokens /\ tok # NoToken /\ tok.login = l /\ tok.gen = gen'[l]
  BY <1>1, TokensAre
<1> HIDE DEF tok
<1>3. Completed(s, tok, pc)
  BY DEF tok
<1>4. PICK f \in FlightRecords : f.pc = pc /\ f.tok = tok /\ flights' = [flights EXCEPT ![s] = f]
  <2>1. Flight(pc, flights[s].restoring, tok, rt.restorePending) \in FlightRecords
    BY <1>2, <1>3 DEF Completed, Flight, FlightRecords, FlightSteps, Typed, Runtimes
  <2> QED  BY <2>1, <1>3 DEF Completed, Flight
<1>5. /\ queue' \in Seq(Slots \cup {"job"})
      /\ InQueue(s)' /\ \A y : InQueue(y) => InQueue(y)'
  BY <1>3, QueueGrows DEF Typed, Completed
<1>6. /\ rt' \in Runtimes /\ rt'.destroyed = rt.destroyed /\ UNCHANGED <<job, restore, machine>>
      /\ stored' \in {tok, NoToken, stored}
      /\ stored' = tok \/ stored' = NoToken \/ "writeFails" \in calls
      /\ pc = "failed" => "writeFails" \in calls
      /\ rt'.user = NoUser \/ (rt'.user = owner[l] /\ (stored' = tok \/ "writeFails" \in calls))
  BY <1>2, <1>3 DEF Completed, Write
<1>7. Typed'
  BY <1>1, <1>2, <1>4, <1>5, <1>6 DEF Typed
<1>8. Ownership'
  BY <1>1, <1>2, <1>4, <1>6 DEF Ownership, Owned, Typed
<1>9. StoredIsOwn'
  BY <1>1, <1>2, <1>6 DEF StoredIsOwn, IsCurrent
<1>10. Labelled'
  BY <1>2, <1>4, <1>5, <1>6 DEF Labelled, Typed, AwaitsStore
<1> QED  BY <1>7, <1>8, <1>9, <1>10

(***************************************************************************)
(* The steps of a flight keep it.                                          *)
(***************************************************************************)
\* scheduleRetry keeps the user, and the machine's type.
LEMMA RetryIs ==
  ASSUME NEW r \in Runtimes, NEW m \in Machines, NEW restoring \in BOOLEAN
  PROVE  LET n == RetryState(r, m, restoring)
             p == r.restorePending \/ restoring
             e == Reduce(m, "REFRESH_NETWORK_ERROR", NoUser)
         IN  /\ n.rt \in Runtimes /\ n.rt.user = r.user /\ n.rt.destroyed = r.destroyed
             /\ n.rt.restorePending = p
             /\ n.machine \in Machines
             /\ n.machine \in {IF p THEN m ELSE e, IF p THEN m ELSE Reduce(e, "OFFLINE_STALE", NoUser)}
<1> DEFINE p == r.restorePending \/ restoring
           n == RetryState(r, m, restoring)
           spent == r.attempts >= MaxAttempts
           e == Reduce(m, "REFRESH_NETWORK_ERROR", NoUser)
<1>1. /\ e \in Machines /\ Reduce(e, "OFFLINE_STALE", NoUser) \in Machines
  BY ReduceTyped DEF Dispatched
<1>2. /\ n.rt = [r EXCEPT !.restorePending = p, !.attempts = IF spent THEN 0 ELSE r.attempts + 1,
                          !.timer = IF spent THEN r.timer ELSE TRUE]
      /\ n.machine = IF p THEN m ELSE IF spent THEN Reduce(e, "OFFLINE_STALE", NoUser) ELSE e
  BY DEF RetryState
<1>3. (IF spent THEN 0 ELSE r.attempts + 1) \in 0..MaxAttempts
  BY SettingsAssumption DEF Runtimes
<1>4. /\ n.rt \in Runtimes /\ n.rt.user = r.user /\ n.rt.destroyed = r.destroyed
      /\ n.rt.restorePending = p
  <2> HIDE DEF n, spent, p
  <2>1. p \in BOOLEAN
    BY DEF p, Runtimes
  <2> QED  BY <1>2, <1>3, <2>1 DEF Runtimes
<1> QED  BY <1>1, <1>2, <1>4, Zenon

LEMMA BiometricGateKeepsBase ==
  ASSUME Base, NEW s \in Slots, BiometricGate(s)
  PROVE  Base'
<1>1. CASE /\ flights' = [flights EXCEPT ![s].pc = "read", ![s].tok = stored]
           /\ Issue(s)
           /\ UNCHANGED <<rt, job, restore, stored, machine, world>>
  <2> USE DEF Base, world
  <2>1. /\ flights' \in [Slots -> FlightRecords]
        /\ flights'[s].pc = "read" /\ flights'[s].tok = stored
        /\ \A q \in Slots : q # s => flights'[q] = flights[q]
    BY <1>1 DEF Typed, FlightRecords, FlightSteps
  <2>2. /\ queue' \in Seq(Slots \cup {"job"})
        /\ InQueue(s)' /\ \A y : InQueue(y) => InQueue(y)'
    BY <1>1, QueueGrows DEF Typed, Issue
  <2>3. Typed'
    BY <1>1, <2>1, <2>2 DEF Typed
  <2>4. Ownership' /\ StoredIsOwn'
    BY <1>1, <2>1 DEF Ownership, Owned, StoredIsOwn, IsCurrent, Typed
  <2>5. Labelled'
    BY <1>1, <2>1, <2>2 DEF Labelled, Typed, AwaitsStore
  <2> QED  BY <2>3, <2>4, <2>5
<1>2. CASE ClearIn(s) /\ UNCHANGED world
  <2>1. reused' \in BOOLEAN
    BY <1>2 DEF Base, Typed, world
  <2> QED  BY <1>2, <2>1, ClearKeepsBase DEF world
<1>3. CASE End(s, rt, machine, FALSE) /\ UNCHANGED <<job, store, world>>
  <2>1. Ended(s, rt) /\ machine' \in Machines
    BY <1>3, EndIs DEF Base, Typed, Runtimes
  <2> QED  BY <1>3, <2>1, EndKeepsBase DEF Base, Typed, store
<1> QED  BY <1>1, <1>2, <1>3 DEF BiometricGate

LEMMA ReadTokenKeepsBase ==
  ASSUME Base, NEW s \in Slots, ReadToken(s)
  PROVE  Base'
<1>1. CASE /\ flights[s].tok # NoToken /\ Answered(s) /\ GoTo(s, "send")
           /\ UNCHANGED <<rt, job, restore, stored, machine, world>>
  <2> USE DEF Base, world
  <2>1. /\ flights' \in [Slots -> FlightRecords]
        /\ flights'[s].pc = "send" /\ flights'[s].tok = flights[s].tok
        /\ \A q \in Slots : q # s => flights'[q] = flights[q]
    BY <1>1 DEF Typed, FlightRecords, FlightSteps, GoTo
  <2>2. /\ queue' \in Seq(Slots \cup {"job"})
        /\ \A y : y # s /\ InQueue(y) => InQueue(y)'
    BY <1>1, QueueShrinks DEF Typed
  <2>3. Typed'
    BY <1>1, <2>1, <2>2 DEF Typed
  <2>4. Ownership' /\ StoredIsOwn'
    BY <1>1, <2>1 DEF Ownership, Owned, StoredIsOwn, IsCurrent, Typed
  <2>5. Labelled'
    BY <1>1, <2>1, <2>2 DEF Labelled, Typed, AwaitsStore
  <2> QED  BY <2>3, <2>4, <2>5
<1>2. CASE End(s, rt, machine, FALSE) /\ Answered(s) /\ UNCHANGED <<job, stored, world>>
  <2>1. Ended(s, rt) /\ machine' \in Machines
    BY <1>2, EndIs DEF Base, Typed, Runtimes
  <2> QED  BY <1>2, <2>1, EndKeepsBase DEF Base, Typed
<1> QED  BY <1>1, <1>2 DEF ReadToken

LEMMA AnswerKeepsBase ==
  ASSUME Base, NEW s \in Slots, Answer(s)
  PROVE  Base'
<1> DEFINE l == flights[s].tok.login
           Rotated == gen[l] < MaxGen /\ gen' = [gen EXCEPT ![l] = @ + 1]
<1>1. l \in Logins /\ owner[l] # NoUser
  BY TokensAre DEF Answer, Base, Typed, FlightRecords, Ownership, Owned, Labelled
<1>2. CASE /\ IsCurrent(flights[s].tok) /\ Rotated
           /\ CompleteRefresh(s, Token(l, gen[l] + 1))
           /\ UNCHANGED <<calls, owner, reused>>
  <2>1. gen[l] + 1 \in 0..MaxGen
    BY <1>1, <1>2, SettingsAssumption DEF Base, Typed
  <2>2. Token(l, gen[l] + 1) \in Tokens /\ Token(l, gen[l] + 1).login = l
    BY <1>1, <2>1, TokensAre
  <2> HIDE DEF l
  <2>3. PICK pc : Completed(s, Token(l, gen[l] + 1), pc)
    BY <1>1, <1>2, <2>2, CompleteIs DEF Base
  <2> QED  BY <1>1, <1>2, <2>3, CompleteKeepsBase
<1>3. CASE /\ ~IsCurrent(flights[s].tok) /\ reused' = TRUE
           /\ ClearIn(s) /\ UNCHANGED <<calls, owner, gen>>
  BY <1>3, ClearKeepsBase
<1>4. CASE /\ UNCHANGED gen \/ Rotated
           /\ ClearIn(s) /\ UNCHANGED <<calls, owner, reused>>
  <2>1. reused' \in BOOLEAN
    BY <1>4 DEF Base, Typed
  <2> HIDE DEF l
  <2> QED  BY <1>1, <1>4, <2>1, ClearKeepsBase
<1>5. CASE LET n == RetryState(rt, machine, flights[s].restoring)
           IN /\ End(s, n.rt, n.machine, FALSE)
              /\ UNCHANGED <<job, store, world>>
  <2> DEFINE n == RetryState(rt, machine, flights[s].restoring)
  <2>1. /\ n.rt \in Runtimes /\ n.rt.user = rt.user /\ n.rt.destroyed = rt.destroyed
        /\ n.machine \in Machines
    BY RetryIs DEF Base, Typed, FlightRecords
  <2> HIDE DEF n
  <2>2. End(s, n.rt, n.machine, FALSE) /\ UNCHANGED <<job, store, world>>
    BY <1>5 DEF n
  <2>3. Ended(s, n.rt) /\ machine' \in Machines
    BY <2>1, <2>2, EndIs DEF Base, Typed, Runtimes
  <2> QED  BY <2>1, <2>2, <2>3, EndKeepsBase DEF store
<1>6. CASE Rotated /\ UndecodedRefresh(s) /\ UNCHANGED <<calls, owner, reused>>
  <2> HIDE DEF l
  <2> QED  BY <1>1, <1>6, UndecodedKeepsBase
<1> QED  BY <1>2, <1>3, <1>4, <1>5, <1>6 DEF Answer

\* The machines the ends of a flight dispatch to.
LEMMA MachinesAre ==
  ASSUME Typed
  PROVE  /\ machine \in Machines /\ rt \in Runtimes /\ rt.user \in Users \cup {NoUser}
         /\ \A a \in Dispatched : Reduce(machine, a, rt.user) \in Machines
                               /\ Reduce(machine, a, NoUser) \in Machines
         /\ \A a, b \in Dispatched : Reduce(Reduce(machine, a, rt.user), b, rt.user) \in Machines
                                  /\ Reduce(Reduce(machine, a, NoUser), b, rt.user) \in Machines
<1>1. machine \in Machines /\ rt \in Runtimes /\ rt.user \in Users \cup {NoUser}
  BY DEF Typed, Runtimes
<1> QED  BY <1>1, ReduceTyped

LEMMA FlightStepKeepsBase ==
  ASSUME Base, NEW s \in Slots, FlightStep(s)
  PROVE  Base'
<1>1. CASE BiometricGate(s) \/ ReadToken(s) \/ Answer(s)
  BY <1>1, BiometricGateKeepsBase, ReadTokenKeepsBase, AnswerKeepsBase
<1>2. ASSUME NEW m \in Machines, NEW success, End(s, rt, m, success),
             queue' = queue \/ Answered(s), UNCHANGED <<job, stored, world>>
      PROVE  Base'
  <2>1. Ended(s, rt) /\ machine' \in Machines
    BY <1>2, EndIs, MachinesAre DEF Base
  <2> QED  BY <1>2, <2>1, EndKeepsBase, MachinesAre DEF Base
<1>3. CASE ProverUnavailable(s)
  BY <1>2, <1>3, MachinesAre DEF ProverUnavailable, store, Base
<1>4. CASE TokenStored(s)
  <2> DEFINE f == flights[s]
             m == IF f.restoring \/ f.resumed THEN machine
                  ELSE Reduce(machine, "REFRESH_SUCCESS", rt.user)
             n == IF f.resumed /\ rt.user # NoUser THEN Reduce(m, "RESTORE_SUCCESS", rt.user) ELSE m
  <2>1. m \in Machines
    BY MachinesAre DEF Base, Dispatched
  <2> HIDE DEF m
  <2>2. n \in Machines
    BY <2>1, ReduceTyped, MachinesAre DEF Base, Dispatched
  <2>3. Answered(s) /\ End(s, rt, n, TRUE) /\ UNCHANGED <<job, stored, world>>
    BY <1>4 DEF TokenStored, m
  <2> HIDE DEF n
  <2> QED  BY <1>2, <2>2, <2>3
<1>5. CASE StoreFails(s)
  <2>1. Ended(s, rt) /\ machine' \in Machines /\ Answered(s) /\ UNCHANGED <<job, stored, world>>
    BY <1>5, MachinesAre DEF StoreFails, Ended, Base
  <2> QED  BY <2>1, EndKeepsBase, MachinesAre DEF Base
<1>6. CASE TokenRemoved(s)
  <2> DEFINE f == flights[s]
             m == Reduce(machine, "REFRESH_REVOKED", NoUser)
             n == IF f.pc = "mismatch" /\ f.resumed /\ rt.user # NoUser
                    THEN Reduce(m, "RESTORE_SUCCESS", rt.user) ELSE m
  <2>1. m \in Machines
    BY MachinesAre DEF Base, Dispatched
  <2> HIDE DEF m
  <2>2. n \in Machines
    BY <2>1, ReduceTyped, MachinesAre DEF Base, Dispatched
  <2>3. /\ Answered(s) /\ End(s, rt, n, f.pc = "mismatch") /\ UNCHANGED <<job, stored, world>>
    BY <1>6 DEF TokenRemoved, m
  <2> HIDE DEF n
  <2> QED  BY <1>2, <2>2, <2>3
<1> QED  BY <1>1, <1>3, <1>4, <1>5, <1>6 DEF FlightStep

(***************************************************************************)
(* So do the steps of the provider and the application.                    *)
(***************************************************************************)
\* What a step does that leaves flights, job, restore, store and server alone.
LEMMA QuietKeepsBase ==
  ASSUME Base, rt' \in Runtimes, rt'.user = rt.user, rt'.destroyed => rt.destroyed \/ restore # "new",
         machine' \in Machines, UNCHANGED <<flights, job, restore, store, world>>
  PROVE  Base'
<1> USE DEF Base, store, world
<1>1. Typed'
  BY DEF Typed
<1>2. Ownership' /\ Labelled' /\ StoredIsOwn'
  BY DEF Ownership, Owned, Labelled, InQueue, StoredIsOwn, IsCurrent
<1> QED  BY <1>1, <1>2

\* A foreground or a connectivity event: nothing but a dispatch, or performRefresh.
LEMMA ForegroundIs ==
  ASSUME Typed, NEW m \in Machines, RefreshOnForeground(m)
  PROVE  /\ machine' \in Machines
         /\ \/ Kept(rt) /\ machine' = m
            \/ /\ rt.inFlight = NoSlot
               /\ \/ rt.restorePending /\ Performs(rt, TRUE) /\ machine' = m
                  \/ ~rt.restorePending /\ rt.user # NoUser
                       /\ Performs(rt, FALSE) /\ machine' = Reduce(m, "REFRESH_START", NoUser)
<1>1. Reduce(m, "REFRESH_START", NoUser) \in Machines
  BY ReduceTyped DEF Dispatched
<1> QED  BY <1>1, PerformIs DEF RefreshOnForeground, Kept

LEMMA ForegroundKeepsBase ==
  ASSUME Base, NEW m \in Machines, RefreshOnForeground(m), UNCHANGED <<job, restore, stored, world>>
  PROVE  Base'
<1>1. \E restoring \in BOOLEAN : Performs(rt, restoring) \/ Kept(rt)
  BY ForegroundIs DEF Base
<1>2. machine' \in Machines /\ restore' = restore /\ restore \in {"new", "done"} \cup Slots
  BY ForegroundIs DEF Base, Typed
<1>3. CASE Kept(rt)
  BY <1>2, <1>3, QuietKeepsBase DEF Kept, Base, Typed, store
<1> QED  BY <1>1, <1>2, <1>3, StartKeepsBase

LEMMA RestoreIs ==
  ASSUME Typed, restore = "new" => ~rt.destroyed, Restore
  PROVE  /\ Performs(rt, TRUE) /\ machine' = machine
         /\ restore' = rt'.inFlight /\ restore' \in Slots
         /\ UNCHANGED <<job, stored, world>>
<1>1. Performs(rt, TRUE) /\ machine' = machine /\ restore' = rt'.inFlight
  BY PerformIs DEF Restore
<1>2. rt'.inFlight \in Slots
  BY <1>1 DEF Restore, Performs, Kept, Started, Typed, Runtimes
<1> QED  BY <1>1, <1>2 DEF Restore

\* A good sign-in: the first unused login becomes u's.
Signed(u, l, pc) ==
    /\ l \in Logins /\ pc \in {"store", "failed", "mismatch"}
    /\ owner[l] = NoUser /\ owner' = [owner EXCEPT ![l] = u]
    /\ Write(pc, Token(l, 0)) /\ queue' = Append(queue, "job") /\ job' = Job(pc, Token(l, 0))
    /\ rt' = IF pc = "mismatch" THEN Cleared(rt) ELSE Accepted(rt, u)
    /\ IF pc = "mismatch" THEN rt.user # NoUser /\ rt.user # u ELSE rt.user \in {NoUser, u}

\* One whose token cannot be decoded.
Unsigned(u) ==
    /\ "undecodable" \in calls
    /\ \E l \in Logins : owner[l] = NoUser /\ owner' = [owner EXCEPT ![l] = u]
    /\ machine' = Reduce(machine, "SIGN_IN_FAILED", NoUser)
    /\ UNCHANGED <<rt, job, store>>

LEMMA SubmitIs ==
  ASSUME NEW u \in Users, Submit(u)
  PROVE  /\ Unsigned(u) \/ (UNCHANGED machine /\ \E l, pc : Signed(u, l, pc))
         /\ UNCHANGED <<flights, restore, calls, gen, reused>>
BY DEF Submit, Signed, Unsigned, Issue, IsMismatch

LEMMA DecodedSubmitIs ==
  ASSUME NEW u \in Users, Submit(u), "undecodable" \notin calls
  PROVE  (\E l, pc : Signed(u, l, pc)) /\ UNCHANGED <<flights, restore, machine, calls, gen, reused>>
BY SubmitIs DEF Unsigned

LEMMA UnsignedKeepsBase ==
  ASSUME Base, NEW u \in Users, Unsigned(u), UNCHANGED <<flights, restore, calls, gen, reused>>
  PROVE  Base'
<1> USE DEF Base
<1>1. PICK l \in Logins : owner[l] = NoUser /\ owner' = [owner EXCEPT ![l] = u]
  BY DEF Unsigned
<1>2. machine' \in Machines
  BY ReduceTyped DEF Unsigned, Typed, Dispatched
<1>3. "undecodable" \in calls /\ UNCHANGED <<rt, job, stored, queue>>
  BY DEF Unsigned, store
<1>4. Typed'
  BY <1>1, <1>2, <1>3 DEF Typed
<1>5. u # NoUser
  BY SettingsAssumption
<1>6. Ownership'
  BY <1>1, <1>3, <1>5, TokensAre DEF Ownership, Owned, Typed, FlightRecords, Jobs
<1>7. Labelled' /\ StoredIsOwn'
  BY <1>3 DEF Labelled, InQueue, StoredIsOwn
<1> QED  BY <1>4, <1>6, <1>7

LEMMA SubmitKeepsBase ==
  ASSUME Base, NEW u \in Users, Submit(u)
  PROVE  Base'
<1> USE DEF Base
<1> SUFFICES ASSUME NEW l, NEW pc, Signed(u, l, pc),
                    UNCHANGED <<flights, restore, machine, calls, gen, reused>>
             PROVE  Base'
  BY SubmitIs, UnsignedKeepsBase
<1>1. Signed(u, l, pc)
  OBVIOUS
<1>2. UNCHANGED <<flights, restore, machine, calls, gen, reused>>
  OBVIOUS
<1> DEFINE tok == Token(l, 0)
<1>3. tok \in Tokens /\ tok # NoToken /\ tok.login = l /\ tok.gen = 0 /\ gen[l] = 0
      /\ u # NoUser /\ l \in Logins
  BY <1>1, TokensAre, SettingsAssumption DEF Signed, Ownership
<1> HIDE DEF tok
<1>4. /\ pc \in {"store", "failed", "mismatch"}
      /\ rt' \in Runtimes /\ rt'.destroyed = rt.destroyed
      /\ rt'.user = IF pc = "mismatch" THEN NoUser ELSE u
  <2>1. rt \in Runtimes
    BY DEF Typed
  <2>2. /\ Cleared(rt) \in Runtimes /\ Cleared(rt).user = NoUser
        /\ Cleared(rt).destroyed = rt.destroyed
        /\ Accepted(rt, u) \in Runtimes /\ Accepted(rt, u).user = u
        /\ Accepted(rt, u).destroyed = rt.destroyed
    BY <2>1, ClearedIs, AcceptedIs
  <2> QED  BY <1>1, <2>2 DEF Signed
<1>5. /\ stored' \in {tok, NoToken, stored}
      /\ stored' = tok \/ (stored' = NoToken /\ rt'.user = NoUser) \/ "writeFails" \in calls
      /\ job' = Job(pc, tok)
      /\ owner' = [owner EXCEPT ![l] = u] /\ owner[l] = NoUser
  BY <1>1, <1>4 DEF Signed, Write, tok
<1>6. /\ queue' \in Seq(Slots \cup {"job"}) /\ \A y : InQueue(y) => InQueue(y)'
  BY <1>1, QueueGrows DEF Typed, Signed
<1>7. Typed'
  BY <1>2, <1>3, <1>4, <1>5, <1>6 DEF Typed, Job, Jobs
<1>8. Ownership'
  BY <1>2, <1>3, <1>5, TokensAre DEF Ownership, Owned, Typed, FlightRecords, Job, Jobs
<1>9. StoredIsOwn'
  BY <1>2, <1>3, <1>4, <1>5 DEF StoredIsOwn, IsCurrent, Typed
<1>10. Labelled'
  BY <1>2, <1>3, <1>4, <1>5, <1>6 DEF Labelled, Job, AwaitsStore
<1> QED  BY <1>7, <1>8, <1>9, <1>10

LEMMA SignOutKeepsBase ==
  ASSUME Base, SignOut
  PROVE  Base'
<1> USE DEF Base, world
<1>1. rt' \in Runtimes /\ rt'.destroyed = rt.destroyed /\ rt'.user = NoUser
  BY ClearedIs DEF SignOut, Typed
<1>2. /\ queue' \in Seq(Slots \cup {"job"}) /\ \A y : InQueue(y) => InQueue(y)'
  BY QueueGrows DEF Typed, SignOut, Issue
<1>3. /\ stored' = NoToken /\ job' \in Jobs /\ job'.pc = "clear" /\ job'.tok = NoToken
      /\ UNCHANGED <<flights, restore, machine, world>>
  BY DEF SignOut, Job, Jobs
<1>4. Typed'
  BY <1>1, <1>2, <1>3 DEF Typed
<1>5. Ownership' /\ Labelled' /\ StoredIsOwn'
  BY <1>1, <1>2, <1>3 DEF Ownership, Owned, Labelled, StoredIsOwn, AwaitsStore
<1> QED  BY <1>4, <1>5

LEMMA JobDoneKeepsBase ==
  ASSUME Base, JobDone
  PROVE  Base'
<1> USE DEF Base, world
<1>1. machine' \in Machines
  <2>1. /\ job.pc = "store" => owner[job.tok.login] \in Users \cup {NoUser}
    BY TokensAre DEF Labelled, Typed, Jobs
  <2>2. /\ job.pc = "store" => Reduce(machine, "SIGN_IN_SUCCESS", owner[job.tok.login]) \in Machines
        /\ Reduce(machine, "SIGN_OUT", NoUser) \in Machines
        /\ Reduce(machine, "REFRESH_REVOKED", NoUser) \in Machines
    BY <2>1, ReduceTyped DEF Dispatched, Typed
  <2> QED  BY <2>2 DEF JobDone, Typed
<1>2. /\ queue' \in Seq(Slots \cup {"job"}) /\ \A s \in Slots : InQueue(s) => InQueue(s)'
  BY QueueShrinks, SettingsAssumption DEF Typed, JobDone
<1>3. /\ job' \in Jobs /\ job'.pc = "idle" /\ job'.tok = NoToken
      /\ UNCHANGED <<rt, flights, restore, stored, world>>
  BY DEF JobDone, NoJob, Job, Jobs
<1>4. Typed'
  BY <1>1, <1>2, <1>3 DEF Typed
<1>5. Ownership' /\ Labelled' /\ StoredIsOwn'
  BY <1>2, <1>3 DEF Ownership, Owned, Labelled, StoredIsOwn, AwaitsStore, IsCurrent
<1> QED  BY <1>4, <1>5

LEMMA InitBase == Init => Base
<1> SUFFICES ASSUME Init PROVE Base
  OBVIOUS
<1> USE SettingsAssumption
<1>1. PICK u \in Users, known \in BOOLEAN :
        /\ owner = [l \in Logins |-> IF l = 1 /\ known THEN u ELSE NoUser]
        /\ stored = IF known THEN Token(1, 0) ELSE NoToken
  BY DEF Init
<1>2. 1 \in Logins /\ 0 \in 0..MaxGen /\ NoToken \notin Tokens /\ u # NoUser
      /\ Token(1, 0) \in Tokens /\ Token(1, 0).login = 1 /\ Token(1, 0).gen = 0
  BY TokensAre DEF Logins
<1>3. rt \in Runtimes /\ rt.user = NoUser /\ ~rt.destroyed
  BY NoAttempts DEF Init, Runtimes
<1>4. /\ flights \in [Slots -> FlightRecords]
      /\ \A s \in Slots : flights[s].pc = "idle" /\ flights[s].tok = NoToken
  BY FlightIs DEF Init
<1>5. /\ job \in Jobs /\ job.pc = "idle" /\ job.tok = NoToken /\ machine \in Machines
      /\ restore = "new" /\ calls \in Scenarios /\ reused \in BOOLEAN
  BY DEF Init, NoJob, Job, Jobs, InitialSnapshot, Snapshot, Machines, MachineStates
<1>6. /\ owner \in [Logins -> Users \cup {NoUser}] /\ gen \in [Logins -> 0..MaxGen]
      /\ stored \in Tokens \cup {NoToken} /\ \A l \in Logins : gen[l] = 0
      /\ stored # NoToken => stored.login = 1 /\ stored.gen = 0 /\ owner[1] # NoUser
  BY <1>1, <1>2 DEF Init
<1>7. Typed
  <2>1. queue \in Seq(Slots \cup {"job"})
    BY DEF Init
  <2> QED  BY <2>1, <1>3, <1>4, <1>5, <1>6 DEF Typed
<1>8. Ownership /\ Labelled /\ StoredIsOwn
  BY <1>2, <1>3, <1>4, <1>5, <1>6 DEF Ownership, Owned, Labelled, StoredIsOwn, IsCurrent, AwaitsStore
<1> QED  BY <1>7, <1>8 DEF Base

LEMMA NextKeepsBase == Base /\ [Next]_vars => Base'
<1> SUFFICES ASSUME Base, [Next]_vars PROVE Base'
  OBVIOUS
<1>1. rt \in Runtimes /\ machine \in Machines /\ restore \in {"new", "done"} \cup Slots
  BY DEF Base, Typed
<1>2. /\ Reduce(machine, "BACK_ONLINE", NoUser) \in Machines
      /\ Reduce(machine, "OFFLINE_STALE", NoUser) \in Machines
      /\ Reduce(machine, "SIGN_IN_FAILED", NoUser) \in Machines
  BY MachinesAre DEF Base, Dispatched
<1>3. ASSUME NEW s \in Slots, FlightStep(s) PROVE Base'
  BY <1>3, FlightStepKeepsBase
<1>4. CASE Restore
  <2>1. Performs(rt, TRUE) /\ machine' = machine /\ restore' \in Slots
        /\ UNCHANGED <<job, stored, world>>
    BY <1>4, RestoreIs DEF Base, Labelled
  <2>2. restore' = "new" => restore = "new"
    BY <2>1, SettingsAssumption
  <2> QED  BY <1>1, <2>1, <2>2, StartKeepsBase
<1>5. CASE GetToken
  <2>1. Performs(rt, FALSE) /\ machine' = machine /\ UNCHANGED <<job, restore, stored, world>>
    BY <1>5, PerformIs DEF GetToken
  <2> QED  BY <1>1, <2>1, StartKeepsBase
<1>6. CASE Foreground
  BY <1>1, <1>6, ForegroundKeepsBase DEF Foreground
<1>7. CASE Connectivity
  <2>1. CASE RefreshOnForeground(Reduce(machine, "BACK_ONLINE", NoUser))
    BY <1>2, <1>7, <2>1, ForegroundKeepsBase DEF Connectivity
  <2>2. CASE machine' = Reduce(machine, "OFFLINE_STALE", NoUser) /\ UNCHANGED <<rt, flights, queue>>
    BY <1>1, <1>2, <1>7, <2>2, QuietKeepsBase DEF Connectivity, store
  <2> QED  BY <1>7, <2>1, <2>2 DEF Connectivity
<1>8. CASE RetryTimer
  <2> DEFINE r == [rt EXCEPT !.timer = FALSE]
  <2>1. Performs(r, rt.restorePending) /\ machine' = machine /\ UNCHANGED <<job, restore, stored, world>>
    BY <1>8, PerformIs DEF RetryTimer
  <2>2. rt.restorePending \in BOOLEAN
    BY <1>1 DEF Runtimes
  <2> QED  BY <1>1, <2>1, <2>2, StartKeepsBase
<1>9. CASE Expire
  <2>1. rt' \in Runtimes /\ rt'.user = rt.user /\ rt'.destroyed = rt.destroyed
    BY <1>1, <1>9 DEF Expire, Runtimes
  <2> QED  BY <1>1, <1>9, <2>1, QuietKeepsBase DEF Expire
<1>10. CASE Unmount
  <2>1. rt' \in Runtimes /\ rt'.user = rt.user /\ restore # "new"
    BY <1>1, <1>10 DEF Unmount, Runtimes
  <2> QED  BY <1>1, <1>10, <2>1, QuietKeepsBase DEF Unmount
<1>11. CASE SubmitRefused
  BY <1>1, <1>2, <1>11, QuietKeepsBase DEF SubmitRefused
<1>12. ASSUME NEW u \in Users, Submit(u) PROVE Base'
  BY <1>12, SubmitKeepsBase
<1>13. CASE SignOut \/ JobDone
  BY <1>13, SignOutKeepsBase, JobDoneKeepsBase
<1>14. CASE UNCHANGED vars
  BY <1>1, <1>14, QuietKeepsBase DEF vars, store, world
<1> QED
  BY <1>3, <1>4, <1>5, <1>6, <1>7, <1>8, <1>9, <1>10, <1>11, <1>12, <1>13, <1>14 DEF Next

LEMMA BaseHolds == Spec => []Base
BY InitBase, NextKeepsBase, PTL DEF Spec

\* The state has its type.
THEOREM Typing == Spec => []TypeOK
<1>1. Base => TypeOK
  BY TypedIsTypeOK DEF Base
<1> QED  BY <1>1, BaseHolds, PTL

\* When everything is settled and the runtime has a user, the store holds a token of
\* that user which the server accepts, unless the store refuses writes or an answer cannot
\* be decoded.  Nothing else is excluded: sign-ins as another user, sign-outs and answers
\* that come after them, lost answers, cancelled prompts and unmounts are all covered.
THEOREM StoredTokenIsCurrent == Spec => []StoredIsCurrent
<1>1. Base => StoredIsCurrent
  BY DEF Base, StoredIsOwn, StoredIsCurrent
<1> QED  BY <1>1, BaseHolds, PTL

(***************************************************************************)
(* No rotated token is sent, as long as nobody signs out or switches user: *)
(* while a token is stored at most one flight is under way, and it reads,  *)
(* sends or stores a current token; while none is stored, what is under    *)
(* way only waits for an answer of the store.                              *)
(***************************************************************************)
Polite == calls \subseteq Usual \cup {"earlyGetToken", "unmount", "readFails", "dpop", "badNonce"}
Flying(s) == flights[s].pc # "idle"
OneUser ==
    /\ \A k, l \in Logins : owner[k] # NoUser /\ owner[l] # NoUser => owner[k] = owner[l]
    /\ rt.user # NoUser => \E l \in Logins : owner[l] = rt.user
Reads(s) ==
    /\ flights[s].pc \in {"read", "send", "store"} /\ flights[s].tok # NoToken
    /\ flights[s].pc = "read" => flights[s].tok = stored
    /\ flights[s].pc = "send" => IsCurrent(flights[s].tok)
    /\ rt.inFlight = s \/ rt.destroyed
    /\ \A q \in Slots : q # s => ~Flying(q)
Drains(s) == flights[s].pc = "clear" \/ (flights[s].pc = "read" /\ flights[s].tok = NoToken)
OneReader == \A s \in Slots : Flying(s) => IF stored # NoToken THEN Reads(s) ELSE Drains(s)
PoliteInv == OneUser /\ OneReader /\ ~reused

LEMMA PoliteIs ==
  ASSUME Polite
  PROVE  {"undecodable", "writeFails", "biometric", "signOut", "switch", "earlySubmit"} \cap calls = {}
BY DEF Polite, Usual

LEMMA StartKeepsPolite ==
  ASSUME Polite, Base, PoliteInv, NEW r \in {rt, [rt EXCEPT !.timer = FALSE]}, NEW restoring \in BOOLEAN,
         Performs(r, restoring), UNCHANGED <<stored, world>>
  PROVE  PoliteInv'
<1> USE DEF PoliteInv, world
<1>1. r \in Runtimes /\ r.user = rt.user /\ r.destroyed = rt.destroyed /\ r.inFlight = rt.inFlight
  BY DEF Base, Typed, Runtimes
<1>2. CASE Kept(r)
  BY <1>1, <1>2 DEF Kept, OneUser, OneReader, Reads, Drains, Flying, IsCurrent
<1>3. ASSUME NEW s \in Slots, Started(r, restoring, s) PROVE PoliteInv'
  <2>1. /\ rt'.user = rt.user /\ rt'.destroyed = rt.destroyed /\ rt'.inFlight = s
        /\ ~rt.destroyed /\ rt.inFlight = NoSlot /\ NoSlot \notin Slots
    BY <1>1, <1>3, SettingsAssumption DEF Started, Runtimes
  <2>2. flights' = [flights EXCEPT ![s] = Flight("read", restoring, stored, FALSE)]
    BY <1>3, PoliteIs DEF Started
  <2>3. /\ \A q \in Slots : q # s => flights'[q] = flights[q]
        /\ flights'[s].pc = "read" /\ flights'[s].tok = stored
    BY <2>2 DEF Base, Typed, Flight
  <2>4. OneUser'
    BY <2>1 DEF OneUser
  <2>5. CASE stored = NoToken
    BY <2>3, <2>4, <2>5 DEF OneReader, Drains, Flying
  <2>6. CASE stored # NoToken
    <3>1. \A q \in Slots : ~Flying(q)
      BY <2>1, <2>6 DEF OneReader, Reads
    <3> QED  BY <2>1, <2>3, <2>4, <2>6, <3>1 DEF OneReader, Reads, Flying
  <2> QED  BY <2>5, <2>6
<1> QED  BY <1>2, <1>3 DEF Performs

\* A step that leaves the flights alone, or ends one.
LEMMA EndKeepsPolite ==
  ASSUME Base, PoliteInv, rt'.user = rt.user,
         \/ flights' = flights /\ (rt'.inFlight = rt.inFlight \/ rt'.destroyed)
         \/ \E s \in Slots : Flying(s) /\ flights' = [flights EXCEPT ![s] = Idle],
         rt.destroyed => rt'.destroyed, UNCHANGED <<stored, world>>
  PROVE  PoliteInv'
<1> USE DEF PoliteInv, world
<1>1. OneUser'
  BY DEF OneUser
<1>2. CASE flights' = flights /\ (rt'.inFlight = rt.inFlight \/ rt'.destroyed)
  BY <1>1, <1>2 DEF OneReader, Reads, Drains, Flying, IsCurrent
<1>3. ASSUME NEW s \in Slots, Flying(s), flights' = [flights EXCEPT ![s] = Idle] PROVE OneReader'
  <2>1. ~Flying(s)' /\ \A q \in Slots : q # s => flights'[q] = flights[q]
    BY <1>3, FlightIs DEF Base, Typed, Flying
  <2>2. stored # NoToken => \A q \in Slots : q # s => ~Flying(q)
    BY <1>3 DEF OneReader, Reads
  <2> QED  BY <2>1, <2>2 DEF OneReader, Drains, Flying
<1> QED  BY <1>1, <1>2, <1>3

LEMMA ClearKeepsPolite ==
  ASSUME Base, PoliteInv, NEW s \in Slots, Flying(s), ClearIn(s), UNCHANGED <<calls, owner, reused>>
  PROVE  PoliteInv'
<1> USE DEF PoliteInv
<1>1. OneUser'
  BY ClearedIs DEF OneUser, ClearIn, Base, Typed
<1>2. /\ flights'[s].pc = "clear" /\ stored' = NoToken
      /\ \A q \in Slots : q # s => flights'[q] = flights[q]
  BY DEF Base, Typed, ClearIn, GoTo, FlightRecords
<1>3. stored # NoToken => \A q \in Slots : q # s => ~Flying(q)
  BY DEF OneReader, Reads
<1> QED  BY <1>1, <1>2, <1>3 DEF OneReader, Drains, Flying

LEMMA CompleteKeepsPolite ==
  ASSUME Polite, Base, PoliteInv, NEW s \in Slots, flights[s].pc = "send",
         NEW tok \in Tokens, owner[tok.login] # NoUser,
         NEW pc, Completed(s, tok, pc), UNCHANGED <<calls, owner, reused>>, Base'
  PROVE  PoliteInv'
<1> USE DEF PoliteInv
<1>1. tok.login \in Logins /\ tok # NoToken
  BY TokensAre
<1>2. pc = "store"
  <2>1. pc # "failed"
    BY PoliteIs DEF Completed, Write
  <2>2. rt.user # NoUser => rt.user = owner[tok.login]
    BY <1>1 DEF OneUser
  <2> QED  BY <2>1, <2>2 DEF Completed
<1>3. /\ flights'[s].pc = "store" /\ flights'[s].tok = tok /\ stored' = tok
      /\ \A q \in Slots : q # s => flights'[q] = flights[q]
      /\ rt'.inFlight = rt.inFlight /\ rt'.destroyed = rt.destroyed /\ rt'.user = owner[tok.login]
  BY <1>2 DEF Base, Typed, Completed, Flight, Write
<1>4. stored # NoToken /\ Reads(s)
  BY DEF OneReader, Drains, Flying
<1>5. OneUser'
  BY <1>1, <1>3 DEF OneUser
<1>6. OneReader'
  BY <1>1, <1>3, <1>4 DEF OneReader, Reads, Flying
<1> QED  BY <1>5, <1>6

LEMMA SubmitKeepsPolite ==
  ASSUME Polite, Base, PoliteInv, NEW u \in Users, Submit(u)
  PROVE  PoliteInv'
<1> USE DEF PoliteInv
<1>1. PICK l, pc : Signed(u, l, pc)
  BY PoliteIs, DecodedSubmitIs
<1>2. UNCHANGED <<flights, restore, machine, calls, gen, reused>>
  BY PoliteIs, DecodedSubmitIs
<1>3. /\ restore = "done" /\ queue = <<>> /\ job = NoJob
      /\ \A k \in Logins : owner[k] \in {NoUser, u}
  BY PoliteIs DEF Submit
<1>4. pc = "store" /\ u # NoUser /\ l \in Logins
  <2>1. pc # "failed"
    BY <1>1, PoliteIs DEF Signed, Write
  <2>2. rt.user \in {NoUser, u}
    BY <1>3 DEF OneUser
  <2> QED  BY <1>1, <2>1, <2>2, SettingsAssumption DEF Signed
<1>5. /\ stored' = Token(l, 0) /\ stored' # NoToken /\ owner' = [owner EXCEPT ![l] = u]
      /\ rt'.user = u /\ rt'.inFlight = rt.inFlight /\ rt'.destroyed = rt.destroyed
  BY <1>1, <1>4, AcceptedIs, TokensAre, SettingsAssumption DEF Signed, Write, Base, Typed
<1>6. OneUser'
  BY <1>3, <1>4, <1>5 DEF OneUser, Base, Typed
<1>7. \A s \in Slots : flights[s].pc \notin AwaitsStore
  <2>1. \A s : ~InQueue(s)
    BY <1>3 DEF InQueue
  <2> QED  BY <2>1 DEF Base, Labelled
<1>8. \A s \in Slots : Flying(s) => flights[s].pc = "send" /\ Reads(s)
  BY <1>7 DEF OneReader, Reads, Drains, AwaitsStore
<1>9. OneReader'
  BY <1>2, <1>5, <1>8 DEF OneReader, Reads, Flying, IsCurrent
<1> QED  BY <1>2, <1>6, <1>9

LEMMA FlightStepKeepsPolite ==
  ASSUME Polite, Base, PoliteInv, NEW s \in Slots, FlightStep(s), Base'
  PROVE  PoliteInv'
<1> USE DEF PoliteInv
<1>1. ASSUME NEW r \in Runtimes, NEW m, NEW success, End(s, r, m, success), Flying(s),
             r.user = rt.user, r.destroyed = rt.destroyed, UNCHANGED <<stored, world>>
      PROVE  PoliteInv'
  <2>1. /\ flights' = [flights EXCEPT ![s] = Idle]
        /\ rt'.user = rt.user /\ rt'.destroyed = rt.destroyed
    BY <1>1 DEF End, Runtimes
  <2> QED  BY <1>1, <2>1, EndKeepsPolite
<1>2. rt \in Runtimes /\ rt.destroyed \in BOOLEAN /\ flights \in [Slots -> FlightRecords]
  BY DEF Base, Typed, Runtimes
<1>3. flights[s].pc # "bio"
  BY DEF OneReader, Reads, Drains, Flying
<1>4. CASE BiometricGate(s)
  BY <1>3, <1>4 DEF BiometricGate
<1>5. CASE ReadToken(s)
  <2>1. CASE /\ flights[s].tok # NoToken /\ GoTo(s, "send")
             /\ UNCHANGED <<rt, job, restore, stored, machine, world>>
    <3>1. /\ flights'[s].pc = "send" /\ flights'[s].tok = flights[s].tok
          /\ \A q \in Slots : q # s => flights'[q] = flights[q]
      BY <1>2, <2>1 DEF GoTo, FlightRecords
    <3>2. stored # NoToken /\ Reads(s)
      BY <1>5, <2>1 DEF OneReader, Drains, Flying, ReadToken
    <3>3. IsCurrent(stored) /\ flights[s].tok = stored
      BY <1>5, <3>2, PoliteIs DEF Base, StoredIsOwn, Reads, ReadToken
    <3>4. OneUser'
      BY <2>1 DEF OneUser, world
    <3>5. OneReader'
      BY <2>1, <3>1, <3>2, <3>3 DEF OneReader, Reads, Flying, IsCurrent, world
    <3> QED  BY <2>1, <3>4, <3>5 DEF world
  <2>2. CASE End(s, rt, machine, FALSE) /\ UNCHANGED <<job, stored, world>>
    BY <1>1, <1>2, <1>5, <2>2 DEF ReadToken, Flying
  <2> QED  BY <1>5, <2>1, <2>2 DEF ReadToken
<1>6. CASE Answer(s)
  <2> DEFINE l == flights[s].tok.login
             Rotated == gen[l] < MaxGen /\ gen' = [gen EXCEPT ![l] = @ + 1]
             n == RetryState(rt, machine, flights[s].restoring)
  <2>1. Reads(s) /\ Flying(s) /\ stored # NoToken
    BY <1>6 DEF OneReader, Drains, Flying, Answer
  <2>2. l \in Logins /\ owner[l] # NoUser /\ IsCurrent(flights[s].tok)
    BY <1>2, <1>6, <2>1, TokensAre DEF Reads, Answer, FlightRecords, Base, Ownership, Owned
  <2>3. CASE /\ Rotated /\ CompleteRefresh(s, Token(l, gen[l] + 1))
             /\ UNCHANGED <<calls, owner, reused>>
    <3> DEFINE tok == Token(l, gen[l] + 1)
    <3>1. gen[l] + 1 \in 0..MaxGen
      BY <2>2, <2>3, SettingsAssumption DEF Base, Typed
    <3>2. tok \in Tokens /\ tok.login = l
      BY <2>2, <3>1, TokensAre
    <3> HIDE DEF l, tok
    <3>3. CompleteRefresh(s, tok)
      BY <2>3 DEF tok
    <3>4. PICK pc : Completed(s, tok, pc)
      BY <2>2, <3>2, <3>3, CompleteIs DEF Base
    <3> QED  BY <1>6, <2>2, <2>3, <3>2, <3>4, CompleteKeepsPolite DEF Answer
  <2>4. CASE ClearIn(s) /\ UNCHANGED <<calls, owner, reused>>
    BY <2>1, <2>4, ClearKeepsPolite
  <2>5. CASE End(s, n.rt, n.machine, FALSE) /\ UNCHANGED <<job, store, world>>
    <3>1. /\ n.rt \in Runtimes /\ n.rt.user = rt.user /\ n.rt.destroyed = rt.destroyed
      BY RetryIs DEF Base, Typed, FlightRecords
    <3> HIDE DEF n
    <3> QED  BY <1>1, <2>1, <2>5, <3>1 DEF store
  <2>6. ~UndecodedRefresh(s)
    BY PoliteIs DEF UndecodedRefresh
  <2> QED  BY <1>6, <2>2, <2>3, <2>4, <2>5, <2>6 DEF Answer
<1>7. CASE ProverUnavailable(s)
  BY <1>1, <1>2, <1>7 DEF ProverUnavailable, Flying, store
<1>8. CASE TokenStored(s)
  BY <1>1, <1>2, <1>8 DEF TokenStored, Flying
<1>9. CASE StoreFails(s)
  BY <1>9, PoliteIs DEF StoreFails, Base, Labelled
<1>10. CASE TokenRemoved(s)
  BY <1>1, <1>2, <1>10 DEF TokenRemoved, Flying
<1> QED  BY <1>4, <1>5, <1>6, <1>7, <1>8, <1>9, <1>10 DEF FlightStep

LEMMA InitPolite == Init => PoliteInv
<1> SUFFICES ASSUME Init PROVE PoliteInv
  OBVIOUS
<1>1. PICK u \in Users, known \in BOOLEAN :
        owner = [l \in Logins |-> IF l = 1 /\ known THEN u ELSE NoUser]
  BY DEF Init
<1>2. OneUser
  BY <1>1 DEF OneUser, Init
<1>3. OneReader /\ ~reused
  BY FlightIs DEF OneReader, Flying, Init
<1> QED  BY <1>2, <1>3 DEF PoliteInv

LEMMA NextKeepsPolite ==
  ASSUME Base, Polite => PoliteInv, [Next]_vars, Base'
  PROVE  (Polite => PoliteInv)'
<1>1. calls' = calls
  BY DEF Next, vars, FlightStep, BiometricGate, ReadToken, Answer, ProverUnavailable, TokenStored,
         StoreFails, TokenRemoved, Restore, GetToken, Foreground, Connectivity, RetryTimer,
         Expire, Submit, SubmitRefused, SignOut, JobDone, Unmount, world
<1> SUFFICES ASSUME Polite PROVE PoliteInv'
  BY <1>1 DEF Polite
<1>2. rt \in Runtimes /\ rt.restorePending \in BOOLEAN
  BY DEF Base, Typed, Runtimes
<1>3. ASSUME NEW s \in Slots, FlightStep(s) PROVE PoliteInv'
  BY <1>3, FlightStepKeepsPolite
<1>4. ASSUME NEW m, RefreshOnForeground(m), UNCHANGED <<stored, world>> PROVE PoliteInv'
  <2>1. Kept(rt) \/ \E restoring \in BOOLEAN : Performs(rt, restoring)
    BY <1>4, PerformIs DEF RefreshOnForeground, Kept
  <2> QED  BY <1>4, <2>1, StartKeepsPolite, EndKeepsPolite DEF Kept
<1>5. CASE Restore \/ GetToken
  <2>1. \E restoring \in BOOLEAN : Performs(rt, restoring)
    BY <1>5, PerformIs DEF Restore, GetToken
  <2> QED  BY <1>5, <2>1, StartKeepsPolite DEF Restore, GetToken
<1>6. CASE Foreground \/ Connectivity
  <2>1. CASE \E m : RefreshOnForeground(m)
    BY <1>4, <1>6, <2>1 DEF Foreground, Connectivity
  <2>2. CASE UNCHANGED <<rt, flights, queue>>
    BY <1>6, <2>2, EndKeepsPolite DEF Foreground, Connectivity
  <2> QED  BY <1>6, <2>1, <2>2 DEF Foreground, Connectivity
<1>7. CASE RetryTimer
  <2>1. Performs([rt EXCEPT !.timer = FALSE], rt.restorePending) /\ UNCHANGED <<stored, world>>
    BY <1>7, PerformIs DEF RetryTimer
  <2> QED  BY <1>2, <2>1, StartKeepsPolite
<1>8. CASE Expire \/ Unmount \/ SubmitRefused \/ JobDone \/ UNCHANGED vars
  <2>1. /\ rt'.user = rt.user /\ (rt'.inFlight = rt.inFlight \/ rt'.destroyed)
        /\ rt.destroyed => rt'.destroyed
    BY <1>2, <1>8 DEF Expire, Unmount, SubmitRefused, JobDone, vars, Runtimes
  <2>2. flights' = flights /\ UNCHANGED <<stored, world>>
    BY <1>8 DEF Expire, Unmount, SubmitRefused, JobDone, vars, store, world
  <2> QED  BY <2>1, <2>2, EndKeepsPolite
<1>9. ASSUME NEW u \in Users, Submit(u) PROVE PoliteInv'
  BY <1>9, SubmitKeepsPolite
<1>10. CASE SignOut
  BY <1>10, PoliteIs DEF SignOut
<1> QED  BY <1>3, <1>5, <1>6, <1>7, <1>8, <1>9, <1>10 DEF Next

\* As long as nobody signs out or switches user, the server never sees a rotated token,
\* whatever calls, timers, lost answers, unreadable stores and unmounts interleave.
THEOREM NoTokenIsReused == Spec => []NoReuse
<1>1. Init => (Polite => PoliteInv)
  BY InitPolite
<1>2. (Polite => PoliteInv) /\ Base /\ Base' /\ [Next]_vars => (Polite => PoliteInv)'
  BY NextKeepsPolite
<1>3. (Polite => PoliteInv) => NoReuse
  BY DEF Polite, PoliteInv, NoReuse
<1> QED  BY <1>1, <1>2, <1>3, BaseHolds, PTL DEF Spec

(***************************************************************************)
(* With the usual calls, a machine that counts as signed in has a user:    *)
(* whoever dispatches REFRESH_SUCCESS or REFRESH_NETWORK_ERROR, which keep *)
(* the machine's user, runs while there is one, since a stored token has a *)
(* user unless a restore or a sign-in has yet to report it.                *)
(***************************************************************************)
Simple == calls \subseteq Usual \cup {"unmount"}
HasUser == machine.user # NoUser
JobFirst == job # NoJob => job.pc = "store" /\ queue # <<>> /\ Head(queue) = "job"
BeforeRestore ==
    restore = "new" => /\ rt.inFlight = NoSlot /\ rt.user = NoUser
                       /\ ~rt.restorePending /\ ~rt.timer /\ \A s \in Slots : ~Flying(s)
Restoring(s) ==
    /\ restore = s => Flying(s) /\ flights[s].restoring
    /\ flights[s].restoring /\ flights[s].pc \in {"read", "send"} => restore = s \/ rt.restorePending
    /\ flights[s].pc = "store" =>
         rt.user # NoUser /\ (flights[s].restoring => restore = s \/ flights[s].resumed)
Settling(s) ==
    /\ flights[s].pc = "send" /\ ~flights[s].restoring /\ ~rt.restorePending => HasUser
    /\ flights[s].pc = "store" /\ ~flights[s].restoring /\ ~flights[s].resumed => HasUser
StoredHasUser ==
    stored # NoToken =>
      \/ restore # "done" \/ rt.restorePending \/ HasUser \/ job.pc = "store"
      \/ \E s \in Slots : flights[s].pc = "store" /\ flights[s].resumed
SimpleInv ==
    /\ IsSignedIn(machine) => HasUser
    /\ JobFirst /\ BeforeRestore /\ StoredHasUser
    /\ \A s \in Slots : Restoring(s) /\ Settling(s)

LEMMA SimpleIs ==
  ASSUME Simple
  PROVE  Polite /\ {"undecodable", "writeFails", "biometric", "signOut", "switch", "earlySubmit",
                    "readFails", "dpop", "badNonce", "earlyGetToken"} \cap calls = {}
BY DEF Simple, Polite, Usual

\* A dispatch that keeps the machine's user, and signs nobody in.
SameUser(m, n) == n.user = m.user /\ (IsSignedIn(n) => IsSignedIn(m))

LEMMA SameUserIs ==
  ASSUME NEW m \in Machines
  PROVE  /\ SameUser(m, m)
         /\ SameUser(m, Reduce(m, "REFRESH_START", NoUser))
         /\ SameUser(m, Reduce(m, "OFFLINE_STALE", NoUser))
         /\ SameUser(m, Reduce(m, "BACK_ONLINE", NoUser))
<1>1. ASSUME NEW st \in MachineStates, NEW n \in {[m EXCEPT !.state = st], m}, n # m => IsSignedIn(m)
      PROVE  SameUser(m, n)
  BY <1>1 DEF SameUser, Machines
<1>2. /\ Reduce(m, "REFRESH_START", NoUser) \in {[m EXCEPT !.state = "refreshing"], m}
      /\ Reduce(m, "REFRESH_START", NoUser) # m => m.state \in {"authenticated", "offline_stale"}
      /\ Reduce(m, "OFFLINE_STALE", NoUser) \in {[m EXCEPT !.state = "offline_stale"], m}
      /\ Reduce(m, "OFFLINE_STALE", NoUser) # m => m.state \in {"authenticated", "refreshing"}
      /\ Reduce(m, "BACK_ONLINE", NoUser) \in {[m EXCEPT !.state = "authenticated"], m}
      /\ Reduce(m, "BACK_ONLINE", NoUser) # m => m.state = "offline_stale"
  BY ReduceIs
<1>3. SameUser(m, m)
  BY DEF SameUser
<1>4. SameUser(m, Reduce(m, "REFRESH_START", NoUser))
  BY <1>1, <1>2 DEF IsSignedIn, MachineStates
<1>5. SameUser(m, Reduce(m, "OFFLINE_STALE", NoUser))
  BY <1>1, <1>2 DEF IsSignedIn, MachineStates
<1>6. SameUser(m, Reduce(m, "BACK_ONLINE", NoUser))
  BY <1>1, <1>2 DEF IsSignedIn, MachineStates
<1> QED  BY <1>3, <1>4, <1>5, <1>6

LEMMA QuietKeepsSimple ==
  ASSUME SimpleInv, SameUser(machine, machine'),
         rt'.user = rt.user, rt'.restorePending = rt.restorePending,
         restore = "new" => rt'.inFlight = rt.inFlight /\ rt'.timer = rt.timer,
         UNCHANGED <<flights, job, restore, store>>
  PROVE  SimpleInv'
BY DEF SimpleInv, SameUser, HasUser, JobFirst, BeforeRestore, StoredHasUser, Restoring, Settling,
       Flying, store

\* A flight starts: restore()'s own, one that a pending restore asked for, or a plain one.
LEMMA StartKeepsSimple ==
  ASSUME Simple, Base, SimpleInv, NEW r \in {rt, [rt EXCEPT !.timer = FALSE]}, NEW s \in Slots,
         NEW restoring \in BOOLEAN, Started(r, restoring, s), SameUser(machine, machine'),
         IF restore = "new" THEN restore' = s /\ restoring
                            ELSE restore' = restore /\ (restoring => rt.restorePending),
         UNCHANGED <<job, stored, world>>
  PROVE  SimpleInv'
<1> USE DEF SimpleInv
<1>1. /\ rt'.user = rt.user /\ rt'.restorePending = rt.restorePending
      /\ s # "new" /\ s # "done" /\ flights[s].pc = "idle"
  BY SettingsAssumption DEF Started, Base, Typed, Runtimes
<1>2. /\ flights'[s].pc = "read" /\ flights'[s].restoring = restoring
      /\ \A q \in Slots : q # s => flights'[q] = flights[q]
      /\ queue' = Append(queue, s)
  BY SimpleIs DEF Started, Base, Typed, Flight
<1>3. JobFirst'
  BY <1>2 DEF JobFirst, Base, Typed
<1>4. BeforeRestore' /\ ((IsSignedIn(machine) => HasUser)' )
  BY <1>1 DEF BeforeRestore, SameUser, HasUser
<1>5. StoredHasUser'
  BY <1>1, <1>2 DEF StoredHasUser, SameUser, HasUser
<1>6. ASSUME NEW q \in Slots PROVE Restoring(q)' /\ Settling(q)'
  <2>1. CASE q = s
    BY <1>1, <1>2, <2>1 DEF Restoring, Settling, Flying
  <2>2. CASE q # s
    <3>1. q # "new"
      BY SettingsAssumption
    <3> QED  BY <1>1, <1>2, <2>2, <3>1 DEF Restoring, Settling, Flying, SameUser, HasUser
  <2> QED  BY <2>1, <2>2
<1> QED  BY <1>3, <1>4, <1>5, <1>6

\* A flight that ends while others may only drain: what is to show is about the machine.
Alone(s) == \A q \in Slots : q # s /\ Flying(q) => flights[q].pc \in {"read", "clear"} /\ stored = NoToken

LEMMA AloneIs ==
  ASSUME Base, PoliteInv, NEW s \in Slots, Flying(s)
  PROVE  Alone(s)
BY DEF Alone, PoliteInv, OneReader, Reads, Drains

LEMMA EndKeepsSimple ==
  ASSUME Simple, Base, SimpleInv, NEW s \in Slots, Flying(s), Alone(s), NEW r \in Runtimes, Ended(s, r),
         r.user = rt.user, rt.restorePending => r.restorePending,
         IsSignedIn(machine') => machine'.user # NoUser,
         stored = NoToken \/ r.restorePending \/ machine'.user # NoUser,
         queue' = queue \/ Answered(s), UNCHANGED <<job, stored, world>>
  PROVE  SimpleInv'
<1> USE DEF SimpleInv
<1>1. /\ rt'.user = rt.user /\ (rt.restorePending => rt'.restorePending)
      /\ rt'.restorePending = r.restorePending
  BY DEF Ended, Runtimes
<1>2. /\ flights'[s].pc = "idle" /\ ~flights'[s].restoring
      /\ \A q \in Slots : q # s => flights'[q] = flights[q]
  BY DEF Ended, Base, Typed, Idle, Flight
<1>3. JobFirst'
  BY SettingsAssumption DEF JobFirst, Answered
<1>4. BeforeRestore'
  BY SettingsAssumption DEF BeforeRestore, Ended
<1>5. StoredHasUser'
  BY <1>1 DEF StoredHasUser, HasUser
<1>6. ASSUME NEW q \in Slots PROVE Restoring(q)' /\ Settling(q)'
  <2>1. CASE q = s
    BY <1>1, <1>2, <2>1, SettingsAssumption DEF Restoring, Settling, Flying, Ended
  <2>2. CASE q # s
    <3>1. q # "new" /\ q # "done" /\ flights'[q] = flights[q]
          /\ (restore' = q <=> restore = q)
      BY <1>2, <2>2, SettingsAssumption DEF Ended
    <3>2. flights[q].pc \notin {"send", "store"}
      BY <2>2 DEF Alone, Flying
    <3>3. Settling(q)'
      BY <3>1, <3>2 DEF Settling
    <3>4. Restoring(q)'
      BY <1>1, <3>1, <3>2 DEF Restoring, Flying
    <3> QED  BY <3>3, <3>4
  <2> QED  BY <2>1, <2>2
<1>7. (IsSignedIn(machine) => HasUser)'
  BY DEF HasUser
<1> QED  BY <1>3, <1>4, <1>5, <1>6, <1>7

\* The machine after the end of a flight, for each way it ends.
LEMMA EndMachine ==
  ASSUME NEW s, NEW r, NEW m, NEW success, End(s, r, m, success)
  PROVE  /\ restore # s => machine' = m
         /\ restore = s /\ success /\ r.user # NoUser =>
              machine' = Snapshot("authenticated", r.user, r.user)
         /\ restore = s /\ ~(success /\ r.user # NoUser) => machine' = InitialSnapshot
         /\ Ended(s, r)
<1>1. Reduce(m, "RESTORE_SUCCESS", r.user) = Snapshot("authenticated", r.user, r.user)
  BY DEF Reduce
<1>2. Reduce(m, "RESTORE_FAILED", NoUser) = InitialSnapshot
  BY DEF Reduce
<1> QED  BY <1>1, <1>2 DEF End, Ended

LEMMA SnapshotsAre ==
  /\ ~IsSignedIn(InitialSnapshot)
  /\ \A u : Snapshot("authenticated", u, u).user = u
BY DEF IsSignedIn, InitialSnapshot, Snapshot

LEMMA ClearKeepsSimple ==
  ASSUME Simple, Base, SimpleInv, NEW s \in Slots, flights[s].pc = "send",
         \A q \in Slots : q # s => ~Flying(q), ClearIn(s)
  PROVE  SimpleInv'
<1> USE DEF SimpleInv
<1>1. /\ rt'.user = NoUser /\ rt'.restorePending = FALSE /\ rt'.inFlight = NoSlot
      /\ stored' = NoToken /\ queue' = Append(queue, s) /\ UNCHANGED <<job, restore, machine>>
  BY ClearedIs DEF ClearIn, Base, Typed, Issue
<1>2. /\ flights'[s].pc = "clear" /\ flights'[s].restoring = flights[s].restoring
      /\ \A q \in Slots : q # s => flights'[q] = flights[q]
  BY DEF Base, Typed, ClearIn, GoTo, FlightRecords
<1>3. restore # "new"
  BY DEF BeforeRestore, Flying
<1>4. JobFirst'
  BY <1>1 DEF JobFirst, Base, Typed
<1>5. BeforeRestore' /\ StoredHasUser' /\ (IsSignedIn(machine) => HasUser)'
  BY <1>1, <1>3 DEF BeforeRestore, StoredHasUser, HasUser
<1>6. ASSUME NEW q \in Slots PROVE Restoring(q)' /\ Settling(q)'
  BY <1>1, <1>2 DEF Restoring, Settling, Flying
<1> QED  BY <1>4, <1>5, <1>6

LEMMA CompleteKeepsSimple ==
  ASSUME Simple, Base, SimpleInv, NEW s \in Slots, flights[s].pc = "send",
         \A q \in Slots : q # s => ~Flying(q), NEW tok \in Tokens, owner[tok.login] # NoUser,
         Completed(s, tok, "store")
  PROVE  SimpleInv'
<1> USE DEF SimpleInv
<1>1. /\ rt'.user = owner[tok.login] /\ rt'.restorePending = FALSE /\ rt'.inFlight = rt.inFlight
      /\ queue' = Append(queue, s) /\ UNCHANGED <<job, restore, machine>>
  BY DEF Completed
<1>2. /\ flights'[s].pc = "store" /\ flights'[s].restoring = flights[s].restoring
      /\ flights'[s].resumed = rt.restorePending
      /\ \A q \in Slots : q # s => flights'[q] = flights[q]
  BY DEF Base, Typed, Completed, Flight
<1>3. restore # "new"
  BY DEF BeforeRestore, Flying
<1>4. JobFirst'
  BY <1>1 DEF JobFirst, Base, Typed
<1>5. BeforeRestore' /\ (IsSignedIn(machine) => HasUser)'
  BY <1>1, <1>3 DEF BeforeRestore, HasUser
<1>6. Restoring(s)' /\ Settling(s)'
  BY <1>1, <1>2 DEF Restoring, Settling, Flying, HasUser
<1>7. ASSUME NEW q \in Slots, q # s PROVE Restoring(q)' /\ Settling(q)'
  BY <1>1, <1>2, <1>7 DEF Restoring, Settling, Flying
<1>8. StoredHasUser'
  <2>1. CASE rt.restorePending
    BY <1>2, <2>1 DEF StoredHasUser
  <2>2. CASE ~rt.restorePending
    <3>1. flights[s].restoring => restore = s
      BY <2>2 DEF Restoring
    <3>2. ~flights[s].restoring => HasUser
      BY <2>2 DEF Settling
    <3> QED  BY <1>1, <3>1, <3>2, SettingsAssumption DEF StoredHasUser, HasUser
  <2> QED  BY <2>1, <2>2
<1> QED  BY <1>4, <1>5, <1>6, <1>7, <1>8

LEMMA SubmitKeepsSimple ==
  ASSUME Simple, Base, PoliteInv, SimpleInv, NEW u \in Users, Submit(u)
  PROVE  SimpleInv'
<1> USE DEF SimpleInv
<1>1. PICK l, pc : Signed(u, l, pc)
  BY SimpleIs, DecodedSubmitIs
<1>2. UNCHANGED <<flights, restore, machine, calls, gen, reused>>
  BY SimpleIs, DecodedSubmitIs
<1>3. /\ restore = "done" /\ queue = <<>>
      /\ \A k \in Logins : owner[k] \in {NoUser, u}
  BY SimpleIs DEF Submit
<1>4. pc = "store" /\ u # NoUser
  <2>1. pc # "failed"
    BY <1>1, SimpleIs DEF Signed, Write
  <2>2. rt.user \in {NoUser, u}
    BY <1>3 DEF PoliteInv, OneUser
  <2> QED  BY <1>1, <2>1, <2>2, SettingsAssumption DEF Signed
<1>5. /\ job'.pc = "store" /\ queue' = <<"job">>
      /\ rt'.user = u /\ rt'.restorePending = rt.restorePending
  BY <1>1, <1>3, <1>4, AcceptedIs DEF Signed, Job, Base, Typed
<1>6. JobFirst'
  BY <1>5 DEF JobFirst
<1>7. BeforeRestore' /\ StoredHasUser' /\ (IsSignedIn(machine) => HasUser)'
  BY <1>2, <1>3, <1>5 DEF BeforeRestore, StoredHasUser, HasUser
<1>8. ASSUME NEW q \in Slots PROVE Restoring(q)' /\ Settling(q)'
  BY <1>2, <1>4, <1>5 DEF Restoring, Settling, Flying, HasUser
<1> QED  BY <1>6, <1>7, <1>8

LEMMA JobDoneKeepsSimple ==
  ASSUME Simple, Base, SimpleInv, JobDone
  PROVE  SimpleInv'
<1> USE DEF SimpleInv
<1>1. job.pc = "store" /\ owner[job.tok.login] # NoUser
  BY DEF JobDone, JobFirst, Base, Labelled, Ownership, Owned
<1>2. machine' = Snapshot("authenticated", owner[job.tok.login], owner[job.tok.login])
  <2>1. Reduce(machine, "SIGN_IN_SUCCESS", owner[job.tok.login])
          = Snapshot("authenticated", owner[job.tok.login], owner[job.tok.login])
    BY DEF Reduce
  <2> QED  BY <1>1, <2>1 DEF JobDone
<1>3. HasUser'
  BY <1>1, <1>2, SnapshotsAre DEF HasUser
<1>4. job' = NoJob /\ UNCHANGED <<rt, flights, restore, stored, world>>
  BY DEF JobDone
<1>5. JobFirst' /\ BeforeRestore' /\ StoredHasUser'
  BY <1>3, <1>4 DEF JobFirst, BeforeRestore, StoredHasUser, Flying
<1>6. ASSUME NEW q \in Slots PROVE Restoring(q)' /\ Settling(q)'
  BY <1>3, <1>4 DEF Restoring, Settling, Flying
<1> QED  BY <1>3, <1>5, <1>6

LEMMA ReadTokenKeepsSimple ==
  ASSUME Simple, Base, PoliteInv, SimpleInv, NEW s \in Slots, ReadToken(s)
  PROVE  SimpleInv'
<1> USE DEF SimpleInv
<1>1. /\ flights[s].pc = "read" /\ Answered(s) /\ Flying(s) /\ Alone(s)
  BY AloneIs DEF ReadToken, Flying
<1>2. CASE /\ flights[s].tok # NoToken /\ GoTo(s, "send")
           /\ UNCHANGED <<rt, job, restore, stored, machine, world>>
  <2>1. /\ flights'[s].pc = "send" /\ flights'[s].restoring = flights[s].restoring
        /\ \A q \in Slots : q # s => flights'[q] = flights[q]
    BY <1>2 DEF GoTo, Base, Typed, FlightRecords
  <2>2. stored # NoToken /\ \A q \in Slots : q # s => ~Flying(q)
    BY <1>1, <1>2 DEF PoliteInv, OneReader, Drains, Alone
  <2>3. job = NoJob /\ restore # "new"
    BY <1>1, SettingsAssumption DEF JobFirst, Answered, BeforeRestore
  <2>4. restore \in Slots => restore = s
    BY <2>2 DEF Restoring
  <2>5. ~flights[s].restoring /\ ~rt.restorePending => HasUser
    <3>1. job.pc # "store"
      BY <2>3 DEF NoJob, Job
    <3>2. \A q \in Slots : flights[q].pc # "store"
      BY <1>1, <2>2 DEF Flying
    <3> QED  BY <2>2, <2>3, <2>4, <3>1, <3>2 DEF StoredHasUser, Restoring, Base, Typed
  <2>6. JobFirst' /\ BeforeRestore' /\ (IsSignedIn(machine) => HasUser)'
    BY <1>2, <2>3 DEF JobFirst, BeforeRestore, HasUser
  <2>7. StoredHasUser'
    <3>1. flights[s].restoring => restore # "done" \/ rt.restorePending
      BY <1>1, SettingsAssumption DEF Restoring
    <3> QED  BY <1>2, <2>5, <3>1 DEF StoredHasUser, HasUser
  <2>8. ASSUME NEW q \in Slots PROVE Restoring(q)' /\ Settling(q)'
    BY <1>1, <1>2, <2>1, <2>5 DEF Restoring, Settling, Flying, HasUser
  <2> QED  BY <2>6, <2>7, <2>8
<1>3. CASE /\ flights[s].tok = NoToken \/ "readFails" \in calls
           /\ End(s, rt, machine, FALSE) /\ UNCHANGED <<job, stored, world>>
  <2>1. stored = NoToken
    BY <1>1, <1>3, SimpleIs DEF PoliteInv, OneReader, Reads
  <2>2. Ended(s, rt) /\ (machine' = machine \/ machine' = InitialSnapshot)
    BY <1>3, EndMachine
  <2>3. IsSignedIn(machine') => machine'.user # NoUser
    BY <2>2, SnapshotsAre DEF HasUser
  <2>4. rt \in Runtimes
    BY DEF Base, Typed
  <2> QED  BY <1>1, <1>3, <2>1, <2>2, <2>3, <2>4, EndKeepsSimple
<1> QED  BY <1>2, <1>3 DEF ReadToken

LEMMA AnswerKeepsSimple ==
  ASSUME Simple, Base, PoliteInv, SimpleInv, NEW s \in Slots, Answer(s)
  PROVE  SimpleInv'
<1> DEFINE l == flights[s].tok.login
           n == RetryState(rt, machine, flights[s].restoring)
           p == rt.restorePending \/ flights[s].restoring
           e == Reduce(machine, "REFRESH_NETWORK_ERROR", NoUser)
<1>1. /\ flights[s].pc = "send" /\ Flying(s) /\ Alone(s) /\ stored # NoToken
      /\ \A q \in Slots : q # s => ~Flying(q)
  <2>1. flights[s].pc = "send" /\ Flying(s)
    BY DEF Answer, Flying
  <2>2. stored # NoToken
    BY <2>1 DEF PoliteInv, OneReader, Drains
  <2> QED  BY <2>1, <2>2, AloneIs DEF Alone
<1>2. l \in Logins /\ owner[l] # NoUser
  BY <1>1, TokensAre DEF FlightRecords, Base, Typed, Ownership, Owned, Labelled
<1>3. CASE /\ gen[l] < MaxGen /\ CompleteRefresh(s, Token(l, gen[l] + 1))
  <2> DEFINE tok == Token(l, gen[l] + 1)
  <2>1. gen[l] + 1 \in 0..MaxGen
    BY <1>2, <1>3, SettingsAssumption DEF Base, Typed
  <2>2. tok \in Tokens /\ tok.login = l
    BY <1>2, <2>1, TokensAre
  <2> HIDE DEF l, tok
  <2>3. CompleteRefresh(s, tok)
    BY <1>3 DEF tok
  <2>4. PICK pc : Completed(s, tok, pc)
    BY <1>2, <2>2, <2>3, CompleteIs DEF Base
  <2>5. pc = "store"
    <3>1. pc # "failed"
      BY <2>4, SimpleIs DEF Completed, Write
    <3>2. rt.user # NoUser => rt.user = owner[tok.login]
      BY <1>2, <2>2 DEF PoliteInv, OneUser
    <3> QED  BY <2>4, <3>1, <3>2 DEF Completed
  <2> QED  BY <1>1, <1>2, <2>2, <2>4, <2>5, CompleteKeepsSimple
<1>4. CASE ClearIn(s)
  BY <1>1, <1>4, ClearKeepsSimple
<1>5. CASE End(s, n.rt, n.machine, FALSE) /\ UNCHANGED <<job, store, world>>
  <2>1. /\ n.rt \in Runtimes /\ n.rt.user = rt.user /\ n.rt.restorePending = p
        /\ n.machine \in {IF p THEN machine ELSE e, IF p THEN machine ELSE Reduce(e, "OFFLINE_STALE", NoUser)}
    BY RetryIs DEF Base, Typed, FlightRecords
  <2> HIDE DEF n
  <2>2. /\ e.user = machine.user /\ Reduce(e, "OFFLINE_STALE", NoUser).user = machine.user
    <3>1. e = [machine EXCEPT !.state = "authenticated"]
      BY DEF Reduce
    <3>2. e \in Machines /\ e.user = machine.user
      BY <3>1 DEF Base, Typed, Machines, MachineStates
    <3> HIDE DEF e
    <3> QED  BY <3>2, SameUserIs DEF SameUser
  <2> HIDE DEF e
  <2>3. p \/ HasUser
    BY <1>1 DEF SimpleInv, Settling
  <2>4. n.machine = machine \/ (HasUser /\ n.machine.user = machine.user)
    BY <2>1, <2>2, <2>3
  <2>5. /\ Ended(s, n.rt) /\ (restore # s => machine' = n.machine)
        /\ (restore = s => machine' = InitialSnapshot)
    BY <1>5, EndMachine
  <2>6. IsSignedIn(machine') => machine'.user # NoUser
    BY <2>4, <2>5, SnapshotsAre DEF SimpleInv, HasUser
  <2>7. p \/ machine'.user # NoUser
    BY <2>3, <2>4, <2>5 DEF SimpleInv, Restoring, HasUser
  <2> HIDE DEF p
  <2> QED  BY <1>1, <1>5, <2>1, <2>5, <2>6, <2>7, EndKeepsSimple DEF p, store
<1>6. ~UndecodedRefresh(s)
  BY SimpleIs DEF UndecodedRefresh
<1> QED  BY <1>3, <1>4, <1>5, <1>6 DEF Answer

LEMMA TokenStoredKeepsSimple ==
  ASSUME Simple, Base, PoliteInv, SimpleInv, NEW s \in Slots, TokenStored(s)
  PROVE  SimpleInv'
<1> DEFINE f == flights[s]
           e == Reduce(machine, "REFRESH_SUCCESS", rt.user)
           m == IF f.restoring \/ f.resumed THEN machine ELSE e
           n == IF f.resumed /\ rt.user # NoUser THEN Reduce(m, "RESTORE_SUCCESS", rt.user) ELSE m
<1>1. /\ f.pc = "store" /\ Answered(s) /\ Flying(s) /\ Alone(s) /\ End(s, rt, n, TRUE)
      /\ UNCHANGED <<job, stored, world>>
  BY AloneIs DEF TokenStored, Flying
<1>2. rt.user # NoUser /\ (f.restoring => restore = s \/ f.resumed)
  BY <1>1 DEF SimpleInv, Restoring
<1>3. e.user = machine.user
  BY DEF Reduce, Base, Typed, Machines
<1>4. Reduce(m, "RESTORE_SUCCESS", rt.user) = Snapshot("authenticated", rt.user, rt.user)
  BY DEF Reduce
<1> HIDE DEF e
<1>5. restore # s => n.user # NoUser
  BY <1>1, <1>2, <1>3, <1>4, SnapshotsAre DEF SimpleInv, Settling, HasUser
<1> HIDE DEF n
<1>6. /\ Ended(s, rt) /\ (restore # s => machine' = n)
      /\ (restore = s => machine' = Snapshot("authenticated", rt.user, rt.user))
  BY <1>1, <1>2, EndMachine
<1>7. machine'.user # NoUser
  BY <1>2, <1>5, <1>6, SnapshotsAre
<1>8. rt \in Runtimes
  BY DEF Base, Typed
<1> QED  BY <1>1, <1>6, <1>7, <1>8, EndKeepsSimple

LEMMA TokenRemovedKeepsSimple ==
  ASSUME Simple, Base, PoliteInv, SimpleInv, NEW s \in Slots, TokenRemoved(s)
  PROVE  SimpleInv'
<1>1. Flying(s) /\ Alone(s) /\ flights[s].pc \in {"clear", "mismatch"} /\ Answered(s)
  BY AloneIs DEF TokenRemoved, Flying
<1>2. flights[s].pc = "clear" /\ stored = NoToken
  BY <1>1 DEF PoliteInv, OneReader, Reads, Drains
<1>3. Reduce(machine, "REFRESH_REVOKED", NoUser) = InitialSnapshot
  BY DEF Reduce
<1>4. End(s, rt, InitialSnapshot, FALSE) /\ UNCHANGED <<job, stored, world>>
  BY <1>2, <1>3 DEF TokenRemoved
<1>5. Ended(s, rt) /\ machine' = InitialSnapshot
  BY <1>4, EndMachine
<1>6. rt \in Runtimes
  BY DEF Base, Typed
<1> QED  BY <1>1, <1>2, <1>4, <1>5, <1>6, SnapshotsAre, EndKeepsSimple

LEMMA FlightStepKeepsSimple ==
  ASSUME Simple, Base, PoliteInv, SimpleInv, NEW s \in Slots, FlightStep(s)
  PROVE  SimpleInv'
<1>1. ~BiometricGate(s)
  BY DEF PoliteInv, OneReader, Reads, Drains, Flying, BiometricGate
<1>2. ~ProverUnavailable(s)
  BY SimpleIs DEF ProverUnavailable
<1>3. ~StoreFails(s)
  BY SimpleIs DEF StoreFails, Base, Labelled
<1> QED
  BY <1>1, <1>2, <1>3, ReadTokenKeepsSimple, AnswerKeepsSimple, TokenStoredKeepsSimple,
     TokenRemovedKeepsSimple DEF FlightStep

LEMMA InitSimple == Init => SimpleInv
<1> SUFFICES ASSUME Init PROVE SimpleInv
  OBVIOUS
<1>1. /\ ~IsSignedIn(machine) /\ JobFirst
  BY SnapshotsAre DEF Init, JobFirst
<1>2. BeforeRestore /\ StoredHasUser
  BY FlightIs DEF Init, BeforeRestore, Flying, StoredHasUser
<1>3. ASSUME NEW s \in Slots PROVE Restoring(s) /\ Settling(s)
  BY FlightIs, SettingsAssumption DEF Init, Restoring, Settling
<1> QED  BY <1>1, <1>2, <1>3 DEF SimpleInv

LEMMA NextKeepsSimple ==
  ASSUME Base, Polite => PoliteInv, Simple => SimpleInv, [Next]_vars
  PROVE  (Simple => SimpleInv)'
<1>1. calls' = calls
  BY DEF Next, vars, FlightStep, BiometricGate, ReadToken, Answer, ProverUnavailable, TokenStored,
         StoreFails, TokenRemoved, Restore, GetToken, Foreground, Connectivity, RetryTimer,
         Expire, Submit, SubmitRefused, SignOut, JobDone, Unmount, world
<1> SUFFICES ASSUME Simple PROVE SimpleInv'
  BY <1>1 DEF Simple
<1>2. PoliteInv /\ SimpleInv
  BY SimpleIs
<1>3. /\ rt \in Runtimes /\ machine \in Machines /\ rt.restorePending \in BOOLEAN
      /\ SameUser(machine, machine)
      /\ SameUser(machine, Reduce(machine, "OFFLINE_STALE", NoUser))
      /\ SameUser(machine, Reduce(machine, "BACK_ONLINE", NoUser))
      /\ Reduce(machine, "BACK_ONLINE", NoUser) \in Machines
  BY SameUserIs, ReduceTyped DEF Base, Typed, Runtimes, Dispatched
<1>4. ASSUME NEW s \in Slots, FlightStep(s) PROVE SimpleInv'
  BY <1>2, <1>4, FlightStepKeepsSimple
<1>5. ASSUME NEW r \in {rt, [rt EXCEPT !.timer = FALSE]}, NEW restoring \in BOOLEAN,
             Performs(r, restoring), SameUser(machine, machine'), UNCHANGED <<job, stored, world>>,
             IF restore = "new" THEN restore' = rt'.inFlight /\ restoring /\ ~rt.destroyed
                                ELSE restore' = restore /\ (restoring => rt.restorePending)
      PROVE  SimpleInv'
  <2>1. /\ r.user = rt.user /\ r.restorePending = rt.restorePending /\ r.inFlight = rt.inFlight
        /\ r.destroyed = rt.destroyed /\ r \in Runtimes
    BY <1>3 DEF Runtimes
  <2>2. CASE Kept(r) /\ (r.inFlight # NoSlot \/ r.destroyed)
    <3>1. restore # "new"
      BY <1>2, <1>5, <2>1, <2>2 DEF SimpleInv, BeforeRestore
    <3> QED  BY <1>2, <1>5, <2>1, <2>2, <3>1, QuietKeepsSimple DEF Kept, store
  <2>3. ASSUME NEW s \in Slots, Started(r, restoring, s) PROVE SimpleInv'
    <3>1. rt'.inFlight = s
      BY <2>1, <2>3 DEF Started, Runtimes
    <3> QED  BY <1>2, <1>5, <2>3, <3>1, StartKeepsSimple
  <2> QED  BY <1>5, <2>2, <2>3 DEF Performs
<1>6. ASSUME NEW m \in Machines, SameUser(machine, m), RefreshOnForeground(m),
             UNCHANGED <<job, restore, stored, world>>
      PROVE  SimpleInv'
  <2>1. SameUser(machine, Reduce(m, "REFRESH_START", NoUser))
    BY <1>6, SameUserIs DEF SameUser
  <2>2. CASE Kept(rt) /\ machine' = m
    BY <1>2, <1>6, <2>2, QuietKeepsSimple DEF Kept, store
  <2>3. CASE rt.restorePending /\ Performs(rt, TRUE) /\ machine' = m
    <3>1. restore # "new"
      BY <1>2, <2>3 DEF SimpleInv, BeforeRestore
    <3> QED  BY <1>5, <1>6, <2>3, <3>1
  <2>4. CASE /\ ~rt.restorePending /\ rt.user # NoUser
             /\ Performs(rt, FALSE) /\ machine' = Reduce(m, "REFRESH_START", NoUser)
    <3>1. restore # "new"
      BY <1>2, <2>4 DEF SimpleInv, BeforeRestore
    <3> QED  BY <1>5, <1>6, <2>1, <2>4, <3>1
  <2> QED  BY <1>6, <2>2, <2>3, <2>4, ForegroundIs DEF Base
<1>7. CASE Restore
  <2>1. /\ Performs(rt, TRUE) /\ machine' = machine /\ restore' = rt'.inFlight
        /\ restore = "new" /\ ~rt.destroyed /\ UNCHANGED <<job, stored, world>>
    BY <1>7, RestoreIs DEF Base, Labelled, Restore
  <2> QED  BY <1>3, <1>5, <2>1
<1>8. CASE GetToken
  <2>1. Performs(rt, FALSE) /\ machine' = machine /\ UNCHANGED <<job, restore, stored, world>>
    BY <1>8, PerformIs DEF GetToken
  <2>2. restore # "new"
    BY <1>8, SimpleIs DEF GetToken
  <2> QED  BY <1>3, <1>5, <2>1, <2>2
<1>9. CASE Foreground
  BY <1>3, <1>6, <1>9 DEF Foreground
<1>10. CASE Connectivity
  <2>1. CASE RefreshOnForeground(Reduce(machine, "BACK_ONLINE", NoUser))
    BY <1>3, <1>6, <1>10, <2>1 DEF Connectivity
  <2>2. CASE machine' = Reduce(machine, "OFFLINE_STALE", NoUser) /\ UNCHANGED <<rt, flights, queue>>
    BY <1>2, <1>3, <1>10, <2>2, QuietKeepsSimple DEF Connectivity, store
  <2> QED  BY <1>10, <2>1, <2>2 DEF Connectivity
<1>11. CASE RetryTimer
  <2>1. /\ Performs([rt EXCEPT !.timer = FALSE], rt.restorePending) /\ machine' = machine
        /\ UNCHANGED <<job, restore, stored, world>>
    BY <1>11, PerformIs DEF RetryTimer
  <2>2. restore # "new"
    BY <1>2, <1>11 DEF RetryTimer, SimpleInv, BeforeRestore
  <2> QED  BY <1>3, <1>5, <2>1, <2>2
<1>12. CASE Expire \/ Unmount \/ UNCHANGED vars
  <2>1. /\ rt'.user = rt.user /\ rt'.restorePending = rt.restorePending
        /\ restore = "new" => rt'.inFlight = rt.inFlight /\ rt'.timer = rt.timer
    BY <1>3, <1>12 DEF Expire, Unmount, vars, Runtimes
  <2>2. UNCHANGED <<flights, job, restore, store, machine>>
    BY <1>12 DEF Expire, Unmount, vars, store
  <2> QED  BY <1>2, <1>3, <2>1, <2>2, QuietKeepsSimple
<1>13. ASSUME NEW u \in Users, Submit(u) PROVE SimpleInv'
  BY <1>2, <1>13, SubmitKeepsSimple
<1>14. CASE JobDone
  BY <1>2, <1>14, JobDoneKeepsSimple
<1>15. CASE SubmitRefused \/ SignOut
  BY <1>15, SimpleIs DEF SubmitRefused, SignOut
<1> QED
  BY <1>4, <1>7, <1>8, <1>9, <1>10, <1>11, <1>12, <1>13, <1>14, <1>15 DEF Next

\* With the usual calls and an unmount, a settled machine that counts as signed in has a user.
THEOREM SignedInUsuallyHasUser == Spec => []UsuallyHasUser
<1>1. Init => (Polite => PoliteInv) /\ (Simple => SimpleInv)
  BY InitPolite, InitSimple
<1>2. /\ Polite => PoliteInv
      /\ Simple => SimpleInv
      /\ Base /\ Base' /\ [Next]_vars
      => (Polite => PoliteInv)' /\ (Simple => SimpleInv)'
  BY NextKeepsPolite, NextKeepsSimple
<1>3. (Simple => SimpleInv) => UsuallyHasUser
  BY DEF Simple, SimpleInv, HasUser, UsuallyHasUser, SignedInHasUser
<1> QED  BY <1>1, <1>2, <1>3, BaseHolds, PTL DEF Spec
=============================================================================
