------------------------------- MODULE CliLogin -------------------------------
(* The rakomi command line signs in and calls the API.  Commands are processes *)
(* of one machine that share two stored items: the install key (one slot for   *)
(* every client, install-key.ts) and the session (session.ts).  A sign-in goes *)
(* through the browser and a one-shot loopback listener (loopback-server.ts),  *)
(* a device code, or the CI runner's identity token (commands/login.ts).  The  *)
(* refresh of an expired session is CliRefresh; the device poll DevicePolling. *)
EXTENDS Integers

CONSTANTS
  Commands,      \* processes
  Kinds,         \* what they may run: see AllKinds
  MaxRuns,       \* bound on the commands started
  NoKey,         \* an empty key slot
  NoSession

AllKinds == {"login", "tenant-admin", "custom", "device", "ci", "call", "logout"}

Clients == {"cimd", "admin", "custom", "ci"}

CliLoginAssumption ==
  /\ Kinds \subseteq AllKinds /\ MaxRuns \in Nat
  /\ NoKey \notin [client : Clients, id : Nat, confirmed : BOOLEAN]
  /\ NoSession \notin [client : Clients, key : Nat]
ASSUME CliLoginAssumption

VARIABLES
  slot,        \* the KeyStore entry: the install key, or NoKey
  stored,      \* session.json or its keychain entry
  trusted,     \* per client, the id of the key the server bound first; 0 is none
  generated,   \* how many keys have been generated
  runs,        \* how many commands have been started
  command,     \* per process: [kind, at, key, token, found]; found: --ci found its key
  listener,    \* per process: [settled, waiting] of its loopback listener
  wrote        \* history, per process: what its command has stored

cliLoginVars == <<slot, stored, trusted, generated, runs, command, listener, wrote>>

Keys == [client : Clients, id : 1 .. MaxRuns, confirmed : BOOLEAN] \cup {NoKey}
Sessions == [client : Clients, key : 0 .. MaxRuns]    \* key 0: a Bearer session
Ended == {"idle", "done", "failed", "killed"}
LoopbackKinds == {"login", "tenant-admin", "custom"}

ClientOf(kind) ==
  IF kind = "login" THEN "cimd"
  ELSE IF kind = "tenant-admin" THEN "admin"
  ELSE IF kind = "ci" THEN "ci" ELSE "custom"

CliLoginTypeOK ==
  /\ slot \in Keys /\ stored \in Sessions \cup {NoSession}
  /\ trusted \in [Clients -> 0 .. MaxRuns] /\ generated \in 0 .. MaxRuns
  /\ runs \in 0 .. MaxRuns
  /\ \A c \in Commands :
       /\ command[c].kind \in Kinds \cup {"none"}
       /\ command[c].at \in Ended \cup {"platform", "prepare", "open", "callback", "exchange",
                                        "store", "kept", "bind", "request", "retried"}
       /\ command[c].key \in Keys /\ command[c].found \in BOOLEAN
       /\ command[c].token \in Sessions \cup {NoSession}
  /\ listener \in [Commands -> [settled : BOOLEAN, waiting : BOOLEAN]]
  /\ wrote \in [Commands -> SUBSET {"key", "session"}]

At(c, kinds, step) == command[c].kind \in kinds /\ command[c].at = step
Goto(c, step) == command' = [command EXCEPT ![c].at = step]
Closed == [settled |-> FALSE, waiting |-> FALSE]
KeyId(key) == IF key = NoKey THEN 0 ELSE key.id

-------------------------------------------------------------------------------
(* The two stored items *)

(* A write to either store may be refused (a full disk, a locked keychain): it *)
(* throws and the command fails; what was stored stays, or is torn, and the    *)
(* next read finds nothing.                                                    *)
KeyRefused == slot' \in {slot, NoKey}
SessionRefused == stored' \in {stored, NoSession}

(* getOrCreateInstallKey for the client: the slot's key if it is the client's, *)
(* else a fresh unconfirmed key that overwrites it.  The command goes on with  *)
(* it and with the session it has read, if any.                                *)
NewKey(client) == [client |-> client, id |-> generated + 1, confirmed |-> FALSE]
InSlot(client) == slot # NoKey /\ slot.client = client

GetOrCreate(c, client, session, step) ==
  \/ /\ InSlot(client)
     /\ command' = [command EXCEPT ![c].at = step, ![c].key = slot, ![c].token = session]
     /\ UNCHANGED <<slot, generated, wrote>>
  \/ /\ ~InSlot(client)
     /\ generated' = generated + 1
     /\ \/ /\ slot' = NewKey(client)
           /\ wrote' = [wrote EXCEPT ![c] = @ \cup {"key"}]
           /\ command' = [command EXCEPT ![c].at = step, ![c].key = NewKey(client),
                                        ![c].token = session]
        \/ Goto(c, "failed") /\ KeyRefused /\ UNCHANGED wrote

WriteSession(c, session) ==
  stored' = session /\ wrote' = [wrote EXCEPT ![c] = @ \cup {"session"}]

-------------------------------------------------------------------------------
(* Starting a command *)

Begin(c, kind) ==
  /\ command[c].at \in Ended /\ runs < MaxRuns
  /\ runs' = runs + 1
  /\ command' = [command EXCEPT ![c] =
       [kind |-> kind, key |-> NoKey, token |-> NoSession, found |-> FALSE,
        at |-> IF kind = "login" THEN "platform"
               ELSE IF kind = "device" THEN "exchange" ELSE "prepare"]]
  /\ listener' = [listener EXCEPT ![c] = Closed]
  /\ wrote' = [wrote EXCEPT ![c] = {}]
  /\ UNCHANGED <<slot, stored, trusted, generated>>

(* isCimdPlatformSupported: only a server that says so stops the login; no     *)
(* answer does not.                                                            *)
PlatformAnswered(c) ==
  /\ At(c, {"login"}, "platform")
  /\ \E step \in {"prepare", "failed"} : Goto(c, step)
  /\ UNCHANGED <<slot, stored, trusted, generated, runs, listener, wrote>>

(* A login through the browser: the install key, then the tenant, which may be *)
(* missing although the key has been stored; then the listener and the browser.*)
PrepareLogin(c) ==
  /\ At(c, LoopbackKinds, "prepare")
  /\ IF command[c].kind = "custom"
     THEN Goto(c, "open") /\ UNCHANGED <<slot, generated, wrote>>
     ELSE \E step \in {"open", "failed"} : GetOrCreate(c, ClientOf(command[c].kind), NoSession, step)
  /\ UNCHANGED <<stored, trusted, runs, listener>>

(* login --ci: the runner's identity token, then the stored key if there is    *)
(* one, else a key that is kept in memory until the exchange has succeeded.    *)
PrepareCiStoring(c) ==
  /\ At(c, {"ci"}, "prepare")
  /\ \/ Goto(c, "failed") /\ UNCHANGED <<slot, generated, wrote>>
     \/ GetOrCreate(c, "ci", NoSession, "exchange")
  /\ UNCHANGED <<stored, trusted, runs, listener>>

PrepareCi(c) ==
  /\ At(c, {"ci"}, "prepare")
  /\ \/ Goto(c, "failed") /\ UNCHANGED generated
     \/ /\ command' = [command EXCEPT ![c].at = "exchange", ![c].found = InSlot("ci"),
                        ![c].key = IF InSlot("ci") THEN slot ELSE NewKey("ci")]
        /\ generated' = IF InSlot("ci") THEN generated ELSE generated + 1
  /\ UNCHANGED <<slot, stored, trusted, runs, listener, wrote>>

-------------------------------------------------------------------------------
(* The browser and the loopback listener *)

(* The opener's process exits, and only now the command waits for the callback.*)
Opened(c) ==
  /\ command[c].at = "open"
  /\ Goto(c, "callback")
  /\ listener' = [listener EXCEPT ![c].waiting = TRUE]
  /\ UNCHANGED <<slot, stored, trusted, generated, runs, wrote>>

(* The first /callback request, of this sign-in or of a stale tab, with a code *)
(* or an error, settles the listener; a waiting command takes what it brought. *)
(* A state that is not its own ends the login.                                 *)
CallbackForgets(c) ==
  /\ command[c].at \in {"open", "callback"} /\ ~listener[c].settled
  /\ listener' = [listener EXCEPT ![c].settled = TRUE]
  /\ \/ UNCHANGED command
     \/ listener[c].waiting /\ Goto(c, "exchange")
  /\ UNCHANGED <<slot, stored, trusted, generated, runs, wrote>>

Callback(c) ==
  /\ command[c].at \in {"open", "callback"} /\ ~listener[c].settled
  /\ listener' = [listener EXCEPT ![c].settled = TRUE]
  /\ \/ ~listener[c].waiting /\ UNCHANGED command
     \/ listener[c].waiting /\ (Goto(c, "failed") \/ Goto(c, "exchange"))
  /\ UNCHANGED <<slot, stored, trusted, generated, runs, wrote>>

CallbackTimeout(c) ==
  /\ command[c].at = "callback" /\ ~listener[c].settled
  /\ listener' = [listener EXCEPT ![c].settled = TRUE]
  /\ Goto(c, "failed")
  /\ UNCHANGED <<slot, stored, trusted, generated, runs, wrote>>

-------------------------------------------------------------------------------
(* Tokens *)

(* The token request, with one answer to a nonce challenge at most (http.ts),  *)
(* fails or yields a token.  A proof of the key may bind it (always in CI); a  *)
(* confirmed key also signs a client assertion, which the server refuses when  *)
(* it trusts another key.                                                      *)
ExchangeAnswered(c) ==
  LET kind == command[c].kind   key == command[c].key
  IN /\ command[c].at = "exchange"
     /\ \/ Goto(c, "failed")
        \/ /\ ~(key # NoKey /\ key.confirmed /\ trusted[key.client] # key.id)
           /\ \E bound \in {0, KeyId(key)} :
                /\ kind = "ci" => bound # 0
                /\ command' = [command EXCEPT ![c].at = "store",
                     ![c].token = [client |-> ClientOf(kind), key |-> bound]]
     /\ UNCHANGED <<slot, stored, trusted, generated, runs, listener, wrote>>

(* persistInstallKey after a CI exchange, unless the key was there before.     *)
PersistCiKey(c) ==
  /\ At(c, {"ci"}, "store")
  /\ \/ /\ command[c].found
        /\ Goto(c, "kept") /\ UNCHANGED <<slot, stored, wrote>>
     \/ /\ ~command[c].found
        /\ slot' = command[c].key /\ wrote' = [wrote EXCEPT ![c] = @ \cup {"key"}]
        /\ Goto(c, "kept") /\ UNCHANGED stored
     \/ ~command[c].found /\ Goto(c, "failed") /\ KeyRefused /\ UNCHANGED <<stored, wrote>>
  /\ UNCHANGED <<trusted, generated, runs, listener>>

StoreCiSession(c) ==
  /\ At(c, {"ci"}, "kept")
  /\ \/ WriteSession(c, command[c].token) /\ Goto(c, "done") /\ UNCHANGED slot
     \/ Goto(c, "failed") /\ SessionRefused /\ UNCHANGED <<slot, wrote>>
  /\ UNCHANGED <<trusted, generated, runs, listener>>

StoreSession(c) ==
  /\ At(c, LoopbackKinds \cup {"device"}, "store")
  /\ \/ /\ WriteSession(c, command[c].token)
        /\ Goto(c, IF command[c].kind = "tenant-admin" THEN "kept"
                   ELSE IF command[c].kind = "login" THEN "bind" ELSE "done")
        /\ UNCHANGED slot
     \/ Goto(c, "failed") /\ SessionRefused /\ UNCHANGED <<slot, wrote>>
  /\ UNCHANGED <<trusted, generated, runs, listener>>

(* A tenant-administration session that is not bound to the key is not kept;   *)
(* clear() ignores a file it cannot remove.                                    *)
KeepOrClear(c) ==
  /\ At(c, {"tenant-admin"}, "kept")
  /\ IF command[c].token.key = 0
     THEN stored' \in {NoSession, stored} /\ Goto(c, "failed")
     ELSE UNCHANGED stored /\ Goto(c, "done")
  /\ UNCHANGED <<slot, trusted, generated, runs, listener, wrote>>

(* bindInstallKey: the server trusts the first key it is shown; the answer,    *)
(* unless lost, goes into the slot with the key this command has read.         *)
BindAnsweredTrue(c) ==
  LET key == command[c].key
  IN /\ command[c].at = "bind"
     /\ trusted' = [trusted EXCEPT ![key.client] = IF @ = 0 THEN key.id ELSE @]
     /\ slot' = [key EXCEPT !.confirmed = TRUE]
     /\ Goto(c, "done")
     /\ UNCHANGED <<stored, generated, runs, listener, wrote>>

BindAnswered(c) ==
  LET key == command[c].key
  IN /\ command[c].at = "bind"
     /\ Goto(c, "done")
     /\ \/ UNCHANGED <<trusted, slot>>
        \/ /\ trusted' = [trusted EXCEPT ![key.client] = IF @ = 0 THEN key.id ELSE @]
           /\ \/ KeyRefused
              \/ LET bound == trusted'[key.client] = key.id
                 IN slot' = IF bound # key.confirmed
                            THEN [key EXCEPT !.confirmed = bound] ELSE slot
     /\ UNCHANGED <<stored, generated, runs, listener, wrote>>

-------------------------------------------------------------------------------
(* Authenticated calls and logout *)

(* whoami, use, tenants, connect, ...: the stored session and, for a DPoP      *)
(* session, resolveDpopKey.                                                    *)
PrepareCall(c) ==
  /\ At(c, {"call"}, "prepare")
  /\ \/ /\ stored = NoSession
        /\ Goto(c, "failed") /\ UNCHANGED <<slot, generated, wrote>>
     \/ /\ stored # NoSession /\ stored.key = 0
        /\ command' = [command EXCEPT ![c].at = "request", ![c].token = stored]
        /\ UNCHANGED <<slot, generated, wrote>>
     \/ /\ stored # NoSession /\ stored.key # 0
        /\ GetOrCreate(c, stored.client, stored, "request")
  /\ UNCHANGED <<stored, trusted, runs, listener>>

(* The API accepts a bound token only with a proof of its key.  A 401 is       *)
(* followed by one refresh of the stored session and one retry (request).      *)
CallAnswered(c) ==
  /\ command[c].kind = "call" /\ command[c].at \in {"request", "retried"}
  /\ \/ Goto(c, "failed")
     \/ command[c].token.key = KeyId(command[c].key) /\ Goto(c, "done")
     \/ /\ command[c].at = "request" /\ stored # NoSession /\ stored.client # "ci"
        /\ command' = [command EXCEPT ![c].at = "retried", ![c].token = stored]
  /\ UNCHANGED <<slot, stored, trusted, generated, runs, listener, wrote>>

Logout(c) ==
  /\ At(c, {"logout"}, "prepare")
  /\ stored' \in {NoSession, stored}
  /\ Goto(c, "done")
  /\ UNCHANGED <<slot, trusted, generated, runs, listener, wrote>>

(* The person interrupts the command, or the CI job is cancelled.              *)
Kill(c) ==
  /\ command[c].at \notin Ended
  /\ Goto(c, "killed")
  /\ UNCHANGED <<slot, stored, trusted, generated, runs, listener, wrote>>

-------------------------------------------------------------------------------
CliLoginInit ==
  /\ slot = NoKey /\ stored = NoSession
  /\ trusted = [client \in Clients |-> 0]
  /\ generated = 0 /\ runs = 0
  /\ command = [c \in Commands |-> [kind |-> "none", at |-> "idle", key |-> NoKey,
                                    token |-> NoSession, found |-> FALSE]]
  /\ listener = [c \in Commands |-> Closed]
  /\ wrote = [c \in Commands |-> {}]

Progress(c) ==
  \/ PlatformAnswered(c) \/ PrepareLogin(c) \/ PrepareCi(c) \/ PrepareCall(c)
  \/ CallbackTimeout(c) \/ ExchangeAnswered(c)
  \/ PersistCiKey(c) \/ StoreCiSession(c) \/ StoreSession(c) \/ KeepOrClear(c)
  \/ BindAnswered(c) \/ CallAnswered(c) \/ Logout(c)

CliLoginNext ==
  \E c \in Commands :
    \/ \E kind \in Kinds : Begin(c, kind)
    \/ Progress(c) \/ Opened(c) \/ Callback(c) \/ Kill(c)

(* A command's own steps come: every request has a time limit (http.ts) and so *)
(* has the wait for the callback.  The opener's process exits; the browser     *)
(* need not answer.                                                            *)
CliLoginFairness == \A c \in Commands : WF_cliLoginVars(Progress(c) \/ Opened(c))

CliLoginSpec == CliLoginInit /\ [][CliLoginNext]_cliLoginVars /\ CliLoginFairness

-------------------------------------------------------------------------------
(* "Nothing is written to the config dir on failure": a CI login that fails    *)
(* has not stored its session, and it has stored a key only when it had got    *)
(* its token and the session's write was refused (runLoginCi).                 *)
FailedCiLeavesNothing ==
  \A c \in Commands :
    At(c, {"ci"}, "failed") =>
      /\ "session" \notin wrote[c]
      /\ "key" \in wrote[c] => command[c].token # NoSession

(* A key marked confirmed is the one the server trusts, so a client assertion  *)
(* is never sent with a key the server would refuse (install-key.ts).          *)
ConfirmedIsTrusted == slot # NoKey /\ slot.confirmed => trusted[slot.client] = slot.id

(* A login that waits on a listener no callback has reached yet ends: with the *)
(* callback, or after LOOPBACK_TIMEOUT_MS.                                     *)
WaitingLoginEnds ==
  \A c \in Commands :
    (command[c].at = "callback" /\ ~listener[c].settled) ~> (command[c].at \in Ended)

===============================================================================
