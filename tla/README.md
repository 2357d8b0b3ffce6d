# Formal model of rakomi-js

TLA+ modules, TLC runs and TLAPS proofs for the JavaScript SDKs and tools in this
repository. Everything here is translated from the source under `packages/`;
paths below are relative to it.

## 1. The system

The repository holds clients of one authorization server, which is not part of
it. Their common difficulty is the **rotated refresh token**: it is valid once, the
server hands a lost rotation back only for some seconds, and a token presented
later "revokes every session of the user" (`sdk-core/src/oauth/refresh-retry.ts`).
Every client therefore has to get the same things right: never present a token
twice at the wrong time, never lose the newest one, never let two actors refresh
at once, and not take a transient failure for the end of a session.

| component | state | operations | interacts through | hard behaviour | correct when |
| --- | --- | --- | --- | --- | --- |
| token endpoint client and retry-once (`sdk-core/src/oauth/refresh-retry.ts`, `token-exchange.ts`, `errors.ts`) | first request's send time, retry counter | classify an answer, one immediate retry, backoff | called by the web, React Native and Node runtimes | lost, late and unreadable answers; deadline against the server's window | no reuse; a kept session is usable; a refresh settles |
| CLI refresh lock (`cli/src/refresh-lock.ts`) | a lock file, its content and mtime | create, take over, heartbeat, release | the file system, between processes | interleaved system calls, crashes | one process at a time; no lock held for ever |
| CLI session refresh (`cli/src/token-refresh.ts`, `session.ts`, `http.ts`) | stored session with its sent-marker | re-read, mark, send, unmark, persist | lock, session store, endpoint; `login` and `logout` beside it | crashes and failing stores between steps, stale reads | no reuse once the marker is written; the marker tells the truth; no older session over a newer one |
| web token manager (`react/src/token-manager.ts`, `tab-sync.ts`, `storage.ts`) | access token, snapshot, refresh in flight, timers; shared storage | setTokens, restore, refresh, clear, timers, tab messages | Web Lock, BroadcastChannel and storage between tabs | tabs and awaits interleave; sign-out during a refresh | one refresh at a time; a sign-out is final; restore loads |
| React Native runtime (`react-native/src/internal/token-runtime.ts`, `sdk-core/src/auth-machine.ts`) | auth state machine, tokens, nonces, retry timer | as above, plus biometrics, foreground and connectivity refresh, submit nonces | secure storage, AppState | awaits interleave with sign-out; restore that succeeds late | authenticated only with a user; nonce used once |
| DPoP refresh (`react-native/src/internal/dpop-refresh.ts`, `dpop-session.ts`) | key, nonce, bound flag | refresh with proof, nonce retry, downgrade | runtime | nonce challenge within retry-once | no bearer fallback for a bound session |
| DPoP sessions in Node (`sdk/src/dpop-session.ts`, `dpop.ts`, `oauth.ts`) | key, bound flag, one gate per refresh token | exchange, refresh, key rotation, downgrade | the application's callers, endpoint | overlapping refreshes and rotations, lost answers | a token is spent once; a rotation is whole |
| React provider (`react/src/context.tsx`, `oauth/pkce.ts`) | auth state; verifier and state in `sessionStorage` | redirect sign-in, callback, code exchange, restore | token manager, browser history | effects that run twice, reloads, two attempts | a code is exchanged once, with its own verifier; loading ends |
| web sign-in card (`react/src/components/sign-in`) | step, loading, wrong codes, timers | password, magic link, email code, second factor, new password | provider, other tabs | answers that arrive after a reset | a complete card has a session, or its sign-in made none; loading ends |
| native sign-in flows (`react-native/src/oauth/social-auth.ts`, `hooks/*`, `components/sign-in.tsx`) | stored verifier and states, nonces | social and direct sign-in, submission of tokens | system browser, runtime | overlapping flows, kills, old callbacks | a flow exchanges its own code; tokens come in under a fresh nonce |
| auth config (`react/src/oauth/auth-config.ts`) | cached config | load | components | – | last good config kept |
| passkey ceremonies (`sdk-core/src/passkeys`, `react/src/passkeys`, `react-native/src/internal/ceremony-lock.ts`, `hooks/use-passkeys.ts`) | calls, the sheet, the lock | register, sign in, step up, abort, unmount | platform authenticator | two ceremonies at once, sheets that outlive their call | a sheet belongs to the call that waits for it; every call ends |
| key-set caches (`sdk-core/src/jwks-cache.ts`, `sdk/src/jwks-cache.ts`) | keys, fetch in flight, cooldown | lookup, refetch | token verification | stampede, unknown key, stale on error | bounded refetches; a revocation is followed |
| discovery caches (`sdk-core/src/oauth/discovery.ts`, `sdk/src/internal/issuer-jwks.ts`) | metadata, fetch in flight | load | every client | failure of a shared fetch | failure not cached |
| device and CIBA polling (`sdk/src/device.ts`, `sdk/src/ciba.ts`, `cli/src/oauth-device.ts`) | interval, deadline, error run | poll, slow down, give up | endpoint | slow_down, transient runs, expiry | never faster than asked; ends in time |
| login and loopback server (`cli/src/commands/login.ts`, `loopback-server.ts`, `install-key.ts`) | install key, session, pending callback | browser, device and CI logins, logout, calls | browser, endpoint, key store | a late or foreign callback, commands at once, kills | a confirmed key is the trusted one; a failed CI login leaves no session, and a key only that its token is bound to |
| tenants, lease, connect (`cli/src/tenants-client.ts`, `lease-client.ts`, `commands/*`) | idempotency keys | create, lease, write config | API, config files | retry of a done call | done once |
| token verification (`sdk/src/verify-*.ts`, `resource-server.ts`) | the application's replay store | verify | key caches | concurrent requests, rotation of keys, order of the checks | a token with a failed check is refused; a proof counts once, given a replay store |
| Node OAuth, flags, link, authz (`sdk/src/*.ts`) | request options | requests | endpoint | retry-once on the server side | as for the endpoint client |
| create-rakomi-app, scripts, i18n, other UI components | files | scaffold, render | – | little | – |

The hazards each part is exposed to are listed, with their lines, in
`PROJECT.json`.

## 2. The modules

| module | models | state and actions against the code |
| --- | --- | --- |
| `TokenEndpoint` | how an answer is read | operators named after the functions of `refresh-retry.ts`; `RefreshResult` is `refreshAccessToken` |
| `RefreshExchange` | one runtime, the endpoint and a clock | `Send`, `AfterFirst`, `RetryNow`, `TooLateToRetry`, `AfterSecond` are the lines of `refreshWithOneImmediateRetry`; `Finish`, `KeepSession` and `EndSession` are what the runtimes do with the result (`doRefresh`, `scheduleRetry`, `clear`); `Serve` is the endpoint |
| `Mutex` | what the lock promises: exclusive until a process crashes, open to several contenders from then on | abstract; `RefreshLock` implements it and `CliRefresh` uses it |
| `RefreshLock` | the file lock | one action per system call; `path`, `written`, `aside` are the file system, `stale` its mtimes, `observed` the code's variable |
| `CliRefresh` | the CLI refresh, several processes | one action per store access or request; the lock is `Mutex`, with the weakness a crash brings |
| `WebTokenManager` | the web SDK in several tabs | one action between two awaits: `BeginSet`/`EndSet` are `setTokens`, `BeginClear`/`EndClear` are `clearInternal`, `ReadToken` to `HandleAnswer` are `doRefresh`; `act` holds what each activity of a tab carries over its await |
| `RedirectSignIn` | the web's redirect sign-in in one tab | `StartAttempt`, `KeepVerifier`, `LeaveForEndpoint` are `signIn` between its awaits; `MountEffect` and its cases are the provider's effect; the other actions are the browser and the authorization server |
| `SignInCard` | the web's `<SignIn/>` | `Done`, `Challenged`, `ResetCard`, `OnSession` are the reducer and the effect on the session; `SetTokens` and `SignInCompleted` are `completeSignIn` before and after its await; one action per form answer, timer and link |
| `AuthMachine` | the reducer of `sdk-core/src/auth-machine.ts` | `Reduce` is `reduce` without errors and challenges |
| `RnTokenRuntime` | the React Native runtime with its store and the server | a flight is one `doRefresh`, one action per await; `Restore`, `GetToken`, `Foreground`, `Connectivity`, `RetryTimer`, `Submit`, `SignOut`, `Unmount` are the provider's calls |
| `SubmitNonces` | the nonces under which tokens come in | `BeginAuthFlow`, `ConsumeNonce` and `GcExpired` are `beginAuthFlow`, `consumeNonce` and `gcExpiredNonces` |
| `SignInFlows` | React Native's social and direct flows, over `SubmitNonces` | one action per await of `startSocialSignIn` and the hooks; `pkceKey` and `stateKeys` are the device's storage |
| `Passkeys` | ceremonies of both packages | a call is one use of a hook's function; `step` is the await it is at; `sheet`, `lock` and `ticket` are what the calls share |
| `TokenVerification` | a resource server with `@rakomi/node` | `Arrive`, `SignatureChecked`, `ProofChecked` are the parts of a request between awaits; `cache`, `fetch`, `lastAttempt` are the fields of `JwksCache` |
| `DevicePolling` | the three polling loops | `NextRound`, `Wake`, `Receive` are a round of the loop; `poll.flow` says which loop, and where they differ |
| `CliLogin` | commands of one machine | `PrepareLogin` to `BindAnswered` are the stages of the three logins; `listener` is the loopback server; `slot` and `stored` are the two stored items |
| `NodeDpopSession` | one DPoP session, several callers | `CallSdk` is `withRefreshTokenGate`; `AnswerNonce`, `RetryRefresh`, `Succeed`, `Fail` are what follows an answer |
| `MCWebTokenManager` | the run `web_login` | adds the symmetry of the tabs (safety only: no action names a tab) |
| `MCWebParts`, `MCSdkParts`, `MCToolParts` | three runs | see "Parts" below |
| `*_proofs` | theorems | see section 5 |

**The endpoint** is not in the repository. It is modelled from what
`refresh-retry.ts` relies on: a refresh rotates the token; a rotation whose answer
was lost is handed back to an identical retry within a window; an older token is
a reuse, which revokes every session. It may also refuse at any time with any
status. A refresh token is the number of its rotation.

**Parts.** Components that share no state are checked in one run: the composite
module has a variable `part`, a behaviour runs one part, and the others stay in
their initial state. The states of the parts add up and do not multiply. A part
that stays still must not make the fairness of the whole unsatisfiable, so a
fairness condition whose action an idle part enables for ever names its part
(`MCWebParts`).

**`RefreshExchange`**. A request travels at most `Trip`, may be lost, and may be
handled by the server after the client gave it up. The runtime keeps or ends the
session by the class of the result. A new refresh starts only when requests that
were given up have arrived or are lost: the code leaves seconds between refreshes
and has no other protection there.

**`RefreshLock`**. A process is one call of `run()`. Its file and token are named by
the process, since each call makes one fresh nonce. `GoStale` is the passing of
`staleMs`; it is not enabled for a file whose process still runs, because of the
heartbeat. That is the code's own assumption: the event loop of a live holder
runs. A process that is suspended for longer than `staleMs` (30 seconds) and goes on
afterwards is not modelled. A crash leaves the file behind. It goes stale, and
contenders take it over with separate system calls, so that several may get in
together: the lock is exclusive only until the first crash, and `Mutex` promises no
more.

**`CliRefresh`**. A session's access and refresh token rotate together and are one
number; `login` tells sign-ins apart. `Faults` says what may go wrong in a run: a
crash between any two steps, a refused write, a write that leaves no readable
session (`writeFileSync` truncates first), a failing read, a missing DPoP key, an
answer lost after the rotation (also a 2xx that is not JSON, which `http.ts`
throws), a `login` or a `logout` beside the refresh. After a crash the lock lets
several processes in. The marker still protects the token as soon as it is written;
before that, two processes that both read the unmarked session may both send it.
`racing` is a history variable that records exactly this moment (two processes at
the write of the marker for one sign-in), and `NoReuse`, `UnmarkedIsCurrent` and
`NeverBack` have it as their only exception.

**`WebTokenManager`**. A tab runs several activities whose awaits interleave: refreshes
(a slot each, because a sign-out drops `refreshPromise` without stopping the
refresh), sign-in, sign-out, organization switch, a `SIGNED_OUT` message. `store` is
shared (localStorage) or per tab, and written at once (built-in adapters) or only
when the await ends (`Async`, a custom `TokenStorage`). A session is a sign-in and
the number of its rotations. The request with its immediate retry is one step with
the three results that `RefreshExchange` justifies. Timers are `Trigger`: a refresh may
start at any time.

**`RedirectSignIn`**. A verifier, a state, a code and an authorization request go by
the attempt they are of, so that "its own verifier" can be said. The page may be
loaded again at any time, by the user, the history or the server's redirect, and
React may run the mount effect twice (`Browsers.twice`); other tabs' sessions come
and go (`Browsers.shared`). A page opened with over-long parameters neither
exchanges nor restores, which `ProviderLoads` excepts (section 6).

**`SignInCard`**. The card has at most one form request and one magic-link
verification under way; both are answered after the card may have moved on. The
effect on the session is part of every step that changes the session, because React
runs it before the next event. A sign-in takes three steps: the answer, the tokens
that wait for the provider's storage (`Pending`), and the completed card. Between
them another tab may sign out or the card be reset. `ended` remembers how the
sign-in ended that last completed the card. `NoSession` lists the ends without a
session: a second factor still to be set up (`setup`), the provider had another user
and both are dropped (`other`), the token lacks the claims of a session
(`unclaimed`), or the token went while the storage had not answered (`signedOut`).
In each the code sets the card complete all the same.

**`RnTokenRuntime`**. Several flights may exist, since the `finally` of one clears
`refreshInFlight` for all. `calls` (one of `Scenarios`) says which calls happen in a
behaviour and which faults: reads or writes that fail, a biometric gate, a bound
session, a rejected nonce, tokens that cannot be decoded, a child that asks for a
token before the provider restores. `setTokens` returns without storing anything when
it cannot decode a token, and the refresh counts as done (`UndecodedRefresh`): the
spent token stays stored and the next refresh presents it. The secure store performs its operations in the order they are issued.

**`SignInFlows`**. All flows keep their verifier under one storage key and their state
under one of their own; `Apps` says which flows an app starts, whether one after
another, and whether it may be killed meanwhile. `SubmitNonces` has a clock, an
expiry and the eviction of the oldest nonce.

**`Passkeys`**. One sheet exists for the page or the device. `Platforms` says which
calls are made, whether a sheet can be cancelled and what the server answers. The
user and the authenticator answer when they like or never; the budget of a ceremony
ends it. On the device a sign-in reads the session back (`Confirm`). In the browser
`completeSignIn` returns without a word when the provider is gone, the live session
is another user's or the token lacks claims (`StoreInBrowser`, `StoredInBrowser`), and
the hook reports success; `SignInIsLive` is therefore about the device.

**`TokenVerification`**. A scenario fixes where the keys come from and what requests
carry. The issuer publishes a list of key documents (keys, revocation epoch,
maximal age) one after another. A flaw of a token or a proof stands for the check
that finds it; the order of the checks is the code's. A scenario also says whether the
application gives an `onJti` hook: without one (the middleware's default) a proof is
accepted as often as it comes. The issuer may publish an epoch that is ahead of the
server's clock; the code ignores such an epoch, and with it the older ones the new
document replaced (`EpochHasCome`).

**`DevicePolling`**. One interval, one clock, a server that decides, expires or never
answers, and a caller that may cancel. `asked` is a ghost: the interval the server has
asked for so far.

**`CliLogin`**. Several commands interleave between their awaits and store accesses
and may be killed at any of them. `trusted` is the key the server bound first for a
client. `wrote` is a ghost: what a command has stored. Writes of the key and of the
session may be refused, or leave nothing readable.

**`NodeDpopSession`**. The server spends a token once, hands a lost answer back to an
identical retry, and may switch DPoP off. `lost` is a ghost: some spend was never told to
the application. Three simplifications: the release of the gate and the application's
storing of the new token are one step; `cnf.jkt` is the key the server has bound
(what oauth.ts:391-399 does with a token it cannot decode is a rotation that did not
take); and a second nonce challenge on the retry ends the session, where the code
returns `auth/invalid_dpop_proof` and keeps it.

## 3. The runs

| run | shows | bounds |
| --- | --- | --- |
| `web_parts` | *refresh*: no reuse, a kept session is current, every refresh settles. *redirect*: a code is exchanged once and with its own verifier, the provider loads. *card*: a complete card has a session unless its sign-in made none, loading ends | the window covers deadline and trip; one status of each class; two rotations, six time units: enough for a retry, its window and one more refresh. Two attempts, two codes, four page loads: one attempt can overwrite the other, and each callback can be opened again. Three wrong codes, as in the code |
| `refresh_lock_implements` | the lock implements `Mutex`: exclusive until the first crash, and whoever ends is out | four processes, one crash anywhere |
| `refresh_lock_crash` | nobody waits for ever | three processes, one crash anywhere |
| `refresh_lock_contended` | *violated*: two contenders for a crashed process's lock run together | three processes, one crash |
| `cli_crash` | no reuse, the marker tells the truth, no older session is written over a newer one, each unless two processes were about to mark one session together, after a crash | three processes, crashes, refused writes, missing key, a second sign-in |
| `cli_faults` | every refresh ends | two processes, all faults |
| `web_login` | the Web Lock is held exactly inside a refresh; no reuse; a stored token is the accepted one; two users never mix | two tabs, a refresh each, synchronous shared storage, two sign-ins of two users; sign-outs by revocation or a mismatch |
| `web_load` | a tab leaves the loading state unless it is reloaded for ever | one tab, asynchronous storage, two refreshes under way, sign-out, switch, reload |
| `web_signout` | *violated*: a refresh in flight brings a session back after a sign-out | one tab, one sign-in |
| `sdk_parts` | *runtime*: no reuse, a signed-in machine has a user, the stored token is the accepted one of the runtime's user, `refreshing` ends. *passkeys*: a sheet is its call's own, none opens for a call that is over or was aborted, on the device a reported sign-in is the live session, calls end. *flows*: a flow exchanges its own code with its own verifier, a nonce is accepted once | two flights, two sign-ins, one rotation each, nine sets of calls and faults; two hooks with two calls on five platforms; two flows, two nonces of which one may be pending, so that the limit evicts |
| `tool_parts` | *verification*: unknown keys are throttled, a proof counts once where the application has a replay store, a revocation whose epoch has come is followed. *polling*: never faster than asked, polling ends. *cli*: a failed CI login leaves no session, and a key only after its token, a confirmed key is trusted, a waiting login ends. *node*: a token is spent once, a rotation is whole | three requests, three key documents, three scenarios; four polls that reach the deadline, the maximal interval, the transient limit and the iteration limit; two commands at once, three in all; two callers, three spends, three keys |
| `rn_restore` | *violated*: a child's early `getToken()` leaves the machine authenticated without a user | as `sdk_parts`, one set of calls |

Two actors are enough for most races here, since actors are alike and meet only in
what they share: a lock, a storage, a key slot, a sheet. Three are there where one
must come between two others (the lock's takeover, the CLI refresh).

`NoReuse` and `StoredIsCurrent` of `sdk_parts` are about the calls and faults their
definitions name. The model does reach a reuse on the device when the store refuses
a rotated token, when the answer that carries it cannot be decoded, and when a
sign-out or a biometric prompt meets a refresh that goes on, as nothing there keeps
the spent token from being read again.
`UsuallyHasUser` is `RestoredHasUser` for refreshes by callers, the foreground,
connectivity and the timer, sign-ins after the restore, and unmounts; sign-outs,
switches of the user and the faults are left out. `rn_restore` shows that it fails with
a call before the restore.

Some properties claim less than their subject suggests. `AcceptedOnce` counts the
uses of a nonce; that an expired nonce is refused, or the right one evicted, it does
not say. `NeverFasterThanAsked` bounds a wait from below only; that a loop stops at its
deadline is part of `PollingEnds`. `WaitingLoginEnds` says that a login ends, not whose
callback ended it.

The type invariants of the parts are checked in the composite runs (`WebTypeOK`,
`SdkTypeOK`, `ToolsTypeOK`); those of `RefreshLock`, `CliRefresh` and
`WebTokenManager` are proved (`Typing`), and no run repeats them.

Runs use `CHECK_DEADLOCK FALSE` where the system stops: all processes done, or
the bounds reached.

The three violated runs are disagreements between the code and its own comments;
`PROJECT.json` quotes them.

## 4. Fairness

Nothing is ever assumed of a user, of a server's decision or of an authenticator.

* `RefreshExchange`: weak fairness of `TransportFailure`. `fetch` has a timeout, so
  a request without an answer fails in the end.
* `RefreshLock`: weak fairness of a live process's next system call, of the end of
  its function (its HTTP request has a timeout) and of a file going stale.
* `CliRefresh`: weak fairness of a live process's steps, and of its request failing.
  Acquiring the lock needs only weak fairness, because a waiter that keeps finding it
  held times out or finds the finite number of other processes done.
* `WebTokenManager`: weak fairness of a tab's pending steps: promises settle, and a
  request is answered or times out. Waiting for the Web Lock ends because
  `acquireRefreshLock` gives up after five seconds.
* `RedirectSignIn`: React runs a mounted component's effect (`MountEffect`); the code
  exchange and the restore are answered or time out.
* `SignInCard`: a form's request is answered or times out and the storage answers
  (`FormAnswered`); the magic link's is answered or aborted after ten seconds.
* `RnTokenRuntime`: a flight's next step (`FlightStep`: the store, the key, the
  request's timeout), the store's answer to a sign-in or sign-out (`JobDone`), a
  timer that is set (`RetryTimer`).
* `Passkeys`: a call's requests are answered or fail (`CallStep`), and its budget
  ends (`TimeOut`).
* `DevicePolling`: time passes (`Tick`), an answer or a failure reaches the client
  (`Receive`), the loop goes on (`NextRound`, `Wake`). That a request ends is the
  platform's: the Node SDK's `fetch` has no time-out of its own, and a request without
  an answer fails when the connection does.
* `CliLogin`: a command's own steps (`Progress`: every request and the wait for the
  callback have a time limit) and the end of the browser's opener (`Opened`).

## 5. What is proved

TLAPS checks these for every value of the constants that satisfies the named
assumptions of the modules (`TimesAssumption`, `StatusesAssumption`,
`NonceAssumption`, `FlowsAssumption`, `SettingsAssumption`, `PlatformsAssumption`,
`VerificationAssumption`, `TrafficAssumption`, `PollingAssumption`, `NodeAssumption`,
`CliLoginAssumption` and those of the locks: numbers are numbers, a marker for "none"
is not one of the things it stands beside, key documents have growing revocation
epochs). TLC evaluates them in the runs. Every safety property of a passing run is a
theorem.

Four hypotheses go beyond those assumptions: `WindowCoversRetry` (the deadline plus
one trip fits the server's window), `GracefulFaults` (no answer is lost after the
rotation, no write leaves the store damaged, no read fails and nobody signs out
meanwhile), `Setting` (below) and `IntervalsFit` (no interval beyond the SDK's maximum:
section 6).
`OneAtATime` is about behaviours without crashes (`MaxCrashes = 0`).

* `WebParts_proofs`, in three parts.
  *Refresh*: `Typing`; `NeverReuses` and `KeptSessionsAreCurrent` under
  `WindowCoversRetry`. The invariant `Exchange` is needed because `NoReuse` says
  nothing of requests on the wire: it bounds when a request was sent, which tokens are
  on the wire, that in flight the held token is current or the last one rotated by
  this very refresh, and what an answer on its way implies about the server.
  `RotationNeverBacksOff` and `DefinitiveIsNotTransient` are the facts about the
  classification it rests on.
  *Card*: `CompleteCardsHaveSessions`, with the four ends of `NoSession` as exceptions,
  from `CardInv`, which adds that a second factor is sent only by a form that is not
  locked.
  *Redirect*: `CodesGoOnce` from `RedirectInv`: a state in `sessionStorage` lies
  beside the verifier of the same attempt, the code of a callback that is still in the
  address was given for the attempt of its state and was never sent, and all that was
  sent are codes the server has given. `WebTyping` puts the three together (see
  below).
* `RefreshLock_proofs`. `Typing`; `OneAtATime` for `MaxCrashes = 0`, and `Implements`
  for any number of crashes. The invariant says that until the first crash the file at
  the path belongs to the process in the critical section and is not stale. With
  crashes mutual exclusion is false (see `refresh_lock_contended`), and the abstract lock
  does not promise it.
* `CliRefresh_proofs`. `Typing`; `CliNeverReuses`, `UnmarkedSessionsAreCurrent` and
  `StoreNeverGoesBack` under `GracefulFaults` (crashes and the takeovers they bring,
  refused writes, missing keys, sign-ins), and `NoReuseWithoutCrash`. The invariant
  says that whatever the lock lets in, a process that has confirmed its marker is the
  only one that works on that session, unless `racing`; it ties the session under work
  to the store, and the marker to what the server may have rotated. The third is an
  action property: the session a refresh writes is at the server's generation of its
  sign-in, and no store is ahead of that. All three except `racing`, which needs a
  crash.
* `WebTokenManager_proofs`. `Typing`, `LockHeldInside` and `UsersStayApart` with any
  storage and any events; `NeverReused` and `StoredStaysCurrent` under `Setting`: the
  tabs share a synchronous storage (the built-in localStorage adapter) and are not
  reloaded. Both conditions are needed: with an asynchronous storage a second tab
  takes the lock and reads the spent token before the first has stored the new one
  (the lock is released at token-manager.ts:662, before `setTokens`), and a reload
  between a rotation and the storing of its answer loses the new token. `StepMoves`
  says once what any step does to an activity, the lock, the storage and the server,
  and the invariants are proved over its seven cases. The invariant `Strong` adds to
  the properties that one refresh holds the lock, that of what is on the wire all but
  a rejected token is current, and that the storage is current unless an answer is
  about to replace it. `UsersStayApart` needs no invariant: every step of a tab keeps
  its access token, drops it, or replaces it after the comparison of the two users
  (`Careful`).
* `RnTokenRuntime_proofs`. `Base` types the state and says who owns what: every token
  that is stored or on its way has a user, a flight that waits for the secure store
  has its operation in the queue, and unless writes fail the stored token is the
  current one of the runtime's user. `StoredTokenIsCurrent` follows from it for every
  scenario in which the store takes writes and the answers can be decoded.
  `NoTokenIsReused` adds `PoliteInv`, for the calls the property names: one
  user, one flight that has read the token, and if it is on the wire it is the current
  one. `SignedInUsuallyHasUser` adds `SimpleInv`: which reducer states occur before,
  during and after the restore, and that with a stored token the machine has its user
  or a restore is still to set it.
* `SdkParts_proofs`, in three parts.
  *Nonces*: `NoncesAreAcceptedOnce` for any numbers of flows and nonces, any expiry
  and any limit: `NonceInv` adds that a pending nonce was issued and has not been
  accepted.
  *Flows*: `CodesAreExchangedByTheirFlow`: `FlowInv` says, step by step, whose state
  and verifier the storage holds for a flow, and that apps that run their flows one
  after another have one flow under way.
  *Passkeys*: `SheetsAreKept` from `PasskeyInv`: the device's lock is held exactly
  during a ceremony, of which a hook, and on the device the whole app, has one; the
  sheet's call has begun; and what was taken from a call was taken in a browser by
  another hook. `SheetsAreForSomebody` and `SignedInIsLive` (on the device) are action
  properties over it, for any number of hooks, calls and platforms. `SdkTyping` puts the runtime, the
  passkeys and the flows together.
* `ToolParts_proofs`, in three parts.
  *Verification*: `RefreshesAreThrottled`: `ThrottleInv` ties the number of forced
  refreshes to the last attempt, and the last attempt to the clock. `ProofsAreBurned`:
  `BurnInv` says that the proof of an accepted request is sound and, where the
  application has a replay store, has been burned and is no other accepted one's.
  `RevokedTokensAreRefused` is an action property over `TrafficInv`; it holds for the
  documents between that of the key and the cache's, because their epochs grow, and
  says nothing while the cached epoch is still to come by the server's clock.
  *CLI*: `ConfirmedKeysAreTrusted` from `KeysInv`: a key marked confirmed is the
  trusted one in the slot and in every command that carries a key over a request, so
  it does not matter which of them is written back last. `FailedCiIsClean` from
  `CiInv`: what a CI login has written at each of its steps; only a session write that
  is refused after the key's leaves a key, which the token is bound to. `CountInv` bounds the
  keys by the commands that have prepared one, which the type invariant needs.
  *Polling*: `ClientsNeverHurry` from `AskedInv`: what the server has asked for is no
  more than the interval and than the next wait. The back-off only lengthens the wait
  because a power of two is at least one (`PowersOfTwo`), proved as the size of a
  power set. `ToolsTyping` puts the three and the DPoP sessions together.
* `NodeDpopSession_proofs`. `TokensAreSpentOnce` from `NodeInv`: every record has its
  type, one operation is under way, which spends the held token, an answer carries the
  token the server accepts now, and while nothing is lost the token is unspent or
  spent by the very request that is only sent again identically. `RotationsAreWhole`
  adds `KeyInv`: which keys an operation under way presents, and which the server has
  bound. `RangeInv` bounds keys and tokens by what has been made and issued.

The theorems about a composite (`WebTyping`, `SdkTyping`, `ToolsTyping`) rest on two
lemmas each: a step of one part is a step or a stutter of every part
(`PartsTakeTurns`), so a behaviour of the composite is one of each part's
specification, and whatever is proved of a part holds in the composite.

Only model-checked are the liveness properties (`RefreshSettles`, `ScreensSettle`,
`EveryoneGetsThrough`, `EveryRefreshEnds`, `RestoreLoads`, `RefreshingEnds`,
`CallsEnd`, `PollingEnds`, `WaitingLoginEnds`): TLAPS does not reason about fairness
here.

## 6. Limits

### Not modelled

* Web token manager: `setPersistence`, `destroy`, the expiry warning, the
  storage-event fallback, browsers without Web Locks, storages that refuse a write.
  Nothing in the code protects a rotation whose new token is not stored.
* React Native: `verifyAccessToken` with sdk-core's key cache; device integrity and
  attestation events; the nonce challenge of its DPoP refresh (modelled for Node,
  where the code is the same in kind).
* Hooks: `<SignUp/>`, linked accounts, flags, magic-link polling in the browser; each is
  requests whose results are shown.
* Auth config and sdk-core's discovery and key caches: each has an `invalidate()` that
  nothing in the source calls, so their generations never change.
* CLI tenants, lease, connect and billing: requests and file writes one after another;
  what a repeated call does is decided by the server.
* Webhooks, logout tokens, claim formats, cryptography: pure checks.
* Rendering, texts, generated registries, the scaffolder's templates and the
  supply-chain scripts: text in, text out, without state that outlives a call.

What could follow, in order: storages that fail and `setPersistence` in
`WebTokenManager`; the immediate retry within `RnTokenRuntime`; suspended processes in `RefreshLock`; `<SignUp/>` with `SignInCard`.

### Behaviour met while modelling

Beside the three violated runs, the models show or the reading met these. No property
here claims the contrary; some are exceptions a property names.

* Web card (`react/src/components/sign-in/sign-in.tsx`). A magic-link verification that
  is aborted after ten seconds leaves `loading` set (233–250), the exception in
  `CardIsNeverStuck`. A second factor that has to be set up completes the card without
  a session (513–515), an answer for another user than the signed-in one clears both, a
  token without the claims of a session makes none (token-manager.ts:228–233), and a
  sign-out while the new token is being stored leaves none: `completeSignIn` throws in
  none of these cases, and the card is set complete (545–546), which shows nothing.
  They are the exceptions in `CompleteHasSession`. A reset link, or the challenge of a magic link,
  that is shown while the provider still loads is lost when the restore ends signed out
  (317–327). The configuration, when it arrives, replaces a reset or second-factor step by
  the initial social interstitial (389). A lockout timer forgets the wrong codes of a
  later challenge too.
* Web provider. Over-long callback parameters: cleaned, not restored, loading
  (context.tsx:238–245), the exception in `ProviderLoads`. With effects that run twice the
  second one restores while the first exchanges the code.
* Web token manager. A restore that fails transiently shows a signed-out snapshot over a
  sign-in of meanwhile (token-manager.ts:362).
* Passkeys in the browser. `useSignInWithPasskey` reports success although
  `completeSignIn` stored nothing (context.tsx:559, token-manager.ts:259–267).
* CLI. After a crash two commands may read the same unmarked session under one stale
  lock and both send its refresh token: the exception `racing`. A session write that is
  refused after the key was stored (login.ts:347, 356) fails a CI login and leaves its
  key, the exception in `FailedCiLeavesNothing`. A callback that arrives while the opener still runs settles the listener before
  anyone waits, and the login hangs (login.ts:240, loopback-server.ts:18). One key slot
  serves every client, so another client's login overwrites an older session's key
  (install-key.ts:71).
* React Native. A refresh whose answer cannot be decoded dispatches `SIGN_IN_FAILED`,
  stores nothing and still counts as done (token-runtime.ts:316–330): the spent token is
  presented by the next refresh, and the machine may count as signed in without a user.
  `<SignIn/>` reports success without submitting the tokens
  (components/sign-in.tsx:97–99); the application has to.
* Token verification. A revocation epoch ahead of the server's clock is ignored
  (verify-token.ts:243), and the one it replaced in the cache no longer counts: a token
  that was refused before is accepted until the new epoch comes, the exception in
  `RevocationIsFollowed`. Without `onJti` a proof is accepted any number of times
  (verify-dpop-binding.ts:167), as types.ts:692–694 says.
* Node. A rotation whose 200 is lost leaves the server on the new key and the session on
  the old (oauth.ts:236–240): `lost` in `RotationIsWhole`. CIBA's `slow_down` adds five
  seconds (ciba.ts:292 says it doubles the interval). An issued interval above 60 seconds
  is not limited (device.ts:220), but the one after a `slow_down` and the wait after a
  failed poll are (device.ts:258, 265): the device flow then polls faster, where
  device.ts:211 says it adds five seconds. `ClientsNeverHurry` therefore has the
  hypothesis `IntervalsFit`.
