# Orbital Mobile: formal models

This directory holds TLA+ models of the client in `src/` (a React Native
application for end-to-end encrypted group threads and chats), the TLC
configurations that check them on small instances, and TLAPS proofs of the
properties that matter most for every value of the constants.

`PROJECT.json` lists the components, the runs, the map from each definition to
the source lines it models, the hazards and the theorems. Paths below are
relative to the repository root, which holds the application in `src/`.

## 1. The system

The application is one JavaScript thread plus native modules. JavaScript runs one
task at a time: code between two `await`s is atomic, and everything
interesting happens because many asynchronous functions are suspended at once
and share module-level state. A step of a model is therefore the code between
two points where another task may run.

| Component | Source (under `src/services` unless noted) | State it keeps | Hard behaviour |
|---|---|---|---|
| WebSocket connection manager | `websocket/websocketManager.ts`, `reconnect.ts` | current socket, status, timers, listeners, subscriptions, backoff counter | overlapping `connect()` calls, late close events, background grace, token refresh |
| Message handler | `websocket/messageHandler.ts` | seen-id LRU, two dedup maps | events that race fetches, decrypt-and-retry |
| API client and token manager | `api/client.ts`, `api/tokenManager.ts` | token, listeners, 401 latch | 429 retries, timeouts, concurrent 401s |
| Session | `authService.ts`, `bootstrap.ts` | auth slice, last user | login, restore, logout, wipe step by step |
| Identity key recovery | `keyRecoveryService.ts`, `crypto/identityRestoreService.ts`, `crypto/keyGenerationService.ts` | recovery latch, key generation counter | multi-step reset with failures at each step |
| Group key cache and fetch | `crypto/contentCrypto.ts` | key cache, database copy, in-flight fetches, pending stamps | stale answers, wipes during a fetch, shared buffers zeroed in place |
| Group key self-heal | `crypto/groupKeyRecovery.ts` | in-flight attempts, cooldowns, caps, latches, verdicts | caps checked before and charged after awaits, resets |
| Pending-wrap clock | `crypto/pendingWrapClock.ts` | mirror and stored blob of "waiting since" marks | storage not ready or failing, ownerless marks, clock jumps |
| Media upload | `mediaUploadService.ts` | jobs, chunk offsets, staged files | retry, cancellation, resume, disposal |
| Media download and prefetch | `mediaDownloadService.ts`, `mediaPrefetchService.ts`, `src/hooks/useMediaDownload.ts`, `src/utils/semaphore.ts` | in-flight map, semaphore, drain flags, files and rows | a join after an awaited cache check, cancellation, promotion by unlink and move, kills in the middle, stale probes |
| Media export and archive | `mediaExportService.ts`, `media/bulkExportRunner.ts`, `mediaArchiveConfirmService.ts` | runner state, epochs, confirmations | cancellation by epoch, app suspension |
| Media sanitizers | `media/imageSanitizer.ts`, `media/mp4GpsSanitizer.ts` | none (pure) | byte offsets, truncated input |
| Threads, conversations | `threadService.ts`, `conversationService.ts` | store and database rows | optimistic rows against fetched pages and socket events |
| Notification settings sync | `notificationSettingsSync.ts` | persisted queue, epoch, runners, intents | runners against a drain, late answers after a wipe, retries, account switch |
| Blocked users, profiles, avatars | `blockedUsersSync.ts`, `blockedContentRefresh.ts`, `avatarService.ts` | in-flight maps | stale answers |
| Store and database | `stores/`, `database/` | zustand slices, SQLite tables | synchronous; modelled in their callers |
| Screens, hooks | `App.tsx`, `screens/`, `components/`, `hooks/` | view state | effects that drive the connection |

Connections between the parts, as the models need them:

- **Calls.** `App.tsx`'s lifecycle effect, logout, account deletion and key
  recovery call the connection manager; the delivery handler and every screen
  call `getOrFetchGroupKey`; that calls `recoverDeadEnvelope` when an envelope
  does not open.
- **Callbacks.** Socket events, timers, the AppState listener and the token
  manager's listeners enter the connection manager. `recoverDeadEnvelope` calls
  back into the cache (`retryUnwrap`) and into the message handler (the
  delivery-dedup clearer).
- **Shared state.** The zustand store, the database, and key arrays passed by
  reference.
- **Wipes.** `localWipe` (logout, account deletion) and `fullCryptoWipe` (key
  recovery, account deletion) reset the module-level state of everybody while
  functions of the old session are still suspended.
- **The disk and the server's copy.** A photo's row, its file, its entry in the
  store and the server's record of who has archived it are four separate
  states; the download, the sweep of a launch, the screens, the confirmation
  drain and a key recovery each write some of them.

What makes each part correct:

- *Connection manager*: one socket, that the manager can close; the heartbeat,
  listeners and subscriptions belong to the current socket; the status never
  gets stuck; a disconnect stays one.
- *Group key cache*: readers of a key share one request and are all answered; a
  key that reached the database is not left in memory only; a key in use is not
  destroyed.
- *Self-heal*: one attempt per group, a bounded number of rewrap requests,
  answers that describe the attempt they come from.
- *Pending-wrap clock*: marks are stored for the account that took them, survive
  relaunches, stay within the cap, and the first plausible mark wins.
- *Notification settings*: what is shown is what was last asked for; nothing is
  sent or shown in another account's name; one request per target; shown and
  stored settings agree in the end.
- *Identity key*: the two halves stay a pair; a recovery that says it succeeded
  has a key the server knows; nothing but a recovery destroys the registered key.
- *Media*: one download at a time works on a photo's files; a row that says
  downloaded has the whole photo; the server gives the photo up only while the
  device holds it; a photo that can be fetched does not stay pending.

## 2. Modules

| Module | Models | Kind |
|---|---|---|
| `SingleConnection` | what "manages the lifecycle of a single WebSocket connection" promises | abstract specification |
| `WebSocketManager` | the connection manager and everything that drives it | detailed specification, implements `SingleConnection` until calls overlap or a dial is early |
| `WebSocketManagerProofs` | proofs for every size of the pools | theorems |
| `DemoteBudget` | what the caps on demote requests promise of one session | abstract specification |
| `GroupKeyRecovery` | `recoverDeadEnvelope`, caps, cooldowns, latches | specification, implements `DemoteBudget` |
| `GroupKeyRecoveryProofs` | proofs for every set of groups, attempts and caps | theorems |
| `GroupKey` | cache, database copy, in-flight fetches, pending stamps, deliveries, wipes | specification |
| `GroupKeyProofs` | proofs for every set of groups, fetches and readers | theorems |
| `PendingWrapClock` | the durable "waiting since" marks, storage, accounts, the device clock | specification |
| `PendingWrapClockProofs` | proofs for every set of groups and users, every cap and every range of times | theorems |
| `NotificationSettingsSync` | taps, preference setters, the queue's drain, the sync with its overlay, answers, wipes, account switches, restarts | specification |
| `NotificationSettingsSyncProofs` | proofs for every set of accounts, targets, preferences and calls in flight | theorems |
| `IdentityKeys` | the identity key: generation and upload, restore from the Keychain, key recovery, launch, login and logout, pushes | specification |
| `IdentityKeysProofs` | proofs for every set of key pairs and initializations | theorems |
| `ArchivedPhoto` | what archive confirmations promise of one photo and one device | abstract specification |
| `MediaDownload` | one photo: download, views, drain, sweep, library, metadata, takedown, confirmation, eviction, recovery | specification, implements `ArchivedPhoto` |
| `MediaDownloadProofs` | proofs for every set of calls and views and every limit of the semaphore | theorems |
| `MC…` | symmetry sets for TLC | instances |

### WebSocketManager

*State.* `connectionStatus`, `socket`, `subscriptions`, `reconnectAttempt`,
`disconnectRequested` and the timer and listener handles carry the names they
have in `createWebSocketManager`. Handles and what they refer to are separate:
`reconnectTimer` is the handle the manager remembers, `armedReconnects` the
timeouts that will really fire, and the two differ when a handle is overwritten.
`readyState` is per socket, so a socket the manager has dropped still lives
until its close event. `connectCalls` holds the suspended `connect()` calls with
the token each has read. The rest is the world the manager lives in: the auth
flags, App's effect, AppState, the running account operation, mounted screens.
`cancelled` is a history variable.

*Actions.* `connect()` suspends once, at the token read, and is three actions:
`Connect` (guard and start), `ReadToken` (the Keychain answers) and
`ResumeBails`/`ResumeOpens`. `OnOpen`, `OnMessage`, `OnClose` are the socket
callbacks, `WatchdogFires`, `ReconnectTimerFires`, `GraceTimerFires` the timers,
`BecomeActive` and `LeaveForeground` the AppState listener, `MountScreen` and
`UnmountScreen` the subscription hook, `EffectConnects`, `EffectDisconnects`,
`EffectCleanup` the App effect. `StartOperation` to `RecoveryFails` are logout,
deletion and recovery as far as they touch the connection or the token.

*Bounds and switches.* The pools (`Sockets`, `ConnectCalls`, ...) bound how many
of each exist at the same time, not how many there ever are: a name is reused
when its object is gone. `MaxAttempt` saturates the backoff counter.
`PromptClose` says whether a close event precedes the next socket,
`LateMessages` whether frames may arrive on a closing socket.

### GroupKeyRecovery

*State.* `inflight`, the cooldowns, `committedDemotes` per group,
`sessionDemotes`, the remembered terminal outcome per group and the two latches,
as in the source. An attempt is a name with the group it heals and the await it
is suspended at. The counters are capped at `MaxSession`. `crossed` (history)
says attempts were suspended across the last reset.

*Actions.* `Start` is everything `recoverDeadEnvelope` and `runRecovery` do
before the first await: joining an attempt in flight, the eligibility checks,
the latches, the cooldown, the caps, the stamp and the local probe. `Advance`,
`Refreshed`, `Retried` are the resumptions after the sender refresh and the
retry, `Accepted` and `Refused` the server's answers, `Finish` the `finally`
block, which removes whatever is in flight for the group. `Reset` is
`resetGroupKeyRecoveryState`, which stops no attempt.

*Abstraction.* `DemoteBudget` has the groups with an attempt out, what each group and
the session have been charged, and whether the session is `spoiled`. A group sets
out only while both caps have something left, and pays when accepted. The mapping
takes the first from the suspended attempts (`Working`), the charges from the
counters, and `spoiled` from `crossed`: a session into which attempts of the last one
reach promises nothing until the next clean reset. `ImplementsDemoteBudget` says that
every step is one of the budget's or changes nothing of it.

### GroupKey

*State.* `cached`, `stored` and `marked` are the groups with a key in memory, a
key in the database, and an entry in the pending-wrap clock; `unsaved` are the
cached groups whose last write to the database failed. `pending` are the
30-second stamps, `inflight` the promise map. A request is a name with its
group, the await it is suspended at and the envelope it was answered. A reader
is a caller of `getOrFetchGroupKey` with the array it holds: the one that is
cached (`current`), one that has been replaced (`former`) or one that was filled
with zeroes. `deliveries` and `dedup` belong to the delivery handler, `envelope`
is the server's row for this device (none, without a sender, one that opens, one
that does not).

*Actions.* `GetOrFetch` is `getOrFetchGroupKey` up to its first await in the
order of its tiers (`Cached`, `Gated`, `FromDatabase`, `FromServer`); `Read` and
`HandleDelivery` call it. The request continues in `Answered`, `NoEnvelope`,
`NoSender`, `ResolveSender`, `Unwrap`, `UnwrapFails`, the recovery's `RetryUnwrap`,
`Requested`, `NotRecovered`, and `Settle`. `UseKey` and `DecryptFails` are what readers do
afterwards; `DecryptFails` is the `catch` of `decryptWithRetry` up to its next
await, so it forgets the key and asks for it again in one step (a database that
failed to forget it gives the same key back, `FindsAgain`). The recovery is
abstracted to its effect on the cache; its own state is `GroupKeyRecovery`'s.
`Logout`, `KeyWipe`, `Restart` take the session away under suspended requests.

*The database.* Its failures are swallowed in four places, and each may happen
at any time: a write of `persistGroupKey` ("key is still in memory cache"), the
read of the second tier, the deletion of an invalidated key, and the transaction
of the key wipe, which then rolls back. `CachedIsSaved` leaves out the first kind
(`unsaved`), which is a key in memory only by design.

*Abstracted.* Keys are not compared: the model tells a key from its absence
and an intact array from a zeroed one, not one key from another. Account
deletion, which closes the database, is not modelled here.

### PendingWrapClock

*State.* `clock` is the module state of `pendingWrapClock.ts` (`since`,
`ownerlessMarks`, `owner`, `loaded`) with the blob in storage; the blob's owner
is a user, none (there is no blob), or `Unreadable` (corrupt, or of another
version). A mark is its time and, for the properties, the user who was signed in
when it was taken. `ready` is MMKV, `userId` the store's user, `lastUserId` the
database's account, `now` the device clock. `readFailed` and `writeFailed` are
history.

*Actions.* The exported functions are synchronous, so each is one action:
`ensureLoaded` (`Loaded`, from `Switched`, `Attributed`, `Merged`,
`Established`) followed by what the function does to the mirror. Reads and
writes may throw, in any call. The loop of `mergeStoredBlob` over the stored
marks is the set of results it can have in some order of them (`Taken`).
Around them: MMKV's initialisation, sign-in behind `checkAccountSwitch`, the 401
that clears the user without telling the clock, `localWipe` with its two clears
and whatever runs between them, `fullCryptoWipe`, restarts, and a device clock
that is set to any time.

*Premises.* `StoredMarksOwned` is about runs in which every read succeeded: after
a failed read a mark of the signed-in user stays in a mirror without an owner,
and if the account changes before the next read (an interrupted key recovery,
then a 401), `ensureLoaded` sees no owner that differs and stores it for the next
account. `Durable` is about runs in which every write succeeded.

*Abstracted.* Whether a wait is past the bound is an answer that changes nothing,
so the bound itself is left out; the re-mark of `isPendingWrapPastBound` is there.

### NotificationSettingsSync

*State.* `muted` (with the account a target is muted for), `pending`, `prefs`
are the persisted slice; `runners`, `intents`, `draining`, `rerun` the module's
state; `driver`, `setter` and `sync` hold the suspended calls, each a record
with its request and, later, its answer. The source's epoch is a number that a
suspended call compares with its own; here a wipe marks the calls in flight
`stale`, which is the only thing the number is for. `server` has each account's
settings. `kept`, `torn` and `lateEnd` are history.

*Actions.* `ToggleMute` and `SetPref` are the taps, `DriveMute` and `DrivePref`
a runner that resumes with its answer (confirm, send the newer intent, or revert
and end). `ForegroundSync` and `PostAuthSync` start `syncNotificationSettings`;
`Drain` is a step of the drain pass, `ReadMutes`, `ReadPrefs` and `ReadFails` the
two parallel reads, `ApplySync` the overlay of the server's answer with what is
unconfirmed. `SignIn`, `ClearAuth` (a 401), `StartWipe` and `Wipe`,
`RecoveryWipe`, `ForgetAccount` and `Restart` are what happens to the session.

*Premises.* `IntentsShown` leaves out a target between the revert and the end of
the pass that clears it, and one that a restart found in that gap (`torn`).
`OwnSettings` leaves out settings that an aborted key recovery left behind
(`kept`). `OneRunner` holds until a runner of an earlier session has ended
(`lateEnd`): its `finally` deletes the entry of the session that followed.

### IdentityKeys

*State.* A key pair is a number; `keychain` and `cachedPrivateKey` hold its
private half on disk and in memory, `identityKeyPublic` and `serverKey` its
public half. The programs that await the server or the Keychain are tasks
(`boot`, `retry`, `rec`, and one per run of `ensureKeysInitialized`): `pc` is
the await each is suspended at, `call` its request or the answer, `reg` the key
it carries. `recovery` has the recovery's arguments and last result.

*Actions.* `ColdStart`, `SignedIn`, `NotSignedIn`, `Bootstrapped` are launch and
login with `postAuthBootstrap`; `Restore` is the restore of a Keychain item that
outlived its database, `RetryRestored` the banner's retry of it; `Initialize`
and `InitEnds` are a key generation with its upload and the maintenance of the
pre-keys; `Recovering` has `doRecoverIdentityKeys` step by step, including a
reset that succeeds and is not heard of. `Serve` answers a request with what the
server holds and the token it came with, `Lose` loses request or answer. `Restart`,
`Reinstall`, `Logout`, `PushArrives` and `OtherDevice` are the world.

*Premises.* `Overlap` says whether a recovery may begin while a bootstrap or a
retry still works, or a login while a retry works or a key is being generated.
Nothing in the code forbids either. The run `identity_keys` leaves them out, to
say what holds otherwise; the theorems do not, and name them as causes (section
5). With them TLC finds (two initializations, two faults): `KeyKept` violated by
such recoveries, not by such logins alone; `PairWhole` by such logins (during a
retry, and during a key generation), not by such recoveries alone;
`SuccessHasKeys` by each kind. `SuccessHasKeys` and `PairWhole` also leave out a
wipe torn between the Keychain and the database (`torn`), whose outcome
`MCIdentityKeys_success.cfg` shows, and `KeyKept` launches that have logged out,
whose outcome is the run `identity_survives`.

### MediaDownload

*State.* `row` is the photo's row, `file`, `tmp` and `staged` the final path and
the two temporary ones, `item` the entry in the store, `blob` and `archived`
what the server keeps. `calls` are the runs of `downloadAndDecryptMedia` (what
each awaits, who waits for it, whether its signal is aborted), `inflight` the
entry of the map, `active`, `others`, `waiting` the semaphore with the downloads
of other media as holders and waiters only. `screens` has the refs of each
mounted view, `draining` and `rerun` the drain, `sweep`, `library` and `meta` a
probe of the disk that is under way, `ask` a confirmation. `lost` and `torn` are
history: the file was removed on purpose or from outside, or a promotion gave the
old file up and did not bring the new one.

*Abstraction.* `ArchivedPhoto` knows the server's copy, the device's (`never` whole,
`held` or `lost`), a confirmation on its way and whether the server has one. The
mapping reads the device's copy from the file and the two history variables
(`Device`). The rule of interest is that the device asks only once it has had
the photo, and that the server drops its copy only when told: downloads, views,
sweeps, crashes and recoveries are to do nothing else.

*Actions.* A call is `Begin` (the row is read, a path is probed), `Probed` (the
map is looked at, the semaphore asked), `Start` (state written, temporary files
removed), `Received` or `NotReceived`, `Verify`, `Decrypt`, `Promote`, `Move`, and
`Persist` or `Cleanup`, which release the slot and settle everybody who waits.
`Mount`, `Render`, `Unmount`, `Retry`, `ImageFails` are the hook and the view;
`TakeBatch` is the query of the drain for the 25 oldest pending rows: the other
rows are not in the model, so a pending photo is in the batch or 25 older ones
keep it out, at each drain anew;
`Drain…`, `Sweep…`, `Library…`, `Meta…` and `Teardown…` the services around it;
`ConfirmDrain` to `Evict` the archive; `Recovery…` what a key recovery does to
the confirmations. `Crash` keeps the disk and the server, nothing else.

*Premises.* `Settles` says that the photo reaches an outcome (downloaded, failed,
unavailable or deleted) for good, with three exceptions, each of which TLC needs
and the code has: a row made pending while its file is there, which the cache check
of every call answers without changing it (`Answered`); a row that a kill, or a
failed write of the outcome, leaves `downloading` with nothing running, and that no
later code takes up (`Stranded`); and a pending row that batch after batch passes
over, because 25 older rows stay pending themselves (`PassedOver`; the first
exception makes such rows). `ImplementsArchivedPhoto` and `DownloadedIsWhole`
account for a promotion that gave the old file up without bringing the new one
(`torn`): that loss is the code's.

*External.* Whether a transfer arrives whole, altered or not at all, a writer that goes on after its
transfer was given up (`stopDownload` is best effort), and the server.

## 3. Runs

Passing runs:

| Run | What it shows | Bounds |
|---|---|---|
| `ws_general` | heartbeat, subscriptions and status stay consistent under every interleaving | 2 sockets, 2 suspended calls, one timer of each kind, 1 screen, deletion and recovery; late frames, late closes |
| `ws_serial` | with one `connect()` at a time the manager implements `SingleConnection` and can close every socket | 1 call, 2 sockets, prompt close events |
| `ws_live` | `reconnecting` ends while the session lasts | 2 sockets, 2 calls, logout |
| `recovery_budget` | one attempt per group; the caps, with the overrun that reading before and charging after allows; the whole implements `DemoteBudget` | 2 groups, 2 attempts, group cap 1, session cap 2 |
| `key_cache` | readers share one running request and are all answered; a key once written is in memory only after its own write failed | 1 group, 2 requests, 2 readers |
| `mute_sync` | the mutes shown are the unconfirmed intents; nothing is sent or shown for another account; one runner per target | 2 accounts, 2 targets, no preferences, queue of 1, 2 taps and 1 sync in flight, 2 attempts, 5 events |
| `mute_converge` | no sync overwrites an unconfirmed mute or preference; shown and stored settings become equal for good and the queue empties | 1 account, 1 target, 1 preference, 2 syncs, 3 events |
| `identity_keys` | the pair stays whole; success has keys; the registered key is kept; a recovery that began ends with a registered pair | 6 key names, 1 initialization, 3 faults, 1 act of another device, no overlap |
| `media_download` | one download at a time; a downloaded row has the whole photo; the photo's two copies change as `ArchivedPhoto` allows; the photo reaches an outcome but for the three exceptions of `Settles` | 2 calls, a gallery cell and a lightbox that cancels, 1 slot, 1 other download queued, 1 fault, 2 visits |
| `clock_marks` | marks are stored for their owner only and within the cap; what the mirror holds is stored; the first plausible mark wins | 3 groups, cap 2, 2 users, 2 times |

Why the bounds are enough. Every race of the connection manager met so far needs
two sockets or two suspended calls (an old one and the one that replaced it); a
third adds no new relation, since the manager remembers one. In the recovery, caps of 1 and 2
with two groups let both caps be reached, and be overrun. In the cache, groups
share nothing but the wipes, one group has at most one request per session, and
a second name is the request left over from before a wipe; two readers are one
that holds a key and one that acts meanwhile. Both caches forget the entry of a
group, whatever it names, when a request (an attempt) of an earlier session ends: a
second one then runs beside the successor, so `OneFetchPerGroup` and
`OneAttemptPerGroup` speak of sessions into which nothing of the last one reaches
(`crossed`), and `SharedFetchRuns` and `SharedAttemptRuns` of all. In the clock, three groups under
a cap of two give a merge something to leave out and a mirror that holds a mark
while another is written; with two times a mark in the future is the implausible
one (the configurations with three times and a floor cover the 1970 kind). In the
settings, an event is a tap, a sign-in, a wipe, a refusal or a restart: five make a
tap, its wipe, the next account's sign-in and tap, and a late answer between any
two of them; the queue of one is at its cap with the first tap. Key names are
reused when nothing holds them, and with six one was always free; three faults
let a recovery fail, its retry fail at another step, and a third attempt fail again. In the media model two calls
are one that works and one that joins, aborts or resumes late (three were
checked once), the limit of one makes every second download wait where the code
needs a fourth, and one fault with two visits leaves each race its room: a kill or
a failed move, with a view, an export or the library beside it. The proofs remove the bounds
where they exist; they take any number of faults.

Runs that show a disagreement between the code and what it says of itself:

| Run | The code says | What happens |
|---|---|---|
| `key_inuse` | `wrapKeyForMember` wraps the group key | a message that does not decrypt zeroes the cached array in place while `wrapKeyForMember` is suspended: it submits 32 zero bytes |
| `identity_survives` | "Transient failures NEVER discard the surviving key" | reinstall, a failed probe, logout and login in one launch: the guard looks at the in-memory copy that the logout cleared, and a new key overwrites the Keychain item |

Others met while modelling, each with a configuration that shows it but no place in the
list of runs. Each is a configuration that TLC ends with a violation of the property named:

*The connection*

- `MCWebSocketManager_overlap.cfg`: "Manages the lifecycle of a single WebSocket
  connection" (`websocketManager.ts:4`): two `connect()` calls suspended at the
  token read both pass the check and both open a socket; only the second can be
  closed (`SingleSocket`).
- `MCWebSocketManager_foreground.cfg`: returning to the foreground is to
  reconnect, but the grace timeout's `disconnect()` removes the listener that
  would do it (`ForegroundReconnects`).
- `MCWebSocketManager_refresh.cfg`: after a token refresh the status is still
  `connected`, so `connect()` returns; the close event then sets `disconnected`
  (`RefreshReconnects`).
- `MCWebSocketManager_cancelled.cfg`: a `connect()` after `disconnect()` clears
  the flag (#110) that cancels an older suspended `connect()`, which then opens
  a socket (`CancelledConnectBails`).
- `MCWebSocketManager_logout.cfg`: an abnormal close event after logout's
  `disconnect()` arms a reconnect during the cleanup (`NoReconnectDuringLogout`).
- `MCWebSocketManager_grace.cfg`: `inactive` then `background` arms two grace
  timeouts; only the second is cancelled on return (`GraceCancelled`).
- `MCWebSocketManager_tracked.cfg`: two screens on one conversation share a set
  entry that the first unmount deletes (`MountedTracked`).
- `MCWebSocketManager_backoff.cfg`: the backoff exponent is kept across working
  connections (`FirstReconnectIsFast`).
- `MCWebSocketManager_live.cfg` with `Operations = {"recovery"}` in place of `{"logout"}`:
  a socket whose token a 401 has just erased closes after a key recovery has disconnected
  it. The close arms a reconnect, whose `connect()` finds no token and returns with the status
  it had; the recovery is exempt from the sign-out that a 401 causes, and when it fails
  (`keyRecoveryService.ts:439`, `:508`) it returns without reconnecting. The screen
  then says `reconnecting` with nothing left to end it (`ReconnectingEnds`).

*Group keys*

- `MCGroupKeyRecovery_verdict.cfg`: inside the cooldown the caller is to hear
  what the last real attempt concluded; an older attempt's verdict, or that of an
  ineligible call, is repeated (`CooldownRepeatsLastVerdict`).
- `MCGroupKey_delivery.cfg`: evicting the stamp is to let the delivery's fetch
  reach the server; the fetch joins a request the server has already answered,
  the delivery is used up and the group stamped again (`DeliveryReachesServer`).
- `MCGroupKey_marked.cfg`: "A group with a usable key has no entry"
  (`pendingWrapClock.ts:6`): a stale "no envelope" answer marks a group whose
  key arrived meanwhile (`MarkedOnlyWhileWaiting`).
- `MCPendingWrapClock_evicted.cfg`: "At the cap new marks are REFUSED rather than
  evicting an existing one" (`pendingWrapClock.ts:64`): after a read that failed,
  new marks fill the mirror, the later merge stops at the cap, and the write that
  follows drops stored marks (`NeverEvicted`). The loop breaks at the first mark
  that does not fit, so it also skips the earlier time of a group marked in both.
- `MCPendingWrapClock_restarted.cfg`: an implausible mark "describes a clock, not
  a wait" (`pendingWrapClock.ts:299`), yet a mark of 1970 that was taken before the
  load is earlier than the stored one, wins the merge, and is then replaced by
  the present time: the stored wait starts again (`NeverRestarted`).
- `MCPendingWrapClock_ownerless.cfg`: marks without a user "stay memory-only"
  (`pendingWrapClock.ts:125`): after a 401 the clock keeps its owner, and the next
  call that persists writes a mark taken since (`OwnerlessStayInMemory`).

*Notification settings*

- `MCNotificationSettingsSync_signedout.cfg`: "401/403 is evidence about the
  SESSION" (`notificationSettingsSync.ts:177`), so an intent should survive one:
  a 401 during `postAuthBootstrap` clears the user, the sync that follows is not
  guarded, runs with no user, and drops every queued mute as foreign
  (`SurvivesSignOut`).
- `MCNotificationSettingsSync_newer.cfg`: "'retry'/'auth' keep BOTH the
  optimistic state and the queue entry" (`:207`): a drain that has sent a target
  clears it at the end of its pass; a newer intent for it whose own runner
  failed in between is dropped with it (`NewerIntentKept`).

*Identity keys*

- `MCIdentityKeys_refused.cfg`: a recovery from Settings while the restore is
  deferred counts the device as wiped, keeps the Keychain item, and its key
  generation is refused; so is that of every retry until a relaunch
  (`NeverRefused`; `keyGenerationService.ts:198-201`).
- `MCIdentityKeys_success.cfg`: a wipe torn between the Keychain and the database
  leaves the public row; the retry finds it and reports success without a
  private key (`SuccessMeansKeys`; `keyRecoveryService.ts:226-228`).
- `MCIdentityKeys_overlap.cfg`: a recovery that begins while a bootstrap or a
  retry still works loses the registered key (`KeyKept` with `Overlap`).

*Media*

- `MCMediaDownload_takedown.cfg`: "A takedown of an image reply has to take the
  image with it, or the plaintext frame stays on disk" (`threadService.ts:1235`):
  a download in flight is not stopped by it, and moves the plaintext to its
  final path afterwards, where it stays until the next launch's sweep
  (`TakedownComplete`).
- `MCMediaDownload_spinner.cfg`: `processMediaMetadata` captures the store's entry,
  which is "authoritative during runtime" (`threadService.ts:475`), awaits, and
  merges it over what a download has written since: an entry that says
  `downloading` with nothing running (`SpinnerMeansDownload`).
- `MCMediaDownload_flag.cfg`: "under-clearing silently defeats the wiped-phone
  eviction guard" (`keyRecoveryService.ts:491`): the answer to a confirmation
  sent before the server's reset sets the flag after the device has cleared it, so
  the photo is never confirmed again (`FlagMeansConfirmed`).

And some without: an attempt resumed after a reset charges the new session's
counters; `createOrbit` and `joinOrbit` persist a key after their request
without looking at the session again, so a logout's cleared cache is
repopulated; `decryptWithRetry` deletes the only copy of a key before it knows
that the server's envelope still opens. A late `identity_key_reset` push of the
device's own recovery raises a conflict that is none (`notificationService.ts:334`);
`setUser` in step 6 of a recovery clears the conflict, so a failure in step 7
shows no gate; a device killed between the server's reset and its wipe keeps
`bundleUploaded` and uploads nothing until the next rotation. A kill during a
download leaves the row `downloading`, which no later code resets; a retry or an
image error with the file present is answered by the cache check and the entry
stays `pending` (two of the exceptions of `Settles`, and 25 of the second kind
are the third: they fill every batch of the drain); a retry tapped while the failed call
is cleaning up joins it, and nothing follows until a drain; the file is removed
before the new one is moved into its place, so a failure between the two loses a photo the
server may have evicted (`torn`); the confirmation drain goes by the row and never looks at
the file. Two comments are not what the code does: the header of
`cleanupOrphanedMedia` says a missing file clears `local_path` (only the state
is set), and `clearPrefetchState` says a rerun is skipped (`mediaPrefetchService.ts:140`).

## 4. Fairness

`WebSocketManager` assumes what the JavaScript event loop gives: native reads
resolve, suspended functions resume, due reconnect timeouts fire, React flushes
effects, a closed socket reports it. Nothing is assumed of the network, the
server or the user; in particular a socket may stay `connecting` for ever.
`GroupKey` assumes that every request in progress takes its next step: the API
client gives each request a timeout, and everything a request awaits is a
request of that client, so an answer or a failure always comes. Readers, groups
and the session get no fairness. `NotificationSettingsSync` assumes that requests
are answered in the end (an error at the client's timeout counts), that runners,
drains and syncs resume, that a wipe that has begun ends, that the app comes to
the foreground again and again, and that reads do not fail for ever (strong
fairness of the two reads: `Converges` says nothing of a server that never
answers one); taps, sign-ins and refusals are bounded events. `IdentityKeys`
assumes that requests are served and tasks resume, which bounded faults then
make the rule, and four things of the user and the clock, as strong fairness because other
steps disable them for a while: the user signs in when signed out, tries a
recovery again while its screen says that it failed or that the keys conflict,
opens the app again, and a rotation of the pre-keys falls due at times.
`MediaDownload` assumes that a call takes its next step (a transfer has a
deadline and a stall watchdog, the rest is local), that other downloads end for
the same reason, and that drains start and end: the app comes to the foreground
again and again, and each time schedules one. Views, sweeps, probes and
confirmations get no fairness. All fairness but what is called strong here is
weak: each of those steps stays possible until it is taken.

## 5. Proofs

All theorems are of the form `Spec => []Inv`, `Spec => [][A]_vars` or a refinement,
for every value of the constants, from the named assumptions of the modules only (the pools do
not contain `None`; the bounds are natural numbers). Five promise what the code does not
always keep. They are stated as `Spec => []Inv \/ <><<A>>_vars`: every behaviour
of the whole specification keeps the promise or contains a step of the named kind
`A`, and so the theorem says what the only causes of a failure are. They assume no
constant (`ConnectCalls`, `PromptClose` and `Overlap` are free). One more, named below, is
about the behaviours without a key recovery.

- `WebSocketManagerProofs`. `TypeCorrect`; then `StatusBackedAlways`,
  `ListenersWithSocketAlways`, `HeartbeatArmedAlways`,
  `SubscriptionsReplayedAlways`. The inductive invariant ties the manager's one reference
  to the pool of sockets: the current socket is alive and the status was set by a
  live one, so a status on which `connect()` returns early always has a close event to come.
  `OrphanHasCause`: a usable socket that the manager cannot close takes an
  `Overlaps` (a `connect()` goes past its guard while another is suspended) or a
  `LateClose` (a closed socket reports its close when a later one is in use). The
  guard reads the status, so `OwnedInv` says that a usable socket shows in it, and
  that a suspended call, which no longer reads it, finds none; nothing else breaks
  that. `LifecycleHasCause`: the manager implements `SingleConnection` step by
  step until an `Overlaps` or an `EarlyDial` (a socket is made while a closed one has
  still to report its close), by `SerialInv`: one socket alive besides. TLC, on two
  sockets and two calls, finds that each of `Overlaps` and `LateClose` alone makes an
  orphan. `ReconnectingBackedAlways` is the safety half of
  `ReconnectingEnds`, overlapping calls included: while a session is shown as
  reconnecting, a timer is armed, a `connect()` that nobody has cancelled is suspended, the
  effect that connects has yet to run, or the listeners of a 401 have yet to be told.
  Its `LossTold` (a token gone under a session is about to be told) is what a key
  recovery breaks, so the theorem is about behaviours without one; section 3 has the trace.
- `GroupKeyRecoveryProofs`. `TypeCorrect` and `SharedAttemptAlways` hold
  outright. `OneAttemptAlways`, `PerGroupCapAlways`, `SessionBudgetAlways` hold
  until an attempt is suspended across a reset. A cap read before three awaits
  and charged after them is not inductive by itself. What is: every running
  attempt is the one in flight for its group (`Solo`), the group's charge plus
  its running attempt stays within the cap, and the session's charge stays
  within its cap plus the attempts that were past the check (`BudgetInv`).
  `DemoteBudgetImplemented` maps each action to one step of `DemoteBudget`; it is `Solo`
  that lets the end of an attempt free its group. `DemoteBudgetKept` proves both caps
  of the abstract budget, by the same argument in four variables instead of thirteen.
- `GroupKeyProofs`. `TypeCorrect`; `SharedFetchAlways`: shared requests run, whatever
  wipes happen; `OneFetchAlways`: one request per group while none was in progress at
  the last wipe; `ReadersServedAlways`: every reader is idle, waiting for a running
  request of its group, or holding a key; `CachedIsSavedAlways`: a key in memory
  is in the database unless its own write failed, whichever other reads, writes,
  deletions and transactions of the database fail. `WaitsRunDownAlways` is the safety half of `ReadersAnswered`: with `Ahead`
  the number of awaits a request still has before it, every step of a request has
  fewer and at none its readers are free, and nobody else's step sends back or
  replaces a request that a reader awaits.
- `PendingWrapClockProofs`. `TypeCorrect`, `StoredMarksOwnedAlways`,
  `CapHoldsAlways`, `DurableAlways`: one lemma per operator on the clock and per
  property, then one step per action. That accounts do not mix rests on more than
  the blob: while no read has failed, every mark of an unloaded mirror was taken
  without a user (a user who can read has loaded), and every mark of a loaded one
  by its owner. Durability needs the cap, since only a blob within it is merged
  as a whole, and that a loaded clock has MMKV ready. `FirstMarkWinsAlways` and
  `WaitKeptAlways` are action properties on top of it: what a merge may find stored is
  decided by `Durable`, and the loop over the stored marks, whose order is free, is
  bounded by what `Taken` may leave out. The first says that no step restarts a
  plausible stored wait, the second that none evicts or postpones one but its own
  clearing or pruning.
- `NotificationSettingsSyncProofs`. `TypeCorrect`, `IntentsShownAlways`,
  `OwnRequestsAlways`, `OwnSettingsAlways`, `OneRunnerAlways`. That accounts do not mix
  needs to know whose each suspended call is: `OwnInv` says that a call which is
  not stale belongs to the account the database knows (`lastUser`), its request
  to the one that asked, and that the user signed in is that account or none.
  `LatchesHeldAlways` is the safety half of `Converges`: whatever makes a tap, a preference
  or a drain leave its work to somebody else (a runner's entry, an intent, the flag of a drain,
  the request for one more pass) names a call of this session that is in flight, although
  runners and drains of earlier sessions end late and let go of entries that are not theirs.
- `IdentityKeysProofs`. `TypeCorrect`, then `BrokenPairHasCause`,
  `HollowSuccessHasCause` and `LostKeyHasCause`. The causes (`Overlaps`) are two steps: a
  recovery begins while a bootstrap or a retry still works (`EarlyRecovery`), or a login
  begins while a retry works or a key is being generated (`EarlyLogin`); until one of
  them is taken, all of what follows is invariant. `DeviceInv` says which
  tasks can be where at once (`Exclusive`), what each carries and what the device
  holds meanwhile (`Paired`), which requests fit which step (`Requests`), and what the
  recovery has achieved at each step (`Reached`). `LostKeyHasCause` also needs
  `Sessions`, which says what a dead token, a signed-out user or a deferred restore
  rules out, and `KeySafe`: while the registered key is in the Keychain, no upload or
  discarding answer on its way will hit it. `AwaitedRunsAlways` and `TasksRunDownAlways`
  assume nothing of `Overlap`. `Awaited` says that whoever awaits an initialization is
  counted by exactly one, which runs. With it `Left`, the await a task is at with the
  second login and reset a recovery may still need, falls with every turn of the
  task and rises with nobody else's step but a new launch: the safety half of
  `Recovers`.
- `MediaDownloadProofs`. `TypeCorrect`, `OneDownloadAlways`,
  `DownloadedIsWholeAlways`, `CopyKeptAlways`. `StateOK` says that the call in
  flight is the only one past the join and what it has written at each step: what
  is about to be moved is whole, and a file at the final path is never broken,
  whatever stray writers do to the ciphertext. `Kept` then says that everything
  that vouches for the photo (a row that says downloaded, a probe that saw the
  file, a confirmation sent, an eviction) implies that its file is accounted for;
  only a promotion or a kill of one could break that, and those set `torn` or have their
  call still at `move`. `ArchivedPhotoImplemented` maps every step to a step of
  `ArchivedPhoto` or a stutter, from `StateOK` and `Kept`; `ArchiveBacked` is what the
  abstract specification then gives: the server has not dropped what this device
  never had. `QueueServedAlways` says that no wakeup of the semaphore is lost: its slots are
  all taken while anybody queues, and one of them by a download that will end.
  `CallsRunDownAlways` is the safety half of `Settles`: with `Left` the stages a call still
  has before it, every step of a call has fewer, failures included, nobody else's step sends
  one back, and a call that others have joined is not replaced under them.

Every safety property of the passing runs is a theorem, five of them in the form with
causes. Only model-checked: liveness
(`ReconnectingEnds`, `ReadersAnswered`, `Converges`, `Recovers`, `Settles`), since
fairness and `ENABLED` are out of the prover's reach: of each, the safety half above is proved,
and that fair steps then bring the rest about is TLC's. So are the violations. `WaitsRunDown`,
`AwaitedRuns`, `TasksRunDown`, `LatchesHeld`, `QueueServed`, `CallsRunDown` and
`ReconnectingBacked` were checked with TLC on the configurations of their liveness runs before they were proved
(they are defined in the modules of the proofs).

## 6. Not modelled

The remaining components of section 1, as `PROJECT.json` lists them with the
reason. Inside the modelled ones:

- the typing-frame throttle of the connection manager; the 429 retries inside
  one request, which callers see as a slow answer or an error;
- wording, error classes and telemetry of the group key errors; the 32-byte and
  base64 validation; ECIES itself (an envelope opens or does not);
  direct-message setup, which uses the cache as `createOrbit` does;
- account deletion, registration and the password change in `IdentityKeys`; the
  contents of pre-keys;
- disk reservation (its check reads the free space, awaits, and then adds what it
  reserved, so two downloads can pass on the same bytes), thumbnails and their
  reaper, the reset at a logout, the exclusion of videos from the drain, expiry,
  and database failures other than at the end of a download; the rows of other
  media, which matter to the drain's batch and are abstracted to whether it is full
  without this one; several confirmations in flight at once; the bulk export runner.

## 7. Plan

1. `MediaUpload`: staged files, chunk retry and resume, cancellation, disposal of the
   cache, and the optimistic row it belongs to.
2. `BulkExport`: cancellation by epoch, what a suspended app resumes.
3. `Threads` and the rest of the message handler: optimistic rows against
   fetched pages and socket events.
4. `Blocked users`: the list that a sync overlays, as in `NotificationSettingsSync`.
5. `ReplyTree`: reply flattening against a reference definition over bounded
   trees.
6. Abstract specifications of the group key cache and of one muted target (shown, queued,
   confirmed), with the refinements proved as those of `DemoteBudget` and `ArchivedPhoto` are.
