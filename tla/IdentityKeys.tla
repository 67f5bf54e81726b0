---------------------------- MODULE IdentityKeys ----------------------------
(***************************************************************************)
(* The identity key of one device: generated, uploaded, restored from a    *)
(* Keychain that outlived its database, and replaced by a key recovery     *)
(* (src/src/services/keyRecoveryService.ts, authService.ts and             *)
(* crypto/keyGenerationService.ts, crypto/identityRestoreService.ts).      *)
(*                                                                         *)
(* A key pair is one name: `keychain` and `cachedPrivateKey` hold its      *)
(* private half, `identityKeyPublic` and the server its public half.  The  *)
(* programs that await the server or the Keychain are tasks; `pc` says     *)
(* what each one awaits and `call` holds its request, then the answer.     *)
(***************************************************************************)
EXTENDS Naturals, FiniteSets

CONSTANTS
    Keys,       \* names of key pairs; one that nothing holds is used again
    NoKey,
    Inits,      \* bound on the runs of ensureKeysInitialized in flight
    None,
    MaxFaults,  \* bound on lost calls, refusals, failed writes and restarts
    MaxOthers,  \* bound on what the account's other devices do
    Overlap     \* whether a recovery may begin while a restore is in flight, and a login
                \* while one is or while a key is being generated

ASSUME KeysAssumption == Keys \subseteq Nat \ {0} /\ NoKey = 0
ASSUME InitsAssumption == Inits \cap {"boot", "retry", "rec"} = {} /\ None \notin Inits
ASSUME BoundsAssumption == MaxFaults \in Nat /\ MaxOthers \in Nat /\ Overlap \in BOOLEAN

VARIABLES
    serverKey,         \* the identity key registered for the account
    keychain,          \* IDENTITY_KEY_PRIVATE
    cachedPrivateKey,  \* cachedPrivateKeyHex, this launch's copy of it
    identityKeyPublic, bundleUploaded,  \* rows of the database's items table
    token,             \* the stored JWT: none, live, or dead once a reset has revoked it
    auth,              \* isAuthenticated
    conflict,          \* identityKeyConflict with its conflictSource: none, local or push
    deferred,          \* identityRestoreDeferred
    pc, call, reg,     \* per task: what it awaits, its request or answer, the key it holds
    initializationPromise, joined,  \* the current initialization, and who awaits each one
    recovery,          \* the recovery's arguments and its last result
    push,              \* an identity_key_reset notification is on its way
    torn,       \* history: a wipe has removed the private key and left the public row
    loggedOut,  \* history: a logout in this launch has cleared the cache
    faults, others

device == <<keychain, cachedPrivateKey, identityKeyPublic, bundleUploaded>>
session == <<auth, conflict, deferred>>
inits == <<initializationPromise, joined>>
history == <<torn, loggedOut>>
bounds == <<faults, others>>
vars == <<serverKey, device, token, session, pc, call, reg, inits, recovery, push, history, bounds>>

Restorers == {"boot", "retry"}
Tasks == Restorers \cup {"rec"} \cup Inits

Idle == [at |-> "none", what |-> "none", key |-> NoKey, live |-> FALSE]
Answer(what, key) == [at |-> "back", what |-> what, key |-> key, live |-> FALSE]

\* Without a token nothing is sent, but for a login.
Request(what, key, tok) ==
    IF tok = "none" /\ what # "login"
      THEN Answer("denied", NoKey)
      ELSE [at |-> "out", what |-> what, key |-> key, live |-> tok = "live"]

Answered(t, what) == call[t].at = "back" /\ call[t].what = what
AnsweredIn(t, whats) == \E what \in whats : Answered(t, what)

Fault == faults < MaxFaults /\ faults' = faults + 1

\* The key pairs that something still holds, and the pair generated next.
Held == {serverKey, keychain, cachedPrivateKey, identityKeyPublic}
            \cup {reg[t] : t \in Tasks} \cup {call[t].key : t \in Tasks}
Fresh == {k \in Keys \ Held : \A j \in Keys \ Held : k <= j}

NoRecovery == [skip |-> FALSE, wiped |-> FALSE, again |-> FALSE, cut |-> FALSE, result |-> "none"]

\* A launch: everything in memory is lost and the cache is read from the Keychain.
Launch ==
    /\ cachedPrivateKey' = keychain
    /\ auth' = FALSE /\ conflict' = "none" /\ deferred' = FALSE
    /\ pc' = [t \in Tasks |-> IF t = "boot" THEN "cold" ELSE "off"]
    /\ call' = [t \in Tasks |-> Idle] /\ reg' = [t \in Tasks |-> NoKey]
    /\ initializationPromise' = None /\ joined' = [i \in Inits |-> {}]
    /\ recovery' = NoRecovery /\ loggedOut' = FALSE

\* A device that has never held a key, or one whose database was deleted, of an
\* account with no key, with that one or with another device's.
Init ==
    /\ keychain \in {NoKey} \cup {k \in Keys : \A j \in Keys : k <= j}
    /\ cachedPrivateKey = keychain /\ identityKeyPublic = NoKey /\ bundleUploaded = FALSE
    /\ serverKey \in {NoKey, keychain} \cup {k \in Keys : \A j \in Keys : k >= j}
    /\ token = "none" /\ auth = FALSE /\ conflict = "none" /\ deferred = FALSE
    /\ pc = [t \in Tasks |-> IF t = "boot" THEN "cold" ELSE "off"]
    /\ call = [t \in Tasks |-> Idle] /\ reg = [t \in Tasks |-> NoKey]
    /\ initializationPromise = None /\ joined = [i \in Inits |-> {}]
    /\ recovery = NoRecovery /\ push = FALSE /\ torn = FALSE /\ loggedOut = FALSE
    /\ faults = 0 /\ others = 0

-----------------------------------------------------------------------------
(* The server and the network.                                              *)

Out(t, what) == call[t].at = "out" /\ call[t].what = what
Reply(t, what, key) == call' = [call EXCEPT ![t] = Answer(what, key)]

\* A reset revokes every token: the stored one and those of requests on their way.
Revoked(calls) == [t \in Tasks |-> [calls[t] EXCEPT !.live = FALSE]]
RevokedToken == IF token = "live" THEN "dead" ELSE token

ServeBundle(t) ==
    /\ Out(t, "bundle") /\ call[t].live
    /\ Reply(t, IF serverKey = NoKey THEN "absent" ELSE "ok", serverKey)
    /\ UNCHANGED <<serverKey, token, push>>

ServeReset(t) ==
    /\ Out(t, "reset") /\ call[t].live
    /\ serverKey' = NoKey /\ token' = RevokedToken /\ push' = TRUE
    /\ call' = [Revoked(call) EXCEPT ![t] = Answer("ok", NoKey)]

\* The first key is registered; another one is a conflict.
ServeUpload(t) ==
    /\ Out(t, "upload") /\ call[t].live
    /\ \/ /\ serverKey \in {NoKey, call[t].key}
          /\ serverKey' = call[t].key /\ Reply(t, "ok", NoKey)
       \/ /\ serverKey \notin {NoKey, call[t].key}
          /\ Reply(t, "conflict", NoKey) /\ UNCHANGED serverKey
    /\ UNCHANGED <<token, push>>

ServeLogin(t) ==
    /\ Out(t, "login") \/ (Out(t, "verify") /\ call[t].live)
    /\ Reply(t, "ok", NoKey) /\ UNCHANGED <<serverKey, token, push>>

ServeRevoked(t) ==
    /\ call[t].at = "out" /\ call[t].what # "login" /\ ~call[t].live
    /\ Reply(t, "unauth", NoKey) /\ UNCHANGED <<serverKey, token, push>>

Serve(t) ==
    /\ ServeBundle(t) \/ ServeReset(t) \/ ServeUpload(t) \/ ServeLogin(t) \/ ServeRevoked(t)
    /\ UNCHANGED <<device, session, pc, reg, inits, recovery, history, bounds>>

\* The request or its answer is lost, or the password is refused, or a limit is reached.
Lose(t) ==
    /\ Fault
    /\ \/ call[t].at = "out" /\ Reply(t, "lost", NoKey)
       \/ call[t].at = "back" /\ call[t].what # "denied" /\ Reply(t, "lost", NoKey)
       \/ Out(t, "reset") /\ call[t].live /\ Reply(t, "refused", NoKey)
       \/ Out(t, "login") /\ Reply(t, "unauth", NoKey)
    /\ UNCHANGED <<serverKey, device, token, session, pc, reg, inits, recovery, push, history, others>>

\* handleUnauthorized: the tokens are cleared, and with them the session unless
\* this device is recovering its keys.
Unauthorized(t) ==
    /\ Answered(t, "unauth") /\ Reply(t, "denied", NoKey)
    /\ token' = "none"
    /\ IF pc["rec"] = "off"
         THEN auth' = FALSE /\ conflict' = "none" /\ deferred' = FALSE
         ELSE UNCHANGED session
    /\ UNCHANGED <<serverKey, device, pc, reg, inits, recovery, push, history, bounds>>

-----------------------------------------------------------------------------
(* ensureKeysInitialized.                                                   *)

\* generateInitialKeys refuses to overwrite a surviving private key.
Refuses == cachedPrivateKey # NoKey

\* What an initialization does first, and what follows its key generation.
FirstStep ==
    IF identityKeyPublic = NoKey
      THEN IF Refuses THEN "failed" ELSE "saving"
      ELSE IF bundleUploaded THEN "maintain" ELSE "upload"

\* The call an initialization makes on its way to step `s`.
CallOf(s, k, tok) == IF s = "upload" THEN Request("upload", k, tok) ELSE Idle

\* Task c goes on to `next` and awaits the initialization, which it may have to start.
EnsureKeysInitialized(c, next, tok) ==
    \/ /\ initializationPromise # None
       /\ joined' = [joined EXCEPT ![initializationPromise] = @ \cup {c}]
       /\ pc' = [pc EXCEPT ![c] = next]
       /\ call' = [call EXCEPT ![c] = Idle] /\ reg' = [reg EXCEPT ![c] = NoKey]
       /\ UNCHANGED initializationPromise
    \/ /\ initializationPromise = None
       /\ \E i \in {i \in Inits : pc[i] = "off"} :
            /\ initializationPromise' = i
            /\ joined' = [joined EXCEPT ![i] = {c}]
            /\ pc' = [pc EXCEPT ![c] = next, ![i] = FirstStep]
            /\ call' = [call EXCEPT ![c] = Idle,
                                    ![i] = CallOf(FirstStep, identityKeyPublic, tok)]
            /\ \E k \in IF FirstStep = "saving" THEN Fresh ELSE {NoKey} :
                 reg' = [reg EXCEPT ![c] = NoKey, ![i] = k]

InitGoesTo(i, s, k, c) ==
    /\ pc' = [pc EXCEPT ![i] = s] /\ reg' = [reg EXCEPT ![i] = k] /\ call' = [call EXCEPT ![i] = c]

\* generateInitialKeys: the private half goes to the Keychain, and if it got there to the cache.
InitSaved(i) ==
    /\ pc[i] = "saving"
    /\ \/ /\ keychain' = reg[i] /\ cachedPrivateKey' = reg[i]
          /\ InitGoesTo(i, "provision", reg[i], Idle) /\ UNCHANGED faults
       \/ /\ Fault /\ InitGoesTo(i, "failed", NoKey, Idle)
          /\ UNCHANGED <<keychain, cachedPrivateKey>>
    /\ UNCHANGED <<identityKeyPublic, bundleUploaded>>

\* provisionKeysForIdentity's transaction, then the upload unless the flag is there already.
InitProvisioned(i) ==
    /\ pc[i] = "provision"
    /\ \/ /\ identityKeyPublic' = reg[i]
          /\ LET s == IF bundleUploaded THEN "maintain" ELSE "upload"
             IN  InitGoesTo(i, s, NoKey, CallOf(s, reg[i], token))
          /\ UNCHANGED faults
       \/ Fault /\ InitGoesTo(i, "failed", NoKey, Idle) /\ UNCHANGED identityKeyPublic
    /\ UNCHANGED <<keychain, cachedPrivateKey, bundleUploaded>>

\* Mutant of OutcomeOf: the answer is passed on without being classified.
RawOutcome(i) == call[i].what

\* An outcome other than success.
OutcomeOf(i) == IF Answered(i, "conflict") THEN "conflicted" ELSE "failed"

InitUploaded(i) ==
    /\ pc[i] = "upload" /\ AnsweredIn(i, {"ok", "conflict", "lost", "denied"})
    /\ bundleUploaded' = (bundleUploaded \/ Answered(i, "ok"))
    /\ InitGoesTo(i, IF Answered(i, "ok") THEN "maintain" ELSE OutcomeOf(i), NoKey, Idle)
    /\ UNCHANGED <<keychain, cachedPrivateKey, identityKeyPublic, faults>>

\* Rotation or replenishment is due: the key is uploaded again.
InitRotates(i) ==
    /\ pc[i] = "maintain" /\ identityKeyPublic # NoKey /\ cachedPrivateKey # NoKey
    /\ InitGoesTo(i, "replenish", NoKey, Request("upload", identityKeyPublic, token))
    /\ UNCHANGED <<device, faults>>

InitMaintained(i) ==
    /\ \/ pc[i] = "maintain" /\ InitGoesTo(i, "done", NoKey, Idle)
       \/ /\ pc[i] = "replenish" /\ AnsweredIn(i, {"ok", "conflict", "lost", "denied"})
          /\ InitGoesTo(i, IF Answered(i, "ok") THEN "done" ELSE OutcomeOf(i), NoKey, Idle)
    /\ UNCHANGED <<device, faults>>

Initialize(i) ==
    /\ InitSaved(i) \/ InitProvisioned(i) \/ InitUploaded(i) \/ InitRotates(i)
       \/ InitMaintained(i)
    /\ UNCHANGED <<serverKey, token, session, inits, recovery, push, history, others>>

\* The initialization settles.  Its `finally` clears the promise only in the
\* generation it was started in, that is, unless it was cancelled; a bootstrap or
\* a retry that awaited it raises the conflict; a recovery goes on.
InitEnds(i) ==
    /\ pc[i] \in {"done", "failed", "conflicted"}
    /\ initializationPromise' =
           IF initializationPromise = i THEN None ELSE initializationPromise
    /\ joined' = [joined EXCEPT ![i] = {}]
    /\ conflict' = IF pc[i] = "conflicted" /\ joined[i] \cap Restorers # {}
                     THEN "local" ELSE conflict
    /\ pc' = [t \in Tasks |->
                IF t = i \/ (t = "retry" /\ t \in joined[i]) THEN "off"
                ELSE IF t # "rec" \/ t \notin joined[i] THEN pc[t]
                ELSE IF pc[t] = "cancel" THEN "cancelled" ELSE pc[i]]
    /\ UNCHANGED <<serverKey, device, token, auth, deferred, call, reg, recovery, push, history, bounds>>

-----------------------------------------------------------------------------
(* Signing in, and attemptKeychainIdentityRestore.                          *)

\* The restore is over: a bootstrap loads the conversations, a retry goes on.
RestoreEnds(t) ==
    /\ pc' = [pc EXCEPT ![t] = IF t = "boot" THEN "loading" ELSE "restored"]
    /\ call' = [call EXCEPT ![t] = Idle] /\ reg' = [reg EXCEPT ![t] = NoKey]

\* Nothing to restore unless a private key has outlived its public row.
RestoreStarts(t, tok) ==
    IF identityKeyPublic # NoKey \/ cachedPrivateKey = NoKey
      THEN RestoreEnds(t)
      ELSE /\ pc' = [pc EXCEPT ![t] = "probe"]
           /\ call' = [call EXCEPT ![t] = Request("bundle", NoKey, tok)]
           /\ reg' = [reg EXCEPT ![t] = cachedPrivateKey]

ColdStart ==
    /\ pc["boot"] = "cold"
    /\ IF token = "none"
         THEN pc' = [pc EXCEPT !["boot"] = "off"] /\ UNCHANGED call
         ELSE /\ pc' = [pc EXCEPT !["boot"] = "verify"]
              /\ call' = [call EXCEPT !["boot"] = Request("verify", NoKey, token)]
    /\ UNCHANGED <<serverKey, device, token, session, reg, inits, recovery, push, history, bounds>>

LoginUser ==
    /\ pc["boot"] = "off" /\ ~auth
    /\ Overlap \/ (pc["retry"] = "off" /\ \A i \in Inits : pc[i] \notin {"saving", "provision"})
    /\ pc' = [pc EXCEPT !["boot"] = "signin"]
    /\ call' = [call EXCEPT !["boot"] = Request("login", NoKey, token)]
    /\ UNCHANGED <<serverKey, device, token, session, reg, inits, recovery, push, history, bounds>>

\* loginUser and restoreSession: setUser resets the flags, the bootstrap begins.
SignedIn ==
    /\ pc["boot"] \in {"verify", "signin"} /\ Answered("boot", "ok")
    /\ token' = IF pc["boot"] = "signin" THEN "live" ELSE token
    /\ auth' = TRUE /\ conflict' = "none" /\ deferred' = FALSE
    /\ RestoreStarts("boot", token')
    /\ UNCHANGED <<serverKey, device, inits, recovery, push, history, bounds>>

NotSignedIn ==
    /\ pc["boot"] \in {"verify", "signin"} /\ AnsweredIn("boot", {"lost", "denied"})
    /\ pc' = [pc EXCEPT !["boot"] = "off"] /\ call' = [call EXCEPT !["boot"] = Idle]
    /\ UNCHANGED <<serverKey, device, token, session, reg, inits, recovery, push, history, bounds>>

\* The banner, or the app coming to the foreground while the banner is shown.
RetryIdentityRestore ==
    /\ deferred /\ auth /\ conflict = "none" /\ pc["rec"] = "off" /\ pc["retry"] = "off"
    /\ RestoreStarts("retry", token)
    /\ UNCHANGED <<serverKey, device, token, session, inits, recovery, push, history, bounds>>

\* Mutant of Discarded: every answer that is not a match discards the key.
DiscardedUnlessMatch(t) == ~(Answered(t, "ok") /\ call[t].key = reg[t])

\* Mutant of Discarded: a private key is kept for an account that has no key.
KeptIfAbsent(t) == Answered(t, "ok") /\ call[t].key # reg[t]

\* The server has no key, or a key of which this is not the private half.
Discarded(t) == Answered(t, "absent") \/ (Answered(t, "ok") /\ call[t].key # reg[t])

\* Mutant of Matches: whatever key the server has is restored.
MatchesAny(t) == Answered(t, "ok")

\* verifyPrivateKeyMatchesPublic, on the private key read before the request.
Matches(t) == Answered(t, "ok") /\ call[t].key = reg[t]

RestoreDeferred(t) ==
    /\ pc' = [pc EXCEPT ![t] = IF t = "boot" THEN "deferred" ELSE "off"]
    /\ call' = [call EXCEPT ![t] = Idle] /\ reg' = [reg EXCEPT ![t] = NoKey]
    /\ deferred' = (deferred \/ t = "boot")
    /\ UNCHANGED <<keychain, cachedPrivateKey, identityKeyPublic>>

RestoreProbed(t) ==
    /\ pc[t] = "probe" /\ AnsweredIn(t, {"ok", "absent", "lost", "denied"})
    /\ \/ /\ Matches(t) /\ cachedPrivateKey # NoKey
          /\ pc' = [pc EXCEPT ![t] = "provision"] /\ call' = [call EXCEPT ![t] = Idle]
          /\ reg' = [reg EXCEPT ![t] = call[t].key]
          /\ UNCHANGED <<keychain, cachedPrivateKey, identityKeyPublic, deferred>>
       \/ /\ Discarded(t)
          /\ pc' = [pc EXCEPT ![t] = "clearing"] /\ call' = [call EXCEPT ![t] = Idle]
          /\ UNCHANGED <<keychain, cachedPrivateKey, identityKeyPublic, deferred, reg>>
       \/ /\ ~Discarded(t) /\ ~(Matches(t) /\ cachedPrivateKey # NoKey)
          /\ RestoreDeferred(t)
    /\ UNCHANGED faults

\* Removing a Keychain item is best effort.
RemoveSecureItem ==
    \/ keychain' = NoKey /\ UNCHANGED faults
    \/ Fault /\ UNCHANGED keychain

RestoreCleared(t) ==
    /\ pc[t] = "clearing" /\ RemoveSecureItem /\ cachedPrivateKey' = NoKey
    /\ RestoreEnds(t) /\ UNCHANGED <<identityKeyPublic, deferred>>

RestoreProvisioned(t) ==
    /\ pc[t] = "provision"
    /\ \/ /\ identityKeyPublic' = reg[t] /\ RestoreEnds(t)
          /\ UNCHANGED <<keychain, cachedPrivateKey, deferred, faults>>
       \/ Fault /\ RestoreDeferred(t)

Restore(t) ==
    /\ RestoreProbed(t) \/ RestoreCleared(t) \/ RestoreProvisioned(t)
    /\ UNCHANGED <<serverKey, bundleUploaded, token, auth, conflict, inits, recovery, push,
                   history, others>>

\* A retry that is no longer deferred runs the initialization that was put off.
RetryRestored ==
    /\ pc["retry"] = "restored" /\ deferred' = FALSE
    /\ EnsureKeysInitialized("retry", "init", token)
    /\ UNCHANGED <<serverKey, device, token, auth, conflict, recovery, push, history, bounds>>

\* The conversations are loaded; keys are initialized unless the restore was deferred.
Bootstrapped ==
    /\ \/ pc["boot"] = "loading" /\ EnsureKeysInitialized("boot", "off", token)
       \/ /\ pc["boot"] = "deferred" /\ pc' = [pc EXCEPT !["boot"] = "off"]
          /\ UNCHANGED <<call, reg, inits>>
    /\ UNCHANGED <<serverKey, device, token, session, recovery, push, history, bounds>>

-----------------------------------------------------------------------------
(* recoverIdentityKeys.                                                     *)

RecGoesTo(s, c) ==
    /\ pc' = [pc EXCEPT !["rec"] = s] /\ call' = [call EXCEPT !["rec"] = c]
    /\ UNCHANGED <<reg, inits>>

RecFails ==
    /\ RecGoesTo("off", Idle) /\ recovery' = [recovery EXCEPT !.result = "error"]

\* isLocalCryptoWiped
LocallyWiped == identityKeyPublic = NoKey \/ cachedPrivateKey = NoKey

\* Step 5, or step 6 when there is nothing to wipe.
WipeOrLogin(wiped) ==
    IF wiped THEN RecGoesTo("login", Request("login", NoKey, token)) ELSE RecGoesTo("wipe", Idle)

\* A recovery that a push asked for leaves the server alone.
Probes(skip) == ~skip

\* Steps 3 and 4, once no initialization is in flight.
CancelDone(r) ==
    /\ recovery' = [r EXCEPT !.wiped = LocallyWiped]
    /\ IF Probes(r.skip)
         THEN RecGoesTo("check", Request("bundle", NoKey, token))
         ELSE WipeOrLogin(LocallyWiped)

\* Steps 1 to 3: the conflict screen, or the row of the settings.
Recover ==
    /\ auth /\ pc["rec"] = "off"
    /\ Overlap \/ \A t \in Restorers : pc[t] = "off"
    /\ LET r == [NoRecovery EXCEPT !.skip = (conflict = "push")]
       IN  IF initializationPromise = None
             THEN CancelDone(r)
             ELSE /\ recovery' = r
                  /\ pc' = [pc EXCEPT !["rec"] = "cancel"]
                  /\ joined' = [joined EXCEPT ![initializationPromise] = @ \cup {"rec"}]
                  /\ initializationPromise' = None
                  /\ UNCHANGED <<call, reg>>
    /\ UNCHANGED <<device, token, session, history, faults>>

Cancelled ==
    /\ pc["rec"] = "cancelled" /\ CancelDone(recovery)
    /\ UNCHANGED <<device, token, session, history, faults>>

\* Step 4: the server is asked, whatever the device looks like.
Checked ==
    /\ pc["rec"] = "check" /\ AnsweredIn("rec", {"ok", "absent", "lost", "denied"})
    /\ \/ /\ Answered("rec", "ok") /\ RecGoesTo("reset", Request("reset", NoKey, token))
          /\ UNCHANGED recovery
       \/ AnsweredIn("rec", {"absent", "denied"}) /\ WipeOrLogin(recovery.wiped)
          /\ UNCHANGED recovery
       \/ Answered("rec", "lost") /\ RecFails
    /\ UNCHANGED <<device, token, session, history, faults>>

Reset ==
    /\ pc["rec"] = "reset" /\ AnsweredIn("rec", {"ok", "refused", "lost", "denied"})
    /\ IF Answered("rec", "ok")
         THEN WipeOrLogin(recovery.wiped) /\ UNCHANGED recovery
         ELSE RecFails
    /\ UNCHANGED <<device, token, session, history, faults>>

\* Step 5: fullCryptoWipe removes the Keychain item first ...
WipeKeychain ==
    /\ pc["rec"] = "wipe" /\ RemoveSecureItem /\ RecGoesTo("wipeDb", Idle)
    /\ UNCHANGED <<cachedPrivateKey, identityKeyPublic, bundleUploaded, token, session, recovery,
                   history>>

\* Mutant of RowsDeleted: the wipe forgets the upload flag.
OnlyKeyDeleted == identityKeyPublic' = NoKey /\ UNCHANGED bundleUploaded

RowsDeleted == identityKeyPublic' = NoKey /\ bundleUploaded' = FALSE

\* ... then clears the cache and empties the tables, in a transaction that may fail.
WipeDatabase ==
    /\ pc["rec"] = "wipeDb" /\ cachedPrivateKey' = NoKey
    /\ \/ /\ RowsDeleted /\ torn' = FALSE
          /\ RecGoesTo("login", Request("login", NoKey, token))
          /\ UNCHANGED <<recovery, faults>>
       \/ /\ Fault /\ RecFails /\ torn' = TRUE
          /\ UNCHANGED <<identityKeyPublic, bundleUploaded>>
    /\ UNCHANGED <<keychain, token, session, loggedOut>>

\* Step 6: a login refused once is tried again.
LoggedIn ==
    /\ pc["rec"] \in {"login", "loginAgain"} /\ Answered("rec", "ok")
    /\ token' = "live" /\ auth' = TRUE /\ conflict' = "none" /\ deferred' = FALSE
    /\ IF pc["rec"] = "login" /\ Probes(recovery.skip)
         THEN RecGoesTo("recheck", Request("bundle", NoKey, "live"))
         ELSE EnsureKeysInitialized("rec", "init", "live")
    /\ recovery' = [recovery EXCEPT !.again = FALSE]
    /\ UNCHANGED <<device, history, faults>>

LoginFails ==
    /\ pc["rec"] \in {"login", "loginAgain"} /\ AnsweredIn("rec", {"denied", "lost"})
    /\ IF Answered("rec", "denied") /\ ~recovery.again
         THEN /\ RecGoesTo(pc["rec"], Request("login", NoKey, token))
              /\ recovery' = [recovery EXCEPT !.again = TRUE]
         ELSE RecFails
    /\ UNCHANGED <<device, token, session, history, faults>>

\* Step 6b: a key that is still there is reset now, and the token replaced again.
Rechecked ==
    /\ pc["rec"] = "recheck" /\ AnsweredIn("rec", {"ok", "absent", "lost", "denied"})
    /\ IF Answered("rec", "ok")
         THEN RecGoesTo("resetAgain", Request("reset", NoKey, token))
         ELSE EnsureKeysInitialized("rec", "init", token)
    /\ UNCHANGED <<device, token, session, recovery, history, faults>>

ResetAgain ==
    /\ pc["rec"] = "resetAgain" /\ AnsweredIn("rec", {"ok", "refused", "lost", "denied"})
    /\ IF Answered("rec", "ok")
         THEN RecGoesTo("loginAgain", Request("login", NoKey, token))
         ELSE EnsureKeysInitialized("rec", "init", token)
    /\ UNCHANGED <<device, token, session, recovery, history, faults>>

\* Steps 7 and 8: the outcome of the initialization is the recovery's.
Recovered ==
    /\ pc["rec"] \in {"done", "failed", "conflicted"} /\ RecGoesTo("off", Idle)
    /\ conflict' = CASE pc["rec"] = "done" -> "none"
                     [] pc["rec"] = "conflicted" -> "local"
                     [] OTHER -> conflict
    /\ recovery' = [recovery EXCEPT !.result = IF pc["rec"] = "done" THEN "success" ELSE "error"]
    /\ UNCHANGED <<device, token, auth, deferred, history, faults>>

Recovering ==
    /\ \/ Cancelled \/ Checked \/ Reset \/ WipeKeychain \/ WipeDatabase
       \/ LoggedIn \/ LoginFails \/ Rechecked \/ ResetAgain \/ Recovered
    /\ UNCHANGED <<serverKey, push, others>>

-----------------------------------------------------------------------------
(* The platform, the user and the account's other devices.                  *)

\* The app is killed, perhaps between the two halves of a wipe.
Restart ==
    /\ Fault /\ Launch
    /\ torn' = (torn \/ pc["rec"] = "wipeDb")
    /\ UNCHANGED <<serverKey, keychain, identityKeyPublic, bundleUploaded, token, push, others>>

\* The app is opened again some time after everything has settled.
Relaunch ==
    /\ \A t \in Tasks : pc[t] = "off"
    /\ Launch
    /\ UNCHANGED <<serverKey, keychain, identityKeyPublic, bundleUploaded, token, push, torn, bounds>>

\* The app is deleted and installed again: the Keychain survives, the database does not.
Reinstall ==
    /\ Fault /\ Launch
    /\ identityKeyPublic' = NoKey /\ bundleUploaded' = FALSE /\ torn' = FALSE
    /\ UNCHANGED <<serverKey, keychain, token, push, others>>

\* localWipe with preserveIdentity clears the cache, which only a launch reads again.
Logout ==
    /\ auth /\ pc["rec"] = "off"
    /\ token' = "none" /\ cachedPrivateKey' = NoKey /\ loggedOut' = TRUE
    /\ auth' = FALSE /\ conflict' = "none" /\ deferred' = FALSE
    /\ UNCHANGED <<serverKey, keychain, identityKeyPublic, bundleUploaded, pc, call, reg,
                   inits, recovery, push, torn, bounds>>

\* identity_key_reset, dropped by the device that is recovering and before sign-in.
PushArrives ==
    /\ push /\ push' = FALSE
    /\ conflict' = IF auth /\ pc["rec"] = "off" THEN "push" ELSE conflict
    /\ UNCHANGED <<serverKey, device, token, auth, deferred, pc, call, reg, inits,
                   recovery, history, bounds>>

\* Another device of the account resets the key, or registers its own.
OtherDevice ==
    /\ others < MaxOthers /\ others' = others + 1
    /\ \/ /\ serverKey' = NoKey /\ token' = RevokedToken /\ call' = Revoked(call) /\ push' = TRUE
       \/ /\ serverKey = NoKey /\ serverKey' \in Fresh /\ UNCHANGED <<token, call, push>>
    /\ recovery' = [recovery EXCEPT !.cut = TRUE]
    /\ UNCHANGED <<device, session, pc, reg, inits, history, faults>>

Environment == Restart \/ Relaunch \/ Reinstall \/ Logout \/ PushArrives \/ OtherDevice

UserActs == LoginUser \/ RetryIdentityRestore \/ (Recover /\ UNCHANGED <<serverKey, push, others>>)

Calls == \E t \in Tasks : Serve(t) \/ Lose(t) \/ Unauthorized(t)

Initializing == \E i \in Inits : Initialize(i) \/ InitEnds(i)

Bootstrapping ==
    \/ ColdStart \/ SignedIn \/ NotSignedIn \/ Bootstrapped \/ RetryRestored
    \/ \E t \in Restorers : Restore(t)

Next == Calls \/ Initializing \/ Bootstrapping \/ Recovering \/ UserActs \/ Environment

Spec == Init /\ [][Next]_vars

\* A user whose keys are in conflict, or whose last recovery failed, tries again.
RecoverAgain == Recover /\ (conflict # "none" \/ recovery.result = "error")
                        /\ UNCHANGED <<serverKey, push, others>>

\* Every call is answered in the end, every task resumes, the user signs in and
\* keeps trying, the app is opened again and again, and a rotation is due at times.
Fairness ==
    /\ \A t \in Tasks : WF_vars(Serve(t)) /\ WF_vars(Unauthorized(t))
    /\ \A i \in Inits : WF_vars(Initialize(i)) /\ WF_vars(InitEnds(i))
    /\ WF_vars(ColdStart \/ SignedIn \/ NotSignedIn \/ Bootstrapped \/ Restore("boot"))
    /\ WF_vars(RetryRestored \/ Restore("retry")) /\ WF_vars(Recovering)
    /\ SF_vars(LoginUser) /\ SF_vars(RecoverAgain) /\ SF_vars(Relaunch)
    /\ \A i \in Inits : SF_vars(Initialize(i) /\ InitRotates(i))

LiveSpec == Spec /\ Fairness

-----------------------------------------------------------------------------
(* Properties.                                                              *)

PCs == {"off", "cold", "verify", "signin", "probe", "clearing", "provision", "loading", "deferred",
        "restored", "init", "saving", "upload", "maintain", "replenish", "done", "failed", "conflicted",
        "cancel", "cancelled", "check", "reset", "wipe", "wipeDb", "login", "recheck",
        "resetAgain", "loginAgain"}
Whats == {"none", "bundle", "reset", "upload", "login", "verify",
          "ok", "absent", "unauth", "denied", "refused", "conflict", "lost"}
KeyOrNone == Keys \cup {NoKey}
CallStates == [at : {"none", "out", "back"}, what : Whats, key : KeyOrNone, live : BOOLEAN]

TypeOK ==
    /\ {serverKey, keychain, cachedPrivateKey, identityKeyPublic} \subseteq KeyOrNone
    /\ bundleUploaded \in BOOLEAN /\ token \in {"none", "live", "dead"}
    /\ auth \in BOOLEAN /\ conflict \in {"none", "local", "push"} /\ deferred \in BOOLEAN
    /\ pc \in [Tasks -> PCs]
    /\ call \in [Tasks -> CallStates]
    /\ reg \in [Tasks -> KeyOrNone]
    /\ initializationPromise \in Inits \cup {None}
    /\ joined \in [Inits -> SUBSET {"boot", "retry", "rec"}]
    /\ recovery \in [skip : BOOLEAN, wiped : BOOLEAN, again : BOOLEAN, cut : BOOLEAN,
                     result : {"none", "success", "error"}]
    /\ push \in BOOLEAN /\ torn \in BOOLEAN /\ loggedOut \in BOOLEAN
    /\ faults \in 0..MaxFaults /\ others \in 0..MaxOthers

\* The device holds both halves of one key pair.
HasPair == identityKeyPublic # NoKey /\ keychain = identityKeyPublic
               /\ cachedPrivateKey = identityKeyPublic

\* A public row has its private half in the Keychain, and in the cache but for a
\* launch that has logged out.
PairWhole ==
    identityKeyPublic # NoKey /\ ~torn /\ pc["rec"] # "wipeDb"
        => keychain = identityKeyPublic /\ (loggedOut \/ HasPair)

\* A recovery that reports success leaves a whole pair, which the server has
\* registered unless another device has interfered.
Succeeds == recovery'.result = "success" /\ recovery.result # "success"
SuccessHasKeys ==
    [][Succeeds /\ ~torn /\ ~loggedOut
        => HasPair /\ (recovery.cut \/ serverKey = identityKeyPublic)]_vars

\* The private half of the registered key is replaced or removed while a recovery
\* runs, and otherwise only in a launch that has logged out.
Registered == keychain # NoKey /\ keychain = serverKey
KeyKept == [][Registered /\ keychain' # keychain => pc["rec"] # "off" \/ loggedOut]_vars

\* A recovery that has begun ends with a whole pair that the server has registered,
\* unless the wipe was torn or the launch has logged out.
Recovers ==
    pc["rec"] # "off" ~> (HasPair /\ serverKey = identityKeyPublic) \/ torn \/ loggedOut

\* What the restore promises: but for a recovery, a key that has survived is kept.
SurvivingKeyKept == [][Registered /\ keychain' # keychain => pc["rec"] # "off"]_vars

\* What the guard of generateInitialKeys promises: no initialization finds a private
\* key without its public row.
NeverRefused == [][\A i \in Inits : pc[i] = "off" => pc'[i] # "failed"]_vars

\* What the recovery promises: success means fresh keys.
SuccessMeansKeys == [][Succeeds => HasPair]_vars
=============================================================================
