---------------------- MODULE NotificationSettingsSync ----------------------
(***************************************************************************)
(* Muted threads and groups, and the notification preferences, kept in     *)
(* step with the server (src/src/services/notificationSettingsSync.ts and  *)
(* src/src/stores/slices/notificationSlice.ts).                            *)
(*                                                                         *)
(* The store flips at once and a queue that survives restarts remembers    *)
(* the mutes the server has not confirmed.  A runner per target or key     *)
(* drives the server to the latest intent; a sync drains the queue, reads  *)
(* the server's settings and overlays what is still unconfirmed.           *)
(*                                                                         *)
(* A call in flight is a record in `driver`, `setter` or `sync`.  A wipe   *)
(* advances the epoch: here it marks the calls in flight as stale.         *)
(***************************************************************************)
EXTENDS Naturals, FiniteSets

CONSTANTS
    Users, Targets, Keys,
    Taps,         \* bound on toggleMute and on setPref calls in flight
    Syncs,        \* bound on syncNotificationSettings calls in flight
    MaxAttempts,  \* MAX_MUTE_ATTEMPTS
    MaxQueue,     \* MAX_PENDING_MUTE_OPS
    InitialMutes, \* what an account may have muted on the server
    MaxEvents,    \* bound on what the user, the account and the platform do
    None, Sent, Failed

ASSUME BoundsAssumption == MaxAttempts \in Nat /\ MaxQueue \in Nat /\ MaxEvents \in Nat
ASSUME MutesAssumption == InitialMutes \subseteq SUBSET Targets
ASSUME NoneAssumption ==
    /\ None \notin Users \cup Targets \cup BOOLEAN
    /\ \A answer \in (SUBSET Targets) \cup [Keys -> BOOLEAN] : answer # Sent /\ answer # Failed
    /\ Sent # Failed /\ Sent \notin {"ok", "retry", "auth", "refused"}

VARIABLES
    muted,     \* mutedTargets: the account a target is muted for, or None
    pending,   \* pendingMuteOps
    prefs,     \* notificationPrefs
    runners,   \* targets with an interactive runner
    intents,   \* pendingPrefIntents
    draining, rerun,
    driver,    \* driveMute calls, each with its request
    setter,    \* drivePref calls, each with its request
    sync,      \* syncNotificationSettings calls
    server,    \* the server's settings of each account
    userId, lastUser,
    bootstrapping,  \* postAuthBootstrap has its sync ahead of it
    wiping,    \* the wipe that has begun: none, or a logout's, a deletion's, a key recovery's
    kept,      \* history: settings outlived the account they belong to
    torn,      \* history: targets a restart found reverted and still queued
    lateEnd,   \* history: a runner of an earlier epoch has ended
    events     \* taps, refusals, sign-ins, sign-outs, wipes and restarts so far

store == <<muted, pending, prefs>>
flags == <<draining, rerun>>
account == <<userId, lastUser, bootstrapping, wiping>>
history == <<kept, torn, lateEnd, events>>
vars == <<store, runners, intents, flags, driver, setter, sync, server, account, history>>

Ops == [muted : BOOLEAN, owner : Users, attempts : Nat]
Settings == [mutes : SUBSET Targets, prefs : [Keys -> BOOLEAN]]

Answers == {Sent, "ok", "retry", "auth", "refused"}

\* One more of the events that MaxEvents bounds.
Event == events < MaxEvents /\ events' = events + 1

Queued(queue) == {t \in Targets : queue[t] # None}
Free(calls) == {c \in DOMAIN calls : calls[c] = None}

\* The default is that every kind of notification is on.
DefaultPrefs == [k \in Keys |-> TRUE]
NoMutes == [t \in Targets |-> None]

\* The module state of a launch.
Idle ==
    /\ runners = {} /\ intents = [k \in Keys |-> None]
    /\ draining = FALSE /\ rerun = FALSE
    /\ driver = [c \in Taps |-> None]
    /\ setter = [c \in Taps |-> None]
    /\ sync = [s \in Syncs |-> None]

Init ==
    /\ Idle
    /\ muted = NoMutes /\ pending = NoMutes /\ prefs = DefaultPrefs
    /\ server \in [Users -> {[mutes |-> m, prefs |-> DefaultPrefs] : m \in InitialMutes}]
    /\ userId = None /\ lastUser = None /\ bootstrapping = FALSE /\ wiping = "no"
    /\ kept = FALSE /\ torn = {} /\ lateEnd = FALSE /\ events = 0

-----------------------------------------------------------------------------
(* Muting.                                                                  *)

Without(queue, ids) == [t \in Targets |-> IF t \in ids THEN None ELSE queue[t]]

\* applyMuteIntent: at the cap a target the queue does not know is not queued.
Enqueued(t, op) ==
    IF pending[t] = None /\ Cardinality(Queued(pending)) >= MaxQueue
      THEN pending
      ELSE [pending EXCEPT ![t] = op]

\* The store as it was before an attempt to mute or unmute.
Reverted(t, wasMuting, owner) == [muted EXCEPT ![t] = IF wasMuting THEN None ELSE owner]

MuteRequest(t, op) ==
    [target |-> t, muted |-> op.muted, owner |-> op.owner, as |-> userId,
     answer |-> Sent, stale |-> FALSE]

\* The settings are out of reach while a key recovery has forgotten the account.
CanTap == userId # None /\ userId = lastUser

\* Mutant of HasRunner: a second tap starts a second runner.
NeverOwned(t) == FALSE

HasRunner(t) == t \in runners

\* A tap while a runner owns the target leaves the intent to the runner.
ToggleMute(t) ==
    LET op == [muted |-> muted[t] = None, owner |-> userId, attempts |-> 0]
    IN  /\ CanTap /\ Event
        /\ muted' = [muted EXCEPT ![t] = IF op.muted THEN userId ELSE None]
        /\ pending' = Enqueued(t, op)
        /\ \/ HasRunner(t) /\ UNCHANGED <<runners, driver>>
           \/ /\ ~HasRunner(t)
              /\ runners' = runners \cup {t}
              /\ \E c \in Free(driver) : driver' = [driver EXCEPT ![c] = MuteRequest(t, op)]
        /\ UNCHANGED <<prefs, intents, flags, setter, sync, server, account, kept, torn, lateEnd>>

\* finally: the runner's entry is deleted, whatever its epoch.
RunnerEnds(c) ==
    /\ runners' = runners \ {driver[c].target}
    /\ driver' = [driver EXCEPT ![c] = None]
    /\ lateEnd' = (lateEnd \/ driver[c].stale)

Settled(op, intent) == op # None => op.muted = intent

\* A failure that another attempt could cure changes nothing.
MuteFails(c) ==
    LET r == driver[c]
    IN  /\ r.answer \in {"retry", "auth", "refused"} /\ RunnerEnds(c)
        /\ IF r.answer = "refused" /\ ~r.stale
             THEN /\ muted' = Reverted(r.target, r.muted, r.owner)
                  /\ pending' = Without(pending, {r.target})
             ELSE UNCHANGED <<muted, pending>>

\* The runner ends when the intent has not moved, and sends the newer one if it has.
MuteConfirmed(c) ==
    LET r == driver[c]
        latest == pending[r.target]
    IN  /\ r.answer = "ok" /\ UNCHANGED muted
        /\ \/ /\ r.stale \/ Settled(latest, r.muted)
              /\ pending' = IF r.stale THEN pending ELSE Without(pending, {r.target})
              /\ RunnerEnds(c)
           \/ /\ ~r.stale /\ ~Settled(latest, r.muted)
              /\ driver' = [driver EXCEPT ![c] = MuteRequest(r.target, latest)]
              /\ UNCHANGED <<pending, runners, lateEnd>>

DriveMute(c) ==
    /\ driver[c] # None /\ (MuteFails(c) \/ MuteConfirmed(c))
    /\ UNCHANGED <<prefs, intents, flags, setter, sync, server, account, kept, torn, events>>

-----------------------------------------------------------------------------
(* Preferences.                                                             *)

PrefRequest(k, value, believed) ==
    [key |-> k, value |-> value, believed |-> believed, as |-> userId,
     answer |-> Sent, stale |-> FALSE]

SetPref(k) ==
    LET value == ~prefs[k]
    IN  /\ CanTap /\ Event
        /\ prefs' = [prefs EXCEPT ![k] = value]
        /\ intents' = [intents EXCEPT ![k] = value]
        /\ \/ intents[k] # None /\ UNCHANGED setter
           \/ /\ intents[k] = None
              /\ \E c \in Free(setter) :
                   setter' = [setter EXCEPT ![c] = PrefRequest(k, value, prefs[k])]
        /\ UNCHANGED <<muted, pending, runners, flags, driver, sync, server, account, kept, torn, lateEnd>>

\* finally: the key's intent is deleted, whatever its epoch.
SetterEnds(c) ==
    /\ intents' = [intents EXCEPT ![setter[c].key] = None]
    /\ setter' = [setter EXCEPT ![c] = None]

\* The runner's answer: rolled back, confirmed, or superseded by a newer intent.
DrivePref(c) ==
    LET r == setter[c]
        moved == intents[r.key] \notin {None, r.value}
    IN  /\ r # None /\ r.answer # Sent
        /\ \/ r.stale /\ SetterEnds(c) /\ UNCHANGED prefs
           \/ /\ ~r.stale /\ r.answer # "ok" /\ SetterEnds(c)
              /\ prefs' = [prefs EXCEPT ![r.key] = r.believed]
           \/ /\ ~r.stale /\ r.answer = "ok" /\ ~moved /\ SetterEnds(c)
              /\ prefs' = [prefs EXCEPT ![r.key] = r.value]
           \/ /\ ~r.stale /\ r.answer = "ok" /\ moved
              /\ setter' = [setter EXCEPT ![c] = PrefRequest(r.key, intents[r.key], r.value)]
              /\ UNCHANGED <<prefs, intents>>
        /\ UNCHANGED <<muted, pending, runners, flags, driver, sync, server, account, history>>

-----------------------------------------------------------------------------
(* The drain, which is the first part of a sync.                            *)

\* Mutant of Sendable: the owner of an entry is not looked at.
SendableForAnyone(queue, user) == Queued(queue) \ runners

Sendable(queue, user) == {t \in Queued(queue) \ runners : queue[t].owner = user}

Foreign(queue, user) == {t \in Queued(queue) \ runners : queue[t].owner # user}

\* The loop of drainOnce up to its next request, in the order of the keys, which is any.
Passes(queue, user, todo, cleared) ==
    LET sendable == Sendable(queue, user) \cap todo
        foreign == Foreign(queue, user) \cap todo
    IN  IF sendable = {}
          THEN {[next |-> None, todo |-> {}, cleared |-> cleared \cup foreign]}
          ELSE {[next |-> t, todo |-> todo \ (passed \cup {t}),
                 cleared |-> cleared \cup (foreign \cap passed)] :
                  t \in sendable, passed \in SUBSET (todo \ sendable)}

\* orphan and stale: the epoch has moved since this pass, since this sync, began.
DrainRequest(queue, user, pass, stale) ==
    [stage |-> "drain", user |-> user, todo |-> pass.todo, cleared |-> pass.cleared,
     target |-> pass.next, op |-> queue[pass.next], as |-> userId, answer |-> Sent,
     orphan |-> FALSE, stale |-> stale]

ReadRequests(stale) ==
    [stage |-> "read", as |-> userId, mutes |-> Sent, prefs |-> Sent, stale |-> stale]

\* What the pass has cleared leaves the queue in one write, and the reads go out.
DrainEnds(s, queue, cleared, stale) ==
    /\ pending' = Without(queue, cleared)
    /\ draining' = FALSE
    /\ sync' = [sync EXCEPT ![s] = ReadRequests(stale)]

\* A pass over the queue goes on to its next request or ends.
Pass(s, queue, user, todo, cleared, stale) ==
    \E pass \in Passes(queue, user, todo, cleared) :
        IF pass.next = None
          THEN DrainEnds(s, queue, pass.cleared, stale)
          ELSE /\ pending' = queue /\ UNCHANGED draining
               /\ sync' = [sync EXCEPT ![s] = DrainRequest(queue, user, pass, stale)]

\* A pass that cannot go on: another one is run if a sync asked for it meanwhile.
PassEnds(s, queue, stale) ==
    IF rerun
      THEN rerun' = FALSE /\ Pass(s, queue, userId, Queued(queue), {}, stale)
      ELSE DrainEnds(s, queue, {}, stale) /\ UNCHANGED rerun

\* A pass over what is left of the queue, which may end and be run again.
PassGoesOn(s, r, cleared) ==
    \E pass \in Passes(pending, r.user, r.todo, cleared) :
        IF pass.next = None
          THEN PassEnds(s, Without(pending, pass.cleared), r.stale)
          ELSE /\ UNCHANGED <<pending, flags>>
               /\ sync' = [sync EXCEPT ![s] = DrainRequest(pending, r.user, pass, r.stale)]

GivenUp(op) == op.attempts + 1 >= MaxAttempts

\* Mutant of Bumped: an intent the server never takes is replayed for ever.
NeverBumped(t) == pending

Bumped(t) ==
    IF pending[t] = None THEN pending ELSE [pending EXCEPT ![t].attempts = @ + 1]

DrainResumes(s) ==
    LET r == sync[s]
        clearedNow == r.cleared \cup {r.target}
    IN  \/ /\ r.orphan /\ UNCHANGED muted
           /\ PassEnds(s, pending, r.stale)
        \/ /\ ~r.orphan /\ r.answer = "ok" /\ UNCHANGED muted
           /\ PassGoesOn(s, r, clearedNow)
        \/ /\ ~r.orphan /\ r.answer = "refused"
           /\ muted' = Reverted(r.target, r.op.muted, r.op.owner)
           /\ PassGoesOn(s, r, clearedNow)
        \/ /\ ~r.orphan /\ r.answer = "auth" /\ UNCHANGED muted
           /\ PassEnds(s, Without(pending, r.cleared), r.stale)
        \/ /\ ~r.orphan /\ r.answer = "retry" /\ GivenUp(r.op)
           /\ muted' = Reverted(r.target, r.op.muted, r.op.owner)
           /\ PassEnds(s, Without(pending, clearedNow), r.stale)
        \/ /\ ~r.orphan /\ r.answer = "retry" /\ ~GivenUp(r.op) /\ UNCHANGED muted
           /\ PassEnds(s, Without(Bumped(r.target), r.cleared), r.stale)

Drain(s) ==
    /\ sync[s] # None /\ sync[s].stage = "drain" /\ sync[s].answer # Sent
    /\ DrainResumes(s)
    /\ UNCHANGED <<prefs, runners, intents, driver, setter, server, account, history>>

\* A sync drains the queue first, unless a drain is running, which is asked to run again.
SyncStarts ==
    /\ \E s \in Free(sync) :
         \/ /\ draining /\ rerun' = TRUE
            /\ sync' = [sync EXCEPT ![s] = ReadRequests(FALSE)]
            /\ UNCHANGED <<pending, draining>>
         \/ /\ ~draining /\ rerun' = FALSE
            /\ \E pass \in Passes(pending, userId, Queued(pending), {}) :
                 IF pass.next = None
                   THEN DrainEnds(s, pending, pass.cleared, FALSE)
                   ELSE /\ draining' = TRUE /\ UNCHANGED pending
                        /\ sync' = [sync EXCEPT ![s] = DrainRequest(pending, userId, pass, FALSE)]
    /\ UNCHANGED <<muted, prefs, runners, intents, driver, setter, server, userId, lastUser,
                   wiping, history>>

\* The debounce timer of a return to the foreground asks whether a user is signed in.
ForegroundSync == userId # None /\ SyncStarts /\ UNCHANGED bootstrapping

\* The last step of the bootstrap after a sign-in does not.
PostAuthSync == bootstrapping /\ bootstrapping' = FALSE /\ SyncStarts

-----------------------------------------------------------------------------
(* The reads of a sync and what is written from them.                       *)

\* Mutant of Overlay: the server's mutes are taken as they are.
NoOverlay(t, mutes, as) == IF t \in mutes THEN as ELSE None

\* Mutant of Overlay: the flag of the intent is stored.
FlagStored(t, mutes, as) ==
    IF pending[t] # None THEN pending[t].muted ELSE IF t \in mutes THEN as ELSE None

\* A queued intent of the account wins over the server's answer.
Overlay(t, mutes, as) ==
    IF pending[t] # None /\ pending[t].owner = userId
      THEN IF pending[t].muted THEN userId ELSE None
      ELSE IF t \in mutes THEN as ELSE None

\* Mutant of OverlayPref: the server's preferences are taken as they are.
NoOverlayPref(k, read) == read

\* An intent whose request has not been confirmed wins too.
OverlayPref(k, read) == IF intents[k] # None THEN intents[k] ELSE read

Outlived == {t \in Queued(pending) : pending[t].owner # userId}

ApplySync(s) ==
    LET r == sync[s]
        applied == ~r.stale
        gotMutes == applied /\ r.mutes # Failed
        gotPrefs == applied /\ r.prefs # Failed
    IN  /\ r # None /\ r.stage = "read" /\ r.mutes # Sent /\ r.prefs # Sent
        /\ muted' = IF gotMutes THEN [t \in Targets |-> Overlay(t, r.mutes, r.as)] ELSE muted
        /\ pending' = IF gotMutes THEN Without(pending, Outlived) ELSE pending
        /\ prefs' = IF gotPrefs
                      THEN [k \in Keys |-> OverlayPref(k, r.prefs[k])]
                      ELSE prefs
        /\ sync' = [sync EXCEPT ![s] = None]
        /\ UNCHANGED <<runners, intents, flags, driver, setter, server, account, history>>

-----------------------------------------------------------------------------
(* The server.                                                              *)

WithMute(u, t, on) ==
    [server EXCEPT ![u].mutes = IF on THEN @ \cup {t} ELSE @ \ {t}]

\* How the server takes a request to mute or unmute; what was lost may have been applied.
Answered(r, t, on, answer) ==
    \/ r.as # None /\ answer = "ok" /\ server' = WithMute(r.as, t, on) /\ UNCHANGED events
    \/ r.as # None /\ answer = "retry" /\ server' \in {server, WithMute(r.as, t, on)} /\ UNCHANGED events
    \/ r.as = None /\ answer = "auth" /\ UNCHANGED <<server, events>>
    \/ r.as # None /\ answer \in {"auth", "refused"} /\ Event /\ UNCHANGED server

AnswerMute(c) ==
    /\ driver[c] # None /\ driver[c].answer = Sent
    /\ \E answer \in Answers :
         /\ Answered(driver[c], driver[c].target, driver[c].muted, answer)
         /\ driver' = [driver EXCEPT ![c].answer = answer]
    /\ UNCHANGED <<store, runners, intents, flags, setter, sync, account, kept, torn, lateEnd>>

AnswerDrain(s) ==
    /\ sync[s] # None /\ sync[s].stage = "drain" /\ sync[s].answer = Sent
    /\ \E answer \in Answers :
         /\ Answered(sync[s], sync[s].target, sync[s].op.muted, answer)
         /\ sync' = [sync EXCEPT ![s].answer = answer]
    /\ UNCHANGED <<store, runners, intents, flags, driver, setter, account, kept, torn, lateEnd>>

AnswerPref(c) ==
    LET r == setter[c]
        applied == [server EXCEPT ![r.as].prefs[r.key] = r.value]
    IN  /\ r # None /\ r.answer = Sent
        /\ \/ /\ r.as # None /\ server' = applied
              /\ setter' = [setter EXCEPT ![c].answer = "ok"]
           \/ /\ server' \in {server} \cup (IF r.as = None THEN {} ELSE {applied})
              /\ setter' = [setter EXCEPT ![c].answer = "retry"]
        /\ UNCHANGED <<store, runners, intents, flags, driver, sync, account, history>>

\* A read of the mutes, a read of the preferences, or the failure of either.
Reading(s, part) == sync[s] # None /\ sync[s].stage = "read" /\ sync[s][part] = Sent

ReadMutes(s) ==
    /\ Reading(s, "mutes") /\ sync[s].as # None
    /\ sync' = [sync EXCEPT ![s].mutes = server[sync[s].as].mutes]
    /\ UNCHANGED <<store, runners, intents, flags, driver, setter, server, account, history>>

ReadPrefs(s) ==
    /\ Reading(s, "prefs") /\ sync[s].as # None
    /\ sync' = [sync EXCEPT ![s].prefs = server[sync[s].as].prefs]
    /\ UNCHANGED <<store, runners, intents, flags, driver, setter, server, account, history>>

ReadFails(s) ==
    /\ \E part \in {"mutes", "prefs"} :
         Reading(s, part) /\ sync' = [sync EXCEPT ![s][part] = Failed]
    /\ UNCHANGED <<store, runners, intents, flags, driver, setter, server, account, history>>

-----------------------------------------------------------------------------
(* The account, wipes and restarts.                                         *)

\* An account may sign in when it is the one the database belongs to, or none is.
SignIn(u) ==
    /\ Event /\ wiping = "no" /\ userId \in {None, u} /\ lastUser \in {None, u}
    /\ <<userId, lastUser>> # <<u, u>>
    /\ userId' = u /\ lastUser' = u /\ bootstrapping' = TRUE
    /\ UNCHANGED <<store, runners, intents, flags, driver, setter, sync, server, wiping, kept, torn, lateEnd>>

\* A 401 clears the tokens and the signed-in user, except during a key recovery.
ClearAuth ==
    /\ Event /\ userId # None /\ wiping # "recovery" /\ userId' = None
    /\ UNCHANGED <<store, runners, intents, flags, driver, setter, sync, server, lastUser,
                   bootstrapping, wiping, kept, torn, lateEnd>>

\* Mutant of Stale: the epoch is not advanced.
EpochKept(calls) == calls

Stale(calls) ==
    [c \in DOMAIN calls |-> IF calls[c] = None THEN None ELSE [calls[c] EXCEPT !.stale = TRUE]]

\* A sync that is still draining also holds the epoch its pass began in.
StaleSyncs ==
    [s \in Syncs |->
       IF sync[s] = None \/ sync[s].stage = "read" THEN Stale(sync)[s]
       ELSE [sync[s] EXCEPT !.stale = TRUE, !.orphan = TRUE]]

ClearNotificationSyncState ==
    /\ driver' = Stale(driver) /\ setter' = Stale(setter) /\ sync' = StaleSyncs
    /\ runners' = {} /\ intents' = [k \in Keys |-> None]
    /\ draining' = FALSE /\ rerun' = FALSE

StartWipe(kind) ==
    /\ Event /\ wiping = "no" /\ userId # None
    /\ wiping' = kind /\ userId' = None
    /\ UNCHANGED <<store, runners, intents, flags, driver, setter, sync, server, lastUser,
                   bootstrapping, kept, torn, lateEnd>>

\* localWipe after clearTokens; a deletion also removes the database.
Wipe ==
    /\ wiping \in {"logout", "deletion"} /\ wiping' = "no"
    /\ ClearNotificationSyncState
    /\ muted' = NoMutes /\ pending' = NoMutes /\ prefs' = DefaultPrefs /\ kept' = FALSE
    /\ lastUser' = IF wiping = "deletion" THEN None ELSE lastUser
    /\ UNCHANGED <<server, userId, bootstrapping, torn, lateEnd, events>>

\* A key recovery forgets the account with the database rows, then clears the queue; the
\* mutes and the preferences stay.
ForgetAccount ==
    /\ Event /\ wiping = "no" /\ userId # None
    /\ wiping' = "recovery" /\ lastUser' = None /\ kept' = TRUE
    /\ UNCHANGED <<store, runners, intents, flags, driver, setter, sync, server, userId,
                   bootstrapping, torn, lateEnd>>

RecoveryWipe ==
    /\ wiping = "recovery" /\ wiping' = "no"
    /\ ClearNotificationSyncState
    /\ pending' = NoMutes
    /\ UNCHANGED <<muted, prefs, server, userId, lastUser, bootstrapping, history>>

Drains == {s \in Syncs : sync[s] # None /\ sync[s].stage = "drain"}

\* A drain of this session has the target among those it will clear.
BeingCleared(t) == \E s \in Drains : ~sync[s].orphan /\ t \in sync[s].cleared

\* The store survives a restart; a request in flight has been applied or never is.
Restart ==
    /\ Event
    /\ runners' = {} /\ intents' = [k \in Keys |-> None]
    /\ draining' = FALSE /\ rerun' = FALSE
    /\ driver' = [c \in Taps |-> None]
    /\ setter' = [c \in Taps |-> None]
    /\ sync' = [s \in Syncs |-> None]
    /\ userId' = None /\ bootstrapping' = FALSE /\ wiping' = "no"
    /\ torn' = torn \cup {t \in Targets : BeingCleared(t)}
    /\ UNCHANGED <<store, server, lastUser, kept, lateEnd>>

Server ==
    \/ \E c \in Taps : AnswerMute(c) \/ AnswerPref(c)
    \/ \E s \in Syncs : AnswerDrain(s) \/ ReadMutes(s) \/ ReadPrefs(s) \/ ReadFails(s)

App ==
    \/ \E t \in Targets : ToggleMute(t)
    \/ \E k \in Keys : SetPref(k)
    \/ \E c \in Taps : DriveMute(c) \/ DrivePref(c)
    \/ \E s \in Syncs : Drain(s) \/ ApplySync(s)
    \/ ForegroundSync \/ PostAuthSync

Environment ==
    \/ \E u \in Users : SignIn(u)
    \/ \E kind \in {"logout", "deletion"} : StartWipe(kind)
    \/ ClearAuth \/ Wipe \/ ForgetAccount \/ RecoveryWipe \/ Restart

Next == Server \/ App \/ Environment

\* Every request is answered and every answer handled, the app comes to the foreground
\* again and again, and reads do not fail for ever.
Fairness ==
    /\ \A c \in Taps :
         /\ WF_vars(AnswerMute(c)) /\ WF_vars(AnswerPref(c))
         /\ WF_vars(DriveMute(c)) /\ WF_vars(DrivePref(c))
    /\ \A s \in Syncs :
         /\ WF_vars(AnswerDrain(s)) /\ WF_vars(Drain(s)) /\ WF_vars(ApplySync(s))
         /\ SF_vars(ReadMutes(s)) /\ SF_vars(ReadPrefs(s))
    /\ WF_vars(ForegroundSync) /\ WF_vars(Wipe) /\ WF_vars(RecoveryWipe)

Spec == Init /\ [][Next]_vars
FairSpec == Spec /\ Fairness

-----------------------------------------------------------------------------
(* Properties.                                                              *)

MuteCalls ==
    [target : Targets, muted : BOOLEAN, owner : Users, as : Users \cup {None},
     answer : Answers, stale : BOOLEAN]

PrefCalls ==
    [key : Keys, value : BOOLEAN, believed : BOOLEAN, as : Users \cup {None},
     answer : {Sent, "ok", "retry"}, stale : BOOLEAN]

DrainCalls ==
    [stage : {"drain"}, user : Users, todo : SUBSET Targets, cleared : SUBSET Targets,
     target : Targets, op : Ops, as : Users \cup {None}, answer : Answers,
     orphan : BOOLEAN, stale : BOOLEAN]

ReadCalls ==
    [stage : {"read"}, as : Users \cup {None}, mutes : {Sent, Failed} \cup SUBSET Targets,
     prefs : {Sent, Failed} \cup [Keys -> BOOLEAN], stale : BOOLEAN]

Queues == [Targets -> Ops \cup {None}]
SyncCalls == DrainCalls \cup ReadCalls

ASSUME CallsAssumption == None \notin MuteCalls \cup PrefCalls \cup DrainCalls

StoreTypeOK ==
    /\ muted \in [Targets -> Users \cup {None}]
    /\ pending \in Queues
    /\ prefs \in [Keys -> BOOLEAN]

ModuleTypeOK ==
    /\ runners \subseteq Targets
    /\ intents \in [Keys -> BOOLEAN \cup {None}]
    /\ draining \in BOOLEAN /\ rerun \in BOOLEAN

CallsTypeOK ==
    /\ driver \in [Taps -> MuteCalls \cup {None}]
    /\ setter \in [Taps -> PrefCalls \cup {None}]
    /\ sync \in [Syncs -> SyncCalls \cup {None}]

AccountTypeOK ==
    /\ server \in [Users -> Settings]
    /\ userId \in Users \cup {None} /\ lastUser \in Users \cup {None}
    /\ bootstrapping \in BOOLEAN /\ wiping \in {"no", "logout", "deletion", "recovery"}
    /\ kept \in BOOLEAN /\ torn \subseteq Targets /\ lateEnd \in BOOLEAN /\ events \in 0..MaxEvents

\* The state is well formed, each call in flight with the fields of its stage.
TypeOK == StoreTypeOK /\ ModuleTypeOK /\ CallsTypeOK /\ AccountTypeOK

\* What the user sees is what was last asked for while it is unconfirmed: no sync, late
\* answer or rollback shows anything else for a target whose intent is queued and not about
\* to be cleared, or for a preference whose intent is held (notificationSettingsSync.ts, syncNotificationSettings).
IntentsShown ==
    /\ \A t \in Targets :
         pending[t] # None /\ ~BeingCleared(t) /\ t \notin torn
           => (muted[t] # None) = pending[t].muted
    /\ \A k \in Keys : intents[k] # None => prefs[k] = intents[k]

\* No mute goes out under another account than the one whose tap asked for it
\* (notificationSettingsSync.ts, epoch and drainOnce).
OwnRequests ==
    /\ \A c \in Taps : driver[c] # None => driver[c].as \in {None, driver[c].owner}
    /\ \A s \in Drains : sync[s].as \in {None, sync[s].op.owner}

\* Nothing of an account that was wiped comes back into the store of the next one: what is
\* muted is muted for the account that is signed in, unless a key recovery left it behind
\* (clearNotificationSyncState, resetNotificationSettings).
OwnSettings ==
    userId # None /\ ~kept => \A t \in Targets : muted[t] \in {None, userId}

RunnersOf(t) == {c \in Taps : driver[c] # None /\ ~driver[c].stale /\ driver[c].target = t}

\* Two taps never have two requests of runners of this session in flight for one target,
\* as long as no runner of an earlier session has ended (toggleMute, "double-tap").
OneRunner ==
    ~lateEnd => \A t \in Targets : \A c, d \in RunnersOf(t) : c = d

Shown(t) == muted[t] # None

InStep ==
    userId # None =>
      /\ {t \in Targets : Shown(t)} = server[userId].mutes
      /\ prefs = server[userId].prefs
      /\ Queued(pending) = {}

\* When nothing more happens to it, the settings shown become the server's for good and
\* the queue empties, even if the server never takes a mute: the queue gives up
\* (drainPendingMuteOps, syncNotificationSettings, MAX_MUTE_ATTEMPTS).
Converges == <>[]InStep

-----------------------------------------------------------------------------
(* Two properties the code does not have.                                   *)

LeavesQueue(t) ==
    pending[t] # None /\ pending'[t] = None /\ pending[t].owner = lastUser /\ wiping = "no"

\* "401/403 is evidence about the SESSION rather than the intent": an intent of the account
\* leaves the queue only when a request for its target has been answered.
SurvivesSignOut ==
    [][\A t \in Targets : LeavesQueue(t) =>
         \/ \E c \in RunnersOf(t) : driver[c].answer # Sent
         \/ \E s \in Drains : t \in sync[s].cleared \cup {sync[s].target}]_vars

\* "'retry'/'auth' keep BOTH the optimistic state and the queue entry": a drain that ends
\* drops the intent it has sent, never a newer one whose own request has failed.
NewerIntentKept ==
    [][\A t \in Targets, s \in Drains :
         LeavesQueue(t) /\ sync[s].target = t /\ RunnersOf(t) = {}
           => pending[t].muted = sync[s].op.muted]_vars
=============================================================================
