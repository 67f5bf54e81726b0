------------------- MODULE NotificationSettingsSyncProofs -------------------
(***************************************************************************)
(* Theorems about NotificationSettingsSync.                                *)
(***************************************************************************)
EXTENDS NotificationSettingsSync, TLAPS

-----------------------------------------------------------------------------
(* The queue and the passes over it.                                        *)

LEMMA WithoutType ==
    ASSUME NEW q \in Queues, NEW ids
    PROVE  /\ Without(q, ids) \in Queues
           /\ \A t \in Targets : Without(q, ids)[t] \in {None, q[t]}
           /\ \A t \in Targets : t \in ids => Without(q, ids)[t] = None
BY DEF Without, Queues

\* r is the request or the reads a sync goes on with, for the pass of user.
GoesOnWith(r, q, user, stale) ==
    \/ r = ReadRequests(stale)
    \/ /\ r \in DrainCalls /\ r.user = user /\ r.op.owner = user /\ r.as = userId
       /\ r.op = q[r.target] /\ q[r.target] # None /\ r.target \notin runners
       /\ r.orphan = FALSE /\ r.stale = stale

LEMMA PassesType ==
    ASSUME NEW q \in Queues, NEW user \in Users \cup {None}, NEW todo \in SUBSET Targets,
           NEW cleared \in SUBSET Targets, NEW pass \in Passes(q, user, todo, cleared)
    PROVE  /\ pass.cleared \in SUBSET Targets /\ cleared \subseteq pass.cleared
           /\ pass.todo \in SUBSET Targets
BY DEF Passes, Sendable, Foreign, Queued

LEMMA DrainRequestType ==
    ASSUME NEW q \in Queues, NEW user \in Users \cup {None}, NEW todo \in SUBSET Targets,
           NEW cleared \in SUBSET Targets, NEW pass \in Passes(q, user, todo, cleared),
           pass.next # None, NEW stale \in BOOLEAN, userId \in Users \cup {None}
    PROVE  /\ GoesOnWith(DrainRequest(q, user, pass, stale), q, user, stale)
           /\ cleared \subseteq DrainRequest(q, user, pass, stale).cleared
<1>1. /\ pass.next \in Targets \ runners
      /\ q[pass.next] \in Ops /\ q[pass.next].owner = user /\ q[pass.next] # None
  BY DEF Passes, Sendable, Foreign, Queued, Queues
<1>2. user \in Users
  BY <1>1 DEF Ops
<1>3. /\ pass.cleared \in SUBSET Targets /\ cleared \subseteq pass.cleared
      /\ pass.todo \in SUBSET Targets
  BY PassesType
<1>4. DrainRequest(q, user, pass, stale) \in DrainCalls
  BY <1>1, <1>2, <1>3 DEF DrainRequest, DrainCalls, Answers
<1> QED  BY <1>1, <1>3, <1>4 DEF DrainRequest, GoesOnWith

LEMMA ReadRequestsType ==
    ASSUME NEW stale \in BOOLEAN, userId \in Users \cup {None}
    PROVE  ReadRequests(stale) \in ReadCalls
BY DEF ReadRequests, ReadCalls

\* What the end of a pass leaves of the queue q, and what its sync goes on with.
LEMMA PassEndsPost ==
    ASSUME NEW s \in Syncs, NEW q \in Queues, NEW stale \in BOOLEAN,
           userId \in Users \cup {None}, ModuleTypeOK, PassEnds(s, q, stale)
    PROVE  /\ pending' \in Queues /\ draining' \in BOOLEAN /\ rerun' \in BOOLEAN
           /\ \A t \in Targets : pending'[t] \in {None, q[t]}
           /\ \E r : GoesOnWith(r, q, userId, stale) /\ sync' = [sync EXCEPT ![s] = r]
<1>1. CASE ~rerun
  BY <1>1, WithoutType DEF PassEnds, DrainEnds, GoesOnWith, ModuleTypeOK
<1>2. CASE rerun
  <2>1. Queued(q) \in SUBSET Targets
    BY DEF Queued
  <2>2. PICK pass \in Passes(q, userId, Queued(q), {}) :
          IF pass.next = None
            THEN DrainEnds(s, q, pass.cleared, stale)
            ELSE /\ pending' = q /\ UNCHANGED draining
                 /\ sync' = [sync EXCEPT ![s] = DrainRequest(q, userId, pass, stale)]
    BY <1>2 DEF PassEnds, Pass
  <2>3. rerun' = FALSE
    BY <1>2 DEF PassEnds
  <2>4. CASE pass.next = None
    <3>1. /\ pending' = Without(q, pass.cleared) /\ draining' = FALSE
          /\ sync' = [sync EXCEPT ![s] = ReadRequests(stale)]
      BY <2>2, <2>4 DEF DrainEnds
    <3>2. GoesOnWith(ReadRequests(stale), q, userId, stale)
      BY DEF GoesOnWith
    <3> QED  BY <2>3, <3>1, <3>2, WithoutType
  <2>5. CASE pass.next # None
    <3>1. GoesOnWith(DrainRequest(q, userId, pass, stale), q, userId, stale)
      BY <2>1, <2>5, DrainRequestType, Zenon
    <3> QED  BY <2>2, <2>3, <2>5, <3>1 DEF ModuleTypeOK
  <2> QED  BY <2>4, <2>5
<1> QED  BY <1>1, <1>2

\* A pass that has taken in `cleared` goes on, keeping it, or ends, clearing it.
LEMMA PassGoesOnPost ==
    ASSUME NEW s \in Syncs, NEW r \in DrainCalls, NEW cleared \in SUBSET Targets,
           pending \in Queues, userId \in Users \cup {None}, ModuleTypeOK,
           PassGoesOn(s, r, cleared)
    PROVE  /\ pending' \in Queues /\ draining' \in BOOLEAN /\ rerun' \in BOOLEAN
           /\ \A t \in Targets : pending'[t] \in {None, pending[t]}
           /\ \E n, q, user :
                /\ GoesOnWith(n, q, user, r.stale) /\ sync' = [sync EXCEPT ![s] = n]
                /\ user = r.user \/ user = userId
                /\ \A t \in Targets : q[t] \in {None, pending[t]}
                /\ \A t \in cleared : pending'[t] = None \/ (n \in DrainCalls /\ t \in n.cleared)
<1>1. r.user \in Users /\ r.todo \in SUBSET Targets /\ r.stale \in BOOLEAN
  BY DEF DrainCalls
<1>2. PICK pass \in Passes(pending, r.user, r.todo, cleared) :
        IF pass.next = None
          THEN PassEnds(s, Without(pending, pass.cleared), r.stale)
          ELSE /\ UNCHANGED <<pending, flags>>
               /\ sync' = [sync EXCEPT ![s] = DrainRequest(pending, r.user, pass, r.stale)]
  BY DEF PassGoesOn
<1>3. cleared \subseteq pass.cleared
  BY <1>1, PassesType
<1>4. CASE pass.next = None
  <2> DEFINE q == Without(pending, pass.cleared)
  <2>1. /\ q \in Queues
        /\ \A t \in Targets : q[t] \in {None, pending[t]} /\ (t \in pass.cleared => q[t] = None)
    BY WithoutType
  <2> HIDE DEF q
  <2>2. PassEnds(s, q, r.stale)
    BY <1>2, <1>4 DEF q
  <2>3. /\ pending' \in Queues /\ draining' \in BOOLEAN /\ rerun' \in BOOLEAN
        /\ \A t \in Targets : pending'[t] \in {None, q[t]}
        /\ \E n : GoesOnWith(n, q, userId, r.stale) /\ sync' = [sync EXCEPT ![s] = n]
    BY <1>1, <2>1, <2>2, PassEndsPost
  <2> QED  BY <1>3, <2>1, <2>3
<1>5. CASE pass.next # None
  <2> DEFINE n == DrainRequest(pending, r.user, pass, r.stale)
  <2>1. GoesOnWith(n, pending, r.user, r.stale) /\ cleared \subseteq n.cleared
    BY <1>1, <1>5, DrainRequestType
  <2>2. n \in DrainCalls
    <3>1. n.stage = "drain" /\ (ReadRequests(r.stale)).stage = "read"
      BY DEF DrainRequest, ReadRequests
    <3> QED  BY <2>1, <3>1 DEF GoesOnWith
  <2>3. sync' = [sync EXCEPT ![s] = n] /\ pending' = pending /\ UNCHANGED <<draining, rerun>>
    BY <1>2, <1>5 DEF flags
  <2> HIDE DEF n
  <2> QED  BY <2>1, <2>2, <2>3 DEF ModuleTypeOK
<1> QED  BY <1>4, <1>5

-----------------------------------------------------------------------------
(* Types.                                                                   *)

LEMMA GoesOnType ==
    ASSUME NEW r, NEW q, NEW user, NEW stale \in BOOLEAN, userId \in Users \cup {None},
           GoesOnWith(r, q, user, stale)
    PROVE  r \in SyncCalls
BY ReadRequestsType DEF GoesOnWith, SyncCalls

LEMMA MuteRequestType ==
    ASSUME NEW t \in Targets, NEW op \in Ops, userId \in Users \cup {None}
    PROVE  MuteRequest(t, op) \in MuteCalls
BY DEF MuteRequest, MuteCalls, Ops, Answers

LEMMA ToggleMuteType ==
    ASSUME TypeOK, NEW t \in Targets, ToggleMute(t)
    PROVE  TypeOK'
<1> DEFINE op == [muted |-> muted[t] = None, owner |-> userId, attempts |-> 0]
<1>1. op \in Ops
  BY DEF ToggleMute, CanTap, TypeOK, AccountTypeOK, Ops
<1>2. MuteRequest(t, op) \in MuteCalls
  BY <1>1, MuteRequestType DEF TypeOK, AccountTypeOK
<1>3. Enqueued(t, op) \in Queues
  BY <1>1 DEF Enqueued, Queues, TypeOK, StoreTypeOK
<1> HIDE DEF op
<1>4. /\ muted' = [muted EXCEPT ![t] = IF op.muted THEN userId ELSE None]
      /\ pending' = Enqueued(t, op)
      /\ runners' \in {runners, runners \cup {t}}
      /\ \/ driver' = driver
         \/ \E c \in Free(driver) : driver' = [driver EXCEPT ![c] = MuteRequest(t, op)]
      /\ Event
  BY DEF ToggleMute, op
<1>5. StoreTypeOK'
  BY <1>3, <1>4 DEF TypeOK, StoreTypeOK, AccountTypeOK, ToggleMute
<1>6. ModuleTypeOK'
  BY <1>4 DEF TypeOK, ModuleTypeOK, ToggleMute, flags
<1>7. CallsTypeOK'
  BY <1>2, <1>4 DEF TypeOK, CallsTypeOK, ToggleMute, Free
<1>8. AccountTypeOK'
  BY <1>4, BoundsAssumption DEF TypeOK, AccountTypeOK, ToggleMute, Event, account
<1> QED  BY <1>5, <1>6, <1>7, <1>8 DEF TypeOK

LEMMA DriveMuteType ==
    ASSUME TypeOK, NEW c \in Taps, DriveMute(c)
    PROVE  TypeOK'
<1> DEFINE r == driver[c]
<1>1. r \in MuteCalls
  BY DEF DriveMute, TypeOK, CallsTypeOK
<1>2. r.target \in Targets /\ r.owner \in Users /\ r.stale \in BOOLEAN
  BY <1>1 DEF MuteCalls
<1>3. CASE MuteFails(c)
  <2>1. StoreTypeOK'
    BY <1>2, <1>3, WithoutType DEF MuteFails, DriveMute, Reverted, TypeOK, StoreTypeOK
  <2>2. ModuleTypeOK' /\ CallsTypeOK' /\ lateEnd' \in BOOLEAN
    BY <1>2, <1>3 DEF MuteFails, RunnerEnds, DriveMute, TypeOK, ModuleTypeOK, CallsTypeOK, flags,
                      AccountTypeOK
  <2> QED  BY <2>1, <2>2 DEF TypeOK, AccountTypeOK, DriveMute, account
<1>4. CASE MuteConfirmed(c)
  <2>1. pending' \in Queues
    BY <1>4, WithoutType DEF MuteConfirmed, TypeOK, StoreTypeOK
  <2>2. CASE RunnerEnds(c)
    BY <1>2, <1>4, <2>1, <2>2
       DEF MuteConfirmed, RunnerEnds, DriveMute, TypeOK, StoreTypeOK, ModuleTypeOK, CallsTypeOK,
           AccountTypeOK, flags, account
  <2>3. CASE ~RunnerEnds(c)
    <3>1. pending[r.target] \in Ops
      BY <1>2, <1>4, <2>3 DEF MuteConfirmed, Settled, TypeOK, StoreTypeOK, Queues
    <3>2. MuteRequest(r.target, pending[r.target]) \in MuteCalls
      BY <1>2, <3>1, MuteRequestType DEF TypeOK, AccountTypeOK
    <3> QED  BY <1>4, <2>1, <2>3, <3>2
             DEF MuteConfirmed, DriveMute, TypeOK, StoreTypeOK, ModuleTypeOK, CallsTypeOK,
                 AccountTypeOK, flags, account
  <2> QED  BY <2>2, <2>3
<1> QED  BY <1>3, <1>4 DEF DriveMute

LEMMA SetPrefType ==
    ASSUME TypeOK, NEW k \in Keys, SetPref(k)
    PROVE  TypeOK'
<1> DEFINE value == ~prefs[k]
<1>1. value \in BOOLEAN /\ prefs[k] \in BOOLEAN
  BY DEF TypeOK, StoreTypeOK
<1>2. PrefRequest(k, value, prefs[k]) \in PrefCalls
  BY <1>1 DEF PrefRequest, PrefCalls, TypeOK, AccountTypeOK
<1> HIDE DEF value
<1>3. /\ prefs' = [prefs EXCEPT ![k] = value] /\ intents' = [intents EXCEPT ![k] = value]
      /\ \/ setter' = setter
         \/ \E c \in Free(setter) : setter' = [setter EXCEPT ![c] = PrefRequest(k, value, prefs[k])]
      /\ Event
  BY DEF SetPref, value
<1>4. StoreTypeOK' /\ ModuleTypeOK'
  BY <1>1, <1>3 DEF TypeOK, StoreTypeOK, ModuleTypeOK, SetPref, flags
<1>5. CallsTypeOK'
  BY <1>2, <1>3 DEF TypeOK, CallsTypeOK, SetPref, Free
<1>6. AccountTypeOK'
  BY <1>3, BoundsAssumption DEF TypeOK, AccountTypeOK, SetPref, Event, account
<1> QED  BY <1>4, <1>5, <1>6 DEF TypeOK

LEMMA DrivePrefType ==
    ASSUME TypeOK, NEW c \in Taps, DrivePref(c)
    PROVE  TypeOK'
<1> DEFINE r == setter[c]
<1>1. r \in PrefCalls
  BY DEF DrivePref, TypeOK, CallsTypeOK
<1>2. r.key \in Keys /\ r.value \in BOOLEAN /\ r.believed \in BOOLEAN
  BY <1>1 DEF PrefCalls
<1>3. intents[r.key] # None => PrefRequest(r.key, intents[r.key], r.value) \in PrefCalls
  BY <1>2 DEF PrefRequest, PrefCalls, TypeOK, AccountTypeOK, ModuleTypeOK
<1> HIDE DEF r
<1>4. /\ prefs' \in {prefs, [prefs EXCEPT ![r.key] = r.believed], [prefs EXCEPT ![r.key] = r.value]}
      /\ intents' \in {intents, [intents EXCEPT ![r.key] = None]}
      /\ \/ setter' = [setter EXCEPT ![c] = None]
         \/ /\ intents[r.key] # None
            /\ setter' = [setter EXCEPT ![c] = PrefRequest(r.key, intents[r.key], r.value)]
  BY DEF DrivePref, SetterEnds, r
<1>5. StoreTypeOK' /\ ModuleTypeOK'
  BY <1>2, <1>4 DEF TypeOK, StoreTypeOK, ModuleTypeOK, DrivePref, flags
<1>6. CallsTypeOK'
  BY <1>3, <1>4 DEF TypeOK, CallsTypeOK, DrivePref
<1> QED  BY <1>5, <1>6 DEF TypeOK, AccountTypeOK, DrivePref, account, history

LEMMA DrainType ==
    ASSUME TypeOK, NEW s \in Syncs, Drain(s)
    PROVE  TypeOK'
<1> DEFINE r == sync[s]
<1>1. r \in DrainCalls
  BY DEF Drain, TypeOK, CallsTypeOK, SyncCalls, ReadCalls
<1>2. /\ r.target \in Targets /\ r.op \in Ops /\ r.op.owner \in Users /\ r.stale \in BOOLEAN
      /\ r.cleared \in SUBSET Targets /\ r.cleared \cup {r.target} \in SUBSET Targets
  BY <1>1 DEF DrainCalls, Ops
<1>3. Bumped(r.target) \in Queues
  BY <1>2 DEF Bumped, TypeOK, StoreTypeOK, Queues, Ops
<1>4. Without(Bumped(r.target), r.cleared) \in Queues
  BY <1>3, WithoutType
<1>5. muted' \in [Targets -> Users \cup {None}]
  BY <1>2 DEF Drain, DrainResumes, Reverted, TypeOK, StoreTypeOK
<1>6. \/ \E cleared \in SUBSET Targets : PassGoesOn(s, r, cleared)
      \/ \E q \in Queues : PassEnds(s, q, r.stale)
  BY <1>2, <1>4, WithoutType DEF Drain, DrainResumes, TypeOK, StoreTypeOK
<1>7. /\ pending' \in Queues /\ draining' \in BOOLEAN /\ rerun' \in BOOLEAN
      /\ \E n, q, user :
           GoesOnWith(n, q, user, r.stale) /\ sync' = [sync EXCEPT ![s] = n]
  <2>1. CASE \E cleared \in SUBSET Targets : PassGoesOn(s, r, cleared)
    BY <1>1, <2>1, PassGoesOnPost DEF TypeOK, StoreTypeOK, AccountTypeOK
  <2>2. CASE \E q \in Queues : PassEnds(s, q, r.stale)
    BY <1>2, <2>2, PassEndsPost DEF TypeOK, AccountTypeOK
  <2> QED  BY <1>6, <2>1, <2>2
<1>8. sync' \in [Syncs -> SyncCalls \cup {None}]
  BY <1>2, <1>7, GoesOnType DEF TypeOK, CallsTypeOK, AccountTypeOK
<1> QED
  BY <1>5, <1>7, <1>8 DEF Drain, TypeOK, StoreTypeOK, ModuleTypeOK, CallsTypeOK, AccountTypeOK,
                          account, history

LEMMA SyncStartsPost ==
    ASSUME TypeOK, SyncStarts
    PROVE  /\ pending' \in Queues /\ draining' \in BOOLEAN /\ rerun' \in BOOLEAN
           /\ \A t \in Targets : pending'[t] \in {None, pending[t]}
           /\ \E s \in Free(sync) : \E n :
                GoesOnWith(n, pending, userId, FALSE) /\ sync' = [sync EXCEPT ![s] = n]
<1>1. userId \in Users \cup {None} /\ pending \in Queues
  BY DEF TypeOK, AccountTypeOK, StoreTypeOK
<1>2. ReadRequests(FALSE) \in ReadCalls /\ GoesOnWith(ReadRequests(FALSE), pending, userId, FALSE)
  BY <1>1, ReadRequestsType DEF GoesOnWith
<1>3. PICK s \in Free(sync) :
        \/ /\ draining /\ rerun' = TRUE
           /\ sync' = [sync EXCEPT ![s] = ReadRequests(FALSE)]
           /\ UNCHANGED <<pending, draining>>
        \/ /\ ~draining /\ rerun' = FALSE
           /\ \E pass \in Passes(pending, userId, Queued(pending), {}) :
                IF pass.next = None
                  THEN DrainEnds(s, pending, pass.cleared, FALSE)
                  ELSE /\ draining' = TRUE /\ UNCHANGED pending
                       /\ sync' = [sync EXCEPT ![s] = DrainRequest(pending, userId, pass, FALSE)]
  BY DEF SyncStarts
<1>4. CASE draining
  BY <1>1, <1>2, <1>3, <1>4 DEF TypeOK, ModuleTypeOK
<1>5. CASE ~draining
  <2>1. Queued(pending) \in SUBSET Targets
    BY DEF Queued
  <2>2. rerun' = FALSE
    BY <1>3, <1>5
  <2>3. PICK pass \in Passes(pending, userId, Queued(pending), {}) :
                IF pass.next = None
                  THEN DrainEnds(s, pending, pass.cleared, FALSE)
                  ELSE /\ draining' = TRUE /\ UNCHANGED pending
                       /\ sync' = [sync EXCEPT ![s] = DrainRequest(pending, userId, pass, FALSE)]
    BY <1>3, <1>5
  <2>4. CASE pass.next = None
    <3>1. /\ pending' = Without(pending, pass.cleared) /\ draining' = FALSE
          /\ sync' = [sync EXCEPT ![s] = ReadRequests(FALSE)]
      BY <2>3, <2>4 DEF DrainEnds
    <3> QED  BY <1>1, <1>2, <2>2, <3>1, WithoutType
  <2>5. CASE pass.next # None
    <3>1. GoesOnWith(DrainRequest(pending, userId, pass, FALSE), pending, userId, FALSE)
      BY <1>1, <2>1, <2>5, DrainRequestType, Zenon
    <3> QED  BY <1>1, <2>2, <2>3, <2>5, <3>1
  <2> QED  BY <2>4, <2>5
<1> QED  BY <1>4, <1>5

LEMMA StartSyncType ==
    ASSUME TypeOK, ForegroundSync \/ PostAuthSync
    PROVE  TypeOK'
<1>1. SyncStarts /\ bootstrapping' \in BOOLEAN
  BY DEF ForegroundSync, PostAuthSync, TypeOK, AccountTypeOK
<1>2. sync' \in [Syncs -> SyncCalls \cup {None}]
  BY <1>1, SyncStartsPost, GoesOnType DEF TypeOK, CallsTypeOK, AccountTypeOK, Free
<1>3. pending' \in Queues /\ draining' \in BOOLEAN /\ rerun' \in BOOLEAN
  BY <1>1, SyncStartsPost
<1> QED
  BY <1>1, <1>2, <1>3 DEF SyncStarts, TypeOK, StoreTypeOK, ModuleTypeOK, CallsTypeOK,
                          AccountTypeOK, history

LEMMA ApplySyncType ==
    ASSUME TypeOK, NEW s \in Syncs, ApplySync(s)
    PROVE  TypeOK'
<1> DEFINE r == sync[s]
           gotMutes == ~r.stale /\ r.mutes # Failed
           gotPrefs == ~r.stale /\ r.prefs # Failed
<1>1. /\ r \in ReadCalls /\ r.mutes # Sent /\ r.prefs # Sent
  BY DEF ApplySync, TypeOK, CallsTypeOK, SyncCalls, DrainCalls
<1>2. /\ r.as \in Users \cup {None}
      /\ gotMutes => r.mutes \in SUBSET Targets
      /\ gotPrefs => r.prefs \in [Keys -> BOOLEAN]
  BY <1>1 DEF ReadCalls
<1>3. \A t \in Targets : Overlay(t, r.mutes, r.as) \in Users \cup {None}
  BY <1>2 DEF Overlay, TypeOK, AccountTypeOK
<1> HIDE DEF r
<1>4. /\ muted' = IF gotMutes THEN [t \in Targets |-> Overlay(t, r.mutes, r.as)] ELSE muted
      /\ pending' = IF gotMutes THEN Without(pending, Outlived) ELSE pending
      /\ prefs' = IF gotPrefs
                    THEN [k \in Keys |-> IF intents[k] # None THEN intents[k] ELSE r.prefs[k]]
                    ELSE prefs
      /\ sync' = [sync EXCEPT ![s] = None]
  BY DEF ApplySync, OverlayPref, r
<1>5. muted' \in [Targets -> Users \cup {None}]
  BY <1>3, <1>4 DEF TypeOK, StoreTypeOK
<1>6. pending' \in Queues
  BY <1>4, WithoutType DEF TypeOK, StoreTypeOK
<1>7. prefs' \in [Keys -> BOOLEAN]
  BY <1>2, <1>4 DEF TypeOK, StoreTypeOK, ModuleTypeOK
<1>8. sync' \in [Syncs -> SyncCalls \cup {None}]
  BY <1>4 DEF TypeOK, CallsTypeOK
<1> QED
  BY <1>5, <1>6, <1>7, <1>8 DEF ApplySync, TypeOK, StoreTypeOK, ModuleTypeOK, CallsTypeOK,
                                AccountTypeOK, account, history, flags

LEMMA WithMuteType ==
    ASSUME TypeOK, NEW u \in Users, NEW t \in Targets, NEW on \in BOOLEAN
    PROVE  WithMute(u, t, on) \in [Users -> Settings]
BY DEF WithMute, TypeOK, AccountTypeOK, Settings

LEMMA AnsweredType ==
    ASSUME TypeOK, NEW r, r.as \in Users \cup {None}, NEW t \in Targets, NEW on \in BOOLEAN,
           NEW answer \in Answers, Answered(r, t, on, answer)
    PROVE  server' \in [Users -> Settings] /\ events' \in 0..MaxEvents
<1>1. r.as # None => WithMute(r.as, t, on) \in [Users -> Settings]
  BY WithMuteType
<1>2. server' \in {server} \cup (IF r.as # None THEN {WithMute(r.as, t, on)} ELSE {})
  BY DEF Answered
<1>3. events' \in 0..MaxEvents
  BY BoundsAssumption DEF Answered, Event, TypeOK, AccountTypeOK
<1> QED  BY <1>1, <1>2, <1>3 DEF TypeOK, AccountTypeOK

LEMMA AnswerMuteType ==
    ASSUME TypeOK, NEW c \in Taps, AnswerMute(c)
    PROVE  TypeOK'
<1>1. driver[c] \in MuteCalls
  BY DEF AnswerMute, TypeOK, CallsTypeOK
<1>2. PICK answer \in Answers :
        /\ Answered(driver[c], driver[c].target, driver[c].muted, answer)
        /\ driver' = [driver EXCEPT ![c].answer = answer]
  BY DEF AnswerMute
<1>3. server' \in [Users -> Settings] /\ events' \in 0..MaxEvents
  BY <1>1, <1>2, AnsweredType DEF MuteCalls
<1>4. driver' \in [Taps -> MuteCalls \cup {None}]
  BY <1>1, <1>2 DEF TypeOK, CallsTypeOK, MuteCalls
<1> QED
  BY <1>3, <1>4 DEF AnswerMute, TypeOK, StoreTypeOK, ModuleTypeOK, CallsTypeOK, AccountTypeOK,
                    store, flags, account

LEMMA AnswerDrainType ==
    ASSUME TypeOK, NEW s \in Syncs, AnswerDrain(s)
    PROVE  TypeOK'
<1>1. sync[s] \in DrainCalls
  BY DEF AnswerDrain, TypeOK, CallsTypeOK, SyncCalls, ReadCalls
<1>2. PICK answer \in Answers :
        /\ Answered(sync[s], sync[s].target, sync[s].op.muted, answer)
        /\ sync' = [sync EXCEPT ![s].answer = answer]
  BY DEF AnswerDrain
<1>3. server' \in [Users -> Settings] /\ events' \in 0..MaxEvents
  BY <1>1, <1>2, AnsweredType DEF DrainCalls, Ops
<1>4. sync' \in [Syncs -> SyncCalls \cup {None}]
  BY <1>1, <1>2 DEF TypeOK, CallsTypeOK, SyncCalls, DrainCalls
<1> QED
  BY <1>3, <1>4 DEF AnswerDrain, TypeOK, StoreTypeOK, ModuleTypeOK, CallsTypeOK, AccountTypeOK,
                    store, flags, account

LEMMA AnswerPrefType ==
    ASSUME TypeOK, NEW c \in Taps, AnswerPref(c)
    PROVE  TypeOK'
<1> DEFINE r == setter[c]
           applied == [server EXCEPT ![r.as].prefs[r.key] = r.value]
<1>1. r \in PrefCalls
  BY DEF AnswerPref, TypeOK, CallsTypeOK
<1>2. r.as # None => applied \in [Users -> Settings]
  BY <1>1 DEF PrefCalls, TypeOK, AccountTypeOK, Settings
<1>3. /\ server' \in {server} \cup (IF r.as = None THEN {} ELSE {applied})
      /\ \E answer \in {"ok", "retry"} : setter' = [setter EXCEPT ![c].answer = answer]
  BY DEF AnswerPref
<1>4. setter' \in [Taps -> PrefCalls \cup {None}]
  BY <1>1, <1>3 DEF TypeOK, CallsTypeOK, PrefCalls
<1>5. server' \in [Users -> Settings]
  BY <1>2, <1>3 DEF TypeOK, AccountTypeOK
<1> QED
  BY <1>4, <1>5 DEF AnswerPref, TypeOK, StoreTypeOK, ModuleTypeOK, CallsTypeOK, AccountTypeOK,
                    store, flags, account, history

LEMMA ReadType ==
    ASSUME TypeOK, NEW s \in Syncs, ReadMutes(s) \/ ReadPrefs(s)
    PROVE  TypeOK'
<1>1. sync[s] \in ReadCalls
  BY DEF ReadMutes, ReadPrefs, Reading, TypeOK, CallsTypeOK, SyncCalls, DrainCalls
<1>2. sync' \in [Syncs -> SyncCalls \cup {None}]
  BY <1>1 DEF ReadMutes, ReadPrefs, TypeOK, CallsTypeOK, SyncCalls, ReadCalls, AccountTypeOK,
              Settings
<1> QED
  BY <1>2 DEF ReadMutes, ReadPrefs, TypeOK, StoreTypeOK, ModuleTypeOK, CallsTypeOK,
              AccountTypeOK, store, flags, account, history

LEMMA ReadFailsType ==
    ASSUME TypeOK, NEW s \in Syncs, ReadFails(s)
    PROVE  TypeOK'
<1>1. PICK part \in {"mutes", "prefs"} :
        Reading(s, part) /\ sync' = [sync EXCEPT ![s][part] = Failed]
  BY DEF ReadFails
<1>2. sync[s] \in ReadCalls
  BY <1>1 DEF Reading, TypeOK, CallsTypeOK, SyncCalls, DrainCalls
<1>3. [sync[s] EXCEPT ![part] = Failed] \in ReadCalls
  <2>1. CASE part = "mutes"
    BY <1>2, <2>1 DEF ReadCalls
  <2>2. CASE part = "prefs"
    BY <1>2, <2>2 DEF ReadCalls
  <2> QED  BY <1>1, <2>1, <2>2
<1>4. sync' \in [Syncs -> SyncCalls \cup {None}]
  BY <1>1, <1>3 DEF TypeOK, CallsTypeOK, SyncCalls
<1> QED
  BY <1>4 DEF ReadFails, TypeOK, StoreTypeOK, ModuleTypeOK, CallsTypeOK, AccountTypeOK,
              store, flags, account, history

LEMMA AccountStepType ==
    ASSUME TypeOK,
           \/ \E u \in Users : SignIn(u)
           \/ \E kind \in {"logout", "deletion"} : StartWipe(kind)
           \/ ClearAuth \/ ForgetAccount
    PROVE  TypeOK'
<1>1. events' \in 0..MaxEvents
  BY BoundsAssumption DEF SignIn, StartWipe, ClearAuth, ForgetAccount, Event, TypeOK,
                          AccountTypeOK
<1>2. /\ userId' \in Users \cup {None} /\ lastUser' \in Users \cup {None}
      /\ bootstrapping' \in BOOLEAN /\ wiping' \in {"no", "logout", "deletion", "recovery"}
      /\ kept' \in BOOLEAN
  BY DEF SignIn, StartWipe, ClearAuth, ForgetAccount, TypeOK, AccountTypeOK
<1>3. UNCHANGED <<store, runners, intents, flags, driver, setter, sync, server, torn, lateEnd>>
  BY DEF SignIn, StartWipe, ClearAuth, ForgetAccount
<1> QED
  BY <1>1, <1>2, <1>3 DEF TypeOK, StoreTypeOK, ModuleTypeOK, CallsTypeOK, AccountTypeOK,
                          store, flags

LEMMA ClearedType ==
    ASSUME TypeOK, ClearNotificationSyncState
    PROVE  ModuleTypeOK' /\ CallsTypeOK'
<1>1. driver' \in [Taps -> MuteCalls \cup {None}]
  BY DEF ClearNotificationSyncState, Stale, TypeOK, CallsTypeOK, MuteCalls
<1>2. setter' \in [Taps -> PrefCalls \cup {None}]
  BY DEF ClearNotificationSyncState, Stale, TypeOK, CallsTypeOK, PrefCalls
<1>3. \A s \in Syncs : StaleSyncs[s] \in SyncCalls \cup {None}
  <2> SUFFICES ASSUME NEW s \in Syncs PROVE StaleSyncs[s] \in SyncCalls \cup {None}
    OBVIOUS
  <2>1. sync[s] \in SyncCalls \cup {None} /\ DOMAIN sync = Syncs
    BY DEF TypeOK, CallsTypeOK
  <2>2. CASE sync[s] = None
    BY <2>1, <2>2 DEF StaleSyncs, Stale
  <2>3. CASE sync[s] # None /\ sync[s] \in ReadCalls
    <3>1. sync[s].stage = "read"
      BY <2>3 DEF ReadCalls
    <3> QED  BY <2>1, <2>3, <3>1 DEF StaleSyncs, Stale, ReadCalls, SyncCalls
  <2>4. CASE sync[s] # None /\ sync[s] \in DrainCalls
    <3>1. sync[s].stage = "drain"
      BY <2>4 DEF DrainCalls
    <3> QED  BY <2>1, <2>4, <3>1 DEF StaleSyncs, DrainCalls, SyncCalls
  <2> QED  BY <2>1, <2>2, <2>3, <2>4 DEF SyncCalls
<1>4. sync' \in [Syncs -> SyncCalls \cup {None}]
  <2>1. sync' = StaleSyncs /\ DOMAIN StaleSyncs = Syncs
    BY DEF ClearNotificationSyncState, StaleSyncs
  <2>2. StaleSyncs = [s \in Syncs |-> StaleSyncs[s]]
    BY DEF StaleSyncs
  <2> HIDE DEF StaleSyncs
  <2> QED  BY <1>3, <2>1, <2>2
<1> QED
  BY <1>1, <1>2, <1>4 DEF ClearNotificationSyncState, ModuleTypeOK, CallsTypeOK

LEMMA EmptyStore == NoMutes \in Queues /\ NoMutes \in [Targets -> Users \cup {None}]
                    /\ DefaultPrefs \in [Keys -> BOOLEAN]
BY DEF NoMutes, Queues, DefaultPrefs

LEMMA WipeType ==
    ASSUME TypeOK, Wipe \/ RecoveryWipe
    PROVE  TypeOK'
<1>1. ModuleTypeOK' /\ CallsTypeOK'
  BY ClearedType DEF Wipe, RecoveryWipe
<1>2. StoreTypeOK' /\ AccountTypeOK'
  BY EmptyStore DEF Wipe, RecoveryWipe, TypeOK, StoreTypeOK, AccountTypeOK, history
<1> QED  BY <1>1, <1>2 DEF TypeOK

LEMMA RestartType ==
    ASSUME TypeOK, Restart
    PROVE  TypeOK'
<1>1. events' \in 0..MaxEvents
  BY BoundsAssumption DEF Restart, Event, TypeOK, AccountTypeOK
<1> QED
  BY <1>1 DEF Restart, TypeOK, StoreTypeOK, ModuleTypeOK, CallsTypeOK, AccountTypeOK, store

LEMMA InitType == Init => TypeOK
<1> SUFFICES ASSUME Init PROVE TypeOK
  OBVIOUS
<1>1. ModuleTypeOK /\ CallsTypeOK
  BY DEF Init, Idle, ModuleTypeOK, CallsTypeOK
<1>2. StoreTypeOK
  BY EmptyStore DEF Init, StoreTypeOK
<1>3. AccountTypeOK
  <2>1. {[mutes |-> m, prefs |-> DefaultPrefs] : m \in InitialMutes} \subseteq Settings
    BY EmptyStore, MutesAssumption DEF Settings
  <2>2. server \in [Users -> Settings]
    BY <2>1 DEF Init
  <2>3. events \in 0..MaxEvents
    BY BoundsAssumption DEF Init
  <2> QED  BY <2>2, <2>3 DEF Init, AccountTypeOK
<1> QED  BY <1>1, <1>2, <1>3 DEF TypeOK

LEMMA TypeStep == TypeOK /\ [Next]_vars => TypeOK'
<1> SUFFICES ASSUME TypeOK, [Next]_vars PROVE TypeOK'
  OBVIOUS
<1>1. CASE Server
  BY <1>1, AnswerMuteType, AnswerPrefType, AnswerDrainType, ReadType, ReadFailsType DEF Server
<1>2. CASE App
  BY <1>2, ToggleMuteType, SetPrefType, DriveMuteType, DrivePrefType, DrainType, ApplySyncType,
     StartSyncType DEF App
<1>3. CASE Environment
  BY <1>3, AccountStepType, WipeType, RestartType DEF Environment
<1>4. CASE UNCHANGED vars
  BY <1>4 DEF vars, store, flags, account, history, TypeOK, StoreTypeOK, ModuleTypeOK,
              CallsTypeOK, AccountTypeOK
<1> QED  BY <1>1, <1>2, <1>3, <1>4 DEF Next

\* Whatever the taps, the answers, the wipes and the restarts, the store, the module state and
\* the calls in flight stay well formed (notificationSettingsSync.ts, notificationSlice.ts).
THEOREM TypeCorrect == Spec => []TypeOK
BY InitType, TypeStep, PTL DEF Spec

-----------------------------------------------------------------------------
(* What is shown is what was last asked for.                                *)

MuteShown(t) ==
    pending[t] # None /\ ~BeingCleared(t) /\ t \notin torn
      => (muted[t] # None) = pending[t].muted

PrefShown(k) == intents[k] # None => prefs[k] = intents[k]

\* A step that leaves the store alone and takes no drain's targets away.
LEMMA SameMutes ==
    ASSUME IntentsShown, UNCHANGED <<muted, pending>>, torn \subseteq torn',
           NEW t \in Targets, BeingCleared(t) => BeingCleared(t)' \/ t \in torn'
    PROVE  MuteShown(t)'
BY DEF IntentsShown, MuteShown

LEMMA BeingClearedSame == ASSUME UNCHANGED sync PROVE \A t : BeingCleared(t)' = BeingCleared(t)
BY DEF BeingCleared, Drains

LEMMA ToggleShown ==
    ASSUME TypeOK, IntentsShown, NEW t \in Targets, ToggleMute(t)
    PROVE  IntentsShown'
<1> DEFINE op == [muted |-> muted[t] = None, owner |-> userId, attempts |-> 0]
<1>1. /\ muted' = [muted EXCEPT ![t] = IF op.muted THEN userId ELSE None]
      /\ pending' = Enqueued(t, op) /\ userId # None /\ op.muted \in BOOLEAN
      /\ UNCHANGED <<prefs, intents, sync, torn>>
  BY DEF ToggleMute, CanTap
<1> HIDE DEF op
<1>2. ASSUME NEW u \in Targets PROVE MuteShown(u)'
  <2>1. CASE u = t
    <3>1. pending'[t] \in {None, op} /\ (muted'[t] # None) = op.muted
      BY <1>1 DEF Enqueued, TypeOK, StoreTypeOK, Queues
    <3> QED  BY <2>1, <3>1 DEF MuteShown
  <2>2. CASE u # t
    <3>1. pending'[u] = pending[u] /\ muted'[u] = muted[u]
      BY <1>1, <2>2 DEF Enqueued, TypeOK, StoreTypeOK, Queues
    <3> QED  BY <1>1, <3>1, BeingClearedSame DEF MuteShown, IntentsShown
  <2> QED  BY <2>1, <2>2
<1> QED  BY <1>1, <1>2 DEF IntentsShown, MuteShown

LEMMA DriveMuteShown ==
    ASSUME TypeOK, IntentsShown, NEW c \in Taps, DriveMute(c)
    PROVE  IntentsShown'
<1> DEFINE target == driver[c].target
<1>1. target \in Targets
  BY DEF DriveMute, TypeOK, CallsTypeOK, MuteCalls
<1>2. UNCHANGED <<prefs, intents, sync, torn>>
  BY DEF DriveMute
<1>3. \/ UNCHANGED <<muted, pending>>
      \/ pending' = Without(pending, {target}) /\ \A t \in Targets \ {target} : muted'[t] = muted[t]
  BY <1>1 DEF DriveMute, MuteFails, MuteConfirmed, Reverted, TypeOK, StoreTypeOK
<1>4. ASSUME NEW t \in Targets PROVE MuteShown(t)'
  <2>1. CASE UNCHANGED <<muted, pending>>
    BY <1>2, <2>1, SameMutes, BeingClearedSame
  <2>2. CASE pending' = Without(pending, {target}) /\ t = target
    BY <2>2 DEF MuteShown, Without
  <2>3. CASE pending' = Without(pending, {target}) /\ t # target /\ muted'[t] = muted[t]
    <3>1. pending'[t] = pending[t]
      BY <2>3 DEF Without
    <3> QED  BY <1>2, <2>3, <3>1, BeingClearedSame DEF MuteShown, IntentsShown
  <2> QED  BY <1>3, <2>1, <2>2, <2>3
<1> QED  BY <1>2, <1>4 DEF IntentsShown, MuteShown

LEMMA PrefStepShown ==
    ASSUME TypeOK, IntentsShown,
           (\E k \in Keys : SetPref(k)) \/ (\E c \in Taps : DrivePref(c))
    PROVE  IntentsShown'
<1>1. UNCHANGED <<muted, pending, sync, torn>>
  BY DEF SetPref, DrivePref, history
<1>2. ASSUME NEW t \in Targets PROVE MuteShown(t)'
  BY <1>1, SameMutes, BeingClearedSame
<1>3. ASSUME NEW k \in Keys PROVE PrefShown(k)'
  <2>1. CASE \E j \in Keys : SetPref(j)
    BY <2>1 DEF SetPref, PrefShown, IntentsShown, TypeOK, StoreTypeOK, ModuleTypeOK
  <2>2. ASSUME NEW c \in Taps, DrivePref(c) PROVE PrefShown(k)'
    <3>1. setter[c].key \in Keys
      BY <2>2 DEF DrivePref, TypeOK, CallsTypeOK, PrefCalls
    <3> QED  BY <2>2, <3>1 DEF DrivePref, SetterEnds, PrefShown, IntentsShown, TypeOK,
                               StoreTypeOK, ModuleTypeOK
  <2> QED  BY <2>1, <2>2
<1> QED  BY <1>2, <1>3 DEF IntentsShown, MuteShown, PrefShown

\* An entry that is still queued holds the intent it held, of the same account.
SameIntent(new, old) ==
    new # None => old # None /\ new.muted = old.muted /\ new.owner = old.owner

\* What a drain's step reverts, and what it was about to clear, it clears or still holds.
LEMMA DrainPost ==
    ASSUME TypeOK, NEW s \in Syncs, Drain(s), NEW t \in Targets
    PROVE  /\ SameIntent(pending'[t], pending[t])
           /\ muted'[t] # muted[t] \/ BeingCleared(t)
                => pending'[t] = None \/ BeingCleared(t)'
<1> DEFINE r == sync[s]
           clearedNow == r.cleared \cup {r.target}
<1>1. r \in DrainCalls
  BY DEF Drain, TypeOK, CallsTypeOK, SyncCalls, ReadCalls
<1>2. /\ r.target \in Targets /\ r.stale \in BOOLEAN /\ r.cleared \in SUBSET Targets
      /\ clearedNow \in SUBSET Targets /\ r.cleared \subseteq clearedNow
  BY <1>1 DEF DrainCalls
<1>3. /\ Bumped(r.target) \in Queues
      /\ SameIntent(Bumped(r.target)[t], pending[t])
  BY <1>2 DEF SameIntent, Bumped, TypeOK, StoreTypeOK, Queues, Ops
<1>4. pending \in Queues /\ userId \in Users \cup {None} /\ ModuleTypeOK /\ sync \in [Syncs -> SyncCalls \cup {None}]
  BY DEF TypeOK, StoreTypeOK, AccountTypeOK, CallsTypeOK
\* The targets that must not be forgotten: those held already and the one reverted now.
<1>5. \/ PassGoesOn(s, r, clearedNow) /\ ~r.orphan
      \/ \E q \in Queues :
           /\ PassEnds(s, q, r.stale)
           /\ SameIntent(q[t], pending[t])
           /\ ~r.orphan /\ t \in r.cleared => q[t] = None
           /\ muted'[t] # muted[t] => q[t] = None
  <2>1. CASE r.orphan
    BY <1>4, <2>1 DEF SameIntent, Drain, DrainResumes
  <2>2. CASE ~r.orphan /\ r.answer \in {"ok", "refused"}
    BY <1>4, <2>2 DEF Drain, DrainResumes
  <2>3. CASE ~r.orphan /\ r.answer = "auth"
    <3>1. PassEnds(s, Without(pending, r.cleared), r.stale) /\ muted' = muted
      BY <2>3 DEF Drain, DrainResumes
    <3> QED  BY <1>4, <3>1, WithoutType DEF SameIntent
  <2>4. CASE ~r.orphan /\ r.answer = "retry" /\ GivenUp(r.op)
    <3>1. PassEnds(s, Without(pending, clearedNow), r.stale)
      BY <2>4 DEF Drain, DrainResumes
    <3>2. t # r.target => muted'[t] = muted[t]
      BY <2>4, <1>2 DEF Drain, DrainResumes, Reverted, TypeOK, StoreTypeOK
    <3> QED  BY <1>2, <1>4, <3>1, <3>2, WithoutType DEF SameIntent
  <2>5. CASE ~r.orphan /\ r.answer = "retry" /\ ~GivenUp(r.op)
    <3>1. PassEnds(s, Without(Bumped(r.target), r.cleared), r.stale) /\ muted' = muted
      BY <2>5 DEF Drain, DrainResumes
    <3> QED  BY <1>3, <3>1, WithoutType DEF SameIntent
  <2> QED  BY <2>1, <2>2, <2>3, <2>4, <2>5 DEF Drain, DrainResumes
<1>6. muted'[t] # muted[t] => t \in clearedNow
  BY <1>2 DEF Drain, DrainResumes, Reverted, TypeOK, StoreTypeOK
<1>7. ASSUME NEW n, sync' = [sync EXCEPT ![s] = n]
      PROVE  /\ BeingCleared(t) /\ ~(~r.orphan /\ t \in r.cleared) => BeingCleared(t)'
             /\ n \in DrainCalls /\ n # None /\ n.orphan = FALSE /\ t \in n.cleared => BeingCleared(t)'
  <2>1. \A x \in Syncs \ {s} : sync'[x] = sync[x]
    BY <1>4, <1>7
  <2>2. sync'[s] = n
    BY <1>4, <1>7
  <2> QED  BY <2>1, <2>2 DEF BeingCleared, Drains, DrainCalls
<1>8. CASE PassGoesOn(s, r, clearedNow) /\ ~r.orphan
  <2>1. /\ \A x \in Targets : pending'[x] \in {None, pending[x]}
        /\ \E n, q, user :
             /\ GoesOnWith(n, q, user, r.stale) /\ sync' = [sync EXCEPT ![s] = n]
             /\ user = r.user \/ user = userId
             /\ \A x \in Targets : q[x] \in {None, pending[x]}
             /\ \A x \in clearedNow : pending'[x] = None \/ (n \in DrainCalls /\ x \in n.cleared)
    BY <1>1, <1>2, <1>4, <1>8, PassGoesOnPost
  <2>2. PICK n, q, user :
             /\ GoesOnWith(n, q, user, r.stale) /\ sync' = [sync EXCEPT ![s] = n]
             /\ \A x \in clearedNow : pending'[x] = None \/ (n \in DrainCalls /\ x \in n.cleared)
    BY <2>1
  <2>3. n \in DrainCalls => n.orphan = FALSE
    BY <2>2 DEF GoesOnWith, ReadRequests, DrainCalls
  <2>4. n \in DrainCalls => n # None
    BY CallsAssumption
  <2> QED  BY <1>2, <1>6, <1>7, <2>1, <2>2, <2>3, <2>4 DEF SameIntent
<1>9. ASSUME NEW q \in Queues, PassEnds(s, q, r.stale),
             SameIntent(q[t], pending[t]),
             ~r.orphan /\ t \in r.cleared => q[t] = None,
             muted'[t] # muted[t] => q[t] = None
      PROVE  /\ SameIntent(pending'[t], pending[t])
             /\ muted'[t] # muted[t] \/ BeingCleared(t) => pending'[t] = None \/ BeingCleared(t)'
  <2>1. /\ \A x \in Targets : pending'[x] \in {None, q[x]}
        /\ \E n : GoesOnWith(n, q, userId, r.stale) /\ sync' = [sync EXCEPT ![s] = n]
    BY <1>2, <1>4, <1>9, PassEndsPost
  <2> QED  BY <1>7, <1>9, <2>1 DEF SameIntent
<1> QED  BY <1>5, <1>8, <1>9

LEMMA DrainShown ==
    ASSUME TypeOK, IntentsShown, NEW s \in Syncs, Drain(s)
    PROVE  IntentsShown'
<1>1. UNCHANGED <<prefs, intents, torn>>
  BY DEF Drain, history
<1>2. ASSUME NEW t \in Targets PROVE MuteShown(t)'
  BY <1>1, <1>2, DrainPost DEF SameIntent, MuteShown, IntentsShown
<1> QED  BY <1>1, <1>2 DEF IntentsShown, MuteShown

LEMMA SyncStartsShown ==
    ASSUME TypeOK, IntentsShown, ForegroundSync \/ PostAuthSync
    PROVE  IntentsShown'
<1>1. SyncStarts /\ UNCHANGED <<muted, prefs, intents, torn>>
  BY DEF ForegroundSync, PostAuthSync, SyncStarts, history
<1>2. /\ \A t \in Targets : pending'[t] \in {None, pending[t]}
      /\ \E s \in Free(sync) : \E n : sync' = [sync EXCEPT ![s] = n]
  BY <1>1, SyncStartsPost
<1>3. ASSUME NEW t \in Targets PROVE BeingCleared(t) => BeingCleared(t)'
  BY <1>2 DEF BeingCleared, Drains, Free, TypeOK, CallsTypeOK
<1>4. ASSUME NEW t \in Targets PROVE MuteShown(t)'
  BY <1>1, <1>2, <1>3 DEF MuteShown, IntentsShown
<1> QED  BY <1>1, <1>4 DEF IntentsShown, MuteShown

LEMMA ApplyShown ==
    ASSUME TypeOK, IntentsShown, NEW s \in Syncs, ApplySync(s)
    PROVE  IntentsShown'
<1> DEFINE r == sync[s]
           gotMutes == ~r.stale /\ r.mutes # Failed
<1>1. /\ muted' = IF gotMutes THEN [t \in Targets |-> Overlay(t, r.mutes, r.as)] ELSE muted
      /\ pending' = IF gotMutes THEN Without(pending, Outlived) ELSE pending
      /\ UNCHANGED <<intents, torn>>
      /\ sync' = [sync EXCEPT ![s] = None] /\ r.stage = "read"
  BY DEF ApplySync, history
<1>2. ASSUME NEW t \in Targets PROVE BeingCleared(t) => BeingCleared(t)'
  BY <1>1 DEF BeingCleared, Drains, TypeOK, CallsTypeOK
<1>3. ASSUME NEW t \in Targets PROVE MuteShown(t)'
  <2>1. CASE gotMutes
    <3>1. /\ muted'[t] = Overlay(t, r.mutes, r.as)
          /\ pending'[t] = IF t \in Outlived THEN None ELSE pending[t]
      BY <1>1, <2>1 DEF Without
    <3>2. CASE pending'[t] = None
      BY <3>2 DEF MuteShown
    <3>3. CASE pending'[t] # None
      <4>1. /\ pending'[t] = pending[t] /\ pending[t] # None /\ pending[t].owner = userId
            /\ userId \in Users
        BY <3>1, <3>3 DEF Outlived, Queued, TypeOK, StoreTypeOK, Queues, Ops
      <4>2. muted'[t] = IF pending[t].muted THEN userId ELSE None
        BY <3>1, <4>1 DEF Overlay
      <4>3. pending[t].muted \in BOOLEAN
        BY <4>1 DEF TypeOK, StoreTypeOK, Queues, Ops
      <4>4. (muted'[t] # None) = pending'[t].muted
        BY <4>1, <4>2, <4>3, NoneAssumption
      <4> QED  BY <4>4 DEF MuteShown
    <3> QED  BY <3>2, <3>3
  <2>2. CASE ~gotMutes
    BY <1>1, <1>2, <2>2, SameMutes
  <2> QED  BY <2>1, <2>2
<1>4. ASSUME NEW k \in Keys PROVE PrefShown(k)'
  BY <1>1 DEF ApplySync, OverlayPref, PrefShown, IntentsShown
<1> QED  BY <1>3, <1>4 DEF IntentsShown, MuteShown, PrefShown

\* What a server's answer changes of a sync, no target is released by.
LEMMA AnswerShown ==
    ASSUME TypeOK, IntentsShown, Server
    PROVE  IntentsShown'
<1>1. UNCHANGED <<muted, pending, prefs, intents, torn>>
  BY DEF Server, AnswerMute, AnswerDrain, AnswerPref, ReadMutes, ReadPrefs, ReadFails, store,
         history
<1>2. ASSUME NEW t \in Targets PROVE BeingCleared(t) => BeingCleared(t)'
  <2>1. CASE UNCHANGED sync
    BY <2>1, BeingClearedSame
  <2>2. ASSUME NEW s \in Syncs, AnswerDrain(s) PROVE BeingCleared(t) => BeingCleared(t)'
    <3>1. PICK answer \in Answers : sync' = [sync EXCEPT ![s].answer = answer]
      BY <2>2 DEF AnswerDrain
    <3>2. sync[s] \in DrainCalls
      BY <2>2 DEF AnswerDrain, TypeOK, CallsTypeOK, SyncCalls, ReadCalls
    <3>3. [sync[s] EXCEPT !.answer = answer] \in DrainCalls
      BY <3>2 DEF DrainCalls
    <3> QED  BY <3>1, <3>2, <3>3, CallsAssumption
             DEF BeingCleared, Drains, DrainCalls, TypeOK, CallsTypeOK
  <2>3. ASSUME NEW s \in Syncs, sync[s] # None, sync[s].stage = "read",
               \A x \in Syncs \ {s} : sync'[x] = sync[x]
        PROVE  BeingCleared(t) => BeingCleared(t)'
    BY <2>3 DEF BeingCleared, Drains
  <2>4. \/ UNCHANGED sync
        \/ \E s \in Syncs : AnswerDrain(s)
        \/ \E s \in Syncs : /\ sync[s] # None /\ sync[s].stage = "read"
                            /\ \A x \in Syncs \ {s} : sync'[x] = sync[x]
    BY DEF Server, AnswerMute, AnswerPref, ReadMutes, ReadPrefs, ReadFails, Reading, TypeOK,
           CallsTypeOK
  <2> QED  BY <2>1, <2>2, <2>3, <2>4
<1>3. ASSUME NEW t \in Targets PROVE MuteShown(t)'
  BY <1>1, <1>2, SameMutes
<1> QED  BY <1>1, <1>3 DEF IntentsShown, MuteShown

LEMMA AccountShown ==
    ASSUME TypeOK, IntentsShown, Environment
    PROVE  IntentsShown'
<1>1. CASE \/ \E u \in Users : SignIn(u)
           \/ \E kind \in {"logout", "deletion"} : StartWipe(kind)
           \/ ClearAuth \/ ForgetAccount
  <2>1. UNCHANGED <<muted, pending, prefs, intents, sync, torn>>
    BY <1>1 DEF SignIn, StartWipe, ClearAuth, ForgetAccount, store
  <2>2. ASSUME NEW t \in Targets PROVE MuteShown(t)'
    BY <2>1, SameMutes, BeingClearedSame
  <2> QED  BY <2>1, <2>2 DEF IntentsShown, MuteShown
<1>2. CASE Wipe \/ RecoveryWipe
  <2>1. pending' = NoMutes /\ intents' = [k \in Keys |-> None]
    BY <1>2 DEF Wipe, RecoveryWipe, ClearNotificationSyncState
  <2> QED  BY <2>1 DEF IntentsShown, NoMutes
<1>3. CASE Restart
  <2>1. /\ UNCHANGED <<muted, pending>> /\ intents' = [k \in Keys |-> None]
        /\ torn' = torn \cup {t \in Targets : BeingCleared(t)}
    BY <1>3 DEF Restart, store
  <2>2. ASSUME NEW t \in Targets PROVE MuteShown(t)'
    BY <2>1, SameMutes
  <2> QED  BY <2>1, <2>2 DEF IntentsShown, MuteShown
<1> QED  BY <1>1, <1>2, <1>3 DEF Environment

LEMMA ShownStep == TypeOK /\ IntentsShown /\ [Next]_vars => IntentsShown'
<1> SUFFICES ASSUME TypeOK, IntentsShown, [Next]_vars PROVE IntentsShown'
  OBVIOUS
<1>1. CASE App
  BY <1>1, ToggleShown, DriveMuteShown, PrefStepShown, DrainShown, ApplyShown, SyncStartsShown
     DEF App
<1>2. CASE UNCHANGED vars
  <2>1. UNCHANGED <<muted, pending, prefs, intents, sync, torn>>
    BY <1>2 DEF vars, store, history
  <2>2. ASSUME NEW t \in Targets PROVE MuteShown(t)'
    BY <2>1, SameMutes, BeingClearedSame
  <2> QED  BY <2>1, <2>2 DEF IntentsShown, MuteShown
<1> QED  BY <1>1, <1>2, AnswerShown, AccountShown DEF Next

\* No sync, late answer or rollback shows anything else than the unconfirmed intent.
THEOREM IntentsShownAlways == Spec => []IntentsShown
<1>1. Init => IntentsShown
  BY DEF Init, Idle, IntentsShown, NoMutes
<1> QED  BY <1>1, InitType, TypeStep, ShownStep, PTL DEF Spec
-----------------------------------------------------------------------------
(* Nothing is done or shown in another account's name.                      *)

Forgotten == wiping = "recovery"

\* A live runner works for the account of the database, and so does its target's entry.
OwnDriver(c) ==
    driver[c] # None /\ ~driver[c].stale =>
      /\ userId \in {None, driver[c].owner}
      /\ driver[c].owner = lastUser \/ Forgotten
      /\ pending[driver[c].target] # None => pending[driver[c].target].owner = driver[c].owner

OwnDrain(s) ==
    sync[s] # None /\ sync[s].stage = "drain" =>
      /\ sync[s].op.owner = sync[s].user
      /\ ~sync[s].orphan =>
           userId \in {None, sync[s].user} /\ (sync[s].user = lastUser \/ Forgotten)

OwnRead(s) ==
    sync[s] # None /\ sync[s].stage = "read" /\ ~sync[s].stale /\ ~kept
      => sync[s].as \in {None, lastUser}

OwnMuteRequest(c) == driver[c] # None => driver[c].as \in {None, driver[c].owner}

OwnDrainRequest(s) ==
    sync[s] # None /\ sync[s].stage = "drain" => sync[s].as \in {None, sync[s].op.owner}

\* The account that is signed in is the database's, or a key recovery has forgotten it.
KnownAccount ==
    /\ userId # None =>
         \/ userId = lastUser
         \/ lastUser = None /\ kept /\ (Forgotten \/ pending = NoMutes)
    /\ wiping \in {"logout", "deletion"} => userId = None
    /\ Forgotten => kept /\ lastUser = None

OwnMutes == ~kept => \A t \in Targets : muted[t] \in {None, lastUser}

DriversOwn == \A c \in Taps : OwnDriver(c) /\ OwnMuteRequest(c)
SyncsOwn == \A s \in Syncs : OwnDrain(s) /\ OwnRead(s) /\ OwnDrainRequest(s)

\* The inductive invariant of OwnRequests and OwnSettings.
OwnInv == DriversOwn /\ SyncsOwn /\ KnownAccount /\ OwnMutes

LEMMA OwnImplies == TypeOK /\ OwnInv => OwnRequests /\ OwnSettings
<1> SUFFICES ASSUME TypeOK, OwnInv PROVE OwnRequests /\ OwnSettings
  OBVIOUS
<1>1. OwnRequests
  BY DEF OwnInv, DriversOwn, SyncsOwn, OwnMuteRequest, OwnDrainRequest, OwnRequests, Drains
<1>2. OwnSettings
  BY DEF OwnInv, KnownAccount, OwnMutes, OwnSettings, Forgotten
<1> QED  BY <1>1, <1>2

SameAccount == UNCHANGED <<userId, lastUser, wiping, kept>>

\* Entries only leave the queue or go on as they were.
QueueShrinks == \A t \in Targets : SameIntent(pending'[t], pending[t])

LEMMA DriversKept ==
    ASSUME TypeOK, DriversOwn, UNCHANGED driver, SameAccount, QueueShrinks
    PROVE  DriversOwn'
<1> SUFFICES ASSUME NEW c \in Taps PROVE (OwnDriver(c) /\ OwnMuteRequest(c))'
  BY DEF DriversOwn
<1>1. driver[c] # None => driver[c].target \in Targets
  BY DEF TypeOK, CallsTypeOK, MuteCalls
<1> QED
  BY <1>1 DEF DriversOwn, OwnDriver, OwnMuteRequest, SameAccount, QueueShrinks, SameIntent, Forgotten

LEMMA SyncsKept ==
    ASSUME SyncsOwn, UNCHANGED sync, SameAccount
    PROVE  SyncsOwn'
BY DEF SyncsOwn, OwnDrain, OwnRead, OwnDrainRequest, SameAccount, Forgotten

LEMMA AccountKept ==
    ASSUME TypeOK, KnownAccount, SameAccount, QueueShrinks, pending' \in Queues
    PROVE  KnownAccount'
<1>1. pending = NoMutes => pending' = NoMutes
  BY DEF QueueShrinks, SameIntent, NoMutes, Queues
<1> QED  BY <1>1 DEF KnownAccount, SameAccount, Forgotten

LEMMA ToggleOwn ==
    ASSUME TypeOK, OwnInv, NEW t \in Targets, ToggleMute(t)
    PROVE  OwnInv'
<1> DEFINE op == [muted |-> muted[t] = None, owner |-> userId, attempts |-> 0]
<1>1. /\ muted' = [muted EXCEPT ![t] = IF op.muted THEN userId ELSE None]
      /\ pending' = Enqueued(t, op)
      /\ \/ UNCHANGED driver
         \/ \E c \in Free(driver) : driver' = [driver EXCEPT ![c] = MuteRequest(t, op)]
      /\ userId # None /\ userId = lastUser /\ op.owner = userId
      /\ UNCHANGED sync /\ SameAccount
  BY DEF ToggleMute, CanTap, account, SameAccount
<1> HIDE DEF op
<1>2. ~Forgotten
  BY <1>1 DEF OwnInv, KnownAccount
<1>3. /\ pending'[t] # None => pending'[t].owner = userId
      /\ \A u \in Targets \ {t} : pending'[u] = pending[u]
  BY <1>1 DEF Enqueued, TypeOK, StoreTypeOK, Queues
<1>4. ASSUME NEW c \in Taps, driver'[c] = driver[c] PROVE (OwnDriver(c) /\ OwnMuteRequest(c))'
  <2>1. driver[c] # None => driver[c].target \in Targets /\ driver[c].owner \in Users
    BY DEF TypeOK, CallsTypeOK, MuteCalls
  <2> QED  BY <1>1, <1>2, <1>3, <1>4, <2>1 DEF OwnInv, DriversOwn, OwnDriver, OwnMuteRequest, SameAccount, Forgotten
<1>5. ASSUME NEW c \in Taps, driver'[c] = MuteRequest(t, op) PROVE (OwnDriver(c) /\ OwnMuteRequest(c))'
  BY <1>1, <1>3, <1>5 DEF OwnDriver, OwnMuteRequest, SameAccount, MuteRequest
<1>6. DriversOwn'
  BY <1>1, <1>4, <1>5 DEF DriversOwn, Free, TypeOK, CallsTypeOK
<1>7. SyncsOwn' /\ OwnMutes' /\ KnownAccount'
  BY <1>1, <1>2, SyncsKept DEF OwnInv, OwnMutes, KnownAccount, SameAccount, TypeOK, StoreTypeOK, Forgotten
<1> QED  BY <1>6, <1>7 DEF OwnInv

LEMMA WithoutShrinks ==
    ASSUME TypeOK, NEW ids, pending' = Without(pending, ids)
    PROVE  QueueShrinks /\ pending' \in Queues
BY WithoutType DEF QueueShrinks, SameIntent, TypeOK, StoreTypeOK

LEMMA SameShrinks ==
    ASSUME TypeOK, UNCHANGED pending
    PROVE  QueueShrinks /\ pending' \in Queues
BY DEF QueueShrinks, SameIntent, TypeOK, StoreTypeOK

LEMMA DriveMuteOwn ==
    ASSUME TypeOK, OwnInv, NEW c \in Taps, DriveMute(c)
    PROVE  OwnInv'
<1> DEFINE r == driver[c]
<1>1. /\ r \in MuteCalls /\ r # None /\ r.target \in Targets /\ r.owner \in Users
      /\ driver \in [Taps -> MuteCalls \cup {None}]
      /\ UNCHANGED sync /\ SameAccount
  BY DEF DriveMute, TypeOK, CallsTypeOK, MuteCalls, account, SameAccount
<1>2. \/ UNCHANGED pending
      \/ pending' = Without(pending, {r.target})
  BY DEF DriveMute, MuteFails, MuteConfirmed
<1>3. QueueShrinks /\ pending' \in Queues
  BY <1>2, WithoutShrinks, SameShrinks
<1>4. SyncsOwn' /\ KnownAccount'
  BY <1>1, <1>3, SyncsKept, AccountKept DEF OwnInv
<1>5. OwnMutes'
  <2>1. CASE UNCHANGED muted
    BY <1>1, <2>1 DEF OwnInv, OwnMutes, SameAccount
  <2>2. CASE muted' = Reverted(r.target, r.muted, r.owner) /\ ~r.stale
    <3>1. kept \/ r.owner = lastUser
      BY <1>1, <2>2 DEF OwnInv, DriversOwn, OwnDriver, KnownAccount
    <3> QED  BY <1>1, <2>2, <3>1 DEF OwnInv, OwnMutes, SameAccount, Reverted, TypeOK, StoreTypeOK
  <2> QED  BY <2>1, <2>2 DEF DriveMute, MuteFails, MuteConfirmed
<1>6. ASSUME NEW d \in Taps PROVE (OwnDriver(d) /\ OwnMuteRequest(d))'
  <2>1. CASE driver'[d] = driver[d]
    <3>1. driver[d] # None => driver[d].target \in Targets
      BY DEF TypeOK, CallsTypeOK, MuteCalls
    <3> QED  BY <1>1, <1>3, <2>1, <3>1 DEF OwnInv, DriversOwn, OwnDriver, OwnMuteRequest,
                SameAccount, QueueShrinks, SameIntent, Forgotten
  <2>2. CASE driver'[d] = None
    BY <2>2 DEF OwnDriver, OwnMuteRequest
  <2>3. CASE /\ d = c /\ ~r.stale /\ pending[r.target] # None /\ UNCHANGED pending
             /\ driver'[d] = MuteRequest(r.target, pending[r.target])
    <3>1. pending[r.target].owner = r.owner /\ userId \in {None, r.owner} /\ (r.owner = lastUser \/ Forgotten)
      BY <1>1, <2>3 DEF OwnInv, DriversOwn, OwnDriver
    <3> QED  BY <1>1, <2>3, <3>1 DEF OwnDriver, OwnMuteRequest, MuteRequest, SameAccount, Forgotten
  <2>4. \/ driver' = [driver EXCEPT ![c] = None]
        \/ /\ ~r.stale /\ pending[r.target] # None /\ UNCHANGED pending
           /\ driver' = [driver EXCEPT ![c] = MuteRequest(r.target, pending[r.target])]
    BY DEF DriveMute, MuteFails, MuteConfirmed, RunnerEnds, Settled
  <2> QED  BY <1>1, <2>1, <2>2, <2>3, <2>4
<1> QED  BY <1>4, <1>5, <1>6 DEF OwnInv, DriversOwn

\* What a drain goes on with is of its own pass, or of a new one for the signed-in user.
LEMMA DrainGoesOn ==
    ASSUME TypeOK, NEW s \in Syncs, Drain(s)
    PROVE  \E n, q, user :
             /\ GoesOnWith(n, q, user, sync[s].stale) /\ sync' = [sync EXCEPT ![s] = n]
             /\ user = userId \/ (user = sync[s].user /\ ~sync[s].orphan)
             /\ \A t \in Targets : q[t] # None => pending[t] # None
<1> DEFINE r == sync[s]
           clearedNow == r.cleared \cup {r.target}
<1>1. r \in DrainCalls
  BY DEF Drain, TypeOK, CallsTypeOK, SyncCalls, ReadCalls
<1>2. /\ r.target \in Targets /\ r.stale \in BOOLEAN /\ r.cleared \in SUBSET Targets
      /\ clearedNow \in SUBSET Targets
  BY <1>1 DEF DrainCalls
<1>3. pending \in Queues /\ userId \in Users \cup {None} /\ ModuleTypeOK
  BY DEF TypeOK, StoreTypeOK, AccountTypeOK
<1>4. /\ Bumped(r.target) \in Queues
      /\ \A t \in Targets : Bumped(r.target)[t] # None => pending[t] # None
  BY <1>2, <1>3 DEF Bumped, Queues, Ops
<1>5. \/ PassGoesOn(s, r, clearedNow) /\ ~r.orphan
      \/ PassEnds(s, pending, r.stale)
      \/ PassEnds(s, Without(pending, r.cleared), r.stale)
      \/ PassEnds(s, Without(pending, clearedNow), r.stale)
      \/ PassEnds(s, Without(Bumped(r.target), r.cleared), r.stale)
  BY DEF Drain, DrainResumes
<1>6. CASE PassGoesOn(s, r, clearedNow) /\ ~r.orphan
  <2>1. \E n, q, user :
             /\ GoesOnWith(n, q, user, r.stale) /\ sync' = [sync EXCEPT ![s] = n]
             /\ user = r.user \/ user = userId
             /\ \A t \in Targets : q[t] \in {None, pending[t]}
    BY <1>1, <1>2, <1>3, <1>6, PassGoesOnPost
  <2> QED  BY <1>6, <2>1
<1>7. ASSUME NEW q \in Queues, PassEnds(s, q, r.stale), \A t \in Targets : q[t] # None => pending[t] # None
      PROVE  \E n : GoesOnWith(n, q, userId, r.stale) /\ sync' = [sync EXCEPT ![s] = n]
  BY <1>2, <1>3, <1>7, PassEndsPost
<1>8. ASSUME NEW q \in Queues, NEW ids, \A t \in Targets : q[t] # None => pending[t] # None
      PROVE  Without(q, ids) \in Queues /\ \A t \in Targets : Without(q, ids)[t] # None => pending[t] # None
  BY <1>8, WithoutType
<1> QED
  <2>1. CASE PassEnds(s, pending, r.stale)
    BY <1>3, <1>7, <2>1
  <2>2. CASE PassEnds(s, Without(pending, r.cleared), r.stale)
    BY <1>3, <1>7, <1>8, <2>2
  <2>3. CASE PassEnds(s, Without(pending, clearedNow), r.stale)
    BY <1>3, <1>7, <1>8, <2>3
  <2>4. CASE PassEnds(s, Without(Bumped(r.target), r.cleared), r.stale)
    BY <1>4, <1>7, <1>8, <2>4
  <2> QED  BY <1>5, <1>6, <2>1, <2>2, <2>3, <2>4

\* A sync that goes on for the signed-in user, or for the user of a live pass, does so in
\* that account's name.
LEMMA GoesOnOwn ==
    ASSUME TypeOK, OwnInv, SameAccount, NEW s \in Syncs, NEW n, NEW q, NEW user, NEW stale,
           GoesOnWith(n, q, user, stale), sync' = [sync EXCEPT ![s] = n],
           user = userId \/ (userId \in {None, user} /\ (user = lastUser \/ Forgotten)),
           \A t \in Targets : q[t] # None => pending[t] # None
    PROVE  SyncsOwn'
<1> SUFFICES ASSUME NEW x \in Syncs PROVE (OwnDrain(x) /\ OwnRead(x) /\ OwnDrainRequest(x))'
  BY DEF SyncsOwn
<1>1. sync \in [Syncs -> SyncCalls \cup {None}]
  BY DEF TypeOK, CallsTypeOK
<1>2. CASE x # s
  <2>1. sync'[x] = sync[x]
    BY <1>1, <1>2
  <2> QED  BY <2>1 DEF OwnInv, SyncsOwn, OwnDrain, OwnRead, OwnDrainRequest, SameAccount, Forgotten
<1>3. CASE x = s
  <2>1. sync'[x] = n
    BY <1>1, <1>3
  <2>2. CASE n = ReadRequests(stale)
    <3>1. sync'[x].stage = "read" /\ sync'[x].as = userId
      BY <2>1, <2>2 DEF ReadRequests
    <3>2. ~kept => userId \in {None, lastUser}
      BY DEF OwnInv, KnownAccount
    <3> QED  BY <3>1, <3>2 DEF OwnDrain, OwnRead, OwnDrainRequest, SameAccount
  <2>3. CASE /\ n \in DrainCalls /\ n.user = user /\ n.op.owner = user /\ n.as = userId
             /\ n.op = q[n.target] /\ q[n.target] # None
    <3>1. n.target \in Targets /\ user \in Users /\ n.stage = "drain"
      BY <2>3 DEF DrainCalls
    <3>2. pending # NoMutes
      BY <2>3, <3>1 DEF NoMutes
    <3>3. userId \in {None, user} /\ (user = lastUser \/ Forgotten)
      BY <3>1, <3>2, NoneAssumption DEF OwnInv, KnownAccount
    <3> QED  BY <2>1, <2>3, <3>1, <3>3 DEF OwnDrain, OwnRead, OwnDrainRequest, SameAccount, Forgotten
  <2> QED  BY <2>2, <2>3 DEF GoesOnWith
<1> QED  BY <1>2, <1>3

LEMMA DrainOwn ==
    ASSUME TypeOK, OwnInv, NEW s \in Syncs, Drain(s)
    PROVE  OwnInv'
<1> DEFINE r == sync[s]
<1>1. /\ r \in DrainCalls /\ r # None /\ r.stage = "drain" /\ r.target \in Targets
      /\ UNCHANGED driver /\ SameAccount
  BY DEF Drain, TypeOK, CallsTypeOK, SyncCalls, ReadCalls, DrainCalls, account, history, SameAccount
<1>2. QueueShrinks /\ pending' \in Queues
  BY DrainPost, DrainType DEF QueueShrinks, TypeOK, StoreTypeOK
<1>3. DriversOwn' /\ KnownAccount'
  BY <1>1, <1>2, DriversKept, AccountKept DEF OwnInv
<1>4. r.op.owner = r.user /\ (~r.orphan => userId \in {None, r.user} /\ (r.user = lastUser \/ Forgotten))
  BY <1>1 DEF OwnInv, SyncsOwn, OwnDrain
<1>5. OwnMutes'
  <2>1. CASE UNCHANGED muted
    BY <1>1, <2>1 DEF OwnInv, OwnMutes, SameAccount
  <2>2. CASE muted' = Reverted(r.target, r.op.muted, r.op.owner) /\ ~r.orphan
    <3>1. kept \/ r.op.owner = lastUser
      BY <1>4, <2>2 DEF OwnInv, KnownAccount
    <3> QED  BY <1>1, <2>2, <3>1 DEF OwnInv, OwnMutes, SameAccount, Reverted, TypeOK, StoreTypeOK
  <2> QED  BY <2>1, <2>2 DEF Drain, DrainResumes
<1>6. SyncsOwn'
  <2>1. PICK n, q, user :
             /\ GoesOnWith(n, q, user, r.stale) /\ sync' = [sync EXCEPT ![s] = n]
             /\ user = userId \/ (user = r.user /\ ~r.orphan)
             /\ \A t \in Targets : q[t] # None => pending[t] # None
    BY DrainGoesOn
  <2>2. user = userId \/ (userId \in {None, user} /\ (user = lastUser \/ Forgotten))
    <3>1. CASE user = userId
      BY <3>1
    <3>2. CASE user = r.user /\ ~r.orphan
      BY <1>4, <3>2
    <3> QED  BY <2>1, <3>1, <3>2
  <2> QED  BY <1>1, <2>1, <2>2, GoesOnOwn
<1> QED  BY <1>3, <1>5, <1>6 DEF OwnInv

LEMMA SyncStartsOwn ==
    ASSUME TypeOK, OwnInv, ForegroundSync \/ PostAuthSync
    PROVE  OwnInv'
<1>1. SyncStarts /\ UNCHANGED <<muted, driver>> /\ SameAccount
  BY DEF ForegroundSync, PostAuthSync, SyncStarts, history, SameAccount
<1>2. QueueShrinks /\ pending' \in Queues
  BY <1>1, SyncStartsPost DEF QueueShrinks, SameIntent
<1>3. DriversOwn' /\ KnownAccount' /\ OwnMutes'
  BY <1>1, <1>2, DriversKept, AccountKept DEF OwnInv, OwnMutes, SameAccount
<1>4. PICK s \in Free(sync) : \E n :
        GoesOnWith(n, pending, userId, FALSE) /\ sync' = [sync EXCEPT ![s] = n]
  BY <1>1, SyncStartsPost
<1>5. s \in Syncs
  BY DEF Free, TypeOK, CallsTypeOK
<1>6. SyncsOwn'
  BY <1>1, <1>4, <1>5, GoesOnOwn, Zenon
<1> QED  BY <1>3, <1>6 DEF OwnInv

LEMMA ApplyOwn ==
    ASSUME TypeOK, OwnInv, NEW s \in Syncs, ApplySync(s)
    PROVE  OwnInv'
<1> DEFINE r == sync[s]
           gotMutes == ~r.stale /\ r.mutes # Failed
<1>1. /\ muted' = IF gotMutes THEN [t \in Targets |-> Overlay(t, r.mutes, r.as)] ELSE muted
      /\ pending' = IF gotMutes THEN Without(pending, Outlived) ELSE pending
      /\ sync' = [sync EXCEPT ![s] = None] /\ r # None /\ r.stage = "read"
      /\ UNCHANGED driver /\ SameAccount
  BY DEF ApplySync, account, history, SameAccount
<1>2. QueueShrinks /\ pending' \in Queues
  BY <1>1, WithoutShrinks, SameShrinks
<1>3. DriversOwn' /\ KnownAccount'
  BY <1>1, <1>2, DriversKept, AccountKept DEF OwnInv
<1>4. SyncsOwn'
  <2> SUFFICES ASSUME NEW x \in Syncs PROVE (OwnDrain(x) /\ OwnRead(x) /\ OwnDrainRequest(x))'
    BY DEF SyncsOwn
  <2>1. sync'[x] \in {sync[x], None}
    BY <1>1 DEF TypeOK, CallsTypeOK
  <2> QED  BY <1>1, <2>1 DEF OwnInv, SyncsOwn, OwnDrain, OwnRead, OwnDrainRequest, SameAccount, Forgotten
<1>5. OwnMutes'
  <2>1. CASE gotMutes /\ ~kept
    <3>1. r.as \in {None, lastUser}
      BY <1>1, <2>1 DEF OwnInv, SyncsOwn, OwnRead
    <3>2. userId \in {None, lastUser}
      BY <2>1 DEF OwnInv, KnownAccount
    <3>3. \A t \in Targets : Overlay(t, r.mutes, r.as) \in {None, lastUser}
      BY <3>1, <3>2 DEF Overlay
    <3> HIDE DEF r
    <3> QED  BY <1>1, <2>1, <3>3 DEF OwnMutes, SameAccount
  <2> QED  BY <1>1, <2>1 DEF OwnInv, OwnMutes, SameAccount
<1> QED  BY <1>3, <1>4, <1>5 DEF OwnInv

\* An answer or a read changes what a call has got, never whose it is.
LEMMA ServerOwn ==
    ASSUME TypeOK, OwnInv, Server
    PROVE  OwnInv'
<1>1. UNCHANGED <<muted, pending>> /\ SameAccount
  BY DEF Server, AnswerMute, AnswerDrain, AnswerPref, ReadMutes, ReadPrefs, ReadFails, store,
         account, history, SameAccount
<1>2. QueueShrinks /\ pending' \in Queues
  BY <1>1, SameShrinks
<1>3. KnownAccount' /\ OwnMutes'
  BY <1>1, <1>2, AccountKept DEF OwnInv, OwnMutes, SameAccount
<1>4. DriversOwn'
  <2>1. CASE UNCHANGED driver
    BY <1>1, <1>2, <2>1, DriversKept DEF OwnInv
  <2>2. ASSUME NEW c \in Taps, AnswerMute(c) PROVE DriversOwn'
    <3>1. PICK answer \in Answers : driver' = [driver EXCEPT ![c].answer = answer]
      BY <2>2 DEF AnswerMute
    <3>2. driver \in [Taps -> MuteCalls \cup {None}] /\ driver[c] # None
      BY <2>2 DEF AnswerMute, TypeOK, CallsTypeOK
    <3>3. ASSUME NEW d \in Taps PROVE (OwnDriver(d) /\ OwnMuteRequest(d))'
      <4>1. CASE d # c
        <5>1. driver'[d] = driver[d]
          BY <3>1, <3>2, <4>1
        <5> QED  BY <1>1, <5>1 DEF OwnInv, DriversOwn, OwnDriver, OwnMuteRequest, SameAccount, Forgotten
      <4>2. CASE d = c
        <5>1. /\ driver'[d].stale = driver[d].stale /\ driver'[d].owner = driver[d].owner
              /\ driver'[d].target = driver[d].target /\ driver'[d].as = driver[d].as
          BY <3>1, <3>2, <4>2 DEF MuteCalls
        <5> QED  BY <1>1, <3>2, <4>2, <5>1 DEF OwnInv, DriversOwn, OwnDriver, OwnMuteRequest,
                    SameAccount, Forgotten
      <4> QED  BY <4>1, <4>2
    <3> QED  BY <3>3 DEF DriversOwn
  <2> QED  BY <2>1, <2>2 DEF Server, AnswerDrain, AnswerPref, ReadMutes, ReadPrefs, ReadFails
<1>5. SyncsOwn'
  <2>1. CASE UNCHANGED sync
    BY <1>1, <2>1, SyncsKept DEF OwnInv
  <2>2. ASSUME NEW s \in Syncs, AnswerDrain(s) \/ ReadMutes(s) \/ ReadPrefs(s) \/ ReadFails(s)
        PROVE  SyncsOwn'
    <3>1. \E f \in {"answer", "mutes", "prefs"} : \E v :
             /\ sync' = [sync EXCEPT ![s][f] = v] /\ sync[s] # None
             /\ sync[s] \in (IF f = "answer" THEN DrainCalls ELSE ReadCalls)
      <4>1. sync[s] # None /\ sync[s] \in SyncCalls
        BY <2>2 DEF AnswerDrain, ReadMutes, ReadPrefs, ReadFails, Reading, TypeOK, CallsTypeOK
      <4>2. CASE AnswerDrain(s)
        <5>1. PICK answer \in Answers : sync' = [sync EXCEPT ![s].answer = answer]
          BY <4>2 DEF AnswerDrain
        <5> QED  BY <4>1, <4>2, <5>1 DEF AnswerDrain, SyncCalls, ReadCalls
      <4>3. CASE ReadMutes(s) \/ ReadPrefs(s) \/ ReadFails(s)
        <5>1. sync[s].stage = "read"
          BY <4>3 DEF ReadMutes, ReadPrefs, ReadFails, Reading
        <5>2. sync[s] \in ReadCalls
          BY <4>1, <5>1 DEF SyncCalls, DrainCalls
        <5>3. \/ sync' = [sync EXCEPT ![s].mutes = server[sync[s].as].mutes]
              \/ sync' = [sync EXCEPT ![s].prefs = server[sync[s].as].prefs]
              \/ \E part \in {"mutes", "prefs"} : sync' = [sync EXCEPT ![s][part] = Failed]
          BY <4>3 DEF ReadMutes, ReadPrefs, ReadFails
        <5> QED  BY <4>1, <5>2, <5>3
      <4> QED  BY <2>2, <4>2, <4>3
    <3>2. PICK f \in {"answer", "mutes", "prefs"} : \E v :
             /\ sync' = [sync EXCEPT ![s][f] = v] /\ sync[s] # None
             /\ sync[s] \in (IF f = "answer" THEN DrainCalls ELSE ReadCalls)
      BY <3>1
    <3>3. PICK v :
             /\ sync' = [sync EXCEPT ![s][f] = v] /\ sync[s] # None
             /\ sync[s] \in (IF f = "answer" THEN DrainCalls ELSE ReadCalls)
      BY <3>2
    <3>4. sync \in [Syncs -> SyncCalls \cup {None}]
      BY DEF TypeOK, CallsTypeOK
    <3>5. sync'[s] = [sync[s] EXCEPT ![f] = v] /\ \A x \in Syncs \ {s} : sync'[x] = sync[x]
      BY <3>3, <3>4
    <3>6. /\ sync'[s].stage = sync[s].stage /\ sync'[s].as = sync[s].as
          /\ sync'[s].stale = sync[s].stale
          /\ sync[s].stage = "drain" => /\ sync'[s].op = sync[s].op /\ sync'[s].user = sync[s].user
                                        /\ sync'[s].orphan = sync[s].orphan
      BY <3>3, <3>5 DEF DrainCalls, ReadCalls
    <3>7. ASSUME NEW x \in Syncs PROVE (OwnDrain(x) /\ OwnRead(x) /\ OwnDrainRequest(x))'
      <4>1. CASE x # s
        BY <1>1, <3>5, <4>1 DEF OwnInv, SyncsOwn, OwnDrain, OwnRead, OwnDrainRequest, SameAccount, Forgotten
      <4>2. CASE x = s
        BY <1>1, <3>3, <3>6, <4>2 DEF OwnInv, SyncsOwn, OwnDrain, OwnRead, OwnDrainRequest, SameAccount, Forgotten
      <4> QED  BY <4>1, <4>2
    <3> QED  BY <3>7 DEF SyncsOwn
  <2> QED  BY <2>1, <2>2 DEF Server, AnswerMute, AnswerPref
<1> QED  BY <1>3, <1>4, <1>5 DEF OwnInv

\* After a wipe no call in flight is live, and a read that is not live owns nothing.
LEMMA ClearedOwn ==
    ASSUME TypeOK, OwnInv, ClearNotificationSyncState
    PROVE  DriversOwn' /\ SyncsOwn'
<1>1. ASSUME NEW c \in Taps PROVE (OwnDriver(c) /\ OwnMuteRequest(c))'
  <2>1. driver[c] \in MuteCalls \cup {None} /\ DOMAIN driver = Taps
    BY DEF TypeOK, CallsTypeOK
  <2>2. driver'[c] = IF driver[c] = None THEN None ELSE [driver[c] EXCEPT !.stale = TRUE]
    BY <2>1 DEF ClearNotificationSyncState, Stale
  <2>3. driver[c] # None => /\ driver'[c].stale = TRUE /\ driver'[c].as = driver[c].as
                            /\ driver'[c].owner = driver[c].owner
    BY <2>1, <2>2 DEF MuteCalls
  <2> QED  BY <2>2, <2>3 DEF OwnInv, DriversOwn, OwnDriver, OwnMuteRequest
<1>2. ASSUME NEW s \in Syncs PROVE (OwnDrain(s) /\ OwnRead(s) /\ OwnDrainRequest(s))'
  <2>1. sync[s] \in SyncCalls \cup {None} /\ DOMAIN sync = Syncs
    BY DEF TypeOK, CallsTypeOK
  <2>2. sync'[s] = StaleSyncs[s]
    BY DEF ClearNotificationSyncState
  <2>3. CASE sync[s] = None
    BY <2>1, <2>2, <2>3 DEF StaleSyncs, Stale, OwnDrain, OwnRead, OwnDrainRequest
  <2>4. CASE sync[s] # None /\ sync[s] \in ReadCalls
    <3>1. sync[s].stage = "read"
      BY <2>4 DEF ReadCalls
    <3>2. sync'[s] = [sync[s] EXCEPT !.stale = TRUE]
      BY <2>1, <2>2, <2>4, <3>1 DEF StaleSyncs, Stale
    <3>3. sync'[s].stage = "read" /\ sync'[s].stale = TRUE
      BY <2>4, <3>1, <3>2 DEF ReadCalls
    <3> QED  BY <3>3 DEF OwnDrain, OwnRead, OwnDrainRequest
  <2>5. CASE sync[s] # None /\ sync[s] \in DrainCalls
    <3>1. sync[s].stage = "drain"
      BY <2>5 DEF DrainCalls
    <3>2. sync'[s] = [sync[s] EXCEPT !.stale = TRUE, !.orphan = TRUE]
      BY <2>1, <2>2, <2>5, <3>1 DEF StaleSyncs
    <3>3. /\ sync'[s].stage = "drain" /\ sync'[s].orphan = TRUE /\ sync'[s].op = sync[s].op
          /\ sync'[s].user = sync[s].user /\ sync'[s].as = sync[s].as
      BY <2>5, <3>1, <3>2 DEF DrainCalls
    <3> QED  BY <2>5, <3>1, <3>3 DEF OwnInv, SyncsOwn, OwnDrain, OwnRead, OwnDrainRequest
  <2> QED  BY <2>1, <2>3, <2>4, <2>5 DEF SyncCalls
<1> QED  BY <1>1, <1>2 DEF DriversOwn, SyncsOwn

LEMMA AccountOwn ==
    ASSUME TypeOK, OwnInv, Environment
    PROVE  OwnInv'
<1>1. /\ \A c \in Taps : driver[c] # None => driver[c].owner \in Users
      /\ \A s \in Syncs : sync[s] # None /\ sync[s].stage = "drain" => sync[s].user \in Users
  BY DEF TypeOK, CallsTypeOK, MuteCalls, SyncCalls, DrainCalls, ReadCalls
<1>2. CASE \/ \E u \in Users : SignIn(u)
           \/ \E kind \in {"logout", "deletion"} : StartWipe(kind)
           \/ ClearAuth \/ ForgetAccount
  <2>1. UNCHANGED <<muted, pending, driver, sync>>
    BY <1>2 DEF SignIn, StartWipe, ClearAuth, ForgetAccount, store
  <2>2. CASE \E u \in Users : SignIn(u)
    <3>1. PICK u \in Users :
            /\ wiping = "no" /\ userId \in {None, u} /\ lastUser \in {None, u}
            /\ userId' = u /\ lastUser' = u /\ UNCHANGED <<wiping, kept>>
      BY <2>2 DEF SignIn
    <3>2. DriversOwn'
      BY <1>1, <2>1, <3>1, NoneAssumption DEF OwnInv, DriversOwn, OwnDriver, OwnMuteRequest, Forgotten
    <3>3. SyncsOwn'
      BY <1>1, <2>1, <3>1, NoneAssumption DEF OwnInv, SyncsOwn, OwnDrain, OwnRead, OwnDrainRequest, Forgotten
    <3>4. KnownAccount' /\ OwnMutes'
      BY <2>1, <3>1 DEF OwnInv, KnownAccount, OwnMutes, Forgotten
    <3> QED  BY <3>2, <3>3, <3>4 DEF OwnInv
  <2>3. CASE (\E kind \in {"logout", "deletion"} : StartWipe(kind)) \/ ClearAuth
    <3>1. userId' = None /\ UNCHANGED <<lastUser, kept>> /\ (Forgotten' = Forgotten)
      BY <2>3 DEF StartWipe, ClearAuth, Forgotten
    <3>2. DriversOwn' /\ SyncsOwn'
      BY <2>1, <3>1 DEF OwnInv, DriversOwn, OwnDriver, OwnMuteRequest, SyncsOwn, OwnDrain,
         OwnRead, OwnDrainRequest
    <3> QED  BY <2>1, <3>1, <3>2 DEF OwnInv, KnownAccount, OwnMutes
  <2>4. CASE ForgetAccount
    <3>1. userId' = userId /\ userId # None /\ lastUser' = None /\ kept' = TRUE
          /\ Forgotten' /\ wiping' = "recovery" /\ wiping = "no"
      BY <2>4 DEF ForgetAccount, Forgotten
    <3>2. DriversOwn' /\ SyncsOwn'
      BY <2>1, <3>1 DEF OwnInv, DriversOwn, OwnDriver, OwnMuteRequest, SyncsOwn, OwnDrain,
         OwnRead, OwnDrainRequest
    <3> QED  BY <3>1, <3>2 DEF OwnInv, KnownAccount, OwnMutes
  <2> QED  BY <1>2, <2>2, <2>3, <2>4
<1>3. CASE Wipe
  <2>1. DriversOwn' /\ SyncsOwn'
    BY <1>3, ClearedOwn DEF Wipe
  <2>2. userId' = None /\ wiping' = "no" /\ muted' = NoMutes
    BY <1>3 DEF Wipe, OwnInv, KnownAccount
  <2> QED  BY <2>1, <2>2 DEF OwnInv, KnownAccount, OwnMutes, Forgotten, NoMutes
<1>4. CASE RecoveryWipe
  <2>1. DriversOwn' /\ SyncsOwn'
    BY <1>4, ClearedOwn DEF RecoveryWipe
  <2>2. /\ wiping' = "no" /\ pending' = NoMutes /\ UNCHANGED <<muted, userId, lastUser, kept>>
        /\ Forgotten
    BY <1>4 DEF RecoveryWipe, history, Forgotten
  <2>3. KnownAccount' /\ OwnMutes'
    BY <2>2 DEF OwnInv, KnownAccount, OwnMutes, Forgotten
  <2> QED  BY <2>1, <2>3 DEF OwnInv
<1>5. CASE Restart
  <2>1. /\ driver' = [c \in Taps |-> None] /\ sync' = [s \in Syncs |-> None]
        /\ userId' = None /\ wiping' = "no" /\ UNCHANGED <<muted, lastUser, kept>>
    BY <1>5 DEF Restart, store
  <2> QED  BY <2>1 DEF OwnInv, DriversOwn, OwnDriver, OwnMuteRequest, SyncsOwn, OwnDrain, OwnRead,
                       OwnDrainRequest, KnownAccount, OwnMutes, Forgotten
<1> QED  BY <1>2, <1>3, <1>4, <1>5 DEF Environment

LEMMA InitOwn == Init => OwnInv
BY DEF Init, Idle, NoMutes, OwnInv, DriversOwn, OwnDriver, OwnMuteRequest, SyncsOwn, OwnDrain,
       OwnRead, OwnDrainRequest, KnownAccount, OwnMutes, Forgotten

LEMMA OwnStep == TypeOK /\ OwnInv /\ [Next]_vars => OwnInv'
<1> SUFFICES ASSUME TypeOK, OwnInv, [Next]_vars PROVE OwnInv'
  OBVIOUS
<1>1. CASE App
  <2>1. CASE (\E k \in Keys : SetPref(k)) \/ (\E c \in Taps : DrivePref(c))
    <3>1. UNCHANGED <<muted, pending, driver, sync>> /\ SameAccount
      BY <2>1 DEF SetPref, DrivePref, history, account, SameAccount
    <3>2. QueueShrinks /\ pending' \in Queues
      BY <3>1, SameShrinks
    <3> QED  BY <3>1, <3>2, DriversKept, SyncsKept, AccountKept DEF OwnInv, OwnMutes, SameAccount
  <2> QED  BY <1>1, <2>1, ToggleOwn, DriveMuteOwn, DrainOwn, ApplyOwn, SyncStartsOwn DEF App
<1>2. CASE UNCHANGED vars
  <2>1. UNCHANGED <<muted, pending, driver, sync>> /\ SameAccount
    BY <1>2 DEF vars, store, history, account, SameAccount
  <2>2. QueueShrinks /\ pending' \in Queues
    BY <2>1, SameShrinks
  <2> QED  BY <2>1, <2>2, DriversKept, SyncsKept, AccountKept DEF OwnInv, OwnMutes, SameAccount
<1> QED  BY <1>1, <1>2, ServerOwn, AccountOwn DEF Next

\* No mute is sent in the name of another account than the one that asked for it, over every
\* order of taps, drains, sign-outs, wipes, key recoveries and sign-ins.
THEOREM OwnRequestsAlways == Spec => []OwnRequests
BY InitType, TypeStep, InitOwn, OwnStep, OwnImplies, PTL DEF Spec

\* No mute of an account is shown to the next one, unless a key recovery left it behind.
THEOREM OwnSettingsAlways == Spec => []OwnSettings
BY InitType, TypeStep, InitOwn, OwnStep, OwnImplies, PTL DEF Spec

-----------------------------------------------------------------------------
(* One runner per target.                                                   *)

\* A live runner is registered until a runner of an earlier session has ended.
RunnersKnown ==
    ~lateEnd => \A c \in Taps : driver[c] # None /\ ~driver[c].stale => driver[c].target \in runners

RunnerInv == RunnersKnown /\ OneRunner

LEMMA SameRunners ==
    ASSUME RunnerInv, UNCHANGED <<driver, runners, lateEnd>>
    PROVE  RunnerInv'
BY DEF RunnerInv, RunnersKnown, OneRunner, RunnersOf

LEMMA ToggleRunner ==
    ASSUME TypeOK, RunnerInv, NEW t \in Targets, ToggleMute(t)
    PROVE  RunnerInv'
<1> DEFINE op == [muted |-> muted[t] = None, owner |-> userId, attempts |-> 0]
<1>1. CASE UNCHANGED <<driver, runners>>
  BY <1>1, SameRunners DEF ToggleMute
<1>2. CASE t \notin runners
  <2>1. PICK c \in Free(driver) : driver' = [driver EXCEPT ![c] = MuteRequest(t, op)]
    BY <1>2 DEF ToggleMute, HasRunner
  <2>2. c \in Taps /\ driver[c] = None /\ driver'[c] = MuteRequest(t, op)
        /\ \A d \in Taps \ {c} : driver'[d] = driver[d]
    BY <2>1 DEF Free, TypeOK, CallsTypeOK
  <2>3. driver'[c].target = t
    BY <2>2 DEF MuteRequest
  <2>4. runners' = runners \cup {t} /\ lateEnd' = lateEnd
    BY <1>2 DEF ToggleMute, HasRunner
  <2> HIDE DEF op
  <2>5. RunnersKnown'
    BY <2>2, <2>3, <2>4 DEF RunnerInv, RunnersKnown
  <2>6. OneRunner'
    BY <1>2, <2>2, <2>3, <2>4 DEF RunnerInv, RunnersKnown, OneRunner, RunnersOf
  <2> QED  BY <2>5, <2>6 DEF RunnerInv
<1> QED  BY <1>1, <1>2 DEF ToggleMute, HasRunner

LEMMA DriveRunner ==
    ASSUME TypeOK, RunnerInv, NEW c \in Taps, DriveMute(c)
    PROVE  RunnerInv'
<1> DEFINE r == driver[c]
<1>1. r # None /\ r.target \in Targets /\ driver \in [Taps -> MuteCalls \cup {None}]
  BY DEF DriveMute, TypeOK, CallsTypeOK, MuteCalls
<1>2. CASE RunnerEnds(c)
  BY <1>1, <1>2 DEF RunnerEnds, RunnerInv, RunnersKnown, OneRunner, RunnersOf
<1>3. CASE ~RunnerEnds(c)
  <2>1. /\ driver' = [driver EXCEPT ![c] = MuteRequest(r.target, pending[r.target])]
        /\ ~r.stale /\ UNCHANGED <<runners, lateEnd>>
    BY <1>3 DEF DriveMute, MuteFails, MuteConfirmed
  <2>2. driver'[c].target = r.target
        /\ \A d \in Taps \ {c} : driver'[d] = driver[d]
    BY <1>1, <2>1 DEF MuteRequest
  <2> QED  BY <1>1, <2>1, <2>2 DEF RunnerInv, RunnersKnown, OneRunner, RunnersOf
<1> QED  BY <1>2, <1>3

LEMMA AnswerRunner ==
    ASSUME TypeOK, RunnerInv, NEW c \in Taps, AnswerMute(c)
    PROVE  RunnerInv'
<1>1. PICK answer \in Answers : driver' = [driver EXCEPT ![c].answer = answer]
  BY DEF AnswerMute
<1>2. driver \in [Taps -> MuteCalls \cup {None}] /\ driver[c] # None /\ UNCHANGED <<runners, lateEnd>>
  BY DEF AnswerMute, TypeOK, CallsTypeOK
<1>3. /\ driver'[c].target = driver[c].target /\ driver'[c].stale = driver[c].stale
      /\ \A d \in Taps \ {c} : driver'[d] = driver[d]
  BY <1>1, <1>2 DEF MuteCalls
<1> QED  BY <1>2, <1>3 DEF RunnerInv, RunnersKnown, OneRunner, RunnersOf

LEMMA RunnerStep == TypeOK /\ RunnerInv /\ [Next]_vars => RunnerInv'
<1> SUFFICES ASSUME TypeOK, RunnerInv, [Next]_vars PROVE RunnerInv'
  OBVIOUS
<1>1. CASE UNCHANGED <<driver, runners, lateEnd>>
  BY <1>1, SameRunners
<1>2. CASE Wipe \/ RecoveryWipe
  <2>1. \A c \in Taps : driver'[c] = None \/ driver'[c].stale
    BY <1>2 DEF Wipe, RecoveryWipe, ClearNotificationSyncState, Stale, TypeOK, CallsTypeOK, MuteCalls
  <2> QED  BY <2>1 DEF RunnerInv, RunnersKnown, OneRunner, RunnersOf
<1>3. CASE Restart
  BY <1>3 DEF Restart, RunnerInv, RunnersKnown, OneRunner, RunnersOf
<1>4. \/ UNCHANGED <<driver, runners, lateEnd>>
      \/ \E t \in Targets : ToggleMute(t)
      \/ \E c \in Taps : DriveMute(c) \/ AnswerMute(c)
      \/ Wipe \/ RecoveryWipe \/ Restart
  <2>1. CASE Server
    BY <2>1 DEF Server, AnswerPref, AnswerDrain, ReadMutes, ReadPrefs, ReadFails, history
  <2>2. CASE App
    BY <2>2 DEF App, SetPref, DrivePref, Drain, ApplySync, ForegroundSync, PostAuthSync, SyncStarts, history
  <2>3. CASE Environment
    BY <2>3 DEF Environment, SignIn, StartWipe, ClearAuth, ForgetAccount
  <2>4. CASE UNCHANGED vars
    BY <2>4 DEF vars, history
  <2> QED  BY <2>1, <2>2, <2>3, <2>4 DEF Next
<1> QED  BY <1>1, <1>2, <1>3, <1>4, ToggleRunner, DriveRunner, AnswerRunner

\* However taps, answers and sign-outs interleave, two live runners never work on one target,
\* as long as no runner of an earlier session has deleted the entry of a later one.
THEOREM OneRunnerAlways == Spec => []OneRunner
<1>1. Init => RunnerInv
  BY DEF Init, Idle, RunnerInv, RunnersKnown, OneRunner, RunnersOf
<1>2. RunnerInv => OneRunner
  BY DEF RunnerInv
<1> QED  BY <1>1, <1>2, InitType, TypeStep, RunnerStep, PTL DEF Spec

-----------------------------------------------------------------------------
(* Every latch is held by a call that will let go of it.                    *)

RunnersHeld == \A t \in runners : RunnersOf(t) # {}

SettersOf(k) == {c \in Taps : setter[c] # None /\ ~setter[c].stale /\ setter[c].key = k}

IntentsHeld == \A k \in Keys : intents[k] # None => SettersOf(k) # {}

LiveDrains == {s \in Drains : ~sync[s].orphan}

DrainHeld == (draining => LiveDrains # {}) /\ (rerun => draining)

\* What makes a tap, a preference or a drain leave its work to another call names a call of
\* this session that is in flight.
LatchesHeld == RunnersHeld /\ IntentsHeld /\ DrainHeld

\* A tap enters the runner it starts, and a runner that ends leaves no entry behind.
LEMMA ToggleHeld ==
    ASSUME TypeOK, RunnersHeld, NEW t \in Targets, ToggleMute(t)
    PROVE  RunnersHeld'
<1> DEFINE op == [muted |-> muted[t] = None, owner |-> userId, attempts |-> 0]
<1>1. CASE UNCHANGED <<driver, runners>>
  BY <1>1 DEF RunnersHeld, RunnersOf
<1>2. CASE t \notin runners
  <2>1. PICK c \in Free(driver) : driver' = [driver EXCEPT ![c] = MuteRequest(t, op)]
    BY <1>2 DEF ToggleMute, HasRunner
  <2>2. c \in Taps /\ driver[c] = None /\ driver'[c] = MuteRequest(t, op)
        /\ \A d \in Taps \ {c} : driver'[d] = driver[d]
    BY <2>1 DEF Free, TypeOK, CallsTypeOK
  <2>3. driver'[c].target = t /\ driver'[c].stale = FALSE
    BY <2>2 DEF MuteRequest
  <2>4. driver'[c] # None
    <3>1. op \in Ops /\ userId \in Users \cup {None}
      BY DEF ToggleMute, CanTap, TypeOK, AccountTypeOK, Ops
    <3> HIDE DEF op
    <3>2. MuteRequest(t, op) \in MuteCalls
      BY <3>1, MuteRequestType
    <3> QED  BY <2>2, <3>2, CallsAssumption
  <2>5. runners' = runners \cup {t}
    BY <1>2 DEF ToggleMute, HasRunner
  <2> HIDE DEF op
  <2> QED  BY <2>2, <2>3, <2>4, <2>5 DEF RunnersHeld, RunnersOf
<1> QED  BY <1>1, <1>2 DEF ToggleMute, HasRunner

LEMMA DriveHeld ==
    ASSUME TypeOK, RunnersHeld, NEW c \in Taps, DriveMute(c)
    PROVE  RunnersHeld'
<1> DEFINE r == driver[c]
<1>1. r # None /\ r.target \in Targets /\ driver \in [Taps -> MuteCalls \cup {None}]
  BY DEF DriveMute, TypeOK, CallsTypeOK, MuteCalls
<1>2. CASE RunnerEnds(c)
  <2>1. runners' = runners \ {r.target} /\ \A d \in Taps \ {c} : driver'[d] = driver[d]
    BY <1>1, <1>2 DEF RunnerEnds
  <2> SUFFICES ASSUME NEW t \in runners' PROVE RunnersOf(t)' # {}
    BY DEF RunnersHeld
  <2>2. PICK d \in Taps : driver[d] # None /\ ~driver[d].stale /\ driver[d].target = t
    BY <2>1 DEF RunnersHeld, RunnersOf
  <2>3. d # c
    BY <2>1, <2>2
  <2> QED  BY <2>1, <2>2, <2>3 DEF RunnersOf
<1>3. CASE ~RunnerEnds(c)
  <2>1. /\ driver' = [driver EXCEPT ![c] = MuteRequest(r.target, pending[r.target])]
        /\ runners' = runners /\ pending[r.target] # None
    BY <1>3 DEF DriveMute, MuteFails, MuteConfirmed, Settled
  <2>2. pending[r.target] \in Ops /\ userId \in Users \cup {None}
    BY <1>1, <2>1 DEF TypeOK, StoreTypeOK, AccountTypeOK, Queues
  <2>3. MuteRequest(r.target, pending[r.target]) \in MuteCalls
    BY <1>1, <2>2, MuteRequestType
  <2>4. /\ driver'[c] # None /\ driver'[c].target = r.target /\ driver'[c].stale = FALSE
        /\ \A d \in Taps \ {c} : driver'[d] = driver[d]
    <3>1. driver'[c] = MuteRequest(r.target, pending[r.target])
      BY <1>1, <2>1
    <3> QED  BY <1>1, <2>1, <2>3, <3>1, CallsAssumption DEF MuteRequest
  <2> QED  BY <1>1, <2>1, <2>4 DEF RunnersHeld, RunnersOf
<1> QED  BY <1>2, <1>3

LEMMA AnswerHeld ==
    ASSUME TypeOK, RunnersHeld, NEW c \in Taps, AnswerMute(c)
    PROVE  RunnersHeld'
<1>1. PICK answer \in Answers : driver' = [driver EXCEPT ![c].answer = answer]
  BY DEF AnswerMute
<1>2. driver \in [Taps -> MuteCalls \cup {None}] /\ driver[c] # None /\ runners' = runners
  BY DEF AnswerMute, TypeOK, CallsTypeOK
<1>3. /\ driver'[c].target = driver[c].target /\ driver'[c].stale = driver[c].stale
      /\ driver'[c] \in MuteCalls
      /\ \A d \in Taps \ {c} : driver'[d] = driver[d]
  BY <1>1, <1>2 DEF MuteCalls
<1>4. driver'[c] # None
  BY <1>3, CallsAssumption
<1> QED  BY <1>2, <1>3, <1>4 DEF RunnersHeld, RunnersOf

LEMMA SetPrefHeld ==
    ASSUME TypeOK, IntentsHeld, NEW k \in Keys, SetPref(k)
    PROVE  IntentsHeld'
<1> DEFINE value == ~prefs[k]
<1>1. /\ \A j \in Keys \ {k} : intents'[j] = intents[j]
      /\ setter \in [Taps -> PrefCalls \cup {None}]
  BY DEF SetPref, TypeOK, ModuleTypeOK, CallsTypeOK
<1>2. CASE intents[k] # None
  <2>1. setter' = setter
    BY <1>2 DEF SetPref
  <2> QED  BY <1>1, <1>2, <2>1 DEF IntentsHeld, SettersOf
<1>3. CASE intents[k] = None
  <2>1. PICK c \in Free(setter) : setter' = [setter EXCEPT ![c] = PrefRequest(k, value, prefs[k])]
    BY <1>3 DEF SetPref
  <2>2. /\ c \in Taps /\ setter[c] = None /\ setter'[c] = PrefRequest(k, value, prefs[k])
        /\ \A d \in Taps \ {c} : setter'[d] = setter[d]
    BY <1>1, <2>1 DEF Free
  <2>3. PrefRequest(k, value, prefs[k]) \in PrefCalls
    BY DEF PrefRequest, PrefCalls, TypeOK, StoreTypeOK, AccountTypeOK
  <2>4. setter'[c] # None
    BY <2>2, <2>3, CallsAssumption
  <2>5. setter'[c].key = k /\ setter'[c].stale = FALSE
    BY <2>2 DEF PrefRequest
  <2> HIDE DEF value
  <2> QED  BY <1>1, <2>2, <2>4, <2>5 DEF IntentsHeld, SettersOf
<1> QED  BY <1>2, <1>3

LEMMA DrivePrefHeld ==
    ASSUME TypeOK, IntentsHeld, NEW c \in Taps, DrivePref(c)
    PROVE  IntentsHeld'
<1> DEFINE r == setter[c]
<1>1. /\ r # None /\ r \in PrefCalls /\ r.key \in Keys /\ setter \in [Taps -> PrefCalls \cup {None}]
      /\ intents \in [Keys -> BOOLEAN \cup {None}]
  BY DEF DrivePref, TypeOK, CallsTypeOK, ModuleTypeOK, PrefCalls
<1>2. CASE SetterEnds(c)
  <2>1. /\ \A d \in Taps \ {c} : setter'[d] = setter[d]
        /\ intents'[r.key] = None /\ \A k \in Keys \ {r.key} : intents'[k] = intents[k]
    BY <1>1, <1>2 DEF SetterEnds
  <2> SUFFICES ASSUME NEW k \in Keys, intents'[k] # None PROVE SettersOf(k)' # {}
    BY DEF IntentsHeld
  <2>2. PICK d \in Taps : setter[d] # None /\ ~setter[d].stale /\ setter[d].key = k
    BY <2>1 DEF IntentsHeld, SettersOf
  <2>3. d # c
    BY <2>1, <2>2
  <2> QED  BY <2>1, <2>2, <2>3 DEF SettersOf
<1>3. CASE ~SetterEnds(c)
  <2>1. /\ setter' = [setter EXCEPT ![c] = PrefRequest(r.key, intents[r.key], r.value)]
        /\ intents' = intents /\ intents[r.key] # None
    BY <1>3 DEF DrivePref
  <2>2. PrefRequest(r.key, intents[r.key], r.value) \in PrefCalls
    BY <1>1, <2>1 DEF PrefRequest, PrefCalls, TypeOK, AccountTypeOK
  <2>3. setter'[c] = PrefRequest(r.key, intents[r.key], r.value)
    BY <1>1, <2>1
  <2>4. /\ setter'[c] # None /\ setter'[c].key = r.key /\ setter'[c].stale = FALSE
        /\ \A d \in Taps \ {c} : setter'[d] = setter[d]
    BY <1>1, <2>1, <2>2, <2>3, CallsAssumption DEF PrefRequest
  <2> QED  BY <1>1, <2>1, <2>4 DEF IntentsHeld, SettersOf
<1> QED  BY <1>2, <1>3

LEMMA AnswerPrefHeld ==
    ASSUME TypeOK, IntentsHeld, NEW c \in Taps, AnswerPref(c)
    PROVE  IntentsHeld'
<1>1. PICK answer \in {"ok", "retry"} : setter' = [setter EXCEPT ![c].answer = answer]
  BY DEF AnswerPref
<1>2. setter \in [Taps -> PrefCalls \cup {None}] /\ setter[c] # None /\ intents' = intents
  BY DEF AnswerPref, TypeOK, CallsTypeOK
<1>3. /\ setter'[c].key = setter[c].key /\ setter'[c].stale = setter[c].stale
      /\ setter'[c] \in PrefCalls
      /\ \A d \in Taps \ {c} : setter'[d] = setter[d]
  BY <1>1, <1>2 DEF PrefCalls
<1>4. setter'[c] # None
  BY <1>3, CallsAssumption
<1> QED  BY <1>2, <1>3, <1>4 DEF IntentsHeld, SettersOf

\* The pass of s ends with the flags down, or goes on with a drain of this session.
PassHeld(s) ==
    \/ draining' = FALSE /\ rerun' = FALSE
    \/ /\ draining' = draining /\ rerun' \in {FALSE, rerun}
       /\ \E n \in DrainCalls : n.orphan = FALSE /\ sync' = [sync EXCEPT ![s] = n]

LEMMA RequestIsDrain ==
    ASSUME NEW q \in Queues, NEW user \in Users \cup {None}, NEW todo \in SUBSET Targets,
           NEW cleared \in SUBSET Targets, NEW pass \in Passes(q, user, todo, cleared),
           pass.next # None, NEW stale \in BOOLEAN, userId \in Users \cup {None}
    PROVE  /\ DrainRequest(q, user, pass, stale) \in DrainCalls
           /\ DrainRequest(q, user, pass, stale).orphan = FALSE
<1>1. GoesOnWith(DrainRequest(q, user, pass, stale), q, user, stale)
  BY DrainRequestType
<1>2. DrainRequest(q, user, pass, stale).stage = "drain" /\ ReadRequests(stale).stage = "read"
  BY DEF DrainRequest, ReadRequests
<1> QED  BY <1>1, <1>2 DEF GoesOnWith

LEMMA PassEndsHeld ==
    ASSUME NEW s \in Syncs, NEW q \in Queues, NEW stale \in BOOLEAN,
           userId \in Users \cup {None}, ModuleTypeOK, PassEnds(s, q, stale)
    PROVE  PassHeld(s)
<1>1. CASE ~rerun
  BY <1>1 DEF PassEnds, DrainEnds, PassHeld, ModuleTypeOK
<1>2. CASE rerun
  <2>1. Queued(q) \in SUBSET Targets /\ {} \in SUBSET Targets
    BY DEF Queued
  <2>2. PICK pass \in Passes(q, userId, Queued(q), {}) :
          IF pass.next = None
            THEN DrainEnds(s, q, pass.cleared, stale)
            ELSE /\ pending' = q /\ UNCHANGED draining
                 /\ sync' = [sync EXCEPT ![s] = DrainRequest(q, userId, pass, stale)]
    BY <1>2 DEF PassEnds, Pass
  <2>3. rerun' = FALSE
    BY <1>2 DEF PassEnds
  <2>4. CASE pass.next = None
    BY <2>2, <2>3, <2>4 DEF DrainEnds, PassHeld
  <2>5. CASE pass.next # None
    <3>1. /\ DrainRequest(q, userId, pass, stale) \in DrainCalls
          /\ DrainRequest(q, userId, pass, stale).orphan = FALSE
      BY <2>1, <2>5, RequestIsDrain
    <3> QED  BY <2>2, <2>3, <2>5, <3>1 DEF PassHeld
  <2> QED  BY <2>4, <2>5
<1> QED  BY <1>1, <1>2

LEMMA PassGoesOnHeld ==
    ASSUME NEW s \in Syncs, NEW r \in DrainCalls, NEW cleared \in SUBSET Targets,
           pending \in Queues, userId \in Users \cup {None}, ModuleTypeOK,
           PassGoesOn(s, r, cleared)
    PROVE  PassHeld(s)
<1>1. r.user \in Users /\ r.todo \in SUBSET Targets /\ r.stale \in BOOLEAN
  BY DEF DrainCalls
<1>2. PICK pass \in Passes(pending, r.user, r.todo, cleared) :
        IF pass.next = None
          THEN PassEnds(s, Without(pending, pass.cleared), r.stale)
          ELSE /\ UNCHANGED <<pending, flags>>
               /\ sync' = [sync EXCEPT ![s] = DrainRequest(pending, r.user, pass, r.stale)]
  BY DEF PassGoesOn
<1>3. CASE pass.next = None
  <2>1. Without(pending, pass.cleared) \in Queues
    BY WithoutType
  <2> QED  BY <1>1, <1>2, <1>3, <2>1, PassEndsHeld
<1>4. CASE pass.next # None
  <2>1. /\ DrainRequest(pending, r.user, pass, r.stale) \in DrainCalls
        /\ DrainRequest(pending, r.user, pass, r.stale).orphan = FALSE
    BY <1>1, <1>4, RequestIsDrain
  <2> QED  BY <1>2, <1>4, <2>1 DEF PassHeld, flags
<1> QED  BY <1>3, <1>4

\* A live drain that is put in a slot keeps the flags of a drain.
LEMMA DrainPutHeld ==
    ASSUME TypeOK, NEW s \in Syncs, NEW n \in DrainCalls, n.orphan = FALSE,
           sync' = [sync EXCEPT ![s] = n]
    PROVE  LiveDrains' # {}
<1>1. sync'[s] = n /\ n # None /\ n.stage = "drain"
  BY CallsAssumption DEF TypeOK, CallsTypeOK, DrainCalls
<1> QED  BY <1>1 DEF LiveDrains, Drains

LEMMA DrainStepHeld ==
    ASSUME TypeOK, DrainHeld, NEW s \in Syncs, Drain(s)
    PROVE  DrainHeld'
<1> DEFINE r == sync[s]
<1>1. r \in DrainCalls
  BY DEF Drain, TypeOK, CallsTypeOK, SyncCalls, ReadCalls
<1>2. /\ r.stale \in BOOLEAN /\ r.target \in Targets
      /\ r.cleared \in SUBSET Targets /\ r.cleared \cup {r.target} \in SUBSET Targets
  BY <1>1 DEF DrainCalls
<1>3. Bumped(r.target) \in Queues
  BY <1>2 DEF Bumped, TypeOK, StoreTypeOK, Queues, Ops
<1>4. Without(Bumped(r.target), r.cleared) \in Queues
  BY <1>3, WithoutType
<1>5. \/ \E cleared \in SUBSET Targets : PassGoesOn(s, r, cleared)
      \/ \E q \in Queues : PassEnds(s, q, r.stale)
  BY <1>2, <1>4, WithoutType DEF Drain, DrainResumes, TypeOK, StoreTypeOK
<1>6. PassHeld(s)
  <2>1. CASE \E cleared \in SUBSET Targets : PassGoesOn(s, r, cleared)
    BY <1>1, <2>1, PassGoesOnHeld DEF TypeOK, StoreTypeOK, AccountTypeOK
  <2>2. CASE \E q \in Queues : PassEnds(s, q, r.stale)
    BY <1>2, <2>2, PassEndsHeld DEF TypeOK, AccountTypeOK
  <2> QED  BY <1>5, <2>1, <2>2
<1>7. CASE draining' = FALSE /\ rerun' = FALSE
  BY <1>7 DEF DrainHeld
<1>8. CASE ~(draining' = FALSE /\ rerun' = FALSE)
  <2>1. PICK n \in DrainCalls : n.orphan = FALSE /\ sync' = [sync EXCEPT ![s] = n]
    BY <1>6, <1>8 DEF PassHeld
  <2>2. LiveDrains' # {}
    BY <2>1, DrainPutHeld
  <2>3. draining' = draining /\ rerun' \in {FALSE, rerun}
    BY <1>6, <1>8 DEF PassHeld
  <2>4. rerun' => draining'
    <3>1. CASE rerun' = FALSE
      BY <3>1
    <3>2. CASE rerun' = rerun
      BY <2>3, <3>2 DEF DrainHeld
    <3> QED  BY <2>3, <3>1, <3>2
  <2> QED  BY <2>2, <2>4 DEF DrainHeld
<1> QED  BY <1>7, <1>8

\* What happens to a call that is not a live drain leaves the live drains where they are.
LEMMA LiveDrainsKept ==
    ASSUME \A d \in LiveDrains : sync'[d] = sync[d]
    PROVE  LiveDrains # {} => LiveDrains' # {}
BY DEF LiveDrains, Drains

LEMMA SyncStartsHeld ==
    ASSUME TypeOK, DrainHeld, SyncStarts
    PROVE  DrainHeld'
<1>1. /\ userId \in Users \cup {None} /\ pending \in Queues
      /\ sync \in [Syncs -> SyncCalls \cup {None}]
  BY DEF TypeOK, AccountTypeOK, StoreTypeOK, CallsTypeOK
<1>2. PICK s \in Free(sync) :
        \/ /\ draining /\ rerun' = TRUE
           /\ sync' = [sync EXCEPT ![s] = ReadRequests(FALSE)]
           /\ UNCHANGED <<pending, draining>>
        \/ /\ ~draining /\ rerun' = FALSE
           /\ \E pass \in Passes(pending, userId, Queued(pending), {}) :
                IF pass.next = None
                  THEN DrainEnds(s, pending, pass.cleared, FALSE)
                  ELSE /\ draining' = TRUE /\ UNCHANGED pending
                       /\ sync' = [sync EXCEPT ![s] = DrainRequest(pending, userId, pass, FALSE)]
  BY DEF SyncStarts
<1>3. s \in Syncs /\ sync[s] = None
  BY <1>1 DEF Free
<1>4. CASE draining
  <2>1. draining' = draining /\ sync' = [sync EXCEPT ![s] = ReadRequests(FALSE)]
    BY <1>2, <1>4
  <2>2. \A d \in LiveDrains : sync'[d] = sync[d]
    BY <1>1, <1>3, <2>1 DEF LiveDrains, Drains
  <2> QED  BY <1>4, <2>1, <2>2, LiveDrainsKept DEF DrainHeld
<1>5. CASE ~draining
  <2>1. Queued(pending) \in SUBSET Targets /\ {} \in SUBSET Targets
    BY DEF Queued
  <2>2. PICK pass \in Passes(pending, userId, Queued(pending), {}) :
          IF pass.next = None
            THEN DrainEnds(s, pending, pass.cleared, FALSE)
            ELSE /\ draining' = TRUE /\ UNCHANGED pending
                 /\ sync' = [sync EXCEPT ![s] = DrainRequest(pending, userId, pass, FALSE)]
    BY <1>2, <1>5
  <2>3. rerun' = FALSE
    BY <1>2, <1>5
  <2>4. CASE pass.next = None
    BY <2>2, <2>3, <2>4 DEF DrainEnds, DrainHeld
  <2>5. CASE pass.next # None
    <3>1. /\ DrainRequest(pending, userId, pass, FALSE) \in DrainCalls
          /\ DrainRequest(pending, userId, pass, FALSE).orphan = FALSE
      BY <1>1, <2>1, <2>5, RequestIsDrain
    <3>2. LiveDrains' # {}
      BY <1>3, <2>2, <2>5, <3>1, DrainPutHeld
    <3> QED  BY <2>2, <2>3, <2>5, <3>2 DEF DrainHeld
  <2> QED  BY <2>4, <2>5
<1> QED  BY <1>4, <1>5

LEMMA AnswerDrainHeld ==
    ASSUME TypeOK, DrainHeld, NEW s \in Syncs, AnswerDrain(s)
    PROVE  DrainHeld'
<1>1. PICK answer \in Answers : sync' = [sync EXCEPT ![s].answer = answer]
  BY DEF AnswerDrain
<1>2. /\ sync \in [Syncs -> SyncCalls \cup {None}] /\ sync[s] \in DrainCalls
      /\ draining' = draining /\ rerun' = rerun
  BY DEF AnswerDrain, TypeOK, CallsTypeOK, SyncCalls, ReadCalls, flags
<1>3. /\ sync'[s].orphan = sync[s].orphan /\ sync'[s].stage = "drain" /\ sync'[s] \in DrainCalls
      /\ \A d \in Syncs \ {s} : sync'[d] = sync[d]
  BY <1>1, <1>2 DEF DrainCalls
<1>4. sync'[s] # None
  BY <1>3, CallsAssumption
<1> QED  BY <1>2, <1>3, <1>4 DEF DrainHeld, LiveDrains, Drains

LEMMA ReadsHeld ==
    ASSUME TypeOK, DrainHeld, NEW s \in Syncs,
           ReadMutes(s) \/ ReadPrefs(s) \/ ReadFails(s) \/ ApplySync(s)
    PROVE  DrainHeld'
<1>1. /\ sync[s].stage = "read" /\ \A d \in Syncs \ {s} : sync'[d] = sync[d]
      /\ draining' = draining /\ rerun' = rerun
  <2>1. sync \in [Syncs -> SyncCalls \cup {None}]
    BY DEF TypeOK, CallsTypeOK
  <2>2. CASE ReadMutes(s) \/ ReadPrefs(s)
    BY <2>1, <2>2 DEF ReadMutes, ReadPrefs, Reading, flags
  <2>3. CASE ReadFails(s)
    BY <2>1, <2>3 DEF ReadFails, Reading, flags
  <2>4. CASE ApplySync(s)
    BY <2>1, <2>4 DEF ApplySync, flags
  <2> QED  BY <2>2, <2>3, <2>4
<1>2. \A d \in LiveDrains : sync'[d] = sync[d]
  BY <1>1 DEF LiveDrains, Drains
<1> QED  BY <1>1, <1>2, LiveDrainsKept DEF DrainHeld

LEMMA LatchesStep == TypeOK /\ LatchesHeld /\ [Next]_vars => LatchesHeld'
<1> SUFFICES ASSUME TypeOK, LatchesHeld, [Next]_vars PROVE LatchesHeld'
  OBVIOUS
<1> USE DEF LatchesHeld
<1>1. CASE Wipe \/ RecoveryWipe \/ Restart
  <2>1. /\ runners' = {} /\ intents' = [k \in Keys |-> None]
        /\ draining' = FALSE /\ rerun' = FALSE
    BY <1>1 DEF Wipe, RecoveryWipe, Restart, ClearNotificationSyncState
  <2> QED  BY <2>1 DEF RunnersHeld, IntentsHeld, DrainHeld
<1>2. CASE ~(Wipe \/ RecoveryWipe \/ Restart)
  <2>1. RunnersHeld'
    <3>1. \/ UNCHANGED <<driver, runners>>
          \/ \E t \in Targets : ToggleMute(t)
          \/ \E c \in Taps : DriveMute(c) \/ AnswerMute(c)
      <4>1. CASE Server
        BY <4>1 DEF Server, AnswerPref, AnswerDrain, ReadMutes, ReadPrefs, ReadFails
      <4>2. CASE App
        BY <4>2 DEF App, SetPref, DrivePref, Drain, ApplySync, ForegroundSync, PostAuthSync, SyncStarts
      <4>3. CASE Environment
        BY <1>2, <4>3 DEF Environment, SignIn, StartWipe, ClearAuth, ForgetAccount
      <4>4. CASE UNCHANGED vars
        BY <4>4 DEF vars
      <4> QED  BY <4>1, <4>2, <4>3, <4>4 DEF Next
    <3>2. CASE UNCHANGED <<driver, runners>>
      BY <3>2 DEF RunnersHeld, RunnersOf
    <3> QED  BY <3>1, <3>2, ToggleHeld, DriveHeld, AnswerHeld
  <2>2. IntentsHeld'
    <3>1. \/ UNCHANGED <<setter, intents>>
          \/ \E k \in Keys : SetPref(k)
          \/ \E c \in Taps : DrivePref(c) \/ AnswerPref(c)
      <4>1. CASE Server
        BY <4>1 DEF Server, AnswerMute, AnswerDrain, ReadMutes, ReadPrefs, ReadFails
      <4>2. CASE App
        BY <4>2 DEF App, ToggleMute, DriveMute, Drain, ApplySync, ForegroundSync, PostAuthSync, SyncStarts
      <4>3. CASE Environment
        BY <1>2, <4>3 DEF Environment, SignIn, StartWipe, ClearAuth, ForgetAccount
      <4>4. CASE UNCHANGED vars
        BY <4>4 DEF vars
      <4> QED  BY <4>1, <4>2, <4>3, <4>4 DEF Next
    <3>2. CASE UNCHANGED <<setter, intents>>
      BY <3>2 DEF IntentsHeld, SettersOf
    <3> QED  BY <3>1, <3>2, SetPrefHeld, DrivePrefHeld, AnswerPrefHeld
  <2>3. DrainHeld'
    <3>1. \/ UNCHANGED <<sync, draining, rerun>>
          \/ SyncStarts
          \/ \E s \in Syncs : \/ Drain(s) \/ AnswerDrain(s)
                              \/ ReadMutes(s) \/ ReadPrefs(s) \/ ReadFails(s) \/ ApplySync(s)
      <4>1. CASE Server
        BY <4>1 DEF Server, AnswerMute, AnswerPref, flags
      <4>2. CASE App
        BY <4>2 DEF App, ToggleMute, SetPref, DriveMute, DrivePref, ForegroundSync, PostAuthSync, flags
      <4>3. CASE Environment
        BY <1>2, <4>3 DEF Environment, SignIn, StartWipe, ClearAuth, ForgetAccount, flags
      <4>4. CASE UNCHANGED vars
        BY <4>4 DEF vars, flags
      <4> QED  BY <4>1, <4>2, <4>3, <4>4 DEF Next
    <3>2. CASE UNCHANGED <<sync, draining, rerun>>
      BY <3>2 DEF DrainHeld, LiveDrains, Drains
    <3> QED  BY <3>1, <3>2, DrainStepHeld, SyncStartsHeld, AnswerDrainHeld, ReadsHeld
  <2> QED  BY <2>1, <2>2, <2>3
<1> QED  BY <1>1, <1>2

\* A runner's entry, a preference's intent, the flag of a drain and the request for one more
\* pass are never left behind: whoever defers to them has a call of this session to defer to,
\* through wipes, restarts and runners of earlier sessions that end late (toggleMute, setPref,
\* drainPendingMuteOps).  It is the safety half of Converges.
THEOREM LatchesHeldAlways == Spec => []LatchesHeld
<1>1. Init => LatchesHeld
  BY DEF Init, Idle, LatchesHeld, RunnersHeld, IntentsHeld, DrainHeld
<1> QED  BY <1>1, InitType, TypeStep, LatchesStep, PTL DEF Spec
=============================================================================
